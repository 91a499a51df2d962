------------------------------ MODULE MCLoader ------------------------------
(***************************************************************************)
(* Loader for TLC: files of every kind, programs whose lines are cut up    *)
(* in every way, and argument lists below, at and above the limits.        *)
(***************************************************************************)
EXTENDS Loader

Line(addr, len) == [addr |-> addr, len |-> len]
Name            == <<10, 11>>

Program(lines) == [kind |-> "program", name |-> Name, lines |-> lines]
Other(kind)    == [kind |-> kind, name |-> Name, lines |-> <<>>]

MCPrograms ==
  {Other(kind) : kind \in Kinds \ {"program"}} \cup
  {Program(<<Line(0, 2), Line(NoAddress, 4), Line(NoAddress, 3), Line(20, 2), Line(NoAddress, 4)>>),
   Program(<<Line(NoAddress, 4), Line(16, 4), Line(2, 1)>>),
   Program(<<Line(118, 4), Line(NoAddress, 5), Line(238, 4), Line(250, 1)>>),
   Program(<<>>)}

MCArgumentLists == UNION {[1 .. n -> {0, 35, 120}] : n \in 0 .. 3}
=============================================================================
