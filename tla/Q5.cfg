CONSTANTS
  NumProcs = 6
  NumNs = {2}
  NumOs = {10}
  Temperatures = {100}
SPECIFICATION Spec
INVARIANTS AtomsConserved EnoughMolecules NoMissedSignal NoneLeftAsleep YieldAsEstimated
CHECK_DEADLOCK FALSE
