SPECIFICATION Spec
CONSTANTS
  c1 = c1
  c2 = c2
  A = A
  B = B
  Commands = {c1, c2}
  Projects = {A, B}
  Resolver = icompose0
  Bridge = br0
  Targets <- MCTargets
  Instances = {1}
  Cases <- MCCases
  MaxTries = 3
  MaxFaults = 1
  None = None
INVARIANTS Kept Served OneDaemon
PROPERTIES Ends
