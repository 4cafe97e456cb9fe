CONSTANTS
  Workers = {w1, w2}
  MaxTries = 5
  BootTime = 1
  MaxFaults = 3
SPECIFICATION Spec
INVARIANTS TypeOK CalmClusterServes BackoffInv
PROPERTIES PatientWorkers ClusterComesUp
