\* One machine, two files of simulations/data, one of them in a dataset of its own.
SPECIFICATION Spec
CONSTANTS
  f = f
  g = g
  Hosts = {laptop}
  Sim <- SimFiles
  Raw = {}
  Results = {}
  Datasets <- SimDatasets
  MaxTime = 2
INVARIANT ManifestIsHonest
CHECK_DEADLOCK FALSE
