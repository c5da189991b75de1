\* One machine, two files of simulations/data.
SPECIFICATION Spec
CONSTANTS
  f = f
  g = g
  Hosts = {laptop}
  Sim <- SimFiles
  Raw = {}
  Results = {}
  Datasets = {}
  MaxTime = 2
PROPERTY PruneTakesListed
CHECK_DEADLOCK FALSE
