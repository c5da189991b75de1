\* Two machines, two files of simulations/data and one of each other kind, three edits.
SPECIFICATION Spec
CONSTANTS
  f = f
  g = g
  Hosts = {laptop, hub}
  Sim <- SimFiles
  Raw = {r}
  Results = {o}
  Datasets = {}
  MaxTime = 3
SYMMETRY Alike
INVARIANTS TypeOK ManifestIsHonest
PROPERTIES OverwriteIsForced PullKeepsNewer PruneStaysInPlan
\* The owners stop at MaxTime edits, and every mu may be back at its prompt by then.
CHECK_DEADLOCK FALSE
