SPECIFICATION Spec
CONSTANTS
  Tunnels = {a, b, c}
  Ports = {p}
  Adopters = {b}
  Timed = {a}
  Foreground = {b}
  Wall = 1
  Requeues = {c}
INVARIANTS TypeOK NothingStranded MasterAccounted
