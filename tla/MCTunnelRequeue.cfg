SPECIFICATION Spec
CONSTANTS
  Tunnels = {a, b}
  Ports = {p}
  Adopters = {}
  Timed = {a, b}
  Foreground = {}
  Wall = 1
  Requeues = {a}
INVARIANT NothingStranded
