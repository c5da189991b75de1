\* Two mu that submit and sweep at once.
SPECIFICATION FairSpec
CONSTANTS
  Handles = {h1, h2}
  Procs = {p1, p2}
INVARIANTS TypeOK LiveKeepsScript ForgottenIsGone
PROPERTY EndedIsReaped
