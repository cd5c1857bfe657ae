SPECIFICATION Spec
CONSTANTS
  Key = {k1, k2}
  Outcome = {h1, h2}
  Server = {srv}
  Command = {cmd}
  Caller = {c1, c2, c3}
  ProcOf <- MCProcOf
  Torn = Torn
  c1 = c1
  c2 = c2
  c3 = c3
  srv = srv
  cmd = cmd
INVARIANTS
  FileIsWhole
  AcceptedIsOnRecord
PROPERTIES
  FirstRunWins
