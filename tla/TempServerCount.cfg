SPECIFICATION Spec
CONSTANTS
  Runs = {r1}
  Kinds = {"sftp"}
  Clients = {c1, c2}
  MaxEvents = 2
  NoRun = NoRun
INVARIANTS ShownIsCounted
CHECK_DEADLOCK FALSE
