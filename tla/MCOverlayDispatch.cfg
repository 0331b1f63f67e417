SPECIFICATION ManagerSpec
CONSTANTS
  Base = 4
  End = 16
  f = f
  g = g
  Owner = {f, g}
  NoOwner = NoOwner
  Requests <- MCRequests
INVARIANTS RecordsAgree BaselineExact
PROPERTIES DeactivateRestoresBoot ActivationOwnsItsRanges
