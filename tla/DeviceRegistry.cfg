SPECIFICATION Spec
CONSTANTS
  NoKey = NoKey
  Handlers = {w1, w2}
  Accounts = {a1, a2}
  Serials = {s1}
  RegistrationEnabled = TRUE
CHECK_DEADLOCK FALSE
INVARIANTS RegisteredOnce PairedHasOwner SharedOnce
PROPERTIES OwnerlessStays
