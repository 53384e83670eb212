SPECIFICATION FairPortSpec
CONSTANTS
  N = 2
  Lens = {2, 4}
  Budget = 2
  Guard = 1
  MaxWire = 4
INVARIANTS NoStaleReply SilentAfterInhibit
PROPERTIES TransactionsEnd
CHECK_DEADLOCK FALSE
