SPECIFICATION Spec
CONSTANTS
  Banks = {1, 2}
  Handlers = {h1, h2}
  Transactions = {1, 2, 3}
  BlockOf <- TwoAndOne
  Packets = {1, 3}
  Locks <- OneAccount
  MaxAttempts = 2
  MaxResets = 1
  a1 = a1
  Accounts = {a1}
  MaxRunning = 2
  MaxActive = 2
  NoCap = NoCap
INVARIANTS NoTaskIsLost RunsInItsSession VerdictIsRight ThreadsNeverPanic
PROPERTY SessionsEnd
CHECK_DEADLOCK FALSE
