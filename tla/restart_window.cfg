\* A daemon is started again with the token of the one before.
CONSTANTS
  Daemon = {d1, d2}
  NoDaemon = noDaemon
  NoToken = noToken
  Client = {k1}
  NoClient = noClient
  DrainLimit = 2
SPECIFICATION Spec
SYMMETRY Interchangeable
INVARIANTS ReadableTokenMeansSubscribed
\* Every client may have sent its event and every daemon be gone.
CHECK_DEADLOCK FALSE
