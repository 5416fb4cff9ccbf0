\* Two daemons, a restart or two rivals, and one event in flight while they start
\* and stop.  One slow event uses up the drain, as a backlog would.
CONSTANTS
  Daemon = {d1, d2}
  NoDaemon = noDaemon
  NoToken = noToken
  Client = {k1}
  NoClient = noClient
  DrainLimit = 1
SPECIFICATION FairSpec
INVARIANTS TypeOK FreshStartDropsNothing GracefulStopLosesNothing NoUseAfterClose ServedTokenReadable
PROPERTIES StopEnds
\* Every client may have sent its event and every daemon be gone.
CHECK_DEADLOCK FALSE
