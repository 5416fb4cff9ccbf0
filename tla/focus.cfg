CONSTANTS
  Desktop = {11, 12, 13, 14, 15, 16, 17}
  ParentOf <- Tree
  Agent = 21
  Shells <- TwoShells
  Hook = 24
  Places <- AllPlaces
  MaxShellWalk = 2
  Spawners = {11}
  MaxTicks = 3
  MaxBoots = 2
  Windows = {"w1", "w2", "o"}
  Owner <- Owners
  NoWindow = "none"
  Clients = {14, 15}
  Session = {"s1", "s2"}
  Tab = {"t1", "t2", "t3"}
  TabOf <- TabSession
  Panes = {"p1", "p2", "p3", "p4"}
  PaneOf <- PaneTab
  AgentPane = "p1"
  TmuxServer = 13
  OrcaApp = 16
  OrcaDaemon = 17
  MaxAncestorWalk = 4
  StartAttempts = 2
  MaxMoves = 1
SPECIFICATION Spec
INVARIANT TypeOK
INVARIANT FingerprintIsAgent
INVARIANT AliveIsTrue
PROPERTY OkShowsAgent
PROPERTY GoneMovesNothing
PROPERTY ViewersAreLeft
PROPERTY RaisedFirst
PROPERTY FocusEnds
