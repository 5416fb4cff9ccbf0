CONSTANTS
  Agents = {"claude", "opencode"}
  Title = {"a", "b"}
  NoTitle = ""
  MaxHooks = 5
  MaxTime = 1
SPECIFICATION Spec
CHECK_DEADLOCK FALSE
INVARIANT TypeOK
INVARIANT RowFollowsAgent
INVARIANT RowShowsTitle
INVARIANT StartsOnce
