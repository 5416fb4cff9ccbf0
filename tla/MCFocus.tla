------------------------------ MODULE MCFocus ------------------------------
EXTENDS Focus

\* A terminal, a second one started from the first, a tmux server with a client in
\* each of them, Orca with its daemon.  The second terminal may have been started in a
\* pane, whose marker the agents in it inherit.
Tree == [p \in {11, 12, 13, 14, 15, 16, 17} |->
           CASE p = 12 -> 11 [] p = 14 -> 11 [] p = 15 -> 12 [] OTHER -> 1]

AllPlaces == {[parent |-> 12, env |-> {}],
              [parent |-> 12, env |-> {"TMUX_PANE"}],
              [parent |-> 13, env |-> {"TMUX_PANE", "ORCA_TAB_ID"}],
              [parent |-> 17, env |-> {"ORCA_TAB_ID"}],
              [parent |-> 16, env |-> {"ORCA_AGENT_SESSION_ID"}]}

Owners == [w \in {"w1", "w2", "o"} |->
             CASE w = "w1" -> 11 [] w = "w2" -> 12 [] OTHER -> 16]

TabSession == [t \in {"t1", "t2", "t3"} |-> IF t = "t3" THEN "s2" ELSE "s1"]
PaneTab == [p \in {"p1", "p2", "p3", "p4"} |->
              CASE p = "p3" -> "t2" [] p = "p4" -> "t3" [] OTHER -> "t1"]

TwoShells == <<22, 23>>
=============================================================================
