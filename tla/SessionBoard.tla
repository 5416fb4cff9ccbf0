---------------------------- MODULE SessionBoard ----------------------------
(***************************************************************************)
(* What the manager promises whoever looks at `sm ls`: a board with one     *)
(* line per conversation, and an inbox of reports about them.  A report is   *)
(* applied in one step, to the line as it is then, at most once, or it has   *)
(* no effect.  There is no handler, no sweep and no table here: the daemon,  *)
(* which looks up, reads, judges and writes in separate statements, is to    *)
(* look like this from outside.                                            *)
(***************************************************************************)
EXTENDS SessionState, Naturals

CONSTANTS
  Conversation,
  Report  \* what may be reported: records of a number n, a conversation conv,
          \* a signal and a time t

VARIABLES
  board,  \* the status of each conversation, and when it last changed
  inbox   \* the reports that have not been applied yet

Blank == [status |-> NoState, last |-> 0]

Init ==
  /\ board = [c \in Conversation |-> Blank]
  /\ inbox = {}

Write(c, status, t) == board' = [board EXCEPT ![c] = [status |-> status, last |-> t]]

Submit(e) ==
  /\ inbox' = inbox \cup {e}
  /\ UNCHANGED board

\* The first report about a conversation puts it on the board.
Announce(e) ==
  /\ board[e.conv].status = NoState
  /\ Write(e.conv, "idle", e.t)
  /\ UNCHANGED inbox

\* A report no older than the line changes it as the state machine says.
Hear(e) ==
  LET next == Transition(board[e.conv].status, e.signal) IN
  /\ board[e.conv].status # NoState
  /\ e.t >= board[e.conv].last
  /\ next # NoState
  /\ Write(e.conv, next, e.t)
  /\ inbox' = inbox \ {e}

\* Reports that ask for nothing, that come too late or that are lost.
Pass ==
  /\ inbox' \in SUBSET inbox
  /\ UNCHANGED board

\* A conversation that has not ended is found to be gone.  The line keeps saying
\* when it was last heard of.
Bury(c) ==
  /\ board[c].status # NoState
  /\ ~IsTerminal(board[c].status)
  /\ Write(c, "dead", board[c].last)
  /\ UNCHANGED inbox

Next ==
  \/ \E e \in Report : Submit(e)
  \/ \E e \in inbox : Announce(e) \/ Hear(e)
  \/ Pass
  \/ \E c \in Conversation : Bury(c)

Spec == Init /\ [][Next]_<<board, inbox>>
=============================================================================
