------------------------------- MODULE Focus -------------------------------
(***************************************************************************)
(* sm focus (internal/focus): from the fingerprint of a session to the       *)
(* window, the tmux pane, the Orca tab or the Orca chat of its agent.        *)
(*                                                                         *)
(* A step of the program is one call of an external program or one read of    *)
(* /proc, and any may fail.  Between two of them the user goes on with        *)
(* windows, tmux and Orca, and processes end: `touched` says that something   *)
(* of this has happened since the focus began.                              *)
(***************************************************************************)
EXTENDS Processes

CONSTANTS
  Windows, Owner, NoWindow,  \* windows of the desktop, and the pid that owns each
  Clients,                   \* the pids of tmux clients
  Session, Tab, TabOf,       \* tmux: sessions, windows, the session of each
  Panes, PaneOf,             \* tmux: panes, the window of each
  AgentPane,                 \* the pane that an agent's TMUX_PANE names
  TmuxServer, OrcaApp, OrcaDaemon,
  MaxAncestorWalk,           \* ancestors looked at (32)
  StartAttempts,             \* polls after Orca was started (20)
  MaxMoves                   \* bound on what the user does

Detached == "detached"

ASSUME FocusAssumption ==
  /\ NoWindow \notin Windows
  /\ Owner \in [Windows -> Desktop]
  /\ Clients \subseteq Desktop /\ {TmuxServer, OrcaApp, OrcaDaemon} \subseteq Desktop
  /\ TmuxServer # OrcaApp /\ TmuxServer # OrcaDaemon /\ OrcaApp # OrcaDaemon
  /\ Detached \notin Session
  /\ TabOf \in [Tab -> Session] /\ PaneOf \in [Panes -> Tab] /\ AgentPane \in Panes
  /\ MaxAncestorWalk \in Nat \ {0} /\ {StartAttempts, MaxMoves} \subseteq Nat

\* A tmux client has no window, and its terminal is not the Orca app.
ASSUME ClientsAssumption ==
  /\ \A w \in Windows : Owner[w] \notin Clients
  /\ \A c \in Clients : ParentOf[c] # OrcaApp

\* What the parent of an agent says of the place it runs in.
PlaceOf(parent) ==
  CASE parent = TmuxServer -> "pane"
    [] parent = OrcaDaemon -> "tab"
    [] parent = OrcaApp -> "chat"
    [] OTHER -> "bare"

\* What its environment says: a tmux inside Orca counts as tmux.
Told(env) ==
  IF "TMUX_PANE" \in env THEN "pane"
  ELSE IF "ORCA_TAB_ID" \in env THEN "tab"
  ELSE IF "ORCA_AGENT_SESSION_ID" \in env THEN "chat" ELSE "bare"

\* An agent without markers runs in a terminal that has a window.  Markers need not be
\* true: one that a terminal was started with goes on to the agents started in it.
ASSUME PlacesAssumption ==
  \A place \in Places :
    Told(place.env) = "bare" => \E w \in Windows : Owner[w] = place.parent

VARIABLES
  top, mapped,       \* the window in front; the windows there are
  attached, recent,  \* tmux: the session each client shows, the client used last
  curTab, curPane,   \* tmux: the current window of a session, pane of a window
  orca,              \* Orca: its app, its tabs, what it shows
  f,                 \* the focus process
  touched, moves

tmux == <<attached, curTab, curPane>>
screen == <<top, mapped, tmux, recent, orca>>
vars == <<procVars, screen, f, touched, moves>>

Steps == {"alive", "environ", "ancestors", "windows", "raise",
          "session", "viewers", "clients", "switch", "window", "pane",
          "list", "open", "relist", "tab", "find",
          "worktrees", "register", "reveal", "activate"}

Idle == [at |-> "idle", ok |-> FALSE, pid |-> 0, switch |-> FALSE, chain |-> <<>>,
         addr |-> NoWindow, tries |-> 0, launched |-> FALSE,
         raised |-> FALSE, gone |-> FALSE]

TypeOK ==
  /\ ProcTypeOK
  /\ mapped \subseteq Windows /\ top \in mapped \cup {NoWindow}
  /\ attached \in [Clients -> Session \cup {Detached}] /\ recent \in Clients
  /\ curTab \in [Session -> Tab] /\ \A s \in Session : TabOf[curTab[s]] = s
  /\ curPane \in [Tab -> Panes] /\ \A t \in Tab : PaneOf[curPane[t]] = t
  /\ orca \in [app : {"down", "starting", "up"}, tabs : SUBSET {"tab", "chat"},
               shown : {"tab", "chat", "other"}, worktree : {"own", "other"},
               registered : BOOLEAN]
  /\ f \in [at : Steps \cup {"idle"}, ok : BOOLEAN, pid : Pids \cup {0},
            switch : BOOLEAN, chain : Seq(Pids), addr : Windows \cup {NoWindow},
            tries : Nat, launched : BOOLEAN, raised : BOOLEAN, gone : BOOLEAN]
  /\ touched \in BOOLEAN /\ moves \in Nat

OrcaWindows == {w \in Windows : Owner[w] = OrcaApp}
AgentTab == PaneOf[AgentPane]
AgentSession == TabOf[AgentTab]

\* Where the agent runs, whatever its environment says; and where the environment says
\* it does, which is all that the code goes by (focus.go, Focus).
Where == PlaceOf(procs[Agent].parent)
Named == Told(procs[Agent].env)

\* The terminal that a client runs in has a window.
HasWindow(c, windows) == \E w \in windows : Owner[w] = ParentOf[c]

\* tmux is anything when the agent runs in it or has a pane's marker, and nobody's
\* otherwise.
TmuxInit ==
  /\ curTab \in {c \in [Session -> Tab] : \A s \in Session : TabOf[c[s]] = s}
  /\ curPane \in {c \in [Tab -> Panes] : \A t \in Tab : PaneOf[c[t]] = t}
  /\ attached \in [Clients -> Session \cup {Detached}]
  /\ \A c \in Clients : attached[c] # Detached => HasWindow(c, Windows)
  /\ recent \in Clients
  /\ "pane" \notin {Where, Named} =>
       /\ \A c \in Clients : attached[c] = Detached
       /\ recent = CHOOSE c \in Clients : TRUE
       /\ curTab = [s \in Session |-> CHOOSE t \in Tab : TabOf[t] = s]
       /\ curPane = [t \in Tab |-> CHOOSE p \in Panes : PaneOf[p] = t]

\* The chat of a running agent is open in a running app; a tab's agent lives under
\* the daemon, which outlives the app.
OrcaInit ==
  /\ orca \in [app : {"down", "up"}, tabs : {{}, {"tab"}, {"chat"}}, shown : {"other"},
               worktree : {"own", "other"}, registered : {FALSE}]
  /\ Where = "chat" => orca.app = "up" /\ orca.tabs = {"chat"}
  /\ Where = "tab" => orca.tabs = {"tab"}
  /\ {Where, Named} \subseteq {"bare", "pane"} =>
       orca.app = "down" /\ orca.tabs = {} /\ orca.worktree = "other"

Init ==
  /\ ProcInit /\ TmuxInit /\ OrcaInit
  /\ mapped = IF orca.app = "up" THEN Windows ELSE Windows \ OrcaWindows
  /\ top = NoWindow
  /\ f = Idle
  /\ touched = FALSE /\ moves = 0

---------------------------------------------------------------------------
(* The command.                                                            *)

Go(at) == f' = [f EXCEPT !.at = at]
Done(ok) == f' = [Idle EXCEPT !.ok = ok]

\* A step that looks and changes nothing but the program's own variables.
Looks == UNCHANGED <<procVars, screen, touched, moves>>

\* The row is read.  Until the hook has captured something it has no fingerprint.
Start ==
  /\ f.at = "idle"
  /\ climb.at = "done"
  /\ f' = [Idle EXCEPT !.at = "alive", !.gone = ~AgentRuns]
  /\ touched' = FALSE
  /\ UNCHANGED <<procVars, screen, moves>>

\* A slip: any process with the pid will do.
LookAliveByPid ==
  /\ f.at = "alive"
  /\ IF Running(id.pid) THEN f' = [f EXCEPT !.at = "environ", !.pid = id.pid] ELSE Done(FALSE)
  /\ Looks

LookAlive ==
  /\ f.at = "alive"
  /\ IF Alive(id) THEN f' = [f EXCEPT !.at = "environ", !.pid = id.pid] ELSE Done(FALSE)
  /\ Looks

FirstStep == [pane |-> "session", tab |-> "list", chat |-> "worktrees", bare |-> "ancestors"]

ReadEnviron ==
  /\ f.at = "environ"
  /\ IF Running(f.pid)
       THEN f' = [f EXCEPT !.at = FirstStep[Told(procs[f.pid].env)], !.chain = <<f.pid>>]
       ELSE Done(FALSE)
  /\ Looks

\* A slip: init is one of them.
WalkAncestorsAndInit ==
  /\ f.at = "ancestors"
  /\ LET pid == f.chain[Len(f.chain)]
         over == Len(f.chain) > MaxAncestorWalk \/ pid = Root
     IN  \/ over /\ Go("windows")
         \/ ~over /\ ~Running(pid) /\ Done(FALSE)
         \/ /\ ~over /\ Running(pid)
            /\ f' = [f EXCEPT !.chain = Append(@, procs[pid].parent)]
  /\ Looks

\* One ancestor more, up to init; a process that has gone has no parent to tell.
WalkAncestors ==
  /\ f.at = "ancestors"
  /\ LET pid == f.chain[Len(f.chain)]
         over == Len(f.chain) > MaxAncestorWalk
     IN  \/ over /\ Go("windows")
         \/ ~over /\ ~Running(pid) /\ Done(FALSE)
         \/ ~over /\ Running(pid) /\ procs[pid].parent = Root /\ Go("windows")
         \/ /\ ~over /\ Running(pid) /\ procs[pid].parent # Root
            /\ f' = [f EXCEPT !.chain = Append(@, procs[pid].parent)]
  /\ Looks

\* A slip: the furthest ancestor.
ListWindowsFurthest ==
  /\ f.at = "windows"
  /\ LET owners == {n \in DOMAIN f.chain : \E w \in mapped : Owner[w] = f.chain[n]}
     IN  \/ owners = {} /\ Done(FALSE)
         \/ \E n \in owners : \E w \in mapped :
              /\ \A m \in owners : n >= m
              /\ Owner[w] = f.chain[n]
              /\ f' = [f EXCEPT !.at = "raise", !.addr = w]
  /\ Looks

\* The window of the nearest ancestor that owns one; any of several.
ListWindows ==
  /\ f.at = "windows"
  /\ LET owners == {n \in DOMAIN f.chain : \E w \in mapped : Owner[w] = f.chain[n]}
     IN  \/ owners = {} /\ Done(FALSE)
         \/ \E n \in owners : \E w \in mapped :
              /\ \A m \in owners : n <= m
              /\ Owner[w] = f.chain[n]
              /\ f' = [f EXCEPT !.at = "raise", !.addr = w]
  /\ Looks

\* hyprctl may answer "ok" for a window that has been closed in the meantime.
RaiseWindow ==
  /\ f.at = "raise"
  /\ top' = IF f.addr \in mapped THEN f.addr ELSE top
  /\ IF f.pid \in Clients
       THEN f' = [f EXCEPT !.raised = TRUE, !.at = IF f.switch THEN "switch" ELSE "window"]
       ELSE Done(TRUE)
  /\ UNCHANGED <<procVars, mapped, tmux, recent, orca, touched, moves>>

---------------------------------------------------------------------------
(* tmux: a client that shows the agent's session, or the one used last.       *)

\* A slip: tmux is turned to the pane before the window is in front.
AskSessionAndSelect ==
  /\ f.at = "session"
  /\ Go("viewers")
  /\ curTab' = [curTab EXCEPT ![AgentSession] = AgentTab]
  /\ UNCHANGED <<procVars, top, mapped, attached, recent, curPane, orca, touched, moves>>

AskSession == f.at = "session" /\ Go("viewers") /\ Looks

\* The client used last among these, if it is one of them.
MostRecent(clients) == IF recent \in clients THEN {recent} ELSE clients

Pick(clients, switch) ==
  \E c \in MostRecent(clients) :
    f' = [f EXCEPT !.at = "ancestors", !.pid = c, !.switch = switch, !.chain = <<c>>]

\* A slip: the client used last is taken even when another shows the session.
ListViewersAny == f.at = "viewers" /\ Go("clients") /\ Looks

ListViewers ==
  /\ f.at = "viewers"
  /\ LET viewers == {c \in Clients : attached[c] = AgentSession}
     IN  IF viewers = {} THEN Go("clients") ELSE Pick(viewers, FALSE)
  /\ Looks

ListClients ==
  /\ f.at = "clients"
  /\ LET clients == {c \in Clients : attached[c] # Detached}
     IN  IF clients = {} THEN Done(FALSE) ELSE Pick(clients, TRUE)
  /\ Looks

SwitchClient ==
  /\ f.at = "switch"
  /\ IF attached[f.pid] = Detached
       THEN Done(FALSE) /\ UNCHANGED attached
       ELSE Go("window") /\ attached' = [attached EXCEPT ![f.pid] = AgentSession]
  /\ UNCHANGED <<procVars, top, mapped, recent, curTab, curPane, orca, touched, moves>>

SelectWindow ==
  /\ f.at = "window"
  /\ curTab' = [curTab EXCEPT ![AgentSession] = AgentTab]
  /\ Go("pane")
  /\ UNCHANGED <<procVars, top, mapped, attached, recent, curPane, orca, touched, moves>>

SelectPane ==
  /\ f.at = "pane"
  /\ curPane' = [curPane EXCEPT ![AgentTab] = AgentPane]
  /\ Done(TRUE)
  /\ UNCHANGED <<procVars, top, mapped, attached, recent, curTab, orca, touched, moves>>

---------------------------------------------------------------------------
(* Orca: a tab by the terminal list, a chat by three calls of the runtime.    *)

Up == orca.app = "up"
OrcaOnly == UNCHANGED <<procVars, top, mapped, tmux, recent, touched, moves>>

\* In the list the agent's tab is there or not.
Listed == IF "tab" \in orca.tabs THEN f' = [f EXCEPT !.at = "tab", !.tries = 0] ELSE Done(FALSE)

\* A list that fails is taken for an app that does not run.
ListTerminals ==
  /\ f.at = "list"
  /\ (Up /\ Listed) \/ Go("open")
  /\ Looks

OpenOrca ==
  /\ f.at = "open"
  /\ orca' = IF orca.app = "down" THEN [orca EXCEPT !.app = "starting"] ELSE orca
  /\ f' = [f EXCEPT !.at = "relist", !.launched = TRUE]
  /\ OrcaOnly

Retry == IF f.tries + 1 < StartAttempts THEN f' = [f EXCEPT !.tries = @ + 1] ELSE Done(FALSE)

\* A slip: it polls until Orca answers.
RelistForEver ==
  /\ f.at = "relist"
  /\ (Up /\ Listed) \/ (~Up /\ f' = [f EXCEPT !.tries = 1 - @])
  /\ Looks

RelistTerminals ==
  /\ f.at = "relist"
  /\ (Up /\ Listed) \/ Retry
  /\ Looks

\* Orca may not navigate, although the call succeeds.
SwitchTab ==
  /\ f.at = "tab"
  /\ \/ /\ Up /\ "tab" \in orca.tabs
        /\ orca' = [orca EXCEPT !.shown = "tab", !.worktree = "own"]
        /\ Go("find")
     \/ Done(FALSE) /\ UNCHANGED orca
  /\ OrcaOnly

FindOrcaWindow ==
  /\ f.at = "find"
  /\ \/ \E w \in OrcaWindows \cap mapped : f' = [f EXCEPT !.at = "raise", !.addr = w]
     \/ f.launched /\ Retry
     \/ ~f.launched /\ OrcaWindows \cap mapped = {} /\ Done(FALSE)
  /\ Looks

ListWorktrees ==
  /\ f.at = "worktrees"
  /\ IF Up /\ "chat" \in orca.tabs THEN Go("register") ELSE Done(FALSE)
  /\ Looks

RegisterChat ==
  /\ f.at = "register" /\ Up
  /\ orca' = [orca EXCEPT !.registered = TRUE]
  /\ Go("reveal")
  /\ OrcaOnly

\* The desktop shows the worktree of the chat, on whatever tab it was left.
RevealWorktree ==
  /\ f.at = "reveal"
  /\ \/ /\ Up
        /\ orca' = [orca EXCEPT !.worktree = "own",
                                !.shown = IF orca.worktree = "own" THEN @ ELSE "other"]
        /\ Go("activate")
     \/ Done(FALSE) /\ UNCHANGED orca
  /\ OrcaOnly

\* The desktop honours this only for a registered chat of the worktree it shows, and
\* the call succeeds all the same.
ActivateChat ==
  /\ f.at = "activate" /\ Up
  /\ orca' = IF orca.registered /\ orca.worktree = "own"
               THEN [orca EXCEPT !.shown = "chat"] ELSE orca
  /\ Go("find")
  /\ OrcaOnly

\* A runtime call fails without metadata, socket or token, with an answer that is an
\* error or another's, and after ten seconds in any case.
RpcFails == f.at \in {"register", "reveal", "activate"} /\ Done(FALSE) /\ Looks

\* Whatever else is called may fail, and that ends the command, but for the lists that
\* are made again.
Fail ==
  /\ f.at \in Steps \ {"alive", "list", "relist", "register", "reveal", "activate"}
  /\ f.at = "find" => ~f.launched
  /\ Done(FALSE)
  /\ Looks

FocusStep ==
  \/ LookAlive \/ ReadEnviron \/ WalkAncestors \/ ListWindows \/ RaiseWindow
  \/ AskSession \/ ListViewers \/ ListClients \/ SwitchClient \/ SelectWindow \/ SelectPane
  \/ ListTerminals \/ OpenOrca \/ RelistTerminals \/ SwitchTab \/ FindOrcaWindow
  \/ ListWorktrees \/ RegisterChat \/ RevealWorktree \/ ActivateChat
  \/ RpcFails \/ Fail

---------------------------------------------------------------------------
(* The user, Orca and the host in the meantime.                             *)

Move == moves < MaxMoves /\ moves' = moves + 1
Touch == touched' = (touched \/ f.at \in Steps)

\* Another window before the focus raises its own is no matter.
LookAt(w) ==
  /\ Move /\ w # top
  /\ top' = w
  /\ touched' = (touched \/ f.raised)
  /\ UNCHANGED <<procVars, mapped, tmux, recent, orca, f>>

UseClient(c, s) ==
  /\ Move /\ Touch
  /\ HasWindow(c, mapped)
  /\ attached' = [attached EXCEPT ![c] = s]
  /\ recent' = c
  /\ UNCHANGED <<procVars, top, mapped, curTab, curPane, orca, f>>

Detach(c) ==
  /\ Move /\ Touch
  /\ attached[c] # Detached
  /\ attached' = [attached EXCEPT ![c] = Detached]
  /\ UNCHANGED <<procVars, top, mapped, recent, curTab, curPane, orca, f>>

UsePane(p) ==
  /\ Move /\ Touch
  /\ curTab' = [curTab EXCEPT ![TabOf[PaneOf[p]]] = PaneOf[p]]
  /\ curPane' = [curPane EXCEPT ![PaneOf[p]] = p]
  /\ UNCHANGED <<procVars, top, mapped, attached, recent, orca, f>>

\* A terminal that is closed takes with it what runs in it.
CloseWindow(w) ==
  /\ Move /\ Touch
  /\ w \in mapped \ OrcaWindows
  /\ mapped' = mapped \ {w}
  /\ top' = IF top = w THEN NoWindow ELSE top
  /\ attached' = [c \in Clients |-> IF ParentOf[c] = Owner[w] THEN Detached ELSE attached[c]]
  /\ procs' = IF AgentRuns /\ procs[Agent].parent = Owner[w] THEN Without({Agent}) ELSE procs
  /\ UNCHANGED <<ticks, boot, climb, id, recent, curTab, curPane, orca, f>>

\* The chats' agents go with the app; the tabs' do not.
QuitOrca ==
  /\ Move /\ Touch
  /\ orca.app = "up"
  /\ orca' = [orca EXCEPT !.app = "down", !.shown = "other", !.registered = FALSE]
  /\ mapped' = mapped \ OrcaWindows
  /\ top' = IF top \in OrcaWindows THEN NoWindow ELSE top
  /\ procs' = IF AgentRuns /\ Where = "chat" THEN Without({Agent}) ELSE procs
  /\ UNCHANGED <<ticks, boot, climb, id, tmux, recent, f>>

\* The user closes the agent's tab or goes to another worktree.
UseOrca ==
  /\ Move /\ Touch
  /\ orca.app = "up"
  /\ \/ orca' = [orca EXCEPT !.tabs = {}, !.shown = "other"]
     \/ orca' = [orca EXCEPT !.worktree = "other", !.shown = "other"]
  /\ UNCHANGED <<procVars, top, mapped, tmux, recent, f>>

\* Orca gets ready, and its window appears, in its own time or never.
OrcaStarts ==
  /\ \/ orca.app = "starting" /\ orca' = [orca EXCEPT !.app = "up"] /\ UNCHANGED mapped
     \/ orca.app # "down" /\ mapped' = mapped \cup OrcaWindows /\ UNCHANGED orca
  /\ UNCHANGED <<procVars, top, tmux, recent, f, touched, moves>>

HostStep ==
  /\ \/ Capture /\ UNCHANGED <<f, touched>>
     \/ \E p \in Mortal : Exit(p) /\ UNCHANGED f /\ Touch
     \/ \E parent \in Spawners : Reuse(parent) /\ UNCHANGED f /\ Touch
     \/ Reboot /\ f' = Idle /\ touched' = FALSE
  /\ UNCHANGED <<screen, moves>>

UserStep ==
  \/ \E w \in mapped : LookAt(w)
  \/ \E c \in Clients : Detach(c) \/ \E s \in Session : UseClient(c, s)
  \/ \E p \in Panes : UsePane(p)
  \/ \E w \in Windows : CloseWindow(w)
  \/ QuitOrca \/ UseOrca

Next == Start \/ FocusStep \/ UserStep \/ OrcaStarts \/ HostStep

\* sm is scheduled, and the programs it calls return: orcaRPC has a deadline, hyprctl,
\* tmux and orca-ide are taken to answer.  Nothing else has to happen.
Spec == Init /\ [][Next]_vars /\ WF_vars(FocusStep)

---------------------------------------------------------------------------

\* The user sees the agent's terminal, the pane its marker names, or Orca at the tab or
\* chat its marker names.
Seen(place) ==
  /\ top # NoWindow
  /\ CASE place = "bare" -> Owner[top] = procs[Agent].parent
       [] place = "pane" ->
            /\ \E c \in Clients : Owner[top] = ParentOf[c] /\ attached[c] = AgentSession
            /\ curTab[AgentSession] = AgentTab
            /\ curPane[AgentTab] = AgentPane
       [] place \in {"tab", "chat"} -> top \in OrcaWindows /\ orca.shown = place

\* A focus that says it succeeded has brought to the user's eyes what the environment of
\* the agent, which runs, names: its terminal, pane, tab or chat, whatever the desktop
\* looked like, if nobody interfered.  That is where the agent runs unless a marker was
\* handed on by a terminal that was started somewhere else (focus.go, Focus).
OkShowsAgent ==
  [][f.at # "idle" /\ f'.at = "idle" /\ f'.ok /\ ~touched => AgentRuns' /\ Seen(Named)']_vars

\* A focus that begins when the agent is gone moves nothing on the screen, whoever has
\* the pid by then (focus.go, Focus: "refuses sessions whose process ... has exited").
GoneMovesNothing == [][FocusStep /\ f.gone => UNCHANGED screen]_vars

\* A client is taken away from the session it shows only if no client shows the agent's,
\* and then it is the one the user used last (focus.go, pickSessionClient), if nobody
\* interfered between the list of the clients and the switch.
ViewersAreLeft ==
  [][FocusStep /\ ~touched /\ attached' # attached =>
       /\ \A c \in Clients : attached[c] # AgentSession
       /\ attached[recent] # Detached => attached' = [attached EXCEPT ![recent] = AgentSession]]_vars

\* tmux is changed only under the user's eyes: its window is in front before, so that a
\* window that cannot be found or raised leaves tmux as it was (focus.go, focusTmux).
RaisedFirst ==
  [][FocusStep /\ tmux' # tmux =>
       f.raised /\ (touched \/ (top # NoWindow /\ Owner[top] = ParentOf[f.pid]))]_vars

\* Every focus ends, even if Orca never gets ready (focus.go, orcaPoll).
FocusEnds == f.at # "idle" ~> f.at = "idle"
=============================================================================

