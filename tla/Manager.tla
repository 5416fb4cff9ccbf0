------------------------------ MODULE Manager ------------------------------
(***************************************************************************)
(* The running system: agents whose hooks publish events, the daemon that  *)
(* turns events into rows of the store, the sweeper that reaps sessions     *)
(* whose process is gone, and the `sm` commands that write the same         *)
(* database from processes of their own.                                   *)
(*                                                                         *)
(* Inside the daemon the event handler and the sweeper exclude each other  *)
(* with one mutex (daemon.go, handler.mu).  `sm ls` and `sm status` reap    *)
(* with the same code but without that mutex, and `sm mark` writes without  *)
(* it too: between any two SQL statements of one actor another actor may    *)
(* run.  Every action below is therefore one statement (or one file write) *)
(* with the local computation around it.                                   *)
(*                                                                         *)
(* A statement may fail (MaxFaults), the daemon may crash and be restarted *)
(* (MaxCrashes).  Time is the wall clock in whole seconds: what the store   *)
(* keeps of a timestamp.                                                   *)
(***************************************************************************)
EXTENDS Store

CONSTANTS
  NoSession,    \* the empty session id
  LocalHost,    \* the host of the daemon and of the `sm` commands
  HostOf,       \* the host each conversation runs on
  Signals,      \* the signals the agents' hooks send
  EmitNatives,  \* the conversations that scripts report on with `sm emit`
  Sweeper,      \* the daemon's sweep goroutine
  Listers,      \* `sm ls` and `sm status` processes
  Markers,      \* `sm mark` processes
  MarkStates,   \* the states users ask for
  TTL,          \* RemoteReapTTL, in seconds of the model's clock
  Reorder,      \* may events of one conversation overtake each other?
  CaptureFails, \* may a hook find no process to fingerprint?
  MaxTime, MaxEvents, MaxFaults, MaxCrashes  \* bounds for model checking

ASSUME ManagerAssumption ==
  /\ NoSession \notin SessionId
  /\ LocalHost \in Host
  /\ HostOf \in [Native -> Host]
  /\ Signals \subseteq Signal
  /\ EmitNatives \subseteq Native
  /\ Sweeper \notin Listers
  /\ MarkStates \subseteq ParseState
  /\ TTL \in Nat
  /\ {Reorder, CaptureFails} \subseteq BOOLEAN
  /\ {MaxTime, MaxEvents, MaxFaults, MaxCrashes} \subseteq Nat

Reapers == Listers \cup {Sweeper}

VARIABLES
  now,        \* the wall clock, in seconds
  seq,        \* events published or noted so far; numbers them
  running,    \* the process each conversation runs in now, NoProc if none
  started,    \* the processes that have been started
  bus,        \* published events the daemon has not taken yet
  sessions,   \* the sessions table
  events,     \* the events table
  countFile,  \* the number in the waiting-count file
  up,         \* is the daemon running?
  mu,         \* the holder of handler.mu: "free", "handler" or "sweeper"
  handler,    \* the event handler: where it is, its event, the next state
  sweep,      \* each reaper: where it is, its snapshots, what it reaped
  mark,       \* each `sm mark`: where it is, its session, state and time
  faults, crashes

agentVars == <<seq, running, started>>
tables == <<sessions, events>>
bounds == <<faults, crashes>>
vars == <<now, agentVars, bus, tables, countFile, up, mu, handler, sweep, mark,
          bounds>>

Event == [n : Nat, sid : SessionId \cup {NoSession}, native : Native \cup {NoNative},
          kind : Kind, notify : NotifyType, manual : State \cup {NoState},
          ts : Nat, proc : Proc \cup {NoProc}, host : Host \cup {NoHost}]

\* Go's zero Event: what the handler holds when it has none.
NoEvent == [n |-> 0, sid |-> NoSession, native |-> NoNative, kind |-> "note",
            notify |-> NoNotify, manual |-> NoState, ts |-> 0, proc |-> NoProc,
            host |-> NoHost]

AtRest == [pc |-> "rest", ev |-> NoEvent, next |-> NoState]
NoSweep == [pc |-> "rest", stale |-> {}, reaped |-> {}]
NoMark == [pc |-> "rest", id |-> NoSession, state |-> NoState, ts |-> 0]

TypeOK ==
  /\ now \in Nat /\ seq \in Nat
  /\ running \in [Native -> Proc \cup {NoProc}]
  /\ started \subseteq Proc
  /\ bus \subseteq Event
  /\ sessions \in [SessionId -> Row]
  /\ events \subseteq Event
  /\ countFile \in Nat
  /\ up \in BOOLEAN
  /\ mu \in {"free", "handler", "sweeper"}
  /\ handler \in [pc : {"rest", "append", "classify", "update", "alert"},
                  ev : Event, next : State \cup {NoState}]
  /\ sweep \in [Reapers -> [pc : {"rest", "local", "remote"},
                            stale : SUBSET Snapshot, reaped : SUBSET SessionId]]
  /\ mark \in [Markers -> [pc : {"rest", "update", "note"},
                           id : SessionId \cup {NoSession},
                           state : State \cup {NoState}, ts : Nat]]
  /\ faults \in Nat /\ crashes \in Nat

Init ==
  /\ now = 0 /\ seq = 0
  /\ running = [nat \in Native |-> NoProc]
  /\ started = {}
  /\ bus = {}
  /\ sessions = EmptyTable
  /\ events = {}
  /\ countFile = 0
  /\ up = TRUE
  /\ mu = "free"
  /\ handler = AtRest
  /\ sweep = [r \in Reapers |-> NoSweep]
  /\ mark = [m \in Markers |-> NoMark]
  /\ faults = 0 /\ crashes = 0

-----------------------------------------------------------------------------
(* Failures.  A statement that fails (a busy database past its timeout, the *)
(* handler's 5 s deadline, a full disk) changes nothing.                    *)

Fault == faults < MaxFaults /\ faults' = faults + 1 /\ UNCHANGED crashes
NoFault == UNCHANGED bounds

-----------------------------------------------------------------------------
(* The agents and their hooks.                                             *)

Tick ==
  /\ now < MaxTime
  /\ now' = now + 1
  /\ UNCHANGED <<agentVars, bus, tables, countFile, up, mu, handler, sweep, mark,
                 bounds>>

\* An agent starts, or resumes, a conversation in a new process.
StartAgent(nat) ==
  /\ running[nat] = NoProc
  /\ \E p \in Proc \ started :
       /\ running' = [running EXCEPT ![nat] = p]
       /\ started' = started \cup {p}
  /\ UNCHANGED <<now, seq, bus, tables, countFile, up, mu, handler, sweep, mark,
                 bounds>>

\* The agent's process ends: an exit, a crash, a kill or a reboot.
ExitAgent(nat) ==
  /\ running[nat] # NoProc
  /\ running' = [running EXCEPT ![nat] = NoProc]
  /\ UNCHANGED <<now, seq, started, bus, tables, countFile, up, mu, handler,
                 sweep, mark, bounds>>

\* Publishing needs a daemon to connect to; without one the event is lost and
\* nothing changes.
Publish(e) ==
  /\ up
  /\ seq < MaxEvents
  /\ seq' = seq + 1
  /\ bus' = bus \cup {e}
  /\ UNCHANGED <<now, running, started, tables, countFile, up, mu, handler, sweep,
                 mark, bounds>>

\* What attachIdentity finds when it climbs from the hook to the agent.
Captured(nat) == {running[nat]} \cup (IF CaptureFails THEN {NoProc} ELSE {})

\* `sm hook`: a hook of the agent runs, stamps the event with the time, the
\* agent's process and the host, and publishes it.
Hook(nat) ==
  /\ running[nat] # NoProc
  /\ \E s \in Signals, p \in Captured(nat) :
       Publish([n |-> seq, sid |-> NoSession, native |-> nat, kind |-> s.kind,
                notify |-> s.notify, manual |-> NoState, ts |-> now, proc |-> p,
                host |-> HostOf[nat]])

\* `sm emit`: a script names the conversation, or the session's own id.  Such an
\* event has neither a process nor a host, and no notification sub-type.
Emit(nat) ==
  /\ nat \in EmitNatives
  /\ \E s \in Signals, id \in FindSessionByNative(sessions, nat) \cup {NoSession} :
       Publish([n |-> seq, sid |-> id,
                native |-> IF id = NoSession THEN nat ELSE NoNative,
                kind |-> s.kind, notify |-> NoNotify, manual |-> NoState,
                ts |-> now, proc |-> NoProc, host |-> NoHost])

-----------------------------------------------------------------------------
(* The daemon's event handler: handle(), one bus message at a time.         *)

Step(pc, e, next) == handler' = [pc |-> pc, ev |-> e, next |-> next]

Release == handler' = AtRest /\ mu' = "free"

Deliverable(e) ==
  Reorder \/ \A f \in bus : f.native = e.native => e.n <= f.n

\* resolveSession: the session an event belongs to, and what looking it up does
\* to the table.  A known conversation gets the event's process as its
\* fingerprint, an unknown one gets a row.
Resolve(e, id, tbl) ==
  LET found == FindSessionByNative(sessions, e.native) IN
  \/ /\ e.sid # NoSession
     /\ id = e.sid
     /\ tbl = sessions
  \/ /\ e.sid = NoSession
     /\ id \in found
     /\ tbl = IF e.proc # NoProc THEN UpdateIdentity(sessions, id, e.proc)
                                 ELSE sessions
  \/ /\ e.sid = NoSession
     /\ found = {}
     /\ ~Exists(sessions, id)
     /\ tbl = CreateSession(sessions, id, e.native,
                            IF e.host = NoHost THEN LocalHost ELSE e.host,
                            e.ts, e.proc)

\* The handler takes the mutex and resolves the event's session.  Nothing but
\* the handler writes the columns this touches, so lookup and write are one
\* step.  An error drops the event.
Receive ==
  /\ up
  /\ mu = "free"
  /\ \E e \in bus :
       /\ Deliverable(e)
       /\ bus' = bus \ {e}
       /\ \/ /\ NoFault
             /\ \E id \in SessionId :
                  /\ Resolve(e, id, sessions')
                  /\ Step("append", [e EXCEPT !.sid = id], NoState)
             /\ mu' = "handler"
          \/ /\ Fault
             /\ UNCHANGED <<sessions, handler, mu>>
  /\ UNCHANGED <<now, agentVars, events, countFile, up, sweep, mark>>

\* AppendEvent: one transaction.  Its error is logged and the handler goes on.
Append ==
  /\ handler.pc = "append"
  /\ \/ NoFault /\ events' = events \cup {handler.ev}
     \/ Fault /\ UNCHANGED events
  /\ Step("classify", handler.ev, NoState)
  /\ UNCHANGED <<now, agentVars, bus, sessions, countFile, up, mu, sweep, mark>>

\* CurrentStatus and Transition.  An error reads as "no current state"; an event
\* that changes nothing ends the handler here, before last_event_at is touched.
Classify ==
  /\ handler.pc = "classify"
  /\ \E cur \in State \cup {NoState} :
       /\ \/ NoFault /\ cur = CurrentStatus(sessions, handler.ev.sid)
          \/ Fault /\ cur = NoState
       /\ LET next == Transition(cur, handler.ev) IN
          IF next = NoState
          THEN Release
          ELSE Step("update", handler.ev, next) /\ UNCHANGED mu
  /\ UNCHANGED <<now, agentVars, bus, tables, countFile, up, sweep, mark>>

\* UpdateStatus.  After an error the sinks are not called; after a write the
\* recency guard skipped they are.
Update ==
  /\ handler.pc = "update"
  /\ \/ /\ NoFault
        /\ sessions' = UpdateStatus(sessions, handler.ev.sid, handler.next,
                                    handler.ev.ts)
        /\ Step("alert", handler.ev, handler.next)
        /\ UNCHANGED mu
     \/ Fault /\ UNCHANGED sessions /\ Release
  /\ UNCHANGED <<now, agentVars, bus, events, countFile, up, sweep, mark>>

\* CountFile.OnStateChange: the file gets the number of waiting sessions.
OnStateChange ==
  \/ NoFault /\ countFile' = CountByStatus(sessions, "waiting")
  \/ Fault /\ UNCHANGED countFile

Alert ==
  /\ handler.pc = "alert"
  /\ OnStateChange
  /\ Release
  /\ UNCHANGED <<now, agentVars, bus, tables, up, sweep, mark>>

Handle == Receive \/ Append \/ Classify \/ Update \/ Alert

-----------------------------------------------------------------------------
(* Reaping: sweep() in the daemon, reapStale() in the `sm` commands.  Both  *)
(* call ReapStale and then ReapRemoteStale, which read their candidates     *)
(* first and write them one by one afterwards.                             *)

\* IsProcessDead, asked on the daemon's host: a process of another host is not
\* in its /proc.
IsProcessDead(p) ==
  ~ \E nat \in Native : running[nat] = p /\ HostOf[nat] = LocalHost

Sweeping(r, pc, stale, reaped) ==
  sweep' = [sweep EXCEPT ![r] = [pc |-> pc, stale |-> stale, reaped |-> reaped]]

ReapDone(r) ==
  /\ sweep' = [sweep EXCEPT ![r] = NoSweep]
  /\ mu' = IF r = Sweeper THEN "free" ELSE mu

\* ReapStale has failed: the daemon's sweep gives up without telling the sinks,
\* the commands ignore the error and go on with the remote sessions.
LocalFailed(r) ==
  IF r = Sweeper
  THEN ReapDone(r)
  ELSE Sweeping(r, "local", {}, sweep[r].reaped) /\ UNCHANGED mu

\* A slip: the sweep does not take the mutex.
SelectLocalUnlocked(r) ==
  /\ sweep[r].pc = "rest"
  /\ r = Sweeper => up
  /\ Sweeping(r, "local", LocalStale(sessions, LocalHost), {})
  /\ NoFault
  /\ UNCHANGED <<now, agentVars, bus, tables, countFile, up, mu, handler, mark>>

\* The SELECT of ReapStale.  Only the sweep takes the mutex.
SelectLocal(r) ==
  /\ sweep[r].pc = "rest"
  /\ r = Sweeper => up /\ mu = "free"
  /\ \/ /\ NoFault
        /\ Sweeping(r, "local", LocalStale(sessions, LocalHost), {})
        /\ mu' = IF r = Sweeper THEN "sweeper" ELSE mu
     \/ Fault /\ LocalFailed(r)
  /\ UNCHANGED <<now, agentVars, bus, tables, countFile, up, handler, mark>>

\* Slips: the time of the reaping is written, and the guard is left out.
KillNow(s) == UpdateStatus(sessions, s.id, "dead", now)
KillRegardless(s) == UpdateStatus(sessions, s.id, "dead", sessions[s.id].last)

\* Marking a candidate dead goes through the recency guard, with the time the
\* candidate was last seen.
Kill(s) == UpdateStatus(sessions, s.id, "dead", s.last)

\* One candidate of ReapStale: probe its process, and mark it dead if it is gone.
ReapLocal(r) ==
  /\ sweep[r].pc = "local"
  /\ \E s \in sweep[r].stale :
       LET rest == sweep[r].stale \ {s}
           hit  == Changes(sessions, s.id, s.last) IN
       \/ /\ ~IsProcessDead(s.proc)
          /\ Sweeping(r, "local", rest, sweep[r].reaped)
          /\ UNCHANGED <<sessions, mu>> /\ NoFault
       \/ /\ IsProcessDead(s.proc)
          /\ NoFault
          /\ sessions' = Kill(s)
          /\ Sweeping(r, "local", rest,
                      sweep[r].reaped \cup (IF hit THEN {s.id} ELSE {}))
          /\ UNCHANGED mu
       \/ /\ IsProcessDead(s.proc)
          /\ Fault
          /\ LocalFailed(r)
          /\ UNCHANGED sessions
  /\ UNCHANGED <<now, agentVars, bus, events, countFile, up, handler, mark>>

\* The SELECT of ReapRemoteStale, with the cutoff of this moment.  If it fails,
\* what was reaped locally is still announced.
SelectRemote(r) ==
  /\ sweep[r].pc = "local"
  /\ sweep[r].stale = {}
  /\ \/ /\ NoFault
        /\ Sweeping(r, "remote", RemoteStale(sessions, LocalHost, now - TTL),
                    sweep[r].reaped)
     \/ Fault /\ Sweeping(r, "remote", {}, sweep[r].reaped)
  /\ UNCHANGED <<now, agentVars, bus, tables, countFile, up, mu, handler, mark>>

\* One candidate of ReapRemoteStale.  A failed write ends the loop.
ReapRemote(r) ==
  /\ sweep[r].pc = "remote"
  /\ \E s \in sweep[r].stale :
       LET hit == Changes(sessions, s.id, s.last) IN
       \/ /\ NoFault
          /\ sessions' = Kill(s)
          /\ Sweeping(r, "remote", sweep[r].stale \ {s},
                      sweep[r].reaped \cup (IF hit THEN {s.id} ELSE {}))
       \/ /\ Fault
          /\ Sweeping(r, "remote", {}, sweep[r].reaped)
          /\ UNCHANGED sessions
  /\ UNCHANGED <<now, agentVars, bus, events, countFile, up, mu, handler, mark>>

\* A slip: the sweep forgets the sinks.
ReapEndSilently(r) ==
  /\ sweep[r].pc = "remote"
  /\ sweep[r].stale = {}
  /\ ReapDone(r)
  /\ UNCHANGED <<now, agentVars, bus, tables, countFile, up, handler, mark, bounds>>

\* The end: the sweep tells the sinks if it reaped anything, the commands list.
ReapEnd(r) ==
  /\ sweep[r].pc = "remote"
  /\ sweep[r].stale = {}
  /\ IF r = Sweeper /\ sweep[r].reaped # {}
     THEN OnStateChange
     ELSE UNCHANGED countFile /\ NoFault
  /\ ReapDone(r)
  /\ UNCHANGED <<now, agentVars, bus, tables, up, handler, mark>>

Reap(r) == SelectLocal(r) \/ ReapLocal(r) \/ SelectRemote(r) \/ ReapRemote(r)
           \/ ReapEnd(r)

-----------------------------------------------------------------------------
(* `sm mark`: the user sets a session's state by hand.                      *)

\* The command has resolved the id, and takes the time.
MarkBegin(m) ==
  /\ mark[m].pc = "rest"
  /\ seq < MaxEvents
  /\ \E id \in {i \in SessionId : Exists(sessions, i)}, st \in MarkStates :
       mark' = [mark EXCEPT ![m] = [pc |-> "update", id |-> id, state |-> st,
                                    ts |-> now]]
  /\ UNCHANGED <<now, agentVars, bus, tables, countFile, up, mu, handler, sweep,
                 bounds>>

\* The write.  If the recency guard skips it the command reports so and stops.
MarkUpdate(m) ==
  /\ mark[m].pc = "update"
  /\ \/ /\ NoFault
        /\ sessions' = UpdateStatus(sessions, mark[m].id, mark[m].state, mark[m].ts)
        /\ mark' = IF Changes(sessions, mark[m].id, mark[m].ts)
                   THEN [mark EXCEPT ![m].pc = "note"]
                   ELSE [mark EXCEPT ![m] = NoMark]
     \/ Fault /\ UNCHANGED sessions /\ mark' = [mark EXCEPT ![m] = NoMark]
  /\ UNCHANGED <<now, agentVars, bus, events, countFile, up, mu, handler, sweep>>

\* The note that records it.
MarkNote(m) ==
  /\ mark[m].pc = "note"
  /\ \/ /\ NoFault
        /\ events' = events \cup
             {[NoEvent EXCEPT !.n = seq, !.sid = mark[m].id, !.kind = "note",
                              !.manual = mark[m].state, !.ts = mark[m].ts]}
        /\ seq' = seq + 1
     \/ Fault /\ UNCHANGED <<events, seq>>
  /\ mark' = [mark EXCEPT ![m] = NoMark]
  /\ UNCHANGED <<now, running, started, bus, sessions, countFile, up, mu, handler,
                 sweep>>

Mark(m) == MarkBegin(m) \/ MarkUpdate(m) \/ MarkNote(m)

-----------------------------------------------------------------------------
(* The daemon stops without notice and is started again.  What it held in  *)
(* memory is gone, and so are the messages of the bus, which it hosts.     *)

Crash ==
  /\ up
  /\ crashes < MaxCrashes
  /\ crashes' = crashes + 1
  /\ up' = FALSE
  /\ bus' = {}
  /\ mu' = "free"
  /\ handler' = AtRest
  /\ sweep' = [sweep EXCEPT ![Sweeper] = NoSweep]
  /\ UNCHANGED <<now, agentVars, tables, countFile, mark, faults>>

Restart ==
  /\ ~up
  /\ up' = TRUE
  /\ UNCHANGED <<now, agentVars, bus, tables, countFile, mu, handler, sweep, mark,
                 bounds>>

-----------------------------------------------------------------------------
Agents == \E nat \in Native : StartAgent(nat) \/ ExitAgent(nat) \/ Hook(nat)
                              \/ Emit(nat)

Next ==
  \/ Tick
  \/ Agents
  \/ Handle
  \/ \E r \in Reapers : Reap(r)
  \/ \E m \in Markers : Mark(m)
  \/ Crash \/ Restart

Spec == Init /\ [][Next]_vars

\* The daemon's goroutines are scheduled and the mutex is handed over (Go's
\* mutex does not starve a waiter), the ticker fires again and again, time
\* passes and a stopped daemon is started again.  Nothing obliges an agent, a
\* user, a command or a fault to act.
Fairness ==
  /\ SF_vars(Receive)
  /\ WF_vars(Append \/ Classify \/ Update \/ Alert)
  /\ SF_vars(SelectLocal(Sweeper))
  /\ WF_vars(ReapLocal(Sweeper) \/ SelectRemote(Sweeper) \/ ReapRemote(Sweeper)
             \/ ReapEnd(Sweeper))
  /\ WF_vars(Tick)
  /\ WF_vars(Restart)

FairSpec == Spec /\ Fairness

-----------------------------------------------------------------------------
(* Correctness                                                             *)

\* This step reaps the session.
Dies(id) == sessions[id].status # "dead" /\ sessions'[id].status = "dead"

\* Reaping never moves last_event_at, whoever reaps and whatever runs between
\* its SELECT and its UPDATE: the row still says when the agent was last seen
\* (store.go, ReapStale: "last_event_at is preserved").
ReapKeepsLastSeen ==
  [][\A id \in SessionId : Dies(id) => sessions'[id].last = sessions[id].last]_vars

\* What a reaper remembers of a row is never ahead of the row, and what it takes
\* for local or for silent was so when it looked and cannot cease to be.
CandidatesAreBehind ==
  \A r \in Reapers : \A s \in sweep[r].stale :
    /\ Exists(sessions, s.id)
    /\ s.last <= sessions[s.id].last
    /\ sweep[r].pc = "local" => sessions[s.id].host = LocalHost
    /\ sweep[r].pc = "remote" =>
         sessions[s.id].host # LocalHost /\ s.last + TTL < now

\* Neither an event nor a user asks for dead, nor for no state at all.
OnlyReapersKill ==
  /\ handler.pc = "update" => handler.next \in State \ {"dead"}
  /\ \A m \in Markers : mark[m].pc = "update" => mark[m].state \in State \ {"dead"}

\* A session of another host dies only of silence: at the moment it is marked
\* dead, its row has gone more than the TTL without a state change.  A stale
\* candidate list never kills one that spoke in between, and the local /proc
\* probe never reaches it (store.go, ReapRemoteStale and RemoteReapTTL).
RemoteSilence ==
  [][\A id \in SessionId :
       Dies(id) /\ sessions[id].host # LocalHost => sessions[id].last + TTL < now]_vars

\* The session's agent runs, and the daemon has handled an event that carried
\* the fingerprint of the running process.
KnownAlive(id) ==
  LET nat == sessions[id].native IN
  /\ nat \in Native /\ running[nat] # NoProc
  /\ \E e \in events : e.sid = id /\ e.proc = running[nat]

\* The reaper spares a session of this host whose live process has reported in,
\* however often the conversation was resumed (store.go, UpdateIdentity:
\* "without this the reaper keeps probing the old pid and marks the live
\* session dead within one sweep").
ReaperSparesLive ==
  [][\A id \in SessionId :
       Dies(id) /\ sessions[id].host = LocalHost => ~KnownAlive(id)]_vars

\* A clean exit is final for the reapers: no sweep turns finished into dead
\* (store.go, ReapStale: every state is probed except the two terminal ones).
FinishedNotReaped ==
  [][\A id \in SessionId : Dies(id) => sessions[id].status # "finished"]_vars

\* Whenever nobody holds the handler mutex, the waiting-count file shows the
\* number of waiting sessions (README: "updated on every state change").
CountAccurate == mu = "free" => countFile = CountByStatus(sessions, "waiting")

\* The state an event asks for, whatever the session's state: "" if none.
Bears(e) == IF e.manual # NoState THEN e.manual ELSE Transition(NoState, e)

\* The states an event may have left a session in.
Outcomes(e) ==
  IF e.manual # NoState THEN {e.manual}
  ELSE {Transition(cur, e) : cur \in State} \ {NoState}

\* Nobody is between two statements about the session.
Settled(id) ==
  /\ handler.pc = "rest" \/ handler.ev.sid # id
  /\ \A m \in Markers : mark[m].pc = "note" => mark[m].id # id

\* The status of a session that was not reaped is what the newest second of its
\* history says: an event of that second asked for it, or no event that asks for
\* a state came since the row was created; and no event that asks for a state is
\* newer than last_event_at.  Events may arrive in any order
\* (store.go, UpdateStatus: "a late event cannot rewind the session's state").
\* A statement that failed, or a daemon that died between two, leaves the history
\* and the row apart: an event whose status was not written, a status whose event
\* was not appended.
StatusIsNewest ==
  \A id \in SessionId :
    LET row == sessions[id]
        asked == {e \in events : e.sid = id /\ Bears(e) # NoState} IN
    Exists(sessions, id) /\ Settled(id) /\ faults = 0 /\ crashes = 0 =>
      /\ \A e \in asked : e.ts <= row.last
      /\ \/ row.status = "dead"
         \/ \E e \in events : e.sid = id /\ e.ts = row.last /\ row.status \in Outcomes(e)
         \/ row.status = "idle" /\ \A e \in asked : e.ts < row.last

\* A session of this host whose process is gone ends up in a terminal state, or
\* an event of a newer process takes the row over (daemon.go, sweepLoop).
GoneIsReaped ==
  \A id \in SessionId, p \in Proc :
    (sessions[id].host = LocalHost /\ sessions[id].proc = p /\ IsProcessDead(p)) ~>
      (IsTerminal(sessions[id].status) \/ sessions[id].proc # p)

\* A session of another host that stays silent past the TTL ends up in a
\* terminal state (README: remote sessions are reaped after 24 h).
SilentIsReaped ==
  \A id \in SessionId, t \in 0 .. MaxTime - TTL - 1 :
    (Exists(sessions, id) /\ sessions[id].host # LocalHost /\ sessions[id].last = t) ~>
      (IsTerminal(sessions[id].status) \/ sessions[id].last # t)

=============================================================================
