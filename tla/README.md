# Verification of `sm`, the agentic sessions manager

`sm` keeps a table of coding-agent sessions (Claude Code, opencode) and says
which of them wait for their user. Agents' hooks publish events to a local NATS
bus; a daemon turns events into rows of an SQLite database and reaps sessions
whose process is gone; `sm ls`, `sm status`, `sm mark` open the same database
from processes of their own. This directory holds TLA+ models of that system,
the TLC instances that check them and machine-checked proofs about them.

All line references are to the repository (`src/...`).

## 1. The system

### 1.1 Parts, state, operations

| part | source | state it keeps | operations |
|---|---|---|---|
| session state machine | `internal/session/session.go` | none | `Transition`, `NextState`, `TerminalStates`, `ParseState`, `ParseKind` |
| store | `internal/store/store.go` | tables `sessions` and `events` (SQLite, WAL, busy timeout 5 s) | `CreateSession`, `FindSessionByNative`, `UpdateIdentity`, `UpdateStatus`, `CurrentStatus`, `CountByStatus`, `AppendEvent`, `ListSessions`, `ResolveID`, `ReapStale`, `ReapRemoteStale`, migrations |
| event handler | `internal/daemon/daemon.go` (`handle`, `resolveSession`) | `handler.mu` | one bus message at a time: resolve, append, transition, update, notify the sinks |
| sweeper | `daemon.go` (`sweepLoop`, `sweep`) | the same mutex | at start and every 30 s: reap what is dead here, then what is silent elsewhere, then notify |
| start and stop | `daemon.go` (`Run`), `cmd/sm/main.go` | the token file, the port, the store handle | load or generate a token, serve, subscribe, flush, write the token; wait, drain, close |
| bus | `internal/bus/bus.go` | embedded NATS server, token file | `LoadToken`, `GenerateToken`, `WriteToken`, `Connect`, `Publish`, `Subscribe`, `Flush`, `Drain` |
| alert sink | `internal/alert/alert.go` | the waiting-count file | `OnStateChange` |
| process liveness | `internal/liveness/liveness.go` | none (`/proc`) | `Capture`, `Alive` |
| hooks | `internal/hook/hook.go` | none (a process per event) | parse, attach identity and host, publish |
| opencode plugin | `contrib/opencode-plugin/sm.ts` | map of announced titles | forwards opencode events to `sm hook` |
| commands | `internal/cli/cli.go` | none | `ls`, `status`, `mark`, `emit`, `show`, `focus` |
| focus | `internal/focus/*.go` | none; it moves the desktop, tmux and Orca | finds and raises the window, pane, tab or chat of a session's agent |

### 1.2 How they interact

```
agent --hook process--> bus (in the daemon) --subscription goroutine--> handle --+
                                                                                 | handler.mu
                              30 s ticker ------------------------------> sweep -+--> store, count file
                                                                                      ^
            sm ls / sm status (ReapStale, ReapRemoteStale) --- no mutex --------------+
            sm mark (UpdateStatus, AppendEvent) -------------- no mutex --------------+
            sm emit --> bus
            sm focus --> store (row) --> /proc, hyprctl, tmux, orca-ide, Orca's socket
```

The handler and the sweeper exclude each other with one Go mutex. The commands
do not take it: between any two SQL statements of one actor, another actor may
run. The only defence is the recency guard inside `UpdateStatus`
(`? >= last_event_at`, store.go:209), which compares whole
Unix seconds.

### 1.3 What is hard here, and what makes each part correct

* **Resume.** A conversation that is resumed runs in another process. The row's
  process fingerprint has to follow, or the reaper kills a live session.
* **Check-then-act.** A reaper SELECTs candidates, probes `/proc`, and UPDATEs
  row by row; `handle` reads a status, judges and writes. Others write between.
* **Order.** Every hook is a process with its own connection: events of one
  conversation may overtake each other, and several share one second.
* **Derived state.** The count file has to follow the table although several
  statements and a file write lie between.
* **Two clocks of death.** Local sessions die by probe, remote ones by silence.
* **Start and stop.** A readable token should mean a live subscription; a stop
  must neither lose accepted events nor close the store under a goroutine nor hang.
* **Failure.** Each statement may fail, and the code ends each path differently.
* **Upgrade.** Every process that opens the database migrates it, and any may stop
  between two statements.
* **Cached columns.** The list's prompt and title are copies of what the events
  table holds, and events come late.
* **Overlapping hooks.** opencode does not wait for the plugin; Claude's compaction
  and reminders come in the middle of a turn.
* **A moving desktop.** `sm focus` looks at six things in turn while the user, the
  processes and Orca go on, and any call may fail.

Correctness, part by part: a reaper kills only what is dead or silent and never
falsifies when a session was last seen (store, sweeper); status is what the
newest history says (handler); the file is the count (sink); what has ended is
reaped in the end (sweeper); nothing accepted is dropped in a clean stop, nothing
touches a closed store, a stop ends (start and stop); the list shows the newest
prompt and the last title, and an upgrade keeps them (store); a parser or a title
source never invents a state change (hooks, plugin); a fingerprint is the agent's
and the probe is right about it (liveness); the right window is raised or none
(focus). `PROJECT.json` lists every hazard at its line with the properties that
cover it.

## 2. Modules

| module | models | shape |
|---|---|---|
| `SessionState` | session.go | constants and pure operators |
| `Store` | the sessions table and its statements | operators on a table `[SessionId -> Row]`, one per SQL statement |
| `Manager` | agents, hooks, bus order, `handle`, `sweep`, `sm ls`, `sm mark`, `sm emit`, crash and restart | a state machine, one action per statement |
| `SessionBoard` | what the daemon promises: one line per conversation, one atomic step per report | an abstract state machine |
| `ManagerBoard` | `Manager` read as a board | the refinement mapping |
| `Claims` | sentences of comments about the running system that the code does not keep | properties over `Manager` |
| `Lifecycle` | `Run` from start to exit, the token file, NATS readiness, drain, clients | a state machine, independent of `Manager` |
| `EventStore` | the events table, the cached prompt and title, `migrate`, history | a state machine, one action per statement or transaction |
| `Hooks` | hook.go's parsers and the opencode plugin, with the agents that fire them and the row that results | a state machine, one action per hook |
| `Processes` | `/proc`, `Capture` and `Alive` | actions and an inductive invariant, no `Next` of its own |
| `Focus` | `sm focus`: the bare, tmux, tab and chat paths, with the desktop around it | a state machine, one action per external call |
| `MCManager`, `MCLifecycle`, `MCEventStore`, `MCFocus` | instances for TLC | definitions a `.cfg` names |
| `ManagerProofs` | theorems about `Manager`: in every instance, then those that need the mutex | proofs |
| `ResumeProofs` | `ReaperSparesLive`, which needs the mutex and events in order | proofs, EXTENDS `ManagerProofs` |
| `BoardProofs` | `Manager` implements `SessionBoard` | proofs, EXTENDS `ManagerBoard` and `ManagerProofs` |
| `HistoryProofs` | `StatusIsNewest` in every instance | proofs, EXTENDS `ManagerProofs` |
| `LifecycleProofs` | theorems about `Lifecycle` | proofs |
| `EventStoreProofs`, `HooksProofs` | theorems about `EventStore` and `Hooks` | proofs |
| `FocusProofs` | theorems about `Processes` and `Focus` | proofs |

`Manager` EXTENDS `Store`, which EXTENDS `SessionState`; `SessionBoard` and `Hooks`
EXTEND `SessionState` too, so that all three judge an event by one `Transition`.
`Focus` EXTENDS `Processes`. `Lifecycle` composes only through the store handle: for
it the handler and the sweep are sections that hold the store open; what they do
inside is `Manager`'s subject. In `Hooks` the handler is one step
(`Handled`, with the recency guard of `UpdateStatus`); that its four statements look
like one is `BoardImplemented`, whose board has the same guard. In `Manager` the probe
is asked whether a process runs, which `AliveIsTrue` justifies.

### 2.1 State and actions of `Manager`

* `sessions`, `events`: the two tables. A row keeps the columns that decide
  something; `Native` stands for the pair (agent, native id), `Proc` for the
  fingerprint (pid, start time, boot id), `NoProc` for pid 0. `last` is in whole
  seconds, as stored. An id without a row maps to `NoRow`, whose status is the
  `""` that `CurrentStatus` answers.
* `bus`: published, not yet handled. With `Reorder` false the events of one
  conversation keep their order, with `Reorder` true they do not.
* `handler`: the program counter of `handle` with its event. `Receive` (mutex,
  `resolveSession`), `Append`, `Classify` (`CurrentStatus` and `Transition`),
  `Update`, `Alert` are its statements in order, with each early return. Lookup
  and insert in `resolveSession` are one step because no one else writes those
  columns: the mutex keeps the sweep out and the commands write status only.
* `sweep[r]`: each reaper's candidates and what it has reaped. `SelectLocal`,
  `ReapLocal`, `SelectRemote`, `ReapRemote`, `ReapEnd` serve the daemon's sweep
  and the commands; they differ in the mutex, in what an error of `ReapStale`
  does, and in the sink call. The order in which candidates are taken is free.
* `mark[m]`: `sm mark`, from reading the clock to the note it appends.
* `running`, `started`: the world the probe looks at. An exited process never
  comes back, so a fingerprint is never reused: the start time and boot id in it
  are there for that.
* `Fault` may replace any statement; `Crash` drops the daemon's memory and its
  bus, `Restart` brings it back.

### 2.2 State and actions of `Lifecycle`

`pc[d]` walks through `Run` of each daemon process; `port`, `interest` and
`file` are the listener, the server's routing table and the token file.
`ServerSubscribes` and `ServerUnsubscribes` are the asynchronous half of the
NATS protocol: `Subscribe` only sends. `WriteToken` is two steps since
`os.WriteFile` truncates first. The deferred calls of `Run` are `CloseBus`,
`ShutdownServer`, `CloseStore`, in that order. `Dawdle` is a handler that uses
up its 5 s; `DrainLimit` counts how many of those fit into `drainTimeout`
(10 s / 5 s = 2).

### 2.3 The board

`SessionBoard` knows neither handler nor sweep nor table: a report is submitted, and
later it announces a conversation, changes its line as `Transition` says of the line
*as it is then*, or has no effect; a conversation may be buried. `ManagerBoard`
reads the line of a conversation off its row and the inbox off the bus and the
handler. That `Manager` implements it says that the four statements of `handle`
look like one step, and so do the many of `sweep`.

### 2.4 State and actions of `EventStore`

`columns` are the columns the sessions table has of those `migrate` adds; `at[p]` is
where process p is: `Closed`, at one of the ALTERs, `Filling` (the UPDATE behind the
last one) or `Ready`. `Open`, `Alter`, `Backfill` are the statements of `Open` and
`migrate`; `Leave` is the end of a process and the failure of any statement, which
`Open` answers by closing. `AppendEvent` is one transaction, so it is one action.
`LatestPrompt` is the correlated subquery `latestPromptSQL`, whose column `sm status`
prints; `RecentEvents` is the query behind `sm show`; the history is sorted by `Rank`,
the number of events that come later.
`Legacy` are the tables an older release left, and `Init` includes a migration that
an earlier process gave up at any column.

### 2.5 State and actions of `Hooks`

`phase` is what the agent really does; `flight` are the hooks that run, numbered in
the order they were started. `parseClaude`, `parseOpencode`, `claudeKind`,
`claudeNotify`, `claudeTitle` bear the names of the functions they model; the tail of
the transcript is one variable, the title it holds. Claude waits for a hook, so it
acts only while none is in flight; opencode does not. `Announce` is the plugin's
callback up to its first `await`.

`now` is the machine's clock. A hook stamps its event, in its own process
(hook.go:302), with some second between its start and its delivery; `Deliver` picks
one. `Handled` is the daemon's handler with the guard of `UpdateStatus`
(store.go:209): an event older than `row.last` moves no state, though its title counts.
So a later hook may bear an earlier second than one that ran beside it, and is then
dropped. `stale` remembers that the last hook that asks for a state was lost, overtaken
or dropped by the guard, and that nothing has made up for it; `staleTitle` that the last
one with a title was lost or overtaken. The properties speak of the row when they do
not hold. The agents are modelled from the hook names and notification
types that hook.go and sm.ts handle and from their comments.

### 2.6 State and actions of `Processes` and `Focus`

`procs` maps the pids in use to parent, start time, name and markers in the
environment. `ReadParent`, `ReadComm`, `ReadStart` are the reads of one round of
`Capture`; `Exit`, `Reuse`, `Reboot` are the host. `Focus` adds windows, tmux
(sessions, windows, panes, attached clients) and Orca. `f.at` names the next call of
the program; a step is one call of hyprctl, tmux or orca-ide, one call of the
runtime, or one look at `/proc`. The code goes by the environment of the agent, and
`Named` is the place that names; `Where` is the place the agent runs in. They differ
when a terminal hands on markers from the place it was launched in. `Fail` and `RpcFails` are the failure of a call, and
`orcaPoll` is `Retry`. The user may look at another window, use or leave a client,
change panes, close a window, quit Orca or change what it shows, at any step;
`touched` remembers that he did.

Definitions introduced by "A slip" are wrong variants of the definition that
follows. Nothing uses them: they are what `PROJECT.json` "mutants" substitutes to
show that a property can fail.

## 3. Runs

| run | instance | what it shows |
|---|---|---|
| `resume` | 1 conversation here, 2 processes, events in order, captures may fail, 1 crash | `TypeOK`; the daemon never kills a session whose live process has reported in (`ReaperSparesLive`); its statements are steps of the board (`BoardImplemented`) |
| `commands` | daemon, `sm ls`, `sm mark`, any order, 1 failing statement | candidates never run ahead of the table, reaping preserves `last_event_at`, remote sessions die of silence only; before the first failed statement, status comes from the newest second of the history (`StatusIsNewest`) |
| `ends` | 2 conversations, one on each host, fair | the count file, no death after a clean exit, and both reapers' liveness |
| `lifecycle` | 2 daemons, 1 client, a drain that one slow event uses up, stops and kills, fair | a first start drops no event, a stop in time loses none, a served token of one's own stays readable, no use of a closed store before the drain's timeout, every stop ends |
| `events` | 2 processes, 2 sessions, 3 events in any order, 2 old tables | the list shows the newest prompt and the last title, agrees with the history, no process works on half a migration |
| `hooks` | Claude or opencode, 5 hooks, 2 titles, 2 seconds, any hook lost | the row says what the agent does and what it calls the conversation; one announcement |
| `focus` | 7 desktop processes, 3 windows, 2 tmux clients, 4 places an agent may run in, one of them also with an inherited marker | `Capture` gets the agent, `Alive` is right, a focus that succeeds shows the place the agent's environment names, a focus of a dead one moves nothing, tmux is left alone until its window is in front, every focus ends |
| `resume_raced` | with `sm ls` | violates `ReaperSparesLive` |
| `late_identity` | with reordering | violates `ReaperSparesLive` |
| `partial_sweep` | one failing statement | violates `SweepKeepsCount` |
| `restart_window` | two starts | violates `ReadableTokenMeansSubscribed` |
| `migration` | a process that stops between ALTER and UPDATE | violates `PromptsKept` |

The last five are disagreements between the code and its comments; `PROJECT.json`
"findings" quotes both sides.

### 3.1 Bounds

All bounds are constants of the modules.

* `MaxTime`, `TTL`: with `TTL = 1` the seconds 0..2 hold a silence below, at and
  above the limit. The interleavings inside one second are all there, and the
  guard's `>=` and the cutoff's `<` are both met at equality.
* `MaxEvents`: two events are a row's creation and one later event, which is what
  each race needs; three give an old, a new and a late one.
* `MaxFaults`, `MaxCrashes`: one. The code keeps nothing between two failures.
* Sessions: one where the property is about one row (the statements touch one
  row), two where a set of them matters (the count, a sweep with several
  candidates, the remote and the local loop in one sweep).
* Processes: two are an old and a resumed one.
* Daemons: two are a restart or two rivals for the port. `restart_window` uses
  symmetry over daemons and clients, which no formula tells apart; `lifecycle`
  checks liveness and does not.
* `DrainLimit`: 1 in `lifecycle`, so that one slow event reaches the timeout and both
  sides of it are seen; the code's 10 s hold two slow events.
* `EventStore`: three events are two of one second and one of another, in any order
  of arrival; the old tables hold one prompt, or two that tie. Two processes are
  enough for each to find what the other has just done; they are interchangeable.
* `Hooks`: five hooks are a start, a prompt, a block, and two that overtake each other,
  get lost or are dropped by the guard; two seconds are enough for stamps in either
  order and for the guard at equality. The run ends when both are used up, hence no
  deadlock check.
* `Focus`: one act of the user and any number of exits (each pid ends once or twice),
  one reuse of the pid per boot, two boots. `MaxShellWalk` is 2 with up to two
  shells, so that the climb meets its limit. tmux and Orca start in every state the
  agent's place and its environment allow; a second act of the user was tried and finds nothing new.
* Deadlock is checked in all runs whose cfg does not say otherwise; in `Lifecycle`
  all daemons may be gone and all clients done, so it is off there.

### 3.2 Fairness

* `SF(Receive)`, `SF(SelectLocal(Sweeper))`: both wait for `handler.mu`. A Go
  mutex in starvation mode hands itself to the longest waiter, so a goroutine
  that finds it free again and again gets it. In `Lifecycle`, `SF(Lock)` and
  `SF(BeginSweep)` for the same reason.
* `WF` on the statements of handler and sweep: goroutines are scheduled, and each
  statement is bounded by a timeout.
* `WF(Tick)`, `WF(Restart)`: time passes; the unit file restarts the daemon after
  a failure (`contrib/sm.service`, `Restart=on-failure`). `ends` has no crash, so
  its result does not rest on the latter.
* `SF(LeaveSweepLoop)`: `select` picks at random among ready cases, so a loop that
  finds the context done at each tick leaves in the end.
* `WF(FocusStep)`: `sm focus` is scheduled and what it calls returns. `orcaRPC` has a
  deadline of ten seconds; hyprctl, tmux and orca-ide have none in the code and are
  taken to answer. Nothing is assumed of Orca: it may never get ready.
* Nothing is assumed of agents, users, commands, signals, kills or faults.

## 4. What is proved

`ManagerProofs.tla`, for every value of the constants that satisfies the named
assumptions (`StoreAssumption`: distinct null values, finitely many ids;
`ManagerAssumption`: the types of the parameters), hence for any number of
sessions, processes, `sm ls` and `sm mark`, any bounds, any event order, with
failing statements and crashes:

* `TypeCorrect`: `Spec => []TypeOK`. Among other things the handler never asks
  for a state the domain does not have, whatever statement failed before.
* `CandidatesCorrect`: `Spec => []CandidatesAreBehind`.
* `KeepsLastSeenCorrect`: `Spec => ReapKeepsLastSeen`.
* `RemoteSilenceCorrect`: `Spec => RemoteSilence`.

The argument. `Inv == TypeOK /\ CandidatesAreBehind /\ OnlyReapersKill` is
inductive. `CandidatesAreBehind` is the heart: a snapshot holds a row that still
exists, of the same host, whose `last_event_at` has not gone backwards since. Its
induction step needs that *no* statement of *any* actor decreases `last_event_at`
or changes `host_id` (`TableStep`: in each step the table `Grows`), which is the
recency guard, and that the clock does not go back (`ClockStep`).
`OnlyReapersKill` says no event and no `sm mark` asks for `dead`; with it, a step
that turns a row `dead` is one `Kill` of one candidate. Then the guard gives
`row.last <= s.last`, the invariant `s.last <= row.last`: the write leaves
`last_event_at` as it was (`KeepsLastSeenCorrect`), and for a remote row that
value has been older than the TTL since the SELECT (`RemoteSilenceCorrect`).
Neither `CandidatesAreBehind` nor `OnlyReapersKill` is needed for typing, but
neither action property follows from the type invariant alone.

The second half of `ManagerProofs.tla` is about what `handler.mu` buys. `Exclusive` (handler and sweep
are not both at work, and who works holds the mutex) is inductive in every
instance. The theorems carry side conditions on the constants, each of which the
code needs:

* `FinishedStaysFinished`: `Spec => FinishedNotReaped` if nothing reaps beside the
  mutex (`Listers = {}`) and no user marks a session `finished`. Inductive part:
  `NoneFinished`, no candidate of the sweep is `finished`. It survives because the
  handler, which alone could finish a candidate, is shut out, and `sm mark`, which
  is not, does not ask for that state.
* `CountCorrect`: `Spec => []CountAccurate` for the daemon alone with nothing
  failing (`Listers`, `Markers` empty, no fault, no crash). Inductive part:
  `CountShown`, the file is right unless the handler has yet to call the sink or
  the sweep has reaped something it has not announced.

`ResumeProofs.tla` proves the property this daemon is most about:

* `LiveIsSpared`: `Spec => ReaperSparesLive` if nothing reaps beside the mutex, no
  `sm emit` announces a conversation, and events of one conversation arrive in
  order; with `sm mark`, failing statements, crashes, and hooks that capture no
  process. `resume_raced` and `late_identity` show that the first and the last
  condition cannot be dropped; an emitted first event gives a remote conversation
  the daemon's host, which makes the local probe judge it.

Its invariant has two halves. `History` is about events: those on the bus are newer
than those taken (`InOrder`), an event speaks of one conversation (`Owners`), and
once a process has spoken no older process of the conversation speaks again
(`Succession`). `Identity` is about rows: one per conversation, on its host
(`OneRow`), and with the fingerprint of the running process as soon as an event of
it was taken (`Fingerprint`). An event that overwrites the fingerprint is newer than
every taken one, so by `Succession` it cannot bring back an older process. Last,
`FreshCandidates`: under the mutex what the sweep remembers of a row's process is
what the row says, so the process it finds dead is not the one that runs. TLC
checked the conjunction on the instance of `resume` with failures and a marker
before it was proved.

`BoardProofs.tla`: `BoardCorrect`, `Spec => BoardImplemented` if no command reaps or
marks beside the mutex (`Listers`, `Markers` empty); events in any order, `sm emit`,
failing statements, failed captures and crashes are all allowed. The invariant
`BoardInv` says that a conversation has one row (`Unique`, so a line is well
defined), that an event which names a row names one there is (`Addressed`), that
numbers on the bus are distinct and the handler's event is not on it (`Numbered`,
`NotTwice`: an event is applied at most once), and `Judged`: between `Classify` and
`Update` the status to be written is what the event makes of the status the row
*still* has. `Judged` is where the mutex is needed, through `Exclusive` and
`NoneFinished` of `ManagerProofs`. Each action is then a step of the board or leaves it
alone; one that changes two rows' columns changes one line.

`HistoryProofs.tla`: `NewestCorrect`, `Spec => []StatusIsNewest`, in every instance:
any order of events, `sm emit`, `sm ls` and `sm mark` beside the mutex. (The property
itself speaks of the time before the first failed statement or crash.) The invariant
`HistoryInv` says that whatever names a session names one with a row (`Known`), that
a note stands for a write that was made (`ByHand`), that the handler's event is in
the history and its next state one of the event's outcomes (`Judged`), and of every
row that all events that ask for a state are no newer than `last_event_at` or in hand
(`Heeded`), and where its status comes from (`Sourced`): a reaper, an event of the
newest second, a mark whose note is to come, or the creation of the row. The last two
cannot be left implicit: between a mark's UPDATE and its note the history does not
yet say what the row says. `CandidatesAreBehind` is needed too: reaping does not move
the time, so it cannot hide that an event was heeded.

`EventStoreProofs.tla`, for any number of processes, sessions, events and old tables:
`TypeCorrect`, `PromptCorrect`, `TitleCorrect`, `MigrationCorrect`, `ListCorrect`. The inductive `Inv` adds to the properties that a process past an ALTER
finds its column (`Migrated`), that event ids are below the next one (`InOrder`: an
arrival is the newest of its second) and differ (`Distinct`), that the table is finite,
and that ids without a row have nothing cached (`Blank`). What SQL's ORDER BY gives is
proved of every finite table: an event's rank is below the number of events, different
events have different ranks (`RankFacts`, `RankSeparates`), so by counting every rank
below that number is some event's (`EveryRank`) and a table that is not empty has a
newest event (`NewestIs`). `ListCorrect` follows: the last prompt within any limit is
the newest prompt of all, because a later one would have a lower rank and be within the
limit too.

`HooksProofs.tla`, for any titles, any number of hooks and any stretch of time, with
hooks in any order, stamped in any order, and any of them lost: `TypeCorrect`, `StartsOnceCorrect`, `RowCorrect`, `TitleCorrect`. Neither
`RowFollowsAgent` nor `RowShowsTitle` says anything while a hook runs; the invariant
says what the row *will* be. With Claude (`ClaudeInv`) one hook runs at a time, so none
is stamped before an event that was applied (`OneAtATime`) and the guard never drops one;
the row that results from the hook (`Taken`), if it asks for a state or nothing was lost
before, is what the agent does. With opencode (`OpencodeInv`) hooks overtake each other, so it says so
of the last hook that asks for a state (`LastAsks`), which no other that runs or has
come through follows; a hook that arrives behind that one makes `stale` true, and so does
that one itself if the guard drops it. The same is said of titles (`LastNames`, `Titled`),
without the guard; since the last hook that asks need not be the last with a title,
`newest` and `newestTitle` count them apart. `Numbered` tells hooks apart, `Clocked` says
that no stamp is ahead of the clock, which lets a newly created row take its first event,
and `Remembered` says the plugin's map
holds the conversation's title exactly while there is one, which is why it is announced
once. Both halves use that an event that asks for a state asks for the same whatever
the session's is (`BearsSame`).

`FocusProofs.tla`, for any process table, any chain of shells, any windows, tmux clients,
sessions and panes: `TypeCorrect`, `AliveCorrect`, `FingerprintCorrect`, `GoneCorrect`,
`ViewersCorrect`, `RaisedCorrect`, `OkCorrect`. Two arguments.

`ProcInv` (stated in `Processes`) follows a climb of `Capture`: while it lasts the
agent's pid is nobody else's and the climb has its eye on the agent or a shell below it
(`Climbs`); what it captured is separated from whoever has the pid later by the start
time, because no one has been started in the tick to come (`Started`), or by the boot
(`Identified`). `GoneCorrect` adds that a focus whose agent was gone never gets past
its first step, which needs `AliveIsTrue` there and that an agent does not come back.

`Course` follows a focus: as long as the user has not interfered (`touched`) and the
probe has been passed, the command is in the branch of the place the environment names
(`Branch`), the chain of ancestors begins at the agent or at a client and has the
terminal second (`Walk`), the window to raise is that terminal's or Orca's (`Target`),
the client shows the agent's session or nobody does and it is the one used last
(`Viewer`), and the client's window is in front while tmux is turned (`Front`).
`OkCorrect` is `Target`, `Viewer` and `Front` at the last step of each branch. The
conjuncts `Desk` (the desktop's processes stay), `Windowed` and `Order` (which holds
with the user's interference too, and gives half of `RaisedFirst`) were checked by TLC
on the instance of `focus`, as `Course` was, before they were proved.

What the constants have to satisfy, for these theorems and for the run:
`FocusAssumption` (types; the tmux server, the Orca app and its daemon are three
processes), `ClientsAssumption` (a tmux client owns no window, and its terminal is not
the Orca app) and `PlacesAssumption` (an agent whose environment names nothing was
started by a terminal that owns a window). Nothing is assumed of the markers: they may
be inherited and name another place than the one the agent runs in. What `OkCorrect`
says is what the code promises then, that the place which the environment names
(`Named`) is in front; it is the agent's own (`Where`) if its markers are (section 5).

`LifecycleProofs.tla`, for any number of daemons and clients and any drain limit,
under `LifecycleAssumption` (distinct null values, a positive limit):

* `TypeCorrect`: `Spec => []TypeOK`. `TypeOK` alone is not inductive (`handled`
  could pick up the null client from a busy handler without an event);
  `TypeOK /\ HandlerHoldsEvent` is.
* `FreshStartCorrect`: `Spec => []FreshStartDropsNothing`.
* `TokenReadableCorrect`: `Spec => []ServedTokenReadable`. Only the holder of the port
  changes the file (`FileStep`), and a daemon that serves is the holder (`PortHeld`).
* `GracefulStopCorrect`: `Spec => []GracefulStopLosesNothing`.
* `StoreOpenCorrect`: `Spec => []NoUseAfterClose`.

The argument is about who knows a token. `Out(d)` says that somebody other than
`d` has the token `d` would generate. It becomes true only by `WriteFile(d)`
(`OutStep`), hence only after the flush (`OutMeansServed`), and while a daemon
serves, its server routes (`Routed`, `PortHeld`). A client that reached a daemon
showed its token (`ClientsShowedToken`), so for a generated one it was out: the
server routes unless the daemon has been told to stop, which is
`FreshStartDropsNothing`. For the stop, `Accounted` follows an accepted event
from the queue through the handler into `handled`; `Drained` leaves no other
place than the last, and after a drain in time no event can be accepted any
more (`Quiet`). The one other way past the drain is a start whose token could not
be written, and that daemon no client can have reached, since its token was
never out. The conjunction `Inv` of these parts is stated in `Lifecycle`.

For the store a second conjunction, `StoreHeld`, is inductive beside `Inv`: an event
comes from a client that reached the daemon (`Origin`), the sweep loop lives only
while `Run` serves (`SweepServes`; `Run` waits for it before it closes anything), the
store is open until the close (`OpenWhileUp`), and after a drain in time nothing is
queued or at work (`NoneLeft`), nor can anything come (`Quiet` again).

Every safety invariant and action property of the passing runs is stated by a
theorem. Only model-checked: the liveness properties (`GoneIsReaped`, `SilentIsReaped`,
`StopEnds`, `FocusEnds`), since the proof system has no support for fairness or
`ENABLED`; and the five violations, which are counterexamples. Where a theorem about
`Manager` has side conditions on the constants they are named in its statement; the
runs with a violation show that two of those of `LiveIsSpared` cannot be dropped.
Nothing in the models is a recursive operator.

## 5. What the model leaves out

* Clocks of several hosts, and a clock that goes back: `ts` of an event is the
  model's one clock. With a clock that goes back, marks and events are skipped
  until it has caught up.
* Two processes that run one conversation at the same time.
* Working directories, listing order, output: they decide none of the properties
  here. Prompts and titles are in `EventStore` and `Hooks`, not in `Manager`.
* In `Manager` an event enters as the signal that parsing produced. The signals
  are all of (kind, notification type); a cfg picks some.
* In `Manager`, `sm emit` with an id that no row has. The handler then appends an
  event for no session and updates nothing; `EventStore` has such events.
* In `Hooks`, an agent that is killed, and hooks of Claude that outlive it. In the
  transcript, its lines: the tail holds a title or none.
* How a command resolves the prefix of an id that a user types (`resolveByPrefix`).
* In `Focus`: tmux clients without a window of this desktop (a console, ssh).
* Subreapers: in `Processes` an orphan goes to init.
* In `Focus`: the desktop's own processes stay (a terminal that is closed keeps its
  pid, without a window); the check of `sm focus` that the session is on this host
  (cli.go:191); a runtime that answers but keeps no promise beyond those its
  comments state; several tmux servers.
* A read of `/proc` that fails although the process runs; in the code it reads as
  death. `bootID` keeps its first answer, an error as well.
* A statement that fails after it has taken effect (a commit whose answer is lost
  to the deadline). A fault changes nothing.
* The count and the file write of the sink are one step under the mutex; `sm
  mark` could come between them, which ends like an `sm mark` right after.
* Failures of `Run` that leave before the daemon serves, other than a taken port and
  a token file that cannot be written (`FailToken`): a database or token file that
  cannot be read, a subscription or flush that the daemon's own server refuses.
* Events with neither a session id nor a native id (each makes a row of its own).
* Other programs on the port or in the token file; NATS reconnects (the daemon
  connects in-process, clients live for one event).

Disagreements seen while modelling and not given a run of their own:
`sm mark` and the reaping of `sm ls` change the number of waiting sessions
without a sink, although the count file is "updated on every state change"
(README.md:117); a session that finishes between the SELECT and the UPDATE of
`sm ls`, in the second the SELECT saw, becomes `dead`; titles and `idle_prompt`
are events but do not count against `RemoteReapTTL` (store.go:367); a remote
conversation first announced by `sm emit` gets the daemon's host (daemon.go:258);
a hook that captures no process leaves the old fingerprint rather than none
(hook.go:28-29); two events of one second, reordered, may leave the older one's state
(store.go:201-204 says a late event "cannot rewind" it); a hook of opencode that is
stamped a second earlier than one started before it, which ran beside it, is dropped by
the guard although it is the newer one, and the board is wrong until the next; README.md:91
has `sm ls` show the last prompt, but it prints title or cwd (cli.go:69-73) and the
prompt goes out through `sm status`; two slow events use up
the drain, and the handler that is still at work then meets a closed store (daemon.go, `Run`); `LIKE` takes a `_`
that a user types for any character and a `%` for any number of them (store.go:471), so
what the comment calls a prefix (store.go:455) need not be one; a hook reparented to a subreaper (a `systemd --user`)
is climbed past into that process, which is taken for the agent (liveness.go:44-46
speaks of init only); an `auth_success` during a block ends it on the board; a pane
id resolves on the default tmux server, whichever server the agent runs in
(focus.go:107), and `TMUX_PANE` is inherited by a terminal launched from a pane
(focus.go:77); hyprctl answers "ok" for a window closed in the meantime, so a focus
may report success for nothing.

## 6. Running

```
tlc -config resume.cfg MCManager       # and commands, ends, resume_raced, late_identity, partial_sweep
tlc -config lifecycle.cfg MCLifecycle  # and restart_window
tlc -config events.cfg MCEventStore    # and migration
tlc -config hooks.cfg Hooks
tlc -config focus.cfg MCFocus
tlapm ManagerProofs.tla                # and ResumeProofs, BoardProofs, HistoryProofs, LifecycleProofs,
                                       # EventStoreProofs, HooksProofs, FocusProofs
```

## 7. Plan

In order; each module is written so that it can be proved about (constants with
named assumptions, one action per operation, no recursive operator).

1. `Lifecycle` with three daemons: one that loaded a token which another replaced.
2. `BoardProofs` with `sm mark` and `sm ls`: what remains of the promise when commands
   write beside the mutex, and a board that says so.
3. `Commands`: the order of the list, `mark dead` (README.md:237 against `ParseState`).
4. Theorems for side conditions: `CountCorrect` with a crash, up to the next sink call.
