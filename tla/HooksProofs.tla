---------------------------- MODULE HooksProofs ----------------------------
(***************************************************************************)
(* Theorems about Hooks, for any titles and any number of hooks.            *)
(***************************************************************************)
EXTENDS Hooks, TLAPS

\* A hook whose event asks for a state whatever the session's is, and one whose event
\* has a title.
Asks(m) == \E e \in parse(m) : Bears(e)
Names(m) == \E e \in parse(m) : Entitles(e)

\* The status and the title that an event makes of a row, if the guard lets it by.
Taken(r, e) ==
  LET cur  == IF r.status = NoState THEN "idle" ELSE r.status
      next == Transition(cur, e) IN
  IF next = NoState THEN cur ELSE next
Titled(r, e) == IF Entitles(e) THEN e.title ELSE r.title

\* No hook that asks, or that names, and was sent later is through, lost or under way.
LastAsks(m) == Asks(m) /\ m.n > newest /\ \A k \in flight : Asks(k) => k.n <= m.n
LastNames(m) == Names(m) /\ m.n > newestTitle /\ \A k \in flight : Names(k) => k.n <= m.n

-----------------------------------------------------------------------------
(* The inductive invariant.                                                *)

\* The number of a hook tells it from the others, and from those that are gone.
Numbered ==
  /\ newest <= sent /\ newestTitle <= sent
  /\ \A m \in flight : m.n \in 1..sent /\ m.n # newest /\ m.n # newestTitle
  /\ \A m, k \in flight : m.n = k.n => m = k

\* No stamp is ahead of the clock.
Clocked ==
  /\ row.last <= now
  /\ \A m \in flight : m.at <= now

\* The plugin's map knows the conversation while opencode has it, under the title it
\* has there, and counts one start at most.
Remembered ==
  /\ starts <= 1
  /\ announced = {} => starts = 0
  /\ agent = "opencode" => announced = (IF phase = "off" THEN {} ELSE {title})

\* Claude sends one hook at a time, the last that was started, so that none is stamped
\* before an event that was applied, and the transcript's tail has its title or none.
OneAtATime ==
  /\ \A m, k \in flight : m = k
  /\ \A m \in flight : m.n = sent /\ row.last <= m.at
  /\ tail \in {NoTitle, title}
  /\ masked => phase \in {"blocked", "elicited"}

TitleShown(x) == phase = "ready" /\ tail # NoTitle => x = title

\* What the row says with Claude, or will say when the hook that runs is through.
ClaudeFollowed ==
  /\ flight = {} /\ ~stale => row.status \in Shown
  /\ \A m \in flight :
       /\ (\A e \in parse(m) : ~Matters(e)) /\ ~stale => row.status \in Shown
       /\ \A e \in parse(m) : Bears(e) \/ ~stale => Taken(row, e) \in Shown

ClaudeNamed ==
  /\ flight = {} /\ ~staleTitle => TitleShown(row.title)
  /\ \A m \in flight :
       /\ parse(m) = {} /\ ~staleTitle => TitleShown(row.title)
       /\ \A e \in parse(m) : Entitles(e) \/ ~staleTitle => TitleShown(Titled(row, e))

\* What the row says with opencode: what the last hook that asked for it asks for,
\* unless that was lost, overtaken or turned away.
OpencodeFollowed ==
  /\ \A m \in flight : LastAsks(m) =>
       \A e \in parse(m) : Transition(NoState, e) \in Shown
  /\ (\A m \in flight : Asks(m) => m.n < newest) /\ ~stale => row.status \in Shown

OpencodeNamed ==
  /\ \A m \in flight : LastNames(m) =>
       \A e \in parse(m) : e.title = title
  /\ (\A m \in flight : Names(m) => m.n < newestTitle) /\ ~staleTitle /\ title # NoTitle
       => row.title = title

ClaudeInv == OneAtATime /\ ClaudeFollowed /\ ClaudeNamed
OpencodeInv == /\ ~masked
               /\ OpencodeFollowed /\ OpencodeNamed

Inv ==
  /\ TypeOK
  /\ Numbered
  /\ Clocked
  /\ Remembered
  /\ agent = "claude" => ClaudeInv
  /\ agent = "opencode" => OpencodeInv

-----------------------------------------------------------------------------
(* The operators.                                                          *)

LEMMA TransitionType ==
  ASSUME NEW cur, NEW e
  PROVE  Transition(cur, e) \in State \cup {NoState}
BY DEF Transition, NextState, State, NoState, Resuming, Informational

\* An event that asks for a state asks for the same one whatever the session's is;
\* one that does not can only end a block.
LEMMA BearsSame ==
  ASSUME NEW cur, NEW e
  PROVE  /\ Bears(e) => Transition(cur, e) = Transition(NoState, e)
         /\ ~Bears(e) => \/ Transition(cur, e) = NoState
                         \/ cur = "waiting" /\ Transition(cur, e) = "running"
         /\ e.notify = NoNotify /\ ~Bears(e) => Transition(cur, e) = NoState
BY DEF Bears, Transition, NextState, NoState, Resuming, Informational, NoNotify

LEMMA HandledType ==
  ASSUME NEW r \in Row, NEW e, NEW t \in Nat, e.title \in Titles
  PROVE  Handled(r, e, t) \in Row
BY TransitionType DEF Handled, Created, Entitles, State, NoState, Row

\* What the handler makes of a row, with the guard and without.
LEMMA HandledParts ==
  ASSUME NEW r \in Row, NEW e, NEW t \in Nat
  PROVE  /\ Handled(r, e, t).title = Titled(r, e)
         /\ Handled(r, e, t).last \in {r.last, t}
         /\ r.status = NoState \/ r.last <= t => Handled(r, e, t).status = Taken(r, e)
         /\ r.status # NoState /\ t < r.last => Handled(r, e, t).status = r.status
<1> DEFINE h == Created(r, t)
<1>1. /\ h.status = IF r.status = NoState THEN "idle" ELSE r.status
      /\ h.last = IF r.status = NoState THEN t ELSE r.last
  BY DEF Created, Row
<1>2. /\ Handled(r, e, t).title = Titled(r, e)
      /\ Handled(r, e, t).last \in {h.last, t}
      /\ ~(t < h.last) => Handled(r, e, t).status = Taken(r, e)
      /\ t < h.last => Handled(r, e, t).status = h.status
  BY <1>1 DEF Handled, Titled, Taken, TooOld
<1> HIDE DEF h
<1>3. r.last \in Nat
  BY DEF Row
<1> QED BY <1>1, <1>2, <1>3

\* Only an event that matters changes a status.
LEMMA MattersOnly ==
  ASSUME NEW e, ~Matters(e), NEW r \in Row, r.status # NoState
  PROVE  Taken(r, e) = r.status
BY DEF Matters, Taken, Row

\* A hook has one event at most.
LEMMA ParseType ==
  ASSUME NEW m, m.title \in Titles, tail \in Titles
  PROVE  /\ \A e \in parse(m) : e.title \in Titles
         /\ \A e, f \in parse(m) : e = f
         /\ agent = "opencode" => \A e \in parse(m) : e.notify = NoNotify /\ e.title = m.title
BY DEF parse, parseClaude, parseOpencode, claudeTitle, Titles

-----------------------------------------------------------------------------
(* Typing, and what holds with either agent.                               *)

LEMMA RunType ==
  ASSUME TypeOK, NEW name \in HookName, NEW detail \in Detail, NEW t \in Titles,
         Run(name, detail, t)
  PROVE  flight' \subseteq Input /\ sent' \in Nat
BY DEF Run, TypeOK, Input

\* An agent starts one hook or none.
LEMMA Sends ==
  ASSUME TypeOK, Claude \/ Opencode
  PROVE  \/ UNCHANGED <<flight, sent>>
         \/ \E name \in HookName, detail \in Detail, t \in Titles : Run(name, detail, t)
<1> USE DEF HookName, Detail, NotifyType, NoNotify
<1>1. title \in Titles /\ NoTitle \in Titles
  BY DEF TypeOK, Titles
<1>2. CASE ClaudeSession \/ ClaudeTurn
  BY <1>1, <1>2 DEF ClaudeSession, ClaudeTurn
<1>3. CASE ClaudeAsks
  BY <1>1, <1>3 DEF ClaudeAsks
<1>4. CASE ClaudeNotes \/ ClaudeWrites
  BY <1>1, <1>4 DEF ClaudeNotes, ClaudeWrites
<1>5. CASE OpencodeUpdates
  <2>1. PICK t \in Titles : Announce(t)
    BY <1>1, <1>5 DEF OpencodeUpdates, Titles
  <2> QED BY <2>1 DEF Announce
<1>6. CASE OpencodeTurn \/ OpencodeRelaunch
  BY <1>1, <1>6 DEF OpencodeTurn, OpencodeRelaunch
<1> QED BY <1>2, <1>3, <1>4, <1>5, <1>6 DEF Claude, Opencode

LEMMA ClaudeType == ASSUME TypeOK, Claude PROVE TypeOK'
<1> USE DEF TypeOK
<1>1. title' \in Titles /\ tail' \in Titles
  BY DEF Claude, ClaudeSession, ClaudeTurn, ClaudeAsks, ClaudeNotes, ClaudeWrites, Titles
<1>2. phase' \in Phases
  BY DEF Claude, ClaudeSession, ClaudeTurn, ClaudeAsks, ClaudeNotes, ClaudeWrites, Enter, Stay,
     Phases
<1>3. masked' \in BOOLEAN
  <2>1. (phase \in {"blocked", "elicited"}) \in BOOLEAN
    OBVIOUS
  <2> QED
    BY <2>1 DEF Claude, ClaudeSession, ClaudeTurn, ClaudeAsks, ClaudeNotes, ClaudeWrites, Enter, Stay
<1>4. flight' \subseteq Input /\ sent' \in Nat
  BY Sends, RunType
<1> QED BY <1>1, <1>2, <1>3, <1>4 DEF Claude, plugin, daemon

LEMMA OpencodeType == ASSUME TypeOK, Opencode PROVE TypeOK'
<1> USE DEF TypeOK
<1>1. title' \in Titles /\ phase' \in Phases /\ masked' \in BOOLEAN
  BY DEF Opencode, OpencodeUpdates, OpencodeTurn, OpencodeRelaunch, Enter, Phases, Titles
<1>2. announced' \subseteq Titles
  <2>1. \A t \in Titles : Announce(t) => announced' \subseteq Titles
    BY DEF Announce, plugin
  <2> QED
    BY <1>1, <2>1 DEF Opencode, OpencodeUpdates, OpencodeTurn, OpencodeRelaunch, plugin
<1>3. starts' \in Nat
  <2>1. \A t : Announce(t) => starts' \in {starts, starts + 1}
    BY DEF Announce, plugin
  <2>2. starts' \in {starts, starts + 1, 0}
    BY <2>1 DEF Opencode, OpencodeUpdates, OpencodeTurn, OpencodeRelaunch, plugin
  <2> QED BY <2>2
<1>4. flight' \subseteq Input /\ sent' \in Nat
  BY Sends, RunType
<1> QED BY <1>1, <1>2, <1>3, <1>4 DEF Opencode, daemon

LEMMA DeliverType ==
  ASSUME TypeOK, NEW m \in flight, Deliver(m) \/ Lose(m)
  PROVE  TypeOK'
<1> USE DEF TypeOK
<1>1. flight' \subseteq Input /\ newest' \in Nat /\ newestTitle' \in Nat
  BY DEF Deliver, Lose, Passed, Input
<1>2. row' \in Row
  <2>1. \A e \in parse(m) : e.title \in Titles
    BY ParseType DEF Input
  <2>2. row' = row \/ \E e \in parse(m), t \in Nat : row' = Handled(row, e, t)
    <3>1. m.at .. now \subseteq Nat
      BY DEF Input
    <3> QED BY <3>1 DEF Deliver, Lose
  <2> QED BY <2>1, <2>2, HandledType
<1>3. stale' \in BOOLEAN /\ staleTitle' \in BOOLEAN
  <2>1. /\ (m.n < newest) \in BOOLEAN /\ (m.n < newestTitle) \in BOOLEAN
        /\ \A b : (stale \/ b) \in BOOLEAN /\ (staleTitle \/ b) \in BOOLEAN
    OBVIOUS
  <2>2. CASE Lose(m)
    BY <2>1, <2>2 DEF Lose
  <2>3. CASE Deliver(m)
    BY <2>1, <2>3 DEF Deliver
  <2> QED BY <2>2, <2>3
<1> QED BY <1>1, <1>2, <1>3 DEF Deliver, Lose, agentVars, plugin

LEMMA NumberedStep == ASSUME TypeOK, Numbered, Next PROVE Numbered'
<1> USE DEF TypeOK, Numbered, Input
<1>1. CASE Claude \/ Opencode
  <2>1. newest' = newest /\ newestTitle' = newestTitle
    BY <1>1 DEF Claude, Opencode, daemon
  <2>2. CASE UNCHANGED <<flight, sent>>
    BY <2>1, <2>2
  <2>3. ASSUME NEW name \in HookName, NEW detail \in Detail, NEW t \in Titles, Run(name, detail, t)
        PROVE  Numbered'
    <3> DEFINE h == [n |-> sent + 1, at |-> now, name |-> name, detail |-> detail, title |-> t]
    <3>1. sent' = sent + 1 /\ flight' = flight \cup {h} /\ h.n = sent + 1
      BY <2>3 DEF Run
    <3> HIDE DEF h
    <3> QED BY <2>1, <3>1
  <2> QED BY <1>1, <2>2, <2>3, Sends
<1>2. ASSUME NEW m \in flight, Deliver(m) \/ Lose(m) PROVE Numbered'
  BY <1>2 DEF Deliver, Lose, Passed
<1>3. CASE Tick
  BY <1>3 DEF Tick, daemon
<1> QED BY <1>1, <1>2, <1>3 DEF Next

LEMMA ClockedStep == ASSUME TypeOK, Clocked, Next PROVE Clocked'
<1> USE DEF TypeOK, Clocked, Input
<1>1. CASE Claude \/ Opencode
  <2>1. row' = row /\ now' = now
    BY <1>1 DEF Claude, Opencode, daemon
  <2>2. ASSUME NEW name, NEW detail, NEW t, Run(name, detail, t)
        PROVE  \A m \in flight' : m \in flight \/ m.at = now
    BY <2>2 DEF Run
  <2>3. \A m \in flight' : m \in flight \/ m.at = now
    BY <1>1, <2>2, Sends
  <2> QED BY <2>1, <2>3
<1>2. ASSUME NEW m \in flight, Deliver(m) \/ Lose(m) PROVE Clocked'
  <2>1. flight' \subseteq flight /\ now' = now
    BY <1>2 DEF Deliver, Lose, Passed
  <2>2. row' = row \/ \E e \in parse(m), t \in m.at .. now : row' = Handled(row, e, t)
    BY <1>2 DEF Deliver, Lose
  <2>3. \A t \in m.at .. now : t \in Nat /\ t <= now
    OBVIOUS
  <2>4. row'.last <= now
    BY <2>2, <2>3, HandledParts
  <2> QED BY <2>1, <2>4
<1>3. CASE Tick
  BY <1>3 DEF Tick, daemon, Row
<1> QED BY <1>1, <1>2, <1>3 DEF Next

LEMMA RememberedStep == ASSUME TypeOK, Remembered, Next PROVE Remembered'
<1> USE DEF TypeOK, Remembered
<1>1. CASE Claude
  BY <1>1 DEF Claude, plugin
<1>2. CASE Opencode /\ OpencodeUpdates
  <2>1. PICK t : title' = t /\ Announce(t)
    BY <1>2 DEF OpencodeUpdates
  <2>2. announced' = {t} /\ phase' # "off" /\ agent' = agent
    BY <1>2, <2>1 DEF Announce, OpencodeUpdates, Opencode, Phases, plugin
  <2>3. \/ announced = {} /\ starts' = starts + 1
        \/ starts' = starts
    BY <2>1 DEF Announce, plugin
  <2> QED BY <2>1, <2>2, <2>3
<1>3. CASE Opencode /\ OpencodeTurn
  BY <1>3 DEF Opencode, OpencodeTurn, Enter, plugin
<1>4. CASE Opencode /\ OpencodeRelaunch
  BY <1>4 DEF Opencode, OpencodeRelaunch, Enter
<1>5. ASSUME NEW m \in flight, Deliver(m) \/ Lose(m) PROVE Remembered'
  BY <1>5 DEF Deliver, Lose, agentVars, plugin
<1>6. CASE Tick
  BY <1>6 DEF Tick, agentVars, plugin
<1> QED BY <1>1, <1>2, <1>3, <1>4, <1>5, <1>6 DEF Next, Opencode

-----------------------------------------------------------------------------
(* Claude.                                                                 *)

\* What each hook of Claude makes of the session's status.
LEMMA ClaudeOutcome ==
  ASSUME agent = "claude", NEW h, NEW r
  PROVE  /\ h.name = "SessionStart" /\ h.detail = "compact" => parse(h) = {}
         /\ \/ h.name = "SessionStart" /\ h.detail = "startup"
            \/ h.name \in {"UserPromptSubmit", "PreToolUse", "Notification", "Stop", "SessionEnd"}
            => parse(h) # {}
         /\ h.name # "Notification" => \A e \in parse(h) : Matters(e)
         /\ h.name \in {"SessionStart", "Stop"} =>
              \A e \in parse(h) : Taken(r, e) = "idle"
         /\ h.name = "SessionEnd" => \A e \in parse(h) : Taken(r, e) = "finished"
         /\ h.name \in {"UserPromptSubmit", "PreToolUse"} =>
              \A e \in parse(h) : Taken(r, e) = "running"
<1>1. \A e : /\ e.kind \in {"session_start", "stop"} => Taken(r, e) = "idle"
             /\ e.kind = "session_end" => Taken(r, e) = "finished"
             /\ e.kind \in {"user_prompt", "tool_use"} => Taken(r, e) = "running"
  BY DEF Taken, Transition, NextState, NoState
<1>2. /\ h.name = "SessionStart" => claudeKind(h.name) = "session_start"
      /\ h.name = "Stop" => claudeKind(h.name) = "stop"
      /\ h.name = "SessionEnd" => claudeKind(h.name) = "session_end"
      /\ h.name = "UserPromptSubmit" => claudeKind(h.name) = "user_prompt"
      /\ h.name = "PreToolUse" => claudeKind(h.name) = "tool_use"
      /\ h.name = "Notification" => claudeKind(h.name) = "notification"
  BY DEF claudeKind
<1>3. \A e \in parse(h) : e.kind = claudeKind(h.name)
  BY DEF parse, parseClaude
<1>4. \A e : e.kind \in {"session_start", "stop", "session_end", "user_prompt", "tool_use"} => Matters(e)
  BY DEF Matters, Transition, NextState, NoState, State
<1>5. h.name # "Notification" =>
        claudeKind(h.name) \in {"session_start", "stop", "session_end", "user_prompt", "tool_use", NoKind}
  BY DEF claudeKind
<1>6. claudeKind(h.name) = NoKind => parse(h) = {}
  BY DEF parse, parseClaude
<1>7. parse(h) = {} <=> \/ claudeKind(h.name) = NoKind
                        \/ claudeKind(h.name) = "session_start" /\ h.detail = "compact"
  BY DEF parse, parseClaude
<1>8. h.name # "Notification" => \A e \in parse(h) : Matters(e)
  BY <1>3, <1>4, <1>5, <1>6
<1> QED BY <1>1, <1>2, <1>3, <1>7, <1>8 DEF NoKind

LEMMA ClaudeNotified ==
  ASSUME agent = "claude", NEW h, NEW r, h.name = "Notification"
  PROVE  /\ h.detail \in {"permission_prompt", "needs_permission", "elicitation_dialog"} =>
              \A e \in parse(h) : Matters(e) /\ Taken(r, e) = "waiting"
         /\ h.detail \in {"elicitation_response", "auth_success"} =>
              \A e \in parse(h) :
                /\ ~Bears(e) /\ Matters(e)
                /\ r.status = "waiting" => Taken(r, e) = "running"
                /\ r.status \notin {"waiting", NoState} => Taken(r, e) = r.status
         /\ h.detail \in {"idle_prompt", "waiting_for_input"} =>
              \A e \in parse(h) :
                ~Bears(e) /\ (r.status # NoState => Taken(r, e) = r.status)
<1>1. \A e \in parse(h) : e.kind = "notification" /\ e.notify = claudeNotify(h.detail)
  BY DEF parse, parseClaude, claudeKind, NoKind
<1>2. /\ h.detail \in {"permission_prompt", "needs_permission"} =>
           claudeNotify(h.detail) = "permission_prompt"
      /\ h.detail \in {"elicitation_dialog", "elicitation_response", "auth_success"} =>
           claudeNotify(h.detail) = h.detail
      /\ h.detail \in {"idle_prompt", "waiting_for_input"} =>
           claudeNotify(h.detail) = "idle_prompt"
  BY DEF claudeNotify, NotifyType, NoNotify
<1> QED
  BY <1>1, <1>2 DEF Taken, Bears, Matters, Transition, Resuming, Informational, State, NoState

LEMMA ClaudeTitled ==
  ASSUME agent = "claude", NEW h
  PROVE  /\ h.name = "SessionStart" => \A e \in parse(h) : e.title = h.title
         /\ h.name \in {"Stop", "Notification"} /\ h.title = NoTitle =>
              \A e \in parse(h) : e.title = tail
<1>1. CASE h.name = "SessionStart"
  <2>1. claudeKind(h.name) = "session_start"
    BY <1>1 DEF claudeKind
  <2> QED BY <1>1, <2>1 DEF parse, parseClaude, claudeTitle
<1>2. CASE h.name \in {"Stop", "Notification"}
  <2>1. claudeKind(h.name) \in {"stop", "notification"}
    BY <1>2 DEF claudeKind
  <2> QED BY <1>2, <2>1 DEF parse, parseClaude, claudeTitle
<1> QED BY <1>1, <1>2

\* A hook that is started when none runs.
LEMMA RunOne ==
  ASSUME flight = {}, NEW name, NEW detail, NEW t, Run(name, detail, t)
  PROVE  \E h : /\ flight' = {h} /\ h.name = name /\ h.detail = detail /\ h.title = t
               /\ h.n = sent' /\ h.at = now
<1> DEFINE h == [n |-> sent + 1, at |-> now, name |-> name, detail |-> detail, title |-> t]
<1>1. flight' = {h} /\ h.name = name /\ h.detail = detail /\ h.title = t /\ h.n = sent' /\ h.at = now
  BY DEF Run
<1> QED BY <1>1

LEMMA ClaudeFollows ==
  ASSUME agent = "claude", UNCHANGED <<agent, tail, row, stale>>, NEW h, flight' = {h},
         (\A e \in parse(h) : ~Matters(e)) /\ ~stale => row.status \in Shown',
         \A e \in parse(h) : Bears(e) \/ ~stale => Taken(row, e) \in Shown'
  PROVE  ClaudeFollowed'
<1>1. parse(h)' = parse(h)
  BY DEF parse, parseClaude, claudeTitle
<1> QED BY <1>1 DEF ClaudeFollowed, Bears, Matters, Taken

LEMMA ClaudeNames ==
  ASSUME agent = "claude", UNCHANGED <<agent, title, tail, row, staleTitle>>, NEW h, flight' = {h},
         phase' = "ready" /\ tail # NoTitle =>
           /\ parse(h) = {} /\ ~staleTitle => row.title = title
           /\ \A e \in parse(h) : Entitles(e) \/ ~staleTitle => Titled(row, e) = title
  PROVE  ClaudeNamed'
<1>1. parse(h)' = parse(h)
  BY DEF parse, parseClaude, claudeTitle
<1> QED BY <1>1 DEF ClaudeNamed, TitleShown, Titled, Entitles

LEMMA OneAtATimeStep == ASSUME TypeOK, Clocked, OneAtATime, Claude PROVE OneAtATime'
<1>1. \A m, k \in flight' : m = k
  BY Sends, RunOne DEF Claude
<1>2. \A m \in flight' : m.n = sent' /\ row'.last <= m.at
  BY Sends, RunOne DEF Claude, Clocked, daemon
<1>3. tail' \in {NoTitle, title'}
  BY DEF OneAtATime, Claude, ClaudeSession, ClaudeTurn, ClaudeAsks, ClaudeNotes, ClaudeWrites
<1>4. masked' => phase' \in {"blocked", "elicited"}
  BY DEF OneAtATime, Claude, ClaudeSession, ClaudeTurn, ClaudeAsks, ClaudeNotes, ClaudeWrites,
     Enter, Stay
<1> QED BY <1>1, <1>2, <1>3, <1>4 DEF OneAtATime

LEMMA ClaudeFollowedStep ==
  ASSUME TypeOK, OneAtATime, ClaudeFollowed, Claude
  PROVE  ClaudeFollowed'
<1>1. /\ agent = "claude" /\ flight = {}
      /\ UNCHANGED <<agent, row, stale>>
  BY DEF Claude, daemon
<1>2. ~stale => row.status \in Shown
  BY <1>1 DEF ClaudeFollowed
<1>3. CASE ClaudeWrites
  BY <1>1, <1>2, <1>3 DEF ClaudeWrites, Stay, ClaudeFollowed, Shown
<1>4. CASE ClaudeSession
  <2>1. CASE phase = "off" /\ Enter("ready") /\ Run("SessionStart", "startup", title)
    <3>1. PICK h : flight' = {h} /\ h.name = "SessionStart" /\ h.detail = "startup"
      BY <1>1, <2>1, RunOne
    <3>2. parse(h) # {} /\ \A e \in parse(h) : Matters(e) /\ Taken(row, e) \in Shown'
      BY <1>1, <2>1, <3>1, ClaudeOutcome DEF Shown, Enter
    <3> QED BY <1>1, <1>4, <3>1, <3>2, ClaudeFollows DEF ClaudeSession
  <2>2. CASE phase = "ready" /\ Enter("off") /\ Run("SessionEnd", "", NoTitle)
    <3>1. PICK h : flight' = {h} /\ h.name = "SessionEnd"
      BY <1>1, <2>2, RunOne
    <3>2. parse(h) # {} /\ \A e \in parse(h) : Matters(e) /\ Taken(row, e) \in Shown'
      BY <1>1, <2>2, <3>1, ClaudeOutcome DEF Shown, Enter
    <3> QED BY <1>1, <1>4, <3>1, <3>2, ClaudeFollows DEF ClaudeSession
  <2>3. CASE /\ phase \in {"ready", "turn", "approved"}
             /\ Stay /\ Run("SessionStart", "compact", title)
    <3>1. PICK h : flight' = {h} /\ h.name = "SessionStart" /\ h.detail = "compact"
      BY <1>1, <2>3, RunOne
    <3>2. parse(h) = {} /\ Shown' = Shown
      BY <1>1, <2>3, <3>1, ClaudeOutcome DEF Shown, Stay
    <3> QED BY <1>1, <1>2, <1>4, <3>1, <3>2, ClaudeFollows DEF ClaudeSession
  <2> QED BY <1>4, <2>1, <2>2, <2>3 DEF ClaudeSession
<1>5. CASE ClaudeTurn
  <2>1. ASSUME NEW name \in {"UserPromptSubmit", "PreToolUse"}, NEW t,
               Run(name, "", t), phase' = "turn"
        PROVE  ClaudeFollowed'
    <3>1. PICK h : flight' = {h} /\ h.name = name
      BY <1>1, <2>1, RunOne
    <3>2. parse(h) # {} /\ \A e \in parse(h) : Matters(e) /\ Taken(row, e) \in {"running"}
      BY <1>1, <3>1, ClaudeOutcome
    <3>3. Shown' = {"running"}
      BY <1>1, <2>1 DEF Shown
    <3> QED BY <1>1, <1>5, <3>1, <3>2, <3>3, ClaudeFollows DEF ClaudeTurn
  <2>2. CASE Enter("ready") /\ Run("Stop", "", NoTitle)
    <3>1. PICK h : flight' = {h} /\ h.name = "Stop"
      BY <1>1, <2>2, RunOne
    <3>2. parse(h) # {} /\ \A e \in parse(h) : Matters(e) /\ Taken(row, e) \in Shown'
      BY <1>1, <2>2, <3>1, ClaudeOutcome DEF Shown, Enter
    <3> QED BY <1>1, <1>5, <3>1, <3>2, ClaudeFollows DEF ClaudeTurn
  <2> QED BY <1>5, <2>1, <2>2 DEF ClaudeTurn, Enter
<1>6. CASE ClaudeAsks
  <2>1. ASSUME NEW d \in {"permission_prompt", "needs_permission", "elicitation_dialog"},
               Run("Notification", d, NoTitle),
               phase' \in {"blocked", "elicited"}, masked' = FALSE
        PROVE  ClaudeFollowed'
    <3>1. PICK h : flight' = {h} /\ h.name = "Notification" /\ h.detail = d
      BY <1>1, <2>1, RunOne
    <3>2. parse(h) # {}
      BY <1>1, <3>1, ClaudeOutcome
    <3>3. \A e \in parse(h) : Matters(e) /\ Taken(row, e) = "waiting"
      BY <1>1, <2>1, <3>1, ClaudeNotified
    <3>4. "waiting" \in Shown'
      BY <2>1 DEF Shown
    <3> QED BY <1>1, <1>6, <3>1, <3>2, <3>3, <3>4, ClaudeFollows DEF ClaudeAsks
  <2>2. CASE phase = "elicited" /\ Enter("turn") /\ Run("Notification", "elicitation_response", NoTitle)
    <3>1. PICK h : flight' = {h} /\ h.name = "Notification" /\ h.detail = "elicitation_response"
      BY <1>1, <2>2, RunOne
    <3>2. parse(h) # {}
      BY <1>1, <3>1, ClaudeOutcome
    <3>3. \A e \in parse(h) : Matters(e) /\ (Bears(e) \/ ~stale => Taken(row, e) \in Shown')
      BY <1>1, <1>2, <2>2, <3>1, ClaudeNotified DEF Shown, Enter, Stay, NoState
    <3> QED BY <1>1, <1>6, <3>1, <3>2, <3>3, ClaudeFollows DEF ClaudeAsks
  <2>3. ASSUME phase = "blocked", flight' = flight,
               \/ phase' = "approved" /\ ~masked
               \/ phase' = "turn" /\ masked
        PROVE  ClaudeFollowed'
    <3>1. Shown' = Shown
      BY <1>1, <2>3 DEF Shown
    <3> QED BY <1>1, <1>2, <2>3, <3>1 DEF ClaudeFollowed
  <2> QED BY <1>6, <2>1, <2>2, <2>3 DEF ClaudeAsks, Enter
<1>7. CASE ClaudeNotes
  <2>1. ASSUME NEW d \in {"idle_prompt", "waiting_for_input"},
               phase \in {"ready", "turn"}, Stay, Run("Notification", d, NoTitle)
        PROVE  ClaudeFollowed'
    <3>1. PICK h : flight' = {h} /\ h.name = "Notification" /\ h.detail = d
      BY <1>1, <2>1, RunOne
    <3>2. parse(h) # {}
      BY <1>1, <3>1, ClaudeOutcome
    <3>3. \A e \in parse(h) : ~Bears(e) /\ (row.status # NoState => Taken(row, e) = row.status)
      BY <1>1, <2>1, <3>1, ClaudeNotified
    <3>4. Shown' = Shown /\ NoState \notin Shown
      BY <1>1, <2>1 DEF Shown, Stay, NoState
    <3> QED BY <1>1, <1>2, <1>7, <3>1, <3>2, <3>3, <3>4, ClaudeFollows DEF ClaudeNotes
  <2>2. CASE /\ phase # "off"
             /\ phase' = (IF phase = "approved" THEN "turn" ELSE phase)
             /\ masked' = (phase \in {"blocked", "elicited"})
             /\ Run("Notification", "auth_success", NoTitle)
    <3>1. PICK h : flight' = {h} /\ h.name = "Notification" /\ h.detail = "auth_success"
      BY <1>1, <2>2, RunOne
    <3>2. parse(h) # {}
      BY <1>1, <3>1, ClaudeOutcome
    <3>3. \A e \in parse(h) : Matters(e) /\ (Bears(e) \/ ~stale => Taken(row, e) \in Shown')
      BY <1>1, <1>2, <2>2, <3>1, ClaudeNotified DEF Shown, NoState, TypeOK, Phases, OneAtATime
    <3> QED BY <1>1, <1>7, <3>1, <3>2, <3>3, ClaudeFollows DEF ClaudeNotes
  <2> QED BY <1>7, <2>1, <2>2 DEF ClaudeNotes
<1> QED BY <1>3, <1>4, <1>5, <1>6, <1>7 DEF Claude

LEMMA ClaudeNamedStep ==
  ASSUME TypeOK, OneAtATime, ClaudeNamed, Claude
  PROVE  ClaudeNamed'
<1>1. /\ agent = "claude" /\ flight = {}
      /\ UNCHANGED <<agent, row, staleTitle>>
  BY DEF Claude, daemon
<1>2. ~staleTitle => TitleShown(row.title)
  BY <1>1 DEF ClaudeNamed
<1>3. tail \in {NoTitle, title}
  BY DEF OneAtATime
<1>4. ASSUME UNCHANGED <<title, tail>>, phase' # "ready" PROVE ClaudeNamed'
  BY <1>4 DEF ClaudeNamed, TitleShown
<1>5. CASE ClaudeWrites
  BY <1>1, <1>5 DEF ClaudeWrites, Stay, ClaudeNamed, TitleShown
<1>6. CASE ClaudeSession
  <2>1. UNCHANGED <<title, tail>>
    BY <1>6 DEF ClaudeSession
  <2>2. CASE Enter("off")
    BY <1>4, <2>1, <2>2 DEF Enter
  <2>3. CASE Run("SessionStart", "startup", title)
    <3>1. PICK h : flight' = {h} /\ h.name = "SessionStart" /\ h.detail = "startup" /\ h.title = title
      BY <1>1, <2>3, RunOne
    <3>2. parse(h) # {} /\ \A e \in parse(h) : e.title = title
      BY <1>1, <3>1, ClaudeOutcome, ClaudeTitled
    <3> QED BY <1>1, <1>3, <2>1, <3>1, <3>2, ClaudeNames DEF Titled, Entitles
  <2>4. CASE Stay /\ Run("SessionStart", "compact", title)
    <3>1. PICK h : flight' = {h} /\ h.name = "SessionStart" /\ h.detail = "compact"
      BY <1>1, <2>4, RunOne
    <3>2. parse(h) = {}
      BY <1>1, <3>1, ClaudeOutcome
    <3> QED BY <1>1, <1>2, <2>1, <2>4, <3>1, <3>2, ClaudeNames DEF Stay, TitleShown
  <2> QED BY <1>6, <2>2, <2>3, <2>4 DEF ClaudeSession
<1>7. ASSUME NEW name \in {"Stop", "Notification"}, NEW d, Run(name, d, NoTitle),
             UNCHANGED <<title, tail>>
      PROVE  ClaudeNamed'
  <2>1. PICK h : flight' = {h} /\ h.name = name /\ h.title = NoTitle
    BY <1>1, <1>7, RunOne
  <2>2. parse(h) # {} /\ \A e \in parse(h) : e.title = tail
    BY <1>1, <2>1, ClaudeOutcome, ClaudeTitled
  <2> QED BY <1>1, <1>3, <1>7, <2>1, <2>2, ClaudeNames DEF Titled, Entitles
<1>8. CASE ClaudeTurn
  BY <1>4, <1>7, <1>8 DEF ClaudeTurn, Enter
<1>9. CASE ClaudeAsks
  BY <1>4, <1>9 DEF ClaudeAsks, Enter
<1>10. CASE ClaudeNotes
  BY <1>7, <1>10 DEF ClaudeNotes
<1> QED BY <1>5, <1>6, <1>8, <1>9, <1>10 DEF Claude

\* The one hook of Claude that runs is through, or lost.
LEMMA ClaudeDelivered ==
  ASSUME agent = "claude", TypeOK, Numbered, ClaudeInv, NEW m \in flight, Deliver(m) \/ Lose(m)
  PROVE  ClaudeInv'
<1> USE DEF TypeOK
<1>1. flight' = {} /\ Shown' = Shown /\ UNCHANGED <<phase, title, tail>>
  BY DEF ClaudeInv, OneAtATime, Deliver, Lose, Passed, agentVars, Shown, TitleShown
<1>2. OneAtATime'
  BY <1>1 DEF ClaudeInv, OneAtATime, Deliver, Lose, agentVars
<1>3. m.n > newest /\ m.n > newestTitle
  BY DEF ClaudeInv, OneAtATime, Numbered, Input
<1>4. \A t \in m.at .. now : t \in Nat /\ row.last <= t
  BY DEF ClaudeInv, OneAtATime, Input, Row
<1>5. CASE Lose(m)
  <2>1. row' = row
    BY <1>5 DEF Lose
  <2>2. ~stale' => ~stale /\ \A e \in parse(m) : ~Matters(e)
    BY <1>3, <1>5 DEF Lose
  <2>3. ClaudeFollowed'
    BY <1>1, <2>1, <2>2 DEF ClaudeInv, ClaudeFollowed
  <2>4. ~staleTitle' => ~staleTitle /\ \A e \in parse(m) : ~Entitles(e)
    BY <1>3, <1>5 DEF Lose
  <2>5. ~staleTitle' => TitleShown(row.title)
    BY <2>4 DEF ClaudeInv, ClaudeNamed, Titled
  <2>6. ClaudeNamed'
    BY <1>1, <2>1, <2>5 DEF ClaudeNamed, TitleShown
  <2> QED BY <1>2, <2>3, <2>6 DEF ClaudeInv
<1>6. CASE parse(m) = {} /\ UNCHANGED <<row, stale, staleTitle>>
  <2>1. ClaudeFollowed'
    BY <1>1, <1>6 DEF ClaudeInv, ClaudeFollowed
  <2>2. ClaudeNamed'
    BY <1>1, <1>6 DEF ClaudeInv, ClaudeNamed, TitleShown
  <2> QED BY <1>2, <2>1, <2>2 DEF ClaudeInv
<1>7. ASSUME NEW e \in parse(m), NEW t \in m.at .. now, row' = Handled(row, e, t),
             stale' = CASE ~Bears(e) -> stale
                        [] Bears(e) /\ Outrun(t) -> stale \/ m.n > newest
                        [] OTHER -> m.n < newest,
             staleTitle' = IF Entitles(e) THEN m.n < newestTitle ELSE staleTitle
      PROVE  ClaudeInv'
  <2>1. row'.status = Taken(row, e) /\ row'.title = Titled(row, e)
    BY <1>4, <1>7, HandledParts
  <2>2. ClaudeFollowed'
    BY <1>1, <1>7, <2>1 DEF ClaudeInv, ClaudeFollowed
  <2>3. ClaudeNamed'
    BY <1>1, <1>7, <2>1 DEF ClaudeInv, ClaudeNamed, TitleShown
  <2> QED BY <1>2, <2>2, <2>3 DEF ClaudeInv
<1> QED BY <1>5, <1>6, <1>7 DEF Deliver

-----------------------------------------------------------------------------
(* opencode.                                                               *)

\* What each hook of the plugin asks for.
LEMMA OpencodeHook ==
  ASSUME agent = "opencode", NEW h
  PROVE  /\ h.name \in {"session.updated", "session.idle"} =>
              Asks(h) /\ \A e \in parse(h) : Transition(NoState, e) = "idle"
         /\ h.name = "permission.asked" =>
              Asks(h) /\ \A e \in parse(h) : Transition(NoState, e) = "waiting"
         /\ h.name = "session.error" =>
              Asks(h) /\ \A e \in parse(h) : Transition(NoState, e) = "failed"
         /\ h.name = "session.title" => ~Asks(h)
         /\ \A e \in parse(h) : e.title = h.title
         /\ h.name \in {"session.updated", "session.title"} => parse(h) # {}
<1>1. /\ h.name = "session.updated" => opencodeKind(h.name) = "session_start"
      /\ h.name = "session.title" => opencodeKind(h.name) = "title"
      /\ h.name = "permission.asked" => opencodeKind(h.name) = "notification"
      /\ h.name = "session.idle" => opencodeKind(h.name) = "stop"
      /\ h.name = "session.error" => opencodeKind(h.name) = "fail"
  BY DEF opencodeKind
<1>2. \A e \in parse(h) : e.kind = opencodeKind(h.name) /\ e.notify = NoNotify /\ e.title = h.title
  BY DEF parse, parseOpencode
<1>3. parse(h) = {} <=> opencodeKind(h.name) = NoKind
  BY DEF parse, parseOpencode
<1>4. \A e : /\ e.kind \in {"session_start", "stop"} => Transition(NoState, e) = "idle"
             /\ e.kind = "notification" /\ e.notify = NoNotify => Transition(NoState, e) = "waiting"
             /\ e.kind = "fail" => Transition(NoState, e) = "failed"
             /\ e.kind = "title" => Transition(NoState, e) = NoState
  BY DEF Transition, NextState, NoNotify, Resuming, Informational
<1> QED BY <1>1, <1>2, <1>3, <1>4 DEF Asks, Bears, NoKind, NoState

LEMMA ParseSame ==
  ASSUME UNCHANGED <<agent, tail>>
  PROVE  \A m : /\ parse(m)' = parse(m)
                /\ Asks(m)' = Asks(m)
                /\ Names(m)' = Names(m)
<1>1. \A m : parse(m)' = parse(m)
  BY DEF parse, parseClaude, parseOpencode, claudeTitle
<1> QED BY <1>1 DEF Asks, Names, Bears

\* A hook that is started is the newest.
LEMMA RunNewest ==
  ASSUME TypeOK, Numbered, NEW name, NEW detail, NEW t, Run(name, detail, t)
  PROVE  \E h : /\ flight' = flight \cup {h}
                /\ h.name = name /\ h.title = t
                /\ ~(h.n < newest) /\ h.n > newest
                /\ ~(h.n < newestTitle) /\ h.n > newestTitle
                /\ \A m \in flight : ~(h.n <= m.n)
<1> DEFINE h == [n |-> sent + 1, at |-> now, name |-> name, detail |-> detail, title |-> t]
<1>1. flight' = flight \cup {h} /\ h.name = name /\ h.title = t /\ h.n = sent + 1
  BY DEF Run
<1> HIDE DEF h
<1>2. /\ sent \in Nat /\ newest \in Nat /\ newestTitle \in Nat
      /\ newest <= sent /\ newestTitle <= sent /\ \A m \in flight : m.n \in 1..sent
  BY DEF TypeOK, Numbered
<1> QED BY <1>1, <1>2

\* A hook that asks for what the agent shows.
LEMMA AskFollows ==
  ASSUME UNCHANGED <<agent, tail, newest, row, stale>>,
         NEW h, flight' = flight \cup {h}, \A m \in flight : ~(h.n <= m.n),
         ~(h.n < newest), Asks(h), \A e \in parse(h) : Transition(NoState, e) \in Shown'
  PROVE  OpencodeFollowed'
<1>1. \A m \in flight' : LastAsks(m)' => m = h
  BY ParseSame DEF LastAsks
<1>2. \A m \in flight' : LastAsks(m)' => \A e \in parse(m)' : Transition(NoState, e) \in Shown'
  BY <1>1, ParseSame
<1>3. ~\A m \in flight' : Asks(m)' => m.n < newest'
  BY ParseSame
<1> QED BY <1>2, <1>3 DEF OpencodeFollowed

\* A step with no hook, or one that does not ask.
LEMMA NoAskFollows ==
  ASSUME OpencodeFollowed, UNCHANGED <<agent, tail, newest, row, stale>>, Shown \subseteq Shown',
         \/ flight' = flight
         \/ \E h : flight' = flight \cup {h} /\ ~Asks(h)
  PROVE  OpencodeFollowed'
<1>1. \A m \in flight' : LastAsks(m)' => m \in flight /\ LastAsks(m)
  BY ParseSame DEF LastAsks
<1>2. \A m \in flight' : LastAsks(m)' => \A e \in parse(m)' : Transition(NoState, e) \in Shown'
  BY <1>1, ParseSame DEF OpencodeFollowed
<1>3. (\A m \in flight' : Asks(m)' => m.n < newest') => \A m \in flight : Asks(m) => m.n < newest
  BY ParseSame
<1> QED BY <1>2, <1>3 DEF OpencodeFollowed

LEMMA NameNames ==
  ASSUME UNCHANGED <<agent, tail, newestTitle>>,
         NEW h, flight' = flight \cup {h}, \A m \in flight : ~(h.n <= m.n),
         ~(h.n < newestTitle), Names(h), \A e \in parse(h) : e.title = title'
  PROVE  OpencodeNamed'
<1>1. \A m \in flight' : LastNames(m)' => m = h
  BY ParseSame DEF LastNames
<1>2. \A m \in flight' : LastNames(m)' => \A e \in parse(m)' : e.title = title'
  BY <1>1, ParseSame
<1>3. ~\A m \in flight' : Names(m)' => m.n < newestTitle'
  BY ParseSame
<1> QED BY <1>2, <1>3 DEF OpencodeNamed

LEMMA NoNameNames ==
  ASSUME OpencodeNamed, UNCHANGED <<agent, tail, newestTitle, row, staleTitle, title>>,
         \/ flight' = flight
         \/ \E h : flight' = flight \cup {h} /\ ~Names(h)
  PROVE  OpencodeNamed'
<1>1. \A m \in flight' : LastNames(m)' => m \in flight /\ LastNames(m)
  BY ParseSame DEF LastNames
<1>2. \A m \in flight' : LastNames(m)' => \A e \in parse(m)' : e.title = title'
  BY <1>1, ParseSame DEF OpencodeNamed
<1>3. (\A m \in flight' : Names(m)' => m.n < newestTitle') =>
        \A m \in flight : Names(m) => m.n < newestTitle
  BY ParseSame
<1> QED BY <1>2, <1>3 DEF OpencodeNamed

LEMMA OpencodeFollowedStep ==
  ASSUME TypeOK, Numbered, Remembered, ~masked, OpencodeFollowed, Opencode
  PROVE  OpencodeFollowed'
<1>1. agent = "opencode" /\ UNCHANGED <<agent, tail, newest, row, stale>>
  BY DEF Opencode, daemon
<1>2. ASSUME NEW name, NEW detail, NEW t, Run(name, detail, t),
             \/ name \in {"session.updated", "session.idle"} /\ phase' = "ready"
             \/ name = "permission.asked" /\ phase' = "blocked" /\ masked' = FALSE
             \/ name = "session.error" /\ phase' = "error"
      PROVE  OpencodeFollowed'
  <2>1. PICK h : /\ flight' = flight \cup {h} /\ h.name = name
                 /\ ~(h.n < newest) /\ \A m \in flight : ~(h.n <= m.n)
    BY <1>2, RunNewest
  <2>2. Asks(h)
    BY <1>1, <1>2, <2>1, OpencodeHook
  <2>3. CASE name \in {"session.updated", "session.idle"} /\ phase' = "ready"
    <3>1. \A e \in parse(h) : Transition(NoState, e) = "idle"
      BY <1>1, <2>1, <2>3, OpencodeHook
    <3> QED BY <1>1, <2>1, <2>2, <2>3, <3>1, AskFollows DEF Shown
  <2>4. CASE name = "permission.asked" /\ phase' = "blocked" /\ masked' = FALSE
    <3>1. \A e \in parse(h) : Transition(NoState, e) = "waiting"
      BY <1>1, <2>1, <2>4, OpencodeHook
    <3>2. "waiting" \in Shown'
      BY <2>4 DEF Shown
    <3> QED BY <1>1, <2>1, <2>2, <3>1, <3>2, AskFollows
  <2>5. CASE name = "session.error" /\ phase' = "error"
    <3>1. \A e \in parse(h) : Transition(NoState, e) = "failed"
      BY <1>1, <2>1, <2>5, OpencodeHook
    <3> QED BY <1>1, <2>1, <2>2, <2>5, <3>1, AskFollows DEF Shown
  <2> QED BY <1>2, <2>3, <2>4, <2>5
<1>3. CASE OpencodeUpdates
  <2>1. PICK t : title' = t /\ Announce(t)
    BY <1>3 DEF OpencodeUpdates
  <2>2. masked' = masked /\ phase' = (IF phase = "off" THEN "ready" ELSE phase)
    BY <1>3 DEF OpencodeUpdates
  <2>3. CASE announced = {} /\ Run("session.updated", "", t)
    <3>1. phase' = "ready"
      BY <1>1, <2>2, <2>3 DEF Remembered
    <3> QED BY <1>2, <2>3, <3>1
  <2>4. CASE announced # {} /\ flight' = flight
    <3>1. Shown' = Shown
      BY <1>1, <2>2, <2>4 DEF Remembered, Shown
    <3> QED BY <1>1, <2>4, <3>1, NoAskFollows
  <2>5. CASE announced # {} /\ Run("session.title", "", t)
    <3>1. Shown' = Shown
      BY <1>1, <2>2, <2>5 DEF Remembered, Shown
    <3>2. PICK h : flight' = flight \cup {h} /\ h.name = "session.title"
      BY <2>5, RunNewest
    <3>3. ~Asks(h)
      BY <1>1, <3>2, OpencodeHook
    <3> QED BY <1>1, <3>1, <3>2, <3>3, NoAskFollows
  <2> QED BY <2>1, <2>3, <2>4, <2>5 DEF Announce
<1>4. CASE OpencodeTurn
  <2>1. ASSUME phase \in {"ready", "error"}, phase' = "turn", flight' = flight
        PROVE  OpencodeFollowed'
    <3>1. Shown \subseteq Shown'
      BY <1>1, <2>1 DEF Shown
    <3> QED BY <1>1, <2>1, <3>1, NoAskFollows
  <2>2. ASSUME phase = "blocked", phase' = "approved", flight' = flight
        PROVE  OpencodeFollowed'
    <3>1. Shown \subseteq Shown'
      BY <1>1, <2>2 DEF Shown
    <3> QED BY <1>1, <2>2, <3>1, NoAskFollows
  <2> QED BY <1>2, <1>4, <2>1, <2>2 DEF OpencodeTurn, Enter
<1>5. CASE OpencodeRelaunch
  <2>1. Shown' = State \cup {NoState}
    BY <1>1, <1>5 DEF OpencodeRelaunch, Enter, Shown
  <2>2. flight' = flight
    BY <1>5 DEF OpencodeRelaunch
  <2>3. \A m : parse(m)' = parse(m)
    BY <1>1, ParseSame
  <2>4. row'.status \in State \cup {NoState}
    BY <1>1 DEF TypeOK, Row
  <2> QED BY <2>1, <2>2, <2>3, <2>4, TransitionType DEF OpencodeFollowed
<1> QED BY <1>3, <1>4, <1>5 DEF Opencode

LEMMA OpencodeNamedStep ==
  ASSUME TypeOK, Numbered, Remembered, OpencodeNamed, Opencode
  PROVE  OpencodeNamed'
<1>1. agent = "opencode" /\ UNCHANGED <<agent, tail, newestTitle, row, staleTitle>>
  BY DEF Opencode, daemon
<1>2. ASSUME NEW name, NEW detail, Run(name, detail, NoTitle), title' = title
      PROVE  OpencodeNamed'
  <2>1. PICK h : flight' = flight \cup {h} /\ h.title = NoTitle
    BY <1>2, RunNewest
  <2>2. ~Names(h)
    BY <1>1, <2>1, OpencodeHook DEF Names, Entitles
  <2> QED BY <1>1, <1>2, <2>1, <2>2, NoNameNames
<1>3. ASSUME flight' = flight, title' = title PROVE OpencodeNamed'
  BY <1>1, <1>3, NoNameNames
<1>4. ASSUME NEW name, NEW detail, NEW t, Run(name, detail, t), t # NoTitle, title' = t,
             name \in {"session.updated", "session.title"}
      PROVE  OpencodeNamed'
  <2>1. PICK h : /\ flight' = flight \cup {h}
                 /\ h.name = name /\ h.title = t
                 /\ ~(h.n < newestTitle) /\ \A m \in flight : ~(h.n <= m.n)
    BY <1>4, RunNewest
  <2>2. parse(h) # {}
    BY <1>1, <1>4, <2>1, OpencodeHook
  <2>3. \A e \in parse(h) : e.title = t
    BY <1>1, <2>1, OpencodeHook
  <2>4. Names(h)
    BY <1>4, <2>2, <2>3 DEF Names, Entitles
  <2> QED BY <1>1, <1>4, <2>1, <2>3, <2>4, NameNames
<1>5. CASE OpencodeUpdates
  <2>1. PICK t \in {title} \cup Title : title' = t /\ Announce(t)
    BY <1>5 DEF OpencodeUpdates
  <2>2. t = NoTitle => title' = title
    BY <2>1, HooksAssumption DEF HooksAssumption
  <2>3. CASE announced = {t} /\ flight' = flight
    BY <1>1, <1>3, <2>1, <2>3 DEF Remembered
  <2>4. CASE Run("session.updated", "", t) \/ Run("session.title", "", t)
    BY <1>2, <1>4, <2>1, <2>2, <2>4
  <2> QED BY <2>1, <2>3, <2>4 DEF Announce
<1>6. CASE OpencodeTurn
  BY <1>2, <1>3, <1>6 DEF OpencodeTurn
<1>7. CASE OpencodeRelaunch
  BY <1>3, <1>7 DEF OpencodeRelaunch
<1> QED BY <1>5, <1>6, <1>7 DEF Opencode

\* A hook of opencode is through, or lost, whichever of those that run it is.
LEMMA OpencodeDelivered ==
  ASSUME agent = "opencode", TypeOK, Numbered, OpencodeInv, NEW m \in flight,
         Deliver(m) \/ Lose(m)
  PROVE  OpencodeInv'
<1> USE DEF TypeOK
<1>1. /\ UNCHANGED <<agent, tail, title, masked>> /\ Shown' = Shown
      /\ flight' = flight \ {m}
      /\ newest' = IF m.n > newest /\ Asks(m) THEN m.n ELSE newest
      /\ newestTitle' = IF m.n > newestTitle /\ Names(m) THEN m.n ELSE newestTitle
  BY DEF Deliver, Lose, Passed, agentVars, Shown, Asks, Names
<1>2. \A k \in flight : k.n \in Nat /\ k.n # newest /\ k.n # newestTitle
  BY DEF Numbered, Input
<1>3. \A k \in flight' : LastAsks(k)' => k \in flight /\ LastAsks(k)
  BY <1>1, <1>2, ParseSame DEF LastAsks
<1>4. \A k \in flight' : LastNames(k)' => k \in flight /\ LastNames(k)
  BY <1>1, <1>2, ParseSame DEF LastNames
<1>5. \A t \in m.at .. now : t \in Nat
  BY DEF Input
<1>6. \A e \in parse(m) : e.notify = NoNotify
  BY DEF parse, parseOpencode
<1>7. \A e, f \in parse(m) : e = f
  BY DEF parse, parseOpencode
<1>8. \/ Lose(m)
      \/ parse(m) = {} /\ UNCHANGED <<row, stale, staleTitle>>
      \/ \E e \in parse(m), t \in Nat :
           /\ row' = Handled(row, e, t)
           /\ stale' = CASE ~Bears(e) -> stale
                         [] Bears(e) /\ Outrun(t) -> stale \/ m.n > newest
                         [] OTHER -> m.n < newest
           /\ staleTitle' = IF Entitles(e) THEN m.n < newestTitle ELSE staleTitle
  BY <1>5 DEF Deliver
<1>9. OpencodeFollowed'
  <2>1. \A k \in flight' : LastAsks(k)' => \A e \in parse(k)' : Transition(NoState, e) \in Shown'
    BY <1>1, <1>3, ParseSame DEF OpencodeInv, OpencodeFollowed
  <2>2. ASSUME \A k \in flight' : Asks(k)' => k.n < newest', ~stale'
        PROVE  row'.status \in Shown'
\* The last that asks: it is through, and nothing with a later stamp came before.
    <3>1. CASE Asks(m) /\ m.n > newest
      <4>1. LastAsks(m)
        BY <1>1, <1>2, <2>2, <3>1, ParseSame DEF LastAsks
      <4>2. \A e \in parse(m) : Bears(e) /\ Transition(NoState, e) \in Shown
        BY <1>7, <3>1, <4>1 DEF Asks, OpencodeInv, OpencodeFollowed
      <4>3. \A e \in parse(m) : Matters(e)
        BY <4>2, BearsSame DEF Matters, Bears, State
      <4>4. ~Lose(m)
        BY <2>2, <3>1, <4>3 DEF Lose, Asks
      <4>5. PICK e \in parse(m), t \in Nat :
              /\ row' = Handled(row, e, t)
              /\ stale' = CASE ~Bears(e) -> stale
                            [] Bears(e) /\ Outrun(t) -> stale \/ m.n > newest
                            [] OTHER -> m.n < newest
        BY <1>8, <3>1, <4>4 DEF Asks
      <4>6. ~Outrun(t)
        BY <2>2, <3>1, <4>2, <4>5
      <4>7. row'.status = Taken(row, e)
        BY <4>5, <4>6, HandledParts DEF Outrun, Row
      <4>8. Taken(row, e) = Transition(NoState, e)
        BY <4>2, BearsSame DEF Taken, Bears
      <4> QED BY <1>1, <4>2, <4>7, <4>8
\* One that does not ask, or was overtaken by one that does.
    <3>2. CASE ~(Asks(m) /\ m.n > newest)
      <4>1. \A k \in flight : Asks(k) => k.n < newest
        BY <1>1, <1>2, <2>2, <3>2, ParseSame
      <4>2. ~stale => row.status \in Shown
        BY <4>1 DEF OpencodeInv, OpencodeFollowed
      <4>3. CASE Lose(m)
        BY <1>1, <2>2, <4>2, <4>3 DEF Lose
      <4>4. CASE UNCHANGED <<row, stale, staleTitle>>
        BY <1>1, <2>2, <4>2, <4>4
      <4>5. ASSUME NEW e \in parse(m), NEW t \in Nat, row' = Handled(row, e, t),
                   stale' = CASE ~Bears(e) -> stale
                              [] Bears(e) /\ Outrun(t) -> stale \/ m.n > newest
                              [] OTHER -> m.n < newest
            PROVE  row'.status \in Shown'
        <5>1. CASE Bears(e)
          <6>1. m.n < newest
            BY <4>1, <5>1 DEF Asks
          <6>2. Outrun(t) /\ ~stale
            BY <2>2, <4>5, <5>1, <6>1
          <6>3. row'.status = row.status
            BY <4>5, <6>2, HandledParts DEF Outrun
          <6> QED BY <1>1, <4>2, <6>2, <6>3
        <5>2. CASE ~Bears(e)
          <6>1. row.status \in Shown
            BY <2>2, <4>2, <4>5, <5>2
          <6>2. Taken(row, e) = IF row.status = NoState THEN "idle" ELSE row.status
            BY <1>6, <5>2, BearsSame DEF Taken
          <6>3. row'.status = IF row.status = NoState THEN "idle" ELSE row.status
            BY <4>5, <6>2, HandledParts DEF Row
          <6>4. NoState \in Shown => "idle" \in Shown
            BY DEF Shown, NoState, State, OpencodeInv
          <6> QED BY <1>1, <6>1, <6>3, <6>4
        <5> QED BY <5>1, <5>2
      <4> QED BY <1>8, <4>3, <4>4, <4>5
    <3> QED BY <3>1, <3>2
  <2> QED BY <2>1, <2>2 DEF OpencodeFollowed
<1>10. OpencodeNamed'
  <2>1. \A k \in flight' : LastNames(k)' => \A e \in parse(k)' : e.title = title'
    BY <1>1, <1>4, ParseSame DEF OpencodeInv, OpencodeNamed
  <2>2. ASSUME \A k \in flight' : Names(k)' => k.n < newestTitle', ~staleTitle', title' # NoTitle
        PROVE  row'.title = title'
    <3>1. CASE Names(m) /\ m.n > newestTitle
      <4>1. LastNames(m)
        BY <1>1, <1>2, <2>2, <3>1, ParseSame DEF LastNames
      <4>2. \A e \in parse(m) : Entitles(e) /\ e.title = title
        BY <1>7, <3>1, <4>1 DEF Names, OpencodeInv, OpencodeNamed
      <4>3. ~Lose(m)
        BY <2>2, <3>1 DEF Lose, Names
      <4>4. PICK e \in parse(m), t \in Nat : row' = Handled(row, e, t)
        BY <1>8, <3>1, <4>3 DEF Names
      <4> QED BY <1>1, <4>2, <4>4, HandledParts DEF Titled
    <3>2. CASE ~(Names(m) /\ m.n > newestTitle)
      <4>1. \A k \in flight : Names(k) => k.n < newestTitle
        BY <1>1, <1>2, <2>2, <3>2, ParseSame
      <4>2. ~staleTitle => row.title = title
        BY <1>1, <2>2, <4>1 DEF OpencodeInv, OpencodeNamed
      <4>3. CASE Lose(m)
        BY <1>1, <2>2, <4>2, <4>3 DEF Lose
      <4>4. CASE UNCHANGED <<row, stale, staleTitle>>
        BY <1>1, <2>2, <4>2, <4>4
      <4>5. ASSUME NEW e \in parse(m), NEW t \in Nat, row' = Handled(row, e, t),
                   staleTitle' = IF Entitles(e) THEN m.n < newestTitle ELSE staleTitle
            PROVE  row'.title = title'
        <5>1. ~Entitles(e)
          BY <2>2, <4>1, <4>5 DEF Names
        <5> QED BY <1>1, <2>2, <4>2, <4>5, <5>1, HandledParts DEF Titled
      <4> QED BY <1>8, <4>3, <4>4, <4>5
    <3> QED BY <3>1, <3>2
  <2> QED BY <2>1, <2>2 DEF OpencodeNamed
<1> QED BY <1>1, <1>9, <1>10 DEF OpencodeInv

-----------------------------------------------------------------------------
(* The theorems.                                                           *)

LEMMA InvInit == Init => Inv
<1> SUFFICES ASSUME Init PROVE Inv
  OBVIOUS
<1>1. TypeOK
  BY DEF Init, TypeOK, Phases, Titles, Input, Row, NoState
<1>2. Numbered /\ Clocked /\ Remembered
  BY DEF Init, Numbered, Clocked, Remembered
<1>3. agent = "claude" => ClaudeInv
  BY DEF Init, ClaudeInv, OneAtATime, ClaudeFollowed, ClaudeNamed, Shown, TitleShown
<1>4. agent = "opencode" => OpencodeInv
  BY DEF Init, OpencodeInv, OpencodeFollowed, OpencodeNamed, Shown
<1> QED BY <1>1, <1>2, <1>3, <1>4 DEF Inv

LEMMA InvStep == ASSUME Inv, [Next]_vars PROVE Inv'
<1> USE DEF Inv
\* A step of the clock, or none: nothing of this depends on what time it is.
<1>1. CASE Tick \/ UNCHANGED vars
  <2>1. /\ UNCHANGED <<agent, phase, title, tail, masked, announced, starts, flight, sent,
                       newest, newestTitle, row, stale, staleTitle>>
        /\ now' \in Nat /\ now <= now'
    BY <1>1 DEF vars, agentVars, plugin, daemon, Tick, TypeOK
  <2>2. TypeOK' /\ Numbered' /\ Remembered'
    BY <2>1 DEF TypeOK, Numbered, Remembered
  <2>3. Clocked'
    BY <2>1 DEF Clocked, TypeOK, Row, Input
  <2>4. Shown' = Shown
    BY <2>1 DEF Shown
  <2>5. agent = "claude" => ClaudeInv'
    BY <2>1, <2>4, ParseSame DEF ClaudeInv, OneAtATime, ClaudeFollowed, ClaudeNamed, TitleShown
  <2>6. agent = "opencode" => OpencodeInv'
    BY <2>1, <2>4, ParseSame DEF OpencodeInv, OpencodeFollowed, OpencodeNamed, LastAsks, LastNames
  <2> QED BY <2>1, <2>2, <2>3, <2>5, <2>6
<1>2. CASE Next
  <2>1. Numbered' /\ Clocked' /\ Remembered'
    BY <1>2, NumberedStep, ClockedStep, RememberedStep
  <2>2. CASE Claude
    <3>1. agent = "claude" /\ agent' = "claude"
      BY <2>2 DEF Claude
    <3>2. ClaudeInv'
      BY <2>2, <3>1, OneAtATimeStep, ClaudeFollowedStep, ClaudeNamedStep DEF ClaudeInv
    <3> QED BY <2>1, <2>2, <3>1, <3>2, ClaudeType
  <2>3. CASE Opencode
    <3>1. agent = "opencode" /\ agent' = "opencode"
      BY <2>3 DEF Opencode
    <3>2. ~masked'
      BY <2>3, <3>1 DEF Opencode, OpencodeUpdates, OpencodeTurn, OpencodeRelaunch, Enter, OpencodeInv
    <3>3. OpencodeInv'
      BY <2>3, <3>1, <3>2, OpencodeFollowedStep, OpencodeNamedStep DEF OpencodeInv
    <3> QED BY <2>1, <2>3, <3>1, <3>3, OpencodeType
  <2>4. ASSUME NEW m \in flight, Deliver(m) \/ Lose(m) PROVE Inv'
    <3>1. TypeOK' /\ agent' = agent
      BY <2>4, DeliverType DEF Deliver, Lose, agentVars
    <3> QED BY <2>1, <2>4, <3>1, ClaudeDelivered, OpencodeDelivered
  <2> QED BY <1>1, <1>2, <2>2, <2>3, <2>4 DEF Next
<1> QED BY <1>1, <1>2

LEMMA InvCorrect == Spec => []Inv
BY InvInit, InvStep, PTL DEF Spec

\* Every hook that runs is one the parsers were written for, and the row's status one
\* the domain has.
THEOREM TypeCorrect == Spec => []TypeOK
<1>1. Inv => TypeOK
  BY DEF Inv
<1> QED BY <1>1, InvCorrect, PTL

\* While it is loaded the plugin announces the conversation once, however many
\* callbacks and hooks run side by side.
THEOREM StartsOnceCorrect == Spec => []StartsOnce
<1>1. Inv => StartsOnce
  BY DEF Inv, Remembered, StartsOnce
<1> QED BY <1>1, InvCorrect, PTL

\* Once the hooks of a conversation are through, in whatever order and with whatever
\* stamps, the row says what the agent does, unless the last that asks for a state was
\* lost, overtaken by arrival or turned away by the recency guard.
THEOREM RowCorrect == Spec => []RowFollowsAgent
<1>1. Inv => RowFollowsAgent
  <2> SUFFICES ASSUME Inv, flight = {}, ~stale PROVE row.status \in Shown
    BY DEF RowFollowsAgent
  <2>1. agent \in {"claude", "opencode"}
    BY HooksAssumption DEF HooksAssumption, Inv, TypeOK
  <2> QED BY <2>1 DEF Inv, ClaudeInv, ClaudeFollowed, OpencodeInv, OpencodeFollowed
<1> QED BY <1>1, InvCorrect, PTL

\* The row's title is the agent's, unless the last hook that bears one was lost or
\* overtaken; what time it was does not matter.
THEOREM TitleCorrect == Spec => []RowShowsTitle
<1>1. Inv => RowShowsTitle
  <2>1. Inv => agent \in {"claude", "opencode"}
    BY HooksAssumption DEF HooksAssumption, Inv, TypeOK
  <2> QED
    BY <2>1 DEF RowShowsTitle, Inv, ClaudeInv, ClaudeNamed, TitleShown, OpencodeInv, OpencodeNamed
<1> QED BY <1>1, InvCorrect, PTL

=============================================================================
