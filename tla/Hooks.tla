------------------------------- MODULE Hooks -------------------------------
(***************************************************************************)
(* From what an agent does to what the manager shows of it: the hooks of    *)
(* Claude Code (internal/hook/hook.go) and the opencode plugin              *)
(* (contrib/opencode-plugin/sm.ts with hook.go), the events they publish,    *)
(* and the row these make.                                                 *)
(*                                                                         *)
(* One conversation, of one agent or the other.  Claude waits for each hook *)
(* before it goes on; opencode does not wait for the plugin, so that the     *)
(* `sm hook` processes of one conversation run side by side and finish in    *)
(* any order.  A hook stamps its event, by itself, with the second it is, and *)
(* publishes it later as it finishes; the daemon handles it there and then:   *)
(* what happens inside the daemon is the business of Manager, and ManagerBoard *)
(* shows that a handled event is one step.  A hook that finds no daemon is     *)
(* lost without notice.                                                    *)
(***************************************************************************)
EXTENDS SessionState, Naturals, FiniteSets

CONSTANTS
  Agents,   \* the agents that may be behind the conversation
  Title, NoTitle,
  MaxHooks, \* bound on the hooks that run
  MaxTime   \* bound on the clock, in seconds

ASSUME HooksAssumption ==
  /\ Agents \subseteq {"claude", "opencode"}
  /\ NoTitle \notin Title
  /\ MaxHooks \in Nat
  /\ MaxTime \in Nat

VARIABLES
  agent,
  phase,      \* what the agent is doing
  title,      \* its title of the conversation
  tail,       \* Claude: the title that the end of the transcript holds
  announced,  \* opencode: what the plugin's map holds for this conversation, a title or none
  starts,     \* opencode: session starts sent since the plugin was loaded
  now,        \* the machine's clock, in seconds as the store keeps time
  flight,     \* the hooks that run, numbered
  sent,       \* how many have been started
  newest,     \* the last of those that ask for a state, and of those that bear a title,
  newestTitle,\*   that is through or lost
  row,        \* the session's status, title and last_event_at
  masked,     \* has an auth_success come during this block?
  stale, staleTitle  \* is the last of them lost or overtaken, and nothing has made it good?

agentVars == <<agent, phase, title, tail, masked>>
plugin == <<announced, starts>>
daemon == <<newest, newestTitle, row, stale, staleTitle>>
vars == <<agentVars, plugin, now, flight, sent, daemon>>

Titles == Title \cup {NoTitle}

\* What a hook is given: the name of the event; the source of a session start, or
\* the type or the message of a notification; the title in the payload; and the second
\* in which it was started.
HookName ==
  {"SessionStart", "UserPromptSubmit", "PreToolUse", "Notification", "Stop", "SessionEnd",
   "session.created", "session.updated", "session.title",
   "permission.asked", "session.idle", "session.error"}

Detail == {"startup", "compact", "needs_permission", "waiting_for_input"} \cup NotifyType

Input == [n : Nat, at : Nat, name : HookName, detail : Detail, title : Titles]

Row == [status : State \cup {NoState}, title : Titles, last : Nat]

Phases == {"off", "ready", "turn", "blocked", "elicited", "approved", "error"}

TypeOK ==
  /\ agent \in Agents
  /\ phase \in Phases
  /\ title \in Titles /\ tail \in Titles
  /\ announced \subseteq Titles
  /\ starts \in Nat
  /\ flight \subseteq Input
  /\ now \in Nat
  /\ sent \in Nat /\ newest \in Nat /\ newestTitle \in Nat
  /\ row \in Row
  /\ masked \in BOOLEAN /\ stale \in BOOLEAN /\ staleTitle \in BOOLEAN

Init ==
  /\ agent \in Agents
  /\ phase = "off"
  /\ title = NoTitle /\ tail = NoTitle
  /\ announced = {}
  /\ starts = 0
  /\ flight = {}
  /\ now = 0
  /\ sent = 0 /\ newest = 0 /\ newestTitle = 0
  /\ row = [status |-> NoState, title |-> NoTitle, last |-> 0]
  /\ masked = FALSE /\ stale = FALSE /\ staleTitle = FALSE

-----------------------------------------------------------------------------
(* `sm hook`: from input to event.                                          *)

NoKind == ""

claudeKind(name) ==
  CASE name = "SessionStart"     -> "session_start"
    [] name = "UserPromptSubmit" -> "user_prompt"
    [] name = "PreToolUse"       -> "tool_use"
    [] name = "Notification"     -> "notification"
    [] name = "Stop"             -> "stop"
    [] name = "SessionEnd"       -> "session_end"
    [] OTHER                     -> NoKind

opencodeKind(name) ==
  CASE name \in {"session.created", "session.updated"} -> "session_start"
    [] name = "session.title"    -> "title"
    [] name = "permission.asked" -> "notification"
    [] name = "session.idle"     -> "stop"
    [] name = "session.error"    -> "fail"
    [] OTHER                     -> NoKind

\* A notification's type, or, from a Claude that gives none, what its message says.
claudeNotify(detail) ==
  CASE detail \in NotifyType               -> detail
    [] detail = "needs_permission"    -> "permission_prompt"
    [] detail = "waiting_for_input"   -> "idle_prompt"
    [] OTHER                               -> NoNotify

\* A slip: the transcript is never read.
claudeTitleOfPayload(m, kind) == m.title

\* The title in the payload, or at the end of a turn that in the transcript's tail.
claudeTitle(m, kind) ==
  IF m.title # NoTitle THEN m.title
  ELSE IF kind \in {"stop", "session_end", "notification"} THEN tail
  ELSE NoTitle

\* A slip: compaction counts as a session start.
parseClaudeAll(m) ==
  LET kind == claudeKind(m.name) IN
  IF kind = NoKind THEN {}
  ELSE {[kind |-> kind, notify |-> IF kind = "notification" THEN claudeNotify(m.detail)
                                   ELSE NoNotify,
         title |-> claudeTitle(m, kind)]}

\* The event of a hook, if there is one: compaction in the middle of a turn comes as
\* a session start that must not count.
parseClaude(m) ==
  LET kind == claudeKind(m.name)
      skip == kind = NoKind \/ (kind = "session_start" /\ m.detail = "compact") IN
  IF skip THEN {}
  ELSE {[kind |-> kind, notify |-> IF kind = "notification" THEN claudeNotify(m.detail)
                                   ELSE NoNotify,
         title |-> claudeTitle(m, kind)]}

parseOpencode(m) ==
  LET kind == opencodeKind(m.name) IN
  IF kind = NoKind THEN {}
  ELSE {[kind |-> kind, notify |-> NoNotify, title |-> m.title]}

parse(m) == IF agent = "claude" THEN parseClaude(m) ELSE parseOpencode(m)

\* Does the event ask for a state whatever the session's is, does it for some state,
\* does it bear a title?
Bears(e) == Transition(NoState, e) # NoState
Matters(e) == \E cur \in State : Transition(cur, e) # NoState
Entitles(e) == e.title # NoTitle

\* A slip: the row is created with a status outside the domain's states.
CreatedAsNew(r, t) ==
  IF r.status = NoState THEN [r EXCEPT !.status = "new", !.last = t] ELSE r

\* The row is there after the first event, idle since the second of that event.
Created(r, t) ==
  IF r.status = NoState THEN [r EXCEPT !.status = "idle", !.last = t] ELSE r

\* A slip: of two events of one second the later is dropped.
TooOldStrict(r, t) == t <= r.last

\* The recency guard of UpdateStatus: an event older than the last one applied.
TooOld(r, t) == t < r.last

\* The daemon's handler, given an event stamped t.  A title that is not empty replaces
\* the one before, whatever the stamp; a state is taken unless the event is too old.
Handled(r, e, t) ==
  LET here  == Created(r, t)
      next  == Transition(here.status, e)
      moves == next # NoState /\ ~TooOld(here, t) IN
  [status |-> IF moves THEN next ELSE here.status,
   title |-> IF Entitles(e) THEN e.title ELSE r.title,
   last |-> IF moves THEN t ELSE here.last]

\* The numbers of the last hook that asks, and that names, once m is gone.
Passed(m) ==
  /\ newest' = IF m.n > newest /\ (\E e \in parse(m) : Bears(e)) THEN m.n ELSE newest
  /\ newestTitle' = IF m.n > newestTitle /\ (\E e \in parse(m) : Entitles(e)) THEN m.n
                    ELSE newestTitle
  /\ flight' = flight \ {m}

\* Is the row there, and was an event stamped in a later second applied to it?
Outrun(t) == row.status # NoState /\ t < row.last

\* A hook gets through.  It stamped its event in some second since it was started.  It
\* makes the row stale if it asks for a state and a later one did before it, or if it is
\* itself the last that does and comes behind one with a later stamp.
Deliver(m) ==
  /\ Passed(m)
  /\ \/ parse(m) = {} /\ UNCHANGED <<row, stale, staleTitle>>
     \/ \E e \in parse(m), t \in m.at .. now :
          /\ row' = Handled(row, e, t)
          /\ stale' = CASE ~Bears(e) -> stale
                        [] Bears(e) /\ Outrun(t) -> stale \/ m.n > newest
                        [] OTHER -> m.n < newest
          /\ staleTitle' = IF Entitles(e) THEN m.n < newestTitle ELSE staleTitle
  /\ UNCHANGED <<agentVars, plugin, now, sent>>

\* A hook does not: there is no daemon, or the agent ends it.
Lose(m) ==
  /\ Passed(m)
  /\ stale' = (stale \/ (m.n > newest /\ \E e \in parse(m) : Matters(e)))
  /\ staleTitle' = (staleTitle \/ (m.n > newestTitle /\ \E e \in parse(m) : Entitles(e)))
  /\ UNCHANGED <<agentVars, plugin, now, sent, row>>

-----------------------------------------------------------------------------
(* The agents.                                                             *)

Run(name, detail, t) ==
  /\ sent < MaxHooks
  /\ sent' = sent + 1
  /\ flight' = flight \cup
       {[n |-> sent + 1, at |-> now, name |-> name, detail |-> detail, title |-> t]}

Enter(next) == phase' = next /\ masked' = FALSE
Stay == UNCHANGED <<phase, masked>>

\* Claude starts or resumes the conversation, ends it, or compacts it.
ClaudeSession ==
  /\ \/ phase = "off" /\ Enter("ready") /\ Run("SessionStart", "startup", title)
     \/ phase = "ready" /\ Enter("off") /\ Run("SessionEnd", "", NoTitle)
     \/ phase \in {"ready", "turn", "approved"} /\ Stay /\ Run("SessionStart", "compact", title)
  /\ UNCHANGED <<title, tail>>

\* A turn: a prompt, whose payload has the title there was before it, tools, and
\* the stop.
ClaudeTurn ==
  /\ \/ phase = "ready" /\ Enter("turn") /\ Run("UserPromptSubmit", "", title)
     \/ phase \in {"turn", "approved"} /\ Enter("turn") /\ Run("PreToolUse", "", NoTitle)
     \/ phase \in {"turn", "approved"} /\ Enter("ready") /\ Run("Stop", "", NoTitle)
  /\ UNCHANGED <<title, tail>>

\* The agent asks for permission, with the type or without, or asks a question.  An
\* answered question has a notification; a permission that is granted has none.
ClaudeAsks ==
  /\ \/ /\ phase \in {"turn", "approved"} /\ Enter("blocked")
        /\ \E d \in {"permission_prompt", "needs_permission"} :
             Run("Notification", d, NoTitle)
     \/ /\ phase \in {"turn", "approved"} /\ Enter("elicited")
        /\ Run("Notification", "elicitation_dialog", NoTitle)
     \/ phase = "elicited" /\ Enter("turn") /\ Run("Notification", "elicitation_response", NoTitle)
     \/ phase = "blocked" /\ Enter("approved") /\ ~masked /\ UNCHANGED <<flight, sent>>
     \/ phase = "blocked" /\ Enter("turn") /\ masked /\ UNCHANGED <<flight, sent>>
  /\ UNCHANGED <<title, tail>>

\* The reminder after a minute of silence, and the token refresh in the background.
ClaudeNotes ==
  /\ \/ /\ phase \in {"ready", "turn"} /\ Stay
        /\ \E d \in {"idle_prompt", "waiting_for_input"} : Run("Notification", d, NoTitle)
     \/ /\ phase # "off"
        /\ phase' = IF phase = "approved" THEN "turn" ELSE phase
        /\ masked' = (phase \in {"blocked", "elicited"})
        /\ Run("Notification", "auth_success", NoTitle)
  /\ UNCHANGED <<title, tail>>

\* During a turn Claude finds a title and writes it to the transcript, or writes so
\* much behind it that the hooks do not see it any more.
ClaudeWrites ==
  /\ phase = "turn"
  /\ \/ \E t \in Title : title' = t /\ tail' = t
     \/ tail # NoTitle /\ tail' = NoTitle /\ UNCHANGED title
  /\ Stay
  /\ UNCHANGED <<flight, sent>>

Claude ==
  /\ agent = "claude"
  /\ flight = {}
  /\ ClaudeSession \/ ClaudeTurn \/ ClaudeAsks \/ ClaudeNotes \/ ClaudeWrites
  /\ UNCHANGED <<agent, plugin, now, daemon>>

\* A slip: the map is written after the hook was awaited, so that a callback does not
\* see a start that is under way.
AnnounceLate(t) ==
  LET seen == announced # {} /\ \A m \in flight : m.name # "session.updated" IN
  IF seen /\ announced = {t}
  THEN UNCHANGED <<plugin, flight, sent>>
  ELSE /\ announced' = {t}
       /\ Run(IF seen THEN "session.title" ELSE "session.updated", "", t)
       /\ starts' = IF seen THEN starts ELSE starts + 1

\* The plugin's callback for session.created and session.updated: the first one is a
\* start, later ones count if the title is another.  The map is written before the
\* hook is awaited.
Announce(t) ==
  \/ announced = {t} /\ UNCHANGED <<plugin, flight, sent>>
  \/ /\ announced = {} /\ announced' = {t}
     /\ Run("session.updated", "", t) /\ starts' = starts + 1
  \/ /\ announced \notin {{}, {t}} /\ announced' = {t}
     /\ Run("session.title", "", t) /\ UNCHANGED starts

\* opencode tells of the session, once or again and again, and names it.
OpencodeUpdates ==
  /\ \E t \in {title} \cup (IF phase = "off" THEN {} ELSE Title) :
       title' = t /\ Announce(t)
  /\ phase' = IF phase = "off" THEN "ready" ELSE phase
  /\ UNCHANGED masked

\* The events the plugin passes on as they are.  A turn that begins, and a
\* permission that is granted, are not among them.
OpencodeTurn ==
  /\ \/ phase \in {"ready", "error"} /\ Enter("turn") /\ UNCHANGED <<flight, sent>>
     \/ phase = "blocked" /\ Enter("approved") /\ UNCHANGED <<flight, sent>>
     \/ phase \in {"turn", "approved"} /\ Enter("blocked") /\ Run("permission.asked", "", NoTitle)
     \/ phase \in {"turn", "approved", "error"} /\ Enter("ready") /\ Run("session.idle", "", NoTitle)
     \/ phase \in {"turn", "approved"} /\ Enter("error") /\ Run("session.error", "", NoTitle)
  /\ UNCHANGED <<title, plugin>>

\* opencode is left and started again: the plugin's memory is gone.
OpencodeRelaunch ==
  /\ phase = "ready" /\ Enter("off")
  /\ announced' = {} /\ starts' = 0
  /\ UNCHANGED <<title, flight, sent>>

Opencode ==
  /\ agent = "opencode"
  /\ OpencodeUpdates \/ OpencodeTurn \/ OpencodeRelaunch
  /\ UNCHANGED <<agent, tail, now, daemon>>

Tick ==
  /\ now < MaxTime
  /\ now' = now + 1
  /\ UNCHANGED <<agentVars, plugin, flight, sent, daemon>>

Next == Claude \/ Opencode \/ Tick \/ \E m \in flight : Deliver(m) \/ Lose(m)

Spec == Init /\ [][Next]_vars

-----------------------------------------------------------------------------
(* Correctness                                                             *)

\* What a session's status says of what the agent is doing.  Claude grants a
\* permission, and opencode begins a turn, without a hook.
Shown ==
  CASE phase = "ready"                    -> {"idle"}
    [] phase = "turn"                     -> IF agent = "claude" THEN {"running"}
                                             ELSE {"idle", "failed"}
    [] phase \in {"blocked", "elicited"}  -> IF masked THEN {"running"} ELSE {"waiting"}
    [] phase = "approved"                 -> {"waiting"}
    [] phase = "error"                    -> {"failed"}
    [] phase = "off" /\ agent = "claude"  -> {NoState, "finished"}
    [] OTHER                              -> State \cup {NoState}

\* Once its hooks are through, the row says what the agent does, as far as a hook tells
\* (Shown): a block shows, until the first hook after it; compaction, the idle reminder
\* and a rename leave a turn alone; a background auth_success starts no turn, though it
\* ends a block.  Excused is only a conversation whose last hook that asks for a state
\* was lost, arrived before an older one stamped no earlier, or was turned away by the
\* recency guard because an older one, which ran beside it, was stamped in a later second
\* (hook.go:302, store.go:209): with opencode these happen, with Claude only the loss.
\* The next hook that asks and gets by the guard makes it good (README: "A missed
\* SessionStart hook is non-fatal").
RowFollowsAgent == flight = {} /\ ~stale => row.status \in Shown

\* The title a user sees in the list is the agent's: with Claude when a turn is over,
\* as long as the transcript's tail holds it, with opencode all the time (hook.go,
\* claudeTitle: "a session that gets one prompt and then sits idle would never
\* report one").
RowShowsTitle ==
  flight = {} /\ ~staleTitle =>
    IF agent = "claude"
    THEN phase = "ready" /\ tail # NoTitle => row.title = title
    ELSE announced # {} /\ title # NoTitle => row.title = title

\* While the plugin is loaded it announces the conversation once, however many
\* callbacks run at the same time: nothing resets a live turn to idle (sm.ts).
StartsOnce == starts <= 1

=============================================================================
