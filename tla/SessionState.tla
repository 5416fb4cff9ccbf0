--------------------------- MODULE SessionState ---------------------------
(***************************************************************************)
(* The state machine of one agent session, as internal/session/session.go *)
(* defines it: the states, the event kinds, the sub-types of a             *)
(* notification, and the two functions that say what an event does to a   *)
(* session.  The module has no variables: the store and the daemon use it.*)
(***************************************************************************)
EXTENDS FiniteSets

\* The states of a session.  NoState is Go's empty string: "no such session"
\* when the store answers it, "no change" when Transition does.
State == {"running", "waiting", "idle", "finished", "failed", "dead"}
NoState == ""

Kind == {"session_start", "user_prompt", "tool_use", "notification", "stop",
         "session_end", "fail", "note", "title"}

\* The sub-types of a notification.  "" is an absent type and "other" stands
\* for every type the program does not know.
NoNotify == ""
NotifyType == {"permission_prompt", "idle_prompt", "auth_success",
               "elicitation_dialog", "elicitation_complete",
               "elicitation_response", "other", NoNotify}

\* What an event carries for the state machine.
Signal == {s \in [kind : Kind, notify : NotifyType] :
             s.kind # "notification" => s.notify = NoNotify}

TerminalStates == {"finished", "dead"}
IsTerminal(s) == s \in TerminalStates

\* The states `sm mark` accepts.
ParseState == State \ {"dead"}

NextState(k) ==
  CASE k \in {"user_prompt", "tool_use", "note"} -> "running"
    [] k \in {"session_start", "stop"}           -> "idle"
    [] k = "session_end"                         -> "finished"
    [] k = "fail"                                -> "failed"
    [] OTHER                                     -> NoState

\* The notifications that say a block is over, and the purely informational one.
Resuming == {"elicitation_complete", "elicitation_response", "auth_success"}
Informational == {"idle_prompt"}

Transition(cur, e) ==
  CASE e.kind # "notification"    -> NextState(e.kind)
    [] e.kind = "notification" /\ e.notify \in Resuming ->
         IF cur = "waiting" THEN "running" ELSE NoState
    [] e.kind = "notification" /\ e.notify \in Informational -> NoState
    [] OTHER                      -> "waiting"
=============================================================================
