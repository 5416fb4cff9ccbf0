----------------------------- MODULE MCManager -----------------------------
(***************************************************************************)
(* Small instances of Manager for TLC: two hosts, one or two conversations.*)
(***************************************************************************)
EXTENDS Claims, ManagerBoard

CONSTANTS here, there, c1

AllHere == [nat \in Native |-> here]
AllThere == [nat \in Native |-> there]
HereAndThere == [nat \in Native |-> IF nat = c1 THEN here ELSE there]

Sig(k) == [kind |-> k, notify |-> NoNotify]
Note(t) == [kind |-> "notification", notify |-> t]

\* A turn and a rename, which asks for no state.
ResumeSignals == {Sig("user_prompt"), Sig("title")}
\* A block, and what ends it: the user's answer or a clean exit.
BlockSignals == {Note("permission_prompt"), Note("elicitation_response")}
EndSignals == {Note("permission_prompt"), Sig("session_end")}
RenamedBlockSignals == BlockSignals \cup {Sig("title")}
=============================================================================
