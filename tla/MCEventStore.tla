---------------------------- MODULE MCEventStore ----------------------------
EXTENDS EventStore, TLC

CONSTANTS p, q

\* Each event bears a text of its own, or none.
Texts == 1 .. MaxEvents
OwnText == [n \in Texts |-> {n}]

Ids == {"s", "t"}

\* One prompt, or two of one second.
Old(id, ts) == [id |-> id, sid |-> "s", ts |-> ts, kind |-> "user_prompt",
                   prompt |-> id, title |-> NoText]
OldTables == {{Old(1, 1)}, {Old(1, 0), Old(2, 0)}}

Interchangeable == Permutations(Opener)

\* What the backfill is for: a process that has the database open shows the prompts
\* recorded before the upgrade, unless some process is just about to fill them in
\* (store.go, migrate: "backfill it so sessions recorded before the upgrade keep
\* their prompts").
PromptsKept ==
  (\E o \in Opener : at[o] = Ready) /\ (\A o \in Opener : at[o] # Filling) =>
    \A s \in known : prompt[s] = LatestPrompt(events, s)
=============================================================================
