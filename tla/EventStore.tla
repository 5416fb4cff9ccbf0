----------------------------- MODULE EventStore -----------------------------
(***************************************************************************)
(* What internal/store/store.go keeps of a conversation besides its state:  *)
(* the events table, and the two columns of a session's row that cache it,  *)
(* last_prompt and title.  The daemon and every `sm` command open the same  *)
(* database file, each in its own process, and each opening first brings an *)
(* older database up to date, one ALTER TABLE at a time (migrate).          *)
(*                                                                         *)
(* A statement or a transaction is one action: SQLite lets one connection   *)
(* write at a time.  A process may end, and a statement of it may fail,      *)
(* anywhere: either way it has no database open any more (Leave), and it     *)
(* may try again.                                                          *)
(***************************************************************************)
EXTENDS Integers, FiniteSets, SequencesExt

CONSTANTS
  Opener,     \* the processes that open the database
  SessionId,  \* ids; fresh ones are never reused
  Text, NoText,
  Said,       \* the texts that the event of each number may bear
  Legacy,     \* the events tables an older release may have left behind
  MaxTime, MaxEvents  \* bounds for model checking

\* The columns that migrate adds, in its order.
Columns == <<"pid", "pid_start", "boot_id", "title", "last_prompt">>

\* Where a process is besides the ALTERs, which are numbered from 1.
Closed == 0
Filling == Len(Columns) + 1
Ready == Len(Columns) + 2

Kind == {"user_prompt", "other"}
Event == [id : Nat, sid : SessionId, ts : Nat, kind : Kind,
          prompt : Text \cup {NoText}, title : Text \cup {NoText}]

\* ORDER BY ts DESC, id DESC: does f come before e, or is it e?
NotAfter(e, f) == e.ts < f.ts \/ (e.ts = f.ts /\ e.id <= f.id)

Prompts(evs, s) == {e \in evs : e.sid = s /\ e.kind = "user_prompt"}

\* An older release numbered its events as this one does, and reported no titles.
ASSUME EventStoreAssumption ==
  /\ NoText \notin Text
  /\ MaxTime \in Nat /\ MaxEvents \in Nat
  /\ Said \in [1 .. MaxEvents -> SUBSET Text]
  /\ \A evs \in Legacy :
       /\ evs \subseteq Event /\ IsFiniteSet(evs)
       /\ \A e \in evs : e.title = NoText /\ e.id <= Cardinality(evs)
       /\ \A e, f \in evs : e.id = f.id => e = f

VARIABLES
  columns,  \* the columns the sessions table has of those above
  known,    \* the ids that have a row
  prompt,   \* last_prompt of each row
  title,    \* title of each row
  events,   \* the events table
  nextId,   \* the id the next event gets
  at,       \* each process: Closed, the number of its ALTER, Filling or Ready
  filled    \* has the UPDATE behind the last ALTER been done?

cache == <<prompt, title>>
vars == <<columns, known, cache, events, nextId, at, filled>>

TypeOK ==
  /\ columns \subseteq Range(Columns)
  /\ known \subseteq SessionId
  /\ prompt \in [SessionId -> Text \cup {NoText}]
  /\ title \in [SessionId -> Text \cup {NoText}]
  /\ events \subseteq Event
  /\ nextId \in Nat
  /\ at \in [Opener -> Closed .. Ready]
  /\ filled \in BOOLEAN

-----------------------------------------------------------------------------
(* Queries.                                                                *)

Newest(P) == CHOOSE e \in P : \A f \in P : NotAfter(f, e)

\* A slip: a session without prompts gets SQL's NULL, which is no text.
LatestPromptOrNull(evs, s) ==
  IF Prompts(evs, s) = {} THEN -1 ELSE Newest(Prompts(evs, s)).prompt

\* latestPromptSQL: the text of a session's newest prompt.
LatestPrompt(evs, s) ==
  IF Prompts(evs, s) = {} THEN NoText ELSE Newest(Prompts(evs, s)).prompt

OfSession(evs, s) == {e \in evs : e.sid = s}

AtMost(limit, n) == IF limit < n THEN limit ELSE n

\* A slip: the order of arrival.
RecentById(evs, s, limit) ==
  LET P == OfSession(evs, s)
      n == AtMost(limit, Cardinality(P))
  IN  [i \in 1 .. n |-> CHOOSE e \in P : Cardinality({f \in P : f.id > e.id}) = n - i]

\* How many of P come after e.
Rank(P, e) == Cardinality({f \in P : f # e /\ NotAfter(e, f)})

\* recentEvents: the newest events of a session, at most limit, oldest first.
RecentEvents(evs, s, limit) ==
  LET P == OfSession(evs, s)
      n == AtMost(limit, Cardinality(P))
  IN  [i \in 1 .. n |-> CHOOSE e \in P : Rank(P, e) = n - i]

-----------------------------------------------------------------------------
(* Opening the database.                                                    *)

Init ==
  /\ columns \in {{Columns[i] : i \in 1 .. n} : n \in 0 .. Len(Columns) - 1}
  /\ events \in Legacy
  /\ known = {e.sid : e \in events}
  /\ nextId = 1 + Cardinality(events)
  /\ prompt = [s \in SessionId |-> NoText]
  /\ title = [s \in SessionId |-> NoText]
  /\ at = [p \in Opener |-> Closed]
  /\ filled = FALSE

Goto(p, pc) == at' = [at EXCEPT ![p] = pc]

\* Open: the schema is there, or is created.
Open(p) ==
  /\ at[p] = Closed
  /\ Goto(p, 1)
  /\ UNCHANGED <<columns, known, cache, events, nextId, filled>>

\* A slip: the first column that is there already ends the migration.
AlterUntilThere(p) ==
  /\ at[p] \in DOMAIN Columns
  /\ LET c == Columns[at[p]] IN
     /\ columns' = columns \cup {c}
     /\ Goto(p, IF c \in columns THEN Ready ELSE at[p] + 1)
  /\ UNCHANGED <<known, cache, events, nextId, filled>>

\* migrate: one ALTER TABLE.  A column that is there already is no error; if it is
\* last_prompt, it has been filled before.
Alter(p) ==
  /\ at[p] \in DOMAIN Columns
  /\ LET c == Columns[at[p]] IN
     /\ columns' = columns \cup {c}
     /\ Goto(p, IF at[p] = Len(Columns) /\ c \in columns THEN Ready ELSE at[p] + 1)
  /\ UNCHANGED <<known, cache, events, nextId, filled>>

\* migrate: the UPDATE after last_prompt was added.
Backfill(p) ==
  /\ at[p] = Filling
  /\ prompt' = [s \in SessionId |-> IF s \in known THEN LatestPrompt(events, s)
                                                  ELSE prompt[s]]
  /\ filled' = TRUE
  /\ Goto(p, Ready)
  /\ UNCHANGED <<columns, known, title, events, nextId>>

\* A statement fails, or the process ends, or it is done with the database.
Leave(p) ==
  /\ at[p] # Closed
  /\ Goto(p, Closed)
  /\ UNCHANGED <<columns, known, cache, events, nextId, filled>>

-----------------------------------------------------------------------------
(* Writing.                                                                *)

\* A new session: its id is a fresh UUID, which no event bears yet.
CreateSession(p, s) ==
  /\ at[p] = Ready
  /\ {"pid", "pid_start", "boot_id"} \subseteq columns
  /\ s \notin known
  /\ \A e \in events : e.sid # s
  /\ known' = known \cup {s}
  /\ UNCHANGED <<columns, cache, events, nextId, at, filled>>

\* Slips: last_prompt takes the text of the event at hand; an event without a title
\* clears the title.
AppendAsIs(p, e) ==
  /\ at[p] = Ready
  /\ events' = events \cup {e}
  /\ nextId' = nextId + 1
  /\ prompt' = IF e.kind = "user_prompt" /\ e.sid \in known
               THEN [prompt EXCEPT ![e.sid] = e.prompt]
               ELSE prompt
  /\ title' = IF e.title # NoText /\ e.sid \in known
              THEN [title EXCEPT ![e.sid] = e.title]
              ELSE title
  /\ UNCHANGED <<columns, known, at, filled>>
AppendAndBlank(p, e) ==
  /\ at[p] = Ready
  /\ events' = events \cup {e}
  /\ nextId' = nextId + 1
  /\ prompt' = IF e.kind = "user_prompt" /\ e.sid \in known
               THEN [prompt EXCEPT ![e.sid] = LatestPrompt(events', e.sid)]
               ELSE prompt
  /\ title' = IF e.sid \in known THEN [title EXCEPT ![e.sid] = e.title] ELSE title
  /\ UNCHANGED <<columns, known, at, filled>>

\* AppendEvent: one transaction.  The event need not be newer than those that are
\* there, nor need its session have a row.
AppendEvent(p, e) ==
  /\ at[p] = Ready
  /\ e.kind = "user_prompt" => "last_prompt" \in columns
  /\ e.title # NoText => "title" \in columns
  /\ events' = events \cup {e}
  /\ nextId' = nextId + 1
  /\ prompt' = IF e.kind = "user_prompt" /\ e.sid \in known
               THEN [prompt EXCEPT ![e.sid] = LatestPrompt(events', e.sid)]
               ELSE prompt
  /\ title' = IF e.title # NoText /\ e.sid \in known
              THEN [title EXCEPT ![e.sid] = e.title]
              ELSE title
  /\ UNCHANGED <<columns, known, at, filled>>

\* The events that may be appended next: a prompt may lack its text.
NextEvents ==
  IF nextId > MaxEvents THEN {}
  ELSE {e \in [id : {nextId}, sid : SessionId, ts : 0 .. MaxTime, kind : Kind,
               prompt : Said[nextId] \cup {NoText}, title : Said[nextId] \cup {NoText}] :
          e.kind = "other" => e.prompt = NoText}

Next ==
  \E p \in Opener :
    \/ Open(p) \/ Alter(p) \/ Backfill(p) \/ Leave(p)
    \/ \E s \in SessionId : CreateSession(p, s)
    \/ \E e \in NextEvents : AppendEvent(p, e)

Spec == Init /\ [][Next]_vars

-----------------------------------------------------------------------------
(* Correctness                                                             *)

\* Once the column has been filled, last_prompt, which `sm status` prints, is each
\* session's newest prompt, in whatever order prompts arrive and whoever appends,
\* migrates or fails meanwhile; and as long as it has not, it is that or empty, never an
\* older one
\* (store.go, AppendEvent: "an out-of-order prompt cannot overwrite a newer one").
PromptIsNewest ==
  \A s \in known :
    \/ prompt[s] = LatestPrompt(events, s)
    \/ ~filled /\ prompt[s] = NoText

Titled(evs, s) == {e \in evs : e.sid = s /\ e.title # NoText}

\* The title of a session is the one that reached the store last: an event without
\* one does not clear it, and the order of arrival decides, not the order in which
\* the events were sent (store.go, AppendEvent: "Last non-empty write wins").
TitleIsLastReported ==
  \A s \in known :
    LET T == Titled(events, s) IN
    /\ T = {} => title[s] = NoText
    /\ \A e \in T : (\A f \in T : f.id <= e.id) => title[s] = e.title

\* A process that has the database open finds every column its statements name,
\* whatever release wrote the file and whichever processes migrate it at the same
\* time or gave up half way (store.go, migrate: "Re-running is safe").
OpenMeansMigrated ==
  \A p \in Opener : at[p] = Ready => columns = Range(Columns)

\* The column and the history agree: if the events that `sm show` prints contain a
\* prompt, the last of them is the last_prompt that `sm status` prints, for every limit,
\* and for ties and late events too.
ListAgreesWithHistory ==
  filled => \A s \in known, limit \in 1 .. MaxEvents :
    LET shown == RecentEvents(events, s, limit)
        asked == {i \in DOMAIN shown : shown[i].kind = "user_prompt"}
    IN  \A i \in asked : (\A j \in asked : j <= i) => prompt[s] = shown[i].prompt

=============================================================================
