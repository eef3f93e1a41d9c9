---------------------------- MODULE ChatHistory ----------------------------
(***************************************************************************)
(* The chat of one passenger: the cache chatHistories of hub/HubStore.ts   *)
(* over the rows of hub/ChatRepository.ts.                                 *)
(*                                                                         *)
(* A message is its number in order of sending, which is also the order of *)
(* createdAt; a history, always kept in that order, is a set of messages.  *)
(* Statements are executed some time after they were issued and answered   *)
(* some time after that, as with a pool of PostgreSQL connections; with    *)
(* SQLite the three moments coincide.                                      *)
(***************************************************************************)
EXTENDS Naturals, FiniteSets

CONSTANTS
  Readers,          \* calls of ensureChatHistory; a finished one is used again
  Texts, Other, MaxSent, Cap    \* as in ChatPromise

ASSUME HistoryAssumption ==
  /\ Other \notin Texts
  /\ "none" \notin Texts \cup {Other}
  /\ MaxSent \in Nat
  /\ Cap \in Nat \ {0}

VARIABLES
  text,             \* what was sent, in order
  cache,            \* chatHistories; {} is the missing or empty entry
  row,              \* chat_messages: a row whose insert is under way, a row,
                    \* a lost one (failed or pruned), or a purged one
  reader,           \* where each call of ensureChatHistory is
  purge             \* a purge under way removes the messages up to this one

chatVars == <<text, cache, row, reader, purge>>

Msg == 1..MaxSent
Sent == {m \in Msg : text[m] # "none"}
Rows == {m \in Msg : row[m] = "there"}

ReaderIdle == [at |-> "idle"]
Reader == [at : {"asked"}] \cup [at : {"read"}, got : SUBSET Msg]

ChatTypeOK ==
  /\ text \in [Msg -> Texts \cup {Other, "none"}]
  /\ cache \subseteq Msg
  /\ row \in [Msg -> {"none", "inserting", "there", "lost", "purged"}]
  /\ reader \in [Readers -> {ReaderIdle} \cup Reader]
  /\ purge \in 0..MaxSent

ChatInit ==
  /\ text = [m \in Msg |-> "none"]
  /\ cache = {}
  /\ row = [m \in Msg |-> "none"]
  /\ reader = [r \in Readers |-> ReaderIdle]
  /\ purge = 0

-----------------------------------------------------------------------------
(* splice(0, length - MAX_CHAT_HISTORY); ORDER BY created_at DESC LIMIT    *)
Newest(S) == {m \in S : Cardinality({n \in S : n > m}) < Cap}

(* Seeded fault: the cap is not kept                                       *)
AppendUncapped(m, t) ==
  /\ m \notin Sent /\ \A n \in Msg : n < m => n \in Sent
  /\ text' = [text EXCEPT ![m] = t]
  /\ cache' = cache \cup {m}
  /\ row' = [row EXCEPT ![m] = "inserting"]
  /\ UNCHANGED purge

(* Seeded fault: a cold cache is left to the next load                     *)
AppendIfWarm(m, t) ==
  /\ m \notin Sent /\ \A n \in Msg : n < m => n \in Sent
  /\ text' = [text EXCEPT ![m] = t]
  /\ cache' = IF cache = {} THEN {} ELSE Newest(cache \cup {m})
  /\ row' = [row EXCEPT ![m] = "inserting"]
  /\ UNCHANGED purge

(* appendChat: the message enters the cache at once, also a cold one, and  *)
(* its insert is issued.                                                   *)
AppendChat(m, t) ==
  /\ m \notin Sent /\ \A n \in Msg : n < m => n \in Sent
  /\ text' = [text EXCEPT ![m] = t]
  /\ cache' = Newest(cache \cup {m})
  /\ row' = [row EXCEPT ![m] = "inserting"]
  /\ UNCHANGED purge

(* The insert is executed, or fails; then the error is logged and the      *)
(* message stays in the cache.                                             *)
Insert(m) ==
  /\ row[m] = "inserting"
  /\ \E outcome \in {"there", "lost"} : row' = [row EXCEPT ![m] = outcome]
  /\ UNCHANGED <<text, cache, reader, purge>>

(* ensureChatHistory with a cold cache awaits loadRecent; with a warm one  *)
(* it answers from it and nothing changes.                                 *)
EnsureChatHistory(r) ==
  /\ reader[r] = ReaderIdle
  /\ cache = {}
  /\ reader' = [reader EXCEPT ![r] = [at |-> "asked"]]
  /\ UNCHANGED <<text, cache, row, purge>>

LoadRead(r) ==
  /\ reader[r].at = "asked"
  /\ reader' = [reader EXCEPT ![r] = [at |-> "read", got |-> Newest(Rows)]]
  /\ UNCHANGED <<text, cache, row, purge>>

(* What was loaded replaces the cache, whatever happened to it meanwhile.  *)
LoadReturns(r) ==
  /\ reader[r].at = "read"
  /\ reader' = [reader EXCEPT ![r] = ReaderIdle]
  /\ cache' = IF reader[r].got = {} THEN cache ELSE reader[r].got
  /\ UNCHANGED <<text, row, purge>>

LoadFails(r) ==
  /\ reader[r] # ReaderIdle
  /\ reader' = [reader EXCEPT ![r] = ReaderIdle]
  /\ UNCHANGED <<text, cache, row, purge>>

(* purgePassenger: the cache at once, the rows by a statement.             *)
PurgePassenger ==
  /\ purge = 0 /\ Sent # {}
  /\ purge' = Cardinality(Sent)
  /\ cache' = {}
  /\ UNCHANGED <<text, row, reader>>

PurgeRows ==
  /\ purge # 0
  /\ row' = [m \in Msg |-> IF row[m] # "there" THEN row[m]
                           ELSE IF m <= purge THEN "purged" ELSE "lost"]
  /\ purge' = 0
  /\ UNCHANGED <<text, cache, reader>>

(* The hourly job: rows past the retention, and a cache without a socket   *)
(* that was not touched for long.                                          *)
PruneOlderThan(m) ==
  /\ m \in Rows
  /\ row' = [n \in Msg |-> IF n <= m /\ row[n] = "there" THEN "lost" ELSE row[n]]
  /\ UNCHANGED <<text, cache, reader, purge>>

PruneIdleCaches ==
  /\ cache # {}
  /\ cache' = {}
  /\ UNCHANGED <<text, row, reader, purge>>

(* A restart forgets the cache; an insert under way may have come through. *)
RestartHub ==
  /\ cache' = {}
  /\ \E done \in SUBSET {m \in Msg : row[m] = "inserting"} :
       row' = [m \in Msg |-> IF row[m] # "inserting" THEN row[m]
                             ELSE IF m \in done THEN "there" ELSE "lost"]
  /\ reader' = [r \in Readers |-> ReaderIdle]
  /\ purge' = 0
  /\ UNCHANGED text

ChatNext ==
  \/ \E m \in Msg :
       \/ \E t \in Texts \cup {Other} : AppendChat(m, t) /\ UNCHANGED reader
       \/ Insert(m) \/ PruneOlderThan(m)
  \/ \E r \in Readers : EnsureChatHistory(r) \/ LoadRead(r) \/ LoadReturns(r) \/ LoadFails(r)
  \/ PurgePassenger \/ PurgeRows \/ PruneIdleCaches \/ RestartHub

ChatSpec == ChatInit /\ [][ChatNext]_chatVars

-----------------------------------------------------------------------------
HistoriesBounded ==
  /\ Newest(cache) = cache
  /\ \A r \in Readers : reader[r].at = "read" => Newest(reader[r].got) = reader[r].got

(* Whatever a page can be told is among the messages sent.                 *)
OnlyWhatWasSent ==
  /\ cache \subseteq Sent
  /\ \A m \in Msg : row[m] # "none" => m \in Sent
  /\ \A r \in Readers : reader[r].at = "read" => reader[r].got \subseteq Sent

(* Histories keep to their cap and hold only messages that were sent, also *)
(* after loads, appends, purges and restarts in any order.                 *)
ChatInv == ChatTypeOK /\ HistoriesBounded /\ OnlyWhatWasSent

(* The cache keeps the hub's promise about histories.                      *)
Promise == INSTANCE ChatPromise WITH hist <- cache
ChatPromised == Promise!ChatPromiseSpec

(* ensureChatHistory (HubStore.ts:219) is to load the history "if not      *)
(* already warm": a warm cache then lacks a row only if it is full with    *)
(* newer ones.                                                             *)
WarmCacheIsComplete ==
  cache # {} => \A m \in Rows \ cache : Cardinality({n \in cache : n > m}) = Cap

(* purgePassenger (HubStore.ts:250) removes "every trace of one passenger  *)
(* from both the DB-backed chat history and this process's in-memory       *)
(* caches": a message whose row it deleted is not in the cache.            *)
PurgeLeavesNothing == \A m \in cache : row[m] # "purged"

=============================================================================
