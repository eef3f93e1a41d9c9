------------------------------ MODULE Journey ------------------------------
(***************************************************************************)
(* Progress and arrival shares of one flight: journey/JourneyStore.ts and  *)
(* its routes. Both are kept per flight and date, so all passengers of the *)
(* flight work on the same rows.                                           *)
(*                                                                         *)
(* With SQLite nothing else runs between the statements of a handler; with *)
(* PostgreSQL (pg) the statements of concurrent transactions interleave    *)
(* under READ COMMITTED, and a transaction takes effect at its COMMIT.     *)
(***************************************************************************)
EXTENDS Naturals, Sequences, FiniteSets

CONSTANTS
  Pages,            \* pages of passengers of the flight
  MaxShare, MaxReset    \* bounds: shares ever made, progress corrections

ASSUME JourneyAssumption == MaxShare \in Nat /\ MaxReset \in Nat

VARIABLES
  pg,               \* DATABASE_URL is set
  journey,          \* the flight has its row of journey_preferences
  share,            \* arrival_plan_shares
  link,             \* the share whose tokens a page keeps, 0 for none
  post,             \* the share request of each page
  progress,         \* ranks of passenger_journey_events, in order of insertion
  event,            \* the event request of each page
  resets

journeyVars == <<pg, journey, share, link, post, progress, event, resets>>

Share == 1..MaxShare
Ranks == 1..3       \* off_plane, bags_collected, outside
Open == {s \in Share : share[s] = "open"}

PostIdle == [at |-> "idle"]
EventIdle == 0

JourneyTypeOK ==
  /\ pg \in BOOLEAN /\ journey \in BOOLEAN
  /\ share \in [Share -> {"none", "open", "lapsed", "off"}]
  /\ link \in [Pages -> 0..MaxShare]
  /\ post \in [Pages -> {PostIdle, [at |-> "force"]}
                        \cup [at : {"check"}, of : Share]
                        \cup [at : {"insert"}, ends : SUBSET Share]]
  /\ progress \in Seq(Ranks)
  /\ event \in [Pages -> {EventIdle} \cup Ranks]
  /\ resets \in 0..MaxReset

JourneyInit ==
  /\ pg \in BOOLEAN /\ journey \in BOOLEAN
  /\ share = [s \in Share |-> "none"]
  /\ link = [p \in Pages |-> 0]
  /\ post = [p \in Pages |-> PostIdle]
  /\ progress = <<>>
  /\ event = [p \in Pages |-> EventIdle]
  /\ resets = 0

-----------------------------------------------------------------------------
Working == {p \in Pages : post[p] # PostIdle \/ event[p] # EventIdle}

(* A handler starts: with SQLite when no other is halfway; with PostgreSQL *)
(* ensureJourney makes it wait for a transaction that inserts the row.     *)
MayStart(p) ==
  /\ p \notin Working
  /\ (pg /\ journey) \/ Working = {}

(* createOrReuseShare without forceNew: lapsed shares are switched off,    *)
(* then the active one is looked up.                                       *)
PostShare(p) ==
  /\ MayStart(p)
  /\ IF Open = {}
     THEN /\ post' = [post EXCEPT ![p] = [at |-> "insert", ends |-> {}]]
          /\ UNCHANGED <<journey, share>>
     ELSE /\ \E s \in Open : post' = [post EXCEPT ![p] = [at |-> "check", of |-> s]]
          /\ share' = [s \in Share |-> IF share[s] = "lapsed" THEN "off" ELSE share[s]]
          /\ journey' = TRUE
  /\ UNCHANGED <<pg, link, progress, event, resets>>

(* getPublicShare with the token the page sent: its link is the active     *)
(* share, and goes back to it.                                             *)
ReuseShare(p) ==
  /\ post[p].at = "check"
  /\ post' = [post EXCEPT ![p] = IF link[p] = post[p].of /\ post[p].of \in Open
                                 THEN PostIdle ELSE [at |-> "force"]]
  /\ UNCHANGED <<pg, journey, share, link, progress, event, resets>>

(* Seeded fault: the active shares are not switched off                    *)
ForceNewKeeps(p) ==
  /\ post[p].at = "force"
  /\ post' = [post EXCEPT ![p] = [at |-> "insert", ends |-> {}]]
  /\ UNCHANGED <<pg, journey, share, link, progress, event, resets>>

(* The token is of no share or of another: forceNew ends the active ones.  *)
ForceNew(p) ==
  /\ post[p].at = "force"
  /\ post' = [post EXCEPT ![p] = [at |-> "insert", ends |-> Open]]
  /\ UNCHANGED <<pg, journey, share, link, progress, event, resets>>

(* INSERT, COMMIT and the answer with both tokens.                         *)
InsertShare(p, n) ==
  /\ post[p].at = "insert"
  /\ share[n] = "none" /\ \A s \in Share : s < n => share[s] # "none"
  /\ share' = [s \in Share |-> IF s = n THEN "open"
                               ELSE IF s \in post[p].ends \/ share[s] = "lapsed" THEN "off"
                               ELSE share[s]]
  /\ link' = [link EXCEPT ![p] = n]
  /\ post' = [post EXCEPT ![p] = PostIdle]
  /\ journey' = TRUE
  /\ UNCHANGED <<pg, progress, event, resets>>

(* DELETE arrival-share with the management token; 24 hours pass.          *)
RevokeShare(p) ==
  /\ MayStart(p)
  /\ link[p] \in Open
  /\ share' = [share EXCEPT ![link[p]] = "off"]
  /\ UNCHANGED <<pg, journey, link, post, progress, event, resets>>

ShareLapses(s) ==
  /\ s \in Open
  /\ share' = [share EXCEPT ![s] = "lapsed"]
  /\ UNCHANGED <<pg, journey, link, post, progress, event, resets>>

-----------------------------------------------------------------------------
Latest == IF progress = <<>> THEN 0 ELSE CHOOSE r \in Ranks :
  /\ \E i \in DOMAIN progress : progress[i] = r
  /\ \A i \in DOMAIN progress : progress[i] <= r

(* addEvent: MAX(event_rank), and the event has to come after it; then the *)
(* insert.                                                                 *)
AddEvent(p, r) ==
  /\ MayStart(p)
  /\ r > Latest
  /\ event' = [event EXCEPT ![p] = r]
  /\ UNCHANGED <<pg, journey, share, link, post, progress, resets>>

InsertEvent(p) ==
  /\ event[p] # EventIdle
  /\ progress' = Append(progress, event[p])
  /\ event' = [event EXCEPT ![p] = EventIdle]
  /\ journey' = TRUE
  /\ UNCHANGED <<pg, share, link, post, resets>>

(* DELETE journey-events?confirm=true: one statement.                      *)
ResetEvents(p) ==
  /\ MayStart(p)
  /\ progress # <<>> /\ resets < MaxReset
  /\ progress' = <<>>
  /\ resets' = resets + 1
  /\ UNCHANGED <<pg, journey, share, link, post, event>>

JourneyNext ==
  \/ \E p \in Pages :
       \/ PostShare(p) \/ ReuseShare(p) \/ ForceNew(p) \/ RevokeShare(p)
       \/ InsertEvent(p) \/ ResetEvents(p)
       \/ \E n \in Share : InsertShare(p, n)
       \/ \E r \in Ranks : AddEvent(p, r)
  \/ \E s \in Share : ShareLapses(s)

JourneySpec == JourneyInit /\ [][JourneyNext]_journeyVars

-----------------------------------------------------------------------------
InOrder(q) == \A i, j \in DOMAIN q : i < j => q[i] < q[j]

(* "Journey events must be added in monotonic order" (JourneyStore.ts:301) *)
ProgressInOrder == InOrder(progress)

(* createOrReuseShare is to "create a share, or reuse the active one"      *)
(* (JourneyStore.ts:362): a flight has at most one that opens.             *)
OneOpenShare == Cardinality(Open) <= 1

(* With SQLite a flight has at most one share that opens, and a progress   *)
(* that only advances until it is reset, however the passengers of the     *)
(* flight mix their requests with lapsing and revoking.                    *)
JourneyInv == JourneyTypeOK /\ (pg \/ (OneOpenShare /\ ProgressInOrder))

=============================================================================
