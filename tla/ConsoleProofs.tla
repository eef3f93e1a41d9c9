---------------------------- MODULE ConsoleProofs ----------------------------
(* The console for any number of passengers, consoles and polls: without       *)
(* Redis, what a console has been told is who is online.                       *)
EXTENDS MCConsole, FiniteSetTheorems, SequenceTheorems, TLAPS

(* The invariant: FeedInv, nobody is at the await that only Redis has, and *)
(* a console outside the set has been told nothing yet.                    *)
IInv ==
  /\ FeedInv
  /\ ~redis => \A a \in Admins : conn[a] # "listing"
  /\ \A a \in Admins : conn[a] = "verify" => told[a] = {}

LEMMA InitFeed == FeedInit => IInv
<1> SUFFICES ASSUME FeedInit PROVE IInv
  OBVIOUS
<1>1. FeedTypeOK
  <2>1. redis \in BOOLEAN /\ \A a \in Admins : Len(queue[a]) <= MaxQueue
    BY FeedAssumption DEF FeedInit
  <2>2. ready \in [Admins -> BOOLEAN]
    BY DEF FeedInit
  <2>3. queue \in [Admins -> Seq(Frame)]
    BY DEF FeedInit
  <2>4. poll \in [Admins -> [Polls -> Poll]]
    BY DEF FeedInit, Poll, Idle
  <2> QED BY <2>1, <2>2, <2>3, <2>4 DEF FeedInit, PromiseInit, FeedTypeOK
<1>2. \A a \in Admins : conn[a] = "down"
  BY DEF FeedInit
<1> QED BY <1>1, <1>2 DEF IInv, FeedInv, SnapshotThenDeltas, SnapshotIsCurrent

(* A broadcast of n frames about p.                                        *)
LEMMA BroadcastType ==
  ASSUME FeedTypeOK, NEW p \in Pax, NEW n \in 0..2, Broadcast(p, n), online' \subseteq Pax,
         \A a \in Admins : Room(a, 2)
  PROVE  /\ queue' \in [Admins -> Seq(Frame)]
         /\ \A a \in Admins : Len(queue'[a]) <= MaxQueue
         /\ told' \in [Admins -> SUBSET Pax]
<1> DEFINE f == [pids |-> {p}, online |-> p \in online']
           fs == [i \in 1..n |-> f]
<1>1. f \in Frame
  <2>1. (p \in online') \in BOOLEAN
    OBVIOUS
  <2> QED BY <2>1 DEF Frame
<1>2. fs \in Seq(Frame) /\ Len(fs) = n
  BY <1>1
<1>3. ASSUME NEW a \in Admins
      PROVE  queue[a] \o fs \in Seq(Frame) /\ Len(queue[a] \o fs) = Len(queue[a]) + n
  <2> HIDE DEF fs
  <2>1. queue[a] \in Seq(Frame)
    BY DEF FeedTypeOK
  <2> QED BY <1>2, <2>1, ConcatProperties
<1>4. queue' = [a \in Admins |-> IF InSet(a) THEN queue[a] \o fs ELSE queue[a]]
  BY DEF Broadcast
<1> HIDE DEF fs
<1>5. queue' \in [Admins -> Seq(Frame)] /\ \A a \in Admins : Len(queue'[a]) <= MaxQueue
  BY <1>3, <1>4, FeedAssumption DEF FeedTypeOK, Room
<1>6. told' \in [Admins -> SUBSET Pax]
  BY DEF Broadcast, Apply, FeedTypeOK
<1> QED BY <1>5, <1>6

(* The hub's presence changes: every console in the set is told of it.     *)
LEMMA PresenceTold ==
  ASSUME IInv, NEW p \in Pax, PresenceStep(p)
  PROVE  IInv'
<1>1. PICK n \in 0..2 :
        /\ Broadcast(p, n)
        /\ n = 0 => ~Changed(p)
        /\ Leave(p) \/ Vouch(p) \/ Withdraw(p) \/ Expire(p) \/ Arrive(p)
  BY DEF PresenceStep
<1>2. /\ connected' \subseteq Pax /\ online' \subseteq Pax /\ grace' \subseteq Pax
      /\ \A q \in Pax \ {p} : q \in online' <=> q \in online
  BY <1>1 DEF Leave, Vouch, Withdraw, Expire, Arrive, IInv, FeedInv, FeedTypeOK
<1>3. /\ queue' \in [Admins -> Seq(Frame)]
      /\ \A a \in Admins : Len(queue'[a]) <= MaxQueue
      /\ told' \in [Admins -> SUBSET Pax]
  BY <1>1, <1>2, BroadcastType DEF PresenceStep, IInv, FeedInv
<1>4. FeedTypeOK'
  BY <1>2, <1>3 DEF PresenceStep, IInv, FeedInv, FeedTypeOK
<1>5. ASSUME NEW a \in Admins, conn[a] = "live", told[a] = online
      PROVE  told'[a] = online'
  <2>1. CASE n = 0
    <3>1. p \in online' <=> p \in online
      BY <1>1, <2>1, Zenon DEF Changed
    <3>2. \A q \in Pax : q \in online' <=> q \in online
      BY <1>2, <3>1
    <3>3. online' = online
      BY <1>2, <3>2 DEF IInv, FeedInv, FeedTypeOK
    <3>4. told'[a] = told[a]
      BY <1>1, <2>1 DEF Broadcast
    <3> QED BY <1>5, <3>3, <3>4
  <2>2. CASE n > 0
    <3>1. told'[a] = IF p \in online' THEN told[a] \cup {p} ELSE told[a] \ {p}
      BY <1>1, <1>5, <2>2 DEF Broadcast, InSet, Apply
    <3> QED BY <1>2, <1>5, <3>1 DEF IInv, FeedInv, FeedTypeOK
  <2> QED BY <2>1, <2>2
<1>6. ASSUME NEW a \in Admins, conn[a] = "verify" PROVE told'[a] = {}
  BY <1>1, <1>6 DEF Broadcast, InSet, IInv
<1> QED BY <1>4, <1>5, <1>6 DEF PresenceStep, IInv, FeedInv, SnapshotThenDeltas, SnapshotIsCurrent

-----------------------------------------------------------------------------
(* The connections of the consoles                                         *)

(* The snapshot is appended, and adds to what was told.                    *)
LEMMA SnapshotType ==
  ASSUME FeedTypeOK, NEW a \in Admins, NEW S \in SUBSET Pax, Snapshot(a, S)
  PROVE  /\ queue' \in [Admins -> Seq(Frame)]
         /\ \A b \in Admins : Len(queue'[b]) <= MaxQueue
         /\ told' = [told EXCEPT ![a] = told[a] \cup S]
<1> DEFINE f == [pids |-> S, online |-> TRUE]
<1>1. f \in Frame
  BY DEF Frame
<1>2. queue[a] \in Seq(Frame) /\ queue' = [queue EXCEPT ![a] = Append(queue[a], f)]
  BY DEF Snapshot, FeedTypeOK
<1>3. Append(queue[a], f) \in Seq(Frame) /\ Len(Append(queue[a], f)) = Len(queue[a]) + 1
  BY <1>1, <1>2, AppendProperties
<1> HIDE DEF f
<1>4. queue' \in [Admins -> Seq(Frame)] /\ \A b \in Admins : Len(queue'[b]) <= MaxQueue
  BY <1>2, <1>3, FeedAssumption DEF Snapshot, Room, FeedTypeOK
<1> QED BY <1>4 DEF Snapshot, Apply

LEMMA HelloTold ==
  ASSUME IInv, NEW a \in Admins, AdminHello(a)
  PROVE  IInv'
<1>1. queue' \in [Admins -> Seq(Frame)] /\ \A b \in Admins : Len(queue'[b]) <= MaxQueue
  BY FeedAssumption DEF AdminHello, IInv, FeedInv, FeedTypeOK
<1>2. FeedTypeOK'
  BY <1>1 DEF AdminHello, IInv, FeedInv, FeedTypeOK, pvars
<1>3. told' = [told EXCEPT ![a] = {}] /\ conn' = [conn EXCEPT ![a] = "verify"]
  BY DEF AdminHello
<1> QED BY <1>2, <1>3 DEF AdminHello, pvars, IInv, FeedInv, SnapshotThenDeltas, SnapshotIsCurrent, FeedTypeOK

LEMMA JoinTold ==
  ASSUME IInv, NEW a \in Admins, AdminJoin(a)
  PROVE  IInv'
<1> USE DEF IInv, FeedInv, SnapshotThenDeltas, SnapshotIsCurrent
<1>1. CASE redis
  <2>1. /\ conn' = [conn EXCEPT ![a] = "listing"]
        /\ listed' = [listed EXCEPT ![a] = online]
        /\ UNCHANGED <<queue, told>>
    BY <1>1 DEF AdminJoin
  <2>2. UNCHANGED <<redis, pvars, poll, view, ready>>
    BY DEF AdminJoin
  <2>3. FeedTypeOK'
    BY <2>1, <2>2 DEF FeedTypeOK, pvars
  <2>4. \A b \in Admins : conn'[b] = "verify" => told'[b] = {}
    BY <2>1 DEF FeedTypeOK
  <2> QED BY <1>1, <2>2, <2>3, <2>4
<1>2. CASE ~redis
  <2>1. Snapshot(a, online) /\ conn' = [conn EXCEPT ![a] = "live"] /\ UNCHANGED listed
    BY <1>2 DEF AdminJoin
  <2>2. online \in SUBSET Pax
    BY DEF FeedTypeOK
  <2>3. /\ queue' \in [Admins -> Seq(Frame)]
        /\ \A b \in Admins : Len(queue'[b]) <= MaxQueue
        /\ told' = [told EXCEPT ![a] = told[a] \cup online]
    BY <2>1, <2>2, SnapshotType
  <2>4. FeedTypeOK'
    BY <2>1, <2>2, <2>3 DEF AdminJoin, FeedTypeOK, pvars
  <2>5. told[a] = {}
    BY DEF AdminJoin
  <2>6. UNCHANGED <<redis, online>>
    BY DEF AdminJoin, pvars
  <2> QED BY <1>2, <2>1, <2>3, <2>4, <2>5, <2>6 DEF FeedTypeOK
<1> QED BY <1>1, <1>2

LEMMA ListedTold ==
  ASSUME IInv, NEW a \in Admins, AdminListed(a)
  PROVE  IInv'
<1> USE DEF IInv, FeedInv, SnapshotThenDeltas, SnapshotIsCurrent
<1>1. redis /\ redis' = redis
  BY DEF AdminListed
<1>2. listed[a] \in SUBSET Pax
  BY DEF FeedTypeOK
<1>3. PICK S \in SUBSET Pax : S = listed[a]
  BY <1>2
<1>4. /\ queue' \in [Admins -> Seq(Frame)]
      /\ \A b \in Admins : Len(queue'[b]) <= MaxQueue
      /\ told' = [told EXCEPT ![a] = told[a] \cup S]
  BY <1>3, SnapshotType DEF AdminListed
<1>5. conn' = [conn EXCEPT ![a] = "live"] /\ listed' = [listed EXCEPT ![a] = {}]
  BY DEF AdminListed
<1>6. FeedTypeOK'
  BY <1>4, <1>5 DEF AdminListed, FeedTypeOK, pvars
<1>7. \A b \in Admins : conn'[b] = "verify" => told'[b] = {}
  BY <1>4, <1>5 DEF FeedTypeOK
<1> QED BY <1>1, <1>6, <1>7

LEMMA DownTold ==
  ASSUME IInv, \/ \E a \in Admins : AdminDown(a)
               \/ HubRestart
  PROVE  IInv'
<1> USE DEF IInv, FeedInv, SnapshotThenDeltas, SnapshotIsCurrent
<1>1. ASSUME NEW a \in Admins, AdminDown(a) PROVE IInv'
  <2>1. queue' \in [Admins -> Seq(Frame)] /\ \A b \in Admins : Len(queue'[b]) <= MaxQueue
    BY <1>1, FeedAssumption DEF AdminDown, FeedTypeOK
  <2>2. FeedTypeOK'
    BY <1>1, <2>1 DEF AdminDown, FeedTypeOK, pvars
  <2> QED BY <1>1, <2>2 DEF AdminDown, pvars, FeedTypeOK
<1>2. CASE HubRestart
  <2>1. queue' \in [Admins -> Seq(Frame)] /\ \A b \in Admins : Len(queue'[b]) <= MaxQueue
    BY <1>2, FeedAssumption DEF HubRestart
  <2>2. poll' \in [Admins -> [Polls -> Poll]]
    BY <1>2 DEF HubRestart, FeedTypeOK, Poll, Idle
  <2>3. FeedTypeOK'
    BY <1>2, <2>1, <2>2 DEF HubRestart, Restart, FeedTypeOK
  <2> QED BY <1>2, <2>3 DEF HubRestart
<1> QED BY <1>1, <1>2

-----------------------------------------------------------------------------
(* The console's own steps: nothing the hub has or has told changes.       *)
LEMMA ConsoleTold ==
  ASSUME IInv, UNCHANGED <<redis, pvars, conn, listed, told>>,
         queue' \in [Admins -> Seq(Frame)], \A a \in Admins : Len(queue'[a]) <= MaxQueue,
         poll' \in [Admins -> [Polls -> Poll]], view' \in [Admins -> SUBSET Pax],
         ready' \in [Admins -> BOOLEAN]
  PROVE  IInv'
<1>1. FeedTypeOK'
  BY DEF IInv, FeedInv, FeedTypeOK, pvars
<1> QED BY <1>1 DEF IInv, FeedInv, SnapshotThenDeltas, SnapshotIsCurrent, pvars

LEMMA PageTold ==
  ASSUME IInv, NEW a \in Admins,
         \/ ReadFrame(a) \/ PageReady(a)
         \/ \E i \in Polls : PollAsk(a, i) \/ PollServed(a, i) \/ PollApplied(a, i) \/ PollLost(a, i)
  PROVE  IInv'
<1> USE DEF IInv, FeedInv, FeedTypeOK
<1>1. CASE ReadFrame(a)
  <2>1. Head(queue[a]) \in Frame /\ Tail(queue[a]) \in Seq(Frame)
        /\ Len(Tail(queue[a])) = Len(queue[a]) - 1
    BY <1>1, HeadTailProperties DEF ReadFrame
  <2>2. queue' \in [Admins -> Seq(Frame)] /\ \A b \in Admins : Len(queue'[b]) <= MaxQueue
    BY <1>1, <2>1, FeedAssumption DEF ReadFrame
  <2>3. view' \in [Admins -> SUBSET Pax]
    BY <1>1, <2>1 DEF ReadFrame, Apply, Frame
  <2> QED BY <1>1, <2>2, <2>3, ConsoleTold DEF ReadFrame
<1>2. CASE PageReady(a)
  <2>1. ready' \in [Admins -> BOOLEAN] /\ view' \in [Admins -> SUBSET Pax]
    BY <1>2 DEF PageReady
  <2> QED BY <1>2, <2>1, ConsoleTold DEF PageReady
<1>3. ASSUME NEW i \in Polls,
             PollAsk(a, i) \/ PollServed(a, i) \/ PollApplied(a, i) \/ PollLost(a, i)
      PROVE  IInv'
  <2>1. poll[a][i].list \in SUBSET Pax
    BY DEF Poll
  <2>2. poll' \in [Admins -> [Polls -> Poll]]
    <3>1. ASSUME NEW q \in Poll, poll' = [poll EXCEPT ![a] = [poll[a] EXCEPT ![i] = q]]
          PROVE  poll' \in [Admins -> [Polls -> Poll]]
      BY <3>1
    <3>2. Idle \in Poll /\ [st |-> "asked", list |-> {}] \in Poll
      BY DEF Poll, Idle
    <3>3. [st |-> "served", list |-> online] \in Poll
      BY DEF Poll
    <3> QED BY <1>3, <3>1, <3>2, <3>3 DEF PollAsk, PollServed, PollApplied, PollLost
  <2>3. view' \in [Admins -> SUBSET Pax]
    BY <1>3, <2>1 DEF PollAsk, PollServed, PollApplied, PollLost
  <2>4. UNCHANGED <<redis, pvars, conn, listed, queue, told, ready>>
    BY <1>3 DEF PollAsk, PollServed, PollApplied, PollLost
  <2> QED BY <2>2, <2>3, <2>4, ConsoleTold
<1> QED BY <1>1, <1>2, <1>3

LEMMA FeedNextTold == IInv /\ [FeedNext]_allVars => IInv'
<1> SUFFICES ASSUME IInv, [FeedNext]_allVars PROVE IInv'
  OBVIOUS
<1>1. CASE UNCHANGED allVars
  BY <1>1, ConsoleTold DEF allVars, feedVars, IInv, FeedInv, FeedTypeOK
<1> QED BY <1>1, PresenceTold, HelloTold, JoinTold, ListedTold, DownTold, PageTold DEF FeedNext

(* Without Redis the snapshot of the hello and the broadcasts that follow  *)
(* it always add up to who is online, on every console.                    *)
THEOREM FeedInvariant == FeedSpec => []FeedInv
<1>1. FeedInit => IInv
  BY InitFeed
<1>2. IInv /\ [FeedNext]_allVars => IInv'
  BY FeedNextTold
<1>3. IInv => FeedInv
  BY DEF IInv
<1> QED BY <1>1, <1>2, <1>3, PTL DEF FeedSpec

-----------------------------------------------------------------------------
(* The list. What a request has read, and who is to be erased, is known.       *)
Request ==
  [at: {"none", "asked"}] \cup [at: {"read"}, rows: Lists]
Erasing == [at: {"none"}] \cup [at: {"asked", "done"}, pax: Passengers]

ListIInv ==
  /\ rows \in [Passengers -> Records \cup {Nobody}]
  /\ roster \in Lists \cup {Nobody}
  /\ fetch \in [Fetches -> Request]
  /\ erasing \in Erasing
  /\ conv \in Passengers \cup {Nobody}

LEMMA RequestTypes ==
  /\ NoFetch \in Request /\ [at |-> "asked"] \in Request
  /\ \A l \in Lists: [at |-> "read", rows |-> l] \in Request
  /\ \A q \in Request: q.at = "read" => q.rows \in Lists
  /\ \A q \in Request: q.at \in {"none", "asked", "read"}
BY DEF Request, NoFetch

LEMMA ErasingTypes ==
  /\ NotErasing \in Erasing
  /\ \A p \in Passengers: [at |-> "asked", pax |-> p] \in Erasing
  /\ \A e \in Erasing: e.at # "none" => e.pax \in Passengers /\ [e EXCEPT !.at = "done"] \in Erasing
  /\ \A e \in Erasing: e.at \in {"none", "asked", "done"}
<1>1. ASSUME NEW e \in Erasing, e.at # "none"
      PROVE  e.pax \in Passengers /\ [e EXCEPT !.at = "done"] \in Erasing
  <2>1. e \in [at: {"asked", "done"}, pax: Passengers]
    BY <1>1 DEF Erasing
  <2> QED BY <2>1 DEF Erasing
<1> QED BY <1>1 DEF Erasing, NotErasing

LEMMA ListTypes ==
  /\ Nothing \in Lists
  /\ \A S \in SUBSET Passengers: \A l \in [S -> Records]: l \in Lists
  /\ \A l \in Lists: /\ DOMAIN l \in SUBSET Passengers
                     /\ \A p \in DOMAIN l: l[p] \in Records
<1>1. Nothing \in [{} -> Records]
  BY DEF Nothing
<1>2. \A S \in SUBSET Passengers: \A l \in [S -> Records]: l \in Lists
  BY DEF Lists
<1>3. \A l \in Lists: DOMAIN l \in SUBSET Passengers /\ \A p \in DOMAIN l: l[p] \in Records
  BY DEF Lists
<1> QED BY <1>1, <1>2, <1>3

LEMMA FetchSteps ==
  ASSUME ListIInv, NEW f \in Fetches,
         PollRoster(f) \/ RosterRead(f) \/ RosterArrives(f) \/ RosterFails(f)
  PROVE  ListIInv'
<1>1. UNCHANGED <<rows, erasing, conv>>
  BY DEF PollRoster, RosterRead, RosterArrives, RosterFails
<1>2. fetch \in [Fetches -> Request] /\ fetch[f] \in Request
  BY DEF ListIInv
<1>3. fetch' \in [Fetches -> Request]
  <2>1. CASE PollRoster(f)
    BY <1>2, <2>1, RequestTypes DEF PollRoster, Asking
  <2>2. CASE RosterRead(f)
    <3> DEFINE l == [p \in Present |-> rows[p]]
    <3>1. Present \in SUBSET Passengers /\ l \in [Present -> Records]
      BY DEF Present, ListIInv
    <3>2. l \in Lists
      BY <3>1, ListTypes
    <3>3. fetch' = [fetch EXCEPT ![f] = [at |-> "read", rows |-> l]]
      BY <2>2 DEF RosterRead
    <3> HIDE DEF l
    <3> QED BY <1>2, <3>2, <3>3, RequestTypes
  <2>3. CASE RosterArrives(f)
    BY <1>2, <2>3, RequestTypes DEF RosterArrives
  <2>4. CASE RosterFails(f)
    BY <1>2, <2>4, RequestTypes DEF RosterFails
  <2> QED BY <2>1, <2>2, <2>3, <2>4
<1>4. roster' \in Lists \cup {Nobody}
  BY <1>2, RequestTypes, ListTypes DEF ListIInv, PollRoster, RosterRead, RosterArrives, RosterFails
<1> QED BY <1>1, <1>3, <1>4 DEF ListIInv

LEMMA EraseSteps ==
  ASSUME ListIInv, (\E p \in Passengers: PressErase(p)) \/ ServeErase \/ EraseDone \/ EraseFails
  PROVE  ListIInv'
<1>1. ASSUME NEW p \in Passengers, PressErase(p) PROVE ListIInv'
  BY <1>1, ErasingTypes DEF ListIInv, PressErase
<1>2. ASSUME ServeErase PROVE ListIInv'
  <2>1. erasing \in Erasing /\ erasing.at # "none"
    BY <1>2 DEF ListIInv, ServeErase
  <2> QED BY <1>2, <2>1, ErasingTypes DEF ListIInv, ServeErase
<1>3. ASSUME EraseDone PROVE ListIInv'
  <2>1. roster' \in Lists \cup {Nobody}
    <3>1. CASE roster = Nobody
      BY <1>3, <3>1 DEF EraseDone
    <3>2. CASE roster # Nobody
      <4> DEFINE S == DOMAIN roster \ {erasing.pax}
      <4>1. roster \in Lists /\ roster' = [p \in S |-> roster[p]]
        BY <1>3, <3>2 DEF EraseDone, ListIInv
      <4>2. S \in SUBSET Passengers /\ \A p \in S: roster[p] \in Records
        BY <4>1, ListTypes
      <4>3. [p \in S |-> roster[p]] \in [S -> Records]
        BY <4>2
      <4> HIDE DEF S
      <4> QED BY <4>1, <4>2, <4>3, ListTypes
    <3> QED BY <3>1, <3>2
  <2>2. PICK f \in FreeFetch: Asking(f)
    BY <1>3 DEF EraseDone
  <2>3. fetch' \in [Fetches -> Request]
    BY <2>2, RequestTypes DEF Asking, FreeFetch, ListIInv
  <2> QED BY <1>3, <2>1, <2>3, ErasingTypes DEF ListIInv, EraseDone
<1>4. ASSUME EraseFails PROVE ListIInv'
  BY <1>4, ErasingTypes DEF ListIInv, EraseFails
<1> QED BY <1>1, <1>2, <1>3, <1>4

LEMMA PanelSteps ==
  ASSUME ListIInv,
         \/ CloseConversation
         \/ \E p \in Passengers: Converse(p) \/ \E r \in Records \cup {Nobody}: RowBecomes(p, r)
  PROVE  ListIInv'
BY DEF ListIInv, CloseConversation, Converse, RowBecomes

(* What is shown of one row, whatever was reported of its passenger.           *)
Fits(d, row, on, sends) ==
  /\ (on \/ sends) => d.ext # "offline" /\ (row.beacon => d.ext # "lost")
  /\ row.beacon /\ ~on /\ ~sends => d.ext = "lost"
  /\ d.ext # row.ext /\ d.ext # "lost" => d.status \in {d.ext, "gray"}

LEMMA ReportsPrevailAlways == ReportsPrevail
<1> SUFFICES ASSUME NEW row \in Row, NEW on \in BOOLEAN, NEW sends \in BOOLEAN
             PROVE  Fits(Display(row, on, sends), row, on, sends)
  BY DEF ReportsPrevail, Fits
<1> DEFINE d == Display(row, on, sends)
<1>1. /\ row.pace \in {"green", "yellow", "red", "gray"} /\ row.ext \in ExtStatus
      /\ row.beacon \in BOOLEAN
  BY DEF Row
<1>2. CASE row.beacon /\ ~on /\ ~sends
  <2>1. d.ext = "lost"
    BY <1>2 DEF Display
  <2> QED BY <1>2, <2>1 DEF Fits
<1>3. CASE ~(row.beacon /\ ~on /\ ~sends) /\ Recovers(row, on, sends)
  <2>1. d.ext = (IF row.pace = "gray" THEN "yellow" ELSE row.pace) /\ d.status = row.pace
    BY <1>3 DEF Display
  <2> QED BY <1>1, <1>3, <2>1 DEF Fits
<1>4. CASE ~(row.beacon /\ ~on /\ ~sends) /\ ~Recovers(row, on, sends)
  <2>1. d.ext = row.ext
    BY <1>4 DEF Display
  <2> QED BY <1>4, <2>1 DEF Recovers, Fits
<1> QED BY <1>2, <1>3, <1>4

(* The list of those who need action, of any length: one whose signal is lost  *)
(* is left out only when it is full of those.                                  *)
LEMMA UrgentFirstAlways == UrgentFirst
<1> SUFFICES ASSUME NEW l \in Lists, NEW heard \in SUBSET Passengers,
                    NEW S \in PriorityLists(l, heard)
             PROVE  /\ Cardinality(S) <= MaxUrgent
                    /\ \A p \in DOMAIN l \ S: Shown(l, heard, p) = "lost" =>
                         Cardinality({q \in S: Shown(l, heard, q) = "lost"}) = MaxUrgent
  BY DEF UrgentFirst
<1> DEFINE all == {p \in DOMAIN l: NeedsAction(l, heard, p)}
           size == IF Cardinality(all) < MaxUrgent THEN Cardinality(all) ELSE MaxUrgent
<1>1. /\ S \subseteq all /\ Cardinality(S) = size
      /\ \A p \in S, q \in all \ S: Rank(l, heard, p) <= Rank(l, heard, q)
  BY DEF PriorityLists
<1>2. all \subseteq Passengers
  BY ListTypes
<1>3. IsFiniteSet(all) /\ Cardinality(all) \in Nat /\ MaxUrgent \in Nat
  BY <1>2, ConsoleAssumption, FS_Subset, FS_CardinalityType
<1>4. Cardinality(S) <= MaxUrgent
  BY <1>1, <1>3
<1>5. ASSUME NEW p \in DOMAIN l \ S, Shown(l, heard, p) = "lost"
      PROVE  Cardinality({q \in S: Shown(l, heard, q) = "lost"}) = MaxUrgent
  <2>1. p \in all \ S
    BY <1>5 DEF NeedsAction
  <2>2. Rank(l, heard, p) = 0
    BY <1>5 DEF Rank
  <2>3. ASSUME NEW q \in S PROVE Shown(l, heard, q) = "lost"
    <3>1. Rank(l, heard, q) <= 0
      BY <1>1, <2>1, <2>2, <2>3
    <3> QED BY <3>1 DEF Rank
  <2>4. {q \in S: Shown(l, heard, q) = "lost"} = S
    BY <2>3
  <2>5. S # all
    BY <2>1
  <2> HIDE DEF all
  <2>6. Cardinality(S) # Cardinality(all)
    BY <1>1, <1>3, <2>5, FS_Subset
  <2>7. Cardinality(S) = MaxUrgent
    BY <1>1, <1>3, <2>6
  <2> QED BY <2>4, <2>7
<1> QED BY <1>4, <1>5

LEMMA ListInductive ==
  /\ ConsoleInit => ListIInv
  /\ ListIInv /\ [ConsoleNext]_consoleVars => ListIInv'
  /\ ListIInv => ConsoleInv
<1>1. ConsoleInit => ListIInv
  BY RequestTypes, ErasingTypes DEF ConsoleInit, ListIInv
<1>2. ListIInv /\ [ConsoleNext]_consoleVars => ListIInv'
  <2> SUFFICES ASSUME ListIInv, [ConsoleNext]_consoleVars PROVE ListIInv'
    OBVIOUS
  <2>1. CASE UNCHANGED consoleVars
    BY <2>1 DEF consoleVars, ListIInv
  <2> QED BY <2>1, FetchSteps, EraseSteps, PanelSteps DEF ConsoleNext
<1>3. ListIInv => ConsoleTypeOK
  BY RequestTypes, ErasingTypes DEF ListIInv, ConsoleTypeOK
<1> QED BY <1>1, <1>2, <1>3, ReportsPrevailAlways, UrgentFirstAlways DEF ConsoleInv

-----------------------------------------------------------------------------
(* The map. On the page it always shows what is to be shown, and nothing is    *)
(* ever due.                                                                   *)
Choices == [picked: Travellers \cup {NoOne}, mode: {"single", "urgent"}, sought: SUBSET Travellers]
Views == [spots: Spots, picked: Travellers \cup {NoOne}]
Cameras == [of: Travellers \cup {NoOne}, at: Places \cup {NoOne}, byHand: BOOLEAN]

OnPage == kind = "page" => sent = Current /\ ~due
MapIInv == MapTypeOK /\ OnPage /\ UpToDateOrDue /\ CameraWithPicked

LEMMA SpotTypes ==
  /\ NoSpots \in Spots /\ DOMAIN NoSpots = {}
  /\ \A S \in SUBSET Travellers: \A l \in [S -> Places]: l \in Spots
  /\ \A l \in Spots: DOMAIN l \in SUBSET Travellers /\ \A p \in DOMAIN l: l[p] \in Places
<1>1. NoSpots \in [{} -> Places] /\ DOMAIN NoSpots = {}
  BY DEF NoSpots
<1>2. \A S \in SUBSET Travellers: \A l \in [S -> Places]: l \in Spots
  BY DEF Spots
<1>3. \A l \in Spots: DOMAIN l \in SUBSET Travellers /\ \A p \in DOMAIN l: l[p] \in Places
  BY DEF Spots
<1> QED BY <1>1, <1>2, <1>3

LEMMA ShowsType ==
  ASSUME NEW l \in Spots, NEW v \in SUBSET Travellers, NEW c \in Choices
  PROVE  /\ Shows(l, v, c) \in Views /\ Shows(l, v, c).picked = c.picked
         /\ DOMAIN Shows(l, v, c).spots \subseteq DOMAIN l
<1> DEFINE M == Marked(l, v, c)
           show == [p \in M |-> l[p]]
<1>1. M \subseteq DOMAIN l
  BY DEF Marked
<1>2. M \in SUBSET Travellers /\ show \in [M -> Places]
  BY <1>1, SpotTypes
<1>3. show \in Spots /\ DOMAIN show = M
  BY <1>2, SpotTypes
<1>4. Shows(l, v, c) = [spots |-> show, picked |-> c.picked]
  BY DEF Shows
<1>5. c.picked \in Travellers \cup {NoOne}
  BY DEF Choices
<1> HIDE DEF M, show
<1> QED BY <1>1, <1>3, <1>4, <1>5 DEF Views

(* Where the camera goes when the map on the page is drawn.                    *)
With(cam, show) ==
  /\ show.picked \in DOMAIN show.spots =>
       cam.of = show.picked /\ cam.at = show.spots[show.picked]
  /\ show.picked = NoOne => cam.of = NoOne

LEMMA FollowType ==
  ASSUME MapTypeOK, NEW show \in Views
  PROVE  Follow(show) \in Cameras /\ With(Follow(show), show)
<1> DEFINE p == show.picked
<1>1. p \in Travellers \cup {NoOne} /\ show.spots \in Spots
  BY DEF Views
<1>2. DOMAIN show.spots \subseteq Travellers /\ \A q \in DOMAIN show.spots: show.spots[q] \in Places
  BY <1>1, SpotTypes
<1>3. NoOne \notin DOMAIN show.spots /\ camera \in Cameras
  BY <1>2, MapAssumption DEF MapTypeOK, Cameras
<1>4. Still \in Cameras /\ Still.of = NoOne
  BY DEF Still, Cameras
<1>5. CASE p = NoOne
  <2>1. Follow(show) = Still
    BY <1>5 DEF Follow
  <2> QED BY <1>3, <1>4, <1>5, <2>1 DEF With
<1>6. CASE p # NoOne /\ p \notin DOMAIN show.spots
  <2>1. Follow(show) = camera
    BY <1>6 DEF Follow
  <2> QED BY <1>3, <1>6, <2>1 DEF With
<1>7. CASE p # NoOne /\ p \in DOMAIN show.spots
  <2> DEFINE new == [of |-> p, at |-> show.spots[p], byHand |-> FALSE]
  <2>1. Follow(show) = IF camera.of = p /\ camera.at = show.spots[p] THEN camera ELSE new
    BY <1>7 DEF Follow
  <2>2. new \in Cameras /\ new.of = p /\ new.at = show.spots[p]
    BY <1>1, <1>2, <1>7 DEF Cameras
  <2> HIDE DEF new
  <2>3. Follow(show) \in Cameras
    BY <1>3, <2>1, <2>2
  <2>4. Follow(show).of = p /\ Follow(show).at = show.spots[p]
    BY <2>1, <2>2
  <2> QED BY <1>7, <2>3, <2>4 DEF With
<1> QED BY <1>5, <1>6, <1>7

(* Whatever is rendered.                                                       *)
LEMMA RendersStep ==
  ASSUME MapIInv, NEW l \in Spots, NEW v \in SUBSET Travellers, NEW c \in Choices,
         Renders(l, v, c), onList' = l, live' = v, choice' = c,
         UNCHANGED <<kind, airport, gates, gateMark>>
  PROVE  MapIInv'
<1>1. MapTypeOK
  BY DEF MapIInv
<1> DEFINE show == Shows(l, v, c)
<1>2. show \in Views /\ show.picked = c.picked
  BY ShowsType
<1>3. Current' = show
  BY DEF Current
<1>4. CASE kind = "page"
  <2>1. sent' = show /\ camera' = Follow(show) /\ UNCHANGED <<due, loaded>>
    BY <1>4 DEF Renders
  <2> HIDE DEF show
  <2>2. camera' \in Cameras /\ With(camera', show)
    BY <1>1, <1>2, <2>1, FollowType
  <2>3. MapTypeOK'
    BY <1>1, <1>2, <2>1, <2>2 DEF MapTypeOK, Views, Choices, Cameras
  <2>4. OnPage' /\ UpToDateOrDue'
    BY <1>3, <1>4, <2>1 DEF MapIInv, OnPage, UpToDateOrDue
  <2>5. CameraWithPicked'
    BY <1>2, <2>1, <2>2 DEF CameraWithPicked, With
  <2> QED BY <2>3, <2>4, <2>5 DEF MapIInv
<1>5. CASE kind # "page"
  <2>1. due' = TRUE /\ UNCHANGED <<sent, loaded, camera>> /\ kind = "frame"
    BY <1>1, <1>5 DEF Renders, MapTypeOK
  <2>2. MapTypeOK'
    BY <1>1, <2>1 DEF MapTypeOK, Choices
  <2> QED BY <2>1, <2>2 DEF MapIInv, OnPage, UpToDateOrDue, CameraWithPicked
<1> QED BY <1>4, <1>5

LEMMA ChooseSteps ==
  ASSUME MapIInv,
         \/ \E l \in Spots: ListBecomes(l)
         \/ \E S \in SUBSET Travellers: ReportsBecome(S) \/ SearchFor(S)
         \/ \E m \in {"single", "urgent"}: ShowMode(m)
         \/ \E p \in Travellers: PickTraveller(p)
  PROVE  MapIInv'
<1>1. onList \in Spots /\ live \in SUBSET Travellers /\ choice \in Choices
  BY DEF MapIInv, MapTypeOK, Choices
<1>2. ASSUME NEW l \in Spots, ListBecomes(l) PROVE MapIInv'
  BY <1>1, <1>2, RendersStep DEF ListBecomes
<1>3. ASSUME NEW S \in SUBSET Travellers, ReportsBecome(S) PROVE MapIInv'
  BY <1>1, <1>3, RendersStep DEF ReportsBecome
<1>4. ASSUME NEW S \in SUBSET Travellers, SearchFor(S) PROVE MapIInv'
  <2> DEFINE c == [choice EXCEPT !.sought = S]
  <2>1. c \in Choices
    BY <1>1 DEF Choices
  <2>2. choice' = c /\ Renders(onList, live, c) /\ UNCHANGED <<kind, airport, gates, onList, live, gateMark>>
    BY <1>4 DEF SearchFor
  <2> HIDE DEF c
  <2> QED BY <1>1, <2>1, <2>2, RendersStep
<1>5. ASSUME NEW m \in {"single", "urgent"}, ShowMode(m) PROVE MapIInv'
  <2> DEFINE c == [choice EXCEPT !.mode = m, !.picked = NoOne]
  <2>1. c \in Choices
    BY <1>1 DEF Choices
  <2>2. choice' = c /\ Renders(onList, live, c) /\ UNCHANGED <<kind, airport, gates, onList, live, gateMark>>
    BY <1>5 DEF ShowMode
  <2> HIDE DEF c
  <2> QED BY <1>1, <2>1, <2>2, RendersStep
<1>6. ASSUME NEW p \in Travellers, PickTraveller(p) PROVE MapIInv'
  <2> DEFINE c == [choice EXCEPT !.mode = "single", !.picked = p]
  <2>1. c \in Choices
    BY <1>1 DEF Choices
  <2>2. choice' = c /\ Renders(onList, live, c) /\ UNCHANGED <<kind, airport, gates, onList, live, gateMark>>
    BY <1>6 DEF PickTraveller
  <2> HIDE DEF c
  <2> QED BY <1>1, <2>1, <2>2, RendersStep
<1> QED BY <1>2, <1>3, <1>4, <1>5, <1>6

(* The frame is sent messages; the camera is moved by hand; gates load.        *)
LEMMA FrameSteps ==
  ASSUME MapIInv, PushDue \/ TabShown \/ FrameLoads \/ GatesLoad \/ DragMap
  PROVE  MapIInv'
<1>1. MapTypeOK /\ UNCHANGED <<kind, airport, onList, live, choice>>
  BY DEF MapIInv, PushDue, TabShown, FrameLoads, GatesLoad, DragMap
<1>2. Current' = Current /\ Current \in Views
  BY <1>1, ShowsType DEF Current, MapTypeOK, Choices
<1>3. ASSUME PushDue \/ TabShown \/ FrameLoads PROVE MapIInv'
  <2>1. /\ kind = "frame" /\ sent' \in {sent, Current} /\ due' \in BOOLEAN /\ loaded' \in BOOLEAN
        /\ UNCHANGED <<gates, gateMark, camera>>
    BY <1>1, <1>3 DEF PushDue, TabShown, FrameLoads, MapIInv, MapTypeOK, OnPage
  <2>2. UpToDateOrDue'
    BY <1>1, <1>2, <1>3, <2>1 DEF PushDue, TabShown, FrameLoads, UpToDateOrDue, MapTypeOK
  <2>3. sent' \in Views
    BY <1>1, <1>2, <2>1 DEF MapTypeOK, Views
  <2>4. MapTypeOK'
    BY <1>1, <2>1, <2>3 DEF MapTypeOK, Views
  <2> QED BY <1>1, <2>1, <2>2, <2>4 DEF MapIInv, OnPage, CameraWithPicked
<1>4. ASSUME GatesLoad PROVE MapIInv'
  <2>1. /\ gates' \in Fields /\ gateMark' \in Fields \cup {NoOne}
        /\ UNCHANGED <<sent, due, loaded, camera>>
    BY <1>1, <1>4 DEF GatesLoad, MapTypeOK
  <2>2. MapTypeOK'
    BY <1>1, <2>1 DEF MapTypeOK
  <2> QED BY <1>1, <1>2, <2>1, <2>2 DEF MapIInv, OnPage, UpToDateOrDue, CameraWithPicked
<1>5. ASSUME DragMap PROVE MapIInv'
  <2>1. camera' = [camera EXCEPT !.byHand = TRUE] /\ camera \in Cameras
        /\ UNCHANGED <<gates, sent, due, loaded, gateMark>>
    BY <1>1, <1>5 DEF DragMap, MapTypeOK, Cameras
  <2>2. camera' \in Cameras /\ camera'.of = camera.of /\ camera'.at = camera.at
    BY <2>1 DEF Cameras
  <2>3. MapTypeOK'
    BY <1>1, <2>1, <2>2 DEF MapTypeOK, Cameras
  <2> QED BY <1>1, <1>2, <2>1, <2>2, <2>3 DEF MapIInv, OnPage, UpToDateOrDue, CameraWithPicked
<1> QED BY <1>3, <1>4, <1>5

LEMMA AirportStep == ASSUME MapIInv, NEW f \in Fields, SelectAirport(f) PROVE MapIInv'
<1>1. /\ MapTypeOK /\ airport' = f
      /\ UNCHANGED <<kind, gates, onList, live, choice>>
  BY DEF MapIInv, SelectAirport
<1>2. /\ Current' = Current /\ Current \in Views /\ Current.picked = choice.picked
  BY <1>1, ShowsType DEF Current, MapTypeOK, Choices
<1>3. CASE kind = "frame"
  <2>1. /\ sent' = Blank /\ loaded' = FALSE /\ due' = TRUE /\ UNCHANGED <<gateMark, camera>>
    BY <1>3 DEF SelectAirport
  <2>2. Blank \in Views
    BY SpotTypes DEF Blank, Views
  <2>3. MapTypeOK'
    BY <1>1, <2>1, <2>2 DEF MapTypeOK, Views
  <2> QED BY <1>1, <1>3, <2>1, <2>3 DEF MapIInv, OnPage, UpToDateOrDue, CameraWithPicked
<1>4. CASE kind # "frame"
  <2> DEFINE show == Current
             p == choice.picked
             new == [of |-> p, at |-> show.spots[p], byHand |-> FALSE]
  <2>1. /\ gateMark' = gates /\ sent' = show /\ UNCHANGED <<loaded, due>> /\ kind = "page"
        /\ camera' = IF p \in DOMAIN show.spots THEN new ELSE Still
    BY <1>1, <1>4 DEF SelectAirport, MapTypeOK
  <2>2. show.spots \in Spots /\ p \in Travellers \cup {NoOne}
    BY <1>1, <1>2 DEF Views, MapTypeOK
  <2>3. DOMAIN show.spots \subseteq Travellers /\ \A q \in DOMAIN show.spots: show.spots[q] \in Places
    BY <2>2, SpotTypes
  <2> HIDE DEF show, p
  <2>4. /\ p \in DOMAIN show.spots => new \in Cameras /\ new.of = p /\ new.at = show.spots[p]
        /\ Still \in Cameras /\ Still.of = NoOne /\ NoOne \notin DOMAIN show.spots
    BY <2>2, <2>3, MapAssumption DEF Cameras, Still
  <2> HIDE DEF new
  <2>5. /\ camera' \in Cameras
        /\ p \in DOMAIN show.spots => camera'.of = p /\ camera'.at = show.spots[p]
        /\ p = NoOne => camera'.of = NoOne
    BY <2>1, <2>4
  <2>6. MapTypeOK'
    BY <1>1, <1>2, <2>1, <2>5 DEF MapTypeOK, Views, Cameras, show
  <2>7. CameraWithPicked'
    BY <1>1, <2>1, <2>5 DEF CameraWithPicked, p
  <2>8. OnPage' /\ UpToDateOrDue'
    BY <1>1, <1>2, <2>1 DEF MapIInv, OnPage, UpToDateOrDue, show
  <2> QED BY <2>6, <2>7, <2>8 DEF MapIInv
<1> QED BY <1>3, <1>4

LEMMA MapInductive ==
  /\ MapInit => MapIInv
  /\ MapIInv /\ [MapNext]_mapVars => MapIInv'
  /\ MapIInv => MapInv
<1>1. MapInit => MapIInv
  <2> SUFFICES ASSUME MapInit PROVE MapIInv
    OBVIOUS
  <2>1. onList \in Spots /\ live \in SUBSET Travellers /\ choice \in Choices
    BY SpotTypes DEF MapInit, Choices
  <2>2. Blank \in Views /\ Still \in Cameras /\ Still.of = NoOne
    BY SpotTypes DEF Blank, Views, Still, Cameras
  <2>3. MapTypeOK
    BY <2>1, <2>2 DEF MapInit, MapTypeOK, Choices, Views, Cameras
  <2>4. Current = Blank
    <3>1. Marked(onList, live, choice) = {}
      BY SpotTypes DEF MapInit, Marked
    <3>2. [p \in Marked(onList, live, choice) |-> onList[p]] = NoSpots
      BY <3>1 DEF NoSpots
    <3> QED BY <3>2 DEF Current, Shows, Blank, MapInit
  <2>5. OnPage /\ UpToDateOrDue
    BY <2>4 DEF MapInit, OnPage, UpToDateOrDue
  <2>6. CameraWithPicked
    BY <2>2, SpotTypes DEF MapInit, CameraWithPicked, Blank
  <2> QED BY <2>3, <2>5, <2>6 DEF MapIInv
<1>2. MapIInv /\ [MapNext]_mapVars => MapIInv'
  <2> SUFFICES ASSUME MapIInv, [MapNext]_mapVars PROVE MapIInv'
    OBVIOUS
  <2>1. CASE UNCHANGED mapVars
    <3>1. UNCHANGED <<kind, airport, gates, onList, live, choice, sent, due, loaded, gateMark, camera>>
      BY <2>1 DEF mapVars
    <3>2. Current' = Current
      BY <3>1 DEF Current
    <3> QED BY <3>1, <3>2 DEF MapIInv, MapTypeOK, OnPage, UpToDateOrDue, CameraWithPicked
  <2> QED BY <2>1, ChooseSteps, FrameSteps, AirportStep DEF MapNext
<1>3. MapIInv => MapInv
  <2> SUFFICES ASSUME MapIInv PROVE OnlyListed
    BY DEF MapIInv, MapInv
  <2> QED BY ShowsType DEF OnlyListed, Current, MapIInv, MapTypeOK, Choices
<1> QED BY <1>1, <1>2, <1>3

(* The system the run checks: the list or the map moves, or neither.           *)
LEMMA BoardInductive ==
  /\ BoardInit => ListIInv /\ MapIInv
  /\ ListIInv /\ MapIInv /\ [InFeed(FeedNext) \/ InList(ConsoleNext) \/ InMap(MapNext)]_boardVars
       => ListIInv' /\ MapIInv'
<1>1. BoardInit => ListIInv /\ MapIInv
  <2> SUFFICES ASSUME BoardInit PROVE ListIInv /\ MapIInv
    OBVIOUS
  <2>1. CASE focus = "list"
    BY <2>1, ListInductive, MapInductive DEF BoardInit
  <2>2. CASE focus # "list"
    <3>1. /\ rows = [p \in Passengers |-> Nobody] /\ roster = Nothing
          /\ fetch = [f \in Fetches |-> NoFetch] /\ erasing = NotErasing /\ conv = Nobody
      BY <2>2 DEF BoardInit, Nothing
    <3>2. ListIInv
      BY <3>1, RequestTypes, ErasingTypes, ListTypes DEF ListIInv
    <3> QED BY <3>2, MapInductive DEF BoardInit
  <2> QED BY <2>1, <2>2
<1>2. [InFeed(FeedNext) \/ InList(ConsoleNext) \/ InMap(MapNext)]_boardVars
        => [ConsoleNext]_consoleVars /\ [MapNext]_mapVars
  BY DEF InFeed, InList, InMap, boardVars
<1> QED BY <1>1, <1>2, ListInductive, MapInductive

(* For any number of passengers and of requests for the list, and however long *)
(* the list of those who need action is: nobody who reports is shown away, who *)
(* is lost is left out of that list only if it is full of them, and the map is *)
(* up to date or about to be, its camera with the passenger picked.            *)
THEOREM BoardInvariant == BoardSpec => []BoardInv
<1>1. BoardInit /\ [][InFeed(FeedNext) \/ InList(ConsoleNext) \/ InMap(MapNext)]_boardVars
        => [](ListIInv /\ MapIInv)
  BY BoardInductive, PTL
<1>2. ListIInv /\ MapIInv => BoardInv
  BY ListInductive, MapInductive DEF BoardInv
<1> QED BY <1>1, <1>2, PTL DEF BoardSpec
=============================================================================
