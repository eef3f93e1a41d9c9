----------------------------- MODULE AdminFeed -----------------------------
(***************************************************************************)
(* What the consoles see of passenger presence.  The hub's presence is     *)
(* taken from PresencePromise, which PaxPresence is shown to implement;    *)
(* added here are the admin half of the hello handler of hub/wsHub.ts,     *)
(* broadcastAdmins and listOnlineGlobal of hub/HubStore.ts, the            *)
(* GET /admin-presence route, and the reader of both in the console        *)
(* (services/realtime.ts, features/passengers/useDashboard.ts): frames of  *)
(* a connection, and an HTTP poll every four seconds whose answers may     *)
(* arrive in any order.                                                    *)
(***************************************************************************)
EXTENDS PresencePromise, Naturals, Sequences

CONSTANTS
  Admins,           \* consoles
  Polls,            \* polls of one console that may be under way at once
  MaxQueue          \* bound of the model: frames under way to a console

ASSUME FeedAssumption == MaxQueue \in Nat

VARIABLES
  redis,            \* attachCluster was given Redis: listing who is online awaits
  conn,             \* state of a console's connection
  listed,           \* who is online, as read before the await
  queue,            \* frames written to the connection and not yet read
  told,             \* history: the state all frames of the connection add up to
  poll,             \* polls under way
  view,             \* `presence` of the console: who is displayed online
  ready             \* pekPoiReady of the console

feedVars == <<redis, conn, listed, queue, told, poll, view, ready>>
allVars == <<pvars, feedVars>>

Frame == [pids : SUBSET Pax, online : BOOLEAN]
Poll == [st : {"idle", "asked", "served"}, list : SUBSET Pax]
Idle == [st |-> "idle", list |-> {}]

FeedTypeOK ==
  /\ connected \subseteq Pax /\ online \subseteq Pax /\ grace \subseteq Pax
  /\ redis \in BOOLEAN
  /\ conn \in [Admins -> {"down", "verify", "listing", "live"}]
  /\ listed \in [Admins -> SUBSET Pax]
  /\ queue \in [Admins -> Seq(Frame)]
  /\ \A a \in Admins : Len(queue[a]) <= MaxQueue
  /\ told \in [Admins -> SUBSET Pax]
  /\ poll \in [Admins -> [Polls -> Poll]]
  /\ view \in [Admins -> SUBSET Pax]
  /\ ready \in [Admins -> BOOLEAN]

FeedInit ==
  /\ PromiseInit
  /\ redis \in BOOLEAN
  /\ conn = [a \in Admins |-> "down"]
  /\ listed = [a \in Admins |-> {}]
  /\ queue = [a \in Admins |-> <<>>]
  /\ told = [a \in Admins |-> {}]
  /\ poll = [a \in Admins |-> [i \in Polls |-> Idle]]
  /\ view = [a \in Admins |-> {}]
  /\ ready = [a \in Admins |-> FALSE]

(* The effect of a presence frame on a set of passengers                   *)
Apply(f, S) == IF f.online THEN S \cup f.pids ELSE S \ f.pids

Room(a, n) == Len(queue[a]) + n <= MaxQueue

-----------------------------------------------------------------------------
(* The hub                                                                 *)

InSet(a) == conn[a] \in {"listing", "live"}     \* a is in adminSockets, and open

(* broadcastAdmins: frames about one passenger, all with its new state     *)
Broadcast(p, n) ==
  LET f == [pids |-> {p}, online |-> p \in online'] IN
  /\ queue' = [a \in Admins |-> IF InSet(a) THEN queue[a] \o [i \in 1..n |-> f]
                                            ELSE queue[a]]
  /\ told' = [a \in Admins |-> IF InSet(a) /\ n > 0 THEN Apply(f, told[a])
                                                    ELSE told[a]]

(* Seeded fault: setPresence broadcasts arrivals only                      *)
ChangedToOnline(p) == p \notin online /\ p \in online'

(* setPresence broadcasts when, and only when, the state changes           *)
Changed(p) == (p \in online) # (p \in online')

(* A step of the hub's presence and its broadcast.  The hello handler      *)
(* repeats the frame (again) when the passenger was online as it began.    *)
PresenceStep(p) ==
  /\ \A a \in Admins : Room(a, 2)
  /\ \/ /\ Leave(p) \/ Vouch(p) \/ Withdraw(p) \/ Expire(p)
        /\ Broadcast(p, IF Changed(p) THEN 1 ELSE 0)
     \/ \E again \in {0, 1} :
          /\ Arrive(p)
          /\ Broadcast(p, again + (IF Changed(p) THEN 1 ELSE 0))
  /\ UNCHANGED <<redis, conn, listed, poll, view, ready>>

(* The console's connection opens and it says hello                        *)
AdminHello(a) ==
  /\ conn[a] = "down"
  /\ conn' = [conn EXCEPT ![a] = "verify"]
  /\ queue' = [queue EXCEPT ![a] = <<>>]
  /\ told' = [told EXCEPT ![a] = {}]
  /\ UNCHANGED <<redis, pvars, listed, poll, view, ready>>

(* The snapshot: one online frame per passenger listed                     *)
Snapshot(a, S) ==
  LET f == [pids |-> S, online |-> TRUE] IN
  /\ Room(a, 1)
  /\ queue' = [queue EXCEPT ![a] = Append(@, f)]
  /\ told' = [told EXCEPT ![a] = Apply(f, @)]

(* Verified: the connection joins the set, then the list is read.  Without *)
(* Redis nothing else can run before the snapshot is written.              *)
AdminJoin(a) ==
  /\ conn[a] = "verify"
  /\ IF redis
       THEN /\ conn' = [conn EXCEPT ![a] = "listing"]
            /\ listed' = [listed EXCEPT ![a] = online]
            /\ UNCHANGED <<queue, told>>
       ELSE /\ conn' = [conn EXCEPT ![a] = "live"]
            /\ Snapshot(a, online)
            /\ UNCHANGED listed
  /\ UNCHANGED <<redis, pvars, poll, view, ready>>

(* The await of zrangebyscore ends (or fails: the local list stands)       *)
AdminListed(a) ==
  /\ conn[a] = "listing"
  /\ conn' = [conn EXCEPT ![a] = "live"]
  /\ Snapshot(a, listed[a])
  /\ listed' = [listed EXCEPT ![a] = {}]
  /\ UNCHANGED <<redis, pvars, poll, view, ready>>

(* Refused, timed out or cut: frames under way are lost, the page keeps    *)
(* what it displays                                                        *)
AdminDown(a) ==
  /\ conn[a] # "down"
  /\ conn' = [conn EXCEPT ![a] = "down"]
  /\ queue' = [queue EXCEPT ![a] = <<>>]
  /\ listed' = [listed EXCEPT ![a] = {}]
  /\ UNCHANGED <<redis, pvars, told, poll, view, ready>>

(* GET /admin-presence is served: the list as of now                       *)
PollServed(a, i) ==
  /\ poll[a][i].st = "asked"
  /\ poll' = [poll EXCEPT ![a][i] = [st |-> "served", list |-> online]]
  /\ UNCHANGED <<redis, pvars, conn, listed, queue, told, view, ready>>

(* The process restarts; requests it had not answered fail                 *)
HubRestart ==
  /\ Restart
  /\ conn' = [a \in Admins |-> "down"]
  /\ queue' = [a \in Admins |-> <<>>]
  /\ listed' = [a \in Admins |-> {}]
  /\ poll' = [a \in Admins |-> [i \in Polls |->
                IF poll[a][i].st = "asked" THEN Idle ELSE poll[a][i]]]
  /\ UNCHANGED <<redis, told, view, ready>>

-----------------------------------------------------------------------------
(* The console                                                             *)

(* onPresence                                                              *)
ReadFrame(a) ==
  /\ queue[a] # <<>>
  /\ queue' = [queue EXCEPT ![a] = Tail(@)]
  /\ view' = [view EXCEPT ![a] = Apply(Head(queue[a]), @)]
  /\ UNCHANGED <<redis, pvars, conn, listed, told, poll, ready>>

(* setInterval(poll, 4000): the previous poll need not be over             *)
PollAsk(a, i) ==
  /\ poll[a][i].st = "idle"
  /\ poll' = [poll EXCEPT ![a][i] = [st |-> "asked", list |-> {}]]
  /\ UNCHANGED <<redis, pvars, conn, listed, queue, told, view, ready>>

(* Seeded fault: what the poll once did, adding and never removing         *)
PollAddsOnly(a, i) ==
  /\ poll[a][i].st = "served"
  /\ view' = [view EXCEPT ![a] = @ \cup poll[a][i].list]
  /\ poll' = [poll EXCEPT ![a][i] = Idle]
  /\ UNCHANGED <<redis, pvars, conn, listed, queue, told, ready>>

(* The answer arrives and replaces the whole display                       *)
PollApplied(a, i) ==
  /\ poll[a][i].st = "served"
  /\ view' = [view EXCEPT ![a] = poll[a][i].list]
  /\ poll' = [poll EXCEPT ![a][i] = Idle]
  /\ UNCHANGED <<redis, pvars, conn, listed, queue, told, ready>>

(* The request or its answer is lost                                       *)
PollLost(a, i) ==
  /\ poll[a][i].st # "idle"
  /\ poll' = [poll EXCEPT ![a][i] = Idle]
  /\ UNCHANGED <<redis, pvars, conn, listed, queue, told, view, ready>>

(* The airport data arrives: the page starts over with an empty display    *)
PageReady(a) ==
  /\ ~ready[a]
  /\ ready' = [ready EXCEPT ![a] = TRUE]
  /\ view' = [view EXCEPT ![a] = {}]
  /\ UNCHANGED <<redis, pvars, conn, listed, queue, told, poll>>

FeedNext ==
  \/ \E p \in Pax : PresenceStep(p)
  \/ \E a \in Admins :
       \/ AdminHello(a) \/ AdminJoin(a) \/ AdminListed(a) \/ AdminDown(a)
       \/ ReadFrame(a) \/ PageReady(a)
       \/ \E i \in Polls : PollAsk(a, i) \/ PollServed(a, i) \/ PollApplied(a, i) \/ PollLost(a, i)
  \/ HubRestart

(* The interval timer fires, frames are read, and a poll that is asked     *)
(* again and again is served and its answer applied again and again.       *)
FeedFairness ==
  \A a \in Admins :
    /\ WF_allVars(ReadFrame(a))
    /\ \A i \in Polls :
         /\ WF_allVars(PollAsk(a, i))
         /\ SF_allVars(PollServed(a, i))
         /\ SF_allVars(PollApplied(a, i))

FeedSpec == FeedInit /\ [][FeedNext]_allVars /\ FeedFairness

-----------------------------------------------------------------------------
(* "Send current presence snapshot (cluster-wide when Redis is enabled)":  *)
(* the snapshot of the hello followed by the broadcasts of the connection  *)
(* add up to who is online.                                                *)
SnapshotIsCurrent == \A a \in Admins : conn[a] = "live" => told[a] = online

(* Without Redis they do: no change falls between joining the set and the  *)
(* snapshot, none is broadcast twice with different states or not at all.  *)
SnapshotThenDeltas == ~redis => SnapshotIsCurrent

(* The same, with the types of the feed.                                   *)
FeedInv == FeedTypeOK /\ SnapshotThenDeltas

(* Whatever frames are lost, repeated by a snapshot or overtaken by an old *)
(* poll answer, a console ends up displaying a passenger's state once that *)
(* state has stopped changing.                                             *)
ViewConverges ==
  \A a \in Admins : \A p \in Pax :
    /\ <>[](p \in online) => <>[](p \in view[a])
    /\ <>[](p \notin online) => <>[](p \notin view[a])

=============================================================================
