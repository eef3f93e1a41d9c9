------------------------------- MODULE Cluster ------------------------------
(* One passenger's presence on several instances of the server (HubStore,      *)
(* HubBus, presence.ts): the set of those online on each, the entry they share *)
(* in Redis, which is stamped anew while a connection is open and ages, and    *)
(* the bus that tells the consoles of the others.                              *)
(*                                                                             *)
(* Within an instance PaxPresence has this in full; here a hello or a close is *)
(* one step, and an instance has a connection of the passenger or none. Time   *)
(* is counted in heartbeats: a tick comes when every instance has had its one, *)
(* and a command to Redis is done, or has failed, by then (commandTimeout).    *)
EXTENDS Naturals, Sequences

CONSTANTS Instances,  \* servers behind the balancer
          Desk,       \* the one a console is connected to
          Stale,      \* PRESENCE_STALE_MS, in heartbeats
          MaxOrders,  \* commands to Redis of an instance under way at once
          MaxFrames   \* frames on the bus at once

ASSUME ClusterAssumption ==
  /\ Desk \in Instances
  /\ Stale \in Nat \ {0} /\ MaxOrders \in Nat \ {0} /\ MaxFrames \in Nat \ {0}

VARIABLES
  http,      \* whether the page tells of itself by HTTP too (fixed)
  up,        \* Redis is
  sockets,   \* paxSockets has a connection of the passenger
  onlineAt,  \* the set `online` has the passenger
  grace,     \* paxOfflineTimers has a timer
  entry,     \* the passenger in the sorted set: heartbeats since the stamp
  orders,    \* commands to Redis, in the order they were issued
  beaten,    \* instances whose heartbeat of this tick has been
  bus,       \* frames published and not yet delivered
  shown      \* whether the console shows the passenger online

clusterVars == <<http, up, sockets, onlineAt, grace, entry, orders, beaten, bus, shown>>

Gone == Stale + 1

ClusterTypeOK ==
  /\ http \in BOOLEAN /\ up \in BOOLEAN
  /\ shown \in BOOLEAN /\ \A v \in {sockets, onlineAt, grace}: v \in [Instances -> BOOLEAN]
  /\ entry \in 0..Gone
  /\ \A i \in Instances: Len(orders[i]) <= MaxOrders
                         /\ \A n \in 1..Len(orders[i]): orders[i][n] \in {"zadd", "zrem"}
  /\ beaten \subseteq Instances /\ Len(bus) <= MaxFrames

ClusterInit ==
  /\ http \in BOOLEAN /\ up = TRUE
  /\ sockets = [i \in Instances |-> FALSE] /\ onlineAt = sockets
  /\ grace = sockets /\ shown = FALSE
  /\ entry = Gone /\ orders = [i \in Instances |-> <<>>]
  /\ beaten = {} /\ bus = <<>>

-----------------------------------------------------------------------------
(* recordPresence: a command, whose failure is only logged.                    *)
Order(i, command) ==
  /\ Len(orders[i]) < MaxOrders
  /\ orders' = [orders EXCEPT ![i] = Append(@, command)]

(* broadcastAdmins: here at once, and published for the others.                *)
Broadcast(i, on) ==
  /\ Len(bus) < MaxFrames
  /\ shown' = IF i = Desk THEN on ELSE shown
  /\ bus' = Append(bus, [from |-> i, on |-> on])

(* setPresence                                                                 *)
SetPresence(i, on) ==
  /\ onlineAt' = [onlineAt EXCEPT ![i] = on]
  /\ Order(i, IF on THEN "zadd" ELSE "zrem")
  /\ IF onlineAt[i] # on THEN Broadcast(i, on) ELSE UNCHANGED <<bus, shown>>

(* listOnlineGlobal: those of this instance, and the entries not too old.      *)
OnlineGlobal(i) == onlineAt[i] \/ (up /\ entry <= Stale)

-----------------------------------------------------------------------------
(* A passenger's hello and close; the timer of a close.                        *)
Connects(i) ==
  /\ ~sockets[i] /\ sockets' = [sockets EXCEPT ![i] = TRUE]
  /\ grace' = [grace EXCEPT ![i] = FALSE] /\ SetPresence(i, TRUE)
  /\ UNCHANGED <<http, up, entry, beaten>>

Disconnects(i) ==
  /\ sockets[i] /\ sockets' = [sockets EXCEPT ![i] = FALSE]
  /\ grace' = [grace EXCEPT ![i] = TRUE]
  /\ UNCHANGED <<http, up, onlineAt, entry, orders, beaten, bus, shown>>

GraceFires(i) ==
  /\ grace[i] /\ grace' = [grace EXCEPT ![i] = FALSE]
  /\ SetPresence(i, FALSE)
  /\ UNCHANGED <<http, up, sockets, entry, beaten>>

(* setPaxPresenceFromHttp, on whichever instance gets the request.             *)
PageTells(i, on) ==
  /\ http
  /\ IF on THEN grace' = [grace EXCEPT ![i] = FALSE] /\ SetPresence(i, TRUE)
           ELSE /\ ~sockets[i] /\ grace' = [grace EXCEPT ![i] = TRUE]
                /\ UNCHANGED <<onlineAt, orders, bus, shown>>
  /\ UNCHANGED <<http, up, sockets, entry, beaten>>

-----------------------------------------------------------------------------
(* Seeded fault: the heartbeat renews only an entry that is still there.       *)
BeatExisting(i) ==
  /\ i \notin beaten /\ beaten' = beaten \cup {i}
  /\ IF sockets[i] /\ entry <= Stale THEN Order(i, "zadd") ELSE UNCHANGED orders
  /\ UNCHANGED <<http, up, sockets, onlineAt, grace, entry, bus, shown>>

(* heartbeatLocalPresence, every two minutes.                                  *)
Beat(i) ==
  /\ i \notin beaten /\ beaten' = beaten \cup {i}
  /\ IF sockets[i] THEN Order(i, "zadd") ELSE UNCHANGED orders
  /\ UNCHANGED <<http, up, sockets, onlineAt, grace, entry, bus, shown>>

Tick ==
  /\ beaten = Instances /\ \A i \in Instances: orders[i] = <<>>
  /\ beaten' = {} /\ entry' = IF entry = Gone THEN Gone ELSE entry + 1
  /\ UNCHANGED <<http, up, sockets, onlineAt, grace, orders, bus, shown>>

(* A command reaches Redis, or fails because Redis is down.                    *)
OrderDone(i) ==
  /\ orders[i] # <<>>
  /\ orders' = [orders EXCEPT ![i] = Tail(@)]
  /\ entry' = CASE ~up -> entry [] up /\ Head(orders[i]) = "zadd" -> 0 [] OTHER -> Gone
  /\ UNCHANGED <<http, up, sockets, onlineAt, grace, beaten, bus, shown>>

(* A frame reaches the other instances, and the console of one; or is lost.    *)
FrameArrives ==
  /\ bus # <<>> /\ bus' = Tail(bus)
  /\ shown' = IF Head(bus).from = Desk \/ ~up THEN shown ELSE Head(bus).on
  /\ UNCHANGED <<http, up, sockets, onlineAt, grace, entry, orders, beaten>>

(* The console's poll of GET /presence, or its reconnection.                   *)
ConsolePolls ==
  /\ shown' = OnlineGlobal(Desk)
  /\ UNCHANGED <<http, up, sockets, onlineAt, grace, entry, orders, beaten, bus>>

(* Redis goes, and comes back with its data or without.                        *)
RedisTurns ==
  /\ up' = ~up /\ entry' \in {entry, Gone}
  /\ UNCHANGED <<http, sockets, onlineAt, grace, orders, beaten, bus, shown>>

(* An instance stops, by a signal or a crash, and starts again: what it had in *)
(* memory is gone, what it was about to tell Redis too.                        *)
Restarts(i) ==
  /\ sockets' = [sockets EXCEPT ![i] = FALSE] /\ onlineAt' = [onlineAt EXCEPT ![i] = FALSE]
  /\ grace' = [grace EXCEPT ![i] = FALSE] /\ orders' = [orders EXCEPT ![i] = <<>>]
  /\ UNCHANGED <<http, up, entry, beaten, bus, shown>>

ClusterNext ==
  \/ Tick \/ FrameArrives \/ ConsolePolls \/ RedisTurns
  \/ \E i \in Instances: \/ Connects(i) \/ Disconnects(i) \/ GraceFires(i) \/ Beat(i)
                         \/ OrderDone(i) \/ Restarts(i)
                         \/ \E on \in BOOLEAN: PageTells(i, on)

(* Timers fire, commands and frames are dealt with, consoles go on polling.    *)
ClusterSpec ==
  /\ ClusterInit /\ [][ClusterNext]_clusterVars
  /\ WF_clusterVars(Tick) /\ WF_clusterVars(FrameArrives) /\ WF_clusterVars(ConsolePolls)
  /\ WF_clusterVars(\E i \in Instances: GraceFires(i))
  /\ WF_clusterVars(\E i \in Instances: Beat(i))
  /\ WF_clusterVars(\E i \in Instances: OrderDone(i))

-----------------------------------------------------------------------------
(* Once the passenger's connections have settled and Redis stays up, the       *)
(* console, on whichever instance, comes to show whether there is one, for     *)
(* good: whatever commands and frames were lost, whoever restarted, and        *)
(* although one instance's timer removes the entry of a passenger whom another *)
(* has.                                                                        *)
Settled == <>[]up /\ <>[][FALSE]_sockets
ClusterConverges ==
  ~http /\ Settled => <>[](shown = \E j \in Instances: sockets[j])

(* The same of pages that also tell of themselves by HTTP. (Not so: the word   *)
(* that a page is there, and the word that it has gone, may reach different    *)
(* instances, and the first then has it online for ever.)                      *)
GoneIsGone ==
  Settled /\ <>[](\A i \in Instances: ~sockets[i]) /\ <>[][FALSE]_onlineAt
    => <>[](~shown)

(* "Always unioned with local": a passenger connected anywhere is listed       *)
(* everywhere while Redis is up. (Not so until the next heartbeat, when Redis  *)
(* was away or the timer of another instance has removed the entry.)           *)
ConnectedIsListed ==
  up /\ (\E j \in Instances: sockets[j] /\ orders[j] = <<>>) =>
    \A i \in Instances: OnlineGlobal(i)
=============================================================================
