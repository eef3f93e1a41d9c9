-------------------------- MODULE PresencePromise --------------------------
(***************************************************************************)
(* What the hub promises about passenger presence, with sockets, handlers  *)
(* and the database left out: a passenger is shown online as soon as a     *)
(* connection or an HTTP heartbeat says so, and is shown offline only when *)
(* a full grace period has run out with no connection at all.              *)
(***************************************************************************)
CONSTANT Pax        \* passengers (one tenant: keys are `tenantId::passengerId`)

VARIABLES
  connected,        \* passengers with at least one registered connection
  online,           \* passengers shown online
  grace             \* passengers whose grace period is running

pvars == <<connected, online, grace>>

PromiseInit == connected = {} /\ online = {} /\ grace = {}

(* A connection is registered: the passenger is online, no countdown.      *)
Arrive(p) ==
  /\ connected' = connected \cup {p}
  /\ online' = online \cup {p}
  /\ grace' = grace \ {p}

(* The last connection is gone: the countdown starts, nothing is shown yet.*)
Leave(p) ==
  /\ p \in connected
  /\ connected' = connected \ {p}
  /\ grace' = grace \cup {p}
  /\ UNCHANGED online

(* An HTTP heartbeat says online.                                          *)
Vouch(p) ==
  /\ online' = online \cup {p}
  /\ grace' = grace \ {p}
  /\ UNCHANGED connected

(* Something says offline while there is no connection.                    *)
Withdraw(p) ==
  /\ p \notin connected
  /\ grace' = grace \cup {p}
  /\ UNCHANGED <<connected, online>>

(* The grace period runs out.                                              *)
Expire(p) ==
  /\ p \in grace
  /\ online' = online \ {p}
  /\ grace' = grace \ {p}
  /\ UNCHANGED connected

(* The process restarts: presence is only kept in memory.                  *)
Restart == connected' = {} /\ online' = {} /\ grace' = {}

PromiseNext ==
  \/ \E p \in Pax : Arrive(p) \/ Leave(p) \/ Vouch(p) \/ Withdraw(p) \/ Expire(p)
  \/ Restart

PromiseSafety == PromiseInit /\ [][PromiseNext]_pvars

(* A countdown ends: it fires or something cancels it.                     *)
PromiseSpec == PromiseSafety /\ \A p \in Pax : WF_pvars(Expire(p))
=============================================================================
