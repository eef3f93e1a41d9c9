---------------------------- MODULE PushDelivery ----------------------------
(***************************************************************************)
(* One-way push messages (admin to passenger, acknowledged) on top of      *)
(* PaxPresence: store.messages, the "send" and "ack" frames of hub/wsHub.ts*)
(* and the part of the hello handler that offers what is still pending.    *)
(*                                                                         *)
(* A message id is chosen fresh by the console for each message, and       *)
(* createdAt grows with it: a message is its number in order of creation.  *)
(***************************************************************************)
EXTENDS PaxPresence, Naturals, FiniteSets

CONSTANTS
  MaxMsg,           \* bound of the model: messages ever sent
  Window            \* pending messages a hello offers at most (10)

ASSUME WindowAssumption == MaxMsg \in Nat /\ Window \in Nat \ {0}

VARIABLES
  status,           \* status of each message; "gone" once purged or lost
  target,           \* its passenger
  offered           \* messages written to a connection

pushVars == <<status, target, offered>>
hubVars == <<vars, pushVars>>

Msg == 1..MaxMsg

PushTypeOK ==
  /\ status \in [Msg -> {"none", "sent", "delivered", "ack", "gone"}]
  /\ target \in [Msg -> Pax \cup {NoPax}]
  /\ offered \in [Socks -> SUBSET Msg]

HubInit ==
  /\ Init
  /\ status = [m \in Msg |-> "none"]
  /\ target = [m \in Msg |-> NoPax]
  /\ offered = [s \in Socks |-> {}]

Unacked(p) == {m \in Msg : target[m] = p /\ status[m] \in {"sent", "delivered"}}

(* Seeded fault: a message is offered once                                 *)
PendingSentOnly(p) ==
  {m \in Unacked(p) :
     status[m] = "sent" /\ Cardinality({n \in Unacked(p) : n > m}) < Window}

(* filter, sort by createdAt, slice(-10)                                   *)
Pending(p) == {m \in Unacked(p) : Cardinality({n \in Unacked(p) : n > m}) < Window}

(* wsSend: only a connection whose readyState is OPEN is written to        *)
Offer(S, M) ==
  offered' = [s \in Socks |-> IF s \in S /\ sock[s] = "open" THEN offered[s] \cup M
                                                             ELSE offered[s]]

(* The console sends a message: it is recorded, written to the passenger's *)
(* registered connections and, if there is one, called delivered.          *)
AdminSend(p) ==
  \E m \in Msg :
    /\ status[m] = "none"
    /\ \A n \in Msg : n < m => status[n] # "none"
    /\ target' = [target EXCEPT ![m] = p]
    /\ status' = [status EXCEPT ![m] = IF paxSockets[p] = {} THEN "sent" ELSE "delivered"]
    /\ Offer(paxSockets[p], {m})
    /\ UNCHANGED vars

(* Seeded fault: delivered is written over whatever the status is          *)
JoinRedelivers(s) ==
  LET p == ident[s] IN
  /\ Join(s)
  /\ Offer({s}, {m \in Msg : target[m] = p})
  /\ status' = [m \in Msg |-> IF target[m] = p THEN "delivered" ELSE status[m]]
  /\ UNCHANGED target

(* The hello completes: what is pending is offered to the new connection,  *)
(* and what was only "sent" becomes delivered.                             *)
JoinAndOffer(s) ==
  LET p == ident[s] IN
  /\ Join(s)
  /\ Offer({s}, Pending(p))
  /\ status' = [m \in Msg |-> IF m \in Pending(p) /\ status[m] = "sent"
                                THEN "delivered" ELSE status[m]]
  /\ UNCHANGED target

(* The page acknowledges a message it was given; the hub checks that the   *)
(* message is this passenger's and still there.                            *)
Ack(s) ==
  \E m \in offered[s] :
    /\ sock[s] # "closed"
    /\ target[m] = ident[s]
    /\ status[m] \in {"sent", "delivered", "ack"}
    /\ status' = [status EXCEPT ![m] = "ack"]
    /\ UNCHANGED <<vars, target, offered>>

(* purgePassenger, when the passenger record is deleted                    *)
Purge(p) ==
  /\ \E m \in Msg : target[m] = p /\ status[m] # "gone"
  /\ status' = [m \in Msg |-> IF target[m] = p THEN "gone" ELSE status[m]]
  /\ UNCHANGED <<vars, target, offered>>

Reconnect(s) ==
  /\ Connect(s)
  /\ offered' = [offered EXCEPT ![s] = {}]
  /\ UNCHANGED <<status, target>>

(* store.messages is only in memory                                        *)
CrashLosesMessages ==
  /\ Crash
  /\ status' = [m \in Msg |-> IF status[m] = "none" THEN "none" ELSE "gone"]
  /\ offered' = [s \in Socks |-> {}]
  /\ UNCHANGED target

(* Steps of PaxPresence that do not touch the messages                     *)
OtherStep ==
  /\ \/ \E s \in Socks :
          \/ Hello(s) \/ HelloRefused(s) \/ InsertRow(s) \/ SelectRow(s)
          \/ MarkOnline(s) \/ HelloFailed(s) \/ ServerClose(s) \/ Close(s)
          \/ MarkOffline(s)
          \/ \E p \in Pax : HelloVerified(s, p)
     \/ \E p \in Pax : PaxNext(p)
  /\ UNCHANGED pushVars

HubNext ==
  \/ \E s \in Socks : JoinAndOffer(s) \/ Ack(s) \/ Reconnect(s)
  \/ \E p \in Pax : AdminSend(p) \/ Purge(p)
  \/ CrashLosesMessages
  \/ OtherStep

HubSpec == HubInit /\ [][HubNext]_hubVars

-----------------------------------------------------------------------------
(* Every open, registered connection of a passenger has been given each of *)
(* its unacknowledged messages, except those that at least Window newer    *)
(* ones pushed out of the hello's slice: a message sent while a hello is   *)
(* suspended at an await, while other tabs come and go, or after a tab     *)
(* received it without acknowledging, still reaches this tab.              *)
NoMessageMissed ==
  \A p \in Pax : \A s \in paxSockets[p] : \A m \in Unacked(p) :
    sock[s] = "open" =>
      \/ m \in offered[s]
      \/ Cardinality({n \in offered[s] : n > m /\ target[n] = p}) >= Window

PushInv == PushTypeOK /\ NoMessageMissed

(* The status of a message only moves forward: neither a reconnect nor     *)
(* another tab turns an acknowledged message into a delivered one.         *)
Rank(st) ==
  CASE st = "none" -> 0 [] st = "sent" -> 1 [] st = "delivered" -> 2
    [] st = "ack" -> 3 [] st = "gone" -> 4

StatusMovesForward ==
  [][\A m \in Msg : Rank(status'[m]) >= Rank(status[m])]_hubVars

=============================================================================
