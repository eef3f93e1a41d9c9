------------------------------ MODULE HubProofs ------------------------------
(* Presence and one-way messages for any number of passengers, connections and *)
(* messages: the inductive invariant of PaxPresence, that its steps are those  *)
(* PresencePromise allows, that the status of a message only moves forward,    *)
(* and that every open connection has been given its passenger's               *)
(* unacknowledged messages.                                                    *)
EXTENDS PushDelivery, FiniteSetTheorems, TLAPS

(* Initially nobody is connected, online or counted down.                  *)
LEMMA InitPresence == Init => PresenceInv
  BY NoPaxAssumption DEF Init, PresenceInv, TypeOK, ConnectedIsOnline,
     NoCountdownWhileConnected, OnlineIsJustified, RegisteredAsVerified,
     LiveTabsReachable, IdentityKnown, Awaiting

-----------------------------------------------------------------------------
(* Timers and HTTP: hub/presence.ts.                                       *)
LEMMA PaxPreserves ==
  ASSUME PresenceInv, NEW p \in Pax, PaxNext(p)
  PROVE  PresenceInv'
<1> USE DEF PresenceInv, TypeOK, ConnectedIsOnline, NoCountdownWhileConnected,
        OnlineIsJustified, RegisteredAsVerified, LiveTabsReachable, IdentityKnown,
        Awaiting, cancelPaxOffline, schedulePaxOffline, setPresence
<1>1. CASE TimerFires(p)
  <2>1. CASE paxSockets[p] = {}
    BY <1>1, <2>1 DEF TimerFires
  <2>2. CASE paxSockets[p] # {}
    BY <1>1, <2>2 DEF TimerFires
  <2> QED BY <2>1, <2>2
<1>2. CASE HttpOnline(p)
  BY <1>2 DEF HttpOnline
<1>3. CASE HttpOffline(p)
  BY <1>3 DEF HttpOffline
<1>4. CASE DeleteRow(p)
  BY <1>4 DEF DeleteRow, presenceVars
<1> QED BY <1>1, <1>2, <1>3, <1>4 DEF PaxNext

(* The steps of a connection before and after its handler has registered   *)
(* it, which leave the presence alone.                                     *)
LEMMA HandshakePreserves ==
  ASSUME PresenceInv, NEW s \in Socks,
         \/ Connect(s) \/ Hello(s) \/ HelloRefused(s) \/ HelloFailed(s)
         \/ InsertRow(s) \/ SelectRow(s) \/ MarkOnline(s)
         \/ ServerClose(s) \/ MarkOffline(s)
  PROVE  PresenceInv'
<1> USE DEF PresenceInv, TypeOK, ConnectedIsOnline, NoCountdownWhileConnected,
        OnlineIsJustified, RegisteredAsVerified, LiveTabsReachable, IdentityKnown,
        Awaiting, presenceVars, CloseWs, Step
<1>1. CASE Connect(s)
  BY <1>1, NoPaxAssumption DEF Connect
<1>2. CASE Hello(s)
  BY <1>2 DEF Hello
<1>3. CASE HelloRefused(s)
  BY <1>3 DEF HelloRefused
<1>4. CASE HelloFailed(s)
  BY <1>4 DEF HelloFailed
<1>5. CASE InsertRow(s)
  BY <1>5, NoPaxAssumption DEF InsertRow
<1>6. CASE SelectRow(s)
  BY <1>6 DEF SelectRow
<1>7. CASE MarkOnline(s)
  BY <1>7, NoPaxAssumption DEF MarkOnline
<1>8. CASE ServerClose(s)
  BY <1>8 DEF ServerClose
<1>9. CASE MarkOffline(s)
  BY <1>9 DEF MarkOffline
<1> QED BY <1>1, <1>2, <1>3, <1>4, <1>5, <1>6, <1>7, <1>8, <1>9

(* The token names a passenger.                                            *)
LEMMA VerifiedPreserves ==
  ASSUME PresenceInv, NEW s \in Socks, NEW p \in Pax, HelloVerified(s, p)
  PROVE  PresenceInv'
BY NoPaxAssumption DEF HelloVerified, PresenceInv, TypeOK, ConnectedIsOnline,
   NoCountdownWhileConnected, OnlineIsJustified, RegisteredAsVerified,
   LiveTabsReachable, IdentityKnown, Awaiting, presenceVars, Step

(* The connection is registered.                                           *)
LEMMA JoinPreserves ==
  ASSUME PresenceInv, NEW s \in Socks, Join(s)
  PROVE  PresenceInv'
BY DEF Join, cancelPaxOffline, setPresence, PresenceInv, TypeOK, ConnectedIsOnline,
   NoCountdownWhileConnected, OnlineIsJustified, RegisteredAsVerified,
   LiveTabsReachable, IdentityKnown, Awaiting, Step

(* The connection ends.                                                    *)
LEMMA ClosePreserves ==
  ASSUME PresenceInv, NEW s \in Socks, Close(s)
  PROVE  PresenceInv'
<1> USE DEF PresenceInv, TypeOK, ConnectedIsOnline, NoCountdownWhileConnected,
        OnlineIsJustified, RegisteredAsVerified, LiveTabsReachable, IdentityKnown,
        Awaiting, schedulePaxOffline
<1>1. CASE ident[s] = NoPax
  BY <1>1 DEF Close
<1>2. CASE ident[s] # NoPax /\ paxSockets[ident[s]] \subseteq {s}
  BY <1>2 DEF Close
<1>3. CASE ident[s] # NoPax /\ ~(paxSockets[ident[s]] \subseteq {s})
  BY <1>3 DEF Close
<1> QED BY <1>1, <1>2, <1>3

(* The process ends.                                                       *)
LEMMA CrashPreserves ==
  ASSUME PresenceInv, Crash
  PROVE  PresenceInv'
BY NoPaxAssumption DEF Crash, PresenceInv, TypeOK, ConnectedIsOnline,
   NoCountdownWhileConnected, OnlineIsJustified, RegisteredAsVerified,
   LiveTabsReachable, IdentityKnown, Awaiting

LEMMA StutterPreserves == PresenceInv /\ UNCHANGED vars => PresenceInv'
BY DEF vars, PresenceInv, TypeOK, ConnectedIsOnline,
   NoCountdownWhileConnected, OnlineIsJustified, RegisteredAsVerified,
   LiveTabsReachable, IdentityKnown, Awaiting

LEMMA NextPreserves == PresenceInv /\ [Next]_vars => PresenceInv'
<1> SUFFICES ASSUME PresenceInv, [Next]_vars PROVE PresenceInv'
  OBVIOUS
<1>1. ASSUME NEW s \in Socks, SockNext(s) PROVE PresenceInv'
  BY <1>1, HandshakePreserves, VerifiedPreserves, JoinPreserves, ClosePreserves
     DEF SockNext, Resume
<1>2. ASSUME NEW p \in Pax, PaxNext(p) PROVE PresenceInv'
  BY <1>2, PaxPreserves
<1> QED BY <1>1, <1>2, CrashPreserves, StutterPreserves DEF Next

(* PresenceInv, and with it every invariant of the run presence,            *)
(* holds whatever the number of passengers and of their connections.       *)
THEOREM PresenceInvariant == Spec => []PresenceInv
<1>1. Init => PresenceInv
  BY InitPresence
<1>2. PresenceInv /\ [Next]_vars => PresenceInv'
  BY NextPreserves
<1> QED BY <1>1, <1>2, PTL DEF Spec

(* A passenger with a registered connection is shown online.               *)
THEOREM ConnectedStaysOnline == Spec => []ConnectedIsOnline
<1>1. PresenceInv => ConnectedIsOnline
  BY DEF PresenceInv
<1> QED BY <1>1, PresenceInvariant, PTL

(* Nobody is shown online without a connection, a countdown or an HTTP     *)
(* claim.                                                                  *)
THEOREM OnlineAlwaysJustified == Spec => []OnlineIsJustified
<1>1. PresenceInv => OnlineIsJustified
  BY DEF PresenceInv
<1> QED BY <1>1, PresenceInvariant, PTL

(* A tab whose hello completed and whose connection stands is written to.  *)
THEOREM LiveTabsStayReachable == Spec => []LiveTabsReachable
<1>1. PresenceInv => LiveTabsReachable
  BY DEF PresenceInv
<1> QED BY <1>1, PresenceInvariant, PTL

-----------------------------------------------------------------------------
(* The hub implements the promise: connected passengers are those with a   *)
(* registered connection, the grace periods are the pending timers.        *)

connected == {p \in Pax : paxSockets[p] # {}}

(* No step of the database, of a handshake or of a half-closed connection  *)
(* shows in the promise.                                                   *)
LEMMA Unseen == UNCHANGED <<paxSockets, online, timers>> => UNCHANGED Promise!pvars
BY DEF Promise!pvars

LEMMA PaxRefines ==
  ASSUME PresenceInv, NEW p \in Pax, PaxNext(p)
  PROVE  [Promise!PromiseNext]_(Promise!pvars)
<1> USE DEF cancelPaxOffline, schedulePaxOffline, setPresence
<1>1. CASE TimerFires(p) /\ paxSockets[p] = {}
  <2>1. Promise!Expire(p)
    BY <1>1 DEF TimerFires, Promise!Expire
  <2> QED BY <2>1 DEF Promise!PromiseNext
<1>2. CASE TimerFires(p) /\ paxSockets[p] # {}
  BY <1>2 DEF TimerFires, PresenceInv, NoCountdownWhileConnected
<1>3. CASE HttpOnline(p)
  <2>1. Promise!Vouch(p)
    BY <1>3 DEF HttpOnline, Promise!Vouch
  <2> QED BY <2>1 DEF Promise!PromiseNext
<1>4. CASE HttpOffline(p)
  <2>1. Promise!Withdraw(p)
    BY <1>4 DEF HttpOffline, Promise!Withdraw
  <2> QED BY <2>1 DEF Promise!PromiseNext
<1>5. CASE DeleteRow(p)
  BY <1>5, Unseen DEF DeleteRow, presenceVars
<1> QED BY <1>1, <1>2, <1>3, <1>4, <1>5 DEF PaxNext

LEMMA JoinRefines ==
  ASSUME PresenceInv, NEW s \in Socks, Join(s)
  PROVE  Promise!PromiseNext
<1>1. PICK p \in Pax : p = ident[s]
  BY DEF PresenceInv, TypeOK, IdentityKnown, Awaiting, Join, Step
<1>2. connected' = connected \cup {p}
  BY <1>1 DEF connected, Join, PresenceInv, TypeOK
<1>3. Promise!Arrive(p)
  BY <1>1, <1>2 DEF Join, cancelPaxOffline, setPresence, connected, Promise!Arrive
<1> QED BY <1>3 DEF Promise!PromiseNext

LEMMA CloseRefines ==
  ASSUME PresenceInv, NEW s \in Socks, Close(s)
  PROVE  [Promise!PromiseNext]_(Promise!pvars)
<1>1. CASE ident[s] = NoPax
  BY <1>1, Unseen DEF Close
<1>2. ASSUME NEW p \in Pax, p = ident[s]
      PROVE  [Promise!PromiseNext]_(Promise!pvars)
  <2> USE NoPaxAssumption, <1>2
  <2>1. CASE paxSockets[p] = {}
    (* an identity without a registered connection: offline is scheduled *)
    <3>1. connected' = connected
      BY <2>1 DEF Close, PresenceInv, TypeOK, connected
    <3>2. Promise!Withdraw(p)
      BY <2>1, <3>1 DEF Close, schedulePaxOffline, connected, Promise!Withdraw
    <3> QED BY <3>2 DEF Promise!PromiseNext
  <2>2. CASE paxSockets[p] = {s}
    <3>1. p \in connected /\ connected' = connected \ {p}
      BY <2>2 DEF Close, PresenceInv, TypeOK, connected
    <3>2. Promise!Leave(p)
      BY <2>2, <3>1 DEF Close, schedulePaxOffline, connected, Promise!Leave
    <3> QED BY <3>2 DEF Promise!PromiseNext
  <2>3. CASE ~(paxSockets[p] \subseteq {s})
    <3>1. connected' = connected
      BY <2>3 DEF Close, PresenceInv, TypeOK, connected
    <3> QED BY <2>3, <3>1 DEF Close, connected, Promise!pvars
  <2> QED BY <2>1, <2>2, <2>3
<1> QED BY <1>1, <1>2 DEF PresenceInv, TypeOK

LEMMA NextRefines == PresenceInv /\ [Next]_vars => [Promise!PromiseNext]_(Promise!pvars)
<1> SUFFICES ASSUME PresenceInv, [Next]_vars PROVE [Promise!PromiseNext]_(Promise!pvars)
  OBVIOUS
<1>1. ASSUME NEW s \in Socks, SockNext(s) PROVE [Promise!PromiseNext]_(Promise!pvars)
  <2>1. CASE Join(s)
    BY <2>1, JoinRefines
  <2>2. CASE Close(s)
    BY <2>2, CloseRefines
  <2>3. CASE ~Join(s) /\ ~Close(s)
    BY <1>1, <2>3, Unseen
       DEF SockNext, Resume, Connect, Hello, HelloRefused, HelloVerified, HelloFailed,
           InsertRow, SelectRow, MarkOnline, ServerClose, MarkOffline, presenceVars
  <2> QED BY <2>1, <2>2, <2>3
<1>2. ASSUME NEW p \in Pax, PaxNext(p) PROVE [Promise!PromiseNext]_(Promise!pvars)
  BY <1>2, PaxRefines
<1>3. CASE Crash
  BY <1>3 DEF Crash, Promise!PromiseNext, Promise!Restart
<1>4. CASE UNCHANGED vars
  BY <1>4, Unseen DEF vars
<1> QED BY <1>1, <1>2, <1>3, <1>4 DEF Next

(* Every behaviour of the hub is one PresencePromise allows, for any       *)
(* number of passengers and connections: in particular offline is only     *)
(* shown when a grace period has run out with no connection registered     *)
(* from its start to its end.                                              *)
THEOREM PresenceRefines == Spec => Promise!PromiseSafety
<1>1. Init => Promise!PromiseInit
  BY DEF Init, Promise!PromiseInit
<1>2. PresenceInv /\ [Next]_vars => [Promise!PromiseNext]_(Promise!pvars)
  BY NextRefines
<1> QED BY <1>1, <1>2, PresenceInvariant, PTL DEF Spec, Promise!PromiseSafety

-----------------------------------------------------------------------------
LEMMA OfferType ==
  ASSUME PushTypeOK, NEW S, NEW M \in SUBSET Msg, Offer(S, M)
  PROVE  offered' \in [Socks -> SUBSET Msg]
BY DEF Offer, PushTypeOK

LEMMA PendingType == ASSUME NEW p PROVE Pending(p) \subseteq Unacked(p) /\ Unacked(p) \subseteq Msg
BY DEF Pending, Unacked

LEMMA InitPush == HubInit => PushTypeOK
BY DEF HubInit, PushTypeOK

(* A step keeps the types, and takes no status back.                       *)
Forward == \A m \in Msg : Rank(status'[m]) >= Rank(status[m])

LEMMA SendForward ==
  ASSUME PushTypeOK, NEW p \in Pax, AdminSend(p)
  PROVE  PushTypeOK' /\ Forward
<1>1. PICK m \in Msg :
        /\ status[m] = "none"
        /\ target' = [target EXCEPT ![m] = p]
        /\ status' = [status EXCEPT ![m] = IF paxSockets[p] = {} THEN "sent" ELSE "delivered"]
        /\ Offer(paxSockets[p], {m})
  BY DEF AdminSend
<1>2. PushTypeOK'
  BY <1>1, OfferType DEF PushTypeOK
<1>3. Forward
  BY <1>1 DEF Forward, Rank, PushTypeOK
<1> QED BY <1>2, <1>3

LEMMA JoinForward ==
  ASSUME PushTypeOK, NEW s \in Socks, JoinAndOffer(s)
  PROVE  PushTypeOK' /\ Forward
<1>1. PICK p : p = ident[s]
  OBVIOUS
<1>2. /\ Offer({s}, Pending(p)) /\ UNCHANGED target
      /\ status' = [m \in Msg |-> IF m \in Pending(p) /\ status[m] = "sent"
                                    THEN "delivered" ELSE status[m]]
  BY <1>1 DEF JoinAndOffer
<1>3. Pending(p) \in SUBSET Msg
  BY PendingType
<1>4. PushTypeOK'
  BY <1>2, <1>3, OfferType DEF PushTypeOK
<1>5. Forward
  BY <1>2 DEF Forward, Rank, PushTypeOK
<1> QED BY <1>4, <1>5

LEMMA AckForward ==
  ASSUME PushTypeOK, NEW s \in Socks, Ack(s)
  PROVE  PushTypeOK' /\ Forward
BY DEF Ack, PushTypeOK, Forward, Rank

LEMMA PurgeForward ==
  ASSUME PushTypeOK, NEW p \in Pax, Purge(p)
  PROVE  PushTypeOK' /\ Forward
BY DEF Purge, PushTypeOK, Forward, Rank

LEMMA CrashForward ==
  ASSUME PushTypeOK, CrashLosesMessages
  PROVE  PushTypeOK' /\ Forward
BY DEF CrashLosesMessages, PushTypeOK, Forward, Rank

(* Steps that leave the statuses alone.                                    *)
LEMMA QuietForward ==
  ASSUME PushTypeOK, UNCHANGED <<status, target>>, offered' \in [Socks -> SUBSET Msg]
  PROVE  PushTypeOK' /\ Forward
BY DEF PushTypeOK, Forward, Rank

LEMMA HubForward == PushTypeOK /\ [HubNext]_hubVars => PushTypeOK' /\ Forward
<1> SUFFICES ASSUME PushTypeOK, [HubNext]_hubVars PROVE PushTypeOK' /\ Forward
  OBVIOUS
<1>1. ASSUME NEW s \in Socks, Reconnect(s) PROVE PushTypeOK' /\ Forward
  <2>1. offered' \in [Socks -> SUBSET Msg]
    BY <1>1 DEF Reconnect, PushTypeOK
  <2> QED BY <1>1, <2>1, QuietForward DEF Reconnect
<1>2. CASE OtherStep
  BY <1>2, QuietForward DEF OtherStep, pushVars, PushTypeOK
<1>3. CASE UNCHANGED hubVars
  BY <1>3, QuietForward DEF hubVars, pushVars, PushTypeOK
<1> QED BY <1>1, <1>2, <1>3, SendForward, JoinForward, AckForward, PurgeForward, CrashForward
        DEF HubNext

(* The types of the messages.                                              *)
THEOREM PushTypes == HubSpec => []PushTypeOK
<1>1. HubInit => PushTypeOK
  BY InitPush
<1>2. PushTypeOK /\ [HubNext]_hubVars => PushTypeOK'
  BY HubForward
<1> QED BY <1>1, <1>2, PTL DEF HubSpec

(* No reconnect, other tab or late acknowledgement takes the status of a   *)
(* message back.                                                           *)
THEOREM StatusOnlyForward == HubSpec => StatusMovesForward
<1>1. PushTypeOK /\ [HubNext]_hubVars => [Forward]_hubVars
  BY HubForward
<1>2. HubSpec => [][Forward]_hubVars
  BY <1>1, PushTypes, PTL DEF HubSpec
<1> QED BY <1>2, PTL DEF StatusMovesForward, Forward

-----------------------------------------------------------------------------
(* The slice of the hello: sets of messages and how many there are.        *)

LEMMA MsgFinite ==
  ASSUME NEW S \in SUBSET Msg
  PROVE  IsFiniteSet(S) /\ Cardinality(S) \in Nat
<1>1. IsFiniteSet(Msg)
  BY FS_Interval, WindowAssumption DEF Msg
<1>2. IsFiniteSet(S)
  BY <1>1, FS_Subset
<1> QED BY <1>2, FS_CardinalityType

LEMMA MoreMessages ==
  ASSUME NEW S \in SUBSET Msg, NEW T \in SUBSET S
  PROVE  Cardinality(T) <= Cardinality(S)
BY MsgFinite, FS_Subset

LEMMA MsgOrder ==
  /\ \A k \in Msg : ~(k > k) /\ k >= k
  /\ \A k, l, n \in Msg : l > k /\ k > n => l > n
  /\ \A k, l, n \in Msg : l > k /\ k >= n => l > n /\ l >= n
BY WindowAssumption DEF Msg

(* Of the messages a set S is about, one has nothing newer in S.           *)
LEMMA NewestExists ==
  ASSUME NEW S \in SUBSET Msg, S # {}
  PROVE  \E n \in S : \A k \in S : ~(k > n)
<1> DEFINE Newer(n) == {k \in S : k > n}
           Newers == {Newer(n) : n \in S}
           R == StrictSubsetOrdering(Msg)
<1>1. IsWellFoundedOn(R, FiniteSubsetsOf(Msg))
  BY FS_StrictSubsetOrderingWellFounded
<1>2. Newers \subseteq FiniteSubsetsOf(Msg) /\ Newers # {}
  BY MsgFinite DEF FiniteSubsetsOf
<1>3. PICK x \in Newers : \A y \in Newers : <<y, x>> \notin R
  <2> HIDE DEF Newers, R
  <2> QED BY <1>1, <1>2, WFMin
<1>4. PICK n \in S : x = Newer(n)
  OBVIOUS
<1>5. ASSUME NEW k \in S, k > n PROVE FALSE
  <2>1. Newer(k) \subseteq Newer(n) /\ k \in Newer(n) /\ k \notin Newer(k)
    BY <1>5, MsgOrder
  <2>2. Newer(k) \in SUBSET Msg /\ Newer(n) \in SUBSET Msg
    OBVIOUS
  <2>3. <<Newer(k), Newer(n)>> \in R
    <3> HIDE DEF Newer
    <3> QED BY <2>1, <2>2 DEF StrictSubsetOrdering
  <2> QED BY <2>3, <1>3, <1>4
<1> QED BY <1>5

(* Whatever the slice leaves out has Window newer messages within it.      *)
LEMMA SliceKeepsWindow ==
  ASSUME NEW U \in SUBSET Msg, NEW m \in U,
         Cardinality({n \in U : n > m}) >= Window
  PROVE  Cardinality({n \in {k \in U : Cardinality({l \in U : l > k}) < Window} : n > m})
           >= Window
<1> DEFINE Newer(k) == {l \in U : l > k}
           Slice == {k \in U : Cardinality(Newer(k)) < Window}
           Behind == {k \in U : k >= m /\ Cardinality(Newer(k)) >= Window}
<1>1. Behind \in SUBSET Msg /\ m \in Behind
  BY MsgOrder
<1>2. PICK n \in Behind : \A k \in Behind : ~(k > n)
  <2> HIDE DEF Behind
  <2> QED BY <1>1, NewestExists
<1>3. ASSUME NEW k \in Newer(n) PROVE k \in Slice /\ k > m
  <2>1. k \in U /\ k > m /\ k >= m /\ k > n
    BY MsgOrder
  <2>2. Newer(k) \in SUBSET Msg
    OBVIOUS
  <2>3. Cardinality(Newer(k)) \in Nat
    <3> HIDE DEF Newer
    <3> QED BY <2>2, MsgFinite
  <2>4. ~(Cardinality(Newer(k)) >= Window)
    <3> HIDE DEF Newer
    <3> QED BY <2>1, <1>2
  <2> HIDE DEF Newer
  <2> QED BY <2>1, <2>3, <2>4, WindowAssumption
<1>4. Newer(n) \in SUBSET {k \in Slice : k > m} /\ {k \in Slice : k > m} \in SUBSET Msg
  <2> HIDE DEF Newer
  <2> QED BY <1>3
<1>5. Cardinality(Newer(n)) <= Cardinality({k \in Slice : k > m})
  <2> HIDE DEF Newer, Slice
  <2> QED BY <1>4, MoreMessages
<1>6. /\ Cardinality({k \in Slice : k > m}) \in Nat
      /\ Newer(n) \in SUBSET Msg
  <2> HIDE DEF Slice
  <2> QED BY <1>4, MsgFinite
<1>7. Cardinality(Newer(n)) \in Nat
  <2> HIDE DEF Newer
  <2> QED BY <1>6, MsgFinite
<1>8. Cardinality(Newer(n)) >= Window
  BY <1>2
<1>9. Cardinality({k \in Slice : k > m}) >= Window
  <2> HIDE DEF Newer, Slice
  <2> QED BY <1>5, <1>6, <1>7, <1>8, WindowAssumption
<1> QED BY <1>9

-----------------------------------------------------------------------------
(* The inductive invariant: a message that has not been sent is nobody's,  *)
(* and was written to no connection.                                       *)
Unsent == \A m \in Msg, s \in Socks : status[m] = "none" => m \notin offered[s]

HubInv == PresenceInv /\ PushTypeOK /\ Unsent /\ NoMessageMissed

(* What a connection s of passenger p is owed of message m.                *)
Reached(p, s, m) ==
  \/ m \in offered[s]
  \/ Cardinality({n \in offered[s] : n > m /\ target[n] = p}) >= Window

(* What was reached stays so while what was written to a connection of the *)
(* same messages only grows.                                               *)
LEMMA ReachedStays ==
  ASSUME PushTypeOK, PushTypeOK', NEW p \in Pax, NEW s \in Socks, NEW m \in Msg,
         Reached(p, s, m),
         offered[s] \subseteq offered'[s],
         \A n \in offered[s] : target'[n] = target[n]
  PROVE  Reached(p, s, m)'
<1> DEFINE T == {n \in offered[s] : n > m /\ target[n] = p}
           S == {n \in offered'[s] : n > m /\ target'[n] = p}
<1>1. S \in SUBSET Msg /\ T \in SUBSET S /\ T \in SUBSET Msg
  BY DEF PushTypeOK
<1>2. Cardinality(T) <= Cardinality(S) /\ Cardinality(S) \in Nat /\ Cardinality(T) \in Nat
  <2> HIDE DEF S, T
  <2> QED BY <1>1, MsgFinite, MoreMessages
<1>3. Cardinality(T) >= Window => Cardinality(S) >= Window
  <2> HIDE DEF S, T
  <2> QED BY <1>2, WindowAssumption
<1> QED BY <1>3 DEF Reached

LEMMA MissedMeansReached ==
  NoMessageMissed <=>
    \A p \in Pax : \A s \in paxSockets[p] : \A m \in Unacked(p) :
      sock[s] = "open" => Reached(p, s, m)
BY DEF NoMessageMissed, Reached

LEMMA InitHub == HubInit => HubInv
<1> SUFFICES ASSUME HubInit PROVE HubInv
  OBVIOUS
<1>1. PresenceInv /\ PushTypeOK
  BY InitPresence, InitPush DEF HubInit
<1>2. Unsent /\ NoMessageMissed
  BY DEF HubInit, Init, Unsent, NoMessageMissed
<1> QED BY <1>1, <1>2 DEF HubInv

(* Every step is one PaxPresence allows.                                   *)
LEMMA HubIsPresence == [HubNext]_hubVars => [Next]_vars
<1> SUFFICES ASSUME [HubNext]_hubVars PROVE [Next]_vars
  OBVIOUS
<1>1. ASSUME NEW s \in Socks, JoinAndOffer(s) \/ Ack(s) \/ Reconnect(s) PROVE [Next]_vars
  BY <1>1 DEF JoinAndOffer, Ack, Reconnect, Next, SockNext, Resume
<1>2. ASSUME NEW p \in Pax, AdminSend(p) \/ Purge(p) PROVE [Next]_vars
  BY <1>2 DEF AdminSend, Purge
<1>3. CASE CrashLosesMessages
  BY <1>3 DEF CrashLosesMessages, Next
<1>4. CASE OtherStep
  BY <1>4 DEF OtherStep, Next, SockNext, Resume
<1>5. CASE UNCHANGED hubVars
  BY <1>5 DEF hubVars
<1> QED BY <1>1, <1>2, <1>3, <1>4, <1>5 DEF HubNext

(* A message is written to the connections the console finds registered,   *)
(* and takes nothing from what was written before.                         *)
LEMMA SendReaches ==
  ASSUME HubInv, PresenceInv', PushTypeOK', NEW p \in Pax, AdminSend(p)
  PROVE  Unsent' /\ NoMessageMissed'
<1>1. PICK m \in Msg :
        /\ status[m] = "none"
        /\ target' = [target EXCEPT ![m] = p]
        /\ status' = [status EXCEPT ![m] = IF paxSockets[p] = {} THEN "sent" ELSE "delivered"]
        /\ offered' = [s \in Socks |-> IF s \in paxSockets[p] /\ sock[s] = "open"
                                         THEN offered[s] \cup {m} ELSE offered[s]]
        /\ UNCHANGED vars
  BY DEF AdminSend, Offer
<1>2. PushTypeOK /\ Unsent /\ TypeOK /\ NoMessageMissed
  BY DEF HubInv, PresenceInv
<1>3. Unsent'
  BY <1>1, <1>2 DEF Unsent, PushTypeOK
<1>4. ASSUME NEW q \in Pax, NEW s \in paxSockets'[q], NEW n \in Unacked(q)', sock'[s] = "open"
      PROVE  Reached(q, s, n)'
  <2>1. s \in paxSockets[q] /\ s \in Socks /\ sock[s] = "open" /\ n \in Msg
    BY <1>1, <1>2, <1>4 DEF vars, TypeOK, Unacked
  <2>2. CASE n = m
    <3>1. q = p
      BY <1>1, <1>2, <1>4, <2>2 DEF Unacked, PushTypeOK
    <3> QED BY <1>1, <2>1, <2>2, <3>1 DEF Reached
  <2>3. CASE n # m
    <3>1. n \in Unacked(q)
      BY <1>1, <1>2, <1>4, <2>1, <2>3 DEF Unacked, PushTypeOK
    <3>2. Reached(q, s, n)
      BY <3>1, <2>1, <1>2, MissedMeansReached
    <3>3. /\ offered[s] \subseteq offered'[s]
          /\ \A k \in offered[s] : target'[k] = target[k]
      BY <1>1, <1>2, <2>1 DEF Unsent, PushTypeOK
    <3> QED BY <3>2, <3>3, <2>1, <1>2, ReachedStays
  <2> QED BY <2>2, <2>3
<1>5. NoMessageMissed'
  BY <1>4 DEF NoMessageMissed, Reached
<1> QED BY <1>3, <1>5

(* The hello's slice reaches the connection it registers.                  *)
LEMMA JoinReaches ==
  ASSUME HubInv, PresenceInv', PushTypeOK', NEW t \in Socks, JoinAndOffer(t)
  PROVE  Unsent' /\ NoMessageMissed'
<1>1. PICK p : p = ident[t]
  OBVIOUS
<1>2. /\ offered' = [s \in Socks |-> IF s \in {t} /\ sock[s] = "open"
                                       THEN offered[s] \cup Pending(p) ELSE offered[s]]
      /\ status' = [m \in Msg |-> IF m \in Pending(p) /\ status[m] = "sent"
                                    THEN "delivered" ELSE status[m]]
      /\ target' = target /\ Join(t)
  BY <1>1 DEF JoinAndOffer, Offer
<1>3. PushTypeOK /\ Unsent /\ TypeOK /\ NoMessageMissed /\ RegisteredAsVerified /\ IdentityKnown
  BY DEF HubInv, PresenceInv
<1>4. p \in Pax
  BY <1>1, <1>2, <1>3 DEF IdentityKnown, TypeOK, Join, Step, Awaiting
<1>5. /\ paxSockets' = [paxSockets EXCEPT ![p] = @ \cup {t}]
      /\ sock' = sock /\ hello[t] = "join"
  BY <1>1, <1>2 DEF Join, Step
<1>6. \A q \in Pax : Unacked(q)' = Unacked(q)
  BY <1>2, <1>3 DEF Unacked, PushTypeOK
<1>7. \A m \in Pending(p) : status[m] # "none"
  BY DEF Pending, Unacked
<1>8. Unsent'
  BY <1>2, <1>3, <1>7 DEF Unsent, PushTypeOK
<1>9. ASSUME NEW q \in Pax, NEW s \in paxSockets'[q], NEW n \in Unacked(q)', sock'[s] = "open"
      PROVE  Reached(q, s, n)'
  <2>1. s \in Socks /\ sock[s] = "open" /\ n \in Msg /\ n \in Unacked(q)
    BY <1>3, <1>4, <1>5, <1>6, <1>9 DEF TypeOK, Unacked
  <2>2. offered[s] \subseteq offered'[s] /\ \A k \in offered[s] : target'[k] = target[k]
    BY <1>2, <2>1, <1>3 DEF PushTypeOK
  <2>3. CASE s \in paxSockets[q]
    <3>1. Reached(q, s, n)
      BY <2>1, <2>3, <1>3, MissedMeansReached
    <3> QED BY <3>1, <2>1, <2>2, <1>3, ReachedStays
  <2>4. CASE s \notin paxSockets[q]
    <3>1. s = t /\ q = p
      BY <2>4, <1>9, <1>3, <1>4, <1>5 DEF TypeOK
    <3>2. Pending(p) \subseteq offered'[s]
      BY <3>1, <2>1, <1>2
    <3>3. CASE n \in Pending(p)
      BY <3>2, <3>3 DEF Reached
    <3>4. CASE n \notin Pending(p)
      <4> DEFINE U == Unacked(p)
                 K == {k \in Pending(p) : k > n}
                 S == {k \in offered'[s] : k > n /\ target'[k] = p}
      <4>1. U \in SUBSET Msg /\ n \in U
        BY <2>1, <3>1 DEF Unacked
      <4>2. {k \in U : k > n} \in SUBSET Msg
        BY <4>1
      <4>3. Cardinality({k \in U : k > n}) \in Nat
        BY <4>2, MsgFinite
      <4>4. Cardinality({k \in U : k > n}) >= Window
        BY <3>4, <4>1, <4>3, WindowAssumption DEF Pending
      <4>5. Cardinality({k \in {j \in U : Cardinality({l \in U : l > j}) < Window} : k > n})
              >= Window
        <5> HIDE DEF U
        <5> QED BY <4>1, <4>4, SliceKeepsWindow
      <4>6. Cardinality(K) >= Window
        BY <4>5 DEF Pending
      <4>7. S \in SUBSET Msg /\ K \in SUBSET S
        BY <3>2, <2>1, <1>2 DEF PushTypeOK, Pending, Unacked
      <4>8. Cardinality(K) <= Cardinality(S) /\ Cardinality(S) \in Nat /\ Cardinality(K) \in Nat
        <5> HIDE DEF K, S
        <5>1. K \in SUBSET Msg
          BY <4>7
        <5> QED BY <4>7, <5>1, MsgFinite, MoreMessages
      <4>9. Cardinality(S) >= Window
        <5> HIDE DEF K, S
        <5> QED BY <4>6, <4>8, WindowAssumption
      <4> QED BY <4>9, <3>1 DEF Reached
    <3> QED BY <3>3, <3>4
  <2> QED BY <2>3, <2>4
<1>10. NoMessageMissed'
  BY <1>9 DEF NoMessageMissed, Reached
<1> QED BY <1>8, <1>10

(* Steps that write nothing, give no message to anybody and register no    *)
(* connection: those that end or settle one of either.                     *)
LEMMA LessIsMissed ==
  ASSUME HubInv, PresenceInv', PushTypeOK', target' = target,
         \A p \in Pax : Unacked(p)' \subseteq Unacked(p) /\ paxSockets'[p] \subseteq paxSockets[p],
         \A p \in Pax : \A s \in paxSockets'[p] :
           (sock'[s] = "open" => sock[s] = "open") /\ offered'[s] = offered[s]
  PROVE  NoMessageMissed'
<1>1. PushTypeOK /\ NoMessageMissed /\ TypeOK
  BY DEF HubInv, PresenceInv
<1>2. ASSUME NEW p \in Pax, NEW s \in paxSockets'[p], NEW m \in Unacked(p)', sock'[s] = "open"
      PROVE  Reached(p, s, m)'
  <2>1. s \in paxSockets[p] /\ s \in Socks /\ m \in Unacked(p) /\ m \in Msg
    BY <1>1, <1>2 DEF TypeOK, Unacked
  <2>2. Reached(p, s, m)
    BY <2>1, <1>1, <1>2, MissedMeansReached
  <2>3. offered'[s] = offered[s] /\ sock[s] = "open"
    BY <1>2
  <2> QED BY <2>1, <2>2, <2>3, <1>1, ReachedStays
<1> QED BY <1>2 DEF NoMessageMissed, Reached

(* The other steps of a connection or a passenger: none opens a registered *)
(* connection, none registers one.                                         *)
LEMMA OtherReaches ==
  ASSUME HubInv, PresenceInv', PushTypeOK', OtherStep
  PROVE  Unsent' /\ NoMessageMissed'
<1>1. UNCHANGED <<status, target, offered>>
  BY DEF OtherStep, pushVars
<1>2. PushTypeOK /\ Unsent /\ TypeOK
  BY DEF HubInv, PresenceInv
<1>3. /\ \A p \in Pax : paxSockets'[p] \subseteq paxSockets[p]
      /\ \A s \in Socks : sock'[s] = "open" => sock[s] = "open"
  <2>1. CASE \E p \in Pax : PaxNext(p)
    BY <2>1 DEF PaxNext, TimerFires, HttpOnline, HttpOffline, DeleteRow, presenceVars
  <2>2. ASSUME NEW s \in Socks,
               \/ Hello(s) \/ InsertRow(s) \/ SelectRow(s) \/ MarkOnline(s) \/ MarkOffline(s)
               \/ \E p \in Pax : HelloVerified(s, p)
        PROVE  UNCHANGED <<sock, paxSockets>>
    BY <2>2 DEF Hello, HelloVerified, InsertRow, SelectRow, MarkOnline, MarkOffline, presenceVars
  <2>3. ASSUME NEW s \in Socks, HelloRefused(s) \/ HelloFailed(s) \/ ServerClose(s)
        PROVE  /\ UNCHANGED paxSockets
               /\ \A t \in Socks : sock'[t] = "open" => sock[t] = "open"
    BY <2>3, <1>2 DEF HelloRefused, HelloFailed, ServerClose, CloseWs, presenceVars, TypeOK
  <2>4. ASSUME NEW s \in Socks, Close(s)
        PROVE  /\ \A p \in Pax : paxSockets'[p] \subseteq paxSockets[p]
               /\ \A t \in Socks : sock'[t] = "open" => sock[t] = "open"
    BY <2>4, <1>2 DEF Close, TypeOK
  <2> QED BY <2>1, <2>2, <2>3, <2>4 DEF OtherStep
<1>4. \A p \in Pax : Unacked(p)' = Unacked(p)
  BY <1>1 DEF Unacked
<1>5. Unsent'
  BY <1>1, <1>2 DEF Unsent
<1> QED BY <1>1, <1>2, <1>3, <1>4, <1>5, LessIsMissed DEF TypeOK

(* An acknowledgement, a purge and a crash leave less to be reached.       *)
LEMMA EndReaches ==
  ASSUME HubInv, PresenceInv', PushTypeOK',
         \/ \E s \in Socks : Ack(s)
         \/ \E p \in Pax : Purge(p)
         \/ CrashLosesMessages
  PROVE  Unsent' /\ NoMessageMissed'
<1>1. PushTypeOK /\ Unsent /\ TypeOK
  BY DEF HubInv, PresenceInv
<1>2. CASE \E s \in Socks : Ack(s)
  <2>1. PICK m \in Msg :
          /\ status[m] # "none" /\ status' = [status EXCEPT ![m] = "ack"]
          /\ UNCHANGED <<vars, target, offered>>
    BY <1>2, <1>1 DEF Ack, PushTypeOK
  <2>2. Unsent'
    BY <2>1, <1>1 DEF Unsent, PushTypeOK
  <2>3. \A p \in Pax : Unacked(p)' \subseteq Unacked(p)
    BY <2>1, <1>1 DEF Unacked, PushTypeOK
  <2> QED BY <2>1, <2>2, <2>3, LessIsMissed DEF vars
<1>3. CASE \E p \in Pax : Purge(p)
  <2>1. PICK p \in Pax : Purge(p)
    BY <1>3
  <2>2. Unsent'
    BY <2>1, <1>1 DEF Purge, Unsent, PushTypeOK
  <2>3. \A q \in Pax : Unacked(q)' \subseteq Unacked(q)
    BY <2>1, <1>1 DEF Purge, Unacked, PushTypeOK
  <2> QED BY <2>1, <2>2, <2>3, LessIsMissed DEF Purge, vars
<1>4. CASE CrashLosesMessages
  <2>1. Unsent'
    BY <1>4, <1>1 DEF CrashLosesMessages, Unsent, PushTypeOK
  <2>2. \A p \in Pax : paxSockets'[p] = {}
    BY <1>4 DEF CrashLosesMessages, Crash
  <2> QED BY <2>1, <2>2 DEF NoMessageMissed
<1> QED BY <1>2, <1>3, <1>4

(* A connection that is used again was registered for nobody.              *)
LEMMA ReconnectReaches ==
  ASSUME HubInv, PresenceInv', PushTypeOK', NEW s \in Socks, Reconnect(s)
  PROVE  Unsent' /\ NoMessageMissed'
<1>1. PushTypeOK /\ Unsent /\ TypeOK
  BY DEF HubInv, PresenceInv
<1>2. /\ offered' = [offered EXCEPT ![s] = {}] /\ sock' = [sock EXCEPT ![s] = "open"]
      /\ UNCHANGED <<status, target, paxSockets>>
      /\ \A p \in Pax : s \notin paxSockets[p]
  BY DEF Reconnect, Connect, presenceVars
<1>3. Unsent'
  BY <1>1, <1>2 DEF Unsent, PushTypeOK
<1>4. \A p \in Pax : Unacked(p)' = Unacked(p)
  BY <1>2 DEF Unacked
<1>5. \A p \in Pax : \A t \in paxSockets'[p] :
        (sock'[t] = "open" => sock[t] = "open") /\ offered'[t] = offered[t]
  BY <1>1, <1>2 DEF TypeOK, PushTypeOK
<1> QED BY <1>2, <1>3, <1>4, <1>5, LessIsMissed

LEMMA HubPreserves == HubInv /\ [HubNext]_hubVars => HubInv'
<1> SUFFICES ASSUME HubInv, [HubNext]_hubVars PROVE HubInv'
  OBVIOUS
<1>1. PresenceInv'
  BY HubIsPresence, NextPreserves DEF HubInv
<1>2. PushTypeOK'
  BY HubForward DEF HubInv
<1>3. CASE UNCHANGED hubVars
  BY <1>3, <1>1, <1>2
     DEF hubVars, vars, pushVars, HubInv, Unsent, NoMessageMissed, Unacked
<1>4. CASE HubNext
  BY <1>4, <1>1, <1>2, SendReaches, JoinReaches, OtherReaches, EndReaches, ReconnectReaches
     DEF HubNext, HubInv
<1> QED BY <1>3, <1>4

(* However hellos, closes, acknowledgements, purges and crashes interleave *)
(* with the console's sends, no open connection misses a message its       *)
(* passenger has not acknowledged, unless Window newer ones crowd it out.  *)
THEOREM PushInvariant == HubSpec => []PushInv
<1>1. HubInit => HubInv
  BY InitHub
<1>2. HubInv /\ [HubNext]_hubVars => HubInv'
  BY HubPreserves
<1>3. HubInv => PushInv
  BY DEF HubInv, PushInv
<1> QED BY <1>1, <1>2, <1>3, PTL DEF HubSpec

=============================================================================
