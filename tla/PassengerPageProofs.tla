------------------------ MODULE PassengerPageProofs -------------------------
(* Parts of a passenger's browser, for any number of sockets, clients, calls  *)
(* and polls: the dead-reckoning client, the socket that reconnects, and the  *)
(* views of a robot booking.                                                  *)
EXTENDS Booking, Pdr, Reconnect, TLAPS

-----------------------------------------------------------------------------
(* Pdr. What PdrInv leaves out: the socket of the state is one that is being  *)
(* opened or open, and while a start is under way, of which there is one,     *)
(* there is neither a socket nor a timer.                                     *)
PdrCalm ==
  calm =>
    /\ socket # NoSocket => conn[socket] \in {"connecting", "open"}
    /\ Calls # {} => socket = NoSocket /\ ~retry
    /\ \A c, d \in Calls : c = d

PdrIInv == PdrInv /\ PdrCalm

LEMMA InitPdr == PdrInit => PdrIInv
<1> SUFFICES ASSUME PdrInit PROVE PdrIInv
  OBVIOUS
<1>1. PdrTypeOK
  <2>1. {active, stopping, retry, sensors, paused, hidden, stopped} \subseteq BOOLEAN
    BY DEF PdrInit
  <2> QED BY <2>1, PdrAssumption DEF PdrInit, PdrTypeOK
<1>2. Live = {} /\ Calls = {}
  BY DEF PdrInit, Live, Calls
<1> QED BY <1>1, <1>2 DEF PdrInit, PdrIInv, PdrInv, PdrCalm

(* The buttons.                                                               *)
LEMMA TapsPreservePdr ==
  ASSUME PdrIInv, StopPdr \/ \E c \in Starts : StartPdr(c)
  PROVE  PdrIInv'
<1> USE PdrAssumption DEF PdrIInv, PdrInv, PdrTypeOK, PdrCalm, Live, Calls, Dials, stVars
<1>1. CASE StopPdr
  <2>1. PdrTypeOK'
    <3>1. {active, stopping, retry, sensors, paused, hidden, stopped}' \subseteq BOOLEAN
      BY <1>1 DEF StopPdr
    <3> QED BY <1>1, <3>1 DEF StopPdr
  <2>2. calm => Live' = {} /\ Calls' = {}
    BY <1>1 DEF StopPdr
  <2> QED BY <1>1, <2>1, <2>2 DEF StopPdr
<1>2. ASSUME NEW c \in Starts, StartPdr(c) PROVE PdrIInv'
  BY <1>2 DEF StartPdr
<1> QED BY <1>1, <1>2

(* A start goes on, and ends.                                                 *)
LEMMA StartsPreservePdr ==
  ASSUME PdrIInv, NEW c \in Starts,
         Permitted(c) \/ StartFails(c) \/ \E s \in Sockets : SessionMade(c, s)
  PROVE  PdrIInv'
<1> USE PdrAssumption DEF PdrIInv, PdrInv, PdrTypeOK, PdrCalm, Live, Calls, stVars
<1>1. CASE Permitted(c)
  BY <1>1 DEF Permitted
<1>2. CASE StartFails(c)
  BY <1>2 DEF StartFails
<1>3. ASSUME NEW s \in Sockets, SessionMade(c, s) PROVE PdrIInv'
  BY <1>3 DEF SessionMade, ConnectPdrSocket
<1> QED BY <1>1, <1>2, <1>3

(* The sockets, the timer and the visibility of the page.                     *)
LEMMA CallbacksPreservePdr ==
  ASSUME PdrIInv,
         (\E s \in Sockets : OnOpen(s) \/ OnClose(s)) \/ Reconnect \/ OnHidden \/ OnVisible
  PROVE  PdrIInv'
<1> USE PdrAssumption DEF PdrIInv, PdrInv, PdrTypeOK, PdrCalm, Live, Calls
<1>1. ASSUME NEW s \in Sockets, OnOpen(s) PROVE PdrIInv'
  BY <1>1 DEF OnOpen
<1>2. ASSUME NEW s \in Sockets, OnClose(s) PROVE PdrIInv'
  BY <1>2 DEF OnClose
<1>3. CASE Reconnect
  <2>1. CASE session = 0 \/ stopping
    BY <1>3, <2>1 DEF Reconnect
  <2>2. ASSUME NEW s \in Sockets, ConnectPdrSocket(s, session), session # 0
        PROVE  PdrIInv'
    <3>1. /\ retry /\ retry' = FALSE
          /\ UNCHANGED <<calm, session, active, stopping, sensors, paused, hidden,
                         starting, minted, stopped>>
      BY <1>3 DEF Reconnect
    <3>2. PdrTypeOK'
      <4>1. {active, stopping, retry, sensors, paused, hidden, stopped}' \subseteq BOOLEAN
        BY <3>1
      <4> QED BY <2>2, <3>1, <4>1 DEF ConnectPdrSocket
    <3>3. calm => Live = {} /\ Calls = {} /\ ~active
      BY <3>1
    <3>4. calm => Live' = {s} /\ Calls' = {}
      BY <2>2, <3>1, <3>3 DEF ConnectPdrSocket
    <3> QED BY <2>2, <3>1, <3>2, <3>3, <3>4 DEF ConnectPdrSocket
  <2> QED BY <1>3, <2>1, <2>2 DEF Reconnect
<1>4. CASE OnHidden
  BY <1>4 DEF OnHidden
<1>5. CASE OnVisible
  BY <1>5 DEF OnVisible
<1> QED BY <1>1, <1>2, <1>3, <1>4, <1>5

LEMMA PdrPreserves == PdrIInv /\ [PdrNext]_pdrVars => PdrIInv'
<1> SUFFICES ASSUME PdrIInv, [PdrNext]_pdrVars PROVE PdrIInv'
  OBVIOUS
<1>1. CASE UNCHANGED pdrVars
  BY <1>1 DEF pdrVars, stVars, PdrIInv, PdrInv, PdrTypeOK, PdrCalm, Live, Calls
<1>2. CASE PdrNext
  BY <1>2, TapsPreservePdr, StartsPreservePdr, CallbacksPreservePdr
     DEF PdrNext, TogglePdr, TogglePdrPage, PageEnds
<1> QED BY <1>1, <1>2

(* Whatever order permissions, sessions, opens, closes and timers come in, a  *)
(* page nobody taps meanwhile has one socket, of the session in force, reads  *)
(* sensors only for it, and never a socket and a timer.                       *)
THEOREM PdrInvariant == PdrSpec => []PdrInv
<1>1. PdrInit => PdrIInv
  BY InitPdr
<1>2. PdrIInv /\ [PdrNext]_pdrVars => PdrIInv'
  BY PdrPreserves
<1>3. PdrIInv => PdrInv
  BY DEF PdrIInv
<1> QED BY <1>1, <1>2, <1>3, PTL DEF PdrSpec

-----------------------------------------------------------------------------
(* Reconnect. What ReconnectInv leaves out: a name in use belongs to a        *)
(* client, and the effect's client is the one of a page that holds a session. *)
SocketsOwned ==
  /\ \A s \in Lines : line[s].at = "none" => line[s] = NoLine
  /\ \A s \in Lines : line[s].at # "none" => line[s].of \in Clients
  /\ effect = Absent <=> held = Absent
  /\ effect # Absent => ~client[effect].closed /\ client[effect].key = held

ReconnectIInv == ReconnectInv /\ SocketsOwned

ClientRecords ==
  [key: Keys \cup {Absent}, closed: BOOLEAN, timer: BOOLEAN, attempt: 0..MaxDoubling,
   connected: BOOLEAN, ws: Lines \cup {Absent}]
SocketRecords ==
  [at: {"none", "connecting", "open", "closing"}, of: Clients \cup {Absent}, greeted: BOOLEAN]

LEMMA RecordTypes ==
  ReconnectTypeOK <=>
    /\ held \in Keys \cup {Absent}
    /\ effect \in Clients \cup {Absent}
    /\ client \in [Clients -> ClientRecords]
    /\ line \in [Lines -> SocketRecords]
    /\ rtUp \in BOOLEAN /\ reachable \in BOOLEAN /\ inForce \subseteq Keys
    /\ spoke \in {"nothing", "sent", "dropped"}
BY DEF ReconnectTypeOK, ClientRecords, SocketRecords

LEMMA FreshRecords == NoClient \in ClientRecords /\ NoLine \in SocketRecords
BY ReconnectAssumption DEF NoClient, NoLine, ClientRecords, SocketRecords

LEMMA ClosingKeepsType ==
  ASSUME NEW c, client[c] \in ClientRecords
  PROVE  ClosedClient(c) \in ClientRecords
BY DEF ClosedClient, ClientRecords

LEMMA InitReconnect == ReconnectInit => ReconnectIInv
<1> SUFFICES ASSUME ReconnectInit PROVE ReconnectIInv
  OBVIOUS
<1>1. ReconnectTypeOK
  BY FreshRecords, RecordTypes DEF ReconnectInit
<1>2. OnlyOwnLine /\ AlwaysTrying /\ ShownIsOwn /\ SocketsOwned
  BY ReconnectAssumption DEF ReconnectInit, OnlyOwnLine, AlwaysTrying, ShownIsOwn, SocketsOwned,
     NoClient, NoLine
<1> QED BY <1>1, <1>2 DEF ReconnectIInv, ReconnectInv

(* The cleanup hangs up every socket that is not closing already.             *)
LEMMA HangsUp ==
  ASSUME ReconnectIInv, effect # Absent, NEW s \in Lines
  PROVE  /\ Hangs(effect)[s].at \notin {"connecting", "open"}
         /\ Hangs(effect)[s].of = line[s].of
         /\ Hangs(effect)[s].at = "none" <=> line[s].at = "none"
         /\ Hangs(effect)[s].at = "none" => Hangs(effect)[s] = line[s]
         /\ Hangs(effect)[s] \in SocketRecords
<1> USE DEF SocketRecords
<1>1. line[s] \in SocketRecords
  BY DEF ReconnectIInv, ReconnectInv, ReconnectTypeOK
<1>2. line[s].at \in {"connecting", "open"} => client[effect].ws = s
  BY DEF ReconnectIInv, ReconnectInv, OnlyOwnLine
<1> QED BY <1>1, <1>2 DEF Hangs

LEMMA EndPreservesReconnect ==
  ASSUME ReconnectIInv, SessionEnds
  PROVE  ReconnectIInv'
<1> USE ReconnectAssumption
<1>1. effect \in Clients /\ effect # Absent
  BY DEF SessionEnds, ReconnectIInv, ReconnectInv, ReconnectTypeOK, SocketsOwned
<1>2. /\ held' = Absent /\ effect' = Absent /\ rtUp' = FALSE
      /\ client' = [client EXCEPT ![effect] = ClosedClient(effect)]
      /\ UNCHANGED <<reachable, inForce, spoke>>
  BY DEF SessionEnds
<1>3. line' = Hangs(effect)
  BY DEF SessionEnds
<1>4. ReconnectTypeOK'
  <2>1. line' \in [Lines -> SocketRecords]
    <3>1. line' = [s \in Lines |-> line'[s]]
      BY <1>3 DEF Hangs
    <3> QED BY <3>1, <1>1, <1>3, HangsUp
  <2>2. client' \in [Clients -> ClientRecords]
    BY <1>1, <1>2, ClosingKeepsType, RecordTypes DEF ReconnectIInv, ReconnectInv
  <2> QED BY <1>2, <2>1, <2>2
          DEF ReconnectIInv, ReconnectInv, ReconnectTypeOK, ClientRecords, SocketRecords
<1>5. OnlyOwnLine' /\ AlwaysTrying'
  BY <1>1, <1>2, <1>3, HangsUp DEF OnlyOwnLine, AlwaysTrying
<1>6. ShownIsOwn'
  BY <1>1, <1>2 DEF ShownIsOwn, ClosedClient, ReconnectIInv, ReconnectInv, ReconnectTypeOK
<1>7. SocketsOwned'
  BY <1>1, <1>2, <1>3, HangsUp DEF SocketsOwned, ReconnectIInv
<1> QED BY <1>4, <1>5, <1>6, <1>7 DEF ReconnectIInv, ReconnectInv


LEMMA BecomePreservesReconnect ==
  ASSUME ReconnectIInv, NEW k \in Keys, SessionBecomes(k)
  PROVE  ReconnectIInv'
<1> USE ReconnectAssumption
<1>1. PICK c \in Clients \ {effect}, s \in Unused :
        /\ Free(c) /\ effect' = c
        /\ client' = [b \in Clients |->
             CASE b = c -> [NoClient EXCEPT !.key = k, !.closed = FALSE, !.ws = s]
               [] b = effect -> ClosedClient(b)
               [] OTHER -> client[b]]
        /\ line' = [Hangs(effect) EXCEPT ![s] = Connecting(c)]
  BY DEF SessionBecomes
<1>2. held' = k /\ rtUp' = FALSE /\ UNCHANGED <<reachable, inForce, spoke>>
  BY DEF SessionBecomes
<1>3. /\ client \in [Clients -> ClientRecords] /\ line \in [Lines -> SocketRecords]
      /\ effect \in Clients \cup {Absent} /\ s \in Lines /\ line[s] = NoLine
  BY <1>1, RecordTypes DEF ReconnectIInv, ReconnectInv, Unused
<1>4. /\ client'[c] = [key |-> k, closed |-> FALSE, timer |-> FALSE, attempt |-> 0,
                      connected |-> FALSE, ws |-> s]
      /\ \A b \in Clients \ {c} :
           client'[b] = IF b = effect THEN ClosedClient(b) ELSE client[b]
  BY <1>1 DEF NoClient
<1>5. DOMAIN Hangs(effect) = Lines
  BY DEF Hangs
<1>6. line'[s] = Connecting(c) /\ \A t \in Lines \ {s} : line'[t] = Hangs(effect)[t]
  BY <1>1, <1>3, <1>5
<1>7. ASSUME NEW t \in Lines
      PROVE  /\ Hangs(effect)[t].at \notin {"connecting", "open"}
             /\ Hangs(effect)[t].of = line[t].of
             /\ Hangs(effect)[t].at = "none" <=> line[t].at = "none"
             /\ Hangs(effect)[t].at = "none" => Hangs(effect)[t] = line[t]
             /\ Hangs(effect)[t] \in SocketRecords
  <2>1. CASE effect = Absent
    <3>1. Hangs(effect)[t] = line[t]
      BY <2>1 DEF Hangs
    <3>2. line[t].at \notin {"connecting", "open"}
      BY <2>1, <1>3 DEF ReconnectIInv, ReconnectInv, OnlyOwnLine, SocketsOwned, SocketRecords
    <3> QED BY <3>1, <3>2, <1>3
  <2>2. CASE effect # Absent
    BY <2>2, HangsUp
  <2> QED BY <2>1, <2>2
<1>8. ReconnectTypeOK'
  <2>1. client' \in [Clients -> ClientRecords]
    <3>1. client'[c] \in ClientRecords
      BY <1>3, <1>4 DEF ClientRecords
    <3>2. \A b \in Clients \ {c} : client'[b] \in ClientRecords
      BY <1>3, <1>4, ClosingKeepsType
    <3> QED BY <1>1, <3>1, <3>2
  <2>2. line' \in [Lines -> SocketRecords]
    <3>1. Connecting(c) \in SocketRecords
      BY <1>1 DEF Connecting, SocketRecords
    <3> QED BY <1>1, <1>5, <1>6, <1>7, <3>1
  <2> QED BY <1>1, <1>2, <2>1, <2>2
          DEF ReconnectIInv, ReconnectInv, ReconnectTypeOK, ClientRecords, SocketRecords
<1>9. OnlyOwnLine'
  <2>1. \A t \in Lines : line'[t].at \in {"connecting", "open"} => t = s
    BY <1>6, <1>7
  <2>2. /\ line'[s].of = effect' /\ client'[effect'].ws = s
        /\ client'[effect'].key = held' /\ ~client'[effect'].closed
    <3>1. effect' = c /\ held' = k
      BY <1>1, <1>2
    <3>2. line'[s].of = c
      BY <1>6 DEF Connecting
    <3> QED BY <3>1, <3>2, <1>4
  <2> QED BY <2>1, <2>2 DEF OnlyOwnLine
<1>10. LinesOf(c)' = {s}
  BY <1>1, <1>3, <1>6, <1>7 DEF LinesOf, Free, Connecting
<1>11. AlwaysTrying'
  BY <1>1, <1>3, <1>4, <1>10 DEF AlwaysTrying
<1>12. ShownIsOwn'
  <2>1. \A b \in Clients \ {effect} : client[b].closed /\ ~client[b].timer
    BY DEF ShownIsOwn, ReconnectIInv, ReconnectInv
  <2>2. \A b \in Clients : ClosedClient(b).closed /\ ~ClosedClient(b).timer
    BY <1>3 DEF ClosedClient, ClientRecords
  <2> QED BY <2>1, <2>2, <1>1, <1>2, <1>4 DEF ShownIsOwn
<1>13. SocketsOwned'
  <2>1. \A t \in Lines : /\ line'[t].at = "none" => line'[t] = NoLine
                         /\ line'[t].at # "none" => line'[t].of \in Clients
    BY <1>1, <1>6, <1>7 DEF SocketsOwned, ReconnectIInv, Connecting
  <2> QED BY <2>1, <1>1, <1>2, <1>4 DEF SocketsOwned
<1> QED BY <1>8, <1>9, <1>11, <1>12, <1>13 DEF ReconnectIInv, ReconnectInv


-----------------------------------------------------------------------------
(* The steps of one socket.                                                   *)
LEMMA SocketType ==
  ReconnectIInv => client \in [Clients -> ClientRecords] /\ line \in [Lines -> SocketRecords]
BY RecordTypes DEF ReconnectIInv, ReconnectInv

(* A step that starts no socket and ends none, and leaves the clients with    *)
(* their sockets and timers.                                                  *)
LEMMA QuietSocketStep ==
  ASSUME ReconnectIInv, UNCHANGED <<held, effect>>,
         \A t \in Lines :
           /\ line'[t].of = line[t].of
           /\ line'[t].at = "none" <=> line[t].at = "none"
           /\ line'[t].at = "none" => line'[t] = line[t]
           /\ line'[t].at \in {"connecting", "open"} => line[t].at \in {"connecting", "open"},
         \A c \in Clients :
           /\ client'[c].key = client[c].key /\ client'[c].ws = client[c].ws
           /\ client'[c].closed = client[c].closed /\ client'[c].timer = client[c].timer
  PROVE  OnlyOwnLine' /\ AlwaysTrying' /\ SocketsOwned'
<1>1. OnlyOwnLine /\ AlwaysTrying /\ SocketsOwned /\ effect \in Clients \cup {Absent}
  BY RecordTypes DEF ReconnectIInv, ReconnectInv
<1>2. ASSUME NEW t \in Lines, line'[t].at \in {"connecting", "open"}
      PROVE  /\ line'[t].of = effect' /\ client'[effect'].ws = t
             /\ client'[effect'].key = held' /\ ~client'[effect'].closed
  <2>1. /\ line[t].of = effect /\ client[effect].ws = t
        /\ client[effect].key = held /\ ~client[effect].closed
    BY <1>1, <1>2 DEF OnlyOwnLine
  <2>2. effect \in Clients
    BY <1>1, <1>2, <2>1 DEF SocketsOwned
  <2> QED BY <2>1, <2>2
<1>3. \A c \in Clients : LinesOf(c)' = LinesOf(c)
  BY DEF LinesOf
<1>4. AlwaysTrying'
  BY <1>1, <1>3 DEF AlwaysTrying
<1>5. SocketsOwned'
  BY <1>1 DEF SocketsOwned
<1> QED BY <1>2, <1>4, <1>5 DEF OnlyOwnLine

LEMMA OpenPreservesReconnect ==
  ASSUME ReconnectIInv, NEW s \in Lines, OnLineOpen(s)
  PROVE  ReconnectIInv'
<1>1. line[s].of = effect /\ effect \in Clients
  BY DEF OnLineOpen, ReconnectIInv, ReconnectInv, OnlyOwnLine, SocketsOwned
<1>2. client \in [Clients -> ClientRecords] /\ line \in [Lines -> SocketRecords]
  BY SocketType
<1>3. /\ client' = [client EXCEPT ![effect] = [client[effect] EXCEPT !.connected = TRUE, !.attempt = 0]]
      /\ line' = [line EXCEPT ![s] = [line[s] EXCEPT !.at = "open"]]
      /\ line[s].at = "connecting"
      /\ UNCHANGED <<held, effect, reachable, inForce, spoke>> /\ rtUp' = TRUE
  BY <1>1, <1>2 DEF ClientRecords, OnLineOpen
<1>4. client' \in [Clients -> ClientRecords] /\ line' \in [Lines -> SocketRecords]
  <2>1. [client[effect] EXCEPT !.connected = TRUE, !.attempt = 0] \in ClientRecords
    <3>1. 0 \in 0..MaxDoubling /\ client[effect] \in ClientRecords
      BY <1>1, <1>2, ReconnectAssumption
    <3>2. \A r \in ClientRecords, n \in 0..MaxDoubling :
            [r EXCEPT !.connected = TRUE, !.attempt = n] \in ClientRecords
      BY DEF ClientRecords
    <3> QED BY <3>1, <3>2
  <2>2. [line[s] EXCEPT !.at = "open"] \in SocketRecords
    BY <1>2 DEF SocketRecords
  <2> QED BY <1>1, <1>2, <1>3, <2>1, <2>2
<1>5. ReconnectTypeOK'
  BY <1>3, <1>4 DEF ReconnectIInv, ReconnectInv, ReconnectTypeOK, ClientRecords, SocketRecords
<1>6. \A t \in Lines :
        /\ line'[t].of = line[t].of
        /\ line'[t].at = "none" <=> line[t].at = "none"
        /\ line'[t].at = "none" => line'[t] = line[t]
        /\ line'[t].at \in {"connecting", "open"} => line[t].at \in {"connecting", "open"}
  BY <1>2, <1>3 DEF SocketRecords
<1>7. /\ \A c \in Clients :
           /\ client'[c].key = client[c].key /\ client'[c].ws = client[c].ws
           /\ client'[c].closed = client[c].closed /\ client'[c].timer = client[c].timer
      /\ client'[effect].connected
  BY <1>1, <1>2, <1>3 DEF ClientRecords
<1>8. OnlyOwnLine' /\ AlwaysTrying' /\ SocketsOwned'
  BY <1>3, <1>6, <1>7, QuietSocketStep
<1>9. ShownIsOwn'
  BY <1>1, <1>3, <1>7, ReconnectAssumption DEF ReconnectIInv, ReconnectInv, ShownIsOwn
<1> QED BY <1>5, <1>8, <1>9 DEF ReconnectIInv, ReconnectInv

LEMMA ReadPreservesReconnect ==
  ASSUME ReconnectIInv, NEW s \in Lines, HelloRead(s) \/ LineBreaks(s)
  PROVE  ReconnectIInv'
<1>1. /\ \/ line' = [line EXCEPT ![s] = [line[s] EXCEPT !.greeted = TRUE]]
         \/ line' = [line EXCEPT ![s] = [line[s] EXCEPT !.at = "closing"]]
      /\ line[s].at \in {"connecting", "open"}
      /\ UNCHANGED <<held, effect, client, rtUp, reachable, inForce, spoke>>
  BY DEF HelloRead, LineBreaks
<1>2. client \in [Clients -> ClientRecords] /\ line \in [Lines -> SocketRecords]
  BY SocketType
<1>3. line' \in [Lines -> SocketRecords]
  <2>1. /\ [line[s] EXCEPT !.greeted = TRUE] \in SocketRecords
        /\ [line[s] EXCEPT !.at = "closing"] \in SocketRecords
    BY <1>2 DEF SocketRecords
  <2> QED BY <1>1, <1>2, <2>1
<1>4. ReconnectTypeOK'
  BY <1>1, <1>2, <1>3 DEF ReconnectIInv, ReconnectInv, ReconnectTypeOK, ClientRecords, SocketRecords
<1>5. \A t \in Lines :
        /\ line'[t].of = line[t].of
        /\ line'[t].at = "none" <=> line[t].at = "none"
        /\ line'[t].at = "none" => line'[t] = line[t]
        /\ line'[t].at \in {"connecting", "open"} => line[t].at \in {"connecting", "open"}
  BY <1>1, <1>2 DEF SocketRecords
<1>6. OnlyOwnLine' /\ AlwaysTrying' /\ SocketsOwned'
  BY <1>1, <1>5, QuietSocketStep
<1>7. ShownIsOwn'
  BY <1>1 DEF ReconnectIInv, ReconnectInv, ShownIsOwn
<1> QED BY <1>4, <1>6, <1>7 DEF ReconnectIInv, ReconnectInv


(* onclose: of the effect's client it starts the timer, of another nothing.   *)
LEMMA AfterCloseType ==
  ASSUME NEW r \in ClientRecords
  PROVE  /\ AfterClose(r) \in ClientRecords
         /\ AfterClose(r).key = r.key /\ AfterClose(r).ws = r.ws
         /\ AfterClose(r).closed = r.closed
         /\ AfterClose(r).timer = (r.timer \/ ~r.closed)
<1>1. r.attempt \in 0..MaxDoubling /\ MinOf(r.attempt + 1, MaxDoubling) \in 0..MaxDoubling
  BY ReconnectAssumption DEF ClientRecords, MinOf
<1>2. /\ r.closed \in BOOLEAN /\ r.timer \in BOOLEAN
      /\ [r EXCEPT !.connected = FALSE] \in ClientRecords
  BY DEF ClientRecords
<1>3. CASE r.closed
  BY <1>2, <1>3 DEF AfterClose, ClientRecords
<1>4. CASE ~r.closed
  <2>1. AfterClose(r) = [r EXCEPT !.connected = FALSE, !.timer = TRUE,
                                  !.attempt = MinOf(r.attempt + 1, MaxDoubling)]
    BY <1>4 DEF AfterClose, Scheduled, ClientRecords
  <2>2. AfterClose(r) \in ClientRecords
    <3> \A n \in 0..MaxDoubling :
          [r EXCEPT !.connected = FALSE, !.timer = TRUE, !.attempt = n] \in ClientRecords
      BY DEF ClientRecords
    <3> QED BY <2>1, <1>1
  <2> QED BY <1>2, <1>4, <2>1, <2>2 DEF ClientRecords
<1> QED BY <1>3, <1>4

LEMMA ClosedPreservesReconnect ==
  ASSUME ReconnectIInv, NEW s \in Lines, OnLineClosed(s)
  PROVE  ReconnectIInv'
<1> DEFINE c == line[s].of
<1>1. /\ client \in [Clients -> ClientRecords] /\ line \in [Lines -> SocketRecords]
      /\ OnlyOwnLine /\ AlwaysTrying /\ ShownIsOwn /\ SocketsOwned
      /\ effect \in Clients \cup {Absent}
  BY SocketType, RecordTypes DEF ReconnectIInv, ReconnectInv
<1>2. /\ line' = [line EXCEPT ![s] = NoLine]
      /\ client' = [client EXCEPT ![c] = AfterClose(client[c])]
      /\ rtUp' = FALSE /\ UNCHANGED <<held, effect, reachable, inForce, spoke>>
      /\ line[s].at = "closing" /\ c \in Clients
  BY <1>1 DEF OnLineClosed, SocketsOwned
<1> HIDE DEF c
<1>3. client' \in [Clients -> ClientRecords] /\ line' \in [Lines -> SocketRecords]
  BY <1>1, <1>2, AfterCloseType, FreshRecords
<1>4. ReconnectTypeOK'
  BY <1>2, <1>3 DEF ReconnectIInv, ReconnectInv, ReconnectTypeOK, ClientRecords, SocketRecords
<1>5. /\ NoLine.at = "none" /\ NoLine.of = Absent
      /\ line'[s] = NoLine /\ \A t \in Lines \ {s} : line'[t] = line[t]
  BY <1>1, <1>2 DEF NoLine
<1>6. \A b \in Clients :
        /\ client'[b].key = client[b].key /\ client'[b].ws = client[b].ws
        /\ client'[b].closed = client[b].closed
        /\ client'[b].timer = (client[b].timer \/ (b = c /\ ~client[b].closed))
  BY <1>1, <1>2, AfterCloseType DEF ClientRecords
<1>7. OnlyOwnLine'
  <2> SUFFICES ASSUME NEW t \in Lines, line'[t].at \in {"connecting", "open"}
               PROVE  /\ line'[t].of = effect' /\ client'[effect'].ws = t
                      /\ client'[effect'].key = held' /\ ~client'[effect'].closed
    BY DEF OnlyOwnLine
  <2>1. t # s /\ line'[t] = line[t]
    BY <1>5
  <2>2. line[t].of = effect /\ line[t].of \in Clients
    BY <1>1, <2>1 DEF OnlyOwnLine, SocketsOwned
  <2> QED BY <1>1, <1>2, <1>6, <2>1, <2>2 DEF OnlyOwnLine
<1>8. AlwaysTrying'
  <2> SUFFICES ASSUME effect # Absent
               PROVE  \/ client'[effect].timer /\ LinesOf(effect)' = {}
                      \/ ~client'[effect].timer /\ \E t \in Lines : LinesOf(effect)' = {t}
    BY <1>2 DEF AlwaysTrying, LinesOf
  <2>1. effect \in Clients /\ ~client[effect].closed
    BY <1>1 DEF SocketsOwned
  <2>2. LinesOf(effect)' = LinesOf(effect) \ {s}
    BY <1>2, <1>5, <2>1, ReconnectAssumption DEF LinesOf
  <2>3. CASE c = effect
    <3>1. LinesOf(effect) = {s}
      BY <1>1, <2>3 DEF AlwaysTrying, LinesOf, c
    <3> QED BY <1>6, <2>1, <2>2, <2>3, <3>1
  <2>4. CASE c # effect
    <3>1. s \notin LinesOf(effect)
      BY <2>4 DEF LinesOf, c
    <3> QED BY <1>1, <1>6, <2>1, <2>2, <2>4, <3>1 DEF AlwaysTrying
  <2> QED BY <2>3, <2>4
<1>9. ShownIsOwn'
  BY <1>1, <1>2, <1>6 DEF ShownIsOwn
<1>10. SocketsOwned'
  BY <1>1, <1>2, <1>5, <1>6 DEF SocketsOwned
<1> QED BY <1>4, <1>7, <1>8, <1>9, <1>10 DEF ReconnectIInv, ReconnectInv

(* The timer: only the effect's client has one, and it has no socket then.    *)
LEMMA TimerPreservesReconnect ==
  ASSUME ReconnectIInv, NEW c \in Clients, RetryTimer(c)
  PROVE  ReconnectIInv'
<1> USE ReconnectAssumption
<1>1. /\ client \in [Clients -> ClientRecords] /\ line \in [Lines -> SocketRecords]
      /\ OnlyOwnLine /\ AlwaysTrying /\ ShownIsOwn /\ SocketsOwned
  BY SocketType DEF ReconnectIInv, ReconnectInv
<1>2. PICK s \in Lines :
        /\ line[s] = NoLine
        /\ client' = [client EXCEPT ![c] = [client[c] EXCEPT !.timer = FALSE, !.ws = s]]
        /\ line' = [line EXCEPT ![s] = Connecting(c)]
        /\ UNCHANGED <<held, effect, rtUp, reachable, inForce, spoke>>
  BY <1>1 DEF RetryTimer, Unused, ClientRecords
<1>3. c = effect /\ client[c].timer
  BY <1>1 DEF RetryTimer, ShownIsOwn
<1>4. LinesOf(c) = {} /\ ~client[c].closed /\ client[c].key = held
  BY <1>1, <1>3 DEF AlwaysTrying, SocketsOwned
<1>5. client' \in [Clients -> ClientRecords] /\ line' \in [Lines -> SocketRecords]
  <2>1. [client[c] EXCEPT !.timer = FALSE, !.ws = s] \in ClientRecords
    BY <1>1 DEF ClientRecords
  <2>2. Connecting(c) \in SocketRecords
    BY DEF Connecting, SocketRecords
  <2> QED BY <1>1, <1>2, <2>1, <2>2
<1>6. ReconnectTypeOK'
  BY <1>2, <1>5 DEF ReconnectIInv, ReconnectInv, ReconnectTypeOK, ClientRecords, SocketRecords
<1>7. /\ client'[c].key = client[c].key /\ client'[c].ws = s /\ ~client'[c].timer
      /\ client'[c].closed = client[c].closed /\ client'[c].connected = client[c].connected
      /\ \A b \in Clients \ {c} : client'[b] = client[b]
  BY <1>1, <1>2 DEF ClientRecords
<1>8. /\ line'[s].at = "connecting" /\ line'[s].of = c
      /\ \A t \in Lines \ {s} : line'[t] = line[t]
  BY <1>1, <1>2 DEF Connecting
<1>9. \A t \in Lines : line[t].of # c
  BY <1>4 DEF LinesOf
<1>10. OnlyOwnLine'
  BY <1>1, <1>2, <1>3, <1>4, <1>7, <1>8, <1>9 DEF OnlyOwnLine
<1>11. AlwaysTrying'
  <2>1. LinesOf(c)' = {s}
    BY <1>8, <1>9 DEF LinesOf
  <2> QED BY <1>2, <1>3, <1>7, <2>1 DEF AlwaysTrying
<1>12. ShownIsOwn'
  BY <1>1, <1>2, <1>3, <1>7 DEF ShownIsOwn
<1>13. SocketsOwned'
  BY <1>1, <1>2, <1>3, <1>4, <1>7, <1>8 DEF SocketsOwned
<1> QED BY <1>6, <1>10, <1>11, <1>12, <1>13 DEF ReconnectIInv, ReconnectInv

LEMMA ReconnectPreserves == ReconnectIInv /\ [ReconnectNext]_reconnectVars => ReconnectIInv'
<1> SUFFICES ASSUME ReconnectIInv, [ReconnectNext]_reconnectVars PROVE ReconnectIInv'
  OBVIOUS
<1>1. ASSUME UNCHANGED <<held, effect, client, line, rtUp>>,
             reachable' \in BOOLEAN, inForce' \subseteq Keys,
             spoke' \in {"nothing", "sent", "dropped"}
      PROVE  ReconnectIInv'
  BY <1>1 DEF ReconnectIInv, ReconnectInv, ReconnectTypeOK, OnlyOwnLine, AlwaysTrying,
     ShownIsOwn, SocketsOwned, LinesOf
<1>2. reachable \in BOOLEAN /\ inForce \subseteq Keys /\ spoke \in {"nothing", "sent", "dropped"}
  BY DEF ReconnectIInv, ReconnectInv, ReconnectTypeOK
<1>3. CASE PageSpeaks
  BY <1>1, <1>2, <1>3 DEF PageSpeaks
<1>4. CASE TouchTurns
  BY <1>1, <1>2, <1>4 DEF TouchTurns
<1>5. ASSUME NEW k \in Keys, SessionTurns(k) PROVE ReconnectIInv'
  <2>1. inForce' \subseteq Keys
    BY <1>2, <1>5 DEF SessionTurns
  <2> QED BY <1>1, <1>2, <1>5, <2>1 DEF SessionTurns
<1>6. CASE UNCHANGED reconnectVars
  BY <1>1, <1>2, <1>6 DEF reconnectVars
<1> QED BY <1>3, <1>4, <1>5, <1>6, EndPreservesReconnect, BecomePreservesReconnect,
           OpenPreservesReconnect, ReadPreservesReconnect, ClosedPreservesReconnect,
           TimerPreservesReconnect
        DEF ReconnectNext

(* Whenever a socket opens, breaks or closes late, whatever session the page  *)
(* has come to hold meanwhile: only the current client has a socket that is   *)
(* open or being opened, and it has one, or its timer, at any time.           *)
THEOREM ReconnectInvariant == ReconnectSpec => []ReconnectInv
<1>1. ReconnectInit => ReconnectIInv
  BY InitReconnect
<1>2. ReconnectIInv /\ [ReconnectNext]_reconnectVars => ReconnectIInv'
  BY ReconnectPreserves
<1>3. ReconnectIInv => ReconnectInv
  BY DEF ReconnectIInv
<1> QED BY <1>1, <1>2, <1>3, PTL DEF ReconnectSpec


-----------------------------------------------------------------------------
(* Booking. Every value that is on its way to a view counts, the answers too: *)
(* it is what some write left.                                                *)
Posts == {Idle} \cup Asked \cup Answer

BookingTypeOK ==
  /\ booking \in MaybeBooking /\ log \in Seq(Bookings) /\ Len(log) <= MaxWrites
  /\ board \in MaybeBooking /\ card \in MaybeBooking
  /\ cleared \in BOOLEAN
  /\ boardPost \in Posts /\ cardPost \in Posts
  /\ polls \in [Polls -> Posts]
  /\ boardFrames \in Seq(MaybeBooking) /\ cardFrames \in Seq(MaybeBooking)

(* The v-th write is v.                                                       *)
Made(v, lg) == v # NoBooking => v.at \in 1..Len(lg) /\ v = lg[v.at]

AllMade(f, lg) == \A i \in 1..Len(f) : Made(f[i], lg)
AnswerMade(r, lg) == r.at = "answer" => Made(r.got, lg)

EverywhereMade ==
  /\ booking # NoBooking => Len(log) > 0 /\ booking.at = Len(log)
  /\ Made(booking, log) /\ Made(board, log) /\ Made(card, log)
  /\ AllMade(boardFrames, log) /\ AllMade(cardFrames, log)
  /\ AnswerMade(boardPost, log) /\ AnswerMade(cardPost, log)
  /\ \A p \in Polls : AnswerMade(polls[p], log)

BookingIInv == BookingTypeOK /\ EverywhereMade

LEMMA PostTypes ==
  /\ Idle \in Posts /\ Idle.at = "idle"
  /\ \A op \in {"submit", "cancel", "advance", "fetch"} : [at |-> "sent", op |-> op] \in Posts
  /\ \A op \in {"submit", "cancel", "advance", "fetch", "refused"} :
       \A v \in MaybeBooking : [at |-> "answer", op |-> op, got |-> v] \in Posts
  /\ \A r \in Posts : r.at = "answer" => r.got \in MaybeBooking
  /\ \A r \in Posts : r.at = "sent" => r.op \in {"submit", "cancel", "advance", "fetch"}
BY DEF Posts, Idle, Asked, Answer

LEMMA InitBooking == BookingInit => BookingIInv
<1> SUFFICES ASSUME BookingInit PROVE BookingIInv
  OBVIOUS
<1> USE DEF BookingInit, MaybeBooking
<1>1. BookingTypeOK
  <2>1. <<>> \in Seq(Bookings) /\ Len(<<>>) = 0 /\ <<>> \in Seq(MaybeBooking)
    OBVIOUS
  <2>2. log \in Seq(Bookings) /\ Len(log) <= MaxWrites
    BY <2>1, BookingAssumption
  <2>3. cardPost \in Posts /\ boardPost \in Posts /\ polls \in [Polls -> Posts]
    BY PostTypes
  <2> QED BY <2>1, <2>2, <2>3 DEF BookingTypeOK
<1>2. EverywhereMade
  BY PostTypes DEF BookingInit, EverywhereMade, Made, AllMade, AnswerMade
<1> QED BY <1>1, <1>2 DEF BookingIInv

(* What the hub does to its booking leaves every copy in the log.             *)
Written ==
  /\ booking' \in Bookings /\ booking'.at = Len(log) + 1
  /\ Len(log) < MaxWrites /\ log' = Append(log, booking')

HubStep == UNCHANGED <<booking, log>> \/ (booking' = NoBooking /\ log' = log) \/ Written

LEMMA StaysMade ==
  ASSUME BookingIInv, HubStep
  PROVE  /\ booking' \in MaybeBooking /\ log' \in Seq(Bookings) /\ Len(log') <= MaxWrites
         /\ booking' # NoBooking => Len(log') > 0 /\ booking'.at = Len(log')
         /\ Made(booking', log')
         /\ \A v \in MaybeBooking : Made(v, log) => Made(v, log')
<1> USE BookingAssumption, NoBookingAssumption
    DEF BookingIInv, BookingTypeOK, MaybeBooking, EverywhereMade
<1>1. CASE UNCHANGED <<booking, log>>
  BY <1>1 DEF Made
<1>2. CASE booking' = NoBooking /\ log' = log
  BY <1>2 DEF Made
<1>3. CASE Written
  <2>1. /\ log' \in Seq(Bookings) /\ Len(log') = Len(log) + 1
        /\ log'[Len(log) + 1] = booking' /\ Len(log) \in Nat
        /\ \A i \in 1..Len(log) : log'[i] = log[i]
    BY <1>3 DEF Written
  <2>2. ASSUME NEW v \in MaybeBooking, Made(v, log) PROVE Made(v, log')
    BY <2>1, <2>2 DEF Made
  <2>3. Made(booking', log')
    BY <1>3, <2>1 DEF Made, Written
  <2> QED BY <1>3, <2>1, <2>2, <2>3 DEF Written
<1> QED BY <1>1, <1>2, <1>3 DEF HubStep

(* So does every list of them, and every answer.                              *)
LEMMA CopiesMade ==
  ASSUME BookingIInv, HubStep
  PROVE  /\ Made(board, log') /\ Made(card, log')
         /\ AllMade(boardFrames, log') /\ AllMade(cardFrames, log')
         /\ AnswerMade(boardPost, log') /\ AnswerMade(cardPost, log')
         /\ \A p \in Polls : AnswerMade(polls[p], log')
<1>1. BookingTypeOK /\ EverywhereMade
  BY DEF BookingIInv
<1>2. AllMade(boardFrames, log') /\ AllMade(cardFrames, log')
  BY <1>1, StaysMade DEF BookingTypeOK, EverywhereMade, AllMade
<1>3. ASSUME NEW r \in Posts, AnswerMade(r, log)
      PROVE  AnswerMade(r, log')
  BY <1>3, StaysMade, PostTypes DEF AnswerMade
<1> QED BY <1>1, <1>2, <1>3, StaysMade DEF BookingTypeOK, EverywhereMade

(* Frames: one more, one less, none.                                          *)
LEMMA FramesMade ==
  ASSUME NEW f \in Seq(MaybeBooking), NEW lg, AllMade(f, lg)
  PROVE  /\ \A v \in MaybeBooking : Made(v, lg) =>
              Append(f, v) \in Seq(MaybeBooking) /\ AllMade(Append(f, v), lg)
         /\ f # <<>> => /\ Head(f) \in MaybeBooking /\ Made(Head(f), lg)
                        /\ Tail(f) \in Seq(MaybeBooking) /\ AllMade(Tail(f), lg)
         /\ <<>> \in Seq(MaybeBooking) /\ AllMade(<<>>, lg)
<1>1. ASSUME NEW v \in MaybeBooking, Made(v, lg)
      PROVE  Append(f, v) \in Seq(MaybeBooking) /\ AllMade(Append(f, v), lg)
  BY <1>1 DEF AllMade
<1>2. ASSUME f # <<>>
      PROVE  /\ Head(f) \in MaybeBooking /\ Made(Head(f), lg)
             /\ Tail(f) \in Seq(MaybeBooking) /\ AllMade(Tail(f), lg)
  BY <1>2 DEF AllMade
<1>3. <<>> \in Seq(MaybeBooking) /\ AllMade(<<>>, lg)
  BY DEF AllMade
<1> QED BY <1>1, <1>2, <1>3

(* A broadcast of what the hub now keeps.                                     *)
LEMMA BroadcastMade ==
  ASSUME BookingIInv, HubStep, Broadcast(booking') \/ UNCHANGED <<boardFrames, cardFrames>>
  PROVE  /\ boardFrames' \in Seq(MaybeBooking) /\ AllMade(boardFrames', log')
         /\ cardFrames' \in Seq(MaybeBooking) /\ AllMade(cardFrames', log')
BY StaysMade, CopiesMade, FramesMade DEF Broadcast, BookingIInv, BookingTypeOK

(* A write and a clearance are such steps.                                    *)
LEMMA WriteIsStep ==
  ASSUME BookingIInv, NEW b \in Bookings, b.at = Len(log) + 1, Write(b)
  PROVE  Written /\ HubStep /\ Broadcast(booking')
BY DEF Write, Set, HubStep, Written

LEMMA ClearIsStep ==
  ASSUME Clear
  PROVE  /\ HubStep /\ booking' = NoBooking
         /\ Broadcast(booking') \/ UNCHANGED <<boardFrames, cardFrames>>
BY DEF Clear, Set, HubStep

LEMMA AdminIsStep ==
  ASSUME BookingIInv, NEW op, AdminRobotRequest(op)
  PROVE  /\ HubStep
         /\ Broadcast(booking') \/ UNCHANGED <<boardFrames, cardFrames>>
         /\ booking' # NoBooking => Written /\ booking'.id = booking.id
<1>1. CASE Clear
  BY <1>1, ClearIsStep
<1>2. CASE /\ booking # NoBooking
           /\ \E rank \in NextStatus(op) :
                Write([id |-> booking.id, rank |-> rank, at |-> Len(log) + 1])
  <2>1. PICK rank \in NextStatus(op) : Write([id |-> booking.id, rank |-> rank, at |-> Len(log) + 1])
    BY <1>2
  <2>2. booking \in Bookings /\ Len(log) \in Nat /\ Len(log) < MaxWrites /\ MaxWrites \in Nat
    BY <1>2, <2>1, BookingAssumption DEF BookingIInv, BookingTypeOK, MaybeBooking, Write
  <2>3. rank \in 1..LastRank
    BY <2>1, <2>2, BookingAssumption DEF NextStatus, Bookings
  <2> DEFINE b == [id |-> booking.id, rank |-> rank, at |-> Len(log) + 1]
  <2>4. b \in Bookings /\ b.at = Len(log) + 1 /\ b.id = booking.id
    <3>1. Len(log) + 1 \in 1..MaxWrites
      BY <2>2
    <3> QED BY <2>2, <2>3, <3>1 DEF Bookings
  <2>5. booking' = [id |-> booking.id, rank |-> rank, at |-> Len(log) + 1]
    BY <2>1 DEF Write, Set
  <2> QED BY <2>1, <2>4, <2>5, WriteIsStep
<1> QED BY <1>1, <1>2 DEF AdminRobotRequest

-----------------------------------------------------------------------------
(* The hub's routes.                                                          *)
LEMMA RoutesPreserveBooking ==
  ASSUME BookingIInv, Submit \/ CancelOwn \/ Fetch \/ AdminActs \/ OtherActs
  PROVE  BookingIInv'
<1>1. BookingTypeOK /\ EverywhereMade
  BY DEF BookingIInv
<1>2. CASE Submit
  <2>1. CASE booking # NoBooking /\ UNCHANGED <<booking, log, boardFrames, cardFrames>>
             /\ cardPost' = [at |-> "answer", op |-> "refused", got |-> booking]
    BY <1>1, <1>2, <2>1, PostTypes
       DEF Submit, BookingIInv, BookingTypeOK, EverywhereMade, AnswerMade
  <2>2. CASE /\ Write([id |-> Len(log) + 1, rank |-> 1, at |-> Len(log) + 1])
             /\ cardPost' = [at |-> "answer", op |-> "submit", got |-> booking']
    <3>1. [id |-> Len(log) + 1, rank |-> 1, at |-> Len(log) + 1] \in Bookings
      BY <1>1, <2>2, BookingAssumption DEF Write, BookingTypeOK, Bookings
    <3>2. HubStep /\ Broadcast(booking')
      BY <2>2, <3>1, WriteIsStep
    <3> QED BY <1>1, <1>2, <2>2, <3>2, StaysMade, CopiesMade, BroadcastMade, PostTypes
            DEF Submit, BookingIInv, BookingTypeOK, EverywhereMade, AnswerMade
  <2> QED BY <1>2, <2>1, <2>2 DEF Submit
<1>3. CASE CancelOwn
  <2>1. HubStep /\ (Broadcast(booking') \/ UNCHANGED <<boardFrames, cardFrames>>)
    BY <1>3, ClearIsStep DEF CancelOwn
  <2>2. cardPost' \in Posts /\ AnswerMade(cardPost', log')
    BY <1>3, PostTypes DEF CancelOwn, AnswerMade, Made, MaybeBooking
  <2> QED BY <1>1, <1>3, <2>1, <2>2, BroadcastMade, StaysMade, CopiesMade
          DEF CancelOwn, BookingIInv, BookingTypeOK, EverywhereMade
<1>4. CASE Fetch
  BY <1>1, <1>4, PostTypes
     DEF Fetch, boardVars, BookingIInv, BookingTypeOK, EverywhereMade, AnswerMade
<1>5. CASE AdminActs
  <2>1. HubStep /\ (Broadcast(booking') \/ UNCHANGED <<boardFrames, cardFrames>>)
    BY <1>5, AdminIsStep DEF AdminActs
  <2>2. boardPost' \in Posts /\ AnswerMade(boardPost', log')
    <3>1. boardPost.op \in {"submit", "cancel", "advance", "fetch"}
      BY <1>1, <1>5, PostTypes DEF AdminActs, BookingTypeOK
    <3> QED BY <1>5, <2>1, <3>1, PostTypes, StaysMade DEF AdminActs, AnswerMade
  <2> QED BY <1>1, <1>5, <2>1, <2>2, BroadcastMade, StaysMade, CopiesMade
          DEF AdminActs, BookingIInv, BookingTypeOK, EverywhereMade
<1>6. CASE OtherActs
  <2>1. HubStep /\ (Broadcast(booking') \/ UNCHANGED <<boardFrames, cardFrames>>)
    BY <1>6, AdminIsStep DEF OtherActs
  <2> QED BY <1>1, <1>6, <2>1, BroadcastMade, StaysMade, CopiesMade
          DEF OtherActs, BookingIInv, BookingTypeOK, EverywhereMade
<1> QED BY <1>2, <1>3, <1>4, <1>5, <1>6

(* The booking is dropped without a word; links turn.                         *)
LEMMA DropsPreserveBooking ==
  ASSUME BookingIInv, Forget \/ HubRestarts \/ BoardLinkTurns \/ CardLinkTurns
  PROVE  BookingIInv'
<1>1. HubStep
  BY DEF HubStep, Forget, HubRestarts, BoardLinkTurns, CardLinkTurns
<1>2. /\ boardFrames' \in {boardFrames, <<>>} /\ cardFrames' \in {cardFrames, <<>>}
      /\ UNCHANGED <<board, boardPost, polls, card, cleared, cardPost>>
  BY DEF Forget, HubRestarts, BoardLinkTurns, CardLinkTurns, boardVars, cardVars
<1>3. BookingTypeOK
  BY DEF BookingIInv
<1>4. /\ boardFrames' \in Seq(MaybeBooking) /\ AllMade(boardFrames', log')
      /\ cardFrames' \in Seq(MaybeBooking) /\ AllMade(cardFrames', log')
  BY <1>1, <1>2, <1>3, CopiesMade, FramesMade DEF BookingTypeOK
<1> QED BY <1>1, <1>2, <1>3, <1>4, StaysMade, CopiesMade
        DEF BookingIInv, BookingTypeOK, EverywhereMade

(* The console.                                                               *)
LEMMA BoardPreservesBooking ==
  ASSUME BookingIInv,
         \/ BoardAnswered \/ BoardReads
         \/ \E op \in {"cancel", "advance"} : BoardClicks(op)
         \/ \E p \in Polls : PollAsks(p) \/ PollServed(p) \/ PollAnswered(p) \/ PollFails(p)
  PROVE  BookingIInv'
<1>1. BookingTypeOK /\ EverywhereMade
  BY DEF BookingIInv
<1> USE DEF cardVars, BookingIInv, BookingTypeOK, EverywhereMade
<1>2. CASE BoardAnswered
  BY <1>1, <1>2, PostTypes DEF BoardAnswered, AnswerMade
<1>3. CASE BoardReads
  BY <1>1, <1>3, FramesMade DEF BoardReads
<1>4. ASSUME NEW op \in {"cancel", "advance"}, BoardClicks(op) PROVE BookingIInv'
  BY <1>1, <1>4, PostTypes DEF BoardClicks, AnswerMade
<1>5. ASSUME NEW p \in Polls, PollAsks(p) \/ PollServed(p) \/ PollFails(p) PROVE BookingIInv'
  <2>1. polls' \in [Polls -> Posts] /\ \A q \in Polls : AnswerMade(polls'[q], log)
    BY <1>1, <1>5, PostTypes DEF PollAsks, PollServed, PollFails, AnswerMade
  <2>2. UNCHANGED <<booking, log, boardLink, boardFrames, board, boardPost, cardVars>>
    BY <1>5 DEF PollAsks, PollServed, PollFails
  <2> QED BY <1>1, <2>1, <2>2
<1>6. ASSUME NEW p \in Polls, PollAnswered(p) PROVE BookingIInv'
  BY <1>1, <1>6, PostTypes DEF PollAnswered, AnswerMade
<1> QED BY <1>2, <1>3, <1>4, <1>5, <1>6

(* The passenger's page.                                                      *)
LEMMA CardPreservesBooking ==
  ASSUME BookingIInv,
         CardSubmits \/ CardCancels \/ CardAnswered \/ CardPostFails \/ CardReads \/ CardReloads
  PROVE  BookingIInv'
<1>1. BookingTypeOK /\ EverywhereMade
  BY DEF BookingIInv
<1> USE DEF boardVars, BookingIInv, BookingTypeOK, EverywhereMade
<1>2. CASE CardSubmits \/ CardCancels \/ CardPostFails
  BY <1>1, <1>2, PostTypes DEF CardSubmits, CardCancels, CardPostFails, AnswerMade
<1>3. CASE CardAnswered
  BY <1>1, <1>3, PostTypes DEF CardAnswered, AnswerMade
<1>4. CASE CardReads
  <2>1. cleared' \in BOOLEAN
    BY <1>4, Zenon DEF CardReads
  <2>2. card' \in MaybeBooking /\ Made(card', log)
    BY <1>1, <1>4, FramesMade DEF CardReads
  <2>3. cardFrames' \in Seq(MaybeBooking) /\ AllMade(cardFrames', log)
    BY <1>1, <1>4, FramesMade DEF CardReads
  <2>4. UNCHANGED <<booking, log, boardVars, cardLink, cardPost>>
    BY <1>4 DEF CardReads
  <2> QED BY <1>1, <2>1, <2>2, <2>3, <2>4
<1>5. CASE CardReloads
  BY <1>1, <1>5, PostTypes, FramesMade DEF CardReloads, AnswerMade, Made, MaybeBooking
<1> QED BY <1>2, <1>3, <1>4, <1>5

LEMMA BookingPreserves == BookingIInv /\ [BookingNext]_bookingVars => BookingIInv'
<1> SUFFICES ASSUME BookingIInv, [BookingNext]_bookingVars PROVE BookingIInv'
  OBVIOUS
<1>1. CASE UNCHANGED bookingVars
  BY <1>1 DEF bookingVars, BookingIInv, BookingTypeOK, EverywhereMade
<1>2. CASE BookingNext
  BY <1>2, RoutesPreserveBooking, DropsPreserveBooking, BoardPreservesBooking,
     CardPreservesBooking
     DEF BookingNext
<1> QED BY <1>1, <1>2

(* What a view shows, or is about to read.                                    *)
LEMMA ShownMade == ASSUME BookingIInv PROVE \A v \in Shown : Made(v, log)
<1> SUFFICES ASSUME NEW v \in Shown PROVE Made(v, log)
  OBVIOUS
<1>1. BookingTypeOK /\ EverywhereMade
  BY DEF BookingIInv
<1>2. /\ DOMAIN boardFrames = 1..Len(boardFrames) /\ DOMAIN cardFrames = 1..Len(cardFrames)
  BY <1>1 DEF BookingTypeOK
<1>3. CASE v \in {board, card}
  BY <1>1, <1>3 DEF EverywhereMade
<1>4. ASSUME NEW i \in DOMAIN boardFrames, v = boardFrames[i] PROVE Made(v, log)
  BY <1>1, <1>2, <1>4 DEF EverywhereMade, AllMade
<1>5. ASSUME NEW i \in DOMAIN cardFrames, v = cardFrames[i] PROVE Made(v, log)
  BY <1>1, <1>2, <1>5 DEF EverywhereMade, AllMade
<1> QED BY <1>3, <1>4, <1>5 DEF Shown

LEMMA BookingIInvSuffices == BookingIInv => BookingInv
<1> SUFFICES ASSUME BookingIInv PROVE BookingInv
  OBVIOUS
<1>1. ASSUME NEW v \in Shown \ {NoBooking} PROVE Made(v, log)
  BY <1>1, ShownMade
<1>2. log \in Seq(Bookings) /\ DOMAIN log = 1..Len(log)
  BY DEF BookingIInv, BookingTypeOK
<1>3. booking # NoBooking => log # <<>> /\ booking = log[Len(log)]
  BY <1>2 DEF BookingIInv, EverywhereMade, Made
<1> QED BY <1>1, <1>2, <1>3 DEF BookingIInv, BookingTypeOK, BookingInv, Posts, Made

(* However broadcasts, polls and answers overtake one another, every view     *)
(* shows the booking as some write left it, and what the hub keeps is the     *)
(* last write.                                                                *)
THEOREM BookingInvariant == BookingSpec => []BookingInv
<1>1. BookingInit => BookingIInv
  BY InitBooking
<1>2. BookingIInv /\ [BookingNext]_bookingVars => BookingIInv'
  BY BookingPreserves
<1> QED BY <1>1, <1>2, BookingIInvSuffices, PTL DEF BookingSpec

(* An active booking is never replaced by another, whoever asks for a status  *)
(* and in whatever order; what is written over it is later than all that any  *)
(* view shows.                                                                *)
THEOREM BookingNeverReplaced == BookingSpec => NeverReplaced
<1> DEFINE Kept == booking # NoBooking /\ booking' # NoBooking
                     => /\ booking'.id = booking.id
                        /\ \A v \in Shown \ {NoBooking} : v.at < booking'.at
<1>1. BookingIInv /\ [BookingNext]_bookingVars => [Kept]_booking
  <2> SUFFICES ASSUME BookingIInv, [BookingNext]_bookingVars, booking # NoBooking,
                      booking' # NoBooking, booking' # booking
               PROVE  Kept
    OBVIOUS
  <2>1. Written /\ booking'.id = booking.id
    <3>1. \E op : AdminRobotRequest(op)
      BY DEF BookingNext, bookingVars, boardVars, cardVars, Submit, CancelOwn, Clear, Set, Fetch,
             AdminActs, OtherActs, Forget, HubRestarts, BoardAnswered, BoardReads,
             BoardLinkTurns, BoardClicks, PollAsks, PollServed, PollAnswered, PollFails,
             CardSubmits, CardCancels, CardAnswered, CardPostFails, CardReads, CardLinkTurns,
             CardReloads
    <3> QED BY <3>1, AdminIsStep
  <2>3. Len(log) \in Nat
    BY DEF BookingIInv, BookingTypeOK
  <2>2. ASSUME NEW v \in Shown \ {NoBooking} PROVE v.at \in Nat /\ v.at <= Len(log)
    BY <2>2, <2>3, ShownMade DEF Made
  <2> QED BY <2>1, <2>2, <2>3 DEF Written
<1>2. BookingInit => BookingIInv
  BY InitBooking
<1>3. BookingIInv /\ [BookingNext]_bookingVars => BookingIInv'
  BY BookingPreserves
<1> QED BY <1>1, <1>2, <1>3, PTL DEF BookingSpec, NeverReplaced

=============================================================================
