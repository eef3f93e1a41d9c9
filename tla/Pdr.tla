-------------------------------- MODULE Pdr --------------------------------
(***************************************************************************)
(* Dead reckoning in the passenger's page: the session, socket, sensors    *)
(* and reconnect timer of public/orienta-pdr-client.js, and the two        *)
(* buttons that start and stop it (its own, and usePdrNavigation's through *)
(* services/pdrClient.ts). The dead-reckoning service is external: it      *)
(* makes sessions, opens and drops sockets, sends poses.                   *)
(***************************************************************************)
EXTENDS Naturals

CONSTANTS
  Sockets,          \* WebSocket objects; a closed one stands for a new one
  Starts,           \* calls of startPdr that may be under way at once
  NoSocket,
  MaxSession        \* bound: sessions minted

ASSUME PdrAssumption == MaxSession \in Nat /\ NoSocket \notin Sockets

VARIABLES
  calm,             \* nobody taps while a start or a dial is under way
  conn, of,         \* readyState of each socket, and the session it is for
  session, socket, active, stopping, retry, sensors, paused,   \* st
  hidden,           \* document.visibilityState
  starting,         \* where each call of startPdr is
  minted,             \* sessions minted so far
  stopped           \* stopPdr has been called

stVars == <<session, socket, active, stopping, retry, sensors, paused>>
pdrVars == <<calm, conn, of, stVars, hidden, starting, minted, stopped>>

PdrInit ==
  /\ calm \in BOOLEAN
  /\ conn = [s \in Sockets |-> "closed"] /\ of = [s \in Sockets |-> 0]
  /\ session = 0 /\ socket = NoSocket
  /\ active = FALSE /\ stopping = FALSE /\ retry = FALSE
  /\ sensors = FALSE /\ paused = FALSE /\ hidden = FALSE
  /\ starting = [c \in Starts |-> "no"]
  /\ minted = 0 /\ stopped = FALSE

-----------------------------------------------------------------------------
Calls == {c \in Starts : starting[c] # "no"}
Dials == {s \in Sockets : conn[s] = "connecting"}

(* startPdr as far as the sensor permission, with a planned route.         *)
StartPdr(c) ==
  /\ ~active /\ ~retry
  /\ starting[c] = "no"
  /\ calm => Calls = {} /\ Dials = {}
  /\ starting' = [starting EXCEPT ![c] = "permission"]
  /\ UNCHANGED <<calm, conn, of, stVars, hidden, minted, stopped>>

StopPdr ==
  /\ calm => Calls = {}
  /\ stopping' = TRUE
  /\ retry' = FALSE
  /\ conn' = [s \in Sockets |-> IF s = socket THEN "closing" ELSE conn[s]]
  /\ socket' = NoSocket /\ session' = 0
  /\ active' = FALSE /\ sensors' = FALSE /\ paused' = FALSE
  /\ stopped' = TRUE
  /\ UNCHANGED <<calm, of, hidden, starting, minted>>

(* togglePdr of the client, and of usePdrNavigation, which also stops it   *)
(* when the session of the page changes.                                   *)
TogglePdr == IF active \/ retry THEN StopPdr ELSE \E c \in Starts : StartPdr(c)
TogglePdrPage == IF active THEN StopPdr ELSE \E c \in Starts : StartPdr(c)
PageEnds == StopPdr

(* Permission granted, POST /api/session sent; or refused, or the POST     *)
(* fails.                                                                  *)
Permitted(c) ==
  /\ starting[c] = "permission"
  /\ starting' = [starting EXCEPT ![c] = "posting"]
  /\ UNCHANGED <<calm, conn, of, stVars, hidden, minted, stopped>>

StartFails(c) ==
  /\ starting[c] # "no"
  /\ starting' = [starting EXCEPT ![c] = "no"]
  /\ UNCHANGED <<calm, conn, of, stVars, hidden, minted, stopped>>

ConnectPdrSocket(s, sid) ==
  /\ conn[s] = "closed"
  /\ conn' = [conn EXCEPT ![s] = "connecting"]
  /\ of' = [of EXCEPT ![s] = sid]
  /\ socket' = s

(* The session is minted: anchor, trail and counters are reset, and the      *)
(* socket is opened, whatever has happened since the call.                 *)
SessionMade(c, s) ==
  /\ starting[c] = "posting" /\ minted < MaxSession
  /\ starting' = [starting EXCEPT ![c] = "no"]
  /\ minted' = minted + 1
  /\ session' = minted'
  /\ ConnectPdrSocket(s, minted')
  /\ UNCHANGED <<calm, active, stopping, retry, sensors, paused, hidden, stopped>>

OnOpen(s) ==
  /\ conn[s] = "connecting"
  /\ conn' = [conn EXCEPT ![s] = "open"]
  /\ active' = TRUE
  /\ sensors' = (sensors \/ ~paused)
  /\ UNCHANGED <<calm, of, session, socket, stopping, retry, paused, hidden,
                 starting, minted, stopped>>

(* Seeded fault: a close event of any socket counts                        *)
OnCloseAny(s) ==
  /\ conn[s] # "closed"
  /\ conn' = [conn EXCEPT ![s] = "closed"]
  /\ active' = FALSE /\ sensors' = FALSE /\ socket' = NoSocket
  /\ IF stopping THEN stopping' = FALSE /\ UNCHANGED retry
     ELSE retry' = (session # 0) /\ UNCHANGED stopping
  /\ UNCHANGED <<calm, of, session, paused, hidden, starting, minted, stopped>>

(* Seeded fault: a dropped connection is not opened again                  *)
OnCloseGivesUp(s) ==
  /\ conn[s] # "closed"
  /\ conn' = [conn EXCEPT ![s] = "closed"]
  /\ IF s # socket THEN UNCHANGED <<active, sensors, socket>>
     ELSE active' = FALSE /\ sensors' = FALSE /\ socket' = NoSocket
  /\ UNCHANGED <<calm, of, session, retry, stopping, paused, hidden, starting, minted, stopped>>

(* The connection is lost, refused or closed; onclose of a socket that has *)
(* been superseded does nothing.                                           *)
OnClose(s) ==
  /\ conn[s] # "closed"
  /\ conn' = [conn EXCEPT ![s] = "closed"]
  /\ IF s # socket THEN UNCHANGED <<active, sensors, socket, stopping, retry>>
     ELSE /\ active' = FALSE /\ sensors' = FALSE /\ socket' = NoSocket
          /\ IF stopping THEN stopping' = FALSE /\ UNCHANGED retry
             ELSE retry' = (retry \/ session # 0) /\ UNCHANGED stopping
  /\ UNCHANGED <<calm, of, session, paused, hidden, starting, minted, stopped>>

(* The timer of scheduleReconnect.                                         *)
Reconnect ==
  /\ retry
  /\ retry' = FALSE
  /\ IF session = 0 \/ stopping THEN UNCHANGED <<conn, of, socket>>
     ELSE \E s \in Sockets : ConnectPdrSocket(s, session)
  /\ UNCHANGED <<calm, session, active, stopping, sensors, paused, hidden,
                 starting, minted, stopped>>

(* onVisibilityChange.                                                     *)
OnHidden ==
  /\ ~hidden
  /\ hidden' = TRUE
  /\ IF active THEN paused' = TRUE /\ sensors' = (sensors /\ paused)
     ELSE UNCHANGED <<paused, sensors>>
  /\ UNCHANGED <<calm, conn, of, session, socket, active, stopping, retry,
                 starting, minted, stopped>>

OnVisible ==
  /\ hidden
  /\ hidden' = FALSE
  /\ paused' = FALSE
  /\ sensors' = (sensors \/ (paused /\ active /\ socket # NoSocket /\ conn[socket] = "open"))
  /\ UNCHANGED <<calm, conn, of, session, socket, active, stopping, retry,
                 starting, minted, stopped>>

PdrNext ==
  \/ TogglePdr \/ TogglePdrPage \/ PageEnds
  \/ \E c \in Starts : \/ Permitted(c) \/ StartFails(c)
                       \/ \E s \in Sockets : SessionMade(c, s)
  \/ \E s \in Sockets : OnOpen(s) \/ OnClose(s)
  \/ Reconnect \/ OnHidden \/ OnVisible

(* The timer fires, a socket told to close does, and a service that is     *)
(* dialled again and again answers.                                        *)
PdrFairness ==
  /\ WF_pdrVars(Reconnect)
  /\ \A s \in Sockets : /\ SF_pdrVars(OnOpen(s))
                        /\ WF_pdrVars(conn[s] = "closing" /\ OnClose(s))

PdrSpec == PdrInit /\ [][PdrNext]_pdrVars /\ PdrFairness

-----------------------------------------------------------------------------
Live == {s \in Sockets : conn[s] \in {"connecting", "open"}}

PdrTypeOK ==
  /\ calm \in BOOLEAN
  /\ conn \in [Sockets -> {"closed", "connecting", "open", "closing"}]
  /\ of \in [Sockets -> 0..MaxSession]
  /\ session \in 0..MaxSession /\ minted \in 0..MaxSession
  /\ socket \in Sockets \cup {NoSocket}
  /\ {active, stopping, retry, sensors, paused, hidden, stopped} \subseteq BOOLEAN
  /\ starting \in [Starts -> {"no", "permission", "posting"}]

(* As long as nobody taps while a start or a dial is under way: one socket,*)
(* of the session in force, gets poses; none does after a stop; a close event *)
(* that comes late never switches a newer connection off; a paused or      *)
(* disconnected page reads no sensors; and only one of socket and timer is *)
(* at work.                                                                *)
PdrInv ==
  /\ PdrTypeOK
  /\ calm =>
       /\ Live \subseteq {socket}
       /\ socket # NoSocket => session # 0 /\ of[socket] = session /\ ~retry
       /\ active <=> (socket # NoSocket /\ conn[socket] = "open")
       /\ sensors => active /\ ~paused
       /\ retry => session # 0

(* A dropped connection comes back for the same session until the user     *)
(* stops it, up to the first stop.                                         *)
ResumesAtFirst == (calm /\ ~stopped /\ session # 0) ~> (active \/ session = 0)

(* "the user still wants PDR running (this mirrors                         *)
(* src/services/realtime.ts's reconnect-with-backoff pattern)"             *)
(* (orienta-pdr-client.js:494): also after a stop and a new start.         *)
Resumes == (calm /\ session # 0) ~> (active \/ session = 0)

(* startPdr is not to leave "two overlapping sessions/sockets running at   *)
(* once" (orienta-pdr-client.js:360).                                      *)
OneSession == \A s, t \in Live : s = t
=============================================================================
