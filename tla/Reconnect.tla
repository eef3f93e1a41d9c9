----------------------------- MODULE Reconnect ------------------------------
(* The realtime client of a page (services/realtime.ts: connectPaxRealtime,    *)
(* connectAdminRealtime) and the effect that owns it. A run of the effect      *)
(* makes one client; a client opens sockets one after the other until its      *)
(* effect is cleaned up, which for a passenger's page is whenever the session, *)
(* the flight, the gate or the language changes.                               *)
(*                                                                             *)
(* What arrives on a socket is in ChatPage, AdminFeed, Booking and Track; here *)
(* is whether the page has one. The lengths of the waits are left out, not     *)
(* their doubling. Clients and sockets are used again once nothing can call    *)
(* them back, so that no behaviour ends for want of names.                     *)
EXTENDS Naturals

CONSTANTS Keys,        \* what the effect depends on, one value per session
          Clients,     \* runs of the effect whose callbacks may still come
          Lines,       \* sockets
          MaxDoubling, \* WS_RECONNECT_MAX_MS, in doublings of WS_RECONNECT_BASE_MS
          Absent       \* no session, no client, no socket

ASSUME ReconnectAssumption ==
  Absent \notin Keys \cup Clients \cup Lines /\ MaxDoubling \in Nat \ {0}

VARIABLES
  held,      \* the session the page holds
  effect,    \* realtimeRef: the client of the effect's last run
  client,    \* the closures of createReconnectController and connect*Realtime
  line,      \* the sockets: where they are, whose, and greeted by the server
  rtUp,      \* what the page shows
  reachable, \* the server is, and keeps, in touch
  inForce,   \* sessions the server takes a hello for
  spoke      \* what became of the last frame the page tried

reconnectVars == <<held, effect, client, line, rtUp, reachable, inForce, spoke>>

NoClient == [key |-> Absent, closed |-> TRUE, timer |-> FALSE, attempt |-> 0,
             connected |-> FALSE, ws |-> Absent]
NoLine == [at |-> "none", of |-> Absent, greeted |-> FALSE]

ReconnectTypeOK ==
  /\ held \in Keys \cup {Absent}
  /\ effect \in Clients \cup {Absent}
  /\ client \in [Clients -> [key: Keys \cup {Absent}, closed: BOOLEAN, timer: BOOLEAN,
                             attempt: 0..MaxDoubling, connected: BOOLEAN,
                             ws: Lines \cup {Absent}]]
  /\ line \in [Lines -> [at: {"none", "connecting", "open", "closing"},
                         of: Clients \cup {Absent}, greeted: BOOLEAN]]
  /\ rtUp \in BOOLEAN /\ reachable \in BOOLEAN /\ inForce \subseteq Keys
  /\ spoke \in {"nothing", "sent", "dropped"}

ReconnectInit ==
  /\ held = Absent /\ effect = Absent
  /\ client = [c \in Clients |-> NoClient] /\ line = [s \in Lines |-> NoLine]
  /\ rtUp = FALSE /\ reachable \in BOOLEAN /\ inForce = Keys /\ spoke = "nothing"

LinesOf(c) == {s \in Lines: line[s].of = c}
Free(c) == client[c].closed /\ ~client[c].timer /\ LinesOf(c) = {}
Unused == {s \in Lines: line[s] = NoLine}

(* connect(): the closure's ws is the new socket, whatever it was.             *)
Connecting(c) == [at |-> "connecting", of |-> c, greeted |-> FALSE]

-----------------------------------------------------------------------------
(* rt.close() of the cleanup: markClosed, then ws.close(), whose onclose comes *)
(* later. A socket that has been closed already stays as it is.                *)
ClosedClient(c) == [client[c] EXCEPT !.closed = TRUE, !.timer = FALSE, !.ws = Absent]
Hangs(c) ==
  [s \in Lines |-> IF c # Absent /\ client[c].ws = s /\ line[s].at \in {"connecting", "open"}
                   THEN [line[s] EXCEPT !.at = "closing"] ELSE line[s]]

(* The page signs out, or its session (flight, gate, language) changes: the    *)
(* cleanup of the last run, then, with a session, the next run.                *)
SessionEnds ==
  /\ held # Absent
  /\ held' = Absent /\ effect' = Absent
  /\ client' = [client EXCEPT ![effect] = ClosedClient(effect)]
  /\ line' = Hangs(effect) /\ rtUp' = FALSE
  /\ UNCHANGED <<reachable, inForce, spoke>>

SessionBecomes(k) ==
  /\ k # held /\ held' = k
  /\ \E c \in Clients \ {effect}, s \in Unused:
       /\ Free(c)
       /\ effect' = c
       /\ client' = [b \in Clients |->
            CASE b = c -> [NoClient EXCEPT !.key = k, !.closed = FALSE, !.ws = s]
              [] b = effect -> ClosedClient(b)
              [] OTHER -> client[b]]
       /\ line' = [Hangs(effect) EXCEPT ![s] = Connecting(c)]
  /\ rtUp' = FALSE
  /\ UNCHANGED <<reachable, inForce, spoke>>

-----------------------------------------------------------------------------
(* onopen: connected, the count of attempts starts over, the hello is sent.    *)
OnLineOpen(s) ==
  /\ line[s].at = "connecting" /\ reachable
  /\ line' = [line EXCEPT ![s].at = "open"]
  /\ client' = [client EXCEPT ![line[s].of].connected = TRUE, ![line[s].of].attempt = 0]
  /\ rtUp' = TRUE
  /\ UNCHANGED <<held, effect, reachable, inForce, spoke>>

(* The server reads the hello: 1008 for a session that is not in force.        *)
HelloRead(s) ==
  /\ line[s].at = "open" /\ ~line[s].greeted /\ reachable
  /\ line' = IF client[line[s].of].key \in inForce
             THEN [line EXCEPT ![s].greeted = TRUE]
             ELSE [line EXCEPT ![s].at = "closing"]
  /\ UNCHANGED <<held, effect, client, rtUp, reachable, inForce, spoke>>

(* Out of touch: connecting fails, what is open breaks.                        *)
LineBreaks(s) ==
  /\ line[s].at \in {"connecting", "open"} /\ ~reachable
  /\ line' = [line EXCEPT ![s].at = "closing"]
  /\ UNCHANGED <<held, effect, client, rtUp, reachable, inForce, spoke>>

MinOf(a, b) == IF a < b THEN a ELSE b

(* scheduleReconnect: the timer is set anew, the next wait is twice as long.   *)
Scheduled(r) ==
  [r EXCEPT !.timer = TRUE, !.attempt = MinOf(r.attempt + 1, MaxDoubling)]

(* Seeded fault: what createReconnectController's comment tells of, the close  *)
(* of a page's own making scheduling a reconnection.                           *)
AfterCloseAlways(r) == Scheduled([r EXCEPT !.connected = FALSE])

(* Seeded fault: only a connection that was open is tried again.               *)
AfterCloseOfOpen(r) ==
  IF r.closed \/ ~r.connected THEN [r EXCEPT !.connected = FALSE]
  ELSE Scheduled([r EXCEPT !.connected = FALSE])

(* What onclose makes of its client: nothing is scheduled for a closed one.    *)
AfterClose(r) ==
  IF r.closed THEN [r EXCEPT !.connected = FALSE]
  ELSE Scheduled([r EXCEPT !.connected = FALSE])

(* onclose, at its own time; onConnectionChange is the page's, not the run's.  *)
OnLineClosed(s) ==
  /\ line[s].at = "closing"
  /\ line' = [line EXCEPT ![s] = NoLine]
  /\ client' = [client EXCEPT ![line[s].of] = AfterClose(@)]
  /\ rtUp' = FALSE
  /\ UNCHANGED <<held, effect, reachable, inForce, spoke>>

RetryTimer(c) ==
  /\ client[c].timer
  /\ \E s \in Unused:
       /\ client' = [client EXCEPT ![c].timer = FALSE, ![c].ws = s]
       /\ line' = [line EXCEPT ![s] = Connecting(c)]
  /\ UNCHANGED <<held, effect, rtUp, reachable, inForce, spoke>>

-----------------------------------------------------------------------------
(* sendChat, shareLocation: over the socket when the client says connected,    *)
(* and then only if the socket is open: told sent all the same. (Otherwise by  *)
(* HTTP, as in ChatPage.)                                                      *)
PageSpeaks ==
  /\ effect # Absent /\ client[effect].connected
  /\ LET s == client[effect].ws
     IN spoke' = IF s # Absent /\ line[s].at = "open" THEN "sent" ELSE "dropped"
  /\ UNCHANGED <<held, effect, client, line, rtUp, reachable, inForce>>

(* The network, and a session revoked or renewed on the server: a connection   *)
(* already greeted is kept.                                                    *)
TouchTurns ==
  /\ reachable' = ~reachable
  /\ UNCHANGED <<held, effect, client, line, rtUp, inForce, spoke>>

SessionTurns(k) ==
  /\ inForce' = IF k \in inForce THEN inForce \ {k} ELSE inForce \cup {k}
  /\ UNCHANGED <<held, effect, client, line, rtUp, reachable, spoke>>

ReconnectNext ==
  \/ SessionEnds \/ PageSpeaks \/ TouchTurns
  \/ \E k \in Keys: SessionBecomes(k) \/ SessionTurns(k)
  \/ \E s \in Lines: OnLineOpen(s) \/ HelloRead(s) \/ LineBreaks(s) \/ OnLineClosed(s)
  \/ \E c \in Clients: RetryTimer(c)

(* A socket takes its next step: the browser ends what it began, one way or    *)
(* the other, and a server that is in touch reads.                             *)
LineSteps(s) == OnLineOpen(s) \/ HelloRead(s) \/ LineBreaks(s) \/ OnLineClosed(s)

(* Timers fire.                                                                *)
ReconnectSpec ==
  /\ ReconnectInit /\ [][ReconnectNext]_reconnectVars
  /\ \A s \in Lines: WF_reconnectVars(LineSteps(s))
  /\ WF_reconnectVars(\E c \in Clients: RetryTimer(c))

-----------------------------------------------------------------------------
(* Sockets that are being opened or open are the current run's, carry the      *)
(* session the page holds, and there is one at most: nothing reconnects behind *)
(* a page that has closed its client.                                          *)
OnlyOwnLine ==
  \A s \in Lines: line[s].at \in {"connecting", "open"} =>
    /\ line[s].of = effect /\ client[effect].ws = s
    /\ client[effect].key = held /\ ~client[effect].closed

(* The current client always has a next step: a socket or a timer, never both, *)
(* never two, and never neither.                                               *)
AlwaysTrying ==
  effect # Absent =>
    \/ client[effect].timer /\ LinesOf(effect) = {}
    \/ ~client[effect].timer /\ \E s \in Lines: LinesOf(effect) = {s}

(* "Connected" on the page is the current client's, and the client of a page   *)
(* without a session does nothing more.                                        *)
ShownIsOwn ==
  /\ rtUp => effect # Absent /\ client[effect].connected
  /\ \A c \in Clients \ {effect}: client[c].closed /\ ~client[c].timer

ReconnectInv == ReconnectTypeOK /\ OnlyOwnLine /\ AlwaysTrying /\ ShownIsOwn

(* A page that keeps a session in force, with a server that stays in touch, is *)
(* in the end connected and greeted, for good.                                 *)
Greeted == effect # Absent /\ client[effect].ws # Absent /\ line[client[effect].ws].greeted
Reconnects ==
  \A k \in Keys: <>[](held = k /\ k \in inForce /\ reachable) => <>[]Greeted

(* The page shows that it is connected. (Not so: the close of the last run's   *)
(* socket, arriving after the open of this one's, turns it off for good.)      *)
ShownWhenConnected == <>[]Greeted => <>[]rtUp

(* What the page calls sent went out. (Not so: the client stays connected from *)
(* the end of a socket until its onclose.)                                     *)
SaidIsSent == spoke # "dropped"

(* "A fixed retry with no backoff hammers the server": a session that is       *)
(* refused is tried ever more rarely. (Not so: its sockets do open, and that   *)
(* starts the count over.)                                                     *)
RefusedBacksOff ==
  \A k \in Keys: <>[](held = k /\ k \notin inForce /\ reachable /\ ~Greeted)
                   => <>[](effect # Absent /\ client[effect].attempt = MaxDoubling)
=============================================================================
