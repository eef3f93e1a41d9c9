---------------------------- MODULE PaxPresence ----------------------------
(***************************************************************************)
(* Passenger connections and presence: the passenger half of hub/wsHub.ts  *)
(* (hello and close handlers), hub/presence.ts, the online state of        *)
(* hub/HubStore.ts and the `is_online` column written through              *)
(* passengers/PassengerRegistry.ts.                                        *)
(*                                                                         *)
(* The server is one event loop.  A handler runs alone until it awaits, so *)
(* an action is what runs between two awaits, and `hello[s]` says at which *)
(* await the hello handler of connection s is suspended.  The "close"      *)
(* handler, the timers and the HTTP routes run between those actions.      *)
(***************************************************************************)
CONSTANTS
  Pax,              \* passengers of one tenant
  Socks,            \* connections; a finished one is used again
  NoPax             \* passengerId = null

ASSUME NoPaxAssumption == NoPax \notin Pax

VARIABLES
  sock,             \* readyState as the server sees it
  hello,            \* where the hello handler of a connection is
  ident,            \* passengerId of the connection's closure
  paxSockets,       \* store.paxSockets
  timers,           \* keys of store.paxOfflineTimers
  online,           \* store.online
  vouched,          \* history: online was last claimed by HTTP
  row,              \* the passenger's row and its is_online column
  marks             \* closed connections whose markOffline is in flight

vars == <<sock, hello, ident, paxSockets, timers, online, vouched, row, marks>>

Awaiting == {"verify", "insert", "select", "mark", "join"}

TypeOK ==
  /\ sock \in [Socks -> {"open", "closing", "closed"}]
  /\ hello \in [Socks -> {"none", "live", "over"} \cup Awaiting]
  /\ ident \in [Socks -> Pax \cup {NoPax}]
  /\ paxSockets \in [Pax -> SUBSET Socks]
  /\ timers \subseteq Pax
  /\ online \subseteq Pax
  /\ vouched \subseteq Pax
  /\ row \in [Pax -> {"absent", "offline", "online"}]
  /\ marks \subseteq Socks

Init ==
  /\ sock = [s \in Socks |-> "closed"]
  /\ hello = [s \in Socks |-> "none"]
  /\ ident = [s \in Socks |-> NoPax]
  /\ paxSockets = [p \in Pax |-> {}]
  /\ timers = {}
  /\ online = {}
  /\ vouched = {}
  /\ row \in [Pax -> {"absent", "offline"}]
  /\ marks = {}

-----------------------------------------------------------------------------
(* hub/presence.ts                                                         *)

cancelPaxOffline(p) == timers' = timers \ {p}

schedulePaxOffline(p) == timers' = timers \cup {p}

setPresence(p, isOnline) ==
  online' = IF isOnline THEN online \cup {p} ELSE online \ {p}

(* The grace timer: it looks again for a connection before it says offline *)
TimerFires(p) ==
  /\ p \in timers
  /\ cancelPaxOffline(p)
  /\ IF paxSockets[p] = {}
       THEN setPresence(p, FALSE) /\ vouched' = vouched \ {p}
       ELSE UNCHANGED <<online, vouched>>
  /\ UNCHANGED <<sock, hello, ident, paxSockets, row, marks>>

(* POST /presence {online: true} and every route that heartbeats           *)
HttpOnline(p) ==
  /\ cancelPaxOffline(p)
  /\ setPresence(p, TRUE)
  /\ vouched' = vouched \cup {p}
  /\ UNCHANGED <<sock, hello, ident, paxSockets, row, marks>>

(* Seeded fault: offline is scheduled over a live connection               *)
HttpOfflineUnguarded(p) ==
  /\ schedulePaxOffline(p)
  /\ UNCHANGED <<sock, hello, ident, paxSockets, online, vouched, row, marks>>

(* POST /presence {online: false}: ignored while a connection is there     *)
HttpOffline(p) ==
  /\ paxSockets[p] = {}
  /\ schedulePaxOffline(p)
  /\ UNCHANGED <<sock, hello, ident, paxSockets, online, vouched, row, marks>>

-----------------------------------------------------------------------------
(* hub/wsHub.ts                                                            *)

presenceVars == <<paxSockets, timers, online, vouched>>

(* ws.close() on a connection that may be closing or closed already        *)
CloseWs(s) == sock' = [sock EXCEPT ![s] = IF @ = "open" THEN "closing" ELSE @]

(* The handler passes from one await to the next                           *)
Step(s, from, to) == hello[s] = from /\ hello' = [hello EXCEPT ![s] = to]

(* A connection nothing refers to any more is a fresh one                  *)
Connect(s) ==
  /\ sock[s] = "closed" /\ s \notin marks
  /\ hello[s] \notin Awaiting
  /\ \A p \in Pax : s \notin paxSockets[p]
  /\ sock' = [sock EXCEPT ![s] = "open"]
  /\ hello' = [hello EXCEPT ![s] = "none"]
  /\ ident' = [ident EXCEPT ![s] = NoPax]
  /\ UNCHANGED <<presenceVars, row, marks>>

(* The hello frame: the role is set at once, so a second hello is ignored. *)
(* A closing connection still receives frames.                             *)
Hello(s) ==
  /\ sock[s] # "closed"
  /\ Step(s, "none", "verify")
  /\ UNCHANGED <<sock, ident, presenceVars, row, marks>>

(* resolvePaxWsHello refuses the token                                     *)
HelloRefused(s) ==
  /\ Step(s, "verify", "over")
  /\ CloseWs(s)
  /\ UNCHANGED <<ident, presenceVars, row, marks>>

(* The token names passenger p; a hello with flight and gate also creates  *)
(* the passenger's row                                                     *)
HelloVerified(s, p) ==
  /\ \/ Step(s, "verify", "insert")
     \/ Step(s, "verify", "mark")
  /\ ident' = [ident EXCEPT ![s] = p]
  /\ UNCHANGED <<sock, presenceVars, row, marks>>

(* getOrCreate: INSERT ... ON CONFLICT DO NOTHING, is_online = 1           *)
InsertRow(s) ==
  /\ Step(s, "insert", "select")
  /\ row' = [row EXCEPT ![ident[s]] = IF @ = "absent" THEN "online" ELSE @]
  /\ UNCHANGED <<sock, ident, presenceVars, marks>>

(* getOrCreate: the SELECT that must find the row                          *)
SelectRow(s) ==
  /\ Step(s, "select", "mark")
  /\ row[ident[s]] # "absent"
  /\ UNCHANGED <<sock, ident, presenceVars, row, marks>>

(* markOnline, an UPDATE: without a row it changes nothing                 *)
MarkOnline(s) ==
  /\ Step(s, "mark", "join")
  /\ row' = [row EXCEPT ![ident[s]] = IF @ = "absent" THEN @ ELSE "online"]
  /\ UNCHANGED <<sock, ident, presenceVars, marks>>

(* safeAsyncHandler: a registry call threw (or the row vanished between    *)
(* INSERT and SELECT); the identity stays in the closure                   *)
HelloFailed(s) ==
  /\ \E at \in {"insert", "select", "mark"} : Step(s, at, "over")
  /\ CloseWs(s)
  /\ UNCHANGED <<ident, presenceVars, row, marks>>

(* The rest of the hello, in one go: register the connection, cancel the   *)
(* countdown, show online.  readyState is not looked at.                   *)
Join(s) ==
  LET p == ident[s] IN
  /\ Step(s, "join", "live")
  /\ paxSockets' = [paxSockets EXCEPT ![p] = @ \cup {s}]
  /\ cancelPaxOffline(p)
  /\ setPresence(p, TRUE)
  /\ UNCHANGED <<sock, ident, vouched, row, marks>>

(* The server hangs up: hello timeout, rate limit, wrong role              *)
ServerClose(s) ==
  /\ sock[s] = "open"
  /\ CloseWs(s)
  /\ UNCHANGED <<hello, ident, presenceVars, row, marks>>

(* Seeded fault: "was that the last one?" is asked before the removal      *)
CloseCountsBefore(s) ==
  LET p == ident[s] IN
  /\ sock[s] # "closed"
  /\ sock' = [sock EXCEPT ![s] = "closed"]
  /\ IF p = NoPax
       THEN UNCHANGED <<paxSockets, timers, marks>>
       ELSE /\ paxSockets' = [paxSockets EXCEPT ![p] = @ \ {s}]
            /\ IF paxSockets[p] = {}
                 THEN schedulePaxOffline(p) /\ marks' = marks \cup {s}
                 ELSE UNCHANGED <<timers, marks>>
  /\ UNCHANGED <<hello, ident, online, vouched, row>>

(* Seeded fault: no grace period                                           *)
CloseWithoutGrace(s) ==
  LET p == ident[s] IN
  /\ sock[s] # "closed"
  /\ sock' = [sock EXCEPT ![s] = "closed"]
  /\ IF p = NoPax
       THEN UNCHANGED <<paxSockets, online, marks>>
       ELSE /\ paxSockets' = [paxSockets EXCEPT ![p] = @ \ {s}]
            /\ IF paxSockets[p] \subseteq {s}
                 THEN setPresence(p, FALSE) /\ marks' = marks \cup {s}
                 ELSE UNCHANGED <<online, marks>>
  /\ UNCHANGED <<hello, ident, timers, vouched, row>>

(* The "close" event: deregister; when that was the last connection, start *)
(* the countdown and send markOffline without waiting for it               *)
Close(s) ==
  LET p == ident[s] IN
  /\ sock[s] # "closed"
  /\ sock' = [sock EXCEPT ![s] = "closed"]
  /\ IF p = NoPax
       THEN UNCHANGED <<paxSockets, timers, marks>>
       ELSE /\ paxSockets' = [paxSockets EXCEPT ![p] = @ \ {s}]
            /\ IF paxSockets[p] \subseteq {s}
                 THEN schedulePaxOffline(p) /\ marks' = marks \cup {s}
                 ELSE UNCHANGED <<timers, marks>>
  /\ UNCHANGED <<hello, ident, online, vouched, row>>

(* The markOffline of a close handler reaches the database, or fails       *)
MarkOffline(s) ==
  /\ s \in marks
  /\ marks' = marks \ {s}
  /\ \/ row' = [row EXCEPT ![ident[s]] = IF @ = "absent" THEN @ ELSE "offline"]
     \/ UNCHANGED row
  /\ UNCHANGED <<sock, hello, ident, presenceVars>>

(* An admin route or the hourly job deletes the row                        *)
DeleteRow(p) ==
  /\ row[p] # "absent"
  /\ row' = [row EXCEPT ![p] = "absent"]
  /\ UNCHANGED <<sock, hello, ident, presenceVars, marks>>

(* The process dies: only the database is left                             *)
Crash ==
  /\ sock' = [s \in Socks |-> "closed"]
  /\ hello' = [s \in Socks |-> "none"]
  /\ ident' = [s \in Socks |-> NoPax]
  /\ paxSockets' = [p \in Pax |-> {}]
  /\ timers' = {} /\ online' = {} /\ vouched' = {} /\ marks' = {}
  /\ UNCHANGED row

-----------------------------------------------------------------------------
(* A suspended hello goes on: promises settle                              *)
Resume(s) ==
  \/ HelloRefused(s)
  \/ \E p \in Pax : HelloVerified(s, p)
  \/ InsertRow(s) \/ SelectRow(s) \/ MarkOnline(s) \/ HelloFailed(s)
  \/ Join(s)

SockNext(s) ==
  \/ Connect(s) \/ Hello(s) \/ Resume(s)
  \/ ServerClose(s) \/ Close(s) \/ MarkOffline(s)

PaxNext(p) == TimerFires(p) \/ HttpOnline(p) \/ HttpOffline(p) \/ DeleteRow(p)

Next ==
  \/ \E s \in Socks : SockNext(s)
  \/ \E p \in Pax : PaxNext(p)
  \/ Crash

(* Awaited promises settle, timers fire, and a connection the server has   *)
(* closed ends (ws destroys it after its close timeout).                   *)
Fairness ==
  /\ \A s \in Socks :
       WF_vars(Resume(s)) /\ WF_vars(sock[s] = "closing" /\ Close(s))
  /\ \A p \in Pax : WF_vars(TimerFires(p))

Spec == Init /\ [][Next]_vars /\ Fairness

-----------------------------------------------------------------------------
(* Safety                                                                  *)

(* A passenger with a registered connection is shown online: no timer, no  *)
(* HTTP "offline" and no other tab's close takes that away (presence.ts,   *)
(* the guards of schedulePaxOffline and setPaxPresenceFromHttp).           *)
ConnectedIsOnline == \A p \in Pax : paxSockets[p] # {} => p \in online

(* The grace timer never runs while a connection is registered, so the     *)
(* look at paxSockets when it fires is a second line of defence.           *)
NoCountdownWhileConnected == \A p \in Pax : paxSockets[p] # {} => p \notin timers

(* Whoever is shown online is connected, in the grace period, or was       *)
(* claimed online by HTTP: no path through hello, close, timer and HTTP    *)
(* forgets to start the countdown.                                         *)
OnlineIsJustified ==
  \A p \in online : paxSockets[p] # {} \/ p \in timers \/ p \in vouched

(* A connection is registered under the passenger its hello was verified   *)
(* for, and only after that hello completed.                               *)
RegisteredAsVerified ==
  \A p \in Pax : \A s \in paxSockets[p] : ident[s] = p /\ hello[s] = "live"

(* Whatever other tabs of the passenger come and go, a tab whose hello     *)
(* completed and whose connection stands is in the set that broadcastPax   *)
(* writes to: it misses no message.                                        *)
LiveTabsReachable ==
  \A s \in Socks :
    hello[s] = "live" /\ sock[s] # "closed" => s \in paxSockets[ident[s]]

(* A handler past verification, or whose markOffline is in flight, has a   *)
(* passenger.                                                              *)
IdentityKnown ==
  /\ \A s \in Socks : hello[s] \in (Awaiting \ {"verify"}) \cup {"live"} => ident[s] # NoPax
  /\ \A s \in marks : ident[s] # NoPax
  /\ \A s \in Socks : hello[s] \in {"none", "verify"} => s \notin marks /\ ident[s] = NoPax

(* The inductive invariant.                                                *)
PresenceInv ==
  /\ TypeOK
  /\ ConnectedIsOnline
  /\ NoCountdownWhileConnected
  /\ OnlineIsJustified
  /\ RegisteredAsVerified
  /\ LiveTabsReachable
  /\ IdentityKnown

(* HubStore.ts calls paxSockets a "set of open WebSocket connections".     *)
OnlyOpenConnections ==
  \A p \in Pax : \A s \in paxSockets[p] : sock[s] # "closed"

-----------------------------------------------------------------------------
(* Refinement and liveness                                                 *)

Promise == INSTANCE PresencePromise
             WITH connected <- {p \in Pax : paxSockets[p] # {}}, grace <- timers

(* The hub implements the presence promise, with its liveness.             *)
PresencePromised == Promise!PromiseSpec

(* A passenger who is gone (no connection, no HTTP claim) is shown offline *)
(* in the end, unless it comes back.                                       *)
DepartureNoticed ==
  \A p \in Pax :
    (p \in online /\ paxSockets[p] = {} /\ p \notin vouched)
      ~> (p \notin online \/ paxSockets[p] # {} \/ p \in vouched)

=============================================================================
