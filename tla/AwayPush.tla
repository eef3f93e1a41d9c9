------------------------------ MODULE AwayPush ------------------------------
(***************************************************************************)
(* The reminder sent to a passenger who has left the page: usePaxPush.ts,  *)
(* /subscribe, /away, /back and sendAwayPush of routes/push.ts, and the    *)
(* table of PushSubscriptionStore.ts, for one passenger. External: the     *)
(* push service, which accepts, refuses for good (404, 410) or fails.      *)
(***************************************************************************)
EXTENDS Naturals, FiniteSets

CONSTANTS
  Tabs,             \* pages of the passenger
  Endpoints,        \* of their subscriptions
  AwayFor,          \* awayMs, in ticks
  MaxAway           \* bound: calls of /away

ASSUME AwayAssumption == AwayFor \in Nat \ {0} /\ MaxAway \in Nat

VARIABLES
  visible,          \* document.visibilityState of each tab
  calls,            \* requests under way, in whatever order they arrive
  awayToken,        \* awayTokens' entry: the number of a call of /away, 0 for none
  timers,           \* what is left of each timer that is set
  aways,            \* calls of /away so far
  subs,             \* push_subscriptions
  gone,             \* endpoints the push service has given up
  told,             \* of the last push: the endpoints still to try
  remains           \* ticks since /away was last served, with no /back since

awayVars == <<visible, calls, awayToken, timers, aways, subs, gone, told, remains>>

TabCalls == [tab : Tabs, what : {"away", "back"}]

AwayInit ==
  /\ visible = [t \in Tabs |-> TRUE] /\ calls = {}
  /\ awayToken = 0 /\ timers = [n \in 1..MaxAway |-> 0] /\ aways = 0
  /\ subs = {} /\ gone = {} /\ told = {} /\ remains = 0

-----------------------------------------------------------------------------
(* onVisibility; the request may be lost.                                  *)
TurnsAway(t) ==
  /\ visible' = [visible EXCEPT ![t] = ~@]
  /\ \/ calls' = calls \cup {[tab |-> t, what |-> IF visible[t] THEN "away" ELSE "back"]}
     \/ UNCHANGED calls
  /\ UNCHANGED <<awayToken, timers, aways, subs, gone, told, remains>>

(* enablePush and /subscribe.                                              *)
Subscribe(e) ==
  /\ e \notin gone
  /\ subs' = subs \cup {e}
  /\ UNCHANGED <<visible, calls, awayToken, timers, aways, gone, told, remains>>

Away(c) ==
  /\ c \in calls /\ c.what = "away" /\ aways < MaxAway
  /\ calls' = calls \ {c}
  /\ aways' = aways + 1 /\ awayToken' = aways'
  /\ timers' = [timers EXCEPT ![aways'] = AwayFor]
  /\ remains' = AwayFor
  /\ UNCHANGED <<visible, subs, gone, told>>

(* Seeded fault: the token stays                                           *)
BackKeepsToken(c) ==
  /\ c \in calls /\ c.what = "back"
  /\ calls' = calls \ {c}
  /\ remains' = 0
  /\ UNCHANGED <<visible, awayToken, timers, aways, subs, gone, told>>

Back(c) ==
  /\ c \in calls /\ c.what = "back"
  /\ calls' = calls \ {c}
  /\ awayToken' = 0
  /\ remains' = 0
  /\ UNCHANGED <<visible, timers, aways, subs, gone, told>>

AwayTick ==
  /\ \A n \in 1..aways : timers[n] # 1
  /\ timers' = [n \in 1..MaxAway |-> IF timers[n] > 1 THEN timers[n] - 1 ELSE timers[n]]
  /\ remains' = IF remains > 1 THEN remains - 1 ELSE remains
  /\ UNCHANGED <<visible, calls, awayToken, aways, subs, gone, told>>

(* The timer of call n: sendAwayPush lists the subscriptions, if that call *)
(* is still the last and no /back came.                                    *)
AwayTimer(n) ==
  /\ timers[n] = 1
  /\ timers' = [timers EXCEPT ![n] = 0]
  /\ IF awayToken = n THEN awayToken' = 0 /\ told' = told \cup subs /\ remains' = 0
     ELSE UNCHANGED <<awayToken, told, remains>>
  /\ UNCHANGED <<visible, calls, aways, subs, gone>>

(* One turn of the loop: sent, or failed; a refused endpoint is removed.   *)
SendReminder(e) ==
  /\ e \in told
  /\ told' = told \ {e}
  /\ subs' = IF e \in gone THEN subs \ {e} ELSE subs
  /\ UNCHANGED <<visible, calls, awayToken, timers, aways, gone, remains>>

(* The browser gives the subscription up.                                  *)
Unsubscribe(e) ==
  /\ gone' = gone \cup {e}
  /\ UNCHANGED <<visible, calls, awayToken, timers, aways, subs, told, remains>>

AwayNext ==
  \/ \E t \in Tabs : TurnsAway(t)
  \/ \E e \in Endpoints : Subscribe(e) \/ SendReminder(e) \/ Unsubscribe(e)
  \/ \E c \in TabCalls : Away(c) \/ Back(c)
  \/ AwayTick
  \/ \E n \in 1..MaxAway : AwayTimer(n)

AwaySpec == AwayInit /\ [][AwayNext]_awayVars

-----------------------------------------------------------------------------
(* Types; and a reminder is due exactly while the server's last news is    *)
(* that the passenger left: one timer carries the token, and it runs out   *)
(* when the time away is over, however calls of several tabs are mixed.    *)
AwayInv ==
  /\ visible \in [Tabs -> BOOLEAN] /\ calls \subseteq TabCalls
  /\ awayToken \in 0..aways /\ aways \in 0..MaxAway
  /\ timers \in [1..MaxAway -> 0..AwayFor]
  /\ subs \subseteq Endpoints /\ gone \subseteq Endpoints /\ told \subseteq Endpoints
  /\ remains \in 0..AwayFor
  /\ (awayToken = 0) <=> (remains = 0)
  /\ awayToken # 0 => timers[awayToken] = remains

(* When the loop of a reminder is done with a refused endpoint, no matter  *)
(* what became of the others, the next reminder does not try it again.     *)
RefusedLeave ==
  [][\A e \in Endpoints : e \in gone /\ e \in told \ told' => e \notin subs']_awayVars
=============================================================================
