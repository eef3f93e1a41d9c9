----------------------------- MODULE PaxPages -------------------------------
(* The pages of a passenger's browser (/pax, /pax/login, /pax/flight,          *)
(* /pax/app) over what the browser keeps: the session and the trip it is for.  *)
(* A page that opens shows what is kept and asks the server whether it still   *)
(* holds; a question outlives its page unless the browser leaves the app.      *)
(*                                                                             *)
(* One tab. Every trip here is a transfer, the kind with two legs to choose    *)
(* from; other trips have one leg and nothing to keep.                         *)
EXTENDS Naturals, FiniteSets

CONSTANTS Accounts,    \* those who sign in with this browser
          Tripless,    \* of these, those whose sign-in answers without a trip
          Nobody,      \* no account: nothing kept, nothing shown
          MaxAsks      \* questions to the server at once

ASSUME PagesAssumption ==
  /\ Tripless \subseteq Accounts /\ Nobody \notin Accounts /\ MaxAsks \in Nat

VARIABLES
  kept,       \* the session in local storage: its account, or Nobody
  trip,       \* the trip in local storage
  page,       \* the page open; the entry page shows only to those without a session
  shown,      \* the session the page renders, with its trip
  checking,   \* the page waits for the server's word on the session
  failed,     \* the page shows an error instead of itself
  asks,       \* fetchPaxSession under way: for whom, and whether its page waits
  accepted,   \* the accounts whose session the server still accepts
  tab,        \* the leg the flight page has open
  loading,    \* the leg of the trip a flight lookup was started with, or "none"
  signing     \* a sign-in under way: whose, or Nobody

pagesVars ==
  <<kept, trip, page, shown, checking, failed, asks, accepted, tab, loading, signing>>

Legs == {"arr", "dep"}
NoTrip == [of |-> Nobody, leg |-> "dep"]
Trips == [of: Accounts, leg: Legs] \cup {NoTrip}
NothingShown == [of |-> Nobody, trip |-> NoTrip]

PagesTypeOK ==
  /\ kept \in Accounts \cup {Nobody} /\ trip \in Trips
  /\ page \in {"entry", "login", "flight", "app"}
  /\ shown \in [of: Accounts \cup {Nobody}, trip: Trips]
  /\ checking \in BOOLEAN /\ failed \in BOOLEAN
  /\ asks \subseteq [of: Accounts, awaited: BOOLEAN]
  /\ accepted \subseteq Accounts
  /\ tab \in Legs /\ loading \in Legs \cup {"none"}
  /\ signing \in Accounts \cup {Nobody}

PagesInit ==
  /\ kept = Nobody /\ trip = NoTrip /\ page = "entry" /\ shown = NothingShown
  /\ checking = FALSE /\ failed = FALSE /\ asks = {} /\ accepted = Accounts
  /\ tab = "dep" /\ loading = "none" /\ signing = Nobody

-----------------------------------------------------------------------------
(* getStoredPaxSession: the kept session with the kept trip.                   *)
Stored(who, t) == IF who = Nobody THEN NothingShown ELSE [of |-> who, trip |-> t]

(* The questions a page leaves behind are still answered, for nobody.          *)
Orphans(as) == {[of |-> a.of, awaited |-> FALSE]: a \in as}

(* A flight or assist page opens over who and t, with pending asks of before.  *)
Mount(p, who, t, pending) ==
  /\ page' = p
  /\ shown' = Stored(who, t)
  /\ failed' = (who = Nobody)
  /\ checking' = (who # Nobody)
  /\ asks' = IF who = Nobody THEN pending
             ELSE pending \cup {[of |-> who, awaited |-> TRUE]}
  /\ tab' = t.leg
  /\ loading' = IF p = "flight" /\ who # Nobody THEN t.leg ELSE "none"
  /\ Cardinality(asks') <= MaxAsks

Plain(p, pending) ==
  /\ page' = p /\ shown' = NothingShown /\ checking' = FALSE /\ failed' = FALSE
  /\ asks' = pending /\ tab' = "dep" /\ loading' = "none"

(* /pax: whoever has a session kept is sent on to the assist page.             *)
Entry(who, t, pending) ==
  IF who = Nobody THEN Plain("entry", pending) ELSE Mount("app", who, t, pending)

-----------------------------------------------------------------------------
(* The address bar, a bookmark, the icon on the home screen, a link that loads *)
(* the page anew: questions under way are dropped with the old page.           *)
Visit(p) ==
  /\ CASE p = "entry" -> Entry(kept, trip, {})
       [] p = "login" -> Plain("login", {})
       [] OTHER -> Mount(p, kept, trip, {})
  /\ signing' = Nobody
  /\ UNCHANGED <<kept, trip, accepted>>

(* Links and the back button within the app: the page unmounts.                *)
Leave ==
  /\ page = "flight" /\ Plain("login", Orphans(asks))
  /\ UNCHANGED <<kept, trip, accepted, signing>>

LoginBack ==
  /\ page = "login" /\ Entry(kept, trip, asks)
  /\ UNCHANGED <<kept, trip, accepted, signing>>

Continue ==
  /\ page = "entry" /\ Plain("login", asks)
  /\ UNCHANGED <<kept, trip, accepted, signing>>

(* The form of the login page, or the claim page of an invite link, which asks *)
(* as it opens. A form does not ask twice.                                     *)
SignIn(a) ==
  /\ page = "login" /\ signing = Nobody /\ signing' = a
  /\ UNCHANGED <<kept, trip, page, shown, checking, failed, asks, accepted, tab, loading>>

SignInFails ==
  /\ signing # Nobody /\ signing' = Nobody
  /\ UNCHANGED <<kept, trip, page, shown, checking, failed, asks, accepted, tab, loading>>

(* A sign-in is answered: the trip, if there is one, and the session are kept, *)
(* and the flight page opens, whatever page has been opened since.             *)
SignedIn(a) ==
  /\ signing = a /\ signing' = Nobody
  /\ LET t == IF a \in Tripless THEN trip ELSE [of |-> a, leg |-> "arr"]
     IN /\ kept' = a /\ trip' = t
        /\ Mount("flight", a, t, Orphans(asks))
  /\ accepted' = accepted \cup {a}

(* The server's word on a session: it is kept again, whatever was kept by      *)
(* then, under the trip kept by now; the page that waits renders it.           *)
Confirmed(a) ==
  /\ a \in asks /\ a.of \in accepted
  /\ kept' = a.of
  /\ asks' = asks \ {a}
  /\ IF a.awaited
     THEN /\ shown' = Stored(a.of, trip) /\ checking' = FALSE
          /\ loading' = IF page = "flight" THEN trip.leg ELSE loading
     ELSE UNCHANGED <<shown, checking, loading>>
  /\ UNCHANGED <<trip, page, failed, accepted, tab, signing>>

(* No word, or the word is no: the page says so; what is kept stays.           *)
Refused(a) ==
  /\ a \in asks
  /\ asks' = asks \ {a}
  /\ IF a.awaited THEN failed' = TRUE /\ checking' = FALSE ELSE UNCHANGED <<failed, checking>>
  /\ UNCHANGED <<kept, trip, page, shown, accepted, tab, loading, signing>>

Expires(a) ==
  /\ a \in accepted /\ accepted' = accepted \ {a}
  /\ UNCHANGED <<kept, trip, page, shown, checking, failed, asks, tab, loading, signing>>

Ready(p) == page = p /\ ~checking /\ ~failed

(* Seeded fault: the choice is rendered but not kept.                          *)
PickLegUnkept(l) ==
  /\ page \in {"flight", "app"} /\ Ready(page) /\ shown.trip # NoTrip
  /\ IF page = "app" THEN shown' = [shown EXCEPT !.trip.leg = l] /\ tab' = tab
     ELSE tab' = l /\ shown' = shown
  /\ UNCHANGED <<kept, trip, page, checking, failed, asks, accepted, loading, signing>>

(* persistActiveLeg: the leg goes to the kept trip; the assist page renders    *)
(* it from its session, the flight page from its own tab.                      *)
PickLeg(l) ==
  /\ page \in {"flight", "app"} /\ Ready(page) /\ shown.trip # NoTrip
  /\ trip' = [shown.trip EXCEPT !.leg = l]
  /\ IF page = "app" THEN shown' = [shown EXCEPT !.trip.leg = l] /\ tab' = tab
     ELSE tab' = l /\ shown' = shown
  /\ UNCHANGED <<kept, page, checking, failed, asks, accepted, loading, signing>>

(* The flights of the trip arrive, or do not: the page opens the leg of the    *)
(* trip it asked about.                                                        *)
FlightsLoaded ==
  /\ loading # "none"
  /\ tab' \in {loading, tab}
  /\ loading' = "none"
  /\ UNCHANGED <<kept, trip, page, shown, checking, failed, asks, accepted, signing>>

(* clearPaxSession, then the login page; the assist page loads /pax anew.      *)
Logout ==
  /\ page \in {"flight", "app"} /\ Ready(page)
  /\ kept' = Nobody /\ trip' = NoTrip
  /\ IF page = "flight" THEN Plain("login", asks) /\ signing' = signing
     ELSE Plain("entry", {}) /\ signing' = Nobody
  /\ UNCHANGED accepted

(* The link under the error: to the login page, or from the assist page to     *)
(* the entry page.                                                             *)
FollowErrorLink ==
  /\ failed /\ ~checking
  /\ IF page = "flight" THEN Plain("login", asks) /\ signing' = signing
     ELSE Entry(kept, trip, {}) /\ signing' = Nobody
  /\ UNCHANGED <<kept, trip, accepted>>

PagesNext ==
  \/ \E p \in {"entry", "login", "flight", "app"}: Visit(p)
  \/ Leave \/ LoginBack \/ Continue \/ FlightsLoaded \/ Logout \/ FollowErrorLink
  \/ SignInFails
  \/ \E a \in Accounts: SignIn(a) \/ SignedIn(a) \/ Expires(a)
  \/ \E a \in asks: Confirmed(a) \/ Refused(a)
  \/ \E l \in Legs: PickLeg(l)

PagesSpec == PagesInit /\ [][PagesNext]_pagesVars

-----------------------------------------------------------------------------
(* The assist page and the storage agree on the trip and its open leg: the     *)
(* server's word on the session, whenever it comes, does not undo a choice.    *)
AssistKeepsLeg == Ready("app") => shown.trip = trip

(* A page renders nobody but the one whose session it opened with or was       *)
(* confirmed, and waits only for a question that is under way.                 *)
PagesInv ==
  /\ PagesTypeOK
  /\ AssistKeepsLeg
  /\ checking => [of |-> shown.of, awaited |-> TRUE] \in asks
  /\ Cardinality({a \in asks: a.awaited}) <= 1
  /\ \A a \in asks: a.awaited => checking /\ page \in {"flight", "app"}

(* The flight page has the leg open that is kept as the last one opened.       *)
(* (Not so: a lookup started before the choice opens the old leg again.)       *)
FlightKeepsLeg ==
  (Ready("flight") /\ loading = "none" /\ shown.trip # NoTrip) => tab = trip.leg

(* What is kept of a trip is the trip of whoever is signed in.                 *)
(* (Not so after a sign-in that answers without a trip.)                       *)
TripIsTheirs == (kept # Nobody /\ trip # NoTrip) => trip.of = kept

(* The text of the error: whoever's session is over starts again from the      *)
(* entry page. So nobody who only follows the link meets the error for ever.   *)
BackToSignIn == <>[](page = "app" /\ kept \notin accepted) => <>[]~failed

(* Whoever reads the error follows its link.                                   *)
PagesFairSpec == PagesSpec /\ WF_pagesVars(FollowErrorLink)
                 /\ \A a \in [of: Accounts, awaited: BOOLEAN]:
                      WF_pagesVars(a \in asks /\ (Confirmed(a) \/ Refused(a)))
=============================================================================
