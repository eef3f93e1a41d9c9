------------------------------ MODULE MCLinks -------------------------------
(* How a passenger gets in and what the pages then show, for TLC: the invite   *)
(* links on the server, the trip in the passenger's row, the pages of the      *)
(* browser, and the hints of where to walk. They share no state: a behaviour   *)
(* follows one of them and leaves the others as they start.                    *)
EXTENDS PaxInvite, Itinerary, PaxPages, NavHints, TLC

VARIABLE focus

linksVars == <<focus, inviteVars, tripVars, pagesVars, navVars>>

Symmetry == Permutations(Links) \cup Permutations(Redeems)
            \cup Permutations(Devices) \cup Permutations(Clerks)

(* The choices of a start matter only while its part is followed.              *)
LinksInit ==
  /\ focus \in {"links", "trips", "pages", "hints"}
  /\ InviteInit /\ (focus = "links" \/ paxRow)
  /\ TripInit
  /\ PagesInit
  /\ NavInit
  /\ \/ focus = "hints"
     \/ /\ who = [trip |-> "depart", leg |-> "dep", own |-> "out", gate |-> TRUE]
        /\ navKept.hints = NoHints

LinksNext ==
  /\ UNCHANGED focus
  /\ \/ focus = "links" /\ InviteNext /\ UNCHANGED <<tripVars, pagesVars, navVars>>
     \/ focus = "trips" /\ TripNext /\ UNCHANGED <<inviteVars, pagesVars, navVars>>
     \/ focus = "pages" /\ PagesNext /\ UNCHANGED <<inviteVars, tripVars, navVars>>
     \/ focus = "hints" /\ NavNext /\ UNCHANGED <<inviteVars, tripVars, pagesVars>>

LinksSpec == LinksInit /\ [][LinksNext]_linksVars
=============================================================================
