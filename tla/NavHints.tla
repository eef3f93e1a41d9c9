----------------------------- MODULE NavHints -------------------------------
(* Where the assist page of a passenger proposes to walk: the hints it gathers *)
(* from the address, from storage, from the session and from a live lookup of  *)
(* the flight that is open, and the plan the passenger confirms on a map.      *)
(*                                                                             *)
(* A flight stands for its number, a gate for the flight it is the gate of, an *)
(* airport for its map. The lookup of an earlier session or leg is dropped.    *)
EXTENDS Naturals

VARIABLES
  who,      \* the session: what kind of trip, its open leg, the passenger's own
            \* flight in the registry, and whether that has a gate yet
  hints,    \* navHints of the page
  plan,     \* navPlan of the page: the map it is on, the map its ends are on
  lookup,   \* the lookup under way, by flight, or "none"
  settled,  \* the airport of the open flight has come from a lookup
  panel,    \* the form: map chosen (by hand?), list of places shown, ends picked
  asking,   \* the map whose places the form has asked for, or "none"
  navKept   \* hints and plan in local storage

navVars == <<who, hints, plan, lookup, settled, panel, asking, navKept>>

Flights == {"in", "out", "new", "old"}
Home == "PEK"
Airports == {Home, "SFO", "BOS"}
DepartsFrom(f) == IF f \in {"in", "old"} THEN "SFO" ELSE Home

Sessions == {w \in [trip: {"transfer", "depart", "arrive", "none"}, leg: {"arr", "dep"},
                    own: {"in", "out", "new"}, gate: BOOLEAN]:
               /\ w.trip = "arrive" => w.own # "out" /\ w.leg = "arr"
               /\ w.trip # "arrive" => w.own # "in"
               /\ w.trip \in {"depart", "none"} => w.leg = "dep"}

NoHints == [airport |-> "none", from |-> "none", to |-> "none", flight |-> "none",
            leg |-> "none"]
NoPlan == [airport |-> "none", ends |-> "none"]
NoPanel == [airport |-> Home, byHand |-> FALSE, places |-> "none", picked |-> "none"]

(* JavaScript's a || b, b: the first that is there.                            *)
Or(a, b) == IF a # "none" THEN a ELSE b

-----------------------------------------------------------------------------
(* currentTripFlightId, resolveActiveLeg.                                      *)
OpenFlight(w) ==
  CASE w.trip = "transfer" -> IF w.leg = "arr" THEN "in" ELSE "out"
    [] w.trip = "depart" -> "out"
    [] w.trip = "arrive" -> "in"
    [] OTHER -> w.own
OpenLeg(w) == IF w.trip = "none" THEN "none" ELSE w.leg

(* selectNavHintsForFlight: pins of the address and stored hints only when     *)
(* they are for the open flight; the gate of the registry only for its own.    *)
SelectHints(w, pins, stored) ==
  LET f == OpenFlight(w)
      Pinned(v) == IF pins.flight = f THEN v ELSE "none"
      Kept(v) == IF stored.flight = f THEN v ELSE "none"
      boarding == IF w.own = f /\ w.gate THEN f ELSE "none"
  IN [airport |-> Or(Pinned(pins.airport), Or(Kept(stored.airport), Home)),
      from |-> Or(Pinned(pins.from), Kept(stored.from)),
      to |-> Or(Pinned(pins.to), Or(Kept(stored.to), boarding)),
      flight |-> f, leg |-> OpenLeg(w)]

(* Seeded fault: the gate of the flight left stays until another is known.     *)
MergeKeepsGate(h, found, pins) ==
  LET f == Or(found.flight, h.flight)
      Pinned(v) == IF pins.flight # "none" /\ pins.flight = f THEN v ELSE "none"
      airport == Or(found.airport, Or(Pinned(pins.airport), h.airport))
      Changed(a, b) == a # "none" /\ b # "none" /\ a # b
      dropStart == \/ Changed(airport, h.airport) \/ Changed(found.flight, h.flight)
                   \/ Changed(found.leg, h.leg)
      earlier == Or(Pinned(pins.to), h.to)
  IN [airport |-> airport,
      from |-> IF dropStart THEN "none" ELSE Or(Pinned(pins.from), h.from),
      to |-> Or(found.to, Or(earlier, Pinned(pins.to))),
      flight |-> f, leg |-> Or(found.leg, h.leg)]

(* mergeLiveDepartureHints: what a lookup found over what the page has.        *)
MergeLive(h, found, pins) ==
  LET f == Or(found.flight, h.flight)
      Pinned(v) == IF pins.flight # "none" /\ pins.flight = f THEN v ELSE "none"
      airport == Or(found.airport, Or(Pinned(pins.airport), h.airport))
      Changed(a, b) == a # "none" /\ b # "none" /\ a # b
      dropStart == \/ Changed(airport, h.airport) \/ Changed(found.flight, h.flight)
                   \/ Changed(found.leg, h.leg)
      earlier == IF found.airport # "none" /\ dropStart THEN "none"
                 ELSE Or(Pinned(pins.to), h.to)
  IN [airport |-> airport,
      from |-> IF dropStart THEN "none" ELSE Or(Pinned(pins.from), h.from),
      to |-> Or(found.to, Or(earlier, Pinned(pins.to))),
      flight |-> f, leg |-> Or(found.leg, h.leg)]

(* loadDepartureNavFromFlight: airport and gate may be unknown.                *)
Found(w) ==
  {[airport |-> a, from |-> "none", to |-> g, flight |-> OpenFlight(w), leg |-> w.leg]:
     a \in {"none", DepartsFrom(OpenFlight(w))}, g \in {"none", OpenFlight(w)}}

(* The hints and the plan survive together only on one map; the form below the *)
(* page follows the hints until its map is chosen by hand.                     *)
Renders(h, p, w) ==
  LET fits == h.airport = "none" \/ p = NoPlan \/ p.airport = h.airport
      byHand == panel.byHand /\ h.flight = hints.flight
      map == IF byHand THEN panel.airport ELSE Or(h.airport, Home)
      asksAgain == \/ map # panel.airport \/ plan # NoPlan
                   \/ <<h.from, h.to, h.flight, h.leg>>
                        # <<hints.from, hints.to, hints.flight, hints.leg>>
  IN /\ who' = w /\ hints' = h
     /\ plan' = IF fits THEN p ELSE NoPlan
     /\ IF fits /\ p # NoPlan THEN panel' = NoPanel /\ asking' = "none"
        ELSE IF asksAgain
        THEN /\ panel' = [panel EXCEPT !.airport = map, !.byHand = byHand,
                                       !.picked = "none"]
             /\ asking' = map
        ELSE panel' = [panel EXCEPT !.byHand = byHand] /\ asking' = asking

Keep(h, p) == navKept' = [hints |-> h, plan |-> p]
KeptPlan == IF plan' = NoPlan /\ plan # NoPlan THEN NoPlan ELSE navKept.plan

-----------------------------------------------------------------------------
(* "Start navigation" on the flight page pins the flight it shows. With its    *)
(* data still missing the card stands in with the passenger's own gate.        *)
StartPins(w) ==
  LET f == OpenFlight(w)
      own == IF w.gate THEN w.own ELSE "none"
  IN {[airport |-> DepartsFrom(f), from |-> "none", to |-> g, flight |-> f]: g \in {f, "none"}}
     \cup {[airport |-> Home, from |-> "none", to |-> own, flight |-> f]}

NoPins == [airport |-> "none", from |-> "none", to |-> "none", flight |-> "none"]

(* The page opens: with the pins of its address, which it then removes, or     *)
(* without; with the plan confirmed before, unless a start cleared it.         *)
Mounted(w, pins, stored, p) ==
  LET h0 == SelectHints(w, pins, stored)
      h1 == IF pins = NoPins THEN h0 ELSE MergeLive(h0, NoHints, pins)
      fits == p = NoPlan \/ (p.airport = h0.airport /\ p.airport = h1.airport)
  IN /\ who' = w /\ hints' = h1
     /\ plan' = IF fits THEN p ELSE NoPlan
     /\ panel' = [NoPanel EXCEPT !.airport = h1.airport]
     /\ asking' = IF plan' = NoPlan THEN h1.airport ELSE "none"
     /\ lookup' = OpenFlight(w) /\ settled' = FALSE
     /\ Keep(stored, plan')

Reopen == Mounted(who, NoPins, navKept.hints, navKept.plan)

StartNavigation ==
  \E pins \in StartPins(who):
    Mounted(who, pins, [NoHints EXCEPT !.airport = pins.airport, !.to = pins.to,
                                       !.flight = pins.flight], NoPlan)

(* fetchPaxSession answers: the registry may have another flight or gate by    *)
(* now. Only another flight makes the page gather its hints again.             *)
SessionRefreshed(w) ==
  /\ w.trip = who.trip /\ w.leg = who.leg
  /\ LET next == SelectHints(w, NoPins, navKept.hints)
         merged == [airport |-> Or(next.airport, hints.airport),
                    from |-> Or(next.from, hints.from), to |-> Or(next.to, hints.to),
                    flight |-> Or(next.flight, hints.flight), leg |-> Or(next.leg, hints.leg)]
         h == IF w.own = who.own THEN hints
              ELSE IF next.flight # hints.flight THEN next ELSE merged
     IN Renders(h, plan, w)
  /\ lookup' = OpenFlight(w) /\ settled' = FALSE
  /\ Keep(navKept.hints, KeptPlan)

(* The other leg of a transfer: its flight takes over, and any plan is void.   *)
SwitchLeg(l) ==
  /\ who.trip = "transfer" /\ l # who.leg
  /\ LET w == [who EXCEPT !.leg = l]
     IN /\ Renders([NoHints EXCEPT !.flight = OpenFlight(w), !.leg = l], NoPlan, w)
        /\ lookup' = OpenFlight(w)
  /\ settled' = FALSE
  /\ Keep(navKept.hints, KeptPlan)

LiveArrives ==
  /\ lookup # "none" /\ lookup' = "none"
  /\ \E found \in Found(who):
       /\ Renders(MergeLive(hints, found, NoPins), plan, who)
       /\ settled' = (found.airport # "none")
  /\ Keep(navKept.hints, KeptPlan)

LiveFails ==
  /\ lookup # "none" /\ lookup' = "none"
  /\ UNCHANGED <<who, hints, plan, settled, panel, asking, navKept>>

-----------------------------------------------------------------------------
(* The form: another map, the places of the map asked for last, both ends.     *)
ChooseMap(a) ==
  /\ plan = NoPlan /\ a # panel.airport
  /\ panel' = [panel EXCEPT !.airport = a, !.byHand = TRUE, !.picked = "none"]
  /\ asking' = a
  /\ UNCHANGED <<who, hints, plan, lookup, settled, navKept>>

PlacesArrive ==
  /\ asking # "none" /\ asking' = "none"
  /\ \E picked \in {"none", asking}:
       panel' = [panel EXCEPT !.places = asking, !.picked = picked]
  /\ UNCHANGED <<who, hints, plan, lookup, settled, navKept>>

PickEnds ==
  /\ plan = NoPlan /\ asking = "none" /\ panel.places # "none"
  /\ panel' = [panel EXCEPT !.picked = panel.places]
  /\ UNCHANGED <<who, hints, plan, lookup, settled, asking, navKept>>

(* The other tab of the page and back: the form starts over.                   *)
ComeBack ==
  /\ plan = NoPlan
  /\ panel' = [NoPanel EXCEPT !.airport = Or(hints.airport, Home)]
  /\ asking' = panel'.airport
  /\ UNCHANGED <<who, hints, plan, lookup, settled, navKept>>

(* The plan is kept and rendered; on another map than the hints' the page      *)
(* drops it in the same breath.                                                *)
Confirm ==
  /\ plan = NoPlan /\ panel.picked # "none"
  /\ LET p == [airport |-> panel.airport, ends |-> panel.picked]
     IN /\ Renders(hints, p, who)
        /\ Keep([airport |-> p.airport, from |-> hints.flight, to |-> hints.flight,
                 flight |-> hints.flight, leg |-> "none"], plan')
  /\ UNCHANGED <<lookup, settled>>

ChangePlan ==
  /\ plan # NoPlan
  /\ Renders(hints, NoPlan, who)
  /\ Keep(navKept.hints, NoPlan)
  /\ UNCHANGED <<lookup, settled>>

NavInit ==
  /\ who \in Sessions
  /\ \E f \in Flights \cup {"none"}:
       LET stored == IF f = "none" THEN NoHints
                     ELSE [airport |-> DepartsFrom(f), from |-> "none", to |-> f,
                           flight |-> f, leg |-> "none"]
       IN /\ hints = SelectHints(who, NoPins, stored)
          /\ navKept = [hints |-> stored, plan |-> NoPlan]
  /\ plan = NoPlan /\ lookup = OpenFlight(who) /\ settled = FALSE
  /\ panel = [NoPanel EXCEPT !.airport = hints.airport] /\ asking = hints.airport

NavNext ==
  \/ Reopen \/ StartNavigation \/ LiveArrives \/ LiveFails
  \/ PlacesArrive \/ PickEnds \/ ComeBack \/ Confirm \/ ChangePlan
  \/ \E w \in Sessions: SessionRefreshed(w)
  \/ \E l \in {"arr", "dep"}: SwitchLeg(l)
  \/ \E a \in Airports: ChooseMap(a)

NavSpec == NavInit /\ [][NavNext]_navVars

-----------------------------------------------------------------------------
(* The hints are those of the flight that is open: once a lookup has told its  *)
(* airport, no airport or gate of the leg left or of an earlier trip stays on  *)
(* it, and a start never does.                                                 *)
HintsFitOpenFlight ==
  /\ hints.flight = OpenFlight(who)
  /\ hints.from \in {"none", hints.flight}
  /\ settled => /\ hints.airport = DepartsFrom(hints.flight)
                /\ hints.to # "none" => DepartsFrom(hints.to) = hints.airport

(* A plan is on the map of the hints, and both its ends are places of that map:*)
(* the answer for a map chosen before never fills the form of the next one.    *)
PlanIsOnOneMap ==
  plan # NoPlan => /\ plan.ends = plan.airport
                   /\ hints.airport \in {"none", plan.airport}

NavInv == HintsFitOpenFlight /\ PlanIsOnOneMap

(* The gate is that of the open flight. (Not so: when the registry has moved   *)
(* the passenger to another flight, "Start navigation" pins that flight's gate *)
(* to the one of the trip.)                                                    *)
GateOfOpenFlight == settled => hints.to \in {"none", hints.flight}

(* What the passenger confirms, on whatever map of the form, is the plan. (Not *)
(* so: a map other than the hints' is refused without a word.)                 *)
ConfirmedIsPlanned == [][Confirm => plan' # NoPlan]_navVars
=============================================================================
