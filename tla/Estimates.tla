------------------------------ MODULE Estimates ------------------------------
(* How long a passenger still needs, as the journey routes compute it:         *)
(* time-to-gate on the departure leg, time-to-exit on the arrival leg          *)
(* (passengerTimeEngine behind journeyEngineBridge).                           *)
(* Only the inputs the bridge can produce exist here: the class of aircraft is *)
(* always unknown, no seat number, seat position, walking class, remote stand  *)
(* or departure event ever reaches the engine. Times are whole minutes, and    *)
(* the words of a flight's status follow its actual times.                     *)
EXTENDS Integers, Sequences, FiniteSets, Functions

CONSTANTS
  Processes,      \* the covers of arrival considered
  Seats,          \* the seat zones considered
  Destinations,   \* the places outside the terminal considered
  Taxis,          \* scheduled minutes from the runway to the gate
  Minutes,        \* how far the clock advances in a step
  LastMinute      \* bound on the clock

ASSUME EstimatesAssumption ==
  /\ Processes \subseteq {"domestic_us", "domestic_other", "unknown",
                           "international_arrival_us", "international_connection"}
  /\ Seats \subseteq {"front", "middle", "back", "unknown"}
  /\ Destinations \subseteq {"exit", "curbside", "parking", "rideshare", "transit"}
  /\ Taxis \subseteq Nat /\ Minutes \in Nat \ {0} /\ LastMinute \in Nat

VARIABLES
  leg,      \* which of the two questions is asked: "depart" or "arrive"
  context   \* what the engine is given: the flight's times, the passenger's
            \* preferences, the steps marked, and the time of the question

estimateVars == <<leg, context>>

Unset == -1
Lanes == {"not-required", "citizen", "visitor", "global", "unknown"}
Queues == {"standard", "trusted", "priority", "unknown"}
Bags == {"yes", "no", "unknown"}
Levels == {"light", "normal", "busy", "unknown"}
Marks == <<"off_plane", "bags_collected", "outside">>

-----------------------------------------------------------------------------
(* Ranges of minutes.                                                          *)
R(a, b) == [min |-> a, max |-> b]
Zero == R(0, 0)

Biggest(a, b) == IF a > b THEN a ELSE b
Smallest(a, b) == IF a < b THEN a ELSE b

Expected(r) == (r.min + r.max + 1) \div 2

(* The sum of g over the stages; halves of ranges are kept as whole widths.    *)
Total(g) ==
  LET sum[i \in 0..Len(g)] == IF i = 0 THEN 0 ELSE sum[i - 1] + g[i]
  IN  sum[Len(g)]

Widths(stages) == [i \in DOMAIN stages |-> stages[i].max - stages[i].min]

SumExpected(stages) == Total([i \in DOMAIN stages |-> Expected(stages[i])])

(* The band shown around the expected total, in tenths of a minute: the widest *)
(* stage counts in full, the others for a fifth.                               *)
DerivedHalf(stages) ==
  LET widths == Widths(stages)
      widest == CHOOSE w \in Range(widths): \A v \in Range(widths): v <= w
  IN  5 * widest + (Total(widths) - widest)

NarrowTotalRange(stages, confidence, width, international) ==
  LET centre == SumExpected(stages)
      derived == DerivedHalf(stages)
      planned == 5 * width
      tenths == IF confidence = "low" \/ derived > planned + 40
                THEN Biggest(planned,
                       Smallest(derived, IF international THEN 200 ELSE 140))
                ELSE planned
      half == (tenths + 5) \div 10
  IN  IF \A i \in DOMAIN stages: stages[i] = Zero
      THEN Zero
      ELSE R(Biggest(0, centre - half), centre + half)

-----------------------------------------------------------------------------
(* What the bridge and the normalisation make of the flight and preferences.   *)
DestinationType(c) ==
  CASE c.process \in {"domestic_us", "domestic_other"} -> "domestic"
    [] c.process \in {"international_arrival_us", "international_connection"}
         -> "international"
    [] OTHER -> (CASE c.lane = "not-required" -> "domestic"
                   [] c.lane = "unknown" -> "unknown"
                   [] OTHER -> "international")

Precleared(c) == c.process = "domestic_us" \/ c.lane = "not-required"

NeedsImmigration(c) == c.process = "international_arrival_us"

Congestion(c) ==
  IF DestinationType(c) # "international" THEN c.level
  ELSE CASE c.level = "light" -> "normal"
         [] c.level = "normal" -> "busy"
         [] c.level = "busy" -> "very_busy"
         [] OTHER -> c.level

-----------------------------------------------------------------------------
(* Departure.                                                                  *)
BagDrop(c) ==
  CASE c.bags = "no" -> R(0, 5)
    [] c.bags = "yes" ->
         (CASE DestinationType(c) = "international" -> R(20, 40)
            [] DestinationType(c) = "unknown" -> R(10, 35)
            [] OTHER -> R(10, 22))
    [] OTHER ->
         (CASE DestinationType(c) = "international" -> R(12, 35)
            [] DestinationType(c) = "unknown" -> R(8, 35)
            [] OTHER -> R(8, 20))

Security(c) ==
  LET base == CASE Congestion(c) = "light" -> R(10, 20)
                [] Congestion(c) = "normal" -> R(15, 30)
                [] Congestion(c) = "busy" -> R(25, 45)
                [] Congestion(c) = "very_busy" -> R(35, 60)
                [] OTHER -> R(10, 60)
      percent == CASE c.queue = "priority" -> 70
                   [] c.queue = "trusted" -> 65
                   [] OTHER -> 100
      (* Math.round; in floating point, 45 * 0.7 is a little less than 31.5         *)
      scaled(m) == Biggest(5, (m * percent + (IF m = 45 THEN 49 ELSE 50)) \div 100)
  IN  R(scaled(base.min), scaled(base.max))

Walk(c) ==
  CASE c.gate /\ c.airport = "medium" -> R(10, 18)
    [] c.gate /\ c.airport = "far" -> R(18, 30)
    [] OTHER -> R(10, 20)

(* Check-in, security, the walk and a margin.                                  *)
GateStages(c) == <<BagDrop(c), Security(c), Walk(c), R(5, 8)>>

Unknowns(c) ==
  Cardinality({f \in {"bags", "queue"}: c[f] = "unknown"})
    + (IF DestinationType(c) = "unknown" THEN 1 ELSE 0)
    + (IF Congestion(c) = "unknown" THEN 1 ELSE 0)
    + (IF c.gate THEN 0 ELSE 2)     \* no gate, and no terminal with it

GateConfidence(c) ==
  CASE Unknowns(c) = 0 -> "high" [] Unknowns(c) \in 1..2 -> "medium" [] OTHER -> "low"

TimeToGate(c) ==
  NarrowTotalRange(GateStages(c), GateConfidence(c),
    CASE GateConfidence(c) = "high" -> 12
      [] GateConfidence(c) = "medium" -> 18 [] OTHER -> 24,
    DestinationType(c) = "international")

GateBuffer == 15

(* Boarding, counted from the gate departure the flight shows now.             *)
BoardingAt(c) == c.departs - (IF DestinationType(c) = "domestic" THEN 35 ELSE 50)

TargetGateArrival(c) == BoardingAt(c) - GateBuffer

RecommendedStart(c) == TargetGateArrival(c) - TimeToGate(c).max
RecommendedEnd(c) == TargetGateArrival(c) - TimeToGate(c).min

-----------------------------------------------------------------------------
(* Arrival.                                                                    *)
EffectiveRunway(c) == IF c.runway.actual # Unset THEN c.runway.actual ELSE c.runway.estimated
EffectiveGate(c) == IF c.door.actual # Unset THEN c.door.actual ELSE c.door.estimated

Outside(c) == "outside" \in c.marks
BagsCollected(c) == "bags_collected" \in c.marks \/ Outside(c)
OffPlane(c) == "off_plane" \in c.marks \/ BagsCollected(c)
AtGate(c) == c.door.actual # Unset \/ OffPlane(c)
HasLanded(c) == c.runway.actual # Unset \/ AtGate(c)

TouchdownToDoor(c) ==
  LET planned == EffectiveGate(c) - EffectiveRunway(c)
      ahead == EffectiveGate(c) - c.now
      taxi == CASE planned <= 0 -> R(10, 22)
                [] planned > 0 /\ HasLanded(c) /\ ahead > 0 ->
                     R(Biggest(0, ahead - 3), ahead + 3)
                [] OTHER -> R(planned, planned)
  IN  CASE OffPlane(c) -> Zero
        [] ~OffPlane(c) /\ AtGate(c) -> R(2, 5)
        [] OTHER -> R(taxi.min + 2, taxi.max + 5)

SeatToExit(c) ==
  IF OffPlane(c) THEN Zero
  ELSE CASE c.seat = "front" -> R(4, 12)
         [] c.seat = "middle" -> R(8, 22)
         [] c.seat = "back" -> R(13, 30)
         [] OTHER -> R(5, 25)

GateToBaggage(c) ==
  IF BagsCollected(c) THEN Zero
  ELSE CASE NeedsImmigration(c) -> R(8, 18)
         [] DestinationType(c) = "domestic" -> R(5, 12)
         [] OTHER -> R(5, 14)

FullBaggage(c) ==
  CASE c.bags = "no" -> Zero
    [] c.bags = "yes" ->
         IF DestinationType(c) = "international" THEN R(30, 50) ELSE R(15, 30)
    [] OTHER ->
         (CASE DestinationType(c) = "international" -> R(15, 40)
            [] DestinationType(c) = "unknown" -> R(10, 30)
            [] OTHER -> R(12, 25))

(* A slip: a wait that is over is taken for one not yet begun.                 *)
BaggageStartsAgain(c) ==
  LET full == FullBaggage(c)
      ahead == Biggest(0, Expected(full) - Biggest(0, c.now - EffectiveGate(c)))
      half == Smallest(8, (full.max - full.min + 1) \div 2)
  IN  IF BagsCollected(c) \/ full = Zero THEN Zero
      ELSE IF ~AtGate(c) \/ EffectiveGate(c) > c.now \/ ahead = 0 THEN full
      ELSE R(Biggest(0, ahead - half), ahead + half)

(* The wait for bags shrinks with the time since the gate.                     *)
RemainingBaggage(c) ==
  LET full == FullBaggage(c)
      ahead == Biggest(0, Expected(full) - Biggest(0, c.now - EffectiveGate(c)))
      half == Smallest(8, (full.max - full.min + 1) \div 2)
  IN  IF BagsCollected(c) \/ full = Zero THEN Zero
      ELSE IF ~AtGate(c) \/ EffectiveGate(c) > c.now THEN full
      ELSE IF ahead = 0 THEN Zero
      ELSE R(Biggest(0, ahead - half), ahead + half)

Immigration(c) ==
  IF BagsCollected(c) \/ ~NeedsImmigration(c) \/ Precleared(c) THEN Zero
  ELSE CASE c.lane = "unknown" /\ Congestion(c) \in {"busy", "very_busy"} -> R(25, 75)
         [] c.lane = "citizen" -> R(15, 45)
         [] c.lane = "visitor" -> R(25, 75)
         [] c.lane = "global" -> R(5, 20)
         [] OTHER -> R(20, 65)

Customs(c) ==
  IF BagsCollected(c) \/ ~NeedsImmigration(c) \/ Precleared(c) THEN Zero ELSE R(5, 20)

FinalWalk(c) ==
  IF Outside(c) THEN Zero
  ELSE CASE c.destination = "curbside" -> R(5, 12)
         [] c.destination = "parking" -> R(8, 18)
         [] c.destination = "rideshare" -> R(8, 20)
         [] c.destination = "transit" -> R(10, 25)
         [] OTHER -> R(3, 8)

ExitStages(c) == <<TouchdownToDoor(c), SeatToExit(c), GateToBaggage(c), Immigration(c),
                RemainingBaggage(c), Customs(c), FinalWalk(c)>>

(* With the class of aircraft unknown, only progress makes an estimate sure.   *)
ExitConfidence(c) == IF AtGate(c) THEN "high" ELSE "low"

ExitWidth(c) ==
  CASE ~NeedsImmigration(c) /\ (c.bags = "no" \/ BagsCollected(c)) ->
         IF ExitConfidence(c) = "high" THEN 10 ELSE 14
    [] ~NeedsImmigration(c) /\ c.bags # "no" /\ ~BagsCollected(c) ->
         IF ExitConfidence(c) = "high" THEN 14 ELSE 22
    [] OTHER -> IF ExitConfidence(c) = "high" THEN 18 ELSE 30

TimeToExit(c) ==
  NarrowTotalRange(ExitStages(c), ExitConfidence(c), ExitWidth(c), NeedsImmigration(c))

ExitExpected(c) == SumExpected(ExitStages(c))

(* The minutes count from touchdown while the plane is in the air.             *)
StartsAt(c) == IF ~HasLanded(c) /\ EffectiveRunway(c) > c.now THEN EffectiveRunway(c) ELSE c.now

-----------------------------------------------------------------------------
(* What the flight and the preferences may be when the journey starts.         *)
Contexts(l) ==
  [process: Processes, lane: Lanes, bags: Bags,
   level: IF l = "depart" THEN Levels ELSE {"normal", "unknown"},
   queue: IF l = "depart" THEN Queues ELSE {"unknown"},
   gate: IF l = "depart" THEN BOOLEAN ELSE {TRUE},
   airport: IF l = "depart" THEN {"medium", "far", "default"} ELSE {"default"},
   departs: {LastMinute},
   seat: IF l = "arrive" THEN Seats ELSE {"unknown"},
   destination: IF l = "arrive" THEN Destinations ELSE {"exit"},
   now: {0}, runway: [estimated: {Minutes}, actual: {Unset}],
   door: [estimated: {Minutes + t: t \in Taxis}, actual: {Unset}],
   marks: {{}}]

EstimatesInit ==
  /\ leg \in {"depart", "arrive"}
  /\ context \in Contexts(leg)

(* Time passes on the way in.                                                  *)
MinutesPass ==
  /\ leg = "arrive" /\ context.now + Minutes <= LastMinute
  /\ context' = [context EXCEPT !.now = @ + Minutes]
  /\ UNCHANGED leg

(* The flight data report the touchdown, then the arrival at the gate.         *)
TouchesDown ==
  /\ leg = "arrive" /\ context.runway.actual = Unset /\ context.now > 0
  /\ context' = [context EXCEPT !.runway.actual = context.now]
  /\ UNCHANGED leg

ReachesGate ==
  /\ leg = "arrive" /\ context.runway.actual # Unset
  /\ context.door.actual = Unset /\ context.now > context.runway.actual
  /\ context' = [context EXCEPT !.door.actual = context.now]
  /\ UNCHANGED leg

(* The passenger marks a step, in any order that keeps the times in order.     *)
MarkProgress ==
  /\ leg = "arrive" /\ context.now > 0
  /\ \E i \in DOMAIN Marks:
       /\ \A j \in i..Len(Marks): Marks[j] \notin context.marks
       /\ context' = [context EXCEPT !.marks = @ \cup {Marks[i]}]
  /\ UNCHANGED leg

ResetProgress ==
  /\ leg = "arrive" /\ context.marks # {}
  /\ context' = [context EXCEPT !.marks = {}]
  /\ UNCHANGED leg

(* The departure slips, within the same part of the day or into another.       *)
Slips ==
  /\ leg = "depart" /\ context.departs = LastMinute
  /\ \E l \in Levels:
       context' = [context EXCEPT !.departs = @ + Minutes, !.level = l]
  /\ UNCHANGED leg

EstimatesNext ==
  MinutesPass \/ TouchesDown \/ ReachesGate \/ MarkProgress \/ ResetProgress \/ Slips

EstimatesSpec == EstimatesInit /\ [][EstimatesNext]_estimateVars

-----------------------------------------------------------------------------
(* What the engine may be given, at whatever time and progress.                *)
Stamps == [estimated: Nat, actual: Nat \cup {Unset}]
Given ==
  [process: Processes, lane: Lanes, bags: Bags, level: Levels, queue: Queues,
   gate: BOOLEAN, airport: {"medium", "far", "default"}, departs: Nat,
   seat: Seats \cup {"unknown"}, destination: Destinations \cup {"exit"},
   now: 0..LastMinute, runway: Stamps, door: Stamps, marks: SUBSET Range(Marks)]

EstimatesTypeOK == leg \in {"depart", "arrive"} /\ context \in Given

WorstGate(c) == Total([i \in DOMAIN GateStages(c) |-> GateStages(c)[i].max])

(* Someone who sets off at the start of the window is at the gate before       *)
(* boarding starts even when every stage takes its longest, as long as the     *)
(* time of day and the kind of flight are known: the band is narrowed to less  *)
(* than the sum of the stages, and the buffer makes up for what was cut.       *)
StartOfWindowBoards ==
  leg = "depart" /\ Congestion(context) # "unknown"
    /\ DestinationType(context) # "unknown"
    => RecommendedStart(context) + WorstGate(context) <= BoardingAt(context)

(* What is reported on the way out agrees with itself: the band holds the      *)
(* expected time, it is gone exactly once the passenger is outside, and        *)
(* immigration is counted exactly when it is announced and still ahead.        *)
ExitAgrees ==
  leg = "arrive" =>
    LET c == context IN
    /\ TimeToExit(c).min <= ExitExpected(c) /\ ExitExpected(c) <= TimeToExit(c).max
    /\ (TimeToExit(c) = Zero) <=> Outside(c)
    /\ (Immigration(c) # Zero)
         <=> NeedsImmigration(c) /\ ~Precleared(c) /\ ~BagsCollected(c)

EstimatesInv == EstimatesTypeOK /\ StartOfWindowBoards /\ ExitAgrees

NoLonger ==
  /\ ExitExpected(context') <= ExitExpected(context)
  /\ TimeToExit(context').max <= TimeToExit(context).max

(* Neither marking progress nor, once the plane is at the gate, time alone     *)
(* makes the rest of the way look longer.                                      *)
LaterNeverLonger ==
  [][\/ context.marks \subseteq context'.marks /\ context.marks # context'.marks
     \/ context'.now # context.now /\ AtGate(context)
     => NoLonger]_estimateVars
=============================================================================
