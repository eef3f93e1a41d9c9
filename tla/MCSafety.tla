------------------------------ MODULE MCSafety ------------------------------
(* Seven parts of the system whose safety is checked together, for TLC:        *)
(* sessions, journeys, the hub's chat histories, time estimates, the reminder  *)
(* of an absent passenger, calls, and bookings (no polls). They share no       *)
(* state: a behaviour follows one of them and leaves the others as they start. *)
EXTENDS Sessions, Journey, ChatHistory, Estimates, AwayPush, PeerCall, Booking

VARIABLE focus

safetyVars ==
  <<focus, sessionVars, journeyVars, chatVars, estimateVars, awayVars, callVars, bookingVars>>

(* The choices of a start matter only while its part is followed.              *)
AnyContext == CHOOSE c \in Contexts("depart"): Congestion(c) = "unknown"

SafetyInit ==
  /\ focus \in {"session", "journey", "chat", "estimate", "away", "call", "booking"}
  /\ SessionInit /\ (focus = "session" \/ redis)
  /\ JourneyInit /\ (focus = "journey" \/ (pg /\ journey))
  /\ BookingInit /\ (focus = "booking" \/ (boardLink /\ cardLink))
  /\ ChatInit /\ AwayInit /\ CallInit
  /\ IF focus = "estimate" THEN EstimatesInit
     ELSE leg = "depart" /\ context = AnyContext

SafetyNext ==
  /\ UNCHANGED focus
  /\ \/ /\ focus = "session" /\ SessionNext
        /\ UNCHANGED <<journeyVars, chatVars, estimateVars, awayVars, callVars, bookingVars>>
     \/ /\ focus = "journey" /\ JourneyNext
        /\ UNCHANGED <<sessionVars, chatVars, estimateVars, awayVars, callVars, bookingVars>>
     \/ /\ focus = "chat" /\ ChatNext
        /\ UNCHANGED <<sessionVars, journeyVars, estimateVars, awayVars, callVars, bookingVars>>
     \/ /\ focus = "estimate" /\ EstimatesNext
        /\ UNCHANGED <<sessionVars, journeyVars, chatVars, awayVars, callVars, bookingVars>>
     \/ /\ focus = "away" /\ AwayNext
        /\ UNCHANGED <<sessionVars, journeyVars, chatVars, estimateVars, callVars, bookingVars>>
     \/ /\ focus = "call" /\ CallNext
        /\ UNCHANGED <<sessionVars, journeyVars, chatVars, estimateVars, awayVars,
                       bookingVars>>
     \/ /\ focus = "booking" /\ BookingNext
        /\ UNCHANGED <<sessionVars, journeyVars, chatVars, estimateVars, awayVars,
                       callVars>>

SafetySpec == SafetyInit /\ [][SafetyNext]_safetyVars

-----------------------------------------------------------------------------
(* What a passenger is told of the way to the gate: JourneyInv, one open share *)
(* and progress in order, and EstimatesInv, that who leaves at the start of    *)
(* the window boards.                                                          *)
GuidanceInv == JourneyInv /\ EstimatesInv
=============================================================================
