-------------------------- MODULE MCPassengerPage ---------------------------
(* Three parts of a passenger's browser, for TLC: the robot booking, the dead- *)
(* reckoning client, and the socket that reconnects. They share no state: a    *)
(* behaviour follows one of them and leaves the others as they start.          *)
EXTENDS Booking, Pdr, Reconnect

VARIABLE focus

pageVars == <<focus, bookingVars, pdrVars, reconnectVars>>

(* The choices of a start matter only while its part is followed.              *)
PageInit ==
  /\ focus \in {"booking", "pdr", "socket"}
  /\ BookingInit /\ (focus = "booking" \/ (boardLink /\ cardLink))
  /\ PdrInit /\ (focus = "pdr" \/ calm)
  /\ ReconnectInit /\ (focus = "socket" \/ reachable)

InBooking(A) == focus = "booking" /\ A /\ UNCHANGED <<focus, pdrVars, reconnectVars>>
InPdr(A) == focus = "pdr" /\ A /\ UNCHANGED <<focus, bookingVars, reconnectVars>>
InSocket(A) == focus = "socket" /\ A /\ UNCHANGED <<focus, bookingVars, pdrVars>>

(* The fairness each part states, of its steps while it is followed. The part  *)
(* never changes, so that one condition on a step of any part says all.        *)
PageFairness ==
  /\ WF_pageVars(InBooking(BoardReads)) /\ WF_pageVars(InBooking(BoardAnswered))
  /\ \A p \in Polls:
       /\ WF_pageVars(InBooking(PollAsks(p)) \/ InPdr(Reconnect)
                       \/ InSocket(\E c \in Clients: RetryTimer(c)))
       /\ WF_pageVars(InBooking(PollAnswered(p)))
  /\ \A s \in Sockets:
       /\ SF_pageVars(InPdr(OnOpen(s)) \/ \E p \in Polls: InBooking(PollServed(p)))
       /\ WF_pageVars(InPdr(conn[s] = "closing" /\ OnClose(s))
                       \/ (s \in Lines /\ InSocket(LineSteps(s))))

PageSpec ==
  /\ PageInit
  /\ [][InBooking(BookingNext) \/ InPdr(PdrNext) \/ InSocket(ReconnectNext)]_pageVars
  /\ PageFairness
=============================================================================
