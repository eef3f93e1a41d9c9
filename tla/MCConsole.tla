----------------------------- MODULE MCConsole ------------------------------
(* What the console shows, for TLC: who is online, the list of passengers, and *)
(* the map. They share no state: a behaviour follows one of them and leaves    *)
(* the others as they start.                                                   *)
EXTENDS AdminFeed, Console, MapBoard

VARIABLE focus

boardVars == <<focus, allVars, consoleVars, mapVars>>

(* A row whose display depends on every report of its passenger.               *)
SomeRecords == {[ext |-> "offline", pace |-> "red", urgent |-> FALSE, beacon |-> TRUE]}

(* The choices of a start matter only while its part is followed.              *)
BoardInit ==
  /\ focus \in {"feed", "list", "map"}
  /\ FeedInit /\ (focus = "feed" \/ redis)
  /\ MapInit /\ (focus = "map" \/ (kind = "page" /\ airport = CHOOSE f \in Fields: TRUE))
  /\ IF focus = "list" THEN ConsoleInit
     ELSE /\ rows = [p \in Passengers |-> Nobody] /\ roster = [p \in {} |-> Nobody]
          /\ fetch = [f \in Fetches |-> NoFetch] /\ erasing = NotErasing /\ conv = Nobody

InFeed(A) == focus = "feed" /\ A /\ UNCHANGED <<focus, consoleVars, mapVars>>
InList(A) == focus = "list" /\ A /\ UNCHANGED <<focus, allVars, mapVars>>
InMap(A) == focus = "map" /\ A /\ UNCHANGED <<focus, allVars, consoleVars>>

(* The fairness each part states, of its steps while it is followed. The part  *)
(* never changes, so that one condition on a step of either part says all.     *)
BoardFairness ==
  \A a \in Admins:
    /\ WF_boardVars(InFeed(ReadFrame(a)))
    /\ \A i \in Polls:
         /\ WF_boardVars(InFeed(PollAsk(a, i)) \/ InList(\E f \in Fetches: PollRoster(f)))
         /\ SF_boardVars(InFeed(PollServed(a, i)) \/ InList(\E f \in Fetches: RosterRead(f)))
         /\ SF_boardVars(InFeed(PollApplied(a, i))
                         \/ InList(\E f \in Fetches: RosterArrives(f)))

BoardSpec ==
  /\ BoardInit
  /\ [][InFeed(FeedNext) \/ InList(ConsoleNext) \/ InMap(MapNext)]_boardVars
  /\ BoardFairness

-----------------------------------------------------------------------------
(* What the list and the map of the console show: ConsoleInv, that nobody who  *)
(* reports is shown away or late (useDashboard), and MapInv, that the map is   *)
(* up to date or about to be (MapView).                                        *)
BoardInv == ConsoleInv /\ MapInv
=============================================================================
