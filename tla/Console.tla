------------------------------ MODULE Console -------------------------------
(* The roster of the operator's console (useDashboard, Dashboard.tsx): the     *)
(* list of passengers it asks the server for every ten seconds, what is shown  *)
(* of each, the list of those who need action, and the panels that are open on *)
(* a passenger.                                                                *)
(*                                                                             *)
(* A row is what the display tells apart of a passenger's record. What is      *)
(* shown is a function of the list and of the reports at hand (AdminFeed and   *)
(* Track have how they come; MapBoard has the map). The search box and the     *)
(* order by sortPriority, which the registry sends the same for everyone, are  *)
(* left out.                                                                   *)
EXTENDS FiniteSets, Naturals

CONSTANTS Passengers,  \* passengers
          Records,     \* rows the server may hold for them
          Fetches,     \* requests for the list that may be under way at once
          MaxUrgent,   \* passengers in the list of those who need action (12)
          Nobody       \* no passenger, no row, no list

(* The record: its ext_status; the status computed from place, gate and time   *)
(* of departure ("gray" without them); a transfer marked urgent; and           *)
(* presenceBehavior "lost_when_offline".                                       *)
ExtStatus == {"green", "yellow", "red", "missed", "offline", "lost"}
Row == [ext: ExtStatus, pace: {"green", "yellow", "red", "gray"}, urgent: BOOLEAN,
        beacon: BOOLEAN]

ASSUME ConsoleAssumption ==
  /\ Records \subseteq Row /\ Nobody \notin Passengers \cup Row /\ MaxUrgent \in Nat \ {0}
  /\ IsFiniteSet(Passengers)

VARIABLES
  rows,      \* the passengers table
  roster,    \* passengersRaw
  fetch,     \* requests for the list
  erasing,   \* the deletion this operator asked for
  conv       \* openConvPaxId

consoleVars == <<rows, roster, fetch, erasing, conv>>

Lists == UNION {[S -> Records]: S \in SUBSET Passengers}
NoFetch == [at |-> "none"]
NotErasing == [at |-> "none"]
Nothing == [p \in {} |-> Nobody]

(* Once the gates are loaded the page starts over and asks for the list; polls *)
(* may be under way by then.                                                   *)
ConsoleInit ==
  /\ rows \in [Passengers -> Records \cup {Nobody}]
  /\ roster = Nobody /\ fetch \in [Fetches -> {NoFetch, [at |-> "asked"]}]
  /\ erasing = NotErasing /\ conv = Nobody

-----------------------------------------------------------------------------
(* onlineNeedsRecovery                                                         *)
Recovers(row, on, sends) ==
  (on \/ sends) /\ (row.ext = "offline" \/ (row.beacon /\ row.ext = "lost"))

(* computePassenger: nothing is computed for those missed, offline or lost.    *)
Computed(row) == IF row.ext \in {"missed", "offline", "lost"} THEN "gray" ELSE row.pace

(* The memo `passengers`: what is shown of a record, given the reports.        *)
Display(row, on, sends) ==
  IF row.beacon /\ ~on /\ ~sends
  THEN [ext |-> "lost", status |-> "gray", rt |-> FALSE]
  ELSE IF Recovers(row, on, sends)
  THEN [ext |-> IF row.pace = "gray" THEN "yellow" ELSE row.pace, status |-> row.pace,
        rt |-> on \/ sends]
  ELSE [ext |-> row.ext, status |-> Computed(row), rt |-> on \/ sends]

(* priorityList, of a list l with those who are online or report a position:   *)
(* who needs action, those of the worst rank first, so many.                   *)
Shown(l, heard, p) == Display(l[p], p \in heard, FALSE).ext

NeedsAction(l, heard, p) ==
  Shown(l, heard, p) \in {"lost", "red", "yellow", "missed"} \/ l[p].urgent

Rank(l, heard, p) ==
  CASE Shown(l, heard, p) = "lost" -> 0
    [] Shown(l, heard, p) = "red" -> 1
    [] Shown(l, heard, p) \notin {"lost", "red"} /\ l[p].urgent -> 2
    [] Shown(l, heard, p) = "yellow" /\ ~l[p].urgent -> 3
    [] OTHER -> 4

(* Among equals the order is the server's.                                     *)
PriorityLists(l, heard) ==
  LET all == {p \in DOMAIN l: NeedsAction(l, heard, p)}
      size == IF Cardinality(all) < MaxUrgent THEN Cardinality(all) ELSE MaxUrgent
  IN {S \in SUBSET all: /\ Cardinality(S) = size
                        /\ \A p \in S, q \in all \ S: Rank(l, heard, p) <= Rank(l, heard, q)}

-----------------------------------------------------------------------------
Listed == IF roster = Nobody THEN {} ELSE DOMAIN roster

(* GET /passengers, and what the server does meanwhile.                        *)
Present == {p \in Passengers: rows[p] # Nobody}
FreeFetch == {f \in Fetches: fetch[f] = NoFetch}
Asking(f) == fetch' = [fetch EXCEPT ![f] = [at |-> "asked"]]

PollRoster(f) ==
  /\ fetch[f] = NoFetch /\ Asking(f)
  /\ UNCHANGED <<rows, roster, erasing, conv>>

RosterRead(f) ==
  /\ fetch[f].at = "asked"
  /\ fetch' = [fetch EXCEPT ![f] = [at |-> "read", rows |-> [p \in Present |-> rows[p]]]]
  /\ UNCHANGED <<rows, roster, erasing, conv>>

(* Seeded fault: a merge of the answer into the list, which prefers the record *)
(* it has and forgets nobody.                                                  *)
RosterArrivesMerged(f) ==
  /\ fetch[f].at = "read"
  /\ roster' = [p \in Listed \cup DOMAIN fetch[f].rows |->
                  IF p \in Listed THEN roster[p] ELSE fetch[f].rows[p]]
  /\ fetch' = [fetch EXCEPT ![f] = NoFetch]
  /\ UNCHANGED <<rows, erasing, conv>>

(* loadPassengers, answered: the server's word is taken, whenever it was said. *)
RosterArrives(f) ==
  /\ fetch[f].at = "read"
  /\ roster' = fetch[f].rows
  /\ fetch' = [fetch EXCEPT ![f] = NoFetch]
  /\ UNCHANGED <<rows, erasing, conv>>

(* Not answered: what is there is kept, beside a mark that it may be old.      *)
RosterFails(f) ==
  /\ fetch[f] # NoFetch
  /\ roster' = IF roster = Nobody THEN Nothing ELSE roster
  /\ fetch' = [fetch EXCEPT ![f] = NoFetch]
  /\ UNCHANGED <<rows, erasing, conv>>

-----------------------------------------------------------------------------
(* removePassenger, after the operator confirmed: the row is deleted or was    *)
(* gone (404 counts as success); then it leaves the list, its panels close,    *)
(* and the list is asked for.                                                  *)
PressErase(p) ==
  /\ p \in Listed /\ erasing = NotErasing
  /\ erasing' = [at |-> "asked", pax |-> p]
  /\ UNCHANGED <<rows, roster, fetch, conv>>

ServeErase ==
  /\ erasing.at = "asked"
  /\ rows' = [rows EXCEPT ![erasing.pax] = Nobody]
  /\ erasing' = [erasing EXCEPT !.at = "done"]
  /\ UNCHANGED <<roster, fetch, conv>>

EraseDone ==
  /\ erasing.at = "done"
  /\ LET gone == erasing.pax
     IN /\ roster' = IF roster = Nobody THEN Nobody
                     ELSE [p \in DOMAIN roster \ {gone} |-> roster[p]]
        /\ conv' = IF conv = gone THEN Nobody ELSE conv
  /\ erasing' = NotErasing
  /\ \E f \in FreeFetch: Asking(f)
  /\ UNCHANGED rows

(* Forbidden, or the answer is lost: told, and nothing else.                   *)
EraseFails ==
  /\ erasing # NotErasing /\ erasing' = NotErasing
  /\ UNCHANGED <<rows, roster, fetch, conv>>

-----------------------------------------------------------------------------
(* A line of the table or of those who need action, a booking in the queue, a  *)
(* mark on the map, or, by itself, a robot_request frame.                      *)
Converse(p) ==
  /\ p \in Listed \cup Present /\ conv' = p
  /\ UNCHANGED <<rows, roster, fetch, erasing>>

CloseConversation ==
  /\ conv' = Nobody
  /\ UNCHANGED <<rows, roster, fetch, erasing>>

-----------------------------------------------------------------------------
(* Elsewhere: a record changes, appears or is erased.                          *)
RowBecomes(p, r) ==
  /\ rows[p] # r /\ rows' = [rows EXCEPT ![p] = r]
  /\ UNCHANGED <<roster, fetch, erasing, conv>>

ConsoleNext ==
  \/ ServeErase \/ EraseDone \/ EraseFails \/ CloseConversation
  \/ \E f \in Fetches: PollRoster(f) \/ RosterRead(f) \/ RosterArrives(f) \/ RosterFails(f)
  \/ \E p \in Passengers: \/ PressErase(p) \/ Converse(p)
                   \/ \E r \in Records \cup {Nobody}: RowBecomes(p, r)

(* Polls go on; requests are read and answered, or fail, but not for ever.     *)
ConsoleSpec ==
  /\ ConsoleInit /\ [][ConsoleNext]_consoleVars
  /\ WF_consoleVars(\E f \in Fetches: PollRoster(f))
  /\ SF_consoleVars(\E f \in Fetches: RosterRead(f))
  /\ SF_consoleVars(\E f \in Fetches: RosterArrives(f))

-----------------------------------------------------------------------------
ConsoleTypeOK ==
  /\ rows \in [Passengers -> Records \cup {Nobody}]
  /\ roster \in Lists \cup {Nobody}
  /\ \A f \in Fetches: fetch[f].at \in {"none", "asked", "read"}
  /\ erasing.at \in {"none", "asked", "done"}
  /\ conv \in Passengers \cup {Nobody}

(* What is shown of anyone who reports is not "offline", and one whose signal  *)
(* is expected and missing is "lost"; what is shown and what is computed agree *)
(* whenever the record gives way to the reports.                               *)
ReportsPrevail ==
  \A row \in Row, on \in BOOLEAN, sends \in BOOLEAN:
    LET d == Display(row, on, sends)
    IN /\ (on \/ sends) => d.ext # "offline" /\ (row.beacon => d.ext # "lost")
       /\ row.beacon /\ ~on /\ ~sends => d.ext = "lost"
       /\ d.ext # row.ext /\ d.ext # "lost" => d.status \in {d.ext, "gray"}

(* Nobody who needs action is left out of the list for one who needs it less.  *)
UrgentFirst ==
  \A l \in Lists, heard \in SUBSET Passengers: \A S \in PriorityLists(l, heard):
    /\ Cardinality(S) <= MaxUrgent
    /\ \A p \in DOMAIN l \ S: Shown(l, heard, p) = "lost" =>
         Cardinality({q \in S: Shown(l, heard, q) = "lost"}) = MaxUrgent

ConsoleInv == ConsoleTypeOK /\ ReportsPrevail /\ UrgentFirst

(* When the registry has changed for the last time, the roster shows it in the *)
(* end, whatever older answers were under way and whoever was erased here.     *)
RosterConverges == <>[][FALSE]_rows => <>[](roster = [p \in Present |-> rows[p]])

(* A panel is on a passenger whom someone knows. (Not so: it stays open when   *)
(* another operator erases them, and what is sent then goes to nobody.)        *)
PanelsAreKnown == conv # Nobody => conv \in Listed \cup Present

(* Who was erased here stays off the list. (Not so: an answer read before the  *)
(* deletion may arrive after it, until the next one.)                          *)
ErasedStaysOff ==
  [][\A p \in Passengers: p \notin Listed /\ rows[p] = Nobody /\ roster # Nobody => p \notin Listed']_consoleVars

(* Who cannot make the flight is among those who need action. (Not so: the     *)
(* list goes by the record, not by what is computed.)                          *)
LateNeedsAction ==
  \A l \in Lists, heard \in SUBSET Passengers: \A p \in DOMAIN l:
    Display(l[p], p \in heard, FALSE).status = "red" => NeedsAction(l, heard, p)
=============================================================================
