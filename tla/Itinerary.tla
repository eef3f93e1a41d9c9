----------------------------- MODULE Itinerary ------------------------------
(* The trip in a passenger's registry row, through the requests that write it:  *)
(* PassengerRegistry (getOrCreate, applyTrip, update, delete) as called by the  *)
(* sign-ins of routes/paxSessions.ts, the invites of routes/paxInvites.ts, the  *)
(* hello of wsHub.ts and the console's routes/passengers.ts.                   *)
(*                                                                             *)
(* Of a trip there are the flight and the gate, told by the flight it is of;   *)
(* the connection and the airports are treated as the gate is. Each step is    *)
(* one SQL statement; the requests of a passenger interleave between them. Who  *)
(* may sign in is in Sessions and PaxInvite.                                   *)
CONSTANTS FlightIds,      \* a passenger may sign in with
          Requests,
          DefaultGate,  \* what the flight lookup answers when it knows no gate
          Unknown       \* an empty field, or the placeholder for one

ASSUME UnknownAssumption == Unknown \notin FlightIds

VARIABLES
  record,    \* the passenger in the registry
  request    \* how far, with which trip, and what its sender was told

tripVars == <<record, request>>

Gates == FlightIds \cup {DefaultGate, Unknown}
Trip == [flight: FlightIds, gate: Gates]
NoRow == [flight |-> Unknown, gate |-> Unknown]
AnyTrip == Trip \cup {NoRow}

NoRequest ==
  [at |-> "none", trip |-> NoRow, applies |-> FALSE, patch |-> NoRow,
   made |-> NoRow, told |-> NoRow, crossed |-> FALSE]

TripTypeOK ==
  /\ record \in AnyTrip
  /\ \A r \in Requests:
       /\ request[r].at \in {"none", "select", "apply", "patch", "reread", "over"}
       /\ {request[r].applies, request[r].crossed} \subseteq BOOLEAN
       /\ {request[r].trip, request[r].made, request[r].told} \subseteq AnyTrip
       /\ request[r].patch \in [flight: FlightIds \cup {Unknown}, gate: Gates]

TripInit == record = NoRow /\ request = [r \in Requests |-> NoRequest]

-----------------------------------------------------------------------------
(* A statement that writes the row crosses the other requests; one that was    *)
(* answered is then forgotten.                                                 *)
Crossed(q) == IF q.at \in {"none", "over"} THEN NoRequest ELSE [q EXCEPT !.crossed = TRUE]

Writes(r, new, become) ==
  /\ record' = new
  /\ request' = [q \in Requests |-> IF q = r THEN become ELSE Crossed(request[q])]

Proceeds(r, become) ==
  request' = [request EXCEPT ![r] = become] /\ UNCHANGED record

Answer(q, told) ==
  [q EXCEPT !.at = "over", !.told = told, !.patch = NoRow, !.made = NoRow]

(* The sign-ins with an account, a boarding pass or an invite apply the trip;  *)
(* the basic session, the hello and the console's POST only make the row. The  *)
(* flight has been looked up. INSERT ... ON CONFLICT DO NOTHING.               *)
Insert(r, wanted, applies) ==
  LET asked == [NoRequest EXCEPT !.at = "select", !.applies = applies,
                                 !.trip = IF applies THEN wanted ELSE NoRow]
  IN /\ request[r].at \in {"none", "over"}
     /\ IF record = NoRow THEN Writes(r, wanted, asked) ELSE Proceeds(r, asked)

(* getOrCreate reads what there is, and throws if it is no longer there.       *)
ReadMade(r) ==
  LET q == request[r]
  IN /\ q.at = "select"
     /\ Proceeds(r, IF record = NoRow \/ ~q.applies THEN Answer(q, record)
                    ELSE [q EXCEPT !.at = "apply", !.made = record])

(* Seeded fault: only what the row does not know yet is taken from the trip.   *)
ChangesUnknown(wanted, current) ==
  [f \in DOMAIN wanted |-> IF current[f] = Unknown THEN wanted[f] ELSE Unknown]

(* The patch of applyTrip: what the trip knows and the row has otherwise.      *)
Changes(wanted, current) ==
  [f \in DOMAIN wanted |-> IF wanted[f] = current[f] THEN Unknown ELSE wanted[f]]

Patched(old, patch) ==
  [f \in DOMAIN old |-> IF patch[f] = Unknown THEN old[f] ELSE patch[f]]

(* applyTrip reads the row again, and makes the patch from it.                 *)
ApplyTrip(r) ==
  LET q == request[r]
      patch == Changes(q.trip, record)
  IN /\ q.at = "apply"
     /\ Proceeds(r, IF record = NoRow THEN Answer(q, q.made)
                    ELSE IF patch = NoRow THEN Answer(q, record)
                    ELSE [q EXCEPT !.at = "patch", !.patch = patch])

(* update: the UPDATE, then a SELECT; a row that is gone stays so.             *)
Update(r) ==
  LET q == request[r]
  IN /\ q.at = "patch"
     /\ IF record = NoRow THEN Proceeds(r, [q EXCEPT !.at = "reread"])
        ELSE Writes(r, Patched(record, q.patch), [q EXCEPT !.at = "reread"])

ReadBack(r) ==
  LET q == request[r]
  IN q.at = "reread" /\ Proceeds(r, Answer(q, IF record = NoRow THEN q.made ELSE record))

(* A statement fails, or the server stops: what was written stays.             *)
RequestFails(r) ==
  /\ request[r].at \notin {"none", "over"}
  /\ Proceeds(r, NoRequest)

-----------------------------------------------------------------------------
CrossAll == request' = [q \in Requests |-> Crossed(request[q])]

(* PATCH /passengers/:id with a flight or a gate, which may be blank.          *)
ConsolePatch ==
  /\ record # NoRow /\ CrossAll
  /\ \/ \E f \in FlightIds: record' = [record EXCEPT !.flight = f]
     \/ \E g \in FlightIds \cup {Unknown}: record' = [record EXCEPT !.gate = g]

(* DELETE /passengers/:id, and the clearing of stale temporary passengers.     *)
Delete == record # NoRow /\ record' = NoRow /\ CrossAll

TripNext ==
  \/ \E r \in Requests:
       \/ \E f \in FlightIds, applies \in BOOLEAN:
            \E gate \in {f, DefaultGate, Unknown}:
              Insert(r, [flight |-> f, gate |-> gate], applies)
       \/ ReadMade(r) \/ ApplyTrip(r) \/ Update(r) \/ ReadBack(r) \/ RequestFails(r)
  \/ ConsolePatch \/ Delete

TripSpec == TripInit /\ [][TripNext]_tripVars

-----------------------------------------------------------------------------
(* "The flight just signed in with has to be pushed through": once a sign-in   *)
(* that applies its trip has been answered, and until somebody else writes the  *)
(* row, the operator sees that trip, in every field it knows, and the          *)
(* passenger was told the same. Of two that cross each other nothing is said.  *)
SignedInShown ==
  \A r \in Requests: LET q == request[r] IN
    q.at = "over" /\ q.applies /\ ~q.crossed =>
      /\ q.told = record
      /\ \A f \in DOMAIN record: q.trip[f] \in {record[f], Unknown}

TripInv == TripTypeOK /\ SignedInShown

(* "A lookup that came back without a gate leaves the known gate alone." (Not  *)
(* so: resolveOutbound never comes back without one, but with the airport's    *)
(* default, which replaces the gate the row has for the very flight.)          *)
KnownGateKept ==
  [][\A r \in Requests:
       request[r].at = "patch" /\ Update(r) /\ record.gate \in FlightIds
         /\ record.gate = record'.flight => record'.gate # DefaultGate]_tripVars

(* What the operator sees is one trip. (Not so: the gate or the connection of  *)
(* an earlier trip stays when a later one has none.)                           *)
OneTrip == record # NoRow => record.gate \in {record.flight, DefaultGate, Unknown}

(* A passenger is told of the flight they signed in with. (Not so: update      *)
(* reads the row anew, after another device's sign-in has written it.)         *)
ToldTheirOwn ==
  \A r \in Requests: LET q == request[r] IN
    q.at = "over" /\ q.applies /\ q.told # NoRow => q.told.flight = q.trip.flight
=============================================================================
