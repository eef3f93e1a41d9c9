------------------------------ MODULE MapBoard ------------------------------
(* The map of the operator's console: which passengers it shows (mapPassengers *)
(* of useDashboard), and how it comes to show them: in a frame of its own      *)
(* (IndoorMapEmbed), which is sent messages, or drawn on the page              *)
(* (StandardMapView, leafletAdapter).                                          *)
(*                                                                             *)
(* A place stands for coordinates. Of the gates one is kept, of a name that    *)
(* each airport has, at a place of its own. The passengers of the list come    *)
(* and go as they may (Console). Colours, paths and zoom are left out, and the *)
(* mode "all", which nothing chooses.                                          *)
CONSTANTS Travellers,  \* passengers
          Urgent,      \* those of them in the priority list while listed
          Places,      \* where a passenger may be
          Fields,      \* airports
          NoOne        \* no passenger, no place, no airport

ASSUME MapAssumption == NoOne \notin Travellers \cup Places \cup Fields

VARIABLES
  kind,      \* "frame" or "page": whether INDOOR_MAP_URL is set
  airport,   \* the airport chosen
  gates,     \* the airport whose gates are loaded
  onList,    \* passengers, where each is
  live,      \* those who report their position
  choice,    \* selectedPaxId, mapViewMode, those that match the search box
  sent,      \* what the map shows: places, and who is marked as picked
  due,       \* throttleRef: a message is to be sent to the frame
  loaded,    \* the frame has loaded its page
  gateMark,  \* the airport at whose gate the mark of the gate stands
  camera     \* lastCameraFollowPassengerId, lastFollowLatLng; moved by hand since

mapVars == <<kind, airport, gates, onList, live, choice, sent, due, loaded, gateMark, camera>>

Spots == UNION {[S -> Places]: S \in SUBSET Travellers}
NoSpots == [p \in {} |-> NoOne]
Blank == [spots |-> NoSpots, picked |-> NoOne]
Still == [of |-> NoOne, at |-> NoOne, byHand |-> FALSE]

MapTypeOK ==
  /\ kind \in {"frame", "page"} /\ airport \in Fields /\ gates \in Fields \cup {NoOne}
  /\ onList \in Spots /\ live \subseteq Travellers
  /\ choice \in [picked: Travellers \cup {NoOne}, mode: {"single", "urgent"},
                 sought: SUBSET Travellers]
  /\ sent \in [spots: Spots, picked: Travellers \cup {NoOne}]
  /\ due \in BOOLEAN /\ loaded \in BOOLEAN /\ gateMark \in Fields \cup {NoOne}
  /\ camera \in [of: Travellers \cup {NoOne}, at: Places \cup {NoOne}, byHand: BOOLEAN]

MapInit ==
  /\ kind \in {"frame", "page"} /\ airport \in Fields /\ gates = NoOne
  /\ onList = NoSpots /\ live = {}
  /\ choice = [picked |-> NoOne, mode |-> "single", sought |-> Travellers]
  /\ sent = Blank /\ due = (kind = "frame") /\ loaded = FALSE
  /\ gateMark = NoOne /\ camera = Still

-----------------------------------------------------------------------------
(* mapPassengers: those who match the search or report a position, of the one  *)
(* picked or of those who need action.                                         *)
Marked(l, v, c) ==
  LET base == (DOMAIN l \cap c.sought) \cup (DOMAIN l \cap v)
  IN CASE c.mode = "single" -> base \cap {c.picked} [] OTHER -> base \cap Urgent

Shows(l, v, c) == [spots |-> [p \in Marked(l, v, c) |-> l[p]], picked |-> c.picked]
Current == Shows(onList, live, choice)

(* setData of the adapter: the camera flies to one newly picked, pans to one   *)
(* who has moved, and forgets when nobody is picked; one who is picked and not *)
(* on the map is waited for.                                                   *)
Follow(show) ==
  LET p == show.picked
  IN CASE p = NoOne -> Still
       [] p # NoOne /\ p \notin DOMAIN show.spots -> camera
       [] OTHER -> IF camera.of = p /\ camera.at = show.spots[p] THEN camera
                   ELSE [of |-> p, at |-> show.spots[p], byHand |-> FALSE]

(* The page renders anew: drawn at once on the page; for a frame, in a moment, *)
(* counted from the last change.                                               *)
Renders(l, v, c) ==
  IF kind = "page"
  THEN /\ sent' = Shows(l, v, c) /\ camera' = Follow(Shows(l, v, c))
       /\ UNCHANGED <<due, loaded>>
  ELSE due' = TRUE /\ UNCHANGED <<sent, loaded, camera>>

-----------------------------------------------------------------------------
(* The list, or where someone is, changes; reports of positions begin or end.  *)
ListBecomes(l) ==
  /\ onList' = l /\ Renders(l, live, choice)
  /\ UNCHANGED <<kind, airport, gates, live, choice, gateMark>>

ReportsBecome(v) ==
  /\ live' = v /\ Renders(onList, v, choice)
  /\ UNCHANGED <<kind, airport, gates, onList, choice, gateMark>>

(* The search box; the counts in the bar; a line of the lists.                 *)
SearchFor(S) ==
  LET c == [choice EXCEPT !.sought = S]
  IN /\ choice' = c /\ Renders(onList, live, c)
     /\ UNCHANGED <<kind, airport, gates, onList, live, gateMark>>

ShowMode(m) ==
  LET c == [choice EXCEPT !.mode = m, !.picked = NoOne]
  IN /\ choice' = c /\ Renders(onList, live, c)
     /\ UNCHANGED <<kind, airport, gates, onList, live, gateMark>>

(* A line of the lists, or a mark, which may be that of one no longer listed.  *)
PickTraveller(p) ==
  LET c == [choice EXCEPT !.mode = "single", !.picked = p]
  IN /\ p \in DOMAIN onList \cup DOMAIN sent.spots
     /\ choice' = c /\ Renders(onList, live, c)
     /\ UNCHANGED <<kind, airport, gates, onList, live, gateMark>>

-----------------------------------------------------------------------------
(* pushTrajectories, when its time has come or the tab of the map is shown: a  *)
(* frame that has not loaded is sent nothing that it hears.                    *)
PushDue ==
  /\ due /\ due' = FALSE
  /\ sent' = IF loaded THEN Current ELSE sent
  /\ UNCHANGED <<kind, airport, gates, onList, live, choice, loaded, gateMark, camera>>

TabShown ==
  /\ kind = "frame" /\ loaded /\ sent' = Current
  /\ UNCHANGED <<kind, airport, gates, onList, live, choice, due, loaded, gateMark, camera>>

(* Seeded fault: the frame is not sent anything when it has loaded.            *)
FrameLoadsUnheard ==
  /\ kind = "frame" /\ ~loaded /\ loaded' = TRUE
  /\ UNCHANGED <<kind, airport, gates, onList, live, choice, sent, due, gateMark, camera>>

(* onLoad                                                                      *)
FrameLoads ==
  /\ kind = "frame" /\ ~loaded /\ loaded' = TRUE /\ sent' = Current
  /\ UNCHANGED <<kind, airport, gates, onList, live, choice, due, gateMark, camera>>

(* selectAirport: the frame loads another page; the map on the page is made    *)
(* anew, about the other airport, with the gates that are held.                *)
SelectAirport(f) ==
  /\ f # airport /\ airport' = f
  /\ IF kind = "frame"
     THEN sent' = Blank /\ loaded' = FALSE /\ due' = TRUE /\ UNCHANGED <<gateMark, camera>>
     ELSE /\ gateMark' = gates /\ sent' = Current
          /\ camera' = IF choice.picked \in DOMAIN Current.spots
                       THEN [of |-> choice.picked, at |-> Current.spots[choice.picked],
                             byHand |-> FALSE]
                       ELSE Still
          /\ UNCHANGED <<loaded, due>>
  /\ UNCHANGED <<kind, gates, onList, live, choice>>

(* loadGates of the airport chosen last; setData adds the marks that are       *)
(* missing and leaves those of the same name.                                  *)
GatesLoad ==
  /\ gates # airport /\ gates' = airport
  /\ gateMark' = IF kind = "page" /\ gateMark = NoOne THEN airport ELSE gateMark
  /\ UNCHANGED <<kind, airport, onList, live, choice, sent, due, loaded, camera>>

DragMap ==
  /\ kind = "page" /\ ~camera.byHand /\ camera' = [camera EXCEPT !.byHand = TRUE]
  /\ UNCHANGED <<kind, airport, gates, onList, live, choice, sent, due, loaded, gateMark>>

MapNext ==
  \/ PushDue \/ TabShown \/ FrameLoads \/ GatesLoad \/ DragMap
  \/ \E l \in Spots: ListBecomes(l)
  \/ \E S \in SUBSET Travellers: ReportsBecome(S) \/ SearchFor(S)
  \/ \E m \in {"single", "urgent"}: ShowMode(m)
  \/ \E p \in Travellers: PickTraveller(p)
  \/ \E f \in Fields: SelectAirport(f)

MapSpec == MapInit /\ [][MapNext]_mapVars

-----------------------------------------------------------------------------
(* The map shows what is to be shown, or it is on its way: a message is due,   *)
(* or the frame has yet to load and will be sent it then.                      *)
UpToDateOrDue == sent = Current \/ (kind = "frame" /\ (due \/ ~loaded))

(* Whoever is on a map that is up to date is in the list.                      *)
OnlyListed == sent = Current => DOMAIN sent.spots \subseteq DOMAIN onList

(* The camera is with the one picked, unless the operator has moved it since   *)
(* they last moved; and it follows nobody when nobody is picked.               *)
CameraWithPicked ==
  kind = "page" =>
    /\ choice.picked \in DOMAIN sent.spots =>
         camera.of = choice.picked /\ camera.at = sent.spots[choice.picked]
    /\ choice.picked = NoOne => camera.of = NoOne

MapInv == MapTypeOK /\ UpToDateOrDue /\ OnlyListed /\ CameraWithPicked

(* The marks of the gates are those of the airport. (Not so: a gate of the     *)
(* same name keeps the place it had in the last one.)                          *)
GatesInPlace == kind = "page" /\ gates = airport => gateMark = airport

(* A passenger picked is on the map. (Not so: one that the search box leaves   *)
(* out and who reports no position is not.)                                    *)
PickedIsShown ==
  sent = Current /\ choice.picked \in DOMAIN onList => choice.picked \in DOMAIN sent.spots
=============================================================================
