------------------------------ MODULE Booking ------------------------------
(***************************************************************************)
(* The robot booking of one passenger: the hub's map (HubStore,            *)
(* routes/push.ts), the queue on a console (useDashboard.ts) and the       *)
(* passenger's card (RobotBookingPanel.tsx, usePaxRealtimeSession.ts).     *)
(*                                                                         *)
(* Each view is fed by broadcasts and by answers to HTTP requests, which   *)
(* may overtake one another. Broadcasts are lost while a view's connection *)
(* is down; only the console polls.                                        *)
(***************************************************************************)
EXTENDS Naturals, Sequences

CONSTANTS
  LastRank,         \* the last status: submitted, assigned, en_route, serving
  Polls,            \* polls of the console that may be under way at once
  NoBooking,
  MaxWrites, MaxQueued  \* bounds: bookings written, broadcasts not yet read

ASSUME BookingAssumption == LastRank \in Nat \ {0} /\ MaxWrites \in Nat

VARIABLES
  booking,          \* robotRequests
  log,              \* history: what was ever written there, in order
  boardLink, boardFrames, board, boardPost, polls,     \* the console
  cardLink, cardFrames, card, cleared, cardPost        \* the passenger's page

bookingVars == <<booking, log, boardLink, boardFrames, board, boardPost, polls,
                 cardLink, cardFrames, card, cleared, cardPost>>
boardVars == <<boardLink, boardFrames, board, boardPost, polls>>
cardVars == <<cardLink, cardFrames, card, cleared, cardPost>>

(* A booking is known by its first write; updatedAt is the place of a      *)
(* write among all of them.                                                *)
Bookings == [id : 1..MaxWrites, rank : 1..LastRank, at : 1..MaxWrites]
MaybeBooking == Bookings \cup {NoBooking}

ASSUME NoBookingAssumption == NoBooking \notin Bookings

Idle == [at |-> "idle"]
Asked == [at : {"sent"}, op : {"submit", "cancel", "advance", "fetch"}]
Answer == [at : {"answer"}, op : {"submit", "cancel", "advance", "fetch", "refused"},
           got : MaybeBooking]

BookingInit ==
  /\ booking = NoBooking /\ log = <<>>
  /\ boardLink \in BOOLEAN /\ boardFrames = <<>> /\ board = NoBooking
  /\ boardPost = Idle /\ polls = [p \in Polls |-> Idle]
  /\ cardLink \in BOOLEAN /\ cardFrames = <<>> /\ card = NoBooking
  /\ cleared = FALSE
  /\ cardPost = [at |-> "sent", op |-> "fetch"]

-----------------------------------------------------------------------------
(* broadcastAdmins and broadcastPax: open connections only. NoBooking      *)
(* stands for robot_request_cleared.                                       *)
Broadcast(b) ==
  /\ Len(boardFrames) < MaxQueued /\ Len(cardFrames) < MaxQueued
  /\ boardFrames' = IF boardLink THEN Append(boardFrames, b) ELSE boardFrames
  /\ cardFrames' = IF cardLink THEN Append(cardFrames, b) ELSE cardFrames

Set(b) ==
  /\ booking' = b
  /\ Broadcast(b)

(* setRobotRequest with a new updatedAt                                    *)
Write(b) ==
  /\ Len(log) < MaxWrites
  /\ log' = Append(log, b)
  /\ Set(b)

(* clearRobotRequest, if there is one                                      *)
Clear ==
  /\ IF booking = NoBooking THEN UNCHANGED <<booking, boardFrames, cardFrames>>
                            ELSE Set(NoBooking)
  /\ UNCHANGED log

(* Seeded fault: a new booking takes the place of the active one           *)
SubmitAnyway ==
  /\ cardPost = [at |-> "sent", op |-> "submit"]
  /\ Write([id |-> Len(log) + 1, rank |-> 1, at |-> Len(log) + 1])
  /\ cardPost' = [at |-> "answer", op |-> "submit", got |-> booking']
  /\ UNCHANGED <<boardLink, board, boardPost, polls, cardLink, card, cleared>>

(* POST /robot-request: refused while one is active.                       *)
Submit ==
  /\ cardPost = [at |-> "sent", op |-> "submit"]
  /\ \/ /\ booking # NoBooking
        /\ cardPost' = [at |-> "answer", op |-> "refused", got |-> booking]
        /\ UNCHANGED <<booking, log, boardFrames, cardFrames>>
     \/ /\ booking = NoBooking
        /\ Write([id |-> Len(log) + 1, rank |-> 1, at |-> Len(log) + 1])
        /\ cardPost' = [at |-> "answer", op |-> "submit", got |-> booking']
  /\ UNCHANGED <<boardLink, board, boardPost, polls, cardLink, card, cleared>>

(* DELETE /robot-request.                                                  *)
CancelOwn ==
  /\ cardPost = [at |-> "sent", op |-> "cancel"]
  /\ cardPost' = [at |-> "answer", op |-> "cancel", got |-> NoBooking]
  /\ Clear
  /\ UNCHANGED <<boardLink, board, boardPost, polls, cardLink, card, cleared>>

(* GET /robot-request of a page that has just been opened.                 *)
Fetch ==
  /\ cardPost = [at |-> "sent", op |-> "fetch"]
  /\ cardPost' = [at |-> "answer", op |-> "fetch", got |-> booking]
  /\ UNCHANGED <<booking, log, boardVars, cardLink, cardFrames, card, cleared>>

(* The next status, or the one named in the request: any, an earlier one   *)
(* too.                                                                    *)
NextStatus(op) ==
  IF op = "advance" THEN {IF booking.rank < LastRank THEN booking.rank + 1 ELSE LastRank}
                    ELSE 1..LastRank

(* POST /admin-robot-request: it names the passenger, not the booking. An  *)
(* action that is neither of these answers 400, as it answers 404 without  *)
(* a booking.                                                              *)
AdminRobotRequest(op) ==
  IF booking = NoBooking \/ op = "cancel" THEN Clear
  ELSE \E rank \in NextStatus(op) :
         Write([id |-> booking.id, rank |-> rank, at |-> Len(log) + 1])

AdminActs ==
  /\ boardPost.at = "sent"
  /\ AdminRobotRequest(boardPost.op)
  /\ boardPost' = [at |-> "answer", op |-> IF booking = NoBooking THEN "refused" ELSE boardPost.op,
                   got |-> booking']
  /\ UNCHANGED <<boardLink, board, polls, cardLink, card, cleared, cardPost>>

(* Another console, or another client of the route                         *)
OtherActs ==
  /\ \E op \in {"cancel", "advance", "status"} : AdminRobotRequest(op)
  /\ UNCHANGED <<boardLink, board, boardPost, polls, cardLink, card, cleared, cardPost>>

(* purgePassenger and pruneIdleCaches drop the booking without a word; so  *)
(* does a restart, with every connection.                                  *)
Forget ==
  /\ booking # NoBooking
  /\ booking' = NoBooking
  /\ UNCHANGED <<log, boardVars, cardVars>>

HubRestarts ==
  /\ booking' = NoBooking
  /\ boardLink' = FALSE /\ boardFrames' = <<>>
  /\ cardLink' = FALSE /\ cardFrames' = <<>>
  /\ UNCHANGED <<log, board, boardPost, polls, card, cleared, cardPost>>

-----------------------------------------------------------------------------
(* The console.                                                            *)
BoardClicks(op) ==
  /\ boardPost = Idle /\ board # NoBooking
  /\ op = "advance" => board.rank < LastRank
  /\ boardPost' = [at |-> "sent", op |-> op]
  /\ UNCHANGED <<booking, log, boardLink, boardFrames, board, polls, cardVars>>

(* Seeded fault: only the status is taken from the answer                  *)
BoardAnsweredPatch ==
  /\ boardPost.at = "answer"
  /\ boardPost' = Idle
  /\ board' = IF boardPost.op = "refused" THEN board
              ELSE IF NoBooking \in {board, boardPost.got} THEN boardPost.got
              ELSE [board EXCEPT !.rank = boardPost.got.rank]
  /\ UNCHANGED <<booking, log, boardLink, boardFrames, polls, cardVars>>

BoardAnswered ==
  /\ boardPost.at = "answer"
  /\ boardPost' = Idle
  /\ board' = IF boardPost.op = "refused" THEN board ELSE boardPost.got
  /\ UNCHANGED <<booking, log, boardLink, boardFrames, polls, cardVars>>

BoardReads ==
  /\ boardFrames # <<>>
  /\ board' = Head(boardFrames)
  /\ boardFrames' = Tail(boardFrames)
  /\ UNCHANGED <<booking, log, boardLink, boardPost, polls, cardVars>>

(* Every 15 seconds, whether or not the last one has been answered.        *)
PollAsks(p) ==
  /\ polls[p] = Idle
  /\ polls' = [polls EXCEPT ![p] = [at |-> "sent", op |-> "fetch"]]
  /\ UNCHANGED <<booking, log, boardLink, boardFrames, board, boardPost, cardVars>>

(* GET /admin-robot-requests.                                              *)
PollServed(p) ==
  /\ polls[p].at = "sent"
  /\ polls' = [polls EXCEPT ![p] = [at |-> "answer", op |-> "fetch", got |-> booking]]
  /\ UNCHANGED <<booking, log, boardLink, boardFrames, board, boardPost, cardVars>>

(* Seeded fault: the answer is merged into the queue                       *)
PollMerged(p) ==
  /\ polls[p].at = "answer"
  /\ board' = IF polls[p].got = NoBooking THEN board ELSE polls[p].got
  /\ polls' = [polls EXCEPT ![p] = Idle]
  /\ UNCHANGED <<booking, log, boardLink, boardFrames, boardPost, cardVars>>

PollAnswered(p) ==
  /\ polls[p].at = "answer"
  /\ board' = polls[p].got
  /\ polls' = [polls EXCEPT ![p] = Idle]
  /\ UNCHANGED <<booking, log, boardLink, boardFrames, boardPost, cardVars>>

PollFails(p) ==
  /\ polls[p].at = "sent"
  /\ polls' = [polls EXCEPT ![p] = Idle]
  /\ UNCHANGED <<booking, log, boardLink, boardFrames, board, boardPost, cardVars>>

BoardLinkTurns ==
  /\ boardLink' = ~boardLink
  /\ boardFrames' = <<>>
  /\ UNCHANGED <<booking, log, board, boardPost, polls, cardVars>>

-----------------------------------------------------------------------------
(* The passenger's page.                                                   *)
CardSubmits ==
  /\ cardPost = Idle /\ card = NoBooking
  /\ cardPost' = [at |-> "sent", op |-> "submit"]
  /\ UNCHANGED <<booking, log, boardVars, cardLink, cardFrames, card, cleared>>

CardCancels ==
  /\ cardPost = Idle /\ card # NoBooking
  /\ cardPost' = [at |-> "sent", op |-> "cancel"]
  /\ UNCHANGED <<booking, log, boardVars, cardLink, cardFrames, card, cleared>>

CardAnswered ==
  /\ cardPost.at = "answer"
  /\ cardPost' = Idle
  /\ card' = IF \/ cardPost.op = "refused"
                \/ cardPost.op = "fetch" /\ cardPost.got = NoBooking
             THEN card ELSE cardPost.got
  /\ UNCHANGED <<booking, log, boardVars, cardLink, cardFrames, cleared>>

(* The request or its answer is lost.                                      *)
CardPostFails ==
  /\ cardPost # Idle
  /\ cardPost' = Idle
  /\ UNCHANGED <<booking, log, boardVars, cardLink, cardFrames, card, cleared>>

(* setLiveRobotRequest; the panel's effect runs when the value has         *)
(* changed, which a second null has not. cleared says that it is null.     *)
CardReads ==
  /\ cardFrames # <<>>
  /\ cardFrames' = Tail(cardFrames)
  /\ cleared' = (Head(cardFrames) = NoBooking)
  /\ card' = IF cleared /\ cleared' THEN card ELSE Head(cardFrames)
  /\ UNCHANGED <<booking, log, boardVars, cardLink, cardPost>>

CardLinkTurns ==
  /\ cardLink' = ~cardLink
  /\ cardFrames' = <<>>
  /\ UNCHANGED <<booking, log, boardVars, card, cleared, cardPost>>

CardReloads ==
  /\ cardFrames' = <<>> /\ card' = NoBooking /\ cleared' = FALSE
  /\ cardPost' = [at |-> "sent", op |-> "fetch"]
  /\ UNCHANGED <<booking, log, boardVars, cardLink>>

BookingNext ==
  \/ Submit \/ CancelOwn \/ Fetch \/ AdminActs \/ OtherActs \/ Forget \/ HubRestarts
  \/ BoardAnswered \/ BoardReads \/ BoardLinkTurns
  \/ \E op \in {"cancel", "advance"} : BoardClicks(op)
  \/ \E p \in Polls : PollAsks(p) \/ PollServed(p) \/ PollAnswered(p) \/ PollFails(p)
  \/ CardSubmits \/ CardCancels \/ CardAnswered \/ CardPostFails \/ CardReads
  \/ CardLinkTurns \/ CardReloads

(* Timers run and broadcasts are read; now and then a poll is answered.    *)
BookingFairness ==
  /\ WF_bookingVars(BoardReads) /\ WF_bookingVars(BoardAnswered)
  /\ \A p \in Polls : /\ WF_bookingVars(PollAsks(p))
                      /\ SF_bookingVars(PollServed(p))
                      /\ WF_bookingVars(PollAnswered(p))

BookingSpec == BookingInit /\ [][BookingNext]_bookingVars /\ BookingFairness

-----------------------------------------------------------------------------
Shown == {board, card} \cup {boardFrames[i] : i \in DOMAIN boardFrames}
                       \cup {cardFrames[i] : i \in DOMAIN cardFrames}

(* Types; and however broadcasts, polls and answers overtake one another,  *)
(* a view shows the booking as some write left it, never a mixture of two  *)
(* and never one ahead of the hub: whoever shows the last write shows what *)
(* the hub keeps, unless that has been dropped.                            *)
BookingInv ==
  /\ booking \in MaybeBooking /\ log \in Seq(Bookings) /\ Len(log) <= MaxWrites
  /\ board \in MaybeBooking /\ card \in MaybeBooking
  /\ cleared \in BOOLEAN
  /\ boardPost \in {Idle} \cup Asked \cup Answer
  /\ cardPost \in {Idle} \cup Asked \cup Answer
  /\ polls \in [Polls -> {Idle} \cup Asked \cup Answer]
  /\ \A v \in Shown \ {NoBooking} : v.at \in DOMAIN log /\ v = log[v.at]
  /\ booking # NoBooking => log # <<>> /\ booking = log[Len(log)]

(* A booking ends by being cancelled or forgotten, never by another one    *)
(* taking its place; and what is written over it is news to every view.    *)
NeverReplaced ==
  [][booking # NoBooking /\ booking' # NoBooking
     => /\ booking'.id = booking.id
        /\ \A v \in Shown \ {NoBooking} : v.at < booking'.at]_booking

(* When bookings stop changing, the console's queue comes to show what the *)
(* hub keeps: the poll repairs lost broadcasts, and answers that came late *)
(* are followed by later ones.                                             *)
QueueSettles == <>[][FALSE]_booking => <>[](board = booking)
=============================================================================
