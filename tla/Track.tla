------------------------------- MODULE Track -------------------------------
(***************************************************************************)
(* The live position of one passenger, from the embedded walk page through *)
(* usePdrTelemetryRelay.ts (WebSocket, or HTTP when that is down), the     *)
(* hub's paxTrajectories (hub/trajectory.ts, routes/push.ts, hub/wsHub.ts) *)
(* and a console's map (useDashboard.ts). Positions are numbered in the    *)
(* order they are measured; the path that goes with one is left out.       *)
(* External: the embedded page, which measures, and which posts            *)
(* /tourist-deactivate when the walk ends.                                 *)
(***************************************************************************)
EXTENDS Naturals, Sequences

CONSTANTS
  Posts,            \* HTTP requests of the relay that may be under way at once
  MaxSample, MaxUnread  \* bounds: positions measured, frames not yet read

ASSUME TrackAssumption == MaxSample \in Nat /\ MaxUnread \in Nat \ {0}

VARIABLES
  sample,           \* the last position measured
  up, upFrames,     \* the page's socket is open; what it carries
  wsUp,             \* what the page believes of it
  pending,          \* pendingRef, 0 for null
  position,         \* the relay's request: none, sent or answered
  leave,            \* /tourist-deactivate: none or sent
  stored,           \* paxTrajectories, 0 for no entry
  mapLink, mapFrames, map,    \* the console
  quiet             \* the last walk ended, and was cleared, with nothing under way

trackVars == <<sample, up, upFrames, wsUp, pending, position, leave, stored,
               mapLink, mapFrames, map, quiet>>

NoPost == [at |-> "none", of |-> 0]
NoTrack == 0

TrackTypeOK ==
  /\ sample \in 0..MaxSample
  /\ up \in BOOLEAN /\ wsUp \in BOOLEAN
  /\ upFrames \in Seq(1..MaxSample)
  /\ pending \in 0..MaxSample
  /\ position \in [Posts -> [at : {"none", "sent", "ok", "failed"}, of : 0..MaxSample]]
  /\ leave \in {"none", "sent", "sent quietly"}
  /\ stored \in 0..MaxSample
  /\ mapLink \in {"down", "hello", "up"}
  /\ mapFrames \in Seq(0..MaxSample)
  /\ map \in 0..MaxSample
  /\ quiet \in BOOLEAN

TrackInit ==
  /\ sample = 0 /\ up \in BOOLEAN /\ upFrames = <<>> /\ wsUp = up
  /\ pending = 0 /\ position = [q \in Posts |-> NoPost] /\ leave = "none"
  /\ stored = NoTrack /\ mapLink = "down" /\ mapFrames = <<>> /\ map = NoTrack
  /\ quiet = FALSE

-----------------------------------------------------------------------------
(* onMessage, orienta-pdr-position: sent if the socket is believed open,   *)
(* though send does nothing if it is not; else it waits for flush.         *)
Relay ==
  /\ sample < MaxSample /\ leave = "none"
  /\ Len(upFrames) < MaxUnread
  /\ sample' = sample + 1
  /\ pending' = IF wsUp THEN 0 ELSE sample'
  /\ upFrames' = IF wsUp /\ up THEN Append(upFrames, sample') ELSE upFrames
  /\ quiet' = FALSE
  /\ UNCHANGED <<up, wsUp, position, leave, stored, mapLink, mapFrames, map>>

(* Every second, at most one request in 5 seconds, more rarely after       *)
(* failures; a request may well outlast that.                              *)
Flush(q) ==
  /\ pending # 0 /\ ~wsUp
  /\ position[q] = NoPost
  /\ position' = [position EXCEPT ![q] = [at |-> "sent", of |-> pending]]
  /\ UNCHANGED <<sample, up, upFrames, wsUp, pending, leave, stored, mapLink, mapFrames, map, quiet>>

(* Its answer: pendingRef is cleared, whatever it holds by now; or kept.   *)
FlushAnswered(q) ==
  /\ position[q].at \in {"ok", "failed"}
  /\ pending' = IF position[q].at = "ok" THEN 0 ELSE pending
  /\ position' = [position EXCEPT ![q] = NoPost]
  /\ UNCHANGED <<sample, up, upFrames, wsUp, leave, stored, mapLink, mapFrames, map, quiet>>

UnderWay == upFrames # <<>> \/ \E q \in Posts : position[q].at = "sent"

(* Seeded fault: what waits is kept                                        *)
DeactivateKeeps ==
  /\ leave = "none" /\ sample > 0
  /\ leave' = IF UnderWay THEN "sent" ELSE "sent quietly"
  /\ UNCHANGED <<sample, up, upFrames, wsUp, pending, position, stored, mapLink, mapFrames, map, quiet>>

(* orienta-pdr-deactivate: the walk has ended; the walk page posts that    *)
(* to the server itself.                                                   *)
Deactivate ==
  /\ leave = "none" /\ sample > 0
  /\ pending' = 0
  /\ leave' = IF UnderWay THEN "sent" ELSE "sent quietly"
  /\ UNCHANGED <<sample, up, upFrames, wsUp, position, stored, mapLink, mapFrames, map, quiet>>

LinkTurns ==
  /\ up' = ~up
  /\ upFrames' = <<>>
  /\ UNCHANGED <<sample, wsUp, pending, position, leave, stored, mapLink, mapFrames, map, quiet>>

LinkNoticed ==
  /\ wsUp # up
  /\ wsUp' = up
  /\ UNCHANGED <<sample, up, upFrames, pending, position, leave, stored, mapLink, mapFrames, map, quiet>>

-----------------------------------------------------------------------------
(* broadcastAdmins: consoles that have said hello.                         *)
Tell(n) ==
  /\ Len(mapFrames) < MaxUnread
  /\ mapFrames' = IF mapLink = "down" THEN mapFrames ELSE Append(mapFrames, n)

(* storeAndBroadcastTrajectory, from the socket and from HTTP.             *)
Store(n) == stored' = n /\ Tell(n)

StoreFrame ==
  /\ upFrames # <<>>
  /\ upFrames' = Tail(upFrames)
  /\ Store(Head(upFrames))
  /\ UNCHANGED <<sample, up, wsUp, pending, position, leave, mapLink, map, quiet>>

StorePost(q) ==
  /\ position[q].at = "sent"
  /\ Store(position[q].of)
  /\ \E answer \in {"ok", "failed"} :
       position' = [position EXCEPT ![q].at = answer]
  /\ UNCHANGED <<sample, up, upFrames, wsUp, pending, leave, mapLink, map, quiet>>

PostLost(q) ==
  /\ position[q].at = "sent"
  /\ position' = [position EXCEPT ![q].at = "failed"]
  /\ UNCHANGED <<sample, up, upFrames, wsUp, pending, leave, stored, mapLink, mapFrames, map, quiet>>

(* clearStoredTrajectory: told only if there was one.                      *)
ClearStored ==
  /\ leave # "none"
  /\ leave' = "none"
  /\ quiet' = (leave = "sent quietly")
  /\ stored' = NoTrack
  /\ IF stored = NoTrack THEN UNCHANGED mapFrames ELSE Tell(NoTrack)
  /\ UNCHANGED <<sample, up, upFrames, wsUp, pending, position, mapLink, map>>

(* purgePassenger and pruneIdleCaches tell nobody.                         *)
Drop ==
  /\ stored # NoTrack /\ stored' = NoTrack
  /\ UNCHANGED <<sample, up, upFrames, wsUp, pending, position, leave, mapLink, mapFrames, map, quiet>>

-----------------------------------------------------------------------------
(* The console says hello, and joins the broadcasts; the snapshot follows  *)
(* once the presence list has been read.                                   *)
AdminHello ==
  /\ mapLink = "down"
  /\ mapLink' = "hello"
  /\ UNCHANGED <<sample, up, upFrames, wsUp, pending, position, leave, stored, mapFrames, map, quiet>>

(* Seeded fault: the snapshot has no trajectories                          *)
SnapshotWithout ==
  /\ mapLink = "hello"
  /\ mapLink' = "up"
  /\ UNCHANGED <<sample, up, upFrames, wsUp, pending, position, leave, stored, mapFrames, map, quiet>>

Snapshot ==
  /\ mapLink = "hello"
  /\ mapLink' = "up"
  /\ IF stored = NoTrack THEN UNCHANGED mapFrames ELSE Tell(stored)
  /\ UNCHANGED <<sample, up, upFrames, wsUp, pending, position, leave, stored, map, quiet>>

(* onPaxTrajectory, onPaxTrajectoryClear.                                  *)
MapReads ==
  /\ mapFrames # <<>>
  /\ map' = Head(mapFrames)
  /\ mapFrames' = Tail(mapFrames)
  /\ UNCHANGED <<sample, up, upFrames, wsUp, pending, position, leave, stored, mapLink, quiet>>

MapLinkDrops ==
  /\ mapLink # "down"
  /\ mapLink' = "down" /\ mapFrames' = <<>>
  /\ UNCHANGED <<sample, up, upFrames, wsUp, pending, position, leave, stored, map, quiet>>

TrackNext ==
  \/ Relay \/ Deactivate \/ LinkTurns \/ LinkNoticed
  \/ \E q \in Posts : Flush(q) \/ FlushAnswered(q) \/ StorePost(q) \/ PostLost(q)
  \/ StoreFrame \/ ClearStored \/ Drop
  \/ AdminHello \/ Snapshot \/ MapReads \/ MapLinkDrops

(* The console reconnects, and at times stays long enough to be served.    *)
TrackFairness ==
  /\ WF_trackVars(AdminHello) /\ SF_trackVars(Snapshot) /\ SF_trackVars(MapReads)
  /\ WF_trackVars(StoreFrame) /\ WF_trackVars(ClearStored) /\ WF_trackVars(LinkNoticed)
  /\ \A q \in Posts : /\ SF_trackVars(Flush(q)) /\ WF_trackVars(FlushAnswered(q))
                      /\ SF_trackVars(StorePost(q))

TrackSpec == TrackInit /\ [][TrackNext]_trackVars /\ TrackFairness

-----------------------------------------------------------------------------
(* Types; and a walk that ends with no position under way leaves the map   *)
(* for good: nothing that waited is sent after it.                         *)
TrackInv ==
  /\ TrackTypeOK
  /\ quiet => stored = NoTrack /\ ~UnderWay

(* Wherever a passenger comes to rest, every console comes to show, also   *)
(* one that was away meanwhile.                                            *)
MapFollows == \A n \in 1..MaxSample : <>[](stored = n) => <>[](map = n)

(* A position that has been taken off "the operator's map"                 *)
(* (usePdrTelemetryRelay.ts:95) leaves it on every console.                *)
MapForgets == <>[](stored = NoTrack) => <>[](map = NoTrack)

(* "Newest sample the WebSocket could not take; only ever one (positions   *)
(* supersede)" (usePdrTelemetryRelay.ts:58): an answer forgets no newer    *)
(* one than it is about.                                                   *)
NewestKept ==
  [][\A q \in Posts : position[q].at = "ok" /\ position'[q].at = "none"
                     => pending \in {0, position[q].of}]_trackVars
=============================================================================
