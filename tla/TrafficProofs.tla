---------------------------- MODULE TrafficProofs ----------------------------
(* The live track and the lookups for any number of requests and of positions, *)
(* and for any limits: what is cleared stays off the map, and nobody is served *)
(* weather that is too old.                                                    *)
EXTENDS MCTraffic, SequenceTheorems, TLAPS

-----------------------------------------------------------------------------
(* Track: from the end of a walk on nothing waits at the relay, and if nothing *)
(* was under way, nothing is until the next position is measured.              *)
Posted == [at: {"none", "sent", "ok", "failed"}, of: 0..MaxSample]
NothingLeft == ~UnderWay /\ pending = 0

TrackIInv ==
  /\ TrackTypeOK
  /\ leave # "none" => pending = 0
  /\ leave = "sent quietly" => NothingLeft
  /\ quiet => stored = NoTrack /\ NothingLeft

LEMMA TrackTypes ==
  ASSUME TrackTypeOK
  PROVE  /\ sample \in 0..MaxSample /\ pending \in 0..MaxSample /\ stored \in 0..MaxSample
         /\ map \in 0..MaxSample
         /\ upFrames \in Seq(1..MaxSample) /\ mapFrames \in Seq(0..MaxSample)
         /\ position \in [Posts -> Posted]
         /\ MaxSample \in Nat /\ MaxUnread \in Nat
BY TrackAssumption DEF TrackTypeOK, Posted

LEMMA NoPostType == NoPost \in Posted /\ NoPost.at = "none"
BY TrackAssumption DEF NoPost, Posted

(* The relay and its link.                                                     *)
LEMMA RelayStep == ASSUME TrackIInv, Relay PROVE TrackIInv'
<1>1. /\ sample < MaxSample /\ sample' = sample + 1 /\ leave = "none" /\ quiet' = FALSE
      /\ pending' = IF wsUp THEN 0 ELSE sample'
      /\ upFrames' = IF wsUp /\ up THEN Append(upFrames, sample') ELSE upFrames
      /\ UNCHANGED <<up, wsUp, position, leave, stored, mapLink, mapFrames, map>>
  BY DEF Relay
<1>2. TrackTypeOK
  BY DEF TrackIInv
<1>3. sample' \in 1..MaxSample /\ pending' \in 0..MaxSample
  BY <1>1, <1>2, TrackTypes
<1>4. upFrames' \in Seq(1..MaxSample)
  BY <1>1, <1>2, <1>3, TrackTypes, AppendProperties
<1>5. quiet' \in BOOLEAN /\ leave' = leave /\ leave = "none"
  BY <1>1
<1>7. sample' \in 0..MaxSample
  BY <1>3
<1>6. TrackTypeOK'
  BY <1>1, <1>2, <1>3, <1>4, <1>5, <1>7 DEF TrackTypeOK
<1> QED BY <1>1, <1>6 DEF TrackIInv

LEMMA PostSteps ==
  ASSUME TrackIInv, NEW q \in Posts, Flush(q) \/ FlushAnswered(q) \/ PostLost(q)
  PROVE  TrackIInv'
<1>1. TrackTypeOK
  BY DEF TrackIInv
<1>2. UNCHANGED <<sample, up, upFrames, wsUp, leave, stored, mapLink, mapFrames, map, quiet>>
  BY DEF Flush, FlushAnswered, PostLost
<1>3. \A r \in Posts: r # q => position'[r] = position[r]
  BY <1>1, TrackTypes DEF Flush, FlushAnswered, PostLost
<1>8. position' \in [Posts -> Posted]
  <2>1. CASE Flush(q)
    <3>1. [at |-> "sent", of |-> pending] \in Posted
      BY <1>1, TrackTypes DEF Posted
    <3> QED BY <1>1, <2>1, <3>1, TrackTypes DEF Flush
  <2>2. CASE FlushAnswered(q)
    BY <1>1, <2>2, TrackTypes, NoPostType DEF FlushAnswered
  <2>3. CASE PostLost(q)
    <3>1. [position[q] EXCEPT !.at = "failed"] \in Posted
      BY <1>1, TrackTypes DEF Posted
    <3> QED BY <1>1, <2>3, <3>1, TrackTypes DEF PostLost
  <2> QED BY <2>1, <2>2, <2>3
<1>4. pending' \in {0, pending} /\ (pending = 0 => position'[q].at # "sent")
  BY <1>1, TrackTypes, NoPostType DEF Flush, FlushAnswered, PostLost, Posted
<1>5. pending' \in 0..MaxSample
  BY <1>1, <1>4, TrackTypes
<1>6. TrackTypeOK'
  BY <1>1, <1>2, <1>5, <1>8 DEF TrackTypeOK, Posted
<1>7. NothingLeft => NothingLeft'
  BY <1>2, <1>3, <1>4 DEF NothingLeft, UnderWay
<1> QED BY <1>2, <1>4, <1>6, <1>7 DEF TrackIInv

LEMMA DeactivateStep == ASSUME TrackIInv, Deactivate PROVE TrackIInv'
<1>1. /\ pending' = 0 /\ leave' = IF UnderWay THEN "sent" ELSE "sent quietly"
      /\ UNCHANGED <<sample, up, upFrames, wsUp, position, stored, mapLink, mapFrames, map, quiet>>
  BY DEF Deactivate
<1>2. UnderWay' = UnderWay
  BY <1>1 DEF UnderWay
<1>3. 0 \in 0..MaxSample
  BY TrackAssumption
<1>4. leave' \in {"none", "sent", "sent quietly"}
  BY <1>1
<1>5. TrackTypeOK'
  BY <1>1, <1>3, <1>4 DEF TrackIInv, TrackTypeOK
<1> QED BY <1>1, <1>2, <1>5 DEF TrackIInv, NothingLeft

LEMMA LinkSteps == ASSUME TrackIInv, LinkTurns \/ LinkNoticed PROVE TrackIInv'
<1>1. /\ upFrames' \in {<<>>, upFrames} /\ up' \in BOOLEAN /\ wsUp' \in BOOLEAN
      /\ UNCHANGED <<sample, pending, position, leave, stored, mapLink, mapFrames, map, quiet>>
  BY DEF LinkTurns, LinkNoticed, TrackIInv, TrackTypeOK
<1>2. upFrames' \in Seq(1..MaxSample)
  BY <1>1, EmptySeq DEF TrackIInv, TrackTypeOK
<1>3. TrackTypeOK'
  BY <1>1, <1>2 DEF TrackIInv, TrackTypeOK
<1>4. NothingLeft => NothingLeft'
  BY <1>1 DEF NothingLeft, UnderWay
<1> QED BY <1>1, <1>3, <1>4 DEF TrackIInv

(* The hub: what arrives is stored and told, what is cleared is told.          *)
LEMMA TellType ==
  ASSUME TrackTypeOK, NEW n \in 0..MaxSample, Tell(n)
  PROVE  mapFrames' \in Seq(0..MaxSample)
BY TrackTypes, AppendProperties DEF Tell

LEMMA StoreSteps ==
  ASSUME TrackIInv, StoreFrame \/ \E q \in Posts: StorePost(q)
  PROVE  TrackIInv'
<1>1. TrackTypeOK
  BY DEF TrackIInv
<1>2. ASSUME StoreFrame PROVE TrackIInv'
  <2>1. /\ upFrames # <<>> /\ upFrames' = Tail(upFrames) /\ stored' = Head(upFrames)
        /\ Tell(Head(upFrames))
        /\ UNCHANGED <<sample, up, wsUp, pending, position, leave, mapLink, map, quiet>>
    BY <1>2 DEF StoreFrame, Store
  <2>2. Head(upFrames) \in 0..MaxSample /\ upFrames' \in Seq(1..MaxSample)
    BY <1>1, <2>1, TrackTypes, HeadTailProperties
  <2>3. TrackTypeOK'
    BY <1>1, <2>1, <2>2, TellType DEF TrackTypeOK
  <2>4. ~quiet /\ leave # "sent quietly"
    BY <2>1 DEF TrackIInv, NothingLeft, UnderWay
  <2> QED BY <2>1, <2>3, <2>4 DEF TrackIInv
<1>3. ASSUME NEW q \in Posts, StorePost(q) PROVE TrackIInv'
  <2>1. /\ position[q].at = "sent" /\ stored' = position[q].of /\ Tell(position[q].of)
        /\ UNCHANGED <<sample, up, upFrames, wsUp, pending, leave, mapLink, map, quiet>>
    BY <1>3 DEF StorePost, Store
  <2>2. position[q].of \in 0..MaxSample
    BY <1>1, TrackTypes DEF Posted
  <2>3. position' \in [Posts -> Posted]
    BY <1>1, <1>3, TrackTypes DEF StorePost, Posted
  <2>4. TrackTypeOK'
    BY <1>1, <2>1, <2>2, <2>3, TellType DEF TrackTypeOK, Posted
  <2>5. ~quiet /\ leave # "sent quietly"
    BY <2>1 DEF TrackIInv, NothingLeft, UnderWay
  <2> QED BY <2>1, <2>4, <2>5 DEF TrackIInv
<1> QED BY <1>2, <1>3

LEMMA ClearSteps == ASSUME TrackIInv, ClearStored \/ Drop PROVE TrackIInv'
<1>1. TrackTypeOK
  BY DEF TrackIInv
<1>2. /\ stored' = NoTrack
      /\ UNCHANGED <<sample, up, upFrames, wsUp, pending, position, mapLink, map>>
  BY DEF ClearStored, Drop
<1>6. mapFrames' \in Seq(0..MaxSample)
  <2>1. 0 \in 0..MaxSample
    BY TrackAssumption
  <2> QED BY <1>1, <2>1, TellType, TrackTypes DEF ClearStored, Drop, NoTrack
<1>7. leave' \in {"none", leave} /\ leave' \in {"none", "sent", "sent quietly"}
  BY <1>1 DEF ClearStored, Drop, TrackTypeOK
<1>8. quiet' \in BOOLEAN
  BY <1>1 DEF ClearStored, Drop, TrackTypeOK
<1>9. quiet' => leave = "sent quietly" \/ quiet
  BY DEF ClearStored, Drop
<1>3. NoTrack \in 0..MaxSample
  BY TrackAssumption DEF NoTrack
<1>4. TrackTypeOK'
  BY <1>1, <1>2, <1>3, <1>6, <1>7, <1>8 DEF TrackTypeOK
<1>5. NothingLeft' = NothingLeft
  BY <1>2 DEF NothingLeft, UnderWay
<1> QED BY <1>2, <1>4, <1>5, <1>7, <1>9 DEF TrackIInv

LEMMA MapSteps ==
  ASSUME TrackIInv, AdminHello \/ Snapshot \/ MapReads \/ MapLinkDrops
  PROVE  TrackIInv'
<1>1. TrackTypeOK
  BY DEF TrackIInv
<1>2. UNCHANGED <<sample, up, upFrames, wsUp, pending, position, leave, stored, quiet>>
  BY DEF AdminHello, Snapshot, MapReads, MapLinkDrops
<1>3. /\ mapLink' \in {"down", "hello", "up"} /\ mapFrames' \in Seq(0..MaxSample)
      /\ map' \in 0..MaxSample
  <2>1. CASE AdminHello
    BY <1>1, <2>1, TrackTypes DEF AdminHello
  <2>2. CASE Snapshot
    BY <1>1, <2>2, TrackTypes, TellType DEF Snapshot
  <2>3. CASE MapReads
    BY <1>1, <2>3, TrackTypes, HeadTailProperties DEF MapReads, TrackTypeOK
  <2>4. CASE MapLinkDrops
    BY <1>1, <2>4, TrackTypes, EmptySeq DEF MapLinkDrops
  <2> QED BY <2>1, <2>2, <2>3, <2>4
<1>4. TrackTypeOK'
  BY <1>1, <1>2, <1>3 DEF TrackTypeOK
<1>5. NothingLeft' = NothingLeft
  BY <1>2 DEF NothingLeft, UnderWay
<1> QED BY <1>2, <1>4, <1>5 DEF TrackIInv

LEMMA TrackInductive ==
  /\ TrackInit => TrackIInv
  /\ TrackIInv /\ [TrackNext]_trackVars => TrackIInv'
  /\ TrackIInv => TrackInv
<1>1. TrackInit => TrackIInv
  <2> SUFFICES ASSUME TrackInit PROVE TrackIInv
    OBVIOUS
  <2>1. 0 \in 0..MaxSample
    BY TrackAssumption
  <2>2. position \in [Posts -> Posted] /\ \A q \in Posts: position[q].at = "none"
    BY NoPostType DEF TrackInit
  <2>3. up \in BOOLEAN /\ wsUp \in BOOLEAN /\ quiet = FALSE /\ leave = "none"
        /\ mapLink = "down" /\ upFrames = <<>> /\ mapFrames = <<>>
    BY DEF TrackInit
  <2>4. sample = 0 /\ pending = 0 /\ stored = 0 /\ map = 0
    BY DEF TrackInit, NoTrack
  <2>5. upFrames \in Seq(1..MaxSample) /\ mapFrames \in Seq(0..MaxSample)
    BY <2>3, EmptySeq
  <2>6. TrackTypeOK
    BY <2>1, <2>2, <2>3, <2>4, <2>5 DEF TrackTypeOK, Posted
  <2> QED BY <2>3, <2>6 DEF TrackIInv
<1>2. TrackIInv /\ [TrackNext]_trackVars => TrackIInv'
  <2> SUFFICES ASSUME TrackIInv, [TrackNext]_trackVars PROVE TrackIInv'
    OBVIOUS
  <2>1. CASE UNCHANGED trackVars
    <3>1. UNCHANGED <<sample, up, upFrames, wsUp, pending, position, leave, stored,
                      mapLink, mapFrames, map, quiet>>
      BY <2>1 DEF trackVars
    <3> QED BY <3>1 DEF TrackIInv, TrackTypeOK, NothingLeft, UnderWay
  <2> QED BY <2>1, RelayStep, PostSteps, DeactivateStep, LinkSteps, StoreSteps, ClearSteps, MapSteps
          DEF TrackNext
<1>3. TrackIInv => TrackInv
  BY DEF TrackIInv, TrackInv, NothingLeft
<1> QED BY <1>1, <1>2, <1>3

(* For any number of requests under way and of positions: once a walk has      *)
(* ended with nothing under way and was cleared, no position that waited or    *)
(* was sent before comes back to the hub, whatever link breaks meanwhile.      *)
THEOREM TrackInvariant == TrackSpec => []TrackInv
<1>1. TrackInit /\ [][TrackNext]_trackVars => []TrackIInv
  BY TrackInductive, PTL
<1> QED BY <1>1, TrackInductive, PTL DEF TrackSpec
-----------------------------------------------------------------------------
(* Lookups: what is asked for, what is cached and what is on its way. A shared *)
(* refresh that found the cache still of use has aged it by the ticks it has   *)
(* taken at the most, so what it falls back on is not older than both limits   *)
(* together; and who waits waits for a refresh.                                *)
Plain == {Resting, [at |-> "board"], [at |-> "waits"]}
Asks == [at: {"outbound", "direct"}, hint: Hint, idents: 1..2]
Got == [at: {"resolved"}, hint: Hint, gate: Gate]
Seen == {Weather(age): age \in 0..(StaleFor + AnswerWithin)}
CallState == Plain \cup Asks \cup Got \cup Seen

Circuit ==
  failures \in 0..(Threshold + 1) /\ openLeft \in 0..OpenFor /\ airportBoard \in 0..CacheFor
Kept ==
  /\ outbound \in [gate: Gate \cup {NoGate}, left: 0..CacheFor]
  /\ outbound.left > 0 => outbound.gate \in Gate
Underway == [on: {TRUE}, took: 0..AnswerWithin, stale: BOOLEAN]
Refreshed ==
  /\ weather \in 0..Old /\ refresh \in {NoRefresh} \cup Underway
  /\ refresh.on /\ refresh.stale => weather <= StaleFor + refresh.took
Called ==
  /\ caller \in [Callers -> CallState]
  /\ \A c \in Callers: caller[c].at = "waits" => refresh.on

LookupIInv == Circuit /\ Kept /\ Refreshed /\ Called

LEMMA LookupNumbers ==
  /\ Threshold \in Nat /\ Threshold > 0 /\ OpenFor \in Nat /\ OpenFor > 0
  /\ CacheFor \in Nat /\ CacheFor > 0
  /\ WeatherFor \in Nat /\ StaleFor \in Nat /\ WeatherFor <= StaleFor /\ AnswerWithin \in Nat
BY LookupsAssumption

(* What a request may become.                                                  *)
LEMMA PlainStates ==
  /\ Resting \in CallState /\ Resting.at = "rest"
  /\ [at |-> "board"] \in CallState /\ [at |-> "waits"] \in CallState
BY DEF CallState, Plain, Resting

LEMMA ResolvedState ==
  ASSUME NEW hint \in Hint, NEW g \in Gate
  PROVE  Resolved(hint, g) \in CallState /\ Resolved(hint, g).at = "resolved"
BY DEF CallState, Got, Resolved

LEMMA WeatherState ==
  ASSUME NEW age \in 0..(StaleFor + AnswerWithin)
  PROVE  Weather(age) \in CallState /\ Weather(age).at = "weather"
<1>1. Weather(age) \in Seen
  BY DEF Seen
<1> QED BY <1>1 DEF CallState, Weather

LEMMA AskingState ==
  ASSUME NEW s \in CallState, s.at \in {"outbound", "direct"}
  PROVE  /\ s \in Asks /\ s.hint \in Hint
         /\ [s EXCEPT !.idents = 1] \in CallState
         /\ [s EXCEPT !.idents = 1].at = s.at
<1>1. s \in Asks
  BY DEF CallState, Plain, Got, Seen, Resting, Weather
<1>2. [s EXCEPT !.idents = 1] \in Asks /\ [s EXCEPT !.idents = 1].at = s.at
  BY <1>1 DEF Asks
<1> QED BY <1>1, <1>2 DEF Asks, CallState

LEMMA FallbackIsGate == ASSUME NEW hint \in Hint PROVE FallbackGate(hint) \in Gate
BY DEF FallbackGate, Hint, Gate

(* One request changes; the refresh goes on, or has just begun.                *)
LEMMA OneCaller ==
  ASSUME Called, NEW c \in Callers, NEW s \in CallState, Becomes(c, s),
         refresh.on => refresh'.on, s.at = "waits" => refresh'.on
  PROVE  Called'
BY DEF Called, Becomes

LEMMA GivesUpStep ==
  ASSUME Called, NEW c \in Callers, Asking(c), GivesUp(c), UNCHANGED refresh
  PROVE  Called'
<1>1. caller[c] \in CallState
  BY DEF Called
<1>2. CASE caller[c].at = "direct"
  BY <1>2, OneCaller, PlainStates DEF GivesUp
<1>3. CASE caller[c].at # "direct"
  <2>1. caller[c].hint \in Hint
    BY <1>1, AskingState DEF Asking
  <2>2. Becomes(c, Resolved(caller[c].hint, FallbackGate(caller[c].hint)))
    BY <1>3 DEF GivesUp
  <2> QED BY <2>1, <2>2, FallbackIsGate, ResolvedState, OneCaller
<1> QED BY <1>2, <1>3

LEMMA CircuitSteps ==
  ASSUME Circuit, RecordSuccess \/ RecordFailure
  PROVE  failures' \in 0..(Threshold + 1) /\ openLeft' \in 0..OpenFor
BY LookupNumbers DEF Circuit, RecordSuccess, RecordFailure

(* A request asks for a flight or a board.                                     *)
LEMMA AskSteps ==
  ASSUME LookupIInv, NEW c \in Callers,
         (\E hint \in Hint: ResolveOutbound(c, hint)) \/ FetchFlightAware(c) \/ FetchBoard(c)
  PROVE  LookupIInv'
<1>1. UNCHANGED <<failures, openLeft, outbound, airportBoard, weather, refresh>>
  BY DEF ResolveOutbound, FetchFlightAware, FetchBoard
<1>2. Circuit' /\ Kept' /\ Refreshed'
  BY <1>1 DEF LookupIInv, Circuit, Kept, Refreshed
<1>3. ASSUME NEW hint \in Hint, ResolveOutbound(c, hint) PROVE Called'
  <2>1. CASE outbound.left > 0
    <3>1. outbound.gate \in Gate
      BY <2>1 DEF LookupIInv, Kept
    <3>2. Becomes(c, Resolved(hint, outbound.gate))
      BY <1>3, <2>1 DEF ResolveOutbound
    <3> QED BY <1>1, <3>1, <3>2, ResolvedState, OneCaller DEF LookupIInv
  <2>2. CASE ~(outbound.left > 0) /\ CircuitIsOpen
    <3>1. Becomes(c, Resolved(hint, FallbackGate(hint)))
      BY <1>3, <2>2 DEF ResolveOutbound
    <3> QED BY <1>1, <3>1, FallbackIsGate, ResolvedState, OneCaller DEF LookupIInv
  <2>3. CASE ~(outbound.left > 0) /\ ~CircuitIsOpen
    <3>1. Becomes(c, [at |-> "outbound", hint |-> hint, idents |-> 2])
      BY <1>3, <2>3 DEF ResolveOutbound
    <3> DEFINE s == [at |-> "outbound", hint |-> hint, idents |-> 2]
    <3>2. s \in CallState /\ s.at # "waits" /\ Becomes(c, s)
      BY <3>1 DEF CallState, Asks
    <3> HIDE DEF s
    <3> QED BY <1>1, <3>2, OneCaller DEF LookupIInv
  <2> QED BY <2>1, <2>2, <2>3
<1>4. ASSUME FetchFlightAware(c) PROVE Called'
  <2>1. NoGate \in Hint
    BY DEF Hint
  <2>2. Becomes(c, [at |-> "direct", hint |-> NoGate, idents |-> 2])
    BY <1>4 DEF FetchFlightAware
  <2> DEFINE s == [at |-> "direct", hint |-> NoGate, idents |-> 2]
  <2>3. s \in CallState /\ s.at # "waits" /\ Becomes(c, s)
    BY <2>1, <2>2 DEF CallState, Asks
  <2> HIDE DEF s
  <2> QED BY <1>1, <2>3, OneCaller DEF LookupIInv
<1>5. ASSUME FetchBoard(c) PROVE Called'
  BY <1>1, <1>5, PlainStates, OneCaller DEF LookupIInv, FetchBoard
<1> QED BY <1>2, <1>3, <1>4, <1>5 DEF LookupIInv

(* What AeroAPI answers.                                                       *)
LEMMA FlightFoundStep ==
  ASSUME LookupIInv, NEW c \in Callers, NEW live \in LiveGates \cup {NoGate},
         FlightFound(c, live)
  PROVE  LookupIInv'
<1>1. RecordSuccess /\ Asking(c) /\ UNCHANGED <<airportBoard, weather, refresh>>
  BY DEF FlightFound
<1>2. Circuit' /\ Refreshed'
  BY <1>1, CircuitSteps DEF LookupIInv, Circuit, Refreshed
<1>3. Kept' /\ Called'
  <2>1. CASE caller[c].at = "direct"
    <3>1. Becomes(c, Resting) /\ UNCHANGED outbound
      BY <2>1 DEF FlightFound
    <3>2. Kept'
      BY <3>1 DEF LookupIInv, Kept
    <3> QED BY <1>1, <3>1, <3>2, PlainStates, OneCaller DEF LookupIInv
  <2>2. CASE caller[c].at # "direct"
    <3> DEFINE hint == caller[c].hint
               g == IF hint # NoGate THEN hint ELSE IF live # NoGate THEN live ELSE DefaultGate
    <3>1. hint \in Hint
      BY <1>1, AskingState DEF LookupIInv, Called, Asking
    <3>2. g \in Gate
      BY <3>1 DEF Hint, Gate
    <3>3. Becomes(c, Resolved(hint, g)) /\ outbound' = [gate |-> g, left |-> CacheFor]
      BY <2>2 DEF FlightFound
    <3> HIDE DEF hint, g
    <3>4. Kept'
      BY <3>2, <3>3, LookupNumbers DEF Kept
    <3>5. Called'
      BY <1>1, <3>1, <3>2, <3>3, ResolvedState, OneCaller DEF LookupIInv
    <3> QED BY <3>4, <3>5
  <2> QED BY <2>1, <2>2
<1> QED BY <1>2, <1>3 DEF LookupIInv

LEMMA AeroSteps ==
  ASSUME LookupIInv, NEW c \in Callers, AeroAnswers(c)
  PROVE  LookupIInv'
<1>1. ASSUME NextIdent(c) PROVE LookupIInv'
  <2>1. UNCHANGED <<failures, openLeft, outbound, airportBoard, weather, refresh>>
    BY <1>1 DEF NextIdent
  <2>2. caller[c] \in CallState /\ caller[c].at \in {"outbound", "direct"}
    BY <1>1 DEF LookupIInv, Called, NextIdent, Asking
  <2>3. Becomes(c, [caller[c] EXCEPT !.idents = 1])
    BY <1>1 DEF NextIdent, Becomes
  <2>4. Called'
    BY <2>1, <2>2, <2>3, AskingState, OneCaller DEF LookupIInv
  <2> QED BY <2>1, <2>4 DEF LookupIInv, Circuit, Kept, Refreshed
<1>2. ASSUME NoFlight(c) \/ FlightFails(c) \/ FlightGarbled(c) PROVE LookupIInv'
  <2>1. Asking(c) /\ GivesUp(c) /\ UNCHANGED <<outbound, airportBoard, weather, refresh>>
    BY <1>2 DEF NoFlight, FlightFails, FlightGarbled
  <2>2. failures' \in 0..(Threshold + 1) /\ openLeft' \in 0..OpenFor
    BY <1>2, CircuitSteps DEF NoFlight, FlightFails, FlightGarbled, LookupIInv, Circuit
  <2>3. Called'
    BY <2>1, GivesUpStep DEF LookupIInv
  <2> QED BY <2>1, <2>2, <2>3 DEF LookupIInv, Circuit, Kept, Refreshed
<1>3. ASSUME BoardAnswers(c) PROVE LookupIInv'
  <2>1. Becomes(c, Resting) /\ UNCHANGED <<outbound, weather, refresh>>
    BY <1>3 DEF BoardAnswers
  <2>2. Called'
    BY <2>1, PlainStates, OneCaller DEF LookupIInv
  <2>3. failures' \in 0..(Threshold + 1) /\ openLeft' \in 0..OpenFor
    BY <1>3, CircuitSteps DEF BoardAnswers, LookupIInv, Circuit
  <2>4. airportBoard' \in 0..CacheFor
    BY <1>3, LookupNumbers DEF BoardAnswers, LookupIInv, Circuit
  <2> QED BY <2>1, <2>2, <2>3, <2>4 DEF LookupIInv, Circuit, Kept, Refreshed
<1> QED BY <1>1, <1>2, <1>3, FlightFoundStep DEF AeroAnswers

(* The weather.                                                                *)
LEMMA AskWeatherStep ==
  ASSUME LookupIInv, NEW c \in Callers, GetAirportWeather(c)
  PROVE  LookupIInv'
<1>1. UNCHANGED <<failures, openLeft, outbound, airportBoard, weather>>
  BY DEF GetAirportWeather
<1>2. Circuit' /\ Kept'
  BY <1>1 DEF LookupIInv, Circuit, Kept
<1>3. CASE weather <= WeatherFor
  <2>1. Becomes(c, Weather(weather)) /\ UNCHANGED refresh
    BY <1>3 DEF GetAirportWeather
  <2>2. weather \in 0..(StaleFor + AnswerWithin)
    BY <1>3, LookupNumbers DEF LookupIInv, Refreshed, Old
  <2>3. Called'
    BY <2>1, <2>2, WeatherState, OneCaller DEF LookupIInv
  <2> QED BY <1>1, <1>2, <2>1, <2>3 DEF LookupIInv, Refreshed
<1>4. CASE ~(weather <= WeatherFor)
  <2>1. /\ Becomes(c, [at |-> "waits"])
        /\ refresh' = IF refresh.on THEN refresh
                      ELSE [on |-> TRUE, took |-> 0, stale |-> weather <= StaleFor]
    BY <1>4 DEF GetAirportWeather
  <2>2. refresh'.on
    BY <2>1
  <2>3. Called'
    BY <2>1, <2>2, PlainStates, OneCaller DEF LookupIInv
  <2>4. CASE refresh.on
    BY <1>1, <1>2, <2>1, <2>3, <2>4 DEF LookupIInv, Refreshed
  <2>5. CASE ~refresh.on
    <3> DEFINE useful == weather <= StaleFor
    <3>1. useful \in BOOLEAN
      OBVIOUS
    <3>2. refresh' = [on |-> TRUE, took |-> 0, stale |-> useful]
      BY <2>1, <2>5
    <3>3. useful => weather' <= StaleFor + 0
      BY <1>1, LookupNumbers DEF LookupIInv, Refreshed, Old
    <3> HIDE DEF useful
    <3>4. refresh' \in Underway
      BY <3>1, <3>2, LookupNumbers DEF Underway
    <3>5. refresh'.stale = useful /\ refresh'.took = 0
      BY <3>2
    <3>6. Refreshed'
      BY <1>1, <3>3, <3>4, <3>5 DEF LookupIInv, Refreshed
    <3> QED BY <1>2, <2>3, <3>6 DEF LookupIInv
  <2> QED BY <2>4, <2>5
<1> QED BY <1>3, <1>4

LEMMA ServedStep ==
  ASSUME Called, NEW s \in CallState, s.at # "waits", Served(s)
  PROVE  Called'
BY DEF Called, Served

LEMMA WeatherSteps ==
  ASSUME LookupIInv, WeatherArrives \/ WeatherFails
  PROVE  LookupIInv'
<1>1. /\ UNCHANGED <<failures, openLeft, outbound, airportBoard>>
      /\ refresh.on /\ refresh' = NoRefresh /\ weather' \in {0, weather}
  BY DEF WeatherArrives, WeatherFails
<1>2. Circuit' /\ Kept'
  BY <1>1 DEF LookupIInv, Circuit, Kept
<1>3. Refreshed'
  BY <1>1, LookupNumbers DEF LookupIInv, Refreshed, NoRefresh, Old
<1>4. 0 \in 0..(StaleFor + AnswerWithin)
  BY LookupNumbers
<1>5. ASSUME WeatherArrives PROVE Called'
  BY <1>4, <1>5, WeatherState, ServedStep DEF LookupIInv, WeatherArrives
<1>6. ASSUME WeatherFails PROVE Called'
  <2>1. CASE refresh.stale
    <3>1. refresh \in Underway
      BY <1>1 DEF LookupIInv, Refreshed, NoRefresh
    <3>2. refresh.took \in 0..AnswerWithin
      BY <3>1 DEF Underway
    <3>3. weather \in 0..(StaleFor + AnswerWithin)
      BY <1>1, <2>1, <3>2, LookupNumbers DEF LookupIInv, Refreshed, Old
    <3>4. Served(Weather(weather))
      BY <1>6, <2>1 DEF WeatherFails
    <3> QED BY <3>3, <3>4, WeatherState, ServedStep DEF LookupIInv
  <2>2. CASE ~refresh.stale
    BY <1>6, <2>2, PlainStates, ServedStep DEF LookupIInv, WeatherFails
  <2> QED BY <2>1, <2>2
<1> QED BY <1>2, <1>3, <1>5, <1>6 DEF LookupIInv

LEMMA LookupTickStep == ASSUME LookupIInv, LookupTick PROVE LookupIInv'
<1>1. Circuit'
  BY LookupNumbers DEF LookupIInv, Circuit, LookupTick, Less
<1>2. Kept'
  <2>1. CASE outbound.left <= 1
    BY <2>1, LookupNumbers DEF Kept, LookupTick, NotCached
  <2>2. CASE ~(outbound.left <= 1)
    <3>1. outbound' = [outbound EXCEPT !.left = outbound.left - 1]
      BY <2>2 DEF LookupTick
    <3>2. outbound.left \in 0..CacheFor /\ outbound.left > 0
      BY <2>2, LookupNumbers DEF LookupIInv, Kept
    <3>3. outbound.left - 1 \in 0..CacheFor
      BY <3>2, LookupNumbers
    <3> QED BY <3>1, <3>2, <3>3 DEF LookupIInv, Kept
  <2> QED BY <2>1, <2>2
<1>3. Refreshed' /\ (refresh.on => refresh'.on)
  <2>1. weather \in 0..Old /\ weather' = IF weather = Old THEN Old ELSE weather + 1
    BY DEF LookupIInv, Refreshed, LookupTick
  <2>2. weather' \in 0..Old
    BY <2>1, LookupNumbers DEF Old
  <2>3. CASE refresh.on
    <3>1. refresh \in Underway
      BY <2>3 DEF LookupIInv, Refreshed, NoRefresh
    <3>2. refresh.took \in 0..AnswerWithin /\ refresh.took < AnswerWithin
      BY <2>3, <3>1 DEF Underway, LookupTick
    <3>3. refresh' = [refresh EXCEPT !.took = refresh.took + 1]
      BY <2>3 DEF LookupTick
    <3>4. refresh.took + 1 \in 0..AnswerWithin
      BY <3>2, LookupNumbers
    <3>5. /\ refresh' \in Underway /\ refresh'.took = refresh.took + 1
          /\ refresh'.stale = refresh.stale /\ refresh'.on
      BY <3>1, <3>3, <3>4 DEF Underway
    <3>6. refresh.stale => weather <= StaleFor + refresh.took
      BY <2>3 DEF LookupIInv, Refreshed
    <3>7. refresh.stale => weather' <= StaleFor + (refresh.took + 1)
      BY <2>1, <3>2, <3>6, LookupNumbers DEF Old
    <3> QED BY <2>2, <3>5, <3>7 DEF Refreshed
  <2>4. CASE ~refresh.on
    BY <2>2, <2>4 DEF LookupIInv, Refreshed, LookupTick
  <2> QED BY <2>3, <2>4
<1>4. Called'
  BY <1>3 DEF LookupIInv, Called, LookupTick
<1> QED BY <1>1, <1>2, <1>3, <1>4 DEF LookupIInv

LEMMA LookupInductive ==
  /\ LookupInit => LookupIInv
  /\ LookupIInv /\ [LookupNext]_lookupVars => LookupIInv'
  /\ LookupIInv => LookupInv
<1>1. LookupInit => LookupIInv
  <2> SUFFICES ASSUME LookupInit PROVE LookupIInv
    OBVIOUS
  <2>1. Circuit
    BY LookupNumbers DEF LookupInit, Circuit
  <2>2. Kept
    BY LookupNumbers DEF LookupInit, Kept, NotCached
  <2>3. Refreshed
    BY LookupNumbers DEF LookupInit, Refreshed, NoRefresh, Old
  <2>4. Called
    BY PlainStates DEF LookupInit, Called
  <2> QED BY <2>1, <2>2, <2>3, <2>4 DEF LookupIInv
<1>2. LookupIInv /\ [LookupNext]_lookupVars => LookupIInv'
  <2> SUFFICES ASSUME LookupIInv, [LookupNext]_lookupVars PROVE LookupIInv'
    OBVIOUS
  <2>1. CASE UNCHANGED lookupVars
    <3>1. UNCHANGED <<failures, openLeft, outbound, airportBoard, caller, weather, refresh>>
      BY <2>1 DEF lookupVars
    <3> QED BY <3>1 DEF LookupIInv, Circuit, Kept, Refreshed, Called
  <2> QED BY <2>1, AskSteps, AeroSteps, AskWeatherStep, WeatherSteps, LookupTickStep
          DEF LookupNext
<1>3. LookupIInv => LookupInv
  <2> SUFFICES ASSUME LookupIInv PROVE LookupInv
    OBVIOUS
  <2>1. \A c \in Callers: caller[c].at = "weather" => caller[c].age <= StaleFor + AnswerWithin
    <3> SUFFICES ASSUME NEW c \in Callers, caller[c].at = "weather"
                 PROVE  caller[c].age <= StaleFor + AnswerWithin
      OBVIOUS
    <3>1. caller[c] \in Seen
      BY DEF LookupIInv, Called, CallState, Plain, Asks, Got, Resting
    <3> QED BY <3>1, LookupNumbers DEF Seen, Weather
  <2>2. Seen \subseteq {Weather(age): age \in 0..Old}
    BY LookupNumbers DEF Seen, Old
  <2>3. LookupTypeOK
    BY <2>2 DEF LookupIInv, Circuit, Kept, Refreshed, Called, Underway, CallState, Plain, Asks, Got,
                LookupTypeOK
  <2>4. (\E c \in Callers: caller[c].at = "waits") => refresh.on
    BY DEF LookupIInv, Called
  <2> QED BY <2>1, <2>3, <2>4 DEF LookupInv, WeatherServed
<1> QED BY <1>1, <1>2, <1>3

(* For any number of requests and any limits: a request waits for weather only *)
(* while a refresh is under way, and none is served weather older than the     *)
(* stale limit and the provider's timeout together, however lookups, failures  *)
(* and a slow refresh interleave.                                              *)
THEOREM LookupInvariant == LookupSpec => []LookupInv
<1>1. LookupInit /\ [][LookupNext]_lookupVars => []LookupIInv
  BY LookupInductive, PTL
<1> QED BY <1>1, LookupInductive, PTL DEF LookupSpec

(* Both parts of the composed system the run checks.                           *)
LEMMA TrafficInductive ==
  /\ TrafficInit => TrackIInv /\ LookupIInv
  /\ TrackIInv /\ LookupIInv /\ [TrafficNext]_trafficVars => TrackIInv' /\ LookupIInv'
<1>1. TrafficInit => TrackInit /\ LookupInit
  BY DEF TrafficInit
<1>2. [TrafficNext]_trafficVars => [TrackNext]_trackVars /\ [LookupNext]_lookupVars
  BY DEF TrafficNext, InTrack, InLookups, InLimits, trafficVars
<1> QED BY <1>1, <1>2, TrackInductive, LookupInductive

(* What the run traffic checks on small instances.                             *)
THEOREM TrafficInvariant == TrafficSpec => []TrafficInv
<1>1. TrafficInit /\ [][TrafficNext]_trafficVars => [](TrackIInv /\ LookupIInv)
  BY TrafficInductive, PTL
<1>2. TrackIInv /\ LookupIInv => TrafficInv
  BY TrackInductive, LookupInductive DEF TrafficInv
<1> QED BY <1>1, <1>2, PTL DEF TrafficSpec
=============================================================================
