----------------------------- MODULE MCTraffic ------------------------------
(* The live track, lookups of flights and weather, and the request limiter,    *)
(* for TLC. They share no state: a behaviour follows one of them and leaves    *)
(* the others as they start.                                                   *)
EXTENDS Track, Lookups, RateLimit

VARIABLE focus

trafficVars == <<focus, trackVars, lookupVars, limitVars>>

(* The choices of a start matter only while its part is followed.              *)
TrafficInit ==
  /\ focus \in {"track", "lookups", "limits"}
  /\ TrackInit /\ (focus = "track" \/ up)
  /\ LookupInit
  /\ LimitInit /\ (focus = "limits" \/ (shared /\ faults /\ failClosed))

InTrack(A) == focus = "track" /\ A /\ UNCHANGED <<focus, lookupVars, limitVars>>
InLookups(A) == focus = "lookups" /\ A /\ UNCHANGED <<focus, trackVars, limitVars>>
InLimits(A) == focus = "limits" /\ A /\ UNCHANGED <<focus, trackVars, lookupVars>>

TrafficNext ==
  InTrack(TrackNext) \/ InLookups(LookupNext) \/ InLimits(LimitNext)

(* The fairness each part states, of its steps while it is followed.           *)
TrafficFairness ==
  /\ WF_trafficVars(InTrack(AdminHello)) /\ SF_trafficVars(InTrack(Snapshot))
  /\ SF_trafficVars(InTrack(MapReads)) /\ WF_trafficVars(InTrack(StoreFrame))
  /\ WF_trafficVars(InTrack(ClearStored)) /\ WF_trafficVars(InTrack(LinkNoticed))
  /\ \A q \in Posts: /\ SF_trafficVars(InTrack(Flush(q)))
                     /\ WF_trafficVars(InTrack(FlushAnswered(q)))
                     /\ SF_trafficVars(InTrack(StorePost(q)))
  /\ WF_trafficVars(InLookups(LookupTick))
  /\ WF_trafficVars(InLookups(WeatherArrives \/ WeatherFails))
  /\ \A c \in Callers: WF_trafficVars(InLookups(AeroAnswers(c)))
  /\ WF_trafficVars(InLimits(LimitTick))
  /\ \A r \in Requests: WF_trafficVars(InLimits(PExpire(r)))

TrafficSpec == TrafficInit /\ [][TrafficNext]_trafficVars /\ TrafficFairness

-----------------------------------------------------------------------------
(* The track and the weather: TrackInv, that a walk which has ended leaves the *)
(* map for good (usePdrTelemetryRelay), and WeatherServed of LookupInv, that   *)
(* nobody is shown weather that is too old (openMeteo).                        *)
TrafficInv == TrackInv /\ LookupInv
=============================================================================
