------------------------------ MODULE Lookups ------------------------------
(***************************************************************************)
(* Third-party lookups of the server: flights from FlightAware's AeroAPI   *)
(* behind a circuit breaker (services/flightAware.ts) and the gate cache   *)
(* of fidsService.ts; weather with a shared refresh                        *)
(* (services/weather/weatherService.ts). One flight and one airport.       *)
(*                                                                         *)
(* Time passes in ticks; what matters of an instant is how many ticks are  *)
(* left until it counts no more.                                           *)
(***************************************************************************)
EXTENDS Naturals

CONSTANTS
  Callers,          \* requests that look something up; reused when answered
  Hints,            \* gates a caller may bring along
  LiveGates,        \* gates FlightAware may name
  NoGate,           \* it names none, or the caller brings none
  DefaultGate,      \* defaultGate of the airport
  Threshold, OpenFor,   \* CIRCUIT_FAILURE_THRESHOLD, CIRCUIT_OPEN_MS
  CacheFor,             \* CACHE_TTL_MS of both flight caches
  WeatherFor, StaleFor, \* cacheTtlMs, staleCacheMs
  AnswerWithin          \* the provider's timeout

ASSUME LookupsAssumption ==
  /\ Threshold \in Nat \ {0} /\ OpenFor \in Nat \ {0} /\ CacheFor \in Nat \ {0}
  /\ WeatherFor \in Nat /\ StaleFor \in Nat /\ WeatherFor <= StaleFor
  /\ AnswerWithin \in Nat
  /\ NoGate \notin Hints \cup LiveGates /\ DefaultGate # NoGate

VARIABLES
  failures,         \* consecutiveFailures, up to one past the threshold
  openLeft,         \* ticks until CIRCUIT_OPEN_MS after circuitOpenedAt
  outbound,         \* the cached outbound flight: its gate, and ticks left
  airportBoard,            \* ticks the cached airport board is still good for
  caller,           \* what each request waits for, or the gate it got
  weather,          \* age of the cached weather; Old once it is of no use
  refresh           \* the weather refresh under way

lookupVars == <<failures, openLeft, outbound, airportBoard, caller, weather, refresh>>

Gate == Hints \cup LiveGates \cup {DefaultGate}
Hint == Hints \cup {NoGate}
Old == StaleFor + AnswerWithin + 1

NotCached == [gate |-> NoGate, left |-> 0]
Resting == [at |-> "rest"]
Resolved(hint, g) == [at |-> "resolved", hint |-> hint, gate |-> g]
Weather(age) == [at |-> "weather", age |-> age]
NoRefresh == [on |-> FALSE]

LookupTypeOK ==
  /\ failures \in 0..(Threshold + 1)
  /\ openLeft \in 0..OpenFor
  /\ outbound \in [gate : Gate \cup {NoGate}, left : 0..CacheFor]
  /\ airportBoard \in 0..CacheFor
  /\ caller \in [Callers ->
       {Resting, [at |-> "board"], [at |-> "waits"]}
       \cup [at : {"outbound", "direct"}, hint : Hint, idents : 1..2]
       \cup [at : {"resolved"}, hint : Hint, gate : Gate]
       \cup {Weather(age) : age \in 0..Old}]
  /\ weather \in 0..Old
  /\ refresh \in {NoRefresh} \cup [on : {TRUE}, took : 0..AnswerWithin, stale : BOOLEAN]

LookupInit ==
  /\ failures = 0 /\ openLeft = 0
  /\ outbound = NotCached /\ airportBoard = 0
  /\ caller = [c \in Callers |-> Resting]
  /\ weather = Old /\ refresh = NoRefresh

-----------------------------------------------------------------------------
CircuitIsOpen == failures >= Threshold /\ openLeft > 0

RecordSuccess == failures' = 0 /\ UNCHANGED openLeft

(* From the threshold on every failure opens the circuit anew.             *)
RecordFailure ==
  /\ failures' = IF failures > Threshold THEN failures ELSE failures + 1
  /\ openLeft' = IF failures + 1 >= Threshold THEN OpenFor ELSE openLeft

(* fallbackResolve                                                         *)
FallbackGate(hint) == IF hint = NoGate THEN DefaultGate ELSE hint

AtRest(c) == caller[c].at \in {"rest", "resolved", "weather"}
Becomes(c, state) == caller' = [caller EXCEPT ![c] = state]

(* Seeded fault: a call turned away by the open circuit is a failure, too  *)
ResolveOutboundCounting(c, hint) ==
  /\ AtRest(c)
  /\ Becomes(c, IF outbound.left > 0 THEN Resolved(hint, outbound.gate)
                ELSE IF CircuitIsOpen THEN Resolved(hint, FallbackGate(hint))
                ELSE [at |-> "outbound", hint |-> hint, idents |-> 2])
  /\ IF outbound.left = 0 /\ CircuitIsOpen THEN RecordFailure
                                            ELSE UNCHANGED <<failures, openLeft>>
  /\ UNCHANGED <<outbound, airportBoard, weather, refresh>>

(* resolveOutbound: from the cache, else, unless the circuit is open, from *)
(* AeroAPI.                                                                *)
ResolveOutbound(c, hint) ==
  /\ AtRest(c)
  /\ Becomes(c, IF outbound.left > 0 THEN Resolved(hint, outbound.gate)
                ELSE IF CircuitIsOpen THEN Resolved(hint, FallbackGate(hint))
                ELSE [at |-> "outbound", hint |-> hint, idents |-> 2])
  /\ UNCHANGED <<failures, openLeft, outbound, airportBoard, weather, refresh>>

(* /flight/closest, /transfer and the journey estimates ask AeroAPI        *)
(* without the cache.                                                      *)
FetchFlightAware(c) ==
  /\ AtRest(c) /\ ~CircuitIsOpen
  /\ Becomes(c, [at |-> "direct", hint |-> NoGate, idents |-> 2])
  /\ UNCHANGED <<failures, openLeft, outbound, airportBoard, weather, refresh>>

Asking(c) == caller[c].at \in {"outbound", "direct"}
GivesUp(c) ==
  Becomes(c, IF caller[c].at = "direct" THEN Resting
             ELSE Resolved(caller[c].hint, FallbackGate(caller[c].hint)))

(* A flight is found; its gate, if any, gives way to the caller's.         *)
FlightFound(c, live) ==
  /\ Asking(c)
  /\ RecordSuccess
  /\ IF caller[c].at = "direct"
     THEN Becomes(c, Resting) /\ UNCHANGED outbound
     ELSE LET hint == caller[c].hint
              g == IF hint # NoGate THEN hint ELSE IF live # NoGate THEN live ELSE DefaultGate
          IN Becomes(c, Resolved(hint, g)) /\ outbound' = [gate |-> g, left |-> CacheFor]
  /\ UNCHANGED <<airportBoard, weather, refresh>>

(* Nothing under the ICAO ident: the IATA ident is tried; nothing under    *)
(* that: a success without a flight.                                       *)
NextIdent(c) ==
  /\ Asking(c) /\ caller[c].idents = 2
  /\ caller' = [caller EXCEPT ![c].idents = 1]
  /\ UNCHANGED <<failures, openLeft, outbound, airportBoard, weather, refresh>>

NoFlight(c) ==
  /\ Asking(c) /\ caller[c].idents = 1
  /\ RecordSuccess /\ GivesUp(c)
  /\ UNCHANGED <<outbound, airportBoard, weather, refresh>>

(* An error, a timeout or a status that is not 2xx.                        *)
FlightFails(c) ==
  /\ Asking(c)
  /\ RecordFailure /\ GivesUp(c)
  /\ UNCHANGED <<outbound, airportBoard, weather, refresh>>

(* A body that is not JSON counts neither way.                             *)
FlightGarbled(c) ==
  /\ Asking(c)
  /\ GivesUp(c)
  /\ UNCHANGED <<failures, openLeft, outbound, airportBoard, weather, refresh>>

(* fetchFidsBoard                                                          *)
FetchBoard(c) ==
  /\ AtRest(c) /\ airportBoard = 0 /\ ~CircuitIsOpen
  /\ Becomes(c, [at |-> "board"])
  /\ UNCHANGED <<failures, openLeft, outbound, airportBoard, weather, refresh>>

BoardAnswers(c) ==
  /\ caller[c].at = "board"
  /\ Becomes(c, Resting)
  /\ \/ RecordSuccess /\ airportBoard' = CacheFor
     \/ RecordFailure /\ UNCHANGED airportBoard
     \/ UNCHANGED <<failures, openLeft, airportBoard>>
  /\ UNCHANGED <<outbound, weather, refresh>>

-----------------------------------------------------------------------------
(* getAirportWeather: the cache while it is fresh, the refresh under way,  *)
(* or a new one, which remembers whether what is cached may still serve.   *)
GetAirportWeather(c) ==
  /\ AtRest(c)
  /\ IF weather <= WeatherFor
     THEN Becomes(c, Weather(weather)) /\ UNCHANGED refresh
     ELSE /\ Becomes(c, [at |-> "waits"])
          /\ refresh' = IF refresh.on THEN refresh
                        ELSE [on |-> TRUE, took |-> 0, stale |-> weather <= StaleFor]
  /\ UNCHANGED <<failures, openLeft, outbound, airportBoard, weather>>

Served(answer) ==
  caller' = [c \in Callers |-> IF caller[c].at = "waits" THEN answer ELSE caller[c]]

WeatherArrives ==
  /\ refresh.on
  /\ weather' = 0
  /\ Served(Weather(0))
  /\ refresh' = NoRefresh
  /\ UNCHANGED <<failures, openLeft, outbound, airportBoard>>

(* What was cached when the refresh began, or none.                        *)
WeatherFails ==
  /\ refresh.on
  /\ Served(IF refresh.stale THEN Weather(weather) ELSE Resting)
  /\ refresh' = NoRefresh
  /\ UNCHANGED <<failures, openLeft, outbound, airportBoard, weather>>

Less(n) == IF n = 0 THEN 0 ELSE n - 1

(* Every provider call ends within its timeout.                            *)
LookupTick ==
  /\ refresh.on => refresh.took < AnswerWithin
  /\ refresh' = IF refresh.on THEN [refresh EXCEPT !.took = @ + 1] ELSE refresh
  /\ openLeft' = Less(openLeft)
  /\ outbound' = IF outbound.left <= 1 THEN NotCached ELSE [outbound EXCEPT !.left = @ - 1]
  /\ airportBoard' = Less(airportBoard)
  /\ weather' = IF weather = Old THEN Old ELSE weather + 1
  /\ UNCHANGED <<failures, caller>>

AeroAnswers(c) ==
  \/ \E live \in LiveGates \cup {NoGate} : FlightFound(c, live)
  \/ NextIdent(c) \/ NoFlight(c) \/ FlightFails(c) \/ FlightGarbled(c) \/ BoardAnswers(c)

LookupNext ==
  \/ \E c \in Callers :
       \/ \E hint \in Hint : ResolveOutbound(c, hint)
       \/ FetchFlightAware(c) \/ FetchBoard(c) \/ GetAirportWeather(c)
       \/ AeroAnswers(c)
  \/ WeatherArrives \/ WeatherFails \/ LookupTick

LookupFairness ==
  /\ WF_lookupVars(LookupTick) /\ WF_lookupVars(WeatherArrives \/ WeatherFails)
  /\ \A c \in Callers : WF_lookupVars(AeroAnswers(c))

LookupSpec == LookupInit /\ [][LookupNext]_lookupVars /\ LookupFairness

-----------------------------------------------------------------------------
(* No one is shown weather older than the stale limit and the time the     *)
(* provider may take to fail; a request waits for weather only while a     *)
(* refresh is under way.                                                   *)
WeatherServed ==
  /\ \A c \in Callers : caller[c].at = "weather" => caller[c].age <= StaleFor + AnswerWithin
  /\ (\E c \in Callers : caller[c].at = "waits") => refresh.on

LookupInv == LookupTypeOK /\ WeatherServed

(* The circuit never stays open: turned-away calls do not prolong it, and  *)
(* the late failures of calls that were under way when it opened only      *)
(* finitely often.                                                         *)
CircuitCloses == CircuitIsOpen ~> ~CircuitIsOpen

(* fidsService.ts:74: "Caller-provided gate wins; then live; then static   *)
(* fallback."                                                              *)
GateHintWins ==
  \A c \in Callers : caller[c].at = "resolved" /\ caller[c].hint # NoGate =>
    caller[c].gate = caller[c].hint
=============================================================================
