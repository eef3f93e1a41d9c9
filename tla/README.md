# Orienta: a TLA+ model of the passenger hub and its pages

Orienta connects airport passengers (a web page opened from an invite link, a
boarding pass or a QR code) with a back office (the console). One Node process
serves HTTP routes and WebSocket connections from one event loop, keeps its live
state in memory (`HubStore`), and stores passengers, invite links, chats and
journeys in SQLite or PostgreSQL. Redis is optional; with it, several instances
share presence, session cutovers and rate limits. This directory holds a model
of that program in TLA+, the TLC configurations that check it, and proofs of its
main results.

Paths below are relative to `apps/dashboard/`.

## 1. The system

| Part | State it keeps | Operations | Interacts with |
|---|---|---|---|
| Passenger connections, `server/hub/wsHub.ts` | per connection: role, tenant, passenger, rate window | upgrade, hello, frames, close | presence, HubStore, registry |
| Presence, `server/hub/presence.ts` | grace timers, `online` | set, schedule, cancel, HTTP claim | HubStore, admin broadcasts |
| HubStore, `server/hub/HubStore.ts` | `paxSockets`, `adminSockets`, `online`, `messages`, chat cache, trajectories, robot requests | broadcast, list, record, purge, prune | everything on the hub |
| Bus and Redis, `HubBus.ts`, `server/redis/*` | one presence entry per passenger, stamped every heartbeat | stamp, remove, publish | HubStore of every instance |
| Passenger registry, `server/passengers/PassengerRegistry.ts` | table `passengers` | getOrCreate, applyTrip, update, markOnline/Offline, delete, prune | hello, sign-ins, routes, jobs |
| Invite links, `PaxInviteStore.ts`, `routes/paxInvites.ts` | table `pax_invites` | issue, redeem, revoke, erase, reset, text, mail | registry, sessions, the invite panel |
| Sessions, `auth/paxSessionRevocation.ts`, `paxSessionMint.ts` | signed tokens, a cutover per passenger | mint, verify, revoke | hello, every passenger route |
| Push messages, `wsHub.ts` (send, ack) | `store.messages` | send, offer, ack, purge | connections, consoles |
| Away reminder, `routes/push.ts`, `usePaxPush.ts` | subscriptions, a timer and its token | subscribe, away, back, send | the push service |
| Admin feed, `wsHub.ts`, `routes/push.ts`, `useDashboard.ts` | console connections; `presence` of the page | hello, snapshot, broadcast, poll | presence, Redis |
| Roster and map, `useDashboard.ts`, `features/map/*` | the list, deletions under way; the map or its frame | poll, erase, select, post to the frame | registry, admin feed |
| Chat, `hub/chat.ts`, `ChatRepository.ts`, `usePaxRealtimeSession.ts` | cache over rows; the page's list and its optimistic copies | append, ensure, prune; send, merge, poll | connections |
| Voice notes, `hub/voiceNotes.ts`, `VoiceNoteRecorder.tsx` | two files and a converted copy; the recorder | record, upload, convert, play | chat |
| Calls, `hub/callRelay.ts`, `features/media/usePeerCall.ts` | phase, call id, peer connection of each page | ring, accept, reject, hang up, signal | connections |
| Live track, `hub/trajectory.ts`, `usePdrTelemetryRelay.ts` | the last position; what waits at the relay | relay, store, clear, snapshot | consoles |
| Robot requests, `routes/push.ts`, card and board | one booking per passenger | submit, advance, cancel, forget | consoles, page |
| Dead reckoning, `public/orienta-pdr-client.js` | session, socket, sensors, retry timer | start, stop, hide, reconnect | an external service |
| Realtime client, `src/services/realtime.ts` | socket, retry timer, attempt | connect, back off, close | every page |
| Passenger's pages, `src/features/pax/*` | stored session, trip, leg, hints and plan | sign in, pick a leg, confirm, log out | sessions, flight lookups |
| Journey, `server/journey/*`, `routes/journey.ts` | journeys, events, shares | share, revoke, advance, reset | database transactions |
| Time engine, `passengerTimeEngine/*` | none (pure) | time to gate, time to exit | journey routes |
| Lookups, `flightAware.ts`, `fidsService.ts`, `weather/*` | a circuit, caches with ages | fetch, fall back, refresh | AeroAPI, boards, Open-Meteo |
| Rate limits, `middleware/rateLimit.ts` | a bucket per client, in memory or in Redis | count, expire, sweep | every route |

What makes the code hard is that a handler is atomic only between two `await`s.
The hello of a passenger has up to five of them; the close handler, the timers
and the HTTP routes run in between. Redeeming a link is a dozen database
statements and a flight lookup of seconds, and any back-office request may fall
between two of them. Every view (console, card, chat, map, page) is fed by
frames *and* by answers to HTTP requests, which overtake one another; frames are
lost with their connection. A restart keeps the database and nothing else.

What makes each part correct:

- *Presence*: connected implies shown online; nobody is shown offline before a
  full grace period without connections; whoever left is shown offline; the
  instances agree in the end, whatever Redis lost.
- *Connections*: a tab is in the set that is written to exactly while it is
  open; a page that holds a session reconnects, with one socket at a time.
- *Messages, chat, notes*: every open tab has each unacknowledged message (of
  the newest ten); nothing is displayed twice or unsent; a note whose sender was
  told that it went is stored whole.
- *Views*: snapshot plus broadcasts equal the hub's state; the display converges
  whatever is lost or late; a view of a booking shows it as some write left it,
  and an active booking is never replaced; a walk that ended leaves the map for
  good.
- *Invites and sessions*: one device per binding; a revocation is final; a
  token once refused stays refused; a sign-in shows in the registry.
- *Calls*: nobody is connected who has not accepted, or in two calls.
- *Journey*: one open share, progress forward only; who leaves at the start of
  the recommended window boards.

PROJECT.json lists the hazards behind these, each at its line, with the property
that would catch it.

## 2. Modules

```
PresencePromise <- implemented by - PaxPresence <- extended by - PushDelivery
      ^ extended by                 ChatPromise <- implemented by - ChatHistory
  AdminFeed                              ^ extended by
                                      ChatPage
PaxInvite Itinerary PaxPages NavHints | InviteDesk Composer VoiceNotes
Sessions Journey Estimates AwayPush PeerCall | Booking Pdr Reconnect
Console MapBoard | Track Lookups RateLimit | Cluster
```

The two promises are the abstract specifications. A module that reads another
part's state extends that part's promise (AdminFeed, ChatPage), never its
details. The `MC` modules (MCServer, MCPushDelivery, MCConsole, MCLinks, MCChat,
MCSafety, MCPassengerPage, MCTraffic) put parts that share no state side by side
so that one run checks them: `focus` is chosen at the start, a behaviour follows
that part by its own next-state relation and leaves the others as they start.
Because `focus` never changes, a fairness condition on the disjunction of one
step of each part says the same as the parts' own conditions.
`xProofs` modules hold the theorems (section 5).

### On the server

**PresencePromise**: three sets of passengers: connected, online, in the grace
period. `Expire` is the only step that shows somebody offline after a
connection, and the specification asks it to happen for every countdown that
goes on.

**PaxPresence**: the passenger half of the hub. An action is the code between two
awaits. `hello[s]` is the await at which the handler of connection `s` is
suspended: `verify` (the token), `insert` and `select` (`getOrCreate`), `mark`
(`markOnline`), `join` (about to register). `sock[s]` is the readyState the
server sees; `closing` lies between `ws.close()` and the close event, and frames
still arrive in it. `ident[s]` is the closure's `passengerId`, set before the
registry calls. `paxSockets`, `timers`, `online` are the fields of HubStore,
`row[p]` the row with its `is_online`, `marks` the `markOffline` calls a close
handler did not wait for, `vouched` a history variable: the online state came
from HTTP last.

| Action | Code |
|---|---|
| `Connect`, `ServerClose` | connection; hello timeout, rate limit and every other `ws.close` of the server |
| `Hello`, `HelloRefused`, `HelloVerified` | hello frame; `resolvePaxWsHello` |
| `InsertRow`, `SelectRow`, `MarkOnline` | the two statements of `getOrCreate`; `markOnline` |
| `HelloFailed` | `safeAsyncHandler` after a registry call threw |
| `Join` | from `paxSockets` to the pending messages, one piece |
| `Close`, `MarkOffline` | close handler and the statement it sends |
| `TimerFires`, `HttpOnline`, `HttpOffline` | `presence.ts` |
| `DeleteRow`, `Crash` | deletion of a row by a route or the hourly job; restart |

**Cluster**: the same passenger on several instances: the online set of each, the
shared entry in Redis with its age, the orders under way to Redis and the frames
on the bus. A hello or a close is one step here, an instance has one connection
or none, one console sits at `Desk`. Time is counted in heartbeats; a command is
done, or has failed, by the next one (`commandTimeout`). Clock skew is left out.

**PushDelivery** adds `store.messages`: a message is its number in order of
creation, `offered[s]` what was written to connection `s`. `AdminSend` is the
`send` frame, `JoinAndOffer` the whole tail of the hello, `Ack` the `ack` frame,
`Purge` what `purgePassenger` does to the messages. `Pending` keeps the newest
`Window` unacknowledged messages, 10 in the code.

**AdminFeed** takes presence from PresencePromise and adds a console: its
connection, the frames under way, its polls, the display. `redis` is chosen
once: with it, listing who is online awaits, and `AdminJoin` (join the set, read
the local list) and `AdminListed` (send it) are two steps; without it they are
one. `told` is a history variable, the sum of the frames written so far. Redis
is an await with the local list as its result; its own entries are in Cluster.

**ChatPromise / ChatHistory**: a chat is a set of messages numbered in order of
sending, at most `Cap` of them. ChatHistory is the cache over the rows: each
statement is executed some time after it was issued and answered some time after
that, as with a pool of connections; with SQLite the moments coincide.
`AppendChat`, `EnsureChatHistory` with `LoadRead`/`LoadReturns`/`LoadFails`,
`PurgePassenger`, `PruneOlderThan`, `PruneIdleCaches`, `RestartHub`.

**PaxInvite**: the links of one passenger. A redeem request is at one of its
statements: `read`, `claim`, `reread`, `count` (inside `PaxInviteStore.redeem`),
then the flight `lookup`, `create` and `select` of `getOrCreate`, `mint`. A
back-office request likewise: issue (row, link), revoke (link, cutover), erase
(cutover, link, count, row), delete (row, links, cutover), and any may stop
after any statement. `epoch` counts the device resets of a link, `granted` the
sessions minted under which binding, `valid` those not cut. A session is a
*straggler* when its link was closed under the redeem that minted it. The secret
is right (a wrong one ends the request at `Read` without effect).

**Itinerary**: the trip in the registry's row (flight and gate), written statement
by statement by sign-ins, redeems, hellos, console edits, deletions and the stale
prune. A request is `crossed` when another wrote the row after it read it; a
redeem's `gateId || passenger.gateId` is the row's own gate when it was not
crossed.

**Sessions**: tokens with `iat` in whole seconds over a millisecond clock, the
cutover in memory and in Redis, each command of which may fail anew, sweeps,
restarts, log-out, refresh and the plan in a token; `LastTick > 0`.

**Journey**: shares and events of one flight, shared by its passengers. With
SQLite nothing runs between the statements of a handler (`sqlDb.ts:92-101`);
with PostgreSQL (`pg`) transactions interleave under READ COMMITTED.

**Estimates**: the time engine as operators, over the inputs the bridge can
produce (aircraft class unknown, no seat number or walking class); times are
whole minutes, status words follow actual times, preferences do not change in
the arrival leg. `context` is the input record, `leg` the leg; actions move time,
mark progress, and make the flight land, reach its gate or slip. The engine
plans the gate 15 minutes ahead (`departureTimeEngine:218`) while the route
reports a buffer of 20 (`journey.ts:195`).

**AwayPush, Track, Lookups, RateLimit, VoiceNotes, Booking** follow their routes
request by request: requests under way are sets or queues that may be served in
any order or lost, timers carry the token or age they were started with, and
history variables say what was told. Lookups and RateLimit count time in ticks
until an instant no longer matters. VoiceNotes leaves access checks out (they
are asked at every request) and bounds the encoders. Booking keeps a `log` of
all writes as a history variable: `at` (`updatedAt`) is a write's place in it,
`id` the place of the booking's first. An operator's request names the next
status, a cancellation or any status, an earlier one too
(`routes/push.ts:444-448`); the console sends the first two, `OtherActs` is
everyone else. `cleared` says that the page's `liveRobotRequest` is null.

### In the browser

**ChatPage** over ChatPromise: the page's socket, its chat poll, the optimistic
copies it shows at once and the merge of `chatMerge.ts` that replaces them. The
display is a set of messages and copies; a copy and its message are less than two
minutes apart. A socket is `open` while its token is checked: the connection has
a role and no tenant, and what is written is dropped (`FrameIgnored`,
`wsHub.ts:340`). It is `known` while the registry is awaited: what is written is
stored and not echoed (247-282). It is `joined` from 285. Histories reach the
page cut: to the newest `HelloTail` (20) by a hello, `PollTail` (50) by a poll,
and the page keeps `PageCap` (50) of `Cap` (100). It sorts by `createdAt`, from
the hub's clock for messages and its own for copies, so which of the two a cut
takes is open (`MergeHistory`, `WithRoom`).

**PeerCall**: pages and the relay. What asks for media or touches the
`RTCPeerConnection` runs in the page's chain of operations, one at a time
(`Enqueue`, `Dequeue`, `Runs`); frames of a call's beginning and end are handled
at once, in the middle of an operation too. An operation is one step except for
its wait for camera and microphone. ICE candidates, tracks and the camera switch
go with the connection that is made or fails.

**Reconnect**: clients of the effect, their sockets and retry timers; names are
used again once nothing can call them back. **Pdr**: session, socket, sensors and
timer of the dead-reckoning client; the service is external.

**PaxPages, NavHints**: pages over browser storage, questions to the server that
outlive their page; hints from address, storage, session and live lookup, and
the plan that is confirmed on a map. One tab, trips with two legs.

**Console, MapBoard**: the roster with overlapping polls and one deletion at a
time; what is shown of a passenger is a function of the row and of the reports
at hand. Left out: the search box of the list, `sortPriority`, which the
registry sends as 99 for everyone (`PassengerRegistry:361-362`), the load error.
The map is a frame that is posted messages, or drawn on the page.

**InviteDesk, Composer**: the panel of links with its form, and the field and the
recorder of a conversation. Handlers of the routes are atomic but for the
deliveries of an issue; a server that fails is `ActionFails` at any step; the
public origin does not change while the panel is open.

## 3. What the runs check

| Run | Module, constants | Properties | Shows |
|---|---|---|---|
| `presence` | MCServer: 1 passenger, 2 connections; 2 instances, entries stale after 2 heartbeats, 1 order and 1 frame under way | `PresenceInv`, `PresencePromised`, `DepartureNoticed`, `ClusterConverges` | presence and registration stay consistent and implement the promise; the instances converge |
| `push_delivery` | MCPushDelivery: 2 connections, 3 messages, window 2; 2 links; 2 peers, panels, takes; 2 notes, 2 encoders | `PushInv`, `DeskInv`, `ComposerInv`, `VoiceInv`, `StatusMovesForward` | what the console sends |
| `admin_feed` | MCConsole: 1 passenger, 1 console, 2 polls, 3 frames; a list of 2, 2 fetches, 1 urgent place; a map of 2 travellers, 2 places, 2 airports | `FeedInv`, `BoardInv`, `ViewConverges`, `RosterConverges` | what the console shows |
| `invites` | MCLinks: 1 link, 2 devices, 2 redeems, 2 clerks, 1 reset; 2 accounts; 2 requests | `InviteInv`, `RevokeIsFinal`, `TripInv`, `PagesInv`, `NavInv` | how a passenger gets in and what the pages then show |
| `chat` | MCChat: 1 poll, 1 text, 3 messages, 2 sends (4 together), 2 frames; the page keeps 2, a hello brings 1 | `PageInv`, `HistoryReachesPage` | nothing shown twice; what is kept arrives while there is room |
| `safety` | MCSafety: 1 token, 8 instants, 1 restart; 2 pages, 3 shares; 2 loads, 3 messages, cap 2; 50 minutes by 10; 2 tabs; 1 console, 3 calls, 2 frames; 3 writes of bookings, no polls | `SessionInv`, `GuidanceInv`, `ChatInv`, `AwayInv`, `CallInv`, `Consent`, `NeverReplaced`, `RefusedStays`, `ChatPromised`, `LaterNeverLonger` | safety of seven parts |
| `passenger_page` | MCPassengerPage: 2 writes of bookings, 2 stages, 1 poll; 3 sockets, 2 starts, 2 sessions; 2 sessions, clients, sockets, 2 doublings | `BookingInv`, `PdrInv`, `ReconnectInv`, `QueueSettles`, `ResumesAtFirst`, `Reconnects` | the passenger's page keeps and regains its connections |
| `traffic` | MCTraffic: 1 post, 2 positions, 2 unread; 2 callers, threshold 2; 3 requests, 2 allowed | `TrafficInv`, `MapFollows`, `CircuitCloses`, `LimitLifts` | the map follows, what closes opens again |
| `presence_zombie`, `feed_snapshot`, `invite_deletion`, `pdr_resume` | one part each | `OnlyOpenConnections`, `SnapshotIsCurrent`, `DeletionSticks`, `Resumes` | **violated**, section 4 |

*Bounds.* Passengers do not interact on the hub (every key is
`tenantId::passengerId`), so one is enough; of two connections one may be in any
phase of its hello or its close beside the other, and a finished one is used
again without limit. Three messages with a window of two let the window drop
one. Two polls, fetches, loads or callers are an old and a new answer under way.
When a queue of frames is full the model waits, which removes orders of reading
and not states of the hub. Requests, sockets, encoders and clients are used again
without limit; `MaxMsg`, `MaxSent`, `MaxSends`, `MaxBoth`, `MaxShare`, `MaxWrites`, `MaxCall`,
`MaxSession`, `MaxReset`, `MaxAway`, `MaxAsks`, `MaxBoots`, `LastTick` and
`LastMinute` bound what is only created or counted. Three calls let a re-dial
meet the frames of the call before it. The instants of Estimates are ten
minutes apart: the windows of the engine are tens of minutes wide. Links,
connections, devices, redeems and clerks are symmetric where no liveness is
checked. With one text in `chat` every message is a candidate for the page's
merge by text; with three messages and a page of two, one of them or a copy is
cut. Two writes let a submitted booking be changed, or be cancelled and followed
by another; three, both.

*Deadlock* is checked in `push_delivery`, `invites`, `chat` and the runs of a
single part but `pdr_resume`. In the other compositions a bounded part really
stops: time is up, no frame is due, no session may be made any more.

*Fairness.* Assumed of what the runtime guarantees: a promise settles, a timer
fires, an interval asks again, a connection the server closed ends (`ws`
destroys it after its close timeout), a page reads the frames it was given, a
lookup's timeout ends it. Strong fairness is assumed only of the network: what is
asked again and again is also answered again and again. Nothing makes a page
connect, a console send or a row disappear; safety parts assume none.

*Mutants.* Every property of a passing run comes with a seeded fault in the
module it is about ("Seeded fault: ..."), which breaks it. Several are faults
the code once had, as its comments tell.

## 4. Where the code and its documentation disagree

1. **A connection that closes during its hello stays registered**
   (`presence_zombie`). `wsHub.ts:286` registers without looking at
   `readyState`; the close handler is over by then. The passenger stays online:
   the set of connections never empties again, so no later close starts a
   countdown, and an offline report over HTTP is ignored. `HubStore.ts:78` says
   "set of open WebSocket connections".
2. **The presence snapshot may be older than the broadcasts before it**
   (`feed_snapshot`). `HubStore.ts:157` reads, awaits, returns. Repaired by the
   next poll, which `ViewConverges` shows.
3. **A redeem under way undoes a deletion** (`invite_deletion`).
   `routes/paxInvites.ts:631` creates the row again after
   `DELETE /passengers/:id` removed it, against `routes/passengers.ts:221-224`.
4. **After one stop the dead-reckoning client no longer resumes**
   (`pdr_resume`). `stopPdr` sets `st.stopping` (519) and disowns the socket
   whose close event would reset it; the next session's first dropped connection
   is taken for intended, against `orienta-pdr-client.js:494-496`.

The modules also state what a reader might expect and what the code does not do.
These formulas are not run; the comment over each says what refutes it.

- Server: `WarmCacheIsComplete`, `PurgeLeavesNothing` (ChatHistory: an append to a
  cold cache, a load under way during a purge), `PlanReachesSessions` (Sessions),
  `GateHintWins` (Lookups), `LimitLiftsAfterErrors` (RateLimit: a lost expiry),
  `GoneIsGone`, `ConnectedIsListed` (Cluster), `KnownGateKept`, `OneTrip`,
  `ToldTheirOwn` (Itinerary), `PlaysWhole` (VoiceNotes), `TaxiRunsDown`
  (Estimates: `arrivalTimeEngine` 208-218 replaces the scheduled taxi time by an
  open one). Journey's invariants hold for SQLite only: under READ COMMITTED two
  transactions may each insert an open share. A sign-in that began before a
  revocation gets a token after it, which is accepted: `SessionInv` and
  `RefusedStays` say nothing of it. `LimitLifts` supposes that no command to
  Redis is lost; and the limiter counts fixed windows, where `rateLimit.ts:4`
  calls them sliding.
- Pages: `OneSession` (Pdr), `MapForgets`, `NewestKept` (Track),
  `ShownWhenConnected`, `SaidIsSent`, `RefusedBacksOff` (Reconnect),
  `FlightKeepsLeg`, `TripIsTheirs`, `BackToSignIn` (PaxPages), `GateOfOpenFlight`,
  `ConfirmedIsPlanned` (NavHints).
- Calls: `OneAnswerer`, and `OwnConsent`: with two consoles an `accept()` that
  waits for its microphone while its call is replaced never compares
  `callIdRef` afterwards (`usePeerCall.ts:543-545`).
- Console: `PanelsAreKnown`, `ErasedStaysOff`, `LateNeedsAction` (Console),
  `GatesInPlace`, `PickedIsShown` (MapBoard), `DraftIsTheirs`, `NoteIsTheirs`,
  `NotBehindTheScenes` (Composer), `ToldOfShown`, `AddressesAreRetyped`
  (InviteDesk).

## 5. What is proved

TLC checks the instances above; the theorems hold for any sets of passengers,
connections, consoles, links, devices, requests, texts, notes, panels and calls.
They assume of the constants what the modules state: bounds and windows are
natural numbers (positive where zero makes no sense), the names of absent things
(`NoPax`, `NoDevice`, `Nobody`, `None`, `NoOne`, `NoSocket`, `Absent`,
`Unknown`, `Undefined`) are none of the things, the passengers of the roster are
finitely many. Every invariant a run checks is an inductive invariant's
consequence, but for one part named below.

**HubProofs** (PaxPresence, PushDelivery).
- `PresenceInvariant`: `PresenceInv` is inductive. Alone, `ConnectedIsOnline` is
  not: the timer needs to know that no countdown runs while a connection is
  registered (`NoCountdownWhileConnected`), `Close` that a connection is
  registered under its own passenger (`RegisteredAsVerified`), `Join` that a
  resumed hello has one (`IdentityKnown`). `ConnectedStaysOnline`,
  `OnlineAlwaysJustified`, `LiveTabsStayReachable` are its parts.
- `PresenceRefines`: each action of PaxPresence is the promise's action of the same
  effect or a stutter; the close of the last connection is `Leave`, the close of
  one that was never registered `Withdraw`. The liveness half of
  `PresencePromised` stays with TLC.
- `StatusOnlyForward`, `PushInvariant`: what was written to a connection only grows
  while it is open, and a message that is pending but not among the newest
  `Window` has `Window` newer ones pending; the count of those is what the
  induction carries (`Reached`).

**LinksProofs** (PaxInvite, Itinerary, PaxPages, NavHints).
- `BindingInvariant`, `OneDevice`: two granted sessions say too little;
  `BindingHolds` speaks of `Authorised`, the grants made and those a request past
  the device check may still make.
- `RevocationInvariant`, `RevocationIsFinal`: a closed link is never open again
  (`LinksAsClerksLeftThem`, an id is issued once), so a request that began after
  the answer is at its first read or gone (`LateRequestsFail`), and whatever is
  minted for a closed link is a straggler.
- `TripInvariant`: a request that has not been crossed sees the row it will write;
  `OnCourse` says what its patch must hold at each of its statements.
- `PagesInvariant`: whoever checks has one awaited question under way, about the
  session shown. `NavInvariant`: hints, kept hints and form agree with the session
  at every stage of the page's settling.

**OutboxProofs** (VoiceNotes, Composer, InviteDesk).
- `VoiceInvariant`: `Stages` ties each stage of an upload to what is on the disk,
  `Asked` each listener who waits to an encoder that runs, `Encoding` each encoder
  to one file.
- `DeskInvariant`: what the panel shows, what an answer under way will show and what
  messages carry were each true when they were made; since, links only age.
- `ComposerInvariant`: unless a take was asked for twice or its panel closed before
  the microphone was there (`hasty`), the takes under way are those their panels
  show (`Calm`).

**ConsoleProofs** (AdminFeed, Console, MapBoard).
- `FeedInvariant`: without Redis `told = online` for a live console; the console
  never waits in `listing` then, and nothing was told before it joined.
- `BoardInvariant`: that reports prevail, and that one whose signal is lost is left
  out of a priority list only when it is full of such passengers, holds for any
  list and reports (a counting argument over finite sets), so the induction only
  needs that requests hold lists. The map: one drawn on the page is always
  current, one in a frame is current or has a message due.

**PassengerPageProofs** (Booking, Pdr, Reconnect).
- `PdrInvariant`: the live sockets are those of the session in force. Its premise
  `calm` (nobody taps while a start is under way) is what `OneSession` lacks.
- `ReconnectInvariant`: a socket belongs to one client (`SocketsOwned`).
- `BookingInvariant`, `BookingNeverReplaced`: every view, answer and frame shows
  some entry of the log, and the hub the last one (`EverywhereMade`). What is
  written over an active booking bears its `id`, and is therefore later than all
  that is shown: an action property.

**SafetyProofs** (Sessions, Journey, ChatHistory, Estimates, AwayPush).
- `SessionInvariant`, `RefusalIsFinal`: a token is signed not before the second it
  carries and ends before a cutover that refuses it is forgotten (`InTime`);
  mirrors in Redis stand as long as what they refuse, a command under way is
  newer than what it replaces. The second is an action property.
- `ChatInvariant`, `ChatRefines`: cache and loads under way hold sent messages only;
  each step is one of ChatPromise or a stutter.
- `AwayInvariant` is inductive as it stands.
- `JourneyInvariant`: with SQLite one page at most is between two statements, and
  every open share is among those it is about to end.
- `EstimatesInvariant`: the type invariant is enough, for whatever the engine is
  given. The sums are recursive functions over four and seven stages, unrolled
  once (`TotalOfFour`, `TotalOfSeven`); what the narrowed band leaves out of the
  way to the gate is then a matter of the widths the tables can give
  (`StagesKnown`), and never more than the buffer makes up for (`BandLeavesOut`).
  `GuidanceInvariant` joins it to `JourneyInvariant`.
- `LaterIsNeverLonger`, an action property, compares each of the seven stages with
  itself a step later. A way whose stages have come down is expected to take no
  longer (`SumShrinks`), and its band ends no later unless it has grown
  (`BandEndsNoLater`). One stage may widen, the wait for bags, by a minute: only at
  the time the plane was due, when the band is the planned one (`WaitInTime`,
  `BandNarrows`). It needs one more invariant, that the gate was not reached at a
  time to come (`EstimatesIInv`).

**TrafficProofs** (Track, Lookups).
- `TrackInvariant`: once the page has left quietly nothing is left at the relay, on
  the link or in a request. `LookupInvariant`: an entry is no older than the
  stale limit plus what a refresh has taken so far. `TrafficInvariant`: both, of
  the composed run.

**ConversationProofs** (ChatPage, PeerCall).
- `PageInvariant`: that nothing is shown twice is not inductive; `Counted` says that
  of each text, what was sent and what is still on its way are no more than what
  was written. The merge by text removes the first copy of a set
  (`WFMin`, `NatLessThanWellFounded`); what is cut only lowers the counts
  (`RoomPart`, `UpsertPart`, `MergePart`). The sizes of the lists are arbitrary.
- `ConsentGiven`, `CallsVisible`, for any number of consoles: whatever is queued, in
  flight, buffered or linked for a call is of a kind that some acceptance allows
  (`PageFits`, `OpFits`, `FrameFits`).
- `CallInvariant` adds `SameCall`, for one console (`OneConsole`, which every passing
  run has; with more `InOrder` is too strong). The history of the earlier calls is kept in what can no longer come: a
  page comes to a call once, by its start or by its one invite, and `Entered` says
  that nothing of the kind is left (`OneOfEach`). What a page is in, has accepted or
  is told to offer, it has entered, and an offer or answer is of a call both have
  entered (`InOrder`); hence whoever is described, or about to be, is of the call
  the other is described in (`OneExchange`).

*Only model-checked.*
- All liveness: the liveness half of `PresencePromised`, `DepartureNoticed`,
  `ClusterConverges`, `ViewConverges`, `RosterConverges`,
  `HistoryReachesPage`, `QueueSettles`, `ResumesAtFirst`, `Reconnects`, `MapFollows`,
  `CircuitCloses`, `LimitLifts`. Liveness under fairness, ENABLED, induction over
  data and recursive operators are outside what the installed provers do. No
  module here declares a recursive operator.

## 6. Not modelled, and what is left

Left out: rendering, indoor maps and flight boards, styles and translations;
mail, SMS, QR codes, audit and metrics (output only); configuration, build,
migrations and vendored files; the console's login, key rotation and roles (no
state the other parts read; its session is Sessions' `admin` token); `paxMeta` and
the counters of `/metrics`; the bus's frames other than presence; web push
payloads; parsing of the providers' answers; walking graphs and airport tables
(inputs of Estimates). Wording and device descriptions are abstracted wherever a
modelled handler carries them. Hazards without a property are listed in
PROJECT.json with the reason: the code promises nothing there, or does not
prevent what can go wrong (messages lost from a warm chat cache, two open shares
with PostgreSQL, a sign-in across a revocation).

Left to prove: `CallInvariant` for several consoles, where `Entered` has to speak of
what a page has read so far, frame by frame: a passenger's offer then reaches
consoles that have not read its invite.
