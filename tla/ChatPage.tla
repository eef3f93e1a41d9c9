------------------------------ MODULE ChatPage ------------------------------
(***************************************************************************)
(* The passenger's page over ChatPromise, which ChatHistory implements:    *)
(* its socket, its chat poll, the optimistic copies it shows at once and   *)
(* the merge of pax/assist/chatMerge.ts that replaces them, with           *)
(* usePaxRealtimeSession.ts, realtime.ts, hub/chat.ts and the chat routes  *)
(* of routes/push.ts.                                                      *)
(*                                                                         *)
(* The display is a set of messages and of optimistic copies, without the  *)
(* order they are shown in: messages carry the hub's clock and copies the  *)
(* page's, so that where a list is cut, any of the copies may be the older *)
(* ones.  A copy and its message are taken to be less than two minutes     *)
(* apart.                                                                  *)
(***************************************************************************)
EXTENDS ChatPromise, Sequences, FiniteSetsExt

CONSTANTS
  Readers,          \* polls and hellos that await the history
  HelloTail,        \* messages a hello is answered with: 20
  PollTail,         \* messages a poll is answered with: 50
  PageCap,          \* messages and copies the page keeps: 50
  MaxSends,         \* bound of the model: messages the passenger writes
  MaxFrames         \* bound of the model: frames under way to the page

ASSUME PageAssumption ==
  /\ MaxSends \in Nat /\ MaxFrames \in Nat
  /\ HelloTail \in Nat \ {0} /\ PageCap \in Nat \ {0} /\ PollTail \in Nat /\ PollTail >= PageCap

VARIABLES
  link,             \* the socket: "down", "open" (its hello is under way), "known"
                    \* (the hub has his identity, and awaits the registry), "joined"
  frames,           \* frames under way to the page
  wrote,            \* what the passenger wrote; his n-th message
  reader,           \* where each poll is, and each hello's load
  out,              \* where that message is
  shown,            \* messages displayed
  locals            \* optimistic copies displayed

pageVars == <<promiseVars, reader, link, frames, wrote, out, shown, locals>>
display == <<shown, locals>>

Sends == 1..MaxSends
Frame == [msg : Msg] \cup [history : SUBSET Msg]
ReaderIdle == [at |-> "idle"]
Reader == [at : {"poll", "hello"}] \cup [at : {"answer"}, got : SUBSET Msg]
Over == [at |-> "done"]

(* slice(-n)                                                               *)
Latest(S, n) == {m \in S : Cardinality({k \in S : k > m}) < n}

PageTypeOK ==
  /\ text \in [Msg -> Texts \cup {Other, "none"}] /\ hist \subseteq Msg
  /\ reader \in [Readers -> {ReaderIdle} \cup Reader]
  /\ link \in {"down", "open", "known", "joined"}
  /\ frames \in Seq(Frame)
  /\ wrote \in [Sends -> Texts \cup {"none"}]
  /\ out \in [Sends -> [at : {"none", "socket", "post", "done"}] \cup [at : {"answer"}, msg : Msg]]
  /\ shown \subseteq Msg /\ locals \subseteq Sends

PageInit ==
  /\ PromiseInit
  /\ reader = [r \in Readers |-> ReaderIdle]
  /\ link = "down" /\ frames = <<>>
  /\ wrote = [k \in Sends |-> "none"] /\ out = [k \in Sends |-> [at |-> "none"]]
  /\ shown = {} /\ locals = {}

-----------------------------------------------------------------------------
(* What is displayed when one more is about to be appended: of a full page *)
(* its first goes, whichever that is.                                      *)
WithRoom ==
  IF Cardinality(shown) + Cardinality(locals) < PageCap THEN {<<shown, locals>>}
  ELSE {<<shown \ {m}, locals>> : m \in shown} \cup {<<shown, locals \ {k}>> : k \in locals}

(* Seeded fault: messages are told apart by their id only                  *)
UpsertById(m) ==
  IF m \in shown THEN UNCHANGED display
  ELSE \E d \in WithRoom : shown' = d[1] \cup {m} /\ locals' = d[2]

(* A known message is replaced by itself; a new one of the passenger takes *)
(* the place of the first copy with its text; any other is appended.       *)
Upsert(m) ==
  LET copies == {k \in locals : wrote[k] = text[m]} IN
  IF m \in shown THEN UNCHANGED display
  ELSE IF copies # {} THEN /\ shown' = shown \cup {m}
                           /\ locals' = locals \ {Min(copies)}
  ELSE \E d \in WithRoom : shown' = d[1] \cup {m} /\ locals' = d[2]

(* Seeded fault: a history is taken by an empty display only               *)
MergeFirstOnly(M) ==
  /\ shown' = IF shown = {} THEN Latest(M, PageCap) ELSE shown
  /\ locals' = {k \in locals : \A m \in M : text[m] # wrote[k]}

(* The server's list replaces all but the copies without an equal in it;   *)
(* sorted by time, the end of the two is kept.                             *)
MergeHistory(M) ==
  LET left == {k \in locals : \A m \in M : text[m] # wrote[k]}
      total == Cardinality(M) + Cardinality(left)
      kept == IF total < PageCap THEN total ELSE PageCap
  IN  \E i \in 0..Cardinality(M) :
        /\ i <= kept /\ kept - i <= Cardinality(left)
        /\ shown' = Latest(M, i)
        /\ locals' = Latest(left, kept - i)

-----------------------------------------------------------------------------
(* broadcastPax: to the page's socket, if it is registered                 *)
Broadcast(msgs) ==
  IF link = "joined" THEN /\ Len(frames) + Len(msgs) <= MaxFrames
                          /\ frames' = frames \o msgs
                     ELSE UNCHANGED frames

(* chat_send or admin-chat-send of a console, or the agent's reply: 800 ms *)
(* later, whatever has become of the passenger.                            *)
OtherSays ==
  \E m \in Msg :
    /\ Say(m, Other)
    /\ Broadcast(<<[msg |-> m]>>)
    /\ UNCHANGED <<reader, link, wrote, out, display>>

(* onopen: the page counts itself connected and says hello.                *)
Open ==
  /\ link = "down"
  /\ link' = "open"
  /\ UNCHANGED <<promiseVars, reader, frames, wrote, out, display>>

(* The token of the hello is good: the connection has an identity. The     *)
(* registry is awaited before the socket is registered.                    *)
Identified ==
  /\ link = "open"
  /\ link' = "known"
  /\ UNCHANGED <<promiseVars, reader, frames, wrote, out, display>>

(* The hello of a passenger who was not online: the system message makes   *)
(* the history warm, and the end of it is sent.                            *)
JoinFirst ==
  \E m \in Msg :
    /\ link = "known"
    /\ Say(m, Other)
    /\ link' = "joined"
    /\ frames' = <<[msg |-> m], [history |-> Latest(hist', HelloTail)]>>
    /\ UNCHANGED <<reader, wrote, out, display>>

(* The hello of one who was: what is in the cache is sent, or what comes   *)
(* from a load.                                                            *)
JoinAgain(r) ==
  /\ link = "known"
  /\ link' = "joined"
  /\ IF hist # {} THEN frames' = <<[history |-> Latest(hist, HelloTail)]>> /\ UNCHANGED reader
                  ELSE /\ reader[r] = ReaderIdle
                       /\ reader' = [reader EXCEPT ![r] = [at |-> "hello"]]
                       /\ UNCHANGED frames
  /\ UNCHANGED <<promiseVars, wrote, out, display>>

(* A load finds rows, which are the history then, or none.                 *)
Loaded(got) == got \in {hist, {}}

HistoryFrame(r) ==
  /\ reader[r].at = "hello"
  /\ \E got \in SUBSET Msg : Loaded(got) /\ Broadcast(<<[history |-> Latest(got, HelloTail)]>>)
  /\ reader' = [reader EXCEPT ![r] = ReaderIdle]
  /\ UNCHANGED <<promiseVars, link, wrote, out, display>>

(* What is under way in either direction is lost with the connection, the  *)
(* history that is being loaded for it too.                                *)
Drop ==
  /\ link # "down"
  /\ link' = "down" /\ frames' = <<>>
  /\ reader' = [r \in Readers |-> IF reader[r].at = "hello" THEN ReaderIdle ELSE reader[r]]
  /\ out' = [k \in Sends |-> IF out[k].at = "socket" THEN Over ELSE out[k]]
  /\ UNCHANGED <<promiseVars, wrote, display>>

(* sendChat: a copy is shown at once; by the socket if it is open, else by *)
(* a request.                                                              *)
SendChat(k, t) ==
  /\ wrote[k] = "none" /\ \A j \in Sends : j < k => wrote[j] # "none"
  /\ wrote' = [wrote EXCEPT ![k] = t]
  /\ out' = [out EXCEPT ![k] = [at |-> IF link = "down" THEN "post" ELSE "socket"]]
  /\ \E d \in WithRoom : shown' = d[1] /\ locals' = d[2] \cup {k}
  /\ UNCHANGED <<promiseVars, reader, link, frames>>

(* A frame that arrives while the token is being checked is ignored: the   *)
(* connection has a role, but no tenant yet.                               *)
FrameIgnored(k) ==
  /\ out[k].at = "socket" /\ link = "open"
  /\ \A j \in Sends : j < k => out[j].at # "socket"
  /\ out' = [out EXCEPT ![k] = Over]
  /\ UNCHANGED <<promiseVars, reader, link, frames, wrote, display>>

(* handlePaxOutboundChat, for a frame or for a request. While the registry *)
(* is awaited it is stored, and not echoed to the page.                    *)
PaxOutboundChat(k) ==
  /\ \/ out[k].at = "post"
     \/ /\ out[k].at = "socket" /\ link \in {"known", "joined"}
        /\ \A j \in Sends : j < k => out[j].at # "socket"
  /\ \E m \in Msg :
       /\ Say(m, wrote[k])
       /\ Broadcast(<<[msg |-> m]>>)
       /\ out' = [out EXCEPT ![k] = IF @.at = "post" THEN [at |-> "answer", msg |-> m] ELSE Over]
  /\ UNCHANGED <<reader, link, wrote, display>>

PostAnswered(k) ==
  /\ out[k].at = "answer"
  /\ Upsert(out[k].msg)
  /\ out' = [out EXCEPT ![k] = Over]
  /\ UNCHANGED <<promiseVars, reader, link, frames, wrote>>

(* The request failed, or its answer was lost: the copy is taken back.     *)
PostFailed(k) ==
  /\ out[k].at \in {"post", "answer"}
  /\ out' = [out EXCEPT ![k] = Over]
  /\ locals' = locals \ {k}
  /\ UNCHANGED <<promiseVars, reader, link, frames, wrote, shown>>

(* The page reads a frame.                                                 *)
ReadFrame ==
  /\ frames # <<>>
  /\ frames' = Tail(frames)
  /\ LET f == Head(frames) IN
       IF "msg" \in DOMAIN f THEN Upsert(f.msg) ELSE MergeHistory(f.history)
  /\ UNCHANGED <<promiseVars, reader, link, wrote, out>>

(* The chat poll, every four seconds; its answers may overtake each other, *)
(* frames and the answers of other requests.                               *)
Poll(r) ==
  /\ reader[r] = ReaderIdle
  /\ reader' = [reader EXCEPT ![r] = IF hist = {} THEN [at |-> "poll"]
                                     ELSE [at |-> "answer", got |-> Latest(hist, PollTail)]]
  /\ UNCHANGED <<promiseVars, link, frames, wrote, out, display>>

PollLoaded(r) ==
  /\ reader[r].at = "poll"
  /\ \E got \in SUBSET Msg :
       /\ Loaded(got)
       /\ reader' = [reader EXCEPT ![r] = [at |-> "answer", got |-> Latest(got, PollTail)]]
  /\ UNCHANGED <<promiseVars, link, frames, wrote, out, display>>

PollAnswered(r) ==
  /\ reader[r].at = "answer"
  /\ MergeHistory(reader[r].got)
  /\ reader' = [reader EXCEPT ![r] = ReaderIdle]
  /\ UNCHANGED <<promiseVars, link, frames, wrote, out>>

PollLost(r) ==
  /\ reader[r].at \in {"poll", "answer"}
  /\ reader' = [reader EXCEPT ![r] = ReaderIdle]
  /\ UNCHANGED <<promiseVars, link, frames, wrote, out, display>>

Restart ==
  /\ Forgotten
  /\ link' = "down" /\ frames' = <<>>
  /\ reader' = [r \in Readers |-> ReaderIdle]
  /\ out' = [k \in Sends |-> IF out[k].at = "socket" THEN Over ELSE out[k]]
  /\ UNCHANGED <<wrote, display>>

(* Steps of the hub that the page does not see                             *)
HistoryStep ==
  /\ Forgotten \/ Reloaded
  /\ UNCHANGED <<reader, link, frames, wrote, out, display>>

PageNext ==
  \/ \E r \in Readers : JoinAgain(r) \/ HistoryFrame(r) \/ Poll(r) \/ PollLoaded(r)
                       \/ PollAnswered(r) \/ PollLost(r)
  \/ \E k \in Sends :
       \/ FrameIgnored(k) \/ PaxOutboundChat(k) \/ PostAnswered(k) \/ PostFailed(k)
       \/ \E t \in Texts : SendChat(k, t)
  \/ OtherSays \/ Open \/ Identified \/ JoinFirst \/ Drop \/ ReadFrame \/ Restart
  \/ HistoryStep

(* Queries are answered, the page reads its frames and polls; that a poll  *)
(* asked for ever is answered again and again is all that is assumed of    *)
(* the network.                                                            *)
PageFairness ==
  /\ WF_pageVars(ReadFrame)
  /\ \A r \in Readers :
       /\ WF_pageVars(Poll(r))
       /\ WF_pageVars(HistoryFrame(r))
       /\ WF_pageVars(PollLoaded(r))
       /\ SF_pageVars(PollAnswered(r))

PageSpec == PageInit /\ [][PageNext]_pageVars /\ PageFairness

-----------------------------------------------------------------------------
(* Nothing the passenger wrote is displayed twice: not as message and as   *)
(* copy, whether its echo, the answer to its request, a poll that began    *)
(* before it or a history comes first, and not when the same text is       *)
(* written twice.                                                          *)
ShownOnce ==
  \A t \in Texts :
    Cardinality({m \in shown : text[m] = t}) + Cardinality({k \in locals : wrote[k] = t})
      <= Cardinality({k \in Sends : wrote[k] = t})

(* Nothing is displayed twice; nobody is shown, or about to be shown, what *)
(* was not sent; and a copy stands for something written.                  *)
PageInv ==
  /\ PageTypeOK
  /\ ShownOnce
  /\ shown \subseteq Sent /\ hist \subseteq Sent
  /\ \A k \in locals : wrote[k] # "none"
  /\ \A k \in Sends : out[k].at = "answer" => text[out[k].msg] = wrote[k]

(* The messages the page has room for beside the copies it displays        *)
Due == {m \in hist : Cardinality({n \in hist : n > m}) + Cardinality(locals) < PageCap}

(* A message in the hub's history reaches the page, by socket or by poll,  *)
(* however often the socket drops and whatever answers overtake: unless it *)
(* is forgotten, or newer ones and copies take all the room there is.      *)
HistoryReachesPage ==
  \A m \in Msg : m \in Due ~> (m \in shown \/ m \notin Due)

=============================================================================
