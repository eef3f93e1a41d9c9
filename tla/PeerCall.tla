------------------------------ MODULE PeerCall ------------------------------
(***************************************************************************)
(* A call between a passenger's page and the consoles of his tenant:       *)
(* src/features/media/usePeerCall.ts in every page, callSession.ts and     *)
(* callSignaling.ts, and the relay of hub/callRelay.ts and hub/wsHub.ts.   *)
(*                                                                         *)
(* Whatever asks for media or touches the RTCPeerConnection runs in the    *)
(* page's chain of operations, one at a time; frames of a call's beginning *)
(* and end are handled at once, in the middle of an operation too.  An     *)
(* operation is one step except for its wait for camera and microphone,    *)
(* which may take as long as the user thinks.  ICE candidates, tracks and  *)
(* the camera switch are not modelled.                                     *)
(***************************************************************************)
EXTENDS Naturals, Sequences

CONSTANTS
  Consoles,         \* consoles of the tenant
  Pax,              \* the passenger's page
  Nobody,           \* no peer
  MaxCall,          \* bound of the model: call ids ever made
  MaxCallFrames         \* bound of the model: frames under way to a page

ASSUME CallAssumption ==
  /\ Pax \notin Consoles
  /\ Nobody \notin Consoles \cup {Pax}
  /\ MaxCall \in Nat /\ MaxCallFrames \in Nat

VARIABLES
  peer,             \* the refs of usePeerCall
  ops,              \* opChain: operations waiting, the first one runs
  prompt,           \* the running operation waits for camera and microphone
  inbox,            \* frames under way to a page
  made,             \* call ids made so far
  agreed            \* history: calls the user of a page accepted

callVars == <<peer, ops, prompt, inbox, made, agreed>>

Peers == Consoles \cup {Pax}
CallId == 1..MaxCall
NoCall == 0

Connection == [st : {"none", "stable", "offering", "linked"}, with : Peers \cup {Nobody}]
NoConnection == [st |-> "none", with |-> Nobody]
Fresh == [st |-> "stable", with |-> Nobody]
Sdp == [kind : {"offer", "answer"}, by : Peers]
NoSdp == [kind |-> "none", by |-> Nobody]

(* call: callIdRef, null exactly when endedRef or nothing happened yet;    *)
(* phase: what the page shows (the ref beside it matters only with several *)
(* passengers); did: didConnect; up: the connection is up; buf:            *)
(* pendingRemoteSdp; live: localRef holds a camera or microphone           *)
PeerState == [call : CallId \cup {NoCall}, phase : {"idle", "outgoing", "incoming", "connecting", "in_call"},
              init : BOOLEAN, accepted : BOOLEAN, media : BOOLEAN, ring : BOOLEAN, live : BOOLEAN,
              restarted : BOOLEAN, did : BOOLEAN, up : BOOLEAN, pc : Connection, buf : Sdp \cup {NoSdp}]
Op == [op : {"start", "accept", "offer"}, call : CallId]
        \cup [op : {"signal"}, call : CallId, sdp : Sdp]
CallFrame == [type : {"invite", "accept", "reject", "hangup"}, call : CallId]
           \cup [type : {"signal"}, call : CallId, sdp : Sdp]

CallTypeOK ==
  /\ peer \in [Peers -> PeerState]
  /\ ops \in [Peers -> Seq(Op)]
  /\ prompt \in [Peers -> BOOLEAN]
  /\ inbox \in [Peers -> Seq(CallFrame)]
  /\ made \in 0..MaxCall
  /\ agreed \in [Peers -> SUBSET CallId]

IdleState == [call |-> NoCall, phase |-> "idle", init |-> FALSE, accepted |-> FALSE,
              media |-> FALSE, ring |-> FALSE, live |-> FALSE, restarted |-> FALSE,
              did |-> FALSE, up |-> FALSE, pc |-> NoConnection, buf |-> NoSdp]

CallInit ==
  /\ peer = [p \in Peers |-> IdleState]
  /\ ops = [p \in Peers |-> <<>>]
  /\ prompt = [p \in Peers |-> FALSE]
  /\ inbox = [p \in Peers |-> <<>>]
  /\ made = 0
  /\ agreed = [p \in Peers |-> {}]

-----------------------------------------------------------------------------
(* The relay sends a frame to the passenger and to all consoles but not to *)
(* its sender; a page drops what its own role sent.                        *)
Listeners(p) == IF p = Pax THEN Consoles ELSE {Pax}

(* Page p sends the frames fs and, if it read one, takes it off its inbox. *)
Relay(p, fs, rest) ==
  /\ \A q \in Listeners(p) : Len(inbox[q]) + Len(fs) <= MaxCallFrames
  /\ inbox' = [q \in Peers |-> IF q = p THEN rest
                               ELSE IF q \in Listeners(p) THEN inbox[q] \o fs ELSE inbox[q]]

Become(p, s) == peer' = [peer EXCEPT ![p] = s]
Send(p, type, c) == Relay(p, <<[type |-> type, call |-> c]>>, inbox[p])
Silent(p) == UNCHANGED inbox
Enqueue(p, o) == ops' = [ops EXCEPT ![p] = Append(@, o)]
Dequeue(p) == ops' = [ops EXCEPT ![p] = Tail(@)]
Runs(p, kind) == ops[p] # <<>> /\ Head(ops[p]).op = kind

(* teardownMedia                                                           *)
WithoutMedia(s) == [s EXCEPT !.pc = NoConnection, !.up = FALSE, !.buf = NoSdp, !.live = FALSE]
(* ensurePc                                                                *)
WithPc(s) == IF s.pc.st = "none" THEN [s EXCEPT !.pc = Fresh] ELSE s

-----------------------------------------------------------------------------
(* startCall is ignored while a call is up; else it is queued.             *)
StartCall(p) ==
  /\ peer[p].call = NoCall
  /\ made < MaxCall
  /\ made' = made + 1
  /\ Enqueue(p, [op |-> "start", call |-> made'])
  /\ UNCHANGED <<peer, prompt, inbox, agreed>>

(* The operation begins; meanwhile a call may have come in.                *)
StartRuns(p) ==
  /\ Runs(p, "start") /\ ~prompt[p]
  /\ IF peer[p].call # NoCall
       THEN Dequeue(p) /\ UNCHANGED <<peer, prompt>>
       ELSE /\ Become(p, [WithoutMedia(peer[p]) EXCEPT !.call = Head(ops[p]).call,
                            !.phase = "outgoing", !.init = TRUE, !.accepted = FALSE])
            /\ prompt' = [prompt EXCEPT ![p] = TRUE]
            /\ UNCHANGED ops
  /\ UNCHANGED <<inbox, made, agreed>>

(* attachLocal succeeded: whatever call the page is in by now has media.   *)
Attached(s) == [WithPc(s) EXCEPT !.live = TRUE, !.media = TRUE]

StartReady(p) ==
  LET c == Head(ops[p]).call  s == Attached(peer[p]) IN
  /\ Runs(p, "start") /\ prompt[p]
  /\ prompt' = [prompt EXCEPT ![p] = FALSE]
  /\ Dequeue(p)
  /\ IF s.call = c THEN Become(p, [s EXCEPT !.ring = TRUE]) /\ Send(p, "invite", c)
                   ELSE Become(p, s) /\ Silent(p)
  /\ UNCHANGED <<made, agreed>>

StartDenied(p) ==
  LET c == Head(ops[p]).call IN
  /\ Runs(p, "start") /\ prompt[p]
  /\ prompt' = [prompt EXCEPT ![p] = FALSE]
  /\ Dequeue(p)
  /\ IF peer[p].call = c THEN Become(p, IdleState) /\ Send(p, "hangup", c)
                         ELSE UNCHANGED <<peer, inbox>>
  /\ UNCHANGED <<made, agreed>>

(* The user accepts: the phase changes at once, the rest is queued.        *)
Accept(p) ==
  /\ peer[p].call # NoCall /\ peer[p].phase = "incoming"
  /\ Become(p, [peer[p] EXCEPT !.init = FALSE, !.phase = "connecting"])
  /\ Enqueue(p, [op |-> "accept", call |-> peer[p].call])
  /\ agreed' = [agreed EXCEPT ![p] = @ \cup {peer[p].call}]
  /\ UNCHANGED <<prompt, inbox, made>>

AcceptRuns(p) ==
  /\ Runs(p, "accept") /\ ~prompt[p]
  /\ prompt' = [prompt EXCEPT ![p] = TRUE]
  /\ UNCHANGED <<peer, ops, inbox, made, agreed>>

-----------------------------------------------------------------------------
(* applyRemoteSdp: the state it leaves and the answer it sends             *)
Applies(s, sdp) == (sdp.kind = "offer") = ~s.init
Buffers(s, sdp) ==
  IF sdp.kind = "offer" THEN ~s.accepted \/ ~s.media \/ s.pc.st = "offering"
                        ELSE s.pc.st # "offering"

AfterSdp(s, sdp) ==
  CASE ~Applies(s, sdp) -> s
    [] Applies(s, sdp) /\ Buffers(s, sdp) -> [s EXCEPT !.buf = sdp]
    [] OTHER -> [s EXCEPT !.pc = [st |-> "linked", with |-> sdp.by],
                          !.phase = IF sdp.kind = "offer" /\ s.phase # "idle" THEN "connecting" ELSE s.phase]

Answers(p, s, sdp) ==
  IF sdp.kind = "offer" /\ Applies(s, sdp) /\ ~Buffers(s, sdp) /\ s.call # NoCall
    THEN <<[type |-> "signal", call |-> s.call, sdp |-> [kind |-> "answer", by |-> p]]>>
    ELSE <<>>

(* flushPendingSdp                                                         *)
Flush(s) == IF s.buf = NoSdp THEN s ELSE AfterSdp([WithPc(s) EXCEPT !.buf = NoSdp], s.buf)
FlushAnswers(p, s) == IF s.buf = NoSdp THEN <<>> ELSE Answers(p, WithPc(s), s.buf)

-----------------------------------------------------------------------------
(* The accept operation has its media.  Nothing asks whether the call it   *)
(* was for is still the page's call.                                       *)
AcceptReady(p) ==
  LET c == Head(ops[p]).call
      s == [Attached(peer[p]) EXCEPT !.accepted = TRUE, !.ring = FALSE] IN
  /\ Runs(p, "accept") /\ prompt[p]
  /\ prompt' = [prompt EXCEPT ![p] = FALSE]
  /\ Dequeue(p)
  /\ Become(p, Flush(s))
  /\ Relay(p, <<[type |-> "accept", call |-> c]>> \o FlushAnswers(p, s), inbox[p])
  /\ UNCHANGED <<made, agreed>>

(* The page shows an incoming call again, if the call is over as well.     *)
AcceptDenied(p) ==
  /\ Runs(p, "accept") /\ prompt[p]
  /\ prompt' = [prompt EXCEPT ![p] = FALSE]
  /\ Dequeue(p)
  /\ Become(p, [peer[p] EXCEPT !.accepted = FALSE, !.media = FALSE,
                  !.phase = "incoming"])
  /\ UNCHANGED <<inbox, made, agreed>>

Reject(p) ==
  /\ peer[p].phase = "incoming"
  /\ Become(p, IdleState)
  /\ IF peer[p].call = NoCall THEN UNCHANGED inbox ELSE Send(p, "reject", peer[p].call)
  /\ UNCHANGED <<ops, prompt, made, agreed>>

(* Seeded fault: hanging up forgets the ring timer                         *)
HangUpKeepsTimer(p) ==
  /\ peer[p].call # NoCall
  /\ Become(p, [IdleState EXCEPT !.ring = peer[p].ring])
  /\ Send(p, "hangup", peer[p].call)
  /\ UNCHANGED <<ops, prompt, made, agreed>>

HangUp(p) ==
  /\ peer[p].call # NoCall
  /\ Become(p, IdleState)
  /\ Send(p, "hangup", peer[p].call)
  /\ UNCHANGED <<ops, prompt, made, agreed>>

(* The ring timer: the other side is not told.                             *)
RingTimeout(p) ==
  /\ peer[p].ring
  /\ Become(p, IdleState)
  /\ UNCHANGED <<ops, prompt, inbox, made, agreed>>

-----------------------------------------------------------------------------
(* handleEvent for the first frame of the inbox                            *)
Gets(p, type) == inbox[p] # <<>> /\ Head(inbox[p]).type = type
Ignored(p) == Relay(p, <<>>, Tail(inbox[p])) /\ UNCHANGED <<peer, ops>>

(* Seeded fault: the replaced call keeps its connection                    *)
GetsInviteKeepsPc(p) ==
  LET c == Head(inbox[p]).call IN
  /\ Gets(p, "invite")
  /\ IF peer[p].call = c THEN Ignored(p)
     ELSE /\ Become(p, [peer[p] EXCEPT !.call = c, !.phase = "incoming", !.init = FALSE,
                          !.accepted = FALSE, !.media = FALSE, !.ring = TRUE])
          /\ Relay(p, <<>>, Tail(inbox[p]))
          /\ UNCHANGED ops
  /\ UNCHANGED <<prompt, made, agreed>>

(* An invite of the passenger the page is busy with replaces the call; all *)
(* pages here have the one passenger.                                      *)
GetsInvite(p) ==
  LET c == Head(inbox[p]).call  s == peer[p]
      t == IF s.call = NoCall THEN s ELSE WithoutMedia(s) IN
  /\ Gets(p, "invite")
  /\ IF s.call = c THEN Ignored(p)
     ELSE /\ Become(p, [t EXCEPT !.call = c, !.phase = "incoming", !.init = FALSE,
                          !.accepted = FALSE, !.media = FALSE, !.restarted = FALSE,
                          !.buf = NoSdp, !.ring = TRUE])
          /\ Relay(p, <<>>, Tail(inbox[p]))
          /\ UNCHANGED ops
  /\ UNCHANGED <<prompt, made, agreed>>

GetsEnd(p) ==
  /\ Gets(p, "reject") \/ Gets(p, "hangup")
  /\ IF Head(inbox[p]).call # peer[p].call THEN Ignored(p)
     ELSE /\ Become(p, IdleState)
          /\ Relay(p, <<>>, Tail(inbox[p]))
          /\ UNCHANGED ops
  /\ UNCHANGED <<prompt, made, agreed>>

(* An accepted call is offered by its initiator; another page that rings   *)
(* for it stops.                                                           *)
GetsAccept(p) ==
  LET c == Head(inbox[p]).call  s == peer[p] IN
  /\ Gets(p, "accept")
  /\ IF s.call # c \/ (~s.init /\ s.accepted) THEN Ignored(p)
     ELSE /\ Relay(p, <<>>, Tail(inbox[p]))
          /\ IF s.init THEN /\ Become(p, [s EXCEPT !.phase = "connecting", !.ring = FALSE])
                            /\ Enqueue(p, [op |-> "offer", call |-> c])
                       ELSE Become(p, IdleState) /\ UNCHANGED ops
  /\ UNCHANGED <<prompt, made, agreed>>

GetsSignal(p) ==
  LET f == Head(inbox[p]) IN
  /\ Gets(p, "signal")
  /\ IF f.call # peer[p].call THEN Ignored(p)
     ELSE /\ Enqueue(p, [op |-> "signal", call |-> f.call, sdp |-> f.sdp])
          /\ Relay(p, <<>>, Tail(inbox[p]))
          /\ UNCHANGED peer
  /\ UNCHANGED <<prompt, made, agreed>>

(* A frame is lost with the connection that should have brought it.        *)
FrameLost(p) ==
  /\ inbox[p] # <<>>
  /\ inbox' = [inbox EXCEPT ![p] = Tail(@)]
  /\ UNCHANGED <<peer, ops, prompt, made, agreed>>

(* The queued rest of an accepted call                                     *)
Offer(p, c) == <<[type |-> "signal", call |-> c, sdp |-> [kind |-> "offer", by |-> p]]>>

OfferRuns(p) ==
  LET c == Head(ops[p]).call
      s == [WithPc(peer[p]) EXCEPT !.pc = [st |-> "offering", with |-> Nobody]] IN
  /\ Runs(p, "offer")
  /\ Dequeue(p)
  /\ IF peer[p].call # c THEN UNCHANGED <<peer, inbox>>
     ELSE /\ Become(p, Flush(s))
          /\ Relay(p, Offer(p, c) \o FlushAnswers(p, s), inbox[p])
  /\ UNCHANGED <<prompt, made, agreed>>

SignalRuns(p) ==
  LET o == Head(ops[p])  s == WithPc(peer[p]) IN
  /\ Runs(p, "signal")
  /\ Dequeue(p)
  /\ IF peer[p].call # o.call THEN UNCHANGED <<peer, inbox>>
     ELSE /\ Become(p, AfterSdp(s, o.sdp))
          /\ Relay(p, Answers(p, s, o.sdp), inbox[p])
  /\ UNCHANGED <<prompt, made, agreed>>

-----------------------------------------------------------------------------
(* Two connections that were described to each other connect; each page    *)
(* hears of it by itself.                                                  *)
Linked(p, q) == peer[p].pc = [st |-> "linked", with |-> q]

Connected(p) ==
  /\ \E q \in Peers : Linked(p, q) /\ Linked(q, p)
  /\ ~peer[p].up
  /\ Become(p, [peer[p] EXCEPT !.did = TRUE, !.up = TRUE, !.phase = "in_call"])
  /\ UNCHANGED <<ops, prompt, inbox, made, agreed>>

(* The connection fails: the initiator of a call that never connected      *)
(* tries once more, else the call is over, and the other side not told.    *)
Failed(p) ==
  LET s == peer[p] IN
  /\ s.pc.st = "linked"
  /\ IF ~s.did /\ ~s.restarted /\ s.init
       THEN IF s.call = NoCall
              THEN Become(p, [s EXCEPT !.restarted = TRUE]) /\ UNCHANGED inbox
              ELSE /\ Become(p, [s EXCEPT !.restarted = TRUE, !.pc = [st |-> "offering", with |-> Nobody]])
                   /\ Relay(p, Offer(p, s.call), inbox[p])
       ELSE Become(p, IdleState) /\ UNCHANGED inbox
  /\ UNCHANGED <<ops, prompt, made, agreed>>

User(p) == StartCall(p) \/ Accept(p) \/ Reject(p) \/ HangUp(p)
Prompt(p) == StartReady(p) \/ StartDenied(p) \/ AcceptReady(p) \/ AcceptDenied(p)
Chain(p) == OfferRuns(p) \/ SignalRuns(p)
Event(p) == GetsInvite(p) \/ GetsEnd(p) \/ GetsAccept(p) \/ GetsSignal(p)
Network(p) == FrameLost(p) \/ Connected(p) \/ Failed(p)

(* An operation at the head of the chain begins before the page does       *)
(* anything else.                                                          *)
Begins(p) == StartRuns(p) \/ AcceptRuns(p)
MustBegin(p) == (Runs(p, "start") \/ Runs(p, "accept")) /\ ~prompt[p]
UserOrTimer(p) ==
  /\ ~MustBegin(p)
  /\ User(p) \/ Prompt(p) \/ Chain(p) \/ Event(p) \/ Network(p) \/ RingTimeout(p)

CallNext == \E p \in Peers : Begins(p) \/ UserOrTimer(p)

(* Prompts are answered, operations run, frames are read, timers fire; no  *)
(* user ever has to do anything else.                                      *)
CallFairness ==
  \A p \in Peers :
    /\ WF_callVars(Begins(p)) /\ WF_callVars(Prompt(p)) /\ WF_callVars(Chain(p))
    /\ WF_callVars(Event(p)) /\ WF_callVars(RingTimeout(p))

CallSpec == CallInit /\ [][CallNext]_callVars /\ CallFairness

-----------------------------------------------------------------------------
(* A call is never invisible, and no ring timer outlives its call: it      *)
(* would end the next one.                                                 *)
NoHiddenCall == \A p \in Peers : peer[p].phase = "idle" => peer[p].call = NoCall
NoStrayTimer == \A p \in Peers : peer[p].ring => peer[p].call # NoCall

(* Nobody is connected in a call that the side it was made to has not      *)
(* accepted: not by an offer that overtakes the accept, nor by one of a    *)
(* call that was replaced meanwhile (callSignaling.test.ts:23, "holds the  *)
(* offer until the callee has accepted").                                  *)
Side(p) == IF p = Pax THEN {Pax} ELSE Consoles
AgreedBy(S) == UNION {agreed[q] : q \in S}
Consent ==
  \A p \in Peers :
    peer[p].pc.st = "linked" =>
      peer[p].call \in AgreedBy(IF peer[p].init THEN Listeners(p) ELSE Side(p))

(* Two pages that are connected to each other are in the same call.        *)
SameCall == \A p, q \in Peers : Linked(p, q) /\ Linked(q, p) => peer[p].call = peer[q].call

CallInv == CallTypeOK /\ NoHiddenCall /\ NoStrayTimer /\ SameCall

(* The user of this very page did.  (Not so with two consoles: an accept   *)
(* that still waits for its microphone when its call is replaced counts    *)
(* for the call that replaced it, usePeerCall.ts:545, and the offer made   *)
(* to the console that did accept it reaches this one too.)                *)
OwnConsent ==
  \A p \in Peers : peer[p].pc.st = "linked" => peer[p].init \/ peer[p].call \in agreed[p]

(* A console stops ringing for a call that another one has answered: only  *)
(* "frames we ourselves sent" (callSignaling.ts:3) are not to be applied.  *)
OneAnswerer ==
  \A p, q \in Consoles :
    p # q /\ peer[p].accepted /\ peer[q].accepted /\ peer[p].call = peer[q].call =>
      peer[p].call = NoCall

=============================================================================
