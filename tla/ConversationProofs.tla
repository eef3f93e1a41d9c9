------------------------- MODULE ConversationProofs -------------------------
(* The conversation of a passenger and the consoles, for any number of         *)
(* messages, polls, frames, calls and (except for the last theorem) consoles:  *)
(* nothing written is displayed twice or unsent, nobody is called who did not  *)
(* agree, and two linked pages are in the same call.                           *)
EXTENDS ChatPage, PeerCall, FiniteSetTheorems, SequenceTheorems, WellFoundedInduction, TLAPS

-----------------------------------------------------------------------------
Words == Texts \cup {Other, "none"}
Carried == [msg: Sent] \cup [history: SUBSET Sent]
Held == {ReaderIdle} \cup [at: {"poll", "hello"}] \cup [at: {"answer"}, got: SUBSET Sent]
Outs == [at: {"none", "socket", "post", "done"}] \cup [at: {"answer"}, msg: Msg]

(* Whatever is on its way to the page, or on it, was sent.                     *)
Flow ==
  /\ text \in [Msg -> Words] /\ hist \subseteq Sent
  /\ link \in {"down", "open", "known", "joined"}
  /\ frames \in Seq(Carried)
  /\ reader \in [Readers -> Held]
  /\ shown \subseteq Sent

(* What the passenger wrote, where it is, and the copies of it.                *)
Hand ==
  /\ wrote \in [Sends -> Texts \cup {"none"}]
  /\ out \in [Sends -> Outs]
  /\ locals \subseteq Sends
  /\ \A k \in locals: wrote[k] # "none"
  /\ \A k \in Sends: out[k].at # "none" => wrote[k] # "none"
  /\ \A k \in Sends: out[k].at = "answer" => text[out[k].msg] = wrote[k]

Said(t) == {m \in Sent: text[m] = t}
Going(t) == {k \in Sends: wrote[k] = t /\ out[k].at \in {"socket", "post"}}
Written(t) == {k \in Sends: wrote[k] = t}
OnShow(t) == {m \in shown: text[m] = t}
Copies(t) == {k \in locals: wrote[k] = t}

Counted ==
  \A t \in Texts: Cardinality(Said(t)) + Cardinality(Going(t)) <= Cardinality(Written(t))

PageIInv == Flow /\ Hand /\ Counted /\ ShownOnce

-----------------------------------------------------------------------------
LEMMA FiniteSends == IsFiniteSet(Sends) /\ IsFiniteSet(Msg) /\ Sends \subseteq Nat
BY FS_Interval, PageAssumption, ChatAssumption DEF Sends, Msg

LEMMA SmallCounts ==
  ASSUME NEW S, S \subseteq Sends \/ S \subseteq Msg
  PROVE  IsFiniteSet(S) /\ Cardinality(S) \in Nat
BY FiniteSends, FS_Subset, FS_CardinalityType

LEMMA SmallerCounts ==
  ASSUME NEW T, T \subseteq Sends \/ T \subseteq Msg, NEW S, S \subseteq T
  PROVE  Cardinality(S) <= Cardinality(T)
BY SmallCounts, FS_Subset

LEMMA OneMore ==
  ASSUME NEW S, S \subseteq Sends \/ S \subseteq Msg, NEW x, x \notin S
  PROVE  Cardinality(S \cup {x}) = Cardinality(S) + 1
BY SmallCounts, FS_AddElement

LEMMA OneLess ==
  ASSUME NEW S, S \subseteq Sends \/ S \subseteq Msg, NEW x \in S
  PROVE  Cardinality(S \ {x}) = Cardinality(S) - 1
BY SmallCounts, FS_RemoveElement

(* The first of some copies is one of them.                                    *)
LEMMA FirstCopy ==
  ASSUME NEW S, S \subseteq Sends, S # {}
  PROVE  Min(S) \in S
<1>1. S \subseteq Nat
  BY FiniteSends
<1>2. \E x \in S: \A y \in S: ~(<<y, x>> \in OpToRel(<, Nat))
  BY <1>1, NatLessThanWellFounded, WFMin
<1>3. ASSUME NEW x \in Nat, NEW y \in Nat, y < x PROVE <<y, x>> \in OpToRel(<, Nat)
  BY <1>3 DEF OpToRel
<1>4. \E x \in S: \A y \in S: x <= y
  <2>1. PICK x \in S: \A y \in S: ~(<<y, x>> \in OpToRel(<, Nat))
    BY <1>2
  <2>2. ASSUME NEW y \in S PROVE x <= y
    <3>1. ~(y < x)
      BY <1>1, <1>3, <2>1
    <3> QED BY <1>1, <3>1
  <2> QED BY <2>2
<1> QED BY <1>4 DEF Min

(* What is cut keeps a part of what was there.                                 *)
LEMMA LatestPart == \A S, n: Latest(S, n) \subseteq S
BY DEF Latest

LEMMA RoomPart == \A d \in WithRoom: d[1] \subseteq shown /\ d[2] \subseteq locals
BY DEF WithRoom

LEMMA UpsertPart ==
  ASSUME NEW m, Upsert(m), locals \subseteq Sends
  PROVE  shown' \subseteq shown \cup {m} /\ locals' \subseteq locals
BY RoomPart DEF Upsert, display

LEMMA MergePart ==
  ASSUME NEW M, MergeHistory(M)
  PROVE  shown' \subseteq M /\ locals' \subseteq {k \in locals: \A m \in M: text[m] # wrote[k]}
BY LatestPart DEF MergeHistory

LEMMA SeqGrows ==
  ASSUME NEW S, NEW T, S \subseteq T, NEW s \in Seq(S)
  PROVE  s \in Seq(T)
<1>1. Len(s) \in Nat /\ s \in [1..Len(s) -> S]
  BY LenProperties
<1>2. s \in [1..Len(s) -> T]
  BY <1>1
<1> QED BY <1>1, <1>2

-----------------------------------------------------------------------------
(* What was sent stays sent, word for word.                                    *)
Grown ==
  /\ Sent \subseteq Sent' /\ hist' \subseteq Sent'
  /\ text' \in [Msg -> Words]
  /\ \A n \in Sent: text'[n] = text[n]

LEMMA SaidGrows ==
  ASSUME Flow, NEW m \in Msg, NEW t \in Texts \cup {Other}, Say(m, t)
  PROVE  /\ Grown /\ Sent' = Sent \cup {m} /\ m \notin Sent
         /\ text'[m] = t /\ \A n \in Msg \ {m}: text'[n] = text[n]
<1>1. /\ text \in [Msg -> Words] /\ text' = [text EXCEPT ![m] = t] /\ m \notin Sent
      /\ hist' = Newest(hist \cup {m}) /\ hist \subseteq Sent
  BY DEF Say, Flow
<1>2. t # "none" /\ t \in Words
  BY ChatAssumption DEF Words
<1>3. text'[m] = t /\ \A n \in Msg \ {m}: text'[n] = text[n]
  BY <1>1
<1>4. Sent' = Sent \cup {m}
  BY <1>2, <1>3 DEF Sent
<1>5. hist' \subseteq Sent'
  BY <1>1, <1>4 DEF Newest
<1>6. text' \in [Msg -> Words]
  BY <1>1, <1>2
<1>7. \A n \in Sent: text'[n] = text[n]
  BY <1>1, <1>3 DEF Sent
<1> QED BY <1>1, <1>3, <1>4, <1>5, <1>6, <1>7 DEF Grown

LEMMA Unsaid ==
  ASSUME Flow, UNCHANGED text
  PROVE  Sent' = Sent /\ text' \in [Msg -> Words] /\ (hist' \subseteq Sent => Grown)
BY DEF Flow, Sent, Grown

(* The steps by what they do to what was sent.                                 *)
Speaks ==
  \/ OtherSays \/ JoinFirst
  \/ \E k \in Sends: PaxOutboundChat(k)

LEMMA SilentGrows ==
  ASSUME Flow, PageNext, ~Speaks
  PROVE  Grown /\ UNCHANGED text
<1>1. UNCHANGED text /\ hist' \subseteq Sent
  BY DEF PageNext, Speaks, JoinAgain, HistoryFrame, Poll, PollLoaded, PollAnswered, PollLost,
         FrameIgnored, PostAnswered, PostFailed, SendChat, Open, Identified, Drop, ReadFrame,
         Restart, HistoryStep, Forgotten, Reloaded, promiseVars, Flow
<1> QED BY <1>1, Unsaid

LEMMA SpokenWord ==
  ASSUME Hand, NEW k \in Sends, PaxOutboundChat(k)
  PROVE  wrote[k] \in Texts /\ out[k].at \in {"post", "socket"}
BY DEF PaxOutboundChat, Hand

LEMMA SpeechGrows == ASSUME Flow, Hand, Speaks PROVE Grown
<1>1. ASSUME OtherSays \/ JoinFirst PROVE Grown
  <2>1. PICK m \in Msg: Say(m, Other)
    BY <1>1 DEF OtherSays, JoinFirst
  <2> QED BY <2>1, SaidGrows
<1>2. ASSUME NEW k \in Sends, PaxOutboundChat(k) PROVE Grown
  <2>1. PICK m \in Msg: Say(m, wrote[k])
    BY <1>2 DEF PaxOutboundChat
  <2> QED BY <1>2, <2>1, SpokenWord, SaidGrows
<1> QED BY <1>1, <1>2 DEF Speaks

-----------------------------------------------------------------------------
(* Flow: what is sent to the page, and what it reads.                          *)
LEMMA StillCarried ==
  ASSUME Grown
  PROVE  /\ \A s \in Seq(Carried): s \in Seq(Carried')
         /\ \A h \in Held: h \in Held'
<1>1. Carried \subseteq Carried'
  BY DEF Grown, Carried
<1>2. Held \subseteq Held'
  BY DEF Grown, Held
<1> QED BY <1>1, <1>2, SeqGrows

LEMMA BroadcastCarried ==
  ASSUME Flow, Grown, NEW f \in Carried', Broadcast(<<f>>)
  PROVE  frames' \in Seq(Carried')
<1>1. frames \in Seq(Carried')
  BY StillCarried DEF Flow
<1>2. <<f>> \in Seq(Carried')
  OBVIOUS
<1>3. frames' = frames \o <<f>> \/ frames' = frames
  BY DEF Broadcast
<1> QED BY <1>1, <1>2, <1>3, ConcatProperties

LEMMA FrameTypes ==
  /\ \A m \in Sent: [msg |-> m] \in Carried
  /\ \A M \in SUBSET Sent: [history |-> M] \in Carried
  /\ ReaderIdle \in Held /\ [at |-> "poll"] \in Held /\ [at |-> "hello"] \in Held
  /\ \A M \in SUBSET Sent: [at |-> "answer", got |-> M] \in Held
  /\ \A h \in Held: h.at = "answer" => h.got \in SUBSET Sent
  /\ \A f \in Carried: IF "msg" \in DOMAIN f THEN f.msg \in Sent ELSE f.history \in SUBSET Sent
BY DEF Carried, Held, ReaderIdle

LEMMA ReadersFlow ==
  ASSUME Flow, Grown, NEW r \in Readers,
         JoinAgain(r) \/ HistoryFrame(r) \/ Poll(r) \/ PollLoaded(r) \/ PollLost(r)
  PROVE  Flow'
<1>1. UNCHANGED <<text, hist, shown>> /\ Sent' = Sent
  BY Unsaid DEF JoinAgain, HistoryFrame, Poll, PollLoaded, PollLost, promiseVars, display
<1>2. Carried' = Carried /\ Held' = Held /\ hist \in SUBSET Sent
  BY <1>1 DEF Carried, Held, Flow
<1>3. link' \in {"down", "open", "known", "joined"}
  BY DEF Flow, JoinAgain, HistoryFrame, Poll, PollLoaded, PollLost
<1>4. frames' \in Seq(Carried)
  <2>1. CASE JoinAgain(r)
    <3>1. <<[history |-> Latest(hist, HelloTail)]>> \in Seq(Carried)
      BY <1>2, FrameTypes, LatestPart
    <3> QED BY <2>1, <3>1 DEF JoinAgain, Flow
  <2>2. CASE HistoryFrame(r)
    <3>1. PICK got \in SUBSET Msg: Loaded(got) /\ Broadcast(<<[history |-> Latest(got, HelloTail)]>>)
      BY <2>2 DEF HistoryFrame
    <3>2. [history |-> Latest(got, HelloTail)] \in Carried
      BY <1>2, <3>1, FrameTypes, LatestPart DEF Loaded
    <3> QED BY <1>2, <3>1, <3>2, BroadcastCarried
  <2>3. CASE Poll(r) \/ PollLoaded(r) \/ PollLost(r)
    BY <2>3 DEF Flow, Poll, PollLoaded, PollLost
  <2> QED BY <2>1, <2>2, <2>3
<1>5. reader' \in [Readers -> Held]
  <2>1. CASE JoinAgain(r) \/ HistoryFrame(r) \/ PollLost(r)
    BY <2>1, FrameTypes DEF Flow, JoinAgain, HistoryFrame, PollLost
  <2>2. CASE Poll(r)
    BY <1>2, <2>2, FrameTypes, LatestPart DEF Flow, Poll
  <2>3. CASE PollLoaded(r)
    <3>1. PICK got \in SUBSET Msg:
            /\ Loaded(got)
            /\ reader' = [reader EXCEPT ![r] = [at |-> "answer", got |-> Latest(got, PollTail)]]
      BY <2>3 DEF PollLoaded
    <3>2. [at |-> "answer", got |-> Latest(got, PollTail)] \in Held
      BY <1>2, <3>1, FrameTypes, LatestPart DEF Loaded
    <3> QED BY <3>1, <3>2 DEF Flow
  <2> QED BY <2>1, <2>2, <2>3
<1> QED BY <1>1, <1>2, <1>3, <1>4, <1>5 DEF Flow, Grown

LEMMA ReadFrameFlow ==
  ASSUME Flow, Hand, Grown, ReadFrame
  PROVE  Flow' /\ (\/ \E m \in Sent: Upsert(m)
                   \/ \E M \in SUBSET Sent: MergeHistory(M))
<1> DEFINE f == Head(frames)
<1>1. f \in Carried /\ frames' \in Seq(Carried)
  BY HeadTailProperties DEF ReadFrame, Flow
<1>2. IF "msg" \in DOMAIN f THEN f.msg \in Sent /\ Upsert(f.msg)
                            ELSE f.history \in SUBSET Sent /\ MergeHistory(f.history)
  BY <1>1, FrameTypes DEF ReadFrame
<1>3. shown' \subseteq Sent
  BY <1>2, UpsertPart, MergePart DEF Hand, Flow
<1>4. UNCHANGED <<text, hist, link, reader>> /\ Sent' = Sent
  BY Unsaid DEF ReadFrame, promiseVars
<1>5. Carried' = Carried /\ Held' = Held
  BY <1>4 DEF Carried, Held
<1> QED BY <1>1, <1>2, <1>3, <1>4, <1>5 DEF Flow

LEMMA AnswersFlow ==
  ASSUME Flow, Hand, Grown,
         (\E r \in Readers: PollAnswered(r)) \/ (\E k \in Sends: PostAnswered(k))
  PROVE  Flow' /\ (\/ \E m \in Sent: Upsert(m)
                   \/ \E M \in SUBSET Sent: MergeHistory(M))
<1>1. ASSUME NEW r \in Readers, PollAnswered(r)
      PROVE  Flow' /\ \E M \in SUBSET Sent: MergeHistory(M)
  <2>1. reader[r].got \in SUBSET Sent /\ MergeHistory(reader[r].got)
    BY <1>1, FrameTypes DEF PollAnswered, Flow
  <2>2. shown' \subseteq Sent
    BY <2>1, MergePart
  <2>3. UNCHANGED <<text, hist, link, frames>> /\ Sent' = Sent /\ reader' \in [Readers -> Held]
    BY <1>1, Unsaid, FrameTypes DEF PollAnswered, promiseVars, Flow
  <2>4. Carried' = Carried /\ Held' = Held
    BY <2>3 DEF Carried, Held
  <2> QED BY <2>1, <2>2, <2>3, <2>4 DEF Flow
<1>2. ASSUME NEW k \in Sends, PostAnswered(k)
      PROVE  Flow' /\ \E m \in Sent: Upsert(m)
  <2>1. out[k].msg \in Msg /\ text[out[k].msg] # "none" /\ Upsert(out[k].msg)
    BY <1>2 DEF PostAnswered, Hand, Outs
  <2>2. out[k].msg \in Sent
    BY <2>1 DEF Sent
  <2>3. shown' \subseteq Sent
    BY <2>1, <2>2, UpsertPart DEF Hand, Flow
  <2>4. UNCHANGED <<text, hist, link, frames, reader>> /\ Sent' = Sent
    BY <1>2, Unsaid DEF PostAnswered, promiseVars
  <2>5. Carried' = Carried /\ Held' = Held
    BY <2>4 DEF Carried, Held
  <2> QED BY <2>1, <2>2, <2>3, <2>4, <2>5 DEF Flow
<1> QED BY <1>1, <1>2

LEMMA QuietFlow ==
  ASSUME Flow, Grown,
         \/ Open \/ Identified \/ Drop \/ Restart \/ HistoryStep
         \/ \E k \in Sends: \/ FrameIgnored(k) \/ PostFailed(k)
                            \/ \E t \in Texts: SendChat(k, t)
  PROVE  Flow'
<1>1. UNCHANGED text /\ shown' \subseteq shown /\ Sent' = Sent
  BY Unsaid, RoomPart DEF Open, Identified, Drop, Restart, HistoryStep, FrameIgnored, PostFailed,
                SendChat, Forgotten, Reloaded, promiseVars, display
<1>2. Carried' = Carried /\ Held' = Held
  BY <1>1 DEF Carried, Held
<1>3. link' \in {"down", "open", "known", "joined"} /\ frames' \in {<<>>, frames}
  BY DEF Open, Identified, Drop, Restart, HistoryStep, FrameIgnored, PostFailed, SendChat, Flow
<1>4. reader' \in [Readers -> Held]
  BY FrameTypes DEF Open, Identified, Drop, Restart, HistoryStep, FrameIgnored, PostFailed, SendChat, Flow
<1> QED BY <1>1, <1>2, <1>3, <1>4, EmptySeq DEF Flow, Grown

LEMMA SpeechFlow == ASSUME Flow, Hand, Grown, Speaks PROVE Flow'
<1>1. UNCHANGED <<shown, reader>> /\ link' \in {"down", "open", "known", "joined"}
  BY DEF Speaks, OtherSays, JoinFirst, PaxOutboundChat, display, Flow
<1>2. ASSUME NEW m \in Msg, NEW t \in Texts \cup {Other}, Say(m, t)
      PROVE  [msg |-> m] \in Carried' /\ [history |-> Latest(hist', HelloTail)] \in Carried'
  <2>1. m \in Sent' /\ Latest(hist', HelloTail) \in SUBSET Sent'
    BY <1>2, SaidGrows, LatestPart DEF Grown
  <2> QED BY <2>1 DEF Carried
<1>3. frames' \in Seq(Carried')
  <2>1. CASE OtherSays
    BY <1>2, <2>1, BroadcastCarried DEF OtherSays
  <2>2. CASE JoinFirst
    <3>1. PICK m \in Msg: Say(m, Other) /\ frames' = <<[msg |-> m], [history |-> Latest(hist', HelloTail)]>>
      BY <2>2 DEF JoinFirst
    <3>2. [msg |-> m] \in Carried' /\ [history |-> Latest(hist', HelloTail)] \in Carried'
      BY <1>2, <3>1
    <3> QED BY <3>1, <3>2
  <2>3. ASSUME NEW k \in Sends, PaxOutboundChat(k) PROVE frames' \in Seq(Carried')
    <3>1. PICK m \in Msg: Say(m, wrote[k]) /\ Broadcast(<<[msg |-> m]>>)
      BY <2>3 DEF PaxOutboundChat
    <3>2. [msg |-> m] \in Carried'
      BY <1>2, <2>3, <3>1, SpokenWord
    <3> QED BY <3>1, <3>2, BroadcastCarried
  <2> QED BY <2>1, <2>2, <2>3 DEF Speaks
<1>4. shown \subseteq Sent' /\ reader \in [Readers -> Held']
  BY StillCarried DEF Flow, Grown
<1> QED BY <1>1, <1>3, <1>4 DEF Flow, Grown

LEMMA FlowStep == ASSUME Flow, Hand, PageNext PROVE Flow'
<1>1. Grown
  BY SilentGrows, SpeechGrows
<1>2. CASE Speaks
  BY <1>1, <1>2, SpeechFlow
<1>3. CASE ~Speaks
  BY <1>1, <1>3, ReadersFlow, ReadFrameFlow, AnswersFlow, QuietFlow DEF PageNext, Speaks
<1> QED BY <1>2, <1>3

-----------------------------------------------------------------------------
(* Hand.                                                                       *)
LEMMA OutTypes ==
  /\ Over \in Outs /\ [at |-> "post"] \in Outs /\ [at |-> "socket"] \in Outs
  /\ \A m \in Msg: [at |-> "answer", msg |-> m] \in Outs
  /\ \A o \in Outs: o.at = "answer" => o.msg \in Msg
  /\ Over.at = "done"
BY DEF Outs, Over

(* Nothing is said, and of what is on its way some is over.                    *)
LEMMA HandFades ==
  ASSUME Hand, UNCHANGED <<text, wrote>>, locals' \subseteq locals,
         out' \in [Sends -> Outs], \A k \in Sends: out'[k] \in {out[k], Over},
         \A k \in Sends: out'[k] = Over => out[k].at # "none" \/ out[k] = Over
  PROVE  Hand' /\ \A t \in Texts: Going(t)' \subseteq Going(t)
<1>1. \A k \in Sends: out'[k].at # "none" => out[k].at # "none"
  BY OutTypes
<1>2. \A k \in Sends: out'[k].at = "answer" => out'[k] = out[k]
  BY OutTypes
<1>3. Hand'
  BY <1>1, <1>2 DEF Hand
<1>4. \A k \in Sends: out'[k].at \in {"socket", "post"} => out'[k] = out[k]
  BY OutTypes
<1> QED BY <1>3, <1>4 DEF Going

LEMMA FadingSteps ==
  ASSUME Flow, Hand, PageNext, ~Speaks, ~\E k \in Sends, t \in Texts: SendChat(k, t)
  PROVE  Hand' /\ UNCHANGED wrote /\ \A t \in Texts: Going(t)' \subseteq Going(t)
<1>1. UNCHANGED text
  BY SilentGrows
<1>2. UNCHANGED wrote
  BY DEF PageNext, Speaks, JoinAgain, HistoryFrame, Poll, PollLoaded, PollAnswered, PollLost,
         FrameIgnored, PostAnswered, PostFailed, Open, Identified, Drop, ReadFrame, Restart,
         HistoryStep
<1>3. locals' \subseteq locals
  <2>1. locals \subseteq Sends
    BY DEF Hand
  <2>2. \A m: Upsert(m) => locals' \subseteq locals
    BY <2>1, UpsertPart
  <2>3. \A M: MergeHistory(M) => locals' \subseteq locals
    BY MergePart
  <2> QED BY <2>2, <2>3
          DEF PageNext, Speaks, JoinAgain, HistoryFrame, Poll, PollLoaded, PollAnswered, PollLost,
              FrameIgnored, PostAnswered, PostFailed, Open, Identified, Drop, ReadFrame, Restart,
              HistoryStep, display
<1>4. \/ UNCHANGED out
      \/ \E k \in Sends: out[k].at # "none" /\ out' = [out EXCEPT ![k] = Over]
      \/ out' = [k \in Sends |-> IF out[k].at = "socket" THEN Over ELSE out[k]]
  BY DEF PageNext, Speaks, JoinAgain, HistoryFrame, Poll, PollLoaded, PollAnswered, PollLost,
         FrameIgnored, PostAnswered, PostFailed, Open, Identified, Drop, ReadFrame, Restart,
         HistoryStep
<1>5. /\ out' \in [Sends -> Outs] /\ \A k \in Sends: out'[k] \in {out[k], Over}
      /\ \A k \in Sends: out'[k] = Over => out[k].at # "none" \/ out[k] = Over
  BY <1>4, OutTypes DEF Hand
<1> QED BY <1>1, <1>2, <1>3, <1>5, HandFades

-----------------------------------------------------------------------------
(* Counted: a message that is said was written, and said once.                 *)
LEMMA Parts ==
  ASSUME Flow, Hand, NEW t \in Texts
  PROVE  /\ Said(t) \subseteq Msg /\ Going(t) \subseteq Written(t) /\ Written(t) \subseteq Sends
         /\ OnShow(t) \subseteq Said(t) /\ Copies(t) \subseteq Written(t)
         /\ Cardinality(Said(t)) \in Nat /\ Cardinality(Going(t)) \in Nat
         /\ Cardinality(Written(t)) \in Nat
         /\ Cardinality(OnShow(t)) \in Nat /\ Cardinality(Copies(t)) \in Nat
<1>1. /\ Said(t) \subseteq Msg /\ Going(t) \subseteq Written(t) /\ Written(t) \subseteq Sends
      /\ OnShow(t) \subseteq Said(t) /\ Copies(t) \subseteq Written(t)
  BY DEF Flow, Hand, Said, Sent, Going, Written, OnShow, Copies
<1>2. /\ Going(t) \subseteq Sends /\ OnShow(t) \subseteq Msg /\ Copies(t) \subseteq Sends
  BY <1>1
<1> QED BY <1>1, <1>2, SmallCounts

LEMMA FadingCounts ==
  ASSUME Flow, Hand, Counted, Flow', Hand', UNCHANGED <<text, wrote>>,
         \A t \in Texts: Going(t)' \subseteq Going(t)
  PROVE  Counted'
<1> SUFFICES ASSUME NEW t \in Texts
             PROVE  Cardinality(Said(t)') + Cardinality(Going(t)') <= Cardinality(Written(t)')
  BY DEF Counted
<1>1. Said(t)' = Said(t) /\ Written(t)' = Written(t)
  BY Unsaid DEF Said, Written
<1>2. Going(t) \subseteq Sends
  BY DEF Going
<1>3. Cardinality(Going(t)') <= Cardinality(Going(t)) /\ Cardinality(Going(t)') \in Nat
  BY <1>2, SmallerCounts, SmallCounts
<1> QED BY <1>1, <1>3, Parts DEF Counted

LEMMA OthersStep ==
  ASSUME PageIInv, Flow', OtherSays \/ JoinFirst
  PROVE  PageIInv'
<1>1. UNCHANGED <<wrote, out, shown, locals>>
  BY DEF OtherSays, JoinFirst, display
<1>2. PICK m \in Msg: Say(m, Other)
  BY DEF OtherSays, JoinFirst
<1>3. /\ Sent' = Sent \cup {m} /\ m \notin Sent /\ text'[m] = Other
      /\ \A n \in Msg \ {m}: text'[n] = text[n]
  BY <1>2, SaidGrows DEF PageIInv
<1>4. \A k \in Sends: out[k].at = "answer" => out[k].msg # m
  BY <1>3 DEF PageIInv, Hand, Sent, Outs
<1>5. Hand'
  BY <1>1, <1>3, <1>4, OutTypes DEF PageIInv, Hand
<1>6. ASSUME NEW t \in Texts
      PROVE  /\ Said(t)' = Said(t) /\ Going(t)' = Going(t) /\ Written(t)' = Written(t)
             /\ OnShow(t)' = OnShow(t) /\ Copies(t)' = Copies(t)
  <2>1. Other # t
    BY ChatAssumption
  <2>2. Sent \subseteq Msg /\ shown \subseteq Sent
    BY DEF Sent, PageIInv, Flow
  <2>3. Said(t)' = Said(t)
    BY <1>3, <2>1, <2>2 DEF Said
  <2>4. OnShow(t)' = OnShow(t)
    BY <1>1, <1>3, <2>2 DEF OnShow
  <2> QED BY <1>1, <2>3, <2>4 DEF Going, Written, Copies
<1>7. Counted'
  BY <1>6 DEF PageIInv, Counted
<1>8. ShownOnce'
  BY <1>6 DEF PageIInv, ShownOnce, OnShow, Copies, Written
<1> QED BY <1>5, <1>7, <1>8 DEF PageIInv

LEMMA OutboundStep ==
  ASSUME PageIInv, Flow', NEW k \in Sends, PaxOutboundChat(k)
  PROVE  PageIInv'
<1>1. UNCHANGED <<wrote, shown, locals>> /\ wrote[k] \in Texts /\ out[k].at \in {"post", "socket"}
  BY SpokenWord DEF PaxOutboundChat, display, PageIInv
<1>2. PICK m \in Msg:
        /\ Say(m, wrote[k])
        /\ out' = [out EXCEPT ![k] = IF out[k].at = "post" THEN [at |-> "answer", msg |-> m] ELSE Over]
  BY DEF PaxOutboundChat
<1>3. /\ Sent' = Sent \cup {m} /\ m \notin Sent /\ text'[m] = wrote[k]
      /\ \A n \in Msg \ {m}: text'[n] = text[n]
  BY <1>1, <1>2, SaidGrows DEF PageIInv
<1>4. /\ out' \in [Sends -> Outs] /\ out'[k].at \in {"answer", "done"}
      /\ out'[k].at = "answer" => out'[k].msg = m
      /\ \A j \in Sends \ {k}: out'[j] = out[j]
  <2> DEFINE o == IF out[k].at = "post" THEN [at |-> "answer", msg |-> m] ELSE Over
  <2>1. o \in Outs /\ o.at \in {"answer", "done"} /\ (o.at = "answer" => o.msg = m)
    BY OutTypes
  <2>2. out' = [out EXCEPT ![k] = o]
    BY <1>2
  <2> HIDE DEF o
  <2> QED BY <2>1, <2>2 DEF PageIInv, Hand
<1>5. \A j \in Sends: out[j].at = "answer" => out[j].msg \in Msg \ {m}
  BY <1>3, OutTypes DEF PageIInv, Hand, Sent
<1>6. Hand'
  <2>1. \A j \in Sends: out'[j].at # "none" => wrote[j] # "none"
    BY <1>1, <1>4, ChatAssumption DEF PageIInv, Hand
  <2>2. \A j \in Sends: out'[j].at = "answer" => text'[out'[j].msg] = wrote[j]
    <3> SUFFICES ASSUME NEW j \in Sends, out'[j].at = "answer" PROVE text'[out'[j].msg] = wrote[j]
      OBVIOUS
    <3>1. CASE j = k
      BY <1>3, <1>4, <3>1
    <3>2. CASE j # k
      BY <1>3, <1>4, <1>5, <3>2 DEF PageIInv, Hand
    <3> QED BY <3>1, <3>2
  <2> QED BY <1>1, <1>4, <2>1, <2>2 DEF PageIInv, Hand
<1>7. ASSUME NEW t \in Texts
      PROVE  /\ Written(t)' = Written(t) /\ OnShow(t)' = OnShow(t) /\ Copies(t)' = Copies(t)
             /\ Cardinality(Said(t)') + Cardinality(Going(t)') =
                  Cardinality(Said(t)) + Cardinality(Going(t))
  <2>1. Sent \subseteq Msg /\ shown \subseteq Sent
    BY DEF Sent, PageIInv, Flow
  <2>2. OnShow(t)' = OnShow(t)
    BY <1>1, <1>3, <2>1 DEF OnShow
  <2>3. CASE t = wrote[k]
    <3>1. Said(t)' = Said(t) \cup {m} /\ m \notin Said(t)
      BY <1>3, <2>1, <2>3 DEF Said
    <3>2. Going(t)' = Going(t) \ {k} /\ k \in Going(t)
      BY <1>1, <1>4, <2>3 DEF Going
    <3>3. Said(t) \subseteq Msg /\ Going(t) \subseteq Sends
      BY <2>1 DEF Said, Going
    <3>4. Cardinality(Said(t)') = Cardinality(Said(t)) + 1
      BY <3>1, <3>3, OneMore
    <3>5. Cardinality(Going(t)') = Cardinality(Going(t)) - 1
      BY <3>2, <3>3, OneLess
    <3>6. Cardinality(Said(t)) \in Nat /\ Cardinality(Going(t)) \in Nat
      BY <3>3, SmallCounts
    <3> QED BY <1>1, <2>2, <3>4, <3>5, <3>6 DEF Written, Copies
  <2>4. CASE t # wrote[k]
    <3>1. Said(t)' = Said(t)
      BY <1>3, <2>1, <2>4 DEF Said
    <3>2. Going(t)' = Going(t)
      BY <1>1, <1>4, <2>4 DEF Going
    <3> QED BY <1>1, <2>2, <3>1, <3>2 DEF Written, Copies
  <2> QED BY <2>3, <2>4
<1>8. Counted'
  BY <1>7 DEF PageIInv, Counted
<1>9. ShownOnce'
  BY <1>7 DEF PageIInv, ShownOnce, OnShow, Copies, Written
<1> QED BY <1>6, <1>8, <1>9 DEF PageIInv

LEMMA SendChatStep ==
  ASSUME PageIInv, Flow', NEW k \in Sends, NEW t \in Texts, SendChat(k, t)
  PROVE  PageIInv'
<1>1. /\ UNCHANGED <<text, hist>> /\ wrote[k] = "none" /\ Sent' = Sent
      /\ wrote' = [wrote EXCEPT ![k] = t]
      /\ shown' \subseteq shown /\ locals' \subseteq locals \cup {k}
  BY Unsaid, RoomPart DEF SendChat, promiseVars, PageIInv
<1>2. out' \in [Sends -> Outs] /\ out'[k].at \in {"post", "socket"}
      /\ \A j \in Sends \ {k}: out'[j] = out[j]
  <2> DEFINE o == [at |-> IF link = "down" THEN "post" ELSE "socket"]
  <2>1. o \in Outs /\ o.at \in {"post", "socket"}
    BY DEF Outs
  <2>2. out' = [out EXCEPT ![k] = o]
    BY DEF SendChat
  <2> HIDE DEF o
  <2> QED BY <2>1, <2>2 DEF PageIInv, Hand
<1>3. wrote' \in [Sends -> Texts \cup {"none"}] /\ wrote'[k] = t /\ t # "none"
      /\ \A j \in Sends \ {k}: wrote'[j] = wrote[j]
  BY <1>1, ChatAssumption DEF PageIInv, Hand
<1>4. k \notin locals /\ out[k].at = "none"
  BY <1>1 DEF PageIInv, Hand
<1>5. Hand'
  <2>1. \A j \in locals': wrote'[j] # "none"
    BY <1>1, <1>3 DEF PageIInv, Hand
  <2>2. \A j \in Sends: out'[j].at # "none" => wrote'[j] # "none"
    BY <1>2, <1>3 DEF PageIInv, Hand
  <2>3. \A j \in Sends: out'[j].at = "answer" => text'[out'[j].msg] = wrote'[j]
    BY <1>1, <1>2, <1>3 DEF PageIInv, Hand
  <2>4. locals' \subseteq Sends
    BY <1>1 DEF PageIInv, Hand
  <2> QED BY <1>2, <1>3, <2>1, <2>2, <2>3, <2>4 DEF Hand
<1>6. ASSUME NEW s \in Texts
      PROVE  /\ Said(s)' = Said(s) /\ OnShow(s)' \subseteq OnShow(s)
             /\ IF s = t THEN /\ Going(s)' = Going(s) \cup {k} /\ k \notin Going(s)
                              /\ Written(s)' = Written(s) \cup {k} /\ k \notin Written(s)
                              /\ Copies(s)' \subseteq Copies(s) \cup {k} /\ k \notin Copies(s)
                         ELSE /\ Going(s)' = Going(s) /\ Written(s)' = Written(s)
                              /\ Copies(s)' \subseteq Copies(s)
  <2>1. Said(s)' = Said(s) /\ OnShow(s)' \subseteq OnShow(s)
    BY <1>1 DEF Said, OnShow
  <2>2. "none" # s
    BY ChatAssumption
  <2>3. CASE s = t
    BY <1>1, <1>2, <1>3, <1>4, <2>1, <2>2, <2>3 DEF Going, Written, Copies, PageIInv, Hand
  <2>4. CASE s # t
    BY <1>1, <1>2, <1>3, <1>4, <2>1, <2>2, <2>4 DEF Going, Written, Copies, PageIInv, Hand
  <2> QED BY <2>3, <2>4
<1>7. ASSUME NEW s \in Texts
      PROVE  /\ Cardinality(Said(s)') + Cardinality(Going(s)') <= Cardinality(Written(s)')
             /\ Cardinality(OnShow(s)') + Cardinality(Copies(s)') <= Cardinality(Written(s)')
  <2>1. /\ Cardinality(Said(s)) + Cardinality(Going(s)) <= Cardinality(Written(s))
        /\ Cardinality(OnShow(s)) + Cardinality(Copies(s)) <= Cardinality(Written(s))
    BY DEF PageIInv, Counted, ShownOnce, OnShow, Copies, Written
  <2>4. Cardinality(OnShow(s)') <= Cardinality(OnShow(s)) /\ Cardinality(OnShow(s)') \in Nat
    <3>1. OnShow(s) \subseteq Msg
      BY Parts DEF PageIInv
    <3> QED BY <1>6, <3>1, SmallerCounts, SmallCounts
  <2>2. CASE s = t
    <3>1. Going(s) \subseteq Sends /\ Written(s) \subseteq Sends /\ Copies(s) \subseteq Sends
      BY DEF Going, Written, Copies, PageIInv, Hand
    <3>2. /\ Cardinality(Going(s)') = Cardinality(Going(s)) + 1
          /\ Cardinality(Written(s)') = Cardinality(Written(s)) + 1
          /\ Cardinality(Copies(s) \cup {k}) = Cardinality(Copies(s)) + 1
      BY <1>6, <2>2, <3>1, OneMore
    <3>3. Cardinality(Copies(s)') <= Cardinality(Copies(s)) + 1 /\ Cardinality(Copies(s)') \in Nat
      <4>1. Copies(s) \cup {k} \subseteq Sends /\ Copies(s)' \subseteq Copies(s) \cup {k}
        BY <1>6, <2>2, <3>1
      <4> QED BY <3>2, <4>1, SmallerCounts, SmallCounts
    <3> QED BY <1>6, <2>1, <2>4, <3>2, <3>3, Parts DEF PageIInv
  <2>3. CASE s # t
    <3>1. Cardinality(Copies(s)') <= Cardinality(Copies(s)) /\ Cardinality(Copies(s)') \in Nat
      <4>1. Copies(s) \subseteq Sends /\ Copies(s)' \subseteq Copies(s)
        BY <1>6, <2>3 DEF Copies, PageIInv, Hand
      <4> QED BY <4>1, SmallerCounts, SmallCounts
    <3> QED BY <1>6, <2>1, <2>3, <2>4, <3>1, Parts DEF PageIInv
  <2> QED BY <2>2, <2>3
<1>8. Counted' /\ ShownOnce'
  BY <1>7 DEF Counted, ShownOnce, OnShow, Copies, Written
<1> QED BY <1>5, <1>8 DEF PageIInv

-----------------------------------------------------------------------------
(* ShownOnce: what a merge displays was sent, and takes the place of a copy.   *)
LEMMA FewerShown ==
  ASSUME PageIInv, NEW t \in Texts,
         OnShow(t)' \subseteq OnShow(t), Copies(t)' \subseteq Copies(t)
  PROVE  Cardinality(OnShow(t)') + Cardinality(Copies(t)') <= Cardinality(Written(t))
<1>1. OnShow(t) \subseteq Msg /\ Copies(t) \subseteq Sends
  BY Parts DEF PageIInv
<1>2. /\ Cardinality(OnShow(t)') <= Cardinality(OnShow(t)) /\ Cardinality(OnShow(t)') \in Nat
      /\ Cardinality(Copies(t)') <= Cardinality(Copies(t)) /\ Cardinality(Copies(t)') \in Nat
  BY <1>1, SmallerCounts, SmallCounts
<1>3. Cardinality(OnShow(t)) + Cardinality(Copies(t)) <= Cardinality(Written(t))
  BY DEF PageIInv, ShownOnce, OnShow, Copies, Written
<1> QED BY <1>2, <1>3, Parts DEF PageIInv

LEMMA UpsertOnce ==
  ASSUME PageIInv, NEW m \in Sent, Upsert(m), UNCHANGED <<text, wrote>>
  PROVE  ShownOnce'
<1> SUFFICES ASSUME NEW t \in Texts
             PROVE  Cardinality(OnShow(t)') + Cardinality(Copies(t)') <= Cardinality(Written(t)')
  BY DEF ShownOnce, OnShow, Copies, Written
<1>1. /\ Cardinality(OnShow(t)) + Cardinality(Copies(t)) <= Cardinality(Written(t))
      /\ Cardinality(Said(t)) + Cardinality(Going(t)) <= Cardinality(Written(t))
  BY DEF PageIInv, Counted, ShownOnce, OnShow, Copies, Written
<1>2. Written(t)' = Written(t)
  BY DEF Written
<1> DEFINE copies == {k \in locals: wrote[k] = text[m]}
<1>3. \/ UNCHANGED <<shown, locals>>
      \/ m \notin shown /\ copies # {} /\ shown' = shown \cup {m} /\ locals' = locals \ {Min(copies)}
      \/ copies = {} /\ shown' \subseteq shown \cup {m} /\ locals' \subseteq locals
  BY RoomPart DEF Upsert, display
<1>4. copies \subseteq Sends /\ (text[m] = t => copies = Copies(t))
  BY DEF PageIInv, Hand, Copies
<1>5. copies # {} => Min(copies) \in copies
  BY <1>4, FirstCopy
<1>6. CASE text[m] # t \/ UNCHANGED <<shown, locals>>
  <2>1. OnShow(t)' \subseteq OnShow(t)
    BY <1>3, <1>6 DEF OnShow
  <2>2. Copies(t)' \subseteq Copies(t)
    BY <1>3, <1>6 DEF Copies
  <2> QED BY <1>1, <1>2, <2>1, <2>2, FewerShown
<1>7. CASE /\ text[m] = t /\ m \notin shown /\ copies # {}
           /\ shown' = shown \cup {m} /\ locals' = locals \ {Min(copies)}
  <2>1. OnShow(t)' = OnShow(t) \cup {m} /\ m \notin OnShow(t)
    BY <1>7 DEF OnShow
  <2>2. Copies(t)' = Copies(t) \ {Min(copies)} /\ Min(copies) \in Copies(t)
    BY <1>4, <1>5, <1>7 DEF Copies
  <2>3. OnShow(t) \subseteq Msg /\ Copies(t) \subseteq Sends
    BY <1>4, <1>7, Parts DEF PageIInv
  <2>4. Cardinality(OnShow(t)') = Cardinality(OnShow(t)) + 1
    BY <2>1, <2>3, OneMore
  <2>5. Cardinality(Copies(t)') = Cardinality(Copies(t)) - 1
    BY <2>2, <2>3, OneLess
  <2> QED BY <1>1, <1>2, <2>4, <2>5, Parts DEF PageIInv
<1>8. CASE /\ text[m] = t /\ copies = {}
           /\ shown' \subseteq shown \cup {m} /\ locals' \subseteq locals
  <2>1. Copies(t)' = {}
    BY <1>4, <1>8 DEF Copies
  <2>2. OnShow(t)' \subseteq Said(t) /\ Said(t) \subseteq Msg
    <3>1. OnShow(t)' \subseteq OnShow(t) \cup {m}
      BY <1>8 DEF OnShow
    <3> QED BY <1>8, <3>1, Parts DEF PageIInv, Said
  <2>3. Cardinality(OnShow(t)') <= Cardinality(Said(t)) /\ Cardinality(OnShow(t)') \in Nat
    BY <2>2, SmallerCounts, SmallCounts
  <2> QED BY <1>1, <1>2, <2>1, <2>3, Parts, FS_EmptySet DEF PageIInv
<1> QED BY <1>3, <1>6, <1>7, <1>8

LEMMA MergeOnce ==
  ASSUME PageIInv, NEW M \in SUBSET Sent, MergeHistory(M), UNCHANGED <<text, wrote>>
  PROVE  ShownOnce'
<1> SUFFICES ASSUME NEW t \in Texts
             PROVE  Cardinality(OnShow(t)') + Cardinality(Copies(t)') <= Cardinality(Written(t)')
  BY DEF ShownOnce, OnShow, Copies, Written
<1>1. Written(t)' = Written(t) /\ Written(t) \subseteq Sends
  BY DEF Written
<1>2. shown' \subseteq M /\ locals' \subseteq {k \in locals: \A m \in M: text[m] # wrote[k]}
  BY MergePart
<1>3. CASE \E m \in M: text[m] = t
  <2>1. Copies(t)' = {}
    BY <1>2, <1>3 DEF Copies
  <2>2. OnShow(t)' \subseteq Said(t) /\ Said(t) \subseteq Msg
    BY <1>2, Parts DEF PageIInv, OnShow, Said
  <2>3. Cardinality(OnShow(t)') <= Cardinality(Said(t)) /\ Cardinality(OnShow(t)') \in Nat
    BY <2>2, SmallerCounts, SmallCounts
  <2> QED BY <1>1, <2>1, <2>3, Parts, FS_EmptySet DEF PageIInv, Counted
<1>4. CASE ~\E m \in M: text[m] = t
  <2>1. OnShow(t)' = {}
    BY <1>2, <1>4 DEF OnShow
  <2>2. Copies(t)' \subseteq Written(t)
    BY <1>2 DEF Copies, Written, PageIInv, Hand
  <2>3. Cardinality(Copies(t)') <= Cardinality(Written(t)) /\ Cardinality(Copies(t)') \in Nat
    BY <1>1, <2>2, SmallerCounts, SmallCounts
  <2> QED BY <1>1, <2>1, <2>3, FS_EmptySet
<1> QED BY <1>3, <1>4

LEMMA FadingOnce ==
  ASSUME PageIInv, UNCHANGED <<text, wrote, shown>>, locals' \subseteq locals
  PROVE  ShownOnce'
<1> SUFFICES ASSUME NEW t \in Texts
             PROVE  Cardinality(OnShow(t)') + Cardinality(Copies(t)') <= Cardinality(Written(t)')
  BY DEF ShownOnce, OnShow, Copies, Written
<1>1. OnShow(t)' \subseteq OnShow(t) /\ Written(t)' = Written(t) /\ Copies(t)' \subseteq Copies(t)
  BY DEF OnShow, Written, Copies
<1> QED BY <1>1, FewerShown

LEMMA PageStep == ASSUME PageIInv, PageNext PROVE PageIInv'
<1>1. Flow'
  BY FlowStep DEF PageIInv
<1>2. CASE Speaks
  BY <1>1, <1>2, OthersStep, OutboundStep DEF Speaks
<1>3. CASE \E k \in Sends, t \in Texts: SendChat(k, t)
  BY <1>1, <1>3, SendChatStep
<1>4. CASE ~Speaks /\ ~\E k \in Sends, t \in Texts: SendChat(k, t)
  <2>1. UNCHANGED text /\ Grown
    BY <1>4, SilentGrows DEF PageIInv
  <2>2. Hand' /\ UNCHANGED wrote /\ \A t \in Texts: Going(t)' \subseteq Going(t)
    BY <1>4, FadingSteps DEF PageIInv
  <2>3. Counted'
    BY <1>1, <2>1, <2>2, FadingCounts DEF PageIInv
  <2>4. \/ \E m \in Sent: Upsert(m)
        \/ \E M \in SUBSET Sent: MergeHistory(M)
        \/ UNCHANGED shown /\ locals' \subseteq locals
    <3>1. CASE ReadFrame
      BY <2>1, <3>1, ReadFrameFlow DEF PageIInv
    <3>2. CASE (\E r \in Readers: PollAnswered(r)) \/ (\E k \in Sends: PostAnswered(k))
      BY <2>1, <3>2, AnswersFlow DEF PageIInv
    <3>3. CASE ~ReadFrame /\ ~(\E r \in Readers: PollAnswered(r))
               /\ ~(\E k \in Sends: PostAnswered(k))
      BY <1>4, <3>3 DEF PageNext, Speaks, JoinAgain, HistoryFrame, Poll, PollLoaded, PollLost,
         FrameIgnored, PostFailed, Open, Identified, Drop, Restart, HistoryStep, display
    <3> QED BY <3>1, <3>2, <3>3
  <2>5. ShownOnce'
    BY <2>1, <2>2, <2>4, UpsertOnce, MergeOnce, FadingOnce
  <2> QED BY <1>1, <2>2, <2>3, <2>5 DEF PageIInv
<1> QED BY <1>2, <1>3, <1>4

LEMMA PageStarts == PageInit => PageIInv
<1> SUFFICES ASSUME PageInit PROVE PageIInv
  OBVIOUS
<1>1. Sent = {} /\ text \in [Msg -> Words] /\ hist = {}
  BY DEF PageInit, PromiseInit, Sent, Words
<1>2. Flow
  BY <1>1, FrameTypes, EmptySeq DEF PageInit, Flow
<1>3. Hand
  BY DEF PageInit, Hand, Outs
<1>4. ASSUME NEW t \in Texts
      PROVE  Said(t) = {} /\ Going(t) = {} /\ OnShow(t) = {} /\ Copies(t) = {}
  BY <1>1 DEF PageInit, Said, Going, OnShow, Copies
<1>7. ASSUME NEW t \in Texts
      PROVE  /\ Cardinality(Said(t)) + Cardinality(Going(t)) <= Cardinality(Written(t))
             /\ Cardinality(OnShow(t)) + Cardinality(Copies(t)) <= Cardinality(Written(t))
  <2>1. Cardinality(Written(t)) \in Nat
    BY <1>2, <1>3, Parts
  <2>2. /\ Cardinality(Said(t)) = 0 /\ Cardinality(Going(t)) = 0
        /\ Cardinality(OnShow(t)) = 0 /\ Cardinality(Copies(t)) = 0
    BY <1>4, FS_EmptySet
  <2> QED BY <2>1, <2>2
<1>5. Counted
  BY <1>7 DEF Counted
<1>6. ShownOnce
  BY <1>7 DEF ShownOnce, OnShow, Copies, Written
<1> QED BY <1>2, <1>3, <1>5, <1>6 DEF PageIInv

LEMMA PageInductive ==
  /\ PageInit => PageIInv
  /\ PageIInv /\ [PageNext]_pageVars => PageIInv'
  /\ PageIInv => PageInv
<1>1. PageIInv /\ [PageNext]_pageVars => PageIInv'
  <2> SUFFICES ASSUME PageIInv, [PageNext]_pageVars PROVE PageIInv'
    OBVIOUS
  <2>1. CASE UNCHANGED pageVars
    <3>1. UNCHANGED <<text, hist, reader, link, frames, wrote, out, shown, locals>>
      BY <2>1 DEF pageVars, promiseVars
    <3> QED BY <3>1 DEF PageIInv, Flow, Hand, Counted, ShownOnce, Said, Going, Written, OnShow,
                        Copies, Sent, Carried, Held
  <2> QED BY <2>1, PageStep
<1>2. PageIInv => PageInv
  <2> SUFFICES ASSUME PageIInv PROVE PageInv
    OBVIOUS
  <2>1. Sent \subseteq Msg
    BY DEF Sent
  <2>2. frames \in Seq(Frame)
    <3>1. Carried \subseteq Frame
      BY <2>1 DEF Carried, Frame
    <3> QED BY <3>1, SeqGrows DEF PageIInv, Flow
  <2>3. reader \in [Readers -> {ReaderIdle} \cup Reader]
    <3>1. Held \subseteq {ReaderIdle} \cup Reader
      BY <2>1 DEF Held, Reader
    <3> QED BY <3>1 DEF PageIInv, Flow
  <2>4. PageTypeOK
    BY <2>1, <2>2, <2>3 DEF PageIInv, Flow, Hand, PageTypeOK, Words, Outs
  <2> QED BY <2>4 DEF PageIInv, Flow, Hand, PageInv
<1> QED BY <1>1, <1>2, PageStarts

(* For any number of messages, of polls under way and of frames: nothing the   *)
(* passenger wrote is displayed twice, whatever echo, answer or history comes  *)
(* first and whatever text is written twice; and nothing is displayed, or held *)
(* by the hub, that was not sent.                                              *)
THEOREM PageInvariant == PageSpec => []PageInv
<1>1. PageInit /\ [][PageNext]_pageVars => []PageIInv
  BY PageInductive, PTL
<1> QED BY <1>1, PageInductive, PTL DEF PageSpec

-----------------------------------------------------------------------------
(* PeerCall: consent. What is under way carries the agreement with it: an      *)
(* accept and an answer tell of one of the other side, an offer is only made   *)
(* to a side that accepted; so whatever connects a page has been accepted by   *)
(* the side it was made to.                                                    *)
Wanted(ag, S) == UNION {ag[q] : q \in S}

SdpFits(ag, p, c, sdp) ==
  /\ sdp.kind = "offer" => c \in Wanted(ag, Side(p))
  /\ sdp.kind = "answer" => c \in Wanted(ag, Listeners(p))

FrameFits(ag, p, f) ==
  /\ f.type = "accept" => f.call \in Wanted(ag, Listeners(p))
  /\ f.type = "signal" => SdpFits(ag, p, f.call, f.sdp)

OpFits(ag, p, o) ==
  /\ o.op = "accept" => o.call \in Wanted(ag, Side(p))
  /\ o.op = "offer" => o.call \in Wanted(ag, Listeners(p))
  /\ o.op = "signal" => SdpFits(ag, p, o.call, o.sdp)

PageFits(ag, p, s) ==
  /\ s.pc.st = "linked" =>
       s.call \in Wanted(ag, IF s.init THEN Listeners(p) ELSE Side(p))
  /\ SdpFits(ag, p, s.call, s.buf)
  /\ s.phase = "idle" => s.call = NoCall
  /\ s.ring => s.call # NoCall

FramesFit(ag, p, q) == q \in Seq(CallFrame) /\ \A i \in 1..Len(q) : FrameFits(ag, p, q[i])
OpsFit(ag, p, q) == q \in Seq(Op) /\ \A i \in 1..Len(q) : OpFits(ag, p, q[i])

CallIInv ==
  /\ CallTypeOK
  /\ \A p \in Peers : /\ PageFits(agreed, p, peer[p])
                      /\ OpsFit(agreed, p, ops[p])
                      /\ FramesFit(agreed, p, inbox[p])

(* The two sides face each other.                                              *)
LEMMA Sides ==
  ASSUME NEW p \in Peers
  PROVE  /\ Listeners(p) \subseteq Peers /\ Side(p) \subseteq Peers /\ p \in Side(p)
         /\ \A q \in Listeners(p) : Listeners(q) = Side(p) /\ Side(q) = Listeners(p)
BY CallAssumption DEF Listeners, Side, Peers

LEMMA WantedCalls ==
  ASSUME NEW ag \in [Peers -> SUBSET CallId], NEW S \in SUBSET Peers,
         NEW c \in Wanted(ag, S)
  PROVE  c \in CallId /\ c # NoCall
<1>1. c \in CallId
  BY DEF Wanted
<1> QED BY <1>1, CallAssumption DEF CallId, NoCall

LEMMA FramesTail ==
  ASSUME NEW ag, NEW p, NEW q, FramesFit(ag, p, q), q # <<>>
  PROVE  /\ Head(q) \in CallFrame /\ FrameFits(ag, p, Head(q))
         /\ FramesFit(ag, p, Tail(q))
<1>1. /\ q \in Seq(CallFrame) /\ Len(q) \in Nat /\ 1 \in 1..Len(q) /\ Head(q) = q[1]
      /\ Tail(q) \in Seq(CallFrame) /\ Len(Tail(q)) = Len(q) - 1
      /\ \A i \in 1..Len(Tail(q)) : Tail(q)[i] = q[i + 1] /\ i + 1 \in 1..Len(q)
  BY DEF FramesFit
<1> QED BY <1>1 DEF FramesFit

LEMMA FramesJoin ==
  ASSUME NEW ag, NEW p, NEW q, FramesFit(ag, p, q), NEW fs, FramesFit(ag, p, fs)
  PROVE  FramesFit(ag, p, q \o fs)
<1>1. q \in Seq(CallFrame) /\ fs \in Seq(CallFrame) /\ q \o fs \in Seq(CallFrame)
  BY DEF FramesFit
<1>2. ASSUME NEW i \in 1..Len(q \o fs) PROVE FrameFits(ag, p, (q \o fs)[i])
  <2>1. /\ Len(q) \in Nat /\ Len(fs) \in Nat /\ Len(q \o fs) = Len(q) + Len(fs)
        /\ (q \o fs)[i] = IF i <= Len(q) THEN q[i] ELSE fs[i - Len(q)]
    BY <1>1
  <2>2. CASE i <= Len(q)
    BY <2>1, <2>2 DEF FramesFit
  <2>3. CASE ~(i <= Len(q))
    <3>1. i - Len(q) \in 1..Len(fs)
      BY <2>1, <2>3
    <3> QED BY <2>1, <2>3, <3>1 DEF FramesFit
  <2> QED BY <2>2, <2>3
<1> QED BY <1>1, <1>2 DEF FramesFit

LEMMA OpsTail ==
  ASSUME NEW ag, NEW p, NEW q, OpsFit(ag, p, q), q # <<>>
  PROVE  Head(q) \in Op /\ OpFits(ag, p, Head(q)) /\ OpsFit(ag, p, Tail(q))
<1>1. /\ q \in Seq(Op) /\ Len(q) \in Nat /\ 1 \in 1..Len(q) /\ Head(q) = q[1]
      /\ Tail(q) \in Seq(Op) /\ Len(Tail(q)) = Len(q) - 1
      /\ \A i \in 1..Len(Tail(q)) : Tail(q)[i] = q[i + 1] /\ i + 1 \in 1..Len(q)
  BY DEF OpsFit
<1> QED BY <1>1 DEF OpsFit

LEMMA OpsAppend ==
  ASSUME NEW ag, NEW p, NEW q, OpsFit(ag, p, q), NEW o \in Op, OpFits(ag, p, o)
  PROVE  OpsFit(ag, p, Append(q, o))
<1>1. /\ q \in Seq(Op) /\ Len(q) \in Nat /\ Append(q, o) \in Seq(Op)
      /\ Len(Append(q, o)) = Len(q) + 1
      /\ \A i \in 1..Len(q) : Append(q, o)[i] = q[i]
      /\ Append(q, o)[Len(q) + 1] = o
  BY DEF OpsFit
<1>2. ASSUME NEW i \in 1..Len(Append(q, o)) PROVE OpFits(ag, p, Append(q, o)[i])
  BY <1>1 DEF OpsFit
<1> QED BY <1>1, <1>2 DEF OpsFit

(* A frame alone fits when it is of the right kind for its call.               *)
LEMMA SingleFrame ==
  ASSUME NEW ag, NEW p, NEW f \in CallFrame, FrameFits(ag, p, f)
  PROVE  FramesFit(ag, p, <<f>>)
BY DEF FramesFit

LEMMA NoFrames == ASSUME NEW ag, NEW p PROVE FramesFit(ag, p, <<>>)
<1>1. <<>> \in Seq(CallFrame) /\ Len(<<>>) = 0
  OBVIOUS
<1> QED BY <1>1 DEF FramesFit

LEMMA CallTypes ==
  ASSUME CallIInv, NEW p \in Peers
  PROVE  /\ peer \in [Peers -> PeerState] /\ peer[p] \in PeerState
         /\ prompt \in [Peers -> BOOLEAN] /\ made \in 0..MaxCall /\ MaxCall \in Nat
         /\ agreed \in [Peers -> SUBSET CallId]
         /\ ops \in [Peers -> Seq(Op)] /\ inbox \in [Peers -> Seq(CallFrame)]
         /\ PageFits(agreed, p, peer[p]) /\ OpsFit(agreed, p, ops[p])
         /\ FramesFit(agreed, p, inbox[p])
BY CallAssumption DEF CallIInv, CallTypeOK

(* What a step may do to its page, to the page's queue and to what is sent.    *)
PageMoves(p) ==
  peer' = peer \/ \E s \in PeerState : PageFits(agreed, p, s) /\ peer' = [peer EXCEPT ![p] = s]
QueueMoves(p) ==
  ops' = ops \/ \E o : OpsFit(agreed, p, o) /\ ops' = [ops EXCEPT ![p] = o]
FramesMove ==
  /\ inbox' \in [Peers -> Seq(CallFrame)]
  /\ \A q \in Peers : FramesFit(agreed, q, inbox'[q])

LEMMA CallStep ==
  ASSUME CallIInv, NEW p \in Peers, agreed' = agreed, prompt' \in [Peers -> BOOLEAN],
         made' \in 0..MaxCall, PageMoves(p), QueueMoves(p), FramesMove
  PROVE  CallIInv'
<1>1. peer' \in [Peers -> PeerState] /\ \A q \in Peers : PageFits(agreed, q, peer'[q])
  BY DEF PageMoves, CallIInv, CallTypeOK
<1>2. ops' \in [Peers -> Seq(Op)] /\ \A q \in Peers : OpsFit(agreed, q, ops'[q])
  <2>1. ops \in [Peers -> Seq(Op)] /\ \A q \in Peers : OpsFit(agreed, q, ops[q])
    BY DEF CallIInv, CallTypeOK
  <2>2. ASSUME NEW o, OpsFit(agreed, p, o), ops' = [ops EXCEPT ![p] = o]
        PROVE  ops' \in [Peers -> Seq(Op)] /\ \A q \in Peers : OpsFit(agreed, q, ops'[q])
    <3>1. o \in Seq(Op)
      BY <2>2 DEF OpsFit
    <3> QED BY <2>1, <2>2, <3>1
  <2> QED BY <2>1, <2>2 DEF QueueMoves
<1>3. agreed \in [Peers -> SUBSET CallId]
  BY CallTypes
<1> QED BY <1>1, <1>2, <1>3 DEF CallIInv, CallTypeOK, FramesMove

(* What the relay delivers fits where it arrives.                              *)
LEMMA RelayFits ==
  ASSUME CallIInv, NEW p \in Peers, NEW fs, NEW rest, Relay(p, fs, rest),
         FramesFit(agreed, p, rest), \A q \in Listeners(p) : FramesFit(agreed, q, fs)
  PROVE  FramesMove
<1>1. inbox \in [Peers -> Seq(CallFrame)] /\ \A q \in Peers : FramesFit(agreed, q, inbox[q])
  BY DEF CallIInv, CallTypeOK
<1>2. inbox' = [q \in Peers |-> IF q = p THEN rest
                                ELSE IF q \in Listeners(p) THEN inbox[q] \o fs ELSE inbox[q]]
  BY DEF Relay
<1>3. ASSUME NEW q \in Peers PROVE FramesFit(agreed, q, inbox'[q])
  <2>1. ASSUME q \in Listeners(p) PROVE FramesFit(agreed, q, inbox[q] \o fs)
    BY <1>1, <2>1, FramesJoin
  <2>2. inbox'[q] = IF q = p THEN rest
                    ELSE IF q \in Listeners(p) THEN inbox[q] \o fs ELSE inbox[q]
    BY <1>2
  <2> QED BY <1>1, <2>1, <2>2
<1>4. ASSUME NEW q \in Peers PROVE inbox'[q] \in Seq(CallFrame)
  BY <1>3 DEF FramesFit
<1>5. inbox' \in [Peers -> Seq(CallFrame)]
  BY <1>2, <1>4
<1> QED BY <1>3, <1>5 DEF FramesMove

LEMMA FramesStay == CallIInv /\ inbox' = inbox => FramesMove
BY DEF CallIInv, CallTypeOK, FramesMove

(* A page reads its first frame and sends nothing.                             *)
LEMMA FrameRead ==
  ASSUME CallIInv, NEW p \in Peers, inbox[p] # <<>>, Relay(p, <<>>, Tail(inbox[p]))
  PROVE  FramesMove
<1>1. FramesFit(agreed, p, Tail(inbox[p]))
  BY CallTypes, FramesTail
<1>2. \A q \in Listeners(p) : FramesFit(agreed, q, <<>>)
  BY NoFrames
<1> QED BY <1>1, <1>2, RelayFits

(* Frames that may be sent at any time: those of a call's beginning and end.   *)
LEMMA SendFits ==
  ASSUME CallIInv, NEW p \in Peers, NEW type \in {"invite", "reject", "hangup"},
         NEW c \in CallId, Send(p, type, c)
  PROVE  FramesMove
<1> DEFINE f == [type |-> type, call |-> c]
<1>1. f \in CallFrame /\ f.type = type
  BY DEF CallFrame
<1>2. Relay(p, <<f>>, inbox[p])
  BY DEF Send
<1> HIDE DEF f
<1>3. ASSUME NEW q \in Listeners(p) PROVE FramesFit(agreed, q, <<f>>)
  BY <1>1, SingleFrame DEF FrameFits
<1> QED BY <1>2, <1>3, CallTypes, RelayFits

(* The head of the queue of operations                                         *)
LEMMA QueueHead ==
  ASSUME CallIInv, NEW p \in Peers, NEW kind, Runs(p, kind)
  PROVE  /\ Head(ops[p]) \in Op /\ OpFits(agreed, p, Head(ops[p])) /\ Head(ops[p]).op = kind
         /\ OpsFit(agreed, p, Tail(ops[p])) /\ Head(ops[p]).call \in CallId
<1>1. ops[p] # <<>> /\ Head(ops[p]).op = kind /\ OpsFit(agreed, p, ops[p])
  BY CallTypes DEF Runs
<1>2. Head(ops[p]) \in Op /\ OpFits(agreed, p, Head(ops[p])) /\ OpsFit(agreed, p, Tail(ops[p]))
  BY <1>1, OpsTail
<1> QED BY <1>1, <1>2 DEF Op

LEMMA Dequeued ==
  ASSUME CallIInv, NEW p \in Peers, NEW kind, Runs(p, kind), Dequeue(p)
  PROVE  QueueMoves(p)
<1>1. ops' = [ops EXCEPT ![p] = Tail(ops[p])]
  BY CallTypes DEF Dequeue
<1> QED BY <1>1, QueueHead DEF QueueMoves

LEMMA Enqueued ==
  ASSUME CallIInv, NEW p \in Peers, NEW o \in Op, OpFits(agreed, p, o), Enqueue(p, o)
  PROVE  QueueMoves(p)
<1>1. ops' = [ops EXCEPT ![p] = Append(ops[p], o)]
  BY CallTypes DEF Enqueue
<1>2. OpsFit(agreed, p, Append(ops[p], o))
  BY CallTypes, OpsAppend
<1> QED BY <1>1, <1>2 DEF QueueMoves

(* The states a page can be left in                                            *)
LEMMA IdleFits ==
  ASSUME NEW ag, NEW p \in Peers
  PROVE  IdleState \in PeerState /\ PageFits(ag, p, IdleState)
<1>1. IdleState \in PeerState
  BY DEF IdleState, PeerState, NoConnection, Connection, NoSdp, Sdp, NoCall
<1>2. PageFits(ag, p, IdleState)
  BY DEF PageFits, SdpFits, IdleState, NoConnection, NoSdp, NoCall
<1> QED BY <1>1, <1>2

LEMMA WithPcFits ==
  ASSUME NEW ag, NEW p \in Peers, NEW s \in PeerState, PageFits(ag, p, s)
  PROVE  /\ WithPc(s) \in PeerState /\ PageFits(ag, p, WithPc(s))
         /\ WithPc(s).call = s.call /\ WithPc(s).buf = s.buf /\ WithPc(s).phase = s.phase
<1>1. Fresh \in Connection /\ Fresh.st = "stable"
  BY DEF Fresh, Connection
<1>2. WithPc(s) \in PeerState
  BY <1>1 DEF WithPc, PeerState
<1>3. PageFits(ag, p, WithPc(s))
  BY <1>1 DEF PageFits, SdpFits, WithPc, PeerState
<1> QED BY <1>2, <1>3 DEF WithPc, PeerState

LEMMA AttachedFits ==
  ASSUME NEW ag, NEW p \in Peers, NEW s \in PeerState, PageFits(ag, p, s)
  PROVE  /\ Attached(s) \in PeerState /\ PageFits(ag, p, Attached(s))
         /\ Attached(s).call = s.call
<1>1. /\ WithPc(s) \in PeerState /\ PageFits(ag, p, WithPc(s)) /\ WithPc(s).call = s.call
  BY WithPcFits
<1>2. Attached(s) \in PeerState
  BY <1>1 DEF Attached, PeerState
<1>3. PageFits(ag, p, Attached(s))
  BY <1>1 DEF Attached, PageFits, SdpFits, PeerState
<1> QED BY <1>1, <1>2, <1>3 DEF Attached, PeerState

(* Applying a description that fits leaves the page fit; only an offer that    *)
(* is applied is answered.                                                     *)
LEMMA AfterSdpFits ==
  ASSUME NEW ag, NEW p \in Peers, NEW s \in PeerState, PageFits(ag, p, s),
         NEW sdp \in Sdp, SdpFits(ag, p, s.call, sdp)
  PROVE  /\ AfterSdp(s, sdp) \in PeerState /\ PageFits(ag, p, AfterSdp(s, sdp))
<1>1. CASE ~Applies(s, sdp)
  BY <1>1 DEF AfterSdp
<1>2. CASE Applies(s, sdp) /\ Buffers(s, sdp)
  <2>1. AfterSdp(s, sdp) = [s EXCEPT !.buf = sdp]
    BY <1>2 DEF AfterSdp
  <2>2. [s EXCEPT !.buf = sdp] \in PeerState
    BY DEF PeerState
  <2>3. PageFits(ag, p, [s EXCEPT !.buf = sdp])
    BY DEF PageFits, PeerState
  <2> QED BY <2>1, <2>2, <2>3
<1>3. CASE Applies(s, sdp) /\ ~Buffers(s, sdp)
  <2> DEFINE c == [st |-> "linked", with |-> sdp.by]
  <2> DEFINE f == IF sdp.kind = "offer" /\ s.phase # "idle" THEN "connecting" ELSE s.phase
  <2>1. AfterSdp(s, sdp) = [s EXCEPT !.pc = c, !.phase = f]
    BY <1>3 DEF AfterSdp
  <2>2. c \in Connection
    BY DEF Connection, Sdp
  <2>3. s.call \in Wanted(ag, IF s.init THEN Listeners(p) ELSE Side(p))
    BY <1>3 DEF Applies, SdpFits, Sdp, PeerState
  <2>4. f = "idle" => s.phase = "idle"
    OBVIOUS
  <2>5. f \in {"idle", "outgoing", "incoming", "connecting", "in_call"}
    BY DEF PeerState
  <2> HIDE DEF c, f
  <2>6. [s EXCEPT !.pc = c, !.phase = f] \in PeerState
    BY <2>2, <2>5 DEF PeerState
  <2>7. PageFits(ag, p, [s EXCEPT !.pc = c, !.phase = f])
    BY <2>3, <2>4 DEF PageFits, PeerState
  <2> QED BY <2>1, <2>6, <2>7
<1> QED BY <1>1, <1>2, <1>3

LEMMA AnswersFit ==
  ASSUME NEW ag, NEW p \in Peers, NEW s \in PeerState, NEW sdp \in Sdp,
         SdpFits(ag, p, s.call, sdp), NEW q \in Listeners(p)
  PROVE  FramesFit(ag, q, Answers(p, s, sdp))
<1>1. CASE sdp.kind = "offer" /\ Applies(s, sdp) /\ ~Buffers(s, sdp) /\ s.call # NoCall
  <2> DEFINE a == [kind |-> "answer", by |-> p]
  <2> DEFINE f == [type |-> "signal", call |-> s.call, sdp |-> a]
  <2>1. Answers(p, s, sdp) = <<f>>
    BY <1>1 DEF Answers
  <2>2. a \in Sdp /\ a.kind = "answer"
    BY DEF Sdp
  <2>3. s.call \in CallId
    BY <1>1 DEF PeerState
  <2>4. s.call \in Wanted(ag, Side(p)) /\ Side(p) = Listeners(q)
    BY <1>1, Sides DEF SdpFits
  <2>5. f \in CallFrame /\ f.type = "signal" /\ f.call = s.call /\ f.sdp = a
    BY <2>2, <2>3 DEF CallFrame
  <2> HIDE DEF f, a
  <2>6. FrameFits(ag, q, f)
    BY <2>2, <2>4, <2>5 DEF FrameFits, SdpFits
  <2> QED BY <2>1, <2>5, <2>6, SingleFrame
<1>2. CASE ~(sdp.kind = "offer" /\ Applies(s, sdp) /\ ~Buffers(s, sdp) /\ s.call # NoCall)
  BY <1>2, NoFrames DEF Answers
<1> QED BY <1>1, <1>2

LEMMA FlushFits ==
  ASSUME NEW ag, NEW p \in Peers, NEW s \in PeerState, PageFits(ag, p, s)
  PROVE  /\ Flush(s) \in PeerState /\ PageFits(ag, p, Flush(s))
         /\ \A q \in Listeners(p) : FramesFit(ag, q, FlushAnswers(p, s))
<1>1. CASE s.buf = NoSdp
  BY <1>1, NoFrames DEF Flush, FlushAnswers
<1>2. CASE s.buf # NoSdp
  <2> DEFINE t == [WithPc(s) EXCEPT !.buf = NoSdp]
  <2>1. s.buf \in Sdp /\ SdpFits(ag, p, s.call, s.buf)
    BY <1>2 DEF PeerState, PageFits
  <2>2. WithPc(s) \in PeerState /\ PageFits(ag, p, WithPc(s)) /\ WithPc(s).call = s.call
    BY WithPcFits
  <2>3. NoSdp.kind = "none" /\ NoSdp \in Sdp \cup {NoSdp}
    BY DEF NoSdp
  <2>4. t \in PeerState /\ t.call = s.call
    BY <2>2, <2>3 DEF PeerState
  <2>5. PageFits(ag, p, t)
    BY <2>2, <2>3 DEF PageFits, SdpFits, PeerState
  <2>6. Flush(s) = AfterSdp(t, s.buf) /\ FlushAnswers(p, s) = Answers(p, WithPc(s), s.buf)
    BY <1>2 DEF Flush, FlushAnswers
  <2> HIDE DEF t
  <2>7. Flush(s) \in PeerState /\ PageFits(ag, p, Flush(s))
    BY <2>1, <2>4, <2>5, <2>6, AfterSdpFits
  <2>8. \A q \in Listeners(p) : FramesFit(ag, q, FlushAnswers(p, s))
    BY <2>1, <2>2, <2>6, AnswersFit
  <2> QED BY <2>7, <2>8
<1> QED BY <1>1, <1>2

(* An offer fits where it arrives, once the call was accepted there.           *)
LEMMA OfferFits ==
  ASSUME NEW ag, NEW p \in Peers, NEW c \in CallId, c \in Wanted(ag, Listeners(p)),
         NEW q \in Listeners(p)
  PROVE  FramesFit(ag, q, Offer(p, c))
<1> DEFINE a == [kind |-> "offer", by |-> p]
<1> DEFINE f == [type |-> "signal", call |-> c, sdp |-> a]
<1>1. a \in Sdp /\ a.kind = "offer"
  BY DEF Sdp
<1>2. f \in CallFrame /\ f.type = "signal" /\ f.call = c /\ f.sdp = a
  BY <1>1 DEF CallFrame
<1>3. Offer(p, c) = <<f>>
  BY DEF Offer
<1> HIDE DEF f, a
<1>4. FrameFits(ag, q, f)
  BY <1>1, <1>2, Sides DEF FrameFits, SdpFits
<1> QED BY <1>2, <1>3, <1>4, SingleFrame

LEMMA Became ==
  ASSUME CallIInv, NEW p \in Peers, NEW s \in PeerState, PageFits(agreed, p, s), Become(p, s)
  PROVE  PageMoves(p)
BY DEF Become, PageMoves

LEMMA BecameIdle ==
  ASSUME CallIInv, NEW p \in Peers, Become(p, IdleState)
  PROVE  PageMoves(p)
BY IdleFits, Became

LEMMA StartSteps ==
  ASSUME CallIInv, NEW p \in Peers, StartCall(p) \/ StartRuns(p) \/ StartReady(p) \/ StartDenied(p)
  PROVE  CallIInv'
<1>1. peer[p] \in PeerState /\ PageFits(agreed, p, peer[p]) /\ made \in 0..MaxCall /\ MaxCall \in Nat
      /\ prompt \in [Peers -> BOOLEAN]
  BY CallTypes
<1>2. CASE StartCall(p)
  <2> DEFINE o == [op |-> "start", call |-> made + 1]
  <2>1. /\ made < MaxCall /\ made' = made + 1 /\ UNCHANGED <<peer, prompt, inbox, agreed>>
        /\ Enqueue(p, o)
    BY <1>2 DEF StartCall
  <2>2. made + 1 \in CallId
    BY <1>1, <2>1 DEF CallId
  <2>3. o \in Op /\ o.op = "start"
    BY <2>2 DEF Op
  <2> HIDE DEF o
  <2>4. QueueMoves(p)
    BY <2>1, <2>3, Enqueued DEF OpFits
  <2> QED BY <1>1, <2>1, <2>4, CallStep, FramesStay DEF PageMoves
<1>3. CASE StartRuns(p)
  <2>1. /\ Runs(p, "start") /\ UNCHANGED <<inbox, made, agreed>> /\ FramesMove
        /\ Head(ops[p]).call \in CallId
    BY <1>3, FramesStay, QueueHead DEF StartRuns
  <2>2. CASE peer[p].call # NoCall
    BY <1>1, <1>3, <2>1, <2>2, Dequeued, CallStep DEF StartRuns, PageMoves
  <2>3. CASE peer[p].call = NoCall
    <3> DEFINE c == Head(ops[p]).call
    <3> DEFINE s == [WithoutMedia(peer[p]) EXCEPT !.call = c, !.phase = "outgoing",
                                                  !.init = TRUE, !.accepted = FALSE]
    <3>1. Become(p, s) /\ prompt' = [prompt EXCEPT ![p] = TRUE] /\ ops' = ops
      BY <1>3, <2>3 DEF StartRuns
    <3>2. c # NoCall /\ c \in CallId
      BY <2>1, CallAssumption DEF CallId, NoCall
    <3> HIDE DEF c
    <3>3. WithoutMedia(peer[p]) \in PeerState
      BY <1>1 DEF WithoutMedia, PeerState, NoConnection, Connection, NoSdp
    <3>4. s \in PeerState
      BY <3>2, <3>3 DEF PeerState
    <3>5. s.pc.st = "none" /\ s.buf.kind = "none" /\ s.phase = "outgoing" /\ s.call = c
      BY <1>1, <3>3 DEF WithoutMedia, PeerState, NoConnection, NoSdp
    <3>6. PageFits(agreed, p, s)
      BY <3>2, <3>5 DEF PageFits, SdpFits
    <3> HIDE DEF s
    <3>7. PageMoves(p) /\ QueueMoves(p)
      BY <3>1, <3>4, <3>6, Became DEF QueueMoves
    <3> QED BY <1>1, <2>1, <3>1, <3>7, CallStep
  <2> QED BY <2>2, <2>3
<1>4. CASE StartReady(p)
  <2> DEFINE c == Head(ops[p]).call
  <2> DEFINE s == Attached(peer[p])
  <2>1. /\ Runs(p, "start") /\ Dequeue(p) /\ UNCHANGED <<made, agreed>>
        /\ prompt' = [prompt EXCEPT ![p] = FALSE]
        /\ IF s.call = c THEN Become(p, [s EXCEPT !.ring = TRUE]) /\ Send(p, "invite", c)
                         ELSE Become(p, s) /\ Silent(p)
    BY <1>4 DEF StartReady
  <2>2. s \in PeerState /\ PageFits(agreed, p, s) /\ c \in CallId /\ c # NoCall /\ QueueMoves(p)
    BY <1>1, <2>1, AttachedFits, QueueHead, Dequeued, CallAssumption DEF CallId, NoCall
  <2> HIDE DEF c, s
  <2>3. CASE s.call = c
    <3>1. [s EXCEPT !.ring = TRUE] \in PeerState
      BY <2>2 DEF PeerState
    <3>2. PageFits(agreed, p, [s EXCEPT !.ring = TRUE])
      BY <2>2, <2>3 DEF PageFits, PeerState
    <3>3. PageMoves(p) /\ FramesMove
      BY <2>1, <2>2, <2>3, <3>1, <3>2, Became, SendFits
    <3> QED BY <1>1, <2>1, <2>2, <3>3, CallStep
  <2>4. CASE s.call # c
    <3>1. PageMoves(p) /\ FramesMove
      BY <2>1, <2>2, <2>4, Became, FramesStay DEF Silent
    <3> QED BY <1>1, <2>1, <2>2, <3>1, CallStep
  <2> QED BY <2>3, <2>4
<1>5. CASE StartDenied(p)
  <2>1. /\ Runs(p, "start") /\ Dequeue(p) /\ UNCHANGED <<made, agreed>>
        /\ prompt' = [prompt EXCEPT ![p] = FALSE]
        /\ \/ Become(p, IdleState) /\ Send(p, "hangup", Head(ops[p]).call)
           \/ UNCHANGED <<peer, inbox>>
    BY <1>5 DEF StartDenied
  <2>2. QueueMoves(p) /\ Head(ops[p]).call \in CallId
    BY <2>1, QueueHead, Dequeued
  <2>3. PageMoves(p) /\ FramesMove
    BY <2>1, <2>2, BecameIdle, SendFits, FramesStay DEF PageMoves
  <2> QED BY <1>1, <2>1, <2>2, <2>3, CallStep
<1> QED BY <1>2, <1>3, <1>4, <1>5

(* The user accepts: from here on the call is accepted by the page's side.     *)
LEMMA AcceptStep == ASSUME CallIInv, NEW p \in Peers, Accept(p) PROVE CallIInv'
<1>1. peer[p] \in PeerState /\ PageFits(agreed, p, peer[p]) /\ made \in 0..MaxCall
      /\ prompt \in [Peers -> BOOLEAN] /\ peer \in [Peers -> PeerState]
      /\ agreed \in [Peers -> SUBSET CallId] /\ ops \in [Peers -> Seq(Op)]
      /\ inbox \in [Peers -> Seq(CallFrame)]
  BY CallTypes
<1> DEFINE c == peer[p].call
<1> DEFINE s == [peer[p] EXCEPT !.init = FALSE, !.phase = "connecting"]
<1> DEFINE o == [op |-> "accept", call |-> c]
<1>2. /\ c # NoCall /\ Become(p, s) /\ Enqueue(p, o) /\ UNCHANGED <<prompt, inbox, made>>
      /\ agreed' = [agreed EXCEPT ![p] = agreed[p] \cup {c}]
  BY <1>1 DEF Accept
<1>3. c \in CallId
  BY <1>1, <1>2 DEF PeerState
<1>4. agreed' \in [Peers -> SUBSET CallId] /\ \A q \in Peers : agreed[q] \subseteq agreed'[q]
  BY <1>1, <1>2, <1>3
<1>5. \A S \in SUBSET Peers : Wanted(agreed, S) \subseteq Wanted(agreed', S)
  BY <1>4 DEF Wanted
<1>6. \A q \in Peers : Listeners(q) \in SUBSET Peers /\ Side(q) \in SUBSET Peers /\ q \in Side(q)
  BY Sides
<1>7. ASSUME NEW q \in Peers, NEW d, NEW sdp, SdpFits(agreed, q, d, sdp)
      PROVE  SdpFits(agreed', q, d, sdp)
  BY <1>5, <1>6, <1>7 DEF SdpFits
<1>8. ASSUME NEW q \in Peers PROVE FramesFit(agreed', q, inbox'[q])
  <2>1. FramesFit(agreed, q, inbox[q]) /\ inbox' = inbox
    BY <1>2, CallTypes
  <2>2. ASSUME NEW f, FrameFits(agreed, q, f) PROVE FrameFits(agreed', q, f)
    BY <1>5, <1>6, <1>7, <2>2 DEF FrameFits
  <2> QED BY <2>1, <2>2 DEF FramesFit
<1>9. ASSUME NEW q \in Peers, NEW e, OpFits(agreed, q, e) PROVE OpFits(agreed', q, e)
  BY <1>5, <1>6, <1>7, <1>9 DEF OpFits
<1>10. ASSUME NEW q \in Peers PROVE OpsFit(agreed', q, ops[q])
  <2>1. OpsFit(agreed, q, ops[q])
    BY CallTypes
  <2> QED BY <1>9, <2>1 DEF OpsFit
<1>11. c \in Wanted(agreed', Side(p))
  BY <1>1, <1>2, <1>6 DEF Wanted
<1>12. o \in Op /\ o.op = "accept" /\ o.call = c
  BY <1>3 DEF Op
<1> HIDE DEF o
<1>13. OpFits(agreed', p, o)
  BY <1>11, <1>12 DEF OpFits
<1>14. OpsFit(agreed', p, Append(ops[p], o))
  BY <1>10, <1>12, <1>13, OpsAppend
<1>15. ops' = [ops EXCEPT ![p] = Append(ops[p], o)] /\ Append(ops[p], o) \in Seq(Op)
  BY <1>1, <1>2, <1>14 DEF Enqueue, OpsFit
<1>16. ASSUME NEW q \in Peers, q # p PROVE PageFits(agreed', q, peer[q])
  <2>1. PageFits(agreed, q, peer[q])
    BY CallTypes
  <2> QED BY <1>5, <1>6, <1>7, <2>1 DEF PageFits
<1>17. s \in PeerState /\ s.pc = peer[p].pc /\ s.call = c /\ s.buf = peer[p].buf
       /\ s.ring = peer[p].ring /\ s.phase = "connecting" /\ s.init = FALSE
  BY <1>1 DEF PeerState
<1>18. PageFits(agreed', p, s)
  <2>1. SdpFits(agreed', p, c, peer[p].buf)
    BY <1>1, <1>7 DEF PageFits
  <2> QED BY <1>2, <1>11, <1>17, <2>1 DEF PageFits
<1>19. peer' = [peer EXCEPT ![p] = s]
  BY <1>2 DEF Become
<1> HIDE DEF s, c
<1>20. peer' \in [Peers -> PeerState] /\ \A q \in Peers : PageFits(agreed', q, peer'[q])
  BY <1>1, <1>16, <1>17, <1>18, <1>19
<1>21. ops' \in [Peers -> Seq(Op)] /\ \A q \in Peers : OpsFit(agreed', q, ops'[q])
  BY <1>1, <1>10, <1>14, <1>15
<1>22. inbox' \in [Peers -> Seq(CallFrame)] /\ prompt' \in [Peers -> BOOLEAN] /\ made' \in 0..MaxCall
  BY <1>1, <1>2
<1> QED BY <1>4, <1>8, <1>20, <1>21, <1>22 DEF CallIInv, CallTypeOK

LEMMA AcceptSteps ==
  ASSUME CallIInv, NEW p \in Peers, AcceptRuns(p) \/ AcceptReady(p) \/ AcceptDenied(p)
  PROVE  CallIInv'
<1>1. peer[p] \in PeerState /\ PageFits(agreed, p, peer[p]) /\ made \in 0..MaxCall
      /\ prompt \in [Peers -> BOOLEAN]
  BY CallTypes
<1>2. CASE AcceptRuns(p)
  BY <1>1, <1>2, CallStep, FramesStay DEF AcceptRuns, PageMoves, QueueMoves
<1>3. CASE AcceptReady(p)
  <2> DEFINE c == Head(ops[p]).call
  <2> DEFINE s == [Attached(peer[p]) EXCEPT !.accepted = TRUE, !.ring = FALSE]
  <2> DEFINE f == [type |-> "accept", call |-> c]
  <2>1. /\ Runs(p, "accept") /\ Dequeue(p) /\ UNCHANGED <<made, agreed>>
        /\ prompt' = [prompt EXCEPT ![p] = FALSE]
        /\ Become(p, Flush(s)) /\ Relay(p, <<f>> \o FlushAnswers(p, s), inbox[p])
    BY <1>3 DEF AcceptReady
  <2>2. c \in CallId /\ c \in Wanted(agreed, Side(p)) /\ QueueMoves(p)
    BY <2>1, QueueHead, Dequeued DEF OpFits
  <2>3. s \in PeerState /\ PageFits(agreed, p, s)
    <3>1. Attached(peer[p]) \in PeerState /\ PageFits(agreed, p, Attached(peer[p]))
      BY <1>1, AttachedFits
    <3> HIDE DEF s
    <3>2. s = [Attached(peer[p]) EXCEPT !.accepted = TRUE, !.ring = FALSE]
      BY DEF s
    <3> QED BY <3>1, <3>2 DEF PeerState, PageFits, SdpFits
  <2>4. f \in CallFrame /\ f.type = "accept" /\ f.call = c
    BY <2>2 DEF CallFrame
  <2> HIDE DEF c, s, f
  <2>5. Flush(s) \in PeerState /\ PageFits(agreed, p, Flush(s))
        /\ \A q \in Listeners(p) : FramesFit(agreed, q, FlushAnswers(p, s))
    BY <2>3, FlushFits
  <2>6. ASSUME NEW q \in Listeners(p)
        PROVE  FramesFit(agreed, q, <<f>> \o FlushAnswers(p, s))
    <3>1. FramesFit(agreed, q, <<f>>)
      BY <2>2, <2>4, Sides, SingleFrame DEF FrameFits
    <3> QED BY <2>5, <3>1, FramesJoin
  <2>7. PageMoves(p) /\ FramesMove
    BY <2>1, <2>5, <2>6, CallTypes, Became, RelayFits
  <2> QED BY <1>1, <2>1, <2>2, <2>7, CallStep
<1>4. CASE AcceptDenied(p)
  <2> DEFINE s == [peer[p] EXCEPT !.accepted = FALSE, !.media = FALSE, !.phase = "incoming"]
  <2>1. /\ Runs(p, "accept") /\ Dequeue(p) /\ UNCHANGED <<inbox, made, agreed>>
        /\ prompt' = [prompt EXCEPT ![p] = FALSE] /\ Become(p, s)
    BY <1>4 DEF AcceptDenied
  <2>2. s \in PeerState
    BY <1>1 DEF PeerState
  <2>3. PageFits(agreed, p, s)
    BY <1>1 DEF PeerState, PageFits, SdpFits
  <2> HIDE DEF s
  <2>4. PageMoves(p) /\ QueueMoves(p) /\ FramesMove
    BY <2>1, <2>2, <2>3, Became, Dequeued, FramesStay
  <2> QED BY <1>1, <2>1, <2>4, CallStep
<1> QED BY <1>2, <1>3, <1>4

LEMMA EndSteps ==
  ASSUME CallIInv, NEW p \in Peers, Reject(p) \/ HangUp(p) \/ RingTimeout(p)
  PROVE  CallIInv'
<1>1. peer[p] \in PeerState /\ made \in 0..MaxCall /\ prompt \in [Peers -> BOOLEAN]
  BY CallTypes
<1>2. Become(p, IdleState) /\ UNCHANGED <<ops, prompt, made, agreed>>
  BY DEF Reject, HangUp, RingTimeout
<1>3. \/ inbox' = inbox
      \/ /\ peer[p].call \in CallId
         /\ \E type \in {"reject", "hangup"} : Send(p, type, peer[p].call)
  BY <1>1 DEF Reject, HangUp, RingTimeout, PeerState
<1>4. FramesMove
  BY <1>3, SendFits, FramesStay
<1>5. PageMoves(p) /\ QueueMoves(p)
  BY <1>2, BecameIdle DEF QueueMoves
<1> QED BY <1>1, <1>2, <1>4, <1>5, CallStep

LEMMA EventSteps ==
  ASSUME CallIInv, NEW p \in Peers, Event(p)
  PROVE  CallIInv'
<1>1. peer[p] \in PeerState /\ PageFits(agreed, p, peer[p]) /\ made \in 0..MaxCall
      /\ prompt \in [Peers -> BOOLEAN] /\ FramesFit(agreed, p, inbox[p])
  BY CallTypes
<1> DEFINE f == Head(inbox[p])
<1>2. /\ UNCHANGED <<prompt, made, agreed>> /\ inbox[p] # <<>>
      /\ Relay(p, <<>>, Tail(inbox[p]))
  BY DEF Event, GetsInvite, GetsEnd, GetsAccept, GetsSignal, Gets, Ignored
<1>3. FramesMove
  BY <1>2, FrameRead
<1>4. f \in CallFrame /\ FrameFits(agreed, p, f)
  BY <1>1, <1>2, FramesTail
<1>5. f.call \in CallId /\ f.call # NoCall
  <2>1. f.call \in CallId
    BY <1>4 DEF CallFrame
  <2> QED BY <2>1, CallAssumption DEF CallId, NoCall
<1>6. ASSUME UNCHANGED <<peer, ops>> PROVE PageMoves(p) /\ QueueMoves(p)
  BY <1>6 DEF PageMoves, QueueMoves
<1>7. CASE GetsInvite(p)
  <2> DEFINE t == IF peer[p].call = NoCall THEN peer[p] ELSE WithoutMedia(peer[p])
  <2> DEFINE s == [t EXCEPT !.call = f.call, !.phase = "incoming", !.init = FALSE,
                            !.accepted = FALSE, !.media = FALSE, !.restarted = FALSE,
                            !.buf = NoSdp, !.ring = TRUE]
  <2>1. UNCHANGED <<peer, ops>> \/ (Become(p, s) /\ ops' = ops)
    BY <1>7 DEF GetsInvite, Ignored
  <2>2. t \in PeerState
    <3>1. NoConnection \in Connection /\ NoSdp \in Sdp \cup {NoSdp}
      BY DEF NoConnection, Connection
    <3>2. WithoutMedia(peer[p]) \in PeerState
      BY <1>1, <3>1 DEF WithoutMedia, PeerState
    <3> QED BY <1>1, <3>2
  <2>3. t.pc.st # "linked"
    <3>1. CASE peer[p].call = NoCall
      <4>1. Listeners(p) \in SUBSET Peers /\ Side(p) \in SUBSET Peers
        BY Sides
      <4>2. agreed \in [Peers -> SUBSET CallId]
        BY CallTypes
      <4> QED BY <1>1, <3>1, <4>1, <4>2, WantedCalls DEF PageFits
    <3>2. CASE peer[p].call # NoCall
      BY <1>1, <3>2 DEF WithoutMedia, PeerState, NoConnection
    <3> QED BY <3>1, <3>2
  <2> HIDE DEF t, f
  <2>4. s \in PeerState
    BY <1>5, <2>2 DEF PeerState
  <2>5. s.pc = t.pc /\ s.buf = NoSdp /\ s.phase = "incoming" /\ s.call = f.call
    BY <2>2 DEF PeerState
  <2>6. PageFits(agreed, p, s)
    BY <1>5, <2>3, <2>5 DEF PageFits, SdpFits, NoSdp
  <2> HIDE DEF s
  <2>7. PageMoves(p) /\ QueueMoves(p)
    BY <1>6, <2>1, <2>4, <2>6, Became DEF QueueMoves
  <2> QED BY <1>1, <1>2, <1>3, <2>7, CallStep
<1>8. CASE GetsEnd(p)
  <2>1. UNCHANGED <<peer, ops>> \/ (Become(p, IdleState) /\ ops' = ops)
    BY <1>8 DEF GetsEnd, Ignored
  <2>2. PageMoves(p) /\ QueueMoves(p)
    BY <1>6, <2>1, BecameIdle DEF QueueMoves
  <2> QED BY <1>1, <1>2, <1>3, <2>2, CallStep
<1>9. CASE GetsAccept(p)
  <2> DEFINE s == [peer[p] EXCEPT !.phase = "connecting", !.ring = FALSE]
  <2> DEFINE o == [op |-> "offer", call |-> f.call]
  <2>1. /\ f.type = "accept"
        /\ \/ UNCHANGED <<peer, ops>>
           \/ Become(p, s) /\ Enqueue(p, o)
           \/ Become(p, IdleState) /\ ops' = ops
    BY <1>9 DEF GetsAccept, Ignored, Gets
  <2>2. s \in PeerState
    BY <1>1 DEF PeerState
  <2>3. PageFits(agreed, p, s)
    BY <1>1 DEF PeerState, PageFits, SdpFits
  <2>4. o \in Op /\ o.op = "offer" /\ o.call = f.call
    BY <1>5 DEF Op
  <2>5. OpFits(agreed, p, o)
    BY <1>4, <2>1, <2>4 DEF OpFits, FrameFits
  <2> HIDE DEF s, o, f
  <2>6. PageMoves(p) /\ QueueMoves(p)
    BY <1>6, <2>1, <2>2, <2>3, <2>4, <2>5, Became, BecameIdle, Enqueued DEF QueueMoves
  <2> QED BY <1>1, <1>2, <1>3, <2>6, CallStep
<1>10. CASE GetsSignal(p)
  <2> DEFINE o == [op |-> "signal", call |-> f.call, sdp |-> f.sdp]
  <2>1. f.type = "signal" /\ peer' = peer /\ (ops' = ops \/ Enqueue(p, o))
    BY <1>10 DEF GetsSignal, Ignored, Gets
  <2>2. f.sdp \in Sdp
    BY <1>4, <2>1 DEF CallFrame
  <2>3. o \in Op /\ o.op = "signal" /\ o.call = f.call /\ o.sdp = f.sdp
    BY <1>5, <2>2 DEF Op
  <2>4. OpFits(agreed, p, o)
    BY <1>4, <2>1, <2>3 DEF OpFits, FrameFits
  <2> HIDE DEF o, f
  <2>5. PageMoves(p) /\ QueueMoves(p)
    BY <2>1, <2>3, <2>4, Enqueued DEF PageMoves, QueueMoves
  <2> QED BY <1>1, <1>2, <1>3, <2>5, CallStep
<1> QED BY <1>7, <1>8, <1>9, <1>10 DEF Event

LEMMA ChainSteps ==
  ASSUME CallIInv, NEW p \in Peers, Chain(p)
  PROVE  CallIInv'
<1>1. peer[p] \in PeerState /\ PageFits(agreed, p, peer[p]) /\ made \in 0..MaxCall
      /\ prompt \in [Peers -> BOOLEAN] /\ FramesFit(agreed, p, inbox[p])
  BY CallTypes
<1> DEFINE o == Head(ops[p])
<1>2. CASE OfferRuns(p)
  <2> DEFINE s == [WithPc(peer[p]) EXCEPT !.pc = [st |-> "offering", with |-> Nobody]]
  <2>1. /\ Runs(p, "offer") /\ Dequeue(p) /\ UNCHANGED <<prompt, made, agreed>>
        /\ \/ UNCHANGED <<peer, inbox>>
           \/ /\ Become(p, Flush(s))
              /\ Relay(p, Offer(p, o.call) \o FlushAnswers(p, s), inbox[p])
    BY <1>2 DEF OfferRuns
  <2>2. o.call \in CallId /\ o.call \in Wanted(agreed, Listeners(p)) /\ QueueMoves(p)
    BY <2>1, QueueHead, Dequeued DEF OpFits
  <2>3. s \in PeerState /\ PageFits(agreed, p, s)
    <3>1. WithPc(peer[p]) \in PeerState /\ PageFits(agreed, p, WithPc(peer[p]))
      BY <1>1, WithPcFits
    <3>2. [st |-> "offering", with |-> Nobody] \in Connection
      BY DEF Connection
    <3>3. s \in PeerState
      BY <3>1, <3>2 DEF PeerState
    <3>4. s.pc.st = "offering" /\ s.call = WithPc(peer[p]).call /\ s.buf = WithPc(peer[p]).buf
          /\ s.phase = WithPc(peer[p]).phase /\ s.ring = WithPc(peer[p]).ring
      BY <3>1 DEF PeerState
    <3> HIDE DEF s
    <3>5. PageFits(agreed, p, s)
      BY <3>1, <3>4 DEF PageFits
    <3> QED BY <3>3, <3>5
  <2> HIDE DEF s, o
  <2>4. Flush(s) \in PeerState /\ PageFits(agreed, p, Flush(s))
        /\ \A q \in Listeners(p) : FramesFit(agreed, q, FlushAnswers(p, s))
    BY <2>3, FlushFits
  <2>5. \A q \in Listeners(p) : FramesFit(agreed, q, Offer(p, o.call) \o FlushAnswers(p, s))
    BY <2>2, <2>4, OfferFits, FramesJoin
  <2>6. PageMoves(p) /\ FramesMove
    <3>1. CASE UNCHANGED <<peer, inbox>>
      BY <3>1, FramesStay DEF PageMoves
    <3>2. CASE /\ Become(p, Flush(s))
               /\ Relay(p, Offer(p, o.call) \o FlushAnswers(p, s), inbox[p])
      BY <1>1, <2>4, <2>5, <3>2, Became, RelayFits
    <3> QED BY <2>1, <3>1, <3>2
  <2> QED BY <1>1, <2>1, <2>2, <2>6, CallStep
<1>3. CASE SignalRuns(p)
  <2> DEFINE s == WithPc(peer[p])
  <2>1. /\ Runs(p, "signal") /\ Dequeue(p) /\ UNCHANGED <<prompt, made, agreed>>
        /\ \/ UNCHANGED <<peer, inbox>>
           \/ /\ peer[p].call = o.call
              /\ Become(p, AfterSdp(s, o.sdp))
              /\ Relay(p, Answers(p, s, o.sdp), inbox[p])
    BY <1>3 DEF SignalRuns
  <2>2. o \in Op /\ o.op = "signal" /\ SdpFits(agreed, p, o.call, o.sdp) /\ QueueMoves(p)
    BY <2>1, QueueHead, Dequeued DEF OpFits
  <2>3. o.sdp \in Sdp
    BY <2>2 DEF Op
  <2>4. s \in PeerState /\ PageFits(agreed, p, s) /\ s.call = peer[p].call
    BY <1>1, WithPcFits
  <2> HIDE DEF s, o
  <2>5. PageMoves(p) /\ FramesMove
    <3>1. CASE UNCHANGED <<peer, inbox>>
      BY <3>1, FramesStay DEF PageMoves
    <3>2. CASE /\ peer[p].call = o.call
               /\ Become(p, AfterSdp(s, o.sdp))
               /\ Relay(p, Answers(p, s, o.sdp), inbox[p])
      <4>1. SdpFits(agreed, p, s.call, o.sdp)
        BY <2>2, <2>4, <3>2
      <4>2. AfterSdp(s, o.sdp) \in PeerState /\ PageFits(agreed, p, AfterSdp(s, o.sdp))
        BY <2>3, <2>4, <4>1, AfterSdpFits
      <4>3. \A q \in Listeners(p) : FramesFit(agreed, q, Answers(p, s, o.sdp))
        BY <2>3, <2>4, <4>1, AnswersFit
      <4> QED BY <1>1, <3>2, <4>2, <4>3, Became, RelayFits
    <3> QED BY <2>1, <3>1, <3>2
  <2> QED BY <1>1, <2>1, <2>2, <2>5, CallStep
<1> QED BY <1>2, <1>3 DEF Chain

LEMMA NetworkSteps ==
  ASSUME CallIInv, NEW p \in Peers, Network(p)
  PROVE  CallIInv'
<1>1. peer[p] \in PeerState /\ PageFits(agreed, p, peer[p]) /\ made \in 0..MaxCall
      /\ prompt \in [Peers -> BOOLEAN] /\ FramesFit(agreed, p, inbox[p])
      /\ inbox \in [Peers -> Seq(CallFrame)]
  BY CallTypes
<1>2. UNCHANGED <<ops, prompt, made, agreed>> /\ QueueMoves(p)
  BY DEF Network, FrameLost, Connected, Failed, QueueMoves
<1>3. CASE FrameLost(p)
  <2>1. inbox[p] # <<>> /\ inbox' = [inbox EXCEPT ![p] = Tail(inbox[p])] /\ peer' = peer
    BY <1>1, <1>3 DEF FrameLost
  <2>2. FramesFit(agreed, p, Tail(inbox[p]))
    BY <1>1, <2>1, FramesTail
  <2>3. ASSUME NEW q \in Peers PROVE FramesFit(agreed, q, inbox'[q])
    <3>1. FramesFit(agreed, q, inbox[q])
      BY CallTypes
    <3> QED BY <1>1, <2>1, <2>2, <3>1
  <2>4. inbox' \in [Peers -> Seq(CallFrame)]
    BY <1>1, <2>1, <2>2 DEF FramesFit
  <2> QED BY <1>1, <1>2, <2>1, <2>3, <2>4, CallStep DEF FramesMove, PageMoves
<1>4. CASE Connected(p)
  <2> DEFINE s == [peer[p] EXCEPT !.did = TRUE, !.up = TRUE, !.phase = "in_call"]
  <2>1. Become(p, s) /\ inbox' = inbox
    BY <1>4 DEF Connected
  <2>2. s \in PeerState
    BY <1>1 DEF PeerState
  <2>3. PageFits(agreed, p, s)
    BY <1>1 DEF PeerState, PageFits, SdpFits
  <2> HIDE DEF s
  <2> QED BY <1>1, <1>2, <2>1, <2>2, <2>3, Became, FramesStay, CallStep
<1>5. CASE Failed(p)
  <2> DEFINE c == [st |-> "offering", with |-> Nobody]
  <2> DEFINE s == [peer[p] EXCEPT !.restarted = TRUE]
  <2> DEFINE t == [peer[p] EXCEPT !.restarted = TRUE, !.pc = c]
  <2>1. \/ Become(p, s) /\ inbox' = inbox
        \/ /\ peer[p].call # NoCall /\ peer[p].init /\ peer[p].pc.st = "linked"
           /\ Become(p, t) /\ Relay(p, Offer(p, peer[p].call), inbox[p])
        \/ Become(p, IdleState) /\ inbox' = inbox
    BY <1>5 DEF Failed
  <2>2. CASE Become(p, s) /\ inbox' = inbox
    <3>1. s \in PeerState
      BY <1>1 DEF PeerState
    <3>2. PageFits(agreed, p, s)
      BY <1>1 DEF PeerState, PageFits, SdpFits
    <3> HIDE DEF s
    <3> QED BY <1>1, <1>2, <2>2, <3>1, <3>2, Became, FramesStay, CallStep
  <2>3. CASE /\ peer[p].call # NoCall /\ peer[p].init /\ peer[p].pc.st = "linked"
             /\ Become(p, t) /\ Relay(p, Offer(p, peer[p].call), inbox[p])
    <3>1. c \in Connection /\ c.st = "offering"
      BY DEF Connection
    <3> HIDE DEF c
    <3>2. t \in PeerState
      BY <1>1, <3>1 DEF PeerState
    <3>3. PageFits(agreed, p, t)
      BY <1>1, <3>1 DEF PeerState, PageFits, SdpFits
    <3>4. peer[p].call \in CallId /\ peer[p].call \in Wanted(agreed, Listeners(p))
      BY <1>1, <2>3 DEF PeerState, PageFits
    <3>5. \A q \in Listeners(p) : FramesFit(agreed, q, Offer(p, peer[p].call))
      BY <3>4, OfferFits
    <3> HIDE DEF t
    <3>6. PageMoves(p) /\ FramesMove
      BY <1>1, <2>3, <3>2, <3>3, <3>5, Became, RelayFits
    <3> QED BY <1>1, <1>2, <3>6, CallStep
  <2>4. CASE Become(p, IdleState) /\ inbox' = inbox
    BY <1>1, <1>2, <2>4, BecameIdle, FramesStay, CallStep
  <2> QED BY <2>1, <2>2, <2>3, <2>4
<1> QED BY <1>3, <1>4, <1>5 DEF Network

LEMMA CallPreserves == CallIInv /\ [CallNext]_callVars => CallIInv'
<1> SUFFICES ASSUME CallIInv, [CallNext]_callVars PROVE CallIInv'
  OBVIOUS
<1>1. CASE UNCHANGED callVars
  <2>1. UNCHANGED <<peer, ops, prompt, inbox, made, agreed>>
    BY <1>1 DEF callVars
  <2> QED BY <2>1 DEF CallIInv, CallTypeOK
<1>2. ASSUME NEW p \in Peers, Begins(p) \/ UserOrTimer(p) PROVE CallIInv'
  <2>1. CASE User(p)
    BY <2>1, StartSteps, AcceptStep, EndSteps DEF User
  <2>2. CASE Prompt(p)
    BY <2>2, StartSteps, AcceptSteps DEF Prompt
  <2>3. CASE Begins(p)
    BY <2>3, StartSteps, AcceptSteps DEF Begins
  <2>4. CASE Chain(p) \/ Event(p) \/ Network(p) \/ RingTimeout(p)
    BY <2>4, ChainSteps, EventSteps, NetworkSteps, EndSteps
  <2> QED BY <1>2, <2>1, <2>2, <2>3, <2>4 DEF UserOrTimer
<1> QED BY <1>1, <1>2 DEF CallNext

LEMMA InitCall == CallInit => CallIInv
<1> SUFFICES ASSUME CallInit PROVE CallIInv
  OBVIOUS
<1>1. /\ peer = [p \in Peers |-> IdleState] /\ ops = [p \in Peers |-> <<>>]
      /\ prompt = [p \in Peers |-> FALSE] /\ inbox = [p \in Peers |-> <<>>]
      /\ made = 0 /\ agreed = [p \in Peers |-> {}] /\ MaxCall \in Nat
  BY CallAssumption DEF CallInit
<1>2. \A p \in Peers : IdleState \in PeerState /\ PageFits(agreed, p, IdleState)
  BY IdleFits
<1>3. \A p \in Peers : FramesFit(agreed, p, <<>>)
  BY NoFrames
<1>4. \A p \in Peers : OpsFit(agreed, p, <<>>)
  <2>1. <<>> \in Seq(Op) /\ Len(<<>>) = 0
    OBVIOUS
  <2> QED BY <2>1 DEF OpsFit
<1>5. <<>> \in Seq(Op) /\ <<>> \in Seq(CallFrame)
  OBVIOUS
<1>6. CallTypeOK
  BY <1>1, <1>2, <1>5 DEF CallTypeOK
<1> QED BY <1>1, <1>2, <1>3, <1>4, <1>6 DEF CallIInv

(* For any number of consoles, call ids and frames under way: no page is       *)
(* connected in a call that the side it was made to has not accepted, whatever *)
(* invites, accepts, offers and answers of earlier calls overtake each other   *)
(* or arrive while a page waits for its microphone.                            *)
THEOREM ConsentGiven == CallSpec => []Consent
<1>1. CallInit => CallIInv
  BY InitCall
<1>2. CallIInv /\ [CallNext]_callVars => CallIInv'
  BY CallPreserves
<1>3. CallIInv => Consent
  BY DEF CallIInv, PageFits, Consent, Wanted, AgreedBy
<1> QED BY <1>1, <1>2, <1>3, PTL DEF CallSpec

(* A call is never invisible, no ring timer outlives its call, and the refs of *)
(* every page keep to their types: CallInv but for SameCall.                   *)
THEOREM CallsVisible == CallSpec => [](CallTypeOK /\ NoHiddenCall /\ NoStrayTimer)
<1>1. CallInit => CallIInv
  BY InitCall
<1>2. CallIInv /\ [CallNext]_callVars => CallIInv'
  BY CallPreserves
<1>3. CallIInv => CallTypeOK /\ NoHiddenCall /\ NoStrayTimer
  BY DEF CallIInv, PageFits, NoHiddenCall, NoStrayTimer
<1> QED BY <1>1, <1>2, <1>3, PTL DEF CallSpec


-----------------------------------------------------------------------------
(* One console: two pages are connected in the same call. The history of the  *)
(* earlier calls is in what can no longer come. A page enters a call once, by *)
(* starting it or by its invite, and there is one start and one invite of a   *)
(* call. Entered says that nothing of the kind is left: the page is in the    *)
(* call, or has been. An offer or answer is sent by a page that both entered, *)
(* in the call it is in; so the two cannot each hold one of the other's       *)
(* earlier call.                                                              *)
OpCalls(o, kind) == {o[i].call: i \in {j \in 1..Len(o): o[j].op = kind}}
FrameCalls(b, type) == {b[i].call: i \in {j \in 1..Len(b): b[j].type = type}}

StartsOnce(o) ==
  \A i, j \in 1..Len(o):
    o[i].op = "start" /\ o[j].op = "start" /\ o[i].call = o[j].call => i = j
InvitesOnce(b) ==
  \A i, j \in 1..Len(b):
    b[i].type = "invite" /\ b[j].type = "invite" /\ b[i].call = b[j].call => i = j

(* The start the user is asked about; those to come; those an invite may still *)
(* follow from, if the page is in call c.                                      *)
Begun(o, w) == IF w /\ o # <<>> /\ Head(o).op = "start" THEN {Head(o).call} ELSE {}
Unbegun(o, w) == OpCalls(o, "start") \ Begun(o, w)
Inviting(c, o, w) == OpCalls(o, "start") \ (Begun(o, w) \ {c})

Entered(p) ==
  {c \in 1..made: /\ c \notin Unbegun(ops[p], prompt[p])
                  /\ c \notin FrameCalls(inbox[p], "invite")
                  /\ \A q \in Peers \ {p}: c \notin Inviting(peer[q].call, ops[q], prompt[q])}
EnteredByAll == {c \in 1..made: \A p \in Peers: c \in Entered(p)}

OneOfEach ==
  /\ \A p \in Peers:
       /\ StartsOnce(ops[p]) /\ InvitesOnce(inbox[p])
       /\ OpCalls(ops[p], "start") \subseteq 1..made
       /\ FrameCalls(inbox[p], "invite") \subseteq 1..made
  /\ \A p, q \in Peers: OpCalls(ops[p], "start") \cap FrameCalls(inbox[q], "invite") = {}
  /\ \A p, q \in Peers: p # q => OpCalls(ops[p], "start") \cap OpCalls(ops[q], "start") = {}

Described(s) == s.pc.st = "linked" \/ s.buf # NoSdp
Exchanged(p) == OpCalls(ops[p], "signal") \cup FrameCalls(inbox[p], "signal")

(* Where a page is, it has come to; what was accepted, somebody was in.        *)
InOrder ==
  /\ \A p \in Peers: peer[p].call # NoCall => peer[p].call \in Entered(p)
  /\ \A p \in Peers: Described(peer[p]) => peer[p].call \in EnteredByAll
  /\ \A p \in Peers: OpCalls(ops[p], "accept") \subseteq Entered(p)
  /\ \A p, q \in Peers: p # q => FrameCalls(inbox[q], "accept") \subseteq Entered(p)
  /\ \A p \in Peers: OpCalls(ops[p], "offer") \cup Exchanged(p) \subseteq EnteredByAll

Holds(p) ==
  /\ peer[p].call # NoCall
  /\ Described(peer[p]) \/ peer[p].call \in Exchanged(p)
OneExchange == \A p, q \in Peers: Holds(p) /\ Holds(q) => peer[p].call = peer[q].call

CallOrder == OneOfEach /\ InOrder /\ OneExchange

(* The calls of a queue, and of the frames under way, as they change.         *)
LEMMA TailCalls ==
  ASSUME NEW o \in Seq(Op), o # <<>>, StartsOnce(o)
  PROVE  /\ StartsOnce(Tail(o))
         /\ \A kind: OpCalls(Tail(o), kind) \subseteq OpCalls(o, kind)
         /\ Head(o).op = "start" =>
              OpCalls(Tail(o), "start") = OpCalls(o, "start") \ {Head(o).call}
         /\ \A kind: Head(o).op = kind => Head(o).call \in OpCalls(o, kind)
<1>1. /\ Tail(o) \in Seq(Op) /\ Len(o) \in Nat /\ Len(o) >= 1 /\ Len(Tail(o)) = Len(o) - 1
      /\ \A i \in 1..Len(Tail(o)): i + 1 \in 2..Len(o) /\ Tail(o)[i] = o[i + 1]
      /\ Head(o) = o[1] /\ 1 \in 1..Len(o)
  <2>1. Len(o) \in Nat /\ Len(o) # 0 /\ Tail(o) \in Seq(Op) /\ Len(Tail(o)) = Len(o) - 1
    BY HeadTailProperties, EmptySeq, LenProperties
  <2>2. \A i \in 1..Len(Tail(o)): Tail(o)[i] = o[i + 1]
    BY <2>1, HeadTailProperties
  <2> QED BY <2>1, <2>2
<1>2. \A j \in 2..Len(o): j - 1 \in 1..Len(Tail(o)) /\ Tail(o)[j - 1] = o[j]
  BY <1>1
<1>3. StartsOnce(Tail(o))
  <2> SUFFICES ASSUME NEW i \in 1..Len(Tail(o)), NEW j \in 1..Len(Tail(o)),
                      Tail(o)[i].op = "start", Tail(o)[j].op = "start",
                      Tail(o)[i].call = Tail(o)[j].call
               PROVE  i = j
    BY DEF StartsOnce
  <2>1. i + 1 = j + 1
    BY <1>1 DEF StartsOnce
  <2> QED BY <2>1
<1>4. ASSUME NEW kind PROVE OpCalls(Tail(o), kind) \subseteq OpCalls(o, kind)
  BY <1>1 DEF OpCalls
<1>5. ASSUME Head(o).op = "start"
      PROVE  OpCalls(Tail(o), "start") = OpCalls(o, "start") \ {Head(o).call}
  <2>1. ASSUME NEW c \in OpCalls(Tail(o), "start") PROVE c # Head(o).call
    <3>1. PICK i \in 1..Len(Tail(o)): Tail(o)[i].op = "start" /\ Tail(o)[i].call = c
      BY DEF OpCalls
    <3>2. o[i + 1].op = "start" /\ o[i + 1].call = c /\ i + 1 \in 1..Len(o) /\ i + 1 # 1
      BY <1>1, <3>1
    <3> QED BY <1>1, <1>5, <3>2 DEF StartsOnce
  <2>2. ASSUME NEW c \in OpCalls(o, "start"), c # Head(o).call PROVE c \in OpCalls(Tail(o), "start")
    <3>1. PICK j \in 1..Len(o): o[j].op = "start" /\ o[j].call = c
      BY DEF OpCalls
    <3>2. j \in 2..Len(o)
      BY <1>1, <2>2, <3>1
    <3>3. Tail(o)[j - 1].op = "start" /\ Tail(o)[j - 1].call = c /\ j - 1 \in 1..Len(Tail(o))
      BY <1>2, <3>1, <3>2
    <3> QED BY <3>3 DEF OpCalls
  <2> QED BY <1>4, <2>1, <2>2
<1>6. ASSUME NEW kind, Head(o).op = kind PROVE Head(o).call \in OpCalls(o, kind)
  BY <1>1, <1>6 DEF OpCalls
<1> QED BY <1>3, <1>4, <1>5, <1>6

LEMMA AppendCalls ==
  ASSUME NEW o \in Seq(Op), NEW e \in Op
  PROVE  /\ \A kind: OpCalls(Append(o, e), kind)
                       = OpCalls(o, kind) \cup (IF e.op = kind THEN {e.call} ELSE {})
         /\ StartsOnce(o) /\ (e.op = "start" => e.call \notin OpCalls(o, "start")) =>
              StartsOnce(Append(o, e))
<1>1. /\ Len(o) \in Nat /\ Len(Append(o, e)) = Len(o) + 1
      /\ \A i \in 1..Len(o): Append(o, e)[i] = o[i]
      /\ Append(o, e)[Len(o) + 1] = e
  BY AppendProperties, LenProperties
<1>2. \A i: i \in 1..(Len(o) + 1) <=> i \in 1..Len(o) \/ i = Len(o) + 1
  BY <1>1
<1>3. ASSUME NEW kind
      PROVE  OpCalls(Append(o, e), kind)
               = OpCalls(o, kind) \cup (IF e.op = kind THEN {e.call} ELSE {})
  <2>1. ASSUME NEW c \in OpCalls(Append(o, e), kind)
        PROVE  c \in OpCalls(o, kind) \cup (IF e.op = kind THEN {e.call} ELSE {})
    <3>1. PICK i \in 1..Len(Append(o, e)): Append(o, e)[i].op = kind /\ Append(o, e)[i].call = c
      BY DEF OpCalls
    <3> QED BY <1>1, <1>2, <3>1 DEF OpCalls
  <2>2. ASSUME NEW c \in OpCalls(o, kind) PROVE c \in OpCalls(Append(o, e), kind)
    <3>1. PICK i \in 1..Len(o): o[i].op = kind /\ o[i].call = c
      BY DEF OpCalls
    <3> QED BY <1>1, <1>2, <3>1 DEF OpCalls
  <2>3. ASSUME e.op = kind PROVE e.call \in OpCalls(Append(o, e), kind)
    BY <1>1, <1>2, <2>3 DEF OpCalls
  <2> QED BY <2>1, <2>2, <2>3
<1>4. ASSUME StartsOnce(o), e.op = "start" => e.call \notin OpCalls(o, "start")
      PROVE  StartsOnce(Append(o, e))
  <2> SUFFICES ASSUME NEW i \in 1..(Len(o) + 1), NEW j \in 1..(Len(o) + 1),
                      Append(o, e)[i].op = "start", Append(o, e)[j].op = "start",
                      Append(o, e)[i].call = Append(o, e)[j].call
               PROVE  i = j
    BY <1>1 DEF StartsOnce
  <2>1. CASE i \in 1..Len(o) /\ j \in 1..Len(o)
    BY <1>1, <1>4, <2>1 DEF StartsOnce
  <2>2. CASE i = Len(o) + 1 /\ j \in 1..Len(o)
    BY <1>1, <1>4, <2>2 DEF OpCalls
  <2>3. CASE j = Len(o) + 1 /\ i \in 1..Len(o)
    BY <1>1, <1>4, <2>3 DEF OpCalls
  <2> QED BY <1>2, <2>1, <2>2, <2>3
<1> QED BY <1>3, <1>4

LEMMA ReadCalls ==
  ASSUME NEW b \in Seq(CallFrame), b # <<>>, InvitesOnce(b)
  PROVE  /\ InvitesOnce(Tail(b))
         /\ \A type: FrameCalls(Tail(b), type) \subseteq FrameCalls(b, type)
         /\ Head(b).type = "invite" => Head(b).call \notin FrameCalls(Tail(b), "invite")
         /\ \A type: Head(b).type = type => Head(b).call \in FrameCalls(b, type)
<1>1. /\ Len(b) \in Nat /\ Len(b) >= 1 /\ Len(Tail(b)) = Len(b) - 1
      /\ \A i \in 1..Len(Tail(b)): i + 1 \in 2..Len(b) /\ Tail(b)[i] = b[i + 1]
      /\ Head(b) = b[1] /\ 1 \in 1..Len(b)
  <2>1. Len(b) \in Nat /\ Len(b) # 0 /\ Tail(b) \in Seq(CallFrame) /\ Len(Tail(b)) = Len(b) - 1
    BY HeadTailProperties, EmptySeq, LenProperties
  <2>2. \A i \in 1..Len(Tail(b)): Tail(b)[i] = b[i + 1]
    BY <2>1, HeadTailProperties
  <2> QED BY <2>1, <2>2
<1>2. InvitesOnce(Tail(b))
  <2> SUFFICES ASSUME NEW i \in 1..Len(Tail(b)), NEW j \in 1..Len(Tail(b)),
                      Tail(b)[i].type = "invite", Tail(b)[j].type = "invite",
                      Tail(b)[i].call = Tail(b)[j].call
               PROVE  i = j
    BY DEF InvitesOnce
  <2>1. i + 1 = j + 1
    BY <1>1 DEF InvitesOnce
  <2> QED BY <2>1
<1>3. ASSUME NEW type PROVE FrameCalls(Tail(b), type) \subseteq FrameCalls(b, type)
  BY <1>1 DEF FrameCalls
<1>4. ASSUME Head(b).type = "invite", Head(b).call \in FrameCalls(Tail(b), "invite") PROVE FALSE
  <2>1. PICK i \in 1..Len(Tail(b)): Tail(b)[i].type = "invite" /\ Tail(b)[i].call = Head(b).call
    BY <1>4 DEF FrameCalls
  <2>2. b[i + 1].type = "invite" /\ b[i + 1].call = Head(b).call
        /\ i + 1 \in 1..Len(b) /\ i + 1 # 1
    BY <1>1, <2>1
  <2> QED BY <1>1, <1>4, <2>2 DEF InvitesOnce
<1>5. ASSUME NEW type, Head(b).type = type PROVE Head(b).call \in FrameCalls(b, type)
  BY <1>1, <1>5 DEF FrameCalls
<1> QED BY <1>2, <1>3, <1>4, <1>5

LEMMA JoinCalls ==
  ASSUME NEW b \in Seq(CallFrame), NEW fs \in Seq(CallFrame)
  PROVE  /\ \A type: FrameCalls(b \o fs, type) = FrameCalls(b, type) \cup FrameCalls(fs, type)
         /\ /\ InvitesOnce(b) /\ InvitesOnce(fs)
            /\ FrameCalls(b, "invite") \cap FrameCalls(fs, "invite") = {}
            => InvitesOnce(b \o fs)
<1>1. /\ Len(b) \in Nat /\ Len(fs) \in Nat /\ Len(b \o fs) = Len(b) + Len(fs)
      /\ \A i \in 1..Len(b): (b \o fs)[i] = b[i] /\ i \in 1..(Len(b) + Len(fs))
      /\ \A i \in 1..Len(fs): /\ (b \o fs)[Len(b) + i] = fs[i]
                              /\ Len(b) + i \in 1..(Len(b) + Len(fs))
  <2>1. Len(b) \in Nat /\ Len(fs) \in Nat /\ Len(b \o fs) = Len(b) + Len(fs)
    BY ConcatProperties, LenProperties
  <2>2. \A i \in 1..(Len(b) + Len(fs)): (b \o fs)[i] = IF i <= Len(b) THEN b[i] ELSE fs[i - Len(b)]
    BY <2>1, ConcatProperties
  <2>3. ASSUME NEW i \in 1..Len(fs)
        PROVE  (b \o fs)[Len(b) + i] = fs[i] /\ Len(b) + i \in 1..(Len(b) + Len(fs))
    <3>1. Len(b) + i \in 1..(Len(b) + Len(fs)) /\ ~(Len(b) + i <= Len(b)) /\ Len(b) + i - Len(b) = i
      BY <2>1
    <3> QED BY <2>2, <3>1
  <2>4. ASSUME NEW i \in 1..Len(b)
        PROVE  (b \o fs)[i] = b[i] /\ i \in 1..(Len(b) + Len(fs))
    <3>1. i \in 1..(Len(b) + Len(fs)) /\ i <= Len(b)
      BY <2>1
    <3> QED BY <2>2, <3>1
  <2> QED BY <2>1, <2>3, <2>4
<1>2. \A i \in 1..(Len(b) + Len(fs)): i \in 1..Len(b) \/ \E j \in 1..Len(fs): i = Len(b) + j
  <2> SUFFICES ASSUME NEW i \in 1..(Len(b) + Len(fs)), i \notin 1..Len(b)
               PROVE  \E j \in 1..Len(fs): i = Len(b) + j
    OBVIOUS
  <2>1. i - Len(b) \in 1..Len(fs) /\ i = Len(b) + (i - Len(b))
    BY <1>1
  <2> QED BY <2>1
<1>3. ASSUME NEW type
      PROVE  FrameCalls(b \o fs, type) = FrameCalls(b, type) \cup FrameCalls(fs, type)
  <2>1. ASSUME NEW c \in FrameCalls(b \o fs, type)
        PROVE  c \in FrameCalls(b, type) \cup FrameCalls(fs, type)
    <3>1. PICK i \in 1..(Len(b) + Len(fs)): (b \o fs)[i].type = type /\ (b \o fs)[i].call = c
      BY <1>1 DEF FrameCalls
    <3>2. CASE i \in 1..Len(b)
      BY <1>1, <3>1, <3>2 DEF FrameCalls
    <3>3. ASSUME NEW j \in 1..Len(fs), i = Len(b) + j PROVE c \in FrameCalls(fs, type)
      BY <1>1, <3>1, <3>3 DEF FrameCalls
    <3> QED BY <1>2, <3>2, <3>3
  <2>2. FrameCalls(b, type) \subseteq FrameCalls(b \o fs, type)
    BY <1>1 DEF FrameCalls
  <2>3. FrameCalls(fs, type) \subseteq FrameCalls(b \o fs, type)
    BY <1>1 DEF FrameCalls
  <2> QED BY <2>1, <2>2, <2>3
<1>4. ASSUME InvitesOnce(b), InvitesOnce(fs),
             FrameCalls(b, "invite") \cap FrameCalls(fs, "invite") = {}
      PROVE  InvitesOnce(b \o fs)
  <2> SUFFICES ASSUME NEW i \in 1..(Len(b) + Len(fs)), NEW j \in 1..(Len(b) + Len(fs)),
                      (b \o fs)[i].type = "invite", (b \o fs)[j].type = "invite",
                      (b \o fs)[i].call = (b \o fs)[j].call
               PROVE  i = j
    BY <1>1 DEF InvitesOnce
  <2>1. ASSUME NEW k \in 1..(Len(b) + Len(fs)), (b \o fs)[k].type = "invite"
        PROVE  \/ /\ k \in 1..Len(b) /\ (b \o fs)[k] = b[k]
                  /\ b[k].call \in FrameCalls(b, "invite")
               \/ \E m \in 1..Len(fs): /\ k = Len(b) + m /\ (b \o fs)[k] = fs[m]
                                       /\ fs[m].call \in FrameCalls(fs, "invite")
    <3>1. CASE k \in 1..Len(b)
      BY <1>1, <2>1, <3>1 DEF FrameCalls
    <3>2. ASSUME NEW m \in 1..Len(fs), k = Len(b) + m
          PROVE  (b \o fs)[k] = fs[m] /\ fs[m].call \in FrameCalls(fs, "invite")
      BY <1>1, <2>1, <3>2 DEF FrameCalls
    <3> QED BY <1>2, <3>1, <3>2
  <2>2. CASE i \in 1..Len(b) /\ j \in 1..Len(b)
    BY <1>1, <1>4, <2>2 DEF InvitesOnce
  <2>3. ASSUME NEW m \in 1..Len(fs), NEW n \in 1..Len(fs), i = Len(b) + m, j = Len(b) + n
        PROVE  i = j
    BY <1>1, <1>4, <2>3 DEF InvitesOnce
  <2> QED BY <1>4, <2>1, <2>2, <2>3
<1> QED BY <1>3, <1>4

LEMMA FewCalls ==
  /\ InvitesOnce(<<>>) /\ \A type: FrameCalls(<<>>, type) = {}
  /\ StartsOnce(<<>>) /\ \A kind: OpCalls(<<>>, kind) = {}
  /\ \A f \in CallFrame: /\ InvitesOnce(<<f>>)
                         /\ \A type: FrameCalls(<<f>>, type) = IF f.type = type THEN {f.call} ELSE {}
<1>1. Len(<<>>) = 0 /\ \A i: i \notin 1..0
  OBVIOUS
<1>2. \A f: Len(<<f>>) = 1 /\ <<f>>[1] = f /\ 1..1 = {1}
  OBVIOUS
<1>3. ASSUME NEW f, NEW type
      PROVE  FrameCalls(<<f>>, type) = IF f.type = type THEN {f.call} ELSE {}
  <2>1. FrameCalls(<<f>>, type) = {<<f>>[i].call: i \in {j \in {1}: <<f>>[j].type = type}}
    BY <1>2 DEF FrameCalls
  <2> QED BY <1>2, <2>1
<1> QED BY <1>1, <1>2, <1>3 DEF InvitesOnce, FrameCalls, StartsOnce, OpCalls

-----------------------------------------------------------------------------
(* What most steps of a page p do, with q the other one: nothing is entered,  *)
(* no call is started and none is invited to.                                 *)
Pair(p, q) == p # q /\ Peers = {p, q} /\ Listeners(p) = {q}

Only(p, q) ==
  /\ made' = made
  /\ peer'[q] = peer[q] /\ ops'[q] = ops[q] /\ prompt'[q] = prompt[q]

PageGoesOn(p) ==
  \/ peer'[p].call = NoCall /\ ~Described(peer'[p])
  \/ /\ peer'[p].call = peer[p].call
     /\ Described(peer'[p]) =>
          Described(peer[p]) \/ peer[p].call \in OpCalls(ops[p], "signal")

OpAgrees(p, e) ==
  \/ e.op = "accept" /\ e.call \in Entered(p)
  \/ e.op = "offer" /\ e.call \in EnteredByAll
  \/ e.op = "signal" /\ e.call \in FrameCalls(inbox[p], "signal")

QueueGoesOn(p) ==
  \/ ops'[p] = ops[p] /\ prompt'[p] = prompt[p]
  \/ ops'[p] = ops[p] /\ Runs(p, "accept")
  \/ /\ ops[p] # <<>> /\ ops'[p] = Tail(ops[p])
     /\ prompt'[p] = FALSE \/ (prompt'[p] = prompt[p] /\ ~Runs(p, "start"))
  \/ \E e \in Op: /\ OpAgrees(p, e) /\ ops'[p] = Append(ops[p], e)
                  /\ prompt'[p] = prompt[p]

FramesGoOn(p, q) ==
  /\ inbox'[p] = inbox[p] \/ (inbox[p] # <<>> /\ inbox'[p] = Tail(inbox[p]))
  /\ \E fs \in Seq(CallFrame):
       /\ inbox'[q] = inbox[q] \o fs
       /\ FrameCalls(fs, "invite") = {}
       /\ FrameCalls(fs, "accept") \subseteq Entered(p)
       /\ \A c \in FrameCalls(fs, "signal"):
            c \in EnteredByAll /\ c = peer[p].call /\ c = peer'[p].call

LEMMA CallData ==
  ASSUME CallTypeOK, NEW p \in Peers
  PROVE  /\ peer[p] \in PeerState /\ ops[p] \in Seq(Op) /\ inbox[p] \in Seq(CallFrame)
         /\ prompt[p] \in BOOLEAN /\ made \in Nat /\ MaxCall \in Nat /\ 1..made \subseteq CallId
         /\ peer[p].call \in CallId \cup {NoCall}
         /\ NoCall \notin CallId
<1>1. MaxCall \in Nat /\ made \in 0..MaxCall
  BY CallAssumption DEF CallTypeOK
<1> QED BY <1>1 DEF CallTypeOK, PeerState, CallId, NoCall

(* The queue loses a start or keeps it as it was.                             *)
LEMMA QueueOnly ==
  ASSUME CallTypeOK, NEW p \in Peers, StartsOnce(ops[p]), QueueGoesOn(p)
  PROVE  /\ StartsOnce(ops'[p])
         /\ OpCalls(ops'[p], "start") \subseteq OpCalls(ops[p], "start")
         /\ Unbegun(ops'[p], prompt'[p]) \subseteq Unbegun(ops[p], prompt[p])
         /\ \A c: Inviting(c, ops'[p], prompt'[p]) \subseteq Inviting(c, ops[p], prompt[p])
         /\ OpCalls(ops'[p], "accept") \subseteq OpCalls(ops[p], "accept") \cup Entered(p)
         /\ OpCalls(ops'[p], "offer") \subseteq OpCalls(ops[p], "offer") \cup EnteredByAll
         /\ OpCalls(ops'[p], "signal") \subseteq Exchanged(p)
<1> DEFINE o == ops[p]
           w == prompt[p]
<1>1. o \in Seq(Op) /\ w \in BOOLEAN
  BY CallData
<1>2. CASE ops'[p] = o /\ prompt'[p] = w
  BY <1>2 DEF Exchanged
<1>3. CASE ops'[p] = o /\ Runs(p, "accept")
  BY <1>3 DEF Exchanged, Runs, Begun, Unbegun, Inviting
<1>4. CASE /\ o # <<>> /\ ops'[p] = Tail(o)
           /\ prompt'[p] = FALSE \/ (prompt'[p] = w /\ ~Runs(p, "start"))
  <2>1. /\ StartsOnce(Tail(o))
        /\ \A kind: OpCalls(Tail(o), kind) \subseteq OpCalls(o, kind)
        /\ Head(o).op = "start" =>
             OpCalls(Tail(o), "start") = OpCalls(o, "start") \ {Head(o).call}
    BY <1>1, <1>4, TailCalls
  <2>2. CASE Head(o).op = "start"
    <3>1. prompt'[p] = FALSE
      BY <1>4, <2>2 DEF Runs
    <3>2. Begun(Tail(o), FALSE) = {} /\ Begun(o, w) \subseteq {Head(o).call}
      BY DEF Begun
    <3> QED BY <1>4, <2>1, <2>2, <3>1, <3>2 DEF Exchanged, Unbegun, Inviting
  <2>3. CASE Head(o).op # "start"
    <3>1. Begun(o, w) = {}
      BY <2>3 DEF Begun
    <3> QED BY <1>4, <2>1, <3>1 DEF Exchanged, Unbegun, Inviting
  <2> QED BY <2>2, <2>3
<1>5. ASSUME NEW e \in Op, OpAgrees(p, e), ops'[p] = Append(o, e), prompt'[p] = w
      PROVE  /\ StartsOnce(ops'[p])
             /\ OpCalls(ops'[p], "start") \subseteq OpCalls(o, "start")
             /\ Unbegun(ops'[p], prompt'[p]) \subseteq Unbegun(o, w)
             /\ \A c: Inviting(c, ops'[p], prompt'[p]) \subseteq Inviting(c, o, w)
             /\ OpCalls(ops'[p], "accept") \subseteq OpCalls(o, "accept") \cup Entered(p)
             /\ OpCalls(ops'[p], "offer") \subseteq OpCalls(o, "offer") \cup EnteredByAll
             /\ OpCalls(ops'[p], "signal") \subseteq Exchanged(p)
  <2>1. e.op # "start"
    BY <1>5 DEF OpAgrees
  <2>2. /\ \A kind: OpCalls(Append(o, e), kind)
                      = OpCalls(o, kind) \cup (IF e.op = kind THEN {e.call} ELSE {})
        /\ StartsOnce(Append(o, e))
    BY <1>1, <2>1, AppendCalls
  <2>3. Begun(o, w) \subseteq Begun(Append(o, e), w) /\ Begun(Append(o, e), w) \subseteq Begun(o, w)
    <3>1. CASE o = <<>>
      <4>1. Append(o, e) = <<e>> /\ Head(<<e>>) = e
        BY <3>1
      <4> QED BY <2>1, <3>1, <4>1 DEF Begun
    <3>2. CASE o # <<>>
      <4>1. Append(o, e) # <<>> /\ Head(Append(o, e)) = Head(o)
        BY <1>1, <3>2, AppendProperties
      <4> QED BY <3>2, <4>1 DEF Begun
    <3> QED BY <3>1, <3>2
  <2>4. Begun(Append(o, e), w) = Begun(o, w) /\ OpCalls(Append(o, e), "start") = OpCalls(o, "start")
    BY <2>1, <2>2, <2>3
  <2>5. /\ OpCalls(ops'[p], "accept") \subseteq OpCalls(o, "accept") \cup Entered(p)
        /\ OpCalls(ops'[p], "offer") \subseteq OpCalls(o, "offer") \cup EnteredByAll
        /\ OpCalls(ops'[p], "signal") \subseteq Exchanged(p)
    BY <1>5, <2>2 DEF OpAgrees, Exchanged
  <2> QED BY <1>5, <2>2, <2>4, <2>5 DEF Unbegun, Inviting
<1> QED BY <1>2, <1>3, <1>4, <1>5 DEF QueueGoesOn

LEMMA FramesOnly ==
  ASSUME CallTypeOK, NEW p \in Peers, NEW q \in Peers, InvitesOnce(inbox[p]), InvitesOnce(inbox[q]),
         FramesGoOn(p, q)
  PROVE  /\ InvitesOnce(inbox'[p]) /\ InvitesOnce(inbox'[q])
         /\ \A type: FrameCalls(inbox'[p], type) \subseteq FrameCalls(inbox[p], type)
         /\ FrameCalls(inbox'[q], "invite") \subseteq FrameCalls(inbox[q], "invite")
         /\ FrameCalls(inbox'[q], "accept") \subseteq FrameCalls(inbox[q], "accept") \cup Entered(p)
         /\ \A c \in FrameCalls(inbox'[q], "signal"):
              \/ c \in FrameCalls(inbox[q], "signal")
              \/ c \in EnteredByAll /\ c = peer[p].call /\ c = peer'[p].call
<1>1. inbox[p] \in Seq(CallFrame) /\ inbox[q] \in Seq(CallFrame)
  BY CallData
<1>2. InvitesOnce(inbox'[p]) /\ \A type: FrameCalls(inbox'[p], type) \subseteq FrameCalls(inbox[p], type)
  BY <1>1, ReadCalls DEF FramesGoOn
<1>3. PICK fs \in Seq(CallFrame):
        /\ inbox'[q] = inbox[q] \o fs
        /\ FrameCalls(fs, "invite") = {}
        /\ FrameCalls(fs, "accept") \subseteq Entered(p)
        /\ \A c \in FrameCalls(fs, "signal"):
             c \in EnteredByAll /\ c = peer[p].call /\ c = peer'[p].call
  BY DEF FramesGoOn
<1>4. InvitesOnce(fs)
  BY <1>3 DEF InvitesOnce, FrameCalls
<1>5. /\ \A type: FrameCalls(inbox'[q], type) = FrameCalls(inbox[q], type) \cup FrameCalls(fs, type)
      /\ InvitesOnce(inbox'[q])
  BY <1>1, <1>3, <1>4, JoinCalls
<1> QED BY <1>2, <1>3, <1>5

(* Nothing new is to come: what is entered stays so.                          *)
LEMMA NothingComes ==
  ASSUME CallTypeOK, OneOfEach, NEW p \in Peers, NEW q \in Peers, Pair(p, q), Only(p, q),
         StartsOnce(ops'[p]), OpCalls(ops'[p], "start") \subseteq OpCalls(ops[p], "start"),
         Unbegun(ops'[p], prompt'[p]) \subseteq Unbegun(ops[p], prompt[p]),
         Inviting(peer'[p].call, ops'[p], prompt'[p])
           \subseteq Inviting(peer[p].call, ops[p], prompt[p]),
         InvitesOnce(inbox'[p]), InvitesOnce(inbox'[q]),
         FrameCalls(inbox'[p], "invite") \subseteq FrameCalls(inbox[p], "invite"),
         FrameCalls(inbox'[q], "invite") \subseteq FrameCalls(inbox[q], "invite")
  PROVE  /\ OneOfEach' /\ EnteredByAll \subseteq EnteredByAll'
         /\ \A r \in Peers: Entered(r) \subseteq Entered(r)'
<1>1. p # q /\ Peers = {p, q} /\ made' = made
      /\ peer'[q] = peer[q] /\ ops'[q] = ops[q] /\ prompt'[q] = prompt[q]
  BY DEF Pair, Only
<1>2. OneOfEach'
  <2>1. \A r \in {p, q}:
          /\ StartsOnce(ops'[r]) /\ InvitesOnce(inbox'[r])
          /\ OpCalls(ops'[r], "start") \subseteq OpCalls(ops[r], "start")
          /\ FrameCalls(inbox'[r], "invite") \subseteq FrameCalls(inbox[r], "invite")
    BY <1>1 DEF OneOfEach
  <2> QED BY <1>1, <2>1 DEF OneOfEach
<1>3. Entered(p) \subseteq Entered(p)'
  <2>1. Peers \ {p} = {q}
    BY <1>1
  <2> QED BY <1>1, <2>1 DEF Entered
<1>4. Entered(q) \subseteq Entered(q)'
  <2>1. Peers \ {q} = {p}
    BY <1>1
  <2> QED BY <1>1, <2>1 DEF Entered
<1> QED BY <1>1, <1>2, <1>3, <1>4 DEF EnteredByAll

(* Where no call is entered.                                                  *)
LEMMA CallKept ==
  ASSUME CallTypeOK, CallOrder, NEW p \in Peers, NEW q \in Peers, Pair(p, q),
         peer'[q] = peer[q], ops'[q] = ops[q],
         OneOfEach', EnteredByAll \subseteq EnteredByAll',
         \A r \in Peers: Entered(r) \subseteq Entered(r)',
         PageGoesOn(p),
         OpCalls(ops'[p], "accept") \subseteq OpCalls(ops[p], "accept") \cup Entered(p),
         OpCalls(ops'[p], "offer") \subseteq OpCalls(ops[p], "offer") \cup EnteredByAll,
         OpCalls(ops'[p], "signal") \subseteq Exchanged(p),
         \A type: FrameCalls(inbox'[p], type) \subseteq FrameCalls(inbox[p], type),
         FrameCalls(inbox'[q], "accept") \subseteq FrameCalls(inbox[q], "accept") \cup Entered(p),
         \A c \in FrameCalls(inbox'[q], "signal"):
           \/ c \in FrameCalls(inbox[q], "signal")
           \/ c \in EnteredByAll /\ c = peer[p].call /\ c = peer'[p].call
  PROVE  CallOrder'
<1>1. p # q /\ Peers = {p, q} /\ peer'[q] = peer[q] /\ ops'[q] = ops[q]
  BY DEF Pair
<1>2. OneOfEach /\ InOrder /\ OneExchange
  BY DEF CallOrder
<1>3. Exchanged(p)' \subseteq Exchanged(p)
      /\ \A c \in Exchanged(q)':
           c \in Exchanged(q) \/ (c \in EnteredByAll /\ c = peer[p].call /\ c = peer'[p].call)
  BY <1>1 DEF Exchanged
<1>4. InOrder'
  <2>1. peer'[p].call # NoCall => peer'[p].call \in Entered(p)
    BY <1>2 DEF InOrder, PageGoesOn
  <2>2. Described(peer'[p]) => peer'[p].call \in EnteredByAll
    BY <1>2 DEF InOrder, PageGoesOn, Exchanged
  <2>3. /\ peer'[q].call # NoCall => peer'[q].call \in Entered(q)
        /\ Described(peer'[q]) => peer'[q].call \in EnteredByAll
    BY <1>1, <1>2 DEF InOrder
  <2>4. OpCalls(ops'[p], "accept") \subseteq Entered(p) /\ OpCalls(ops'[q], "accept") \subseteq Entered(q)
    BY <1>1, <1>2 DEF InOrder
  <2>5. /\ FrameCalls(inbox'[q], "accept") \subseteq Entered(p)
        /\ FrameCalls(inbox'[p], "accept") \subseteq Entered(q)
    BY <1>1, <1>2 DEF InOrder
  <2>6. /\ OpCalls(ops'[p], "offer") \cup Exchanged(p)' \subseteq EnteredByAll
        /\ OpCalls(ops'[q], "offer") \cup Exchanged(q)' \subseteq EnteredByAll
    BY <1>1, <1>2, <1>3 DEF InOrder
  <2> QED BY <1>1, <2>1, <2>2, <2>3, <2>4, <2>5, <2>6 DEF InOrder
<1>5. OneExchange'
  <2>1. Holds(p)' => Holds(p) /\ peer'[p].call = peer[p].call
    BY <1>3 DEF Holds, PageGoesOn, Exchanged
  <2>2. Holds(q)' => Holds(q) \/ peer[q].call = peer'[p].call
    BY <1>1, <1>3 DEF Holds
  <2> QED BY <1>1, <1>2, <2>1, <2>2 DEF OneExchange
<1> QED BY <1>4, <1>5 DEF CallOrder

(* Most steps.                                                                *)
LEMMA CallGoesOn ==
  ASSUME CallTypeOK, CallOrder, NEW p \in Peers, NEW q \in Peers, Pair(p, q), Only(p, q),
         PageGoesOn(p), QueueGoesOn(p), FramesGoOn(p, q)
  PROVE  CallOrder'
<1>1. p # q /\ Peers = {p, q} /\ peer'[q] = peer[q] /\ ops'[q] = ops[q]
  BY DEF Pair, Only
<1>2. OneOfEach /\ InOrder /\ OneExchange
  BY DEF CallOrder
<1>3. /\ StartsOnce(ops'[p])
      /\ OpCalls(ops'[p], "start") \subseteq OpCalls(ops[p], "start")
      /\ Unbegun(ops'[p], prompt'[p]) \subseteq Unbegun(ops[p], prompt[p])
      /\ \A c: Inviting(c, ops'[p], prompt'[p]) \subseteq Inviting(c, ops[p], prompt[p])
      /\ OpCalls(ops'[p], "accept") \subseteq OpCalls(ops[p], "accept") \cup Entered(p)
      /\ OpCalls(ops'[p], "offer") \subseteq OpCalls(ops[p], "offer") \cup EnteredByAll
      /\ OpCalls(ops'[p], "signal") \subseteq Exchanged(p)
  BY <1>2, QueueOnly DEF OneOfEach
<1>4. /\ InvitesOnce(inbox'[p]) /\ InvitesOnce(inbox'[q])
      /\ \A type: FrameCalls(inbox'[p], type) \subseteq FrameCalls(inbox[p], type)
      /\ FrameCalls(inbox'[q], "invite") \subseteq FrameCalls(inbox[q], "invite")
      /\ FrameCalls(inbox'[q], "accept") \subseteq FrameCalls(inbox[q], "accept") \cup Entered(p)
      /\ \A c \in FrameCalls(inbox'[q], "signal"):
           \/ c \in FrameCalls(inbox[q], "signal")
           \/ c \in EnteredByAll /\ c = peer[p].call /\ c = peer'[p].call
  BY <1>2, FramesOnly DEF OneOfEach
<1>5. Inviting(peer'[p].call, ops'[p], prompt'[p])
        \subseteq Inviting(peer[p].call, ops[p], prompt[p])
  <2>1. CASE peer'[p].call = peer[p].call
    BY <1>3, <2>1
  <2>2. CASE peer'[p].call = NoCall
    <3>1. NoCall \notin OpCalls(ops[p], "start")
      BY <1>2, CallData DEF OneOfEach
    <3>2. Inviting(NoCall, ops[p], prompt[p]) \subseteq Inviting(peer[p].call, ops[p], prompt[p])
      BY <3>1 DEF Inviting
    <3> QED BY <1>3, <2>2, <3>2
  <2> QED BY <2>1, <2>2 DEF PageGoesOn
<1>6. /\ OneOfEach' /\ EnteredByAll \subseteq EnteredByAll'
      /\ \A r \in Peers: Entered(r) \subseteq Entered(r)'
  BY <1>2, <1>3, <1>4, <1>5, NothingComes
<1> QED BY <1>1, <1>3, <1>4, <1>6, CallKept

(* A page enters a call it was to start or was invited to.                    *)
LEMMA CallEntered ==
  ASSUME CallTypeOK, CallOrder, NEW p \in Peers, NEW q \in Peers, Pair(p, q), Only(p, q),
         OneOfEach', \A r \in Peers: Entered(r) \subseteq Entered(r)',
         EnteredByAll \subseteq EnteredByAll',
         peer'[p].call \notin Entered(p), peer'[p].call \in Entered(p)', ~Described(peer'[p]),
         ops'[p] = ops[p], inbox'[q] = inbox[q],
         \A type: FrameCalls(inbox'[p], type) \subseteq FrameCalls(inbox[p], type)
  PROVE  CallOrder'
<1>1. p # q /\ Peers = {p, q} /\ peer'[q] = peer[q] /\ ops'[q] = ops[q]
  BY DEF Pair, Only
<1>2. OneOfEach /\ InOrder /\ OneExchange
  BY DEF CallOrder
<1>3. Exchanged(p)' \subseteq Exchanged(p) /\ Exchanged(q)' = Exchanged(q)
  BY <1>1 DEF Exchanged
<1>4. InOrder'
  <2>1. /\ peer'[q].call # NoCall => peer'[q].call \in Entered(q)
        /\ Described(peer'[q]) => peer'[q].call \in EnteredByAll
    BY <1>1, <1>2 DEF InOrder
  <2>2. OpCalls(ops'[p], "accept") \subseteq Entered(p) /\ OpCalls(ops'[q], "accept") \subseteq Entered(q)
    BY <1>1, <1>2 DEF InOrder
  <2>3. /\ FrameCalls(inbox'[q], "accept") \subseteq Entered(p)
        /\ FrameCalls(inbox'[p], "accept") \subseteq Entered(q)
    BY <1>1, <1>2 DEF InOrder
  <2>4. /\ OpCalls(ops'[p], "offer") \cup Exchanged(p)' \subseteq EnteredByAll
        /\ OpCalls(ops'[q], "offer") \cup Exchanged(q)' \subseteq EnteredByAll
    BY <1>1, <1>2, <1>3 DEF InOrder
  <2> QED BY <1>1, <2>1, <2>2, <2>3, <2>4 DEF InOrder
<1>5. peer'[p].call \notin Exchanged(p)
  BY <1>2 DEF InOrder, EnteredByAll
<1>6. ~Holds(p)'
  BY <1>3, <1>5 DEF Holds
<1>7. OneExchange'
  BY <1>1, <1>6 DEF OneExchange
<1> QED BY <1>4, <1>7 DEF CallOrder

LEMMA OneFrame ==
  ASSUME NEW f \in CallFrame
  PROVE  /\ <<f>> \in Seq(CallFrame) /\ InvitesOnce(<<f>>)
         /\ FrameCalls(<<f>>, f.type) = {f.call}
         /\ \A type: type # f.type => FrameCalls(<<f>>, type) = {}
<1>1. <<f>> \in Seq(CallFrame)
  OBVIOUS
<1> QED BY <1>1, FewCalls

-----------------------------------------------------------------------------
(* Where the pieces of a step put things.                                     *)
LEMMA PageOnly ==
  ASSUME CallTypeOK, NEW p \in Peers, NEW q \in Peers, p # q, NEW s, Become(p, s)
  PROVE  peer'[p] = s /\ peer'[q] = peer[q]
BY DEF CallTypeOK, Become

LEMMA AddOnly ==
  ASSUME CallTypeOK, NEW p \in Peers, NEW q \in Peers, p # q, NEW e, Enqueue(p, e)
  PROVE  ops'[p] = Append(ops[p], e) /\ ops'[q] = ops[q]
BY DEF CallTypeOK, Enqueue

LEMMA DropOnly ==
  ASSUME CallTypeOK, NEW p \in Peers, NEW q \in Peers, p # q, Dequeue(p)
  PROVE  ops'[p] = Tail(ops[p]) /\ ops'[q] = ops[q]
BY DEF CallTypeOK, Dequeue

LEMMA AskOnly ==
  ASSUME CallTypeOK, NEW p \in Peers, NEW q \in Peers, p # q, NEW w, prompt' = [prompt EXCEPT ![p] = w]
  PROVE  prompt'[p] = w /\ prompt'[q] = prompt[q]
BY DEF CallTypeOK

LEMMA SendOnly ==
  ASSUME NEW p \in Peers, NEW q \in Peers, Pair(p, q), NEW fs, NEW rest, Relay(p, fs, rest)
  PROVE  inbox'[p] = rest /\ inbox'[q] = inbox[q] \o fs
BY DEF Pair, Relay

LEMMA NothingSent ==
  ASSUME CallTypeOK, NEW p \in Peers, NEW q \in Peers, inbox' = inbox
  PROVE  FramesGoOn(p, q)
<1>1. inbox[q] \in Seq(CallFrame) /\ <<>> \in Seq(CallFrame)
  BY CallData
<1>2. inbox[q] \o <<>> = inbox[q]
  BY <1>1, ConcatEmptySeq
<1> QED BY <1>1, <1>2, FewCalls DEF FramesGoOn

LEMMA FrameTaken ==
  ASSUME CallTypeOK, NEW p \in Peers, NEW q \in Peers, Pair(p, q), inbox[p] # <<>>,
         Relay(p, <<>>, Tail(inbox[p]))
  PROVE  FramesGoOn(p, q) /\ inbox'[p] = Tail(inbox[p]) /\ inbox'[q] = inbox[q]
<1>1. inbox[q] \in Seq(CallFrame) /\ <<>> \in Seq(CallFrame)
  BY CallData
<1>2. inbox'[p] = Tail(inbox[p]) /\ inbox'[q] = inbox[q] \o <<>> /\ inbox[q] \o <<>> = inbox[q]
  BY <1>1, SendOnly, ConcatEmptySeq
<1> QED BY <1>1, <1>2, FewCalls DEF FramesGoOn

LEMMA EndSent ==
  ASSUME CallTypeOK, NEW p \in Peers, NEW q \in Peers, Pair(p, q),
         NEW type \in {"reject", "hangup"}, NEW c \in CallId, Send(p, type, c)
  PROVE  FramesGoOn(p, q)
<1> DEFINE f == [type |-> type, call |-> c]
<1>1. f \in CallFrame /\ f.type = type /\ Relay(p, <<f>>, inbox[p])
  BY DEF CallFrame, Send
<1> HIDE DEF f
<1>2. /\ FrameCalls(<<f>>, "invite") = {} /\ FrameCalls(<<f>>, "accept") = {}
      /\ FrameCalls(<<f>>, "signal") = {} /\ <<f>> \in Seq(CallFrame)
  BY <1>1, OneFrame
<1> QED BY <1>1, <1>2, SendOnly DEF FramesGoOn

(* Offers and answers are sent in the call of the page.                       *)
LEMMA SignalsSent ==
  ASSUME NEW p \in Peers, NEW sdp \in Sdp, NEW c \in CallId
  PROVE  LET f == [type |-> "signal", call |-> c, sdp |-> sdp] IN
         /\ <<f>> \in Seq(CallFrame)
         /\ FrameCalls(<<f>>, "invite") = {} /\ FrameCalls(<<f>>, "accept") = {}
         /\ FrameCalls(<<f>>, "signal") = {c}
<1> DEFINE f == [type |-> "signal", call |-> c, sdp |-> sdp]
<1>1. f \in CallFrame /\ f.type = "signal" /\ f.call = c
  BY DEF CallFrame
<1> HIDE DEF f
<1>2. /\ FrameCalls(<<f>>, "invite") = {} /\ FrameCalls(<<f>>, "accept") = {}
      /\ FrameCalls(<<f>>, "signal") = {c} /\ <<f>> \in Seq(CallFrame)
  BY <1>1, OneFrame
<1> QED BY <1>2 DEF f

LEMMA OfferSent ==
  ASSUME NEW p \in Peers, NEW c \in CallId
  PROVE  /\ Offer(p, c) \in Seq(CallFrame)
         /\ FrameCalls(Offer(p, c), "invite") = {} /\ FrameCalls(Offer(p, c), "accept") = {}
         /\ FrameCalls(Offer(p, c), "signal") = {c}
<1>1. [kind |-> "offer", by |-> p] \in Sdp
  BY DEF Sdp
<1> QED BY <1>1, SignalsSent DEF Offer

LEMMA AnswersSent ==
  ASSUME NEW p \in Peers, NEW s \in PeerState, NEW sdp
  PROVE  /\ Answers(p, s, sdp) \in Seq(CallFrame)
         /\ FrameCalls(Answers(p, s, sdp), "invite") = {}
         /\ FrameCalls(Answers(p, s, sdp), "accept") = {}
         /\ FrameCalls(Answers(p, s, sdp), "signal") \subseteq {s.call}
<1>1. CASE sdp.kind = "offer" /\ Applies(s, sdp) /\ ~Buffers(s, sdp) /\ s.call # NoCall
  <2>1. [kind |-> "answer", by |-> p] \in Sdp /\ s.call \in CallId
    BY <1>1 DEF Sdp, PeerState
  <2>2. Answers(p, s, sdp)
          = <<[type |-> "signal", call |-> s.call, sdp |-> [kind |-> "answer", by |-> p]]>>
    BY <1>1 DEF Answers
  <2> QED BY <2>1, <2>2, SignalsSent
<1>2. CASE ~(sdp.kind = "offer" /\ Applies(s, sdp) /\ ~Buffers(s, sdp) /\ s.call # NoCall)
  <2>1. Answers(p, s, sdp) = <<>> /\ <<>> \in Seq(CallFrame)
    BY <1>2 DEF Answers
  <2> QED BY <2>1, FewCalls
<1> QED BY <1>1, <1>2

(* What the pieces make of a page.                                            *)
LEMMA PageKept ==
  ASSUME NEW s \in PeerState
  PROVE  /\ WithPc(s) \in PeerState /\ WithPc(s).call = s.call
         /\ Described(WithPc(s)) <=> Described(s)
         /\ WithPc(s).buf = s.buf
         /\ Attached(s) \in PeerState /\ Attached(s).call = s.call
         /\ Described(Attached(s)) <=> Described(s)
<1>1. Fresh \in Connection /\ Fresh.st = "stable"
  BY DEF Fresh, Connection
<1>2. /\ WithPc(s) \in PeerState /\ WithPc(s).call = s.call /\ WithPc(s).buf = s.buf
      /\ WithPc(s).pc.st = "linked" <=> s.pc.st = "linked"
  BY <1>1 DEF WithPc, PeerState
<1>3. /\ Attached(s) \in PeerState /\ Attached(s).call = s.call /\ Attached(s).buf = s.buf
      /\ Attached(s).pc = WithPc(s).pc
  BY <1>2 DEF Attached, PeerState
<1> QED BY <1>2, <1>3 DEF Described

LEMMA Cleared ==
  ASSUME NEW s \in PeerState
  PROVE  /\ WithoutMedia(s) \in PeerState
         /\ WithoutMedia(s).pc = NoConnection /\ WithoutMedia(s).buf = NoSdp
<1>1. NoConnection \in Connection /\ NoSdp \in Sdp \cup {NoSdp}
  BY DEF NoConnection, Connection
<1> QED BY <1>1 DEF WithoutMedia, PeerState

LEMMA IdleNow == IdleState.call = NoCall /\ ~Described(IdleState) /\ IdleState \in PeerState
<1>1. IdleState \in PeerState
  BY DEF IdleState, PeerState, NoConnection, Connection, NoSdp, Sdp, NoCall
<1> QED BY <1>1 DEF IdleState, Described, NoConnection

LEMMA Told ==
  ASSUME NEW s \in PeerState, NEW sdp \in Sdp
  PROVE  AfterSdp(s, sdp) \in PeerState /\ AfterSdp(s, sdp).call = s.call
<1>1. CASE ~Applies(s, sdp)
  BY <1>1 DEF AfterSdp
<1>2. CASE Applies(s, sdp) /\ Buffers(s, sdp)
  <2>1. AfterSdp(s, sdp) = [s EXCEPT !.buf = sdp]
    BY <1>2 DEF AfterSdp
  <2> QED BY <2>1 DEF PeerState
<1>3. CASE Applies(s, sdp) /\ ~Buffers(s, sdp)
  <2> DEFINE c == [st |-> "linked", with |-> sdp.by]
             f == IF sdp.kind = "offer" /\ s.phase # "idle" THEN "connecting" ELSE s.phase
  <2>1. AfterSdp(s, sdp) = [s EXCEPT !.pc = c, !.phase = f]
    BY <1>3 DEF AfterSdp
  <2>2. c \in Connection /\ f \in {"idle", "outgoing", "incoming", "connecting", "in_call"}
    BY DEF Connection, Sdp, PeerState
  <2> HIDE DEF c, f
  <2> QED BY <2>1, <2>2 DEF PeerState
<1> QED BY <1>1, <1>2, <1>3

LEMMA Flushed ==
  ASSUME NEW p \in Peers, NEW s \in PeerState
  PROVE  /\ Flush(s) \in PeerState /\ Flush(s).call = s.call
         /\ Described(Flush(s)) => Described(s)
         /\ FlushAnswers(p, s) \in Seq(CallFrame)
         /\ FrameCalls(FlushAnswers(p, s), "invite") = {}
         /\ FrameCalls(FlushAnswers(p, s), "accept") = {}
         /\ \A c \in FrameCalls(FlushAnswers(p, s), "signal"): c = s.call /\ Described(s)
<1>1. CASE s.buf = NoSdp
  <2>1. Flush(s) = s /\ FlushAnswers(p, s) = <<>> /\ <<>> \in Seq(CallFrame)
    BY <1>1 DEF Flush, FlushAnswers
  <2> QED BY <2>1, FewCalls
<1>2. CASE s.buf # NoSdp
  <2> DEFINE t == [WithPc(s) EXCEPT !.buf = NoSdp]
  <2>1. WithPc(s) \in PeerState /\ WithPc(s).call = s.call
    BY PageKept
  <2>2. t \in PeerState /\ t.call = s.call /\ s.buf \in Sdp
    BY <1>2, <2>1 DEF PeerState
  <2>3. Flush(s) = AfterSdp(t, s.buf) /\ FlushAnswers(p, s) = Answers(p, WithPc(s), s.buf)
    BY <1>2 DEF Flush, FlushAnswers
  <2> HIDE DEF t
  <2>4. Flush(s) \in PeerState /\ Flush(s).call = s.call
    BY <2>2, <2>3, Told
  <2>5. Described(s)
    BY <1>2 DEF Described
  <2> QED BY <2>1, <2>3, <2>4, <2>5, AnswersSent
<1> QED BY <1>1, <1>2

-----------------------------------------------------------------------------
(* The steps, one by one.                                                     *)
LEMMA HeadCalls ==
  ASSUME CallTypeOK, NEW p \in Peers, NEW kind, Runs(p, kind)
  PROVE  /\ Head(ops[p]) \in Op /\ Head(ops[p]).op = kind /\ ops[p] # <<>>
         /\ Head(ops[p]).call \in CallId
         /\ Head(ops[p]).call \in OpCalls(ops[p], kind)
<1>1. ops[p] \in Seq(Op) /\ ops[p] # <<>> /\ Head(ops[p]).op = kind
  BY CallData DEF Runs
<1>2. Head(ops[p]) \in Op /\ Len(ops[p]) >= 1 /\ Head(ops[p]) = ops[p][1] /\ Len(ops[p]) \in Nat
  <2>1. Len(ops[p]) \in Nat /\ Len(ops[p]) # 0
    BY <1>1, EmptySeq, LenProperties
  <2> QED BY <1>1, <2>1, HeadTailProperties
<1>3. Head(ops[p]).call \in OpCalls(ops[p], kind)
  BY <1>1, <1>2 DEF OpCalls
<1> QED BY <1>1, <1>2, <1>3 DEF Op

LEMMA StartOrder ==
  ASSUME CallTypeOK, CallOrder, NEW p \in Peers, NEW q \in Peers, Pair(p, q), StartCall(p)
  PROVE  CallOrder'
<1> DEFINE e == [op |-> "start", call |-> made + 1]
           o == ops[p]
<1>1. p # q /\ Peers = {p, q} /\ made \in Nat /\ made < MaxCall /\ MaxCall \in Nat
      /\ made' = made + 1 /\ UNCHANGED <<peer, prompt, inbox>> /\ o \in Seq(Op)
      /\ Enqueue(p, e)
  BY CallData DEF StartCall, Pair
<1>2. e \in Op /\ e.op = "start" /\ e.call = made + 1
  BY <1>1 DEF Op, CallId
<1> HIDE DEF e
<1>3. ops'[p] = Append(o, e) /\ ops'[q] = ops[q]
  BY <1>1, AddOnly
<1>4. OneOfEach
  BY DEF CallOrder
<1>5. made + 1 \notin OpCalls(o, "start")
  BY <1>1, <1>4 DEF OneOfEach
<1>6. /\ StartsOnce(ops'[p]) /\ OpCalls(ops'[p], "start") = OpCalls(o, "start") \cup {made + 1}
      /\ \A kind: kind # "start" => OpCalls(ops'[p], kind) = OpCalls(o, kind)
  <2>1. /\ \A kind: OpCalls(Append(o, e), kind)
                      = OpCalls(o, kind) \cup (IF e.op = kind THEN {e.call} ELSE {})
        /\ StartsOnce(Append(o, e))
    BY <1>1, <1>2, <1>4, <1>5, AppendCalls DEF OneOfEach
  <2>2. OpCalls(Append(o, e), "start") = OpCalls(o, "start") \cup {made + 1}
    BY <1>2, <2>1
  <2>3. ASSUME NEW kind, kind # "start" PROVE OpCalls(Append(o, e), kind) = OpCalls(o, kind)
    BY <1>2, <2>1, <2>3
  <2> QED BY <1>3, <2>1, <2>2, <2>3
<1>7. 1..made \subseteq 1..(made + 1) /\ made + 1 \notin 1..made /\ made + 1 \in 1..(made + 1)
  BY <1>1
<1>8. OneOfEach'
  <2>1. \A r \in {p, q}: OpCalls(ops'[r], "start") \subseteq OpCalls(ops[r], "start") \cup {made + 1}
    BY <1>3, <1>6
  <2>2. \A r \in {p, q}: StartsOnce(ops'[r])
    BY <1>1, <1>3, <1>4, <1>6 DEF OneOfEach
  <2>3. \A r \in Peers: made + 1 \notin FrameCalls(inbox[r], "invite")
                        /\ made + 1 \notin OpCalls(ops[r], "start")
    BY <1>4, <1>7 DEF OneOfEach
  <2>4. OpCalls(ops'[p], "start") \cap OpCalls(ops'[q], "start") = {}
    BY <1>1, <1>3, <1>4, <1>6, <2>3 DEF OneOfEach
  <2> QED BY <1>1, <1>4, <1>7, <2>1, <2>2, <2>3, <2>4 DEF OneOfEach
<1>9. Begun(o, prompt[p]) \subseteq Begun(ops'[p], prompt[p])
  <2>1. CASE o = <<>>
    BY <2>1 DEF Begun
  <2>2. CASE o # <<>>
    <3>1. Append(o, e) # <<>> /\ Head(Append(o, e)) = Head(o)
      BY <1>1, <1>2, <2>2, AppendProperties
    <3> QED BY <1>3, <2>2, <3>1 DEF Begun
  <2> QED BY <2>1, <2>2
<1>10. /\ Unbegun(ops'[p], prompt[p]) \subseteq Unbegun(o, prompt[p]) \cup {made + 1}
       /\ \A c: Inviting(c, ops'[p], prompt[p]) \subseteq Inviting(c, o, prompt[p]) \cup {made + 1}
  BY <1>6, <1>9 DEF Unbegun, Inviting
<1>11. \A r \in Peers: Entered(r) \subseteq Entered(r)'
  <2>1. Peers \ {p} = {q} /\ Peers \ {q} = {p}
    BY <1>1
  <2>2. Entered(p) \subseteq Entered(p)'
    BY <1>1, <1>3, <1>7, <1>10, <2>1 DEF Entered
  <2>3. Entered(q) \subseteq Entered(q)'
    BY <1>1, <1>3, <1>7, <1>10, <2>1 DEF Entered
  <2> QED BY <1>1, <2>2, <2>3
<1>12. EnteredByAll \subseteq EnteredByAll'
  BY <1>1, <1>7, <1>11 DEF EnteredByAll
<1>13. PageGoesOn(p)
  BY <1>1 DEF PageGoesOn
<1>14. OpCalls(ops'[p], "signal") \subseteq Exchanged(p)
  BY <1>6 DEF Exchanged
<1> QED BY <1>1, <1>3, <1>6, <1>8, <1>11, <1>12, <1>13, <1>14, CallKept

LEMMA BeginOrder ==
  ASSUME CallTypeOK, CallOrder, NEW p \in Peers, NEW q \in Peers, Pair(p, q), StartRuns(p)
  PROVE  CallOrder'
<1> DEFINE o == ops[p]
           c == Head(ops[p]).call
<1>1. p # q /\ Peers = {p, q} /\ prompt[p] = FALSE /\ Runs(p, "start")
      /\ UNCHANGED <<inbox, made>>
      /\ o # <<>> /\ Head(o).op = "start" /\ c \in OpCalls(o, "start") /\ c \in CallId
  BY CallData, HeadCalls DEF StartRuns, Pair
<1>2. CASE peer[p].call # NoCall
  <2>1. Dequeue(p) /\ UNCHANGED <<peer, prompt>>
    BY <1>2 DEF StartRuns
  <2>2. ops'[p] = Tail(o) /\ ops'[q] = ops[q]
    BY <1>1, <2>1, DropOnly
  <2>3. PageGoesOn(p) /\ QueueGoesOn(p) /\ Only(p, q)
    BY <1>1, <2>1, <2>2 DEF PageGoesOn, QueueGoesOn, Only
  <2> QED BY <1>1, <2>3, NothingSent, CallGoesOn
<1>3. CASE peer[p].call = NoCall
  <2> DEFINE s == [WithoutMedia(peer[p]) EXCEPT !.call = c, !.phase = "outgoing",
                                                !.init = TRUE, !.accepted = FALSE]
  <2>1. Become(p, s) /\ prompt' = [prompt EXCEPT ![p] = TRUE] /\ ops' = ops
    BY <1>3 DEF StartRuns
  <2>2. s.call = c /\ ~Described(s)
    <3>1. /\ WithoutMedia(peer[p]) \in PeerState
          /\ WithoutMedia(peer[p]).pc = NoConnection /\ WithoutMedia(peer[p]).buf = NoSdp
      BY CallData, Cleared
    <3> HIDE DEF c
    <3>3. s.call = c /\ s.pc = NoConnection /\ s.buf = NoSdp
      BY <3>1 DEF PeerState
    <3> QED BY <3>3 DEF Described, NoConnection
  <2> HIDE DEF s
  <2>3. peer'[p] = s /\ peer'[q] = peer[q] /\ prompt'[p] = TRUE /\ prompt'[q] = prompt[q]
    BY <1>1, <2>1, PageOnly, AskOnly
  <2>4. OneOfEach
    BY DEF CallOrder
  <2>5. Begun(o, TRUE) = {c} /\ Begun(o, FALSE) = {}
    BY <1>1 DEF Begun
  <2> HIDE DEF c
  <2>6. /\ Unbegun(o, TRUE) = Unbegun(o, FALSE) \ {c} /\ c \in Unbegun(o, FALSE)
        /\ Inviting(c, o, TRUE) \subseteq Inviting(NoCall, o, FALSE)
    BY <1>1, <2>5 DEF Unbegun, Inviting
  <2>7. Only(p, q)
    BY <1>1, <2>1, <2>3 DEF Only
  <2>8. /\ OneOfEach' /\ EnteredByAll \subseteq EnteredByAll'
        /\ \A r \in Peers: Entered(r) \subseteq Entered(r)'
    <3>1. InvitesOnce(inbox[p]) /\ InvitesOnce(inbox[q]) /\ StartsOnce(ops[p])
      BY <2>4 DEF OneOfEach
    <3>2. /\ Unbegun(ops'[p], prompt'[p]) \subseteq Unbegun(ops[p], prompt[p])
          /\ Inviting(peer'[p].call, ops'[p], prompt'[p])
               \subseteq Inviting(peer[p].call, ops[p], prompt[p])
      BY <1>1, <1>3, <2>1, <2>2, <2>3, <2>6
    <3> QED BY <1>1, <2>1, <2>4, <2>7, <3>1, <3>2, NothingComes
  <2>9. c \notin Entered(p)
    BY <1>1, <2>6 DEF Entered
  <2>10. c \in Entered(p)'
    <3>1. c \in 1..made /\ \A r \in Peers: c \notin FrameCalls(inbox[r], "invite")
      BY <1>1, <2>4 DEF OneOfEach
    <3>2. c \notin OpCalls(ops[q], "start")
      BY <1>1, <2>4 DEF OneOfEach
    <3>3. c \notin Unbegun(o, TRUE) /\ \A d, w: c \notin Inviting(d, ops[q], w)
      BY <2>6, <3>2 DEF Inviting
    <3>4. Peers \ {p} = {q}
      BY <1>1
    <3> QED BY <1>1, <2>1, <2>3, <3>1, <3>3, <3>4 DEF Entered
  <2> QED BY <1>1, <2>1, <2>2, <2>3, <2>7, <2>8, <2>9, <2>10, CallEntered
<1> QED BY <1>2, <1>3

LEMMA ReadyOrder ==
  ASSUME CallTypeOK, CallOrder, NEW p \in Peers, NEW q \in Peers, Pair(p, q), StartReady(p)
  PROVE  CallOrder'
<1> DEFINE o == ops[p]
           c == Head(o).call
           s == Attached(peer[p])
           f == [type |-> "invite", call |-> c]
<1>1. /\ p # q /\ Peers = {p, q} /\ prompt[p] /\ Runs(p, "start") /\ made' = made
      /\ prompt' = [prompt EXCEPT ![p] = FALSE] /\ Dequeue(p)
      /\ o \in Seq(Op) /\ o # <<>> /\ Head(o).op = "start" /\ c \in OpCalls(o, "start")
      /\ c \in CallId
  BY CallData, HeadCalls DEF StartReady, Pair
<1>2. IF s.call = c THEN Become(p, [s EXCEPT !.ring = TRUE]) /\ Send(p, "invite", c)
                    ELSE Become(p, s) /\ Silent(p)
  BY DEF StartReady
<1>3. ops'[p] = Tail(o) /\ ops'[q] = ops[q] /\ prompt'[p] = FALSE /\ prompt'[q] = prompt[q]
  BY <1>1, DropOnly, AskOnly
<1>4. s \in PeerState /\ s.call = peer[p].call /\ (Described(s) <=> Described(peer[p]))
  BY CallData, PageKept
<1>5. OneOfEach
  BY DEF CallOrder
<1> HIDE DEF s, c, f
<1>6. CASE s.call # c
  <2>1. Become(p, s) /\ inbox' = inbox
    BY <1>2, <1>6 DEF Silent
  <2>2. peer'[p] = s /\ peer'[q] = peer[q]
    BY <1>1, <2>1, PageOnly
  <2>3. PageGoesOn(p) /\ QueueGoesOn(p) /\ Only(p, q)
    BY <1>1, <1>3, <1>4, <2>2 DEF PageGoesOn, QueueGoesOn, Only
  <2> QED BY <2>1, <2>3, NothingSent, CallGoesOn
<1>7. CASE s.call = c
  <2>1. Become(p, [s EXCEPT !.ring = TRUE]) /\ Relay(p, <<f>>, inbox[p])
    BY <1>2, <1>7 DEF Send, f
  <2>2. peer'[p] = [s EXCEPT !.ring = TRUE] /\ peer'[q] = peer[q]
        /\ inbox'[p] = inbox[p] /\ inbox'[q] = inbox[q] \o <<f>>
    <3> DEFINE r == [s EXCEPT !.ring = TRUE]
    <3> HIDE DEF r
    <3>1. peer'[p] = r /\ peer'[q] = peer[q]
      BY <1>1, <2>1, PageOnly DEF r
    <3>2. inbox'[p] = inbox[p] /\ inbox'[q] = inbox[q] \o <<f>>
      BY <2>1 DEF Pair, Relay
    <3> QED BY <3>1, <3>2 DEF r
  <2>3. PageGoesOn(p) /\ peer'[p].call = c
    BY <1>4, <1>7, <2>2 DEF PageGoesOn, Described, PeerState
  <2>4. f \in CallFrame /\ f.type = "invite" /\ f.call = c
    BY <1>1 DEF CallFrame, f
  <2>5. /\ <<f>> \in Seq(CallFrame) /\ InvitesOnce(<<f>>) /\ FrameCalls(<<f>>, "invite") = {c}
        /\ \A type: type # "invite" => FrameCalls(<<f>>, type) = {}
    BY <2>4, OneFrame
  <2>6. c \notin FrameCalls(inbox[p], "invite") /\ c \notin FrameCalls(inbox[q], "invite")
        /\ c \notin OpCalls(ops[q], "start") /\ c \in 1..made
    BY <1>1, <1>5 DEF OneOfEach
  <2>7. /\ \A type: FrameCalls(inbox'[q], type)
                      = FrameCalls(inbox[q], type) \cup FrameCalls(<<f>>, type)
        /\ InvitesOnce(inbox'[q])
    <3>1. inbox[q] \in Seq(CallFrame) /\ InvitesOnce(inbox[q])
      BY <1>5, CallData DEF OneOfEach
    <3>2. FrameCalls(inbox[q], "invite") \cap FrameCalls(<<f>>, "invite") = {}
      BY <2>5, <2>6
    <3>3. /\ \A type: FrameCalls(inbox[q] \o <<f>>, type)
                        = FrameCalls(inbox[q], type) \cup FrameCalls(<<f>>, type)
          /\ InvitesOnce(inbox[q] \o <<f>>)
      BY <2>5, <3>1, <3>2, JoinCalls
    <3> QED BY <2>2, <3>3
  <2>8. FrameCalls(inbox'[q], "invite") = FrameCalls(inbox[q], "invite") \cup {c}
        /\ \A type: type # "invite" => FrameCalls(inbox'[q], type) = FrameCalls(inbox[q], type)
    BY <2>5, <2>7
  <2>9. /\ StartsOnce(Tail(o)) /\ OpCalls(Tail(o), "start") = OpCalls(o, "start") \ {c}
        /\ \A kind: OpCalls(Tail(o), kind) \subseteq OpCalls(o, kind)
    BY <1>1, <1>5, TailCalls DEF OneOfEach, c
  <2>10. OneOfEach'
    <3>1. \A r \in {p, q}: /\ StartsOnce(ops'[r]) /\ InvitesOnce(inbox'[r])
                           /\ OpCalls(ops'[r], "start") \subseteq OpCalls(ops[r], "start") \ {c}
      BY <1>1, <1>3, <1>5, <2>2, <2>6, <2>7, <2>9 DEF OneOfEach
    <3>2. \A r \in {p, q}: FrameCalls(inbox'[r], "invite")
                             \subseteq FrameCalls(inbox[r], "invite") \cup {c}
      BY <2>2, <2>8
    <3> QED BY <1>1, <1>5, <2>6, <3>1, <3>2 DEF OneOfEach
  <2>11. Begun(o, TRUE) = {c} /\ Begun(Tail(o), FALSE) = {}
    BY <1>1 DEF Begun, c
  <2>12. Entered(p) \subseteq Entered(p)'
    <3>1. Unbegun(ops'[p], prompt'[p]) \subseteq Unbegun(o, prompt[p])
      BY <1>1, <1>3, <2>9, <2>11 DEF Unbegun
    <3>2. Peers \ {p} = {q}
      BY <1>1
    <3> QED BY <1>1, <1>3, <2>2, <3>1, <3>2 DEF Entered
  <2>13. Entered(q) \subseteq Entered(q)'
    <3>1. c \in Inviting(peer[p].call, o, prompt[p])
      BY <1>1, <1>4, <1>7, <2>11 DEF Inviting
    <3>2. \A d: Inviting(d, ops'[p], prompt'[p]) \subseteq Inviting(peer[p].call, o, prompt[p])
      BY <1>1, <1>3, <2>9, <2>11 DEF Inviting
    <3>3. Peers \ {q} = {p}
      BY <1>1
    <3> QED BY <1>1, <1>3, <2>2, <2>8, <3>1, <3>2, <3>3 DEF Entered
  <2>14. /\ \A r \in Peers: Entered(r) \subseteq Entered(r)'
         /\ EnteredByAll \subseteq EnteredByAll'
    BY <1>1, <2>12, <2>13 DEF EnteredByAll
  <2>15. OpCalls(ops'[p], "signal") \subseteq Exchanged(p)
    BY <1>3, <2>9 DEF Exchanged
  <2>16. /\ \A type: FrameCalls(inbox'[p], type) \subseteq FrameCalls(inbox[p], type)
         /\ FrameCalls(inbox'[q], "accept") = FrameCalls(inbox[q], "accept")
         /\ FrameCalls(inbox'[q], "signal") = FrameCalls(inbox[q], "signal")
         /\ OpCalls(ops'[p], "accept") \subseteq OpCalls(o, "accept")
         /\ OpCalls(ops'[p], "offer") \subseteq OpCalls(o, "offer")
    BY <1>3, <2>2, <2>8, <2>9
  <2> QED BY <1>3, <2>2, <2>3, <2>10, <2>14, <2>15, <2>16, CallKept
<1> QED BY <1>6, <1>7

LEMMA InviteOrder ==
  ASSUME CallTypeOK, CallOrder, NEW p \in Peers, NEW q \in Peers, Pair(p, q), GetsInvite(p)
  PROVE  CallOrder'
<1> DEFINE b == inbox[p]
           c == Head(b).call
           t == IF peer[p].call = NoCall THEN peer[p] ELSE WithoutMedia(peer[p])
           s == [t EXCEPT !.call = c, !.phase = "incoming", !.init = FALSE,
                          !.accepted = FALSE, !.media = FALSE, !.restarted = FALSE,
                          !.buf = NoSdp, !.ring = TRUE]
<1>1. /\ p # q /\ Peers = {p, q} /\ b \in Seq(CallFrame) /\ b # <<>> /\ Head(b).type = "invite"
      /\ made' = made /\ prompt' = prompt /\ ops' = ops /\ Relay(p, <<>>, Tail(b))
      /\ IF peer[p].call = c THEN peer' = peer ELSE Become(p, s)
  BY CallData DEF GetsInvite, Gets, Ignored, Pair
<1>2. OneOfEach /\ InOrder
  BY DEF CallOrder
<1>3. /\ c \in FrameCalls(b, "invite") /\ InvitesOnce(Tail(b)) /\ c \notin FrameCalls(Tail(b), "invite")
      /\ \A type: FrameCalls(Tail(b), type) \subseteq FrameCalls(b, type)
  BY <1>1, <1>2, ReadCalls DEF OneOfEach
<1>4. FramesGoOn(p, q) /\ inbox'[p] = Tail(b) /\ inbox'[q] = inbox[q]
  BY <1>1, FrameTaken
<1>5. CASE peer[p].call = c
  <2>1. PageGoesOn(p) /\ QueueGoesOn(p) /\ Only(p, q)
    BY <1>1, <1>5 DEF PageGoesOn, QueueGoesOn, Only
  <2> QED BY <1>4, <2>1, CallGoesOn
<1>6. CASE peer[p].call # c
  <2>1. Become(p, s)
    BY <1>1, <1>6
  <2>2. t \in PeerState /\ t.pc.st # "linked"
    <3>1. CASE peer[p].call = NoCall
      <4>1. NoCall \notin EnteredByAll
        BY CallData DEF EnteredByAll
      <4> QED BY <1>2, <3>1, <4>1, CallData DEF InOrder, Described
    <3>2. CASE peer[p].call # NoCall
      <4>1. WithoutMedia(peer[p]) \in PeerState /\ WithoutMedia(peer[p]).pc = NoConnection
        BY CallData, Cleared
      <4> QED BY <3>2, <4>1 DEF NoConnection
    <3> QED BY <3>1, <3>2
  <2> HIDE DEF t, c
  <2>3. s.call = c /\ s.pc = t.pc /\ s.buf = NoSdp
    BY <2>2 DEF PeerState
  <2> HIDE DEF s
  <2>4. peer'[p] = s /\ peer'[q] = peer[q]
    BY <1>1, <2>1, PageOnly
  <2>5. ~Described(peer'[p]) /\ peer'[p].call = c
    BY <2>2, <2>3, <2>4 DEF Described
  <2>6. c \in 1..made /\ c \notin OpCalls(ops[p], "start") /\ c \notin OpCalls(ops[q], "start")
    BY <1>1, <1>2, <1>3 DEF OneOfEach
  <2>7. Only(p, q)
    BY <1>1, <2>4 DEF Only
  <2>8. Inviting(c, ops[p], prompt[p]) \subseteq Inviting(peer[p].call, ops[p], prompt[p])
    BY <2>6 DEF Inviting
  <2>9. /\ OneOfEach' /\ EnteredByAll \subseteq EnteredByAll'
        /\ \A r \in Peers: Entered(r) \subseteq Entered(r)'
    <3>1. InvitesOnce(inbox[q]) /\ StartsOnce(ops[p])
      BY <1>2 DEF OneOfEach
    <3> QED BY <1>1, <1>2, <1>3, <1>4, <2>5, <2>7, <2>8, <3>1, NothingComes
  <2>10. c \notin Entered(p)
    BY <1>3 DEF Entered
  <2>11. c \in Entered(p)'
    <3>1. \A d, w: c \notin Inviting(d, ops[q], w) /\ c \notin Unbegun(ops[p], w)
      BY <2>6 DEF Inviting, Unbegun
    <3>2. Peers \ {p} = {q}
      BY <1>1
    <3> QED BY <1>1, <1>3, <1>4, <2>6, <3>1, <3>2 DEF Entered
  <2> QED BY <1>1, <1>3, <1>4, <2>5, <2>7, <2>9, <2>10, <2>11, CallEntered
<1> QED BY <1>5, <1>6

LEMMA UserOrder ==
  ASSUME CallTypeOK, CallOrder, NEW p \in Peers, NEW q \in Peers, Pair(p, q),
         \/ StartDenied(p) \/ Accept(p) \/ AcceptRuns(p) \/ AcceptDenied(p)
         \/ Reject(p) \/ HangUp(p) \/ RingTimeout(p)
  PROVE  CallOrder'
<1>1. /\ p # q /\ peer[p] \in PeerState /\ ops[p] \in Seq(Op) /\ prompt[p] \in BOOLEAN
      /\ peer[p].call \in CallId \cup {NoCall}
  BY CallData DEF Pair
<1>2. OneOfEach /\ InOrder
  BY DEF CallOrder
<1>3. ASSUME Become(p, IdleState) PROVE PageGoesOn(p) /\ peer'[q] = peer[q]
  BY <1>1, <1>3, PageOnly, IdleNow DEF PageGoesOn
<1>4. ASSUME peer' = peer PROVE PageGoesOn(p) /\ peer'[q] = peer[q]
  BY <1>4 DEF PageGoesOn
<1>5. CASE StartDenied(p)
  <2>1. /\ Runs(p, "start") /\ Dequeue(p) /\ prompt' = [prompt EXCEPT ![p] = FALSE] /\ made' = made
        /\ \/ Become(p, IdleState) /\ Send(p, "hangup", Head(ops[p]).call)
           \/ UNCHANGED <<peer, inbox>>
    BY <1>5 DEF StartDenied
  <2>2. ops[p] # <<>> /\ Head(ops[p]).call \in CallId
    BY <2>1, HeadCalls
  <2>3. ops'[p] = Tail(ops[p]) /\ ops'[q] = ops[q] /\ prompt'[p] = FALSE /\ prompt'[q] = prompt[q]
    BY <1>1, <2>1, DropOnly, AskOnly
  <2>4. PageGoesOn(p) /\ peer'[q] = peer[q]
    BY <1>3, <1>4, <2>1
  <2>5. FramesGoOn(p, q)
    BY <2>1, <2>2, EndSent, NothingSent
  <2>6. QueueGoesOn(p) /\ Only(p, q)
    BY <2>1, <2>2, <2>3, <2>4 DEF QueueGoesOn, Only
  <2> QED BY <2>4, <2>5, <2>6, CallGoesOn
<1>6. CASE Accept(p)
  <2> DEFINE s == [peer[p] EXCEPT !.init = FALSE, !.phase = "connecting"]
             e == [op |-> "accept", call |-> peer[p].call]
  <2>1. /\ peer[p].call # NoCall /\ Become(p, s) /\ Enqueue(p, e)
        /\ UNCHANGED <<prompt, inbox, made>>
    BY <1>6 DEF Accept
  <2>2. s.call = peer[p].call /\ (Described(s) <=> Described(peer[p]))
    BY <1>1 DEF Described, PeerState
  <2>3. e \in Op /\ OpAgrees(p, e)
    BY <1>1, <1>2, <2>1 DEF Op, OpAgrees, InOrder
  <2> HIDE DEF s, e
  <2>4. peer'[p] = s /\ peer'[q] = peer[q] /\ ops'[p] = Append(ops[p], e) /\ ops'[q] = ops[q]
    BY <1>1, <2>1, PageOnly, AddOnly
  <2>5. PageGoesOn(p) /\ QueueGoesOn(p) /\ Only(p, q)
    BY <2>1, <2>2, <2>3, <2>4 DEF PageGoesOn, QueueGoesOn, Only
  <2> QED BY <2>1, <2>5, NothingSent, CallGoesOn
<1>7. CASE AcceptRuns(p)
  <2>1. /\ Runs(p, "accept") /\ prompt' = [prompt EXCEPT ![p] = TRUE]
        /\ UNCHANGED <<peer, ops, inbox, made>>
    BY <1>7 DEF AcceptRuns
  <2>2. prompt'[q] = prompt[q]
    BY <1>1, <2>1, AskOnly
  <2>3. QueueGoesOn(p) /\ Only(p, q)
    BY <2>1, <2>2 DEF QueueGoesOn, Only
  <2> QED BY <1>4, <2>1, <2>3, NothingSent, CallGoesOn
<1>8. CASE AcceptDenied(p)
  <2> DEFINE s == [peer[p] EXCEPT !.accepted = FALSE, !.media = FALSE, !.phase = "incoming"]
  <2>1. /\ Runs(p, "accept") /\ Dequeue(p) /\ prompt' = [prompt EXCEPT ![p] = FALSE]
        /\ Become(p, s) /\ UNCHANGED <<inbox, made>>
    BY <1>8 DEF AcceptDenied
  <2>2. s.call = peer[p].call /\ (Described(s) <=> Described(peer[p]))
    BY <1>1 DEF Described, PeerState
  <2> HIDE DEF s
  <2>3. /\ peer'[p] = s /\ peer'[q] = peer[q] /\ ops'[p] = Tail(ops[p]) /\ ops'[q] = ops[q]
        /\ prompt'[p] = FALSE /\ prompt'[q] = prompt[q]
    <3>1. peer'[p] = s /\ peer'[q] = peer[q]
      BY <1>1, <2>1, PageOnly
    <3>2. ops'[p] = Tail(ops[p]) /\ ops'[q] = ops[q]
      BY <1>1, <2>1, DropOnly
    <3>3. prompt'[p] = FALSE /\ prompt'[q] = prompt[q]
      BY <1>1, <2>1, AskOnly
    <3> QED BY <3>1, <3>2, <3>3
  <2>4. PageGoesOn(p) /\ QueueGoesOn(p) /\ Only(p, q)
    BY <2>1, <2>2, <2>3, HeadCalls DEF PageGoesOn, QueueGoesOn, Only
  <2> QED BY <2>1, <2>4, NothingSent, CallGoesOn
<1>9. CASE Reject(p) \/ HangUp(p) \/ RingTimeout(p)
  <2>1. /\ Become(p, IdleState) /\ UNCHANGED <<ops, prompt, made>>
        /\ \/ inbox' = inbox
           \/ /\ peer[p].call \in CallId
              /\ \E type \in {"reject", "hangup"}: Send(p, type, peer[p].call)
    BY <1>1, <1>9 DEF Reject, HangUp, RingTimeout
  <2>2. FramesGoOn(p, q)
    BY <2>1, EndSent, NothingSent
  <2>3. QueueGoesOn(p) /\ Only(p, q)
    BY <1>3, <2>1 DEF QueueGoesOn, Only
  <2> QED BY <1>3, <2>1, <2>2, <2>3, CallGoesOn
<1> QED BY <1>5, <1>6, <1>7, <1>8, <1>9

LEMMA AcceptOrder ==
  ASSUME CallTypeOK, CallOrder, NEW p \in Peers, NEW q \in Peers, Pair(p, q), AcceptReady(p)
  PROVE  CallOrder'
<1> DEFINE c == Head(ops[p]).call
           s == [Attached(peer[p]) EXCEPT !.accepted = TRUE, !.ring = FALSE]
           f == [type |-> "accept", call |-> c]
           fs == <<f>> \o FlushAnswers(p, s)
<1>1. /\ p # q /\ Runs(p, "accept") /\ prompt' = [prompt EXCEPT ![p] = FALSE] /\ Dequeue(p)
      /\ Become(p, Flush(s)) /\ Relay(p, fs, inbox[p]) /\ made' = made
  BY DEF AcceptReady, Pair
<1>2. OneOfEach /\ InOrder
  BY DEF CallOrder
<1>3. ops[p] # <<>> /\ c \in CallId /\ c \in Entered(p)
  BY <1>1, <1>2, HeadCalls DEF InOrder
<1>4. s \in PeerState /\ s.call = peer[p].call /\ (Described(s) <=> Described(peer[p]))
  <2>1. Attached(peer[p]) \in PeerState /\ Attached(peer[p]).call = peer[p].call
        /\ (Described(Attached(peer[p])) <=> Described(peer[p]))
    BY CallData, PageKept
  <2>2. /\ s \in PeerState /\ s.call = Attached(peer[p]).call
        /\ s.pc = Attached(peer[p]).pc /\ s.buf = Attached(peer[p]).buf
    BY <2>1 DEF PeerState
  <2> QED BY <2>1, <2>2 DEF Described
<1>5. f \in CallFrame /\ f.type = "accept" /\ f.call = c
  BY <1>3 DEF CallFrame
<1> HIDE DEF s, c, f
<1>6. /\ Flush(s).call = s.call /\ (Described(Flush(s)) => Described(s))
      /\ FlushAnswers(p, s) \in Seq(CallFrame)
      /\ FrameCalls(FlushAnswers(p, s), "invite") = {}
      /\ FrameCalls(FlushAnswers(p, s), "accept") = {}
      /\ \A d \in FrameCalls(FlushAnswers(p, s), "signal"): d = s.call /\ Described(s)
  BY <1>4, Flushed
<1>7. /\ <<f>> \in Seq(CallFrame) /\ FrameCalls(<<f>>, "accept") = {c}
      /\ FrameCalls(<<f>>, "invite") = {} /\ FrameCalls(<<f>>, "signal") = {}
  BY <1>5, OneFrame
<1>8. /\ fs \in Seq(CallFrame)
      /\ \A type: FrameCalls(fs, type)
                    = FrameCalls(<<f>>, type) \cup FrameCalls(FlushAnswers(p, s), type)
  <2> DEFINE a == FlushAnswers(p, s)
             d == <<f>>
  <2>1. a \in Seq(CallFrame) /\ d \in Seq(CallFrame)
    BY <1>6, <1>7
  <2> HIDE DEF a, d
  <2>2. d \o a \in Seq(CallFrame)
        /\ \A type: FrameCalls(d \o a, type) = FrameCalls(d, type) \cup FrameCalls(a, type)
    BY <2>1, JoinCalls, ConcatProperties
  <2> QED BY <2>2 DEF a, d
<1> HIDE DEF fs
<1>9. /\ peer'[p] = Flush(s) /\ peer'[q] = peer[q] /\ ops'[p] = Tail(ops[p]) /\ ops'[q] = ops[q]
      /\ prompt'[p] = FALSE /\ prompt'[q] = prompt[q]
      /\ inbox'[p] = inbox[p] /\ inbox'[q] = inbox[q] \o fs
  <2>1. peer'[p] = Flush(s) /\ peer'[q] = peer[q]
    BY <1>1, PageOnly
  <2>2. ops'[p] = Tail(ops[p]) /\ ops'[q] = ops[q]
    BY <1>1, DropOnly
  <2>3. prompt'[p] = FALSE /\ prompt'[q] = prompt[q]
    BY <1>1, AskOnly
  <2>4. inbox'[p] = inbox[p] /\ inbox'[q] = inbox[q] \o fs
    BY <1>1, SendOnly
  <2> QED BY <2>1, <2>2, <2>3, <2>4
<1>10. PageGoesOn(p) /\ QueueGoesOn(p) /\ Only(p, q)
  BY <1>1, <1>3, <1>4, <1>6, <1>9 DEF PageGoesOn, QueueGoesOn, Only
<1>11. FramesGoOn(p, q)
  <2>1. FrameCalls(fs, "invite") = {} /\ FrameCalls(fs, "accept") = {c}
    BY <1>6, <1>7, <1>8
  <2>2. ASSUME NEW d \in FrameCalls(fs, "signal")
        PROVE  d \in EnteredByAll /\ d = peer[p].call /\ d = peer'[p].call
    <3>1. d = s.call /\ Described(s)
      BY <1>6, <1>7, <1>8
    <3> QED BY <1>2, <1>4, <1>6, <1>9, <3>1 DEF InOrder
  <2> QED BY <1>3, <1>8, <1>9, <2>1, <2>2 DEF FramesGoOn
<1> QED BY <1>10, <1>11, CallGoesOn

LEMMA EventOrder ==
  ASSUME CallTypeOK, CallOrder, NEW p \in Peers, NEW q \in Peers, Pair(p, q),
         GetsEnd(p) \/ GetsAccept(p) \/ GetsSignal(p) \/ FrameLost(p)
  PROVE  CallOrder'
<1> DEFINE b == inbox[p]
           c == Head(b).call
<1>1. /\ p # q /\ Peers = {p, q} /\ b \in Seq(CallFrame) /\ b # <<>>
      /\ made' = made /\ prompt' = prompt
      /\ Relay(p, <<>>, Tail(b)) \/ FrameLost(p)
  BY CallData DEF GetsEnd, GetsAccept, GetsSignal, FrameLost, Gets, Ignored, Pair
<1>2. OneOfEach /\ InOrder
  BY DEF CallOrder
<1>3. Head(b) \in CallFrame /\ \A type: Head(b).type = type => c \in FrameCalls(b, type)
  <2>1. Head(b) \in CallFrame
    BY <1>1, HeadTailProperties
  <2> QED BY <1>1, <1>2, <2>1, ReadCalls DEF OneOfEach
<1>4. FramesGoOn(p, q)
  <2>1. CASE FrameLost(p)
    <3>1. inbox'[p] = Tail(b) /\ inbox'[q] = inbox[q]
      BY <1>1, <2>1 DEF FrameLost, CallTypeOK
    <3>2. inbox[q] \in Seq(CallFrame) /\ <<>> \in Seq(CallFrame)
      BY CallData
    <3>3. inbox[q] \o <<>> = inbox[q]
      BY <3>2, ConcatEmptySeq
    <3> QED BY <1>1, <3>1, <3>2, <3>3, FewCalls DEF FramesGoOn
  <2> QED BY <1>1, <2>1, FrameTaken
<1>5. ASSUME peer' = peer PROVE PageGoesOn(p) /\ peer'[q] = peer[q]
  BY <1>5 DEF PageGoesOn
<1>6. ASSUME Become(p, IdleState) PROVE PageGoesOn(p) /\ peer'[q] = peer[q]
  BY <1>1, <1>6, PageOnly, IdleNow DEF PageGoesOn
<1>7. ASSUME ops' = ops, PageGoesOn(p), peer'[q] = peer[q] PROVE CallOrder'
  <2>1. QueueGoesOn(p) /\ Only(p, q)
    BY <1>1, <1>7 DEF QueueGoesOn, Only
  <2> QED BY <1>4, <1>7, <2>1, CallGoesOn
<1>8. ASSUME NEW e \in Op, OpAgrees(p, e), Enqueue(p, e), PageGoesOn(p), peer'[q] = peer[q]
      PROVE  CallOrder'
  <2>1. ops'[p] = Append(ops[p], e) /\ ops'[q] = ops[q]
    BY <1>1, <1>8, AddOnly
  <2>2. QueueGoesOn(p) /\ Only(p, q)
    BY <1>1, <1>8, <2>1 DEF QueueGoesOn, Only
  <2> QED BY <1>4, <1>8, <2>2, CallGoesOn
<1>9. CASE GetsEnd(p) \/ FrameLost(p)
  <2>1. ops' = ops /\ (peer' = peer \/ Become(p, IdleState))
    BY <1>9 DEF GetsEnd, FrameLost, Ignored
  <2> QED BY <1>5, <1>6, <1>7, <2>1
<1>10. CASE GetsAccept(p)
  <2> DEFINE s == [peer[p] EXCEPT !.phase = "connecting", !.ring = FALSE]
             e == [op |-> "offer", call |-> c]
  <2>1. /\ Head(b).type = "accept"
        /\ \/ ops' = ops /\ (peer' = peer \/ Become(p, IdleState))
           \/ peer[p].call = c /\ Become(p, s) /\ Enqueue(p, e)
    BY <1>10 DEF GetsAccept, Ignored, Gets
  <2>2. CASE ops' = ops /\ (peer' = peer \/ Become(p, IdleState))
    BY <1>5, <1>6, <1>7, <2>2
  <2>3. CASE peer[p].call = c /\ Become(p, s) /\ Enqueue(p, e)
    <3>1. s.call = peer[p].call /\ (Described(s) <=> Described(peer[p]))
      BY CallData DEF Described, PeerState
    <3>2. c \in CallId /\ c # NoCall
      BY <1>3, CallData DEF CallFrame
    <3>3. c \in Entered(p) /\ c \in Entered(q)
      BY <1>1, <1>2, <1>3, <2>1, <2>3, <3>2 DEF InOrder
    <3>4. c \in EnteredByAll
      BY <1>1, <3>3 DEF EnteredByAll, Entered
    <3>5. e \in Op /\ OpAgrees(p, e)
      BY <3>2, <3>4 DEF Op, OpAgrees
    <3> HIDE DEF s, e
    <3>6. peer'[p] = s /\ peer'[q] = peer[q]
      BY <1>1, <2>3, PageOnly
    <3> QED BY <1>8, <2>3, <3>1, <3>5, <3>6 DEF PageGoesOn
  <2> QED BY <2>1, <2>2, <2>3
<1>11. CASE GetsSignal(p)
  <2> DEFINE e == [op |-> "signal", call |-> c, sdp |-> Head(b).sdp]
  <2>1. Head(b).type = "signal" /\ peer' = peer /\ (ops' = ops \/ Enqueue(p, e))
    BY <1>11 DEF GetsSignal, Ignored, Gets
  <2>2. e \in Op /\ OpAgrees(p, e)
    BY <1>3, <2>1 DEF Op, CallFrame, OpAgrees
  <2> HIDE DEF e
  <2> QED BY <1>5, <1>7, <1>8, <2>1, <2>2
<1> QED BY <1>9, <1>10, <1>11

LEMMA ChainOrder ==
  ASSUME CallTypeOK, CallOrder, NEW p \in Peers, NEW q \in Peers, Pair(p, q), Chain(p)
  PROVE  CallOrder'
<1> DEFINE o == Head(ops[p])
<1>1. p # q /\ peer[p] \in PeerState /\ inbox[p] \in Seq(CallFrame)
  BY CallData DEF Pair
<1>2. OneOfEach /\ InOrder
  BY DEF CallOrder
<1>3. /\ ops[p] # <<>> /\ ~Runs(p, "start") /\ o \in Op /\ o.call \in CallId
      /\ Dequeue(p) /\ UNCHANGED <<prompt, made>> /\ o.call \in EnteredByAll
  <2>1. CASE Runs(p, "offer")
    BY <1>2, <2>1, HeadCalls DEF Chain, OfferRuns, SignalRuns, Runs, InOrder
  <2>2. CASE Runs(p, "signal")
    BY <1>2, <2>2, HeadCalls DEF Chain, OfferRuns, SignalRuns, Runs, InOrder, Exchanged
  <2> QED BY <2>1, <2>2 DEF Chain, OfferRuns, SignalRuns
<1>4. ops'[p] = Tail(ops[p]) /\ ops'[q] = ops[q] /\ QueueGoesOn(p)
  BY <1>1, <1>3, DropOnly DEF QueueGoesOn
<1>5. CASE UNCHANGED <<peer, inbox>>
  <2>1. PageGoesOn(p) /\ Only(p, q)
    BY <1>3, <1>4, <1>5 DEF PageGoesOn, Only
  <2> QED BY <1>4, <1>5, <2>1, NothingSent, CallGoesOn
<1>6. ASSUME NEW t, NEW fs \in Seq(CallFrame), Become(p, t), Relay(p, fs, inbox[p]),
             peer[p].call = o.call, t.call = o.call,
             Described(t) => Described(peer[p]) \/ peer[p].call \in OpCalls(ops[p], "signal"),
             FrameCalls(fs, "invite") = {}, FrameCalls(fs, "accept") = {},
             FrameCalls(fs, "signal") \subseteq {o.call}
      PROVE  CallOrder'
  <2>1. peer'[p] = t /\ peer'[q] = peer[q]
    BY <1>1, <1>6, PageOnly
  <2>2. inbox'[p] = inbox[p] /\ inbox'[q] = inbox[q] \o fs
    BY <1>6, SendOnly
  <2>3. PageGoesOn(p) /\ Only(p, q)
    BY <1>3, <1>4, <1>6, <2>1 DEF PageGoesOn, Only
  <2>4. FramesGoOn(p, q)
    BY <1>3, <1>6, <2>1, <2>2 DEF FramesGoOn
  <2> QED BY <1>4, <2>3, <2>4, CallGoesOn
<1>7. CASE OfferRuns(p) /\ peer[p].call = o.call
  <2> DEFINE s == [WithPc(peer[p]) EXCEPT !.pc = [st |-> "offering", with |-> Nobody]]
             a == Offer(p, o.call)
             f == FlushAnswers(p, s)
  <2>1. Become(p, Flush(s)) /\ Relay(p, a \o f, inbox[p])
    BY <1>7 DEF OfferRuns
  <2>2. s \in PeerState /\ s.call = o.call /\ (Described(s) => Described(peer[p]))
    <3>1. [st |-> "offering", with |-> Nobody] \in Connection
      BY DEF Connection
    <3>2. /\ WithPc(peer[p]) \in PeerState /\ WithPc(peer[p]).call = peer[p].call
          /\ WithPc(peer[p]).buf = peer[p].buf
      BY <1>1, PageKept
    <3>3. s \in PeerState /\ s.call = peer[p].call /\ s.buf = peer[p].buf /\ s.pc.st = "offering"
      BY <3>1, <3>2 DEF PeerState
    <3> QED BY <1>7, <3>3 DEF Described
  <2> HIDE DEF s
  <2>3. /\ Flush(s).call = s.call /\ (Described(Flush(s)) => Described(s))
        /\ f \in Seq(CallFrame) /\ FrameCalls(f, "invite") = {} /\ FrameCalls(f, "accept") = {}
        /\ FrameCalls(f, "signal") \subseteq {o.call}
    BY <2>2, Flushed
  <2>4. /\ a \in Seq(CallFrame) /\ FrameCalls(a, "invite") = {} /\ FrameCalls(a, "accept") = {}
        /\ FrameCalls(a, "signal") = {o.call}
    BY <1>3, OfferSent
  <2> HIDE DEF a, f
  <2>5. /\ a \o f \in Seq(CallFrame)
        /\ \A type: FrameCalls(a \o f, type) = FrameCalls(a, type) \cup FrameCalls(f, type)
    BY <2>3, <2>4, JoinCalls, ConcatProperties
  <2>6. /\ FrameCalls(a \o f, "invite") = {} /\ FrameCalls(a \o f, "accept") = {}
        /\ FrameCalls(a \o f, "signal") \subseteq {o.call}
    BY <2>3, <2>4, <2>5
  <2> DEFINE fs == a \o f
  <2> HIDE DEF fs, o
  <2> QED BY <1>6, <1>7, <2>1, <2>2, <2>3, <2>5, <2>6 DEF fs
<1>8. CASE SignalRuns(p) /\ peer[p].call = o.call
  <2> DEFINE s == WithPc(peer[p])
             t == AfterSdp(s, o.sdp)
             fs == Answers(p, s, o.sdp)
  <2>1. Runs(p, "signal") /\ Become(p, t) /\ Relay(p, fs, inbox[p])
    BY <1>8 DEF SignalRuns
  <2>2. o.op = "signal" /\ o.call \in OpCalls(ops[p], "signal") /\ o.sdp \in Sdp
    BY <1>3, <2>1, HeadCalls DEF Op
  <2>3. s \in PeerState /\ s.call = o.call
    BY <1>1, <1>8, PageKept
  <2>4. t.call = o.call
    BY <2>2, <2>3, Told
  <2>5. /\ fs \in Seq(CallFrame) /\ FrameCalls(fs, "invite") = {} /\ FrameCalls(fs, "accept") = {}
        /\ FrameCalls(fs, "signal") \subseteq {o.call}
    BY <2>3, AnswersSent
  <2> HIDE DEF t, fs, o
  <2> QED BY <1>6, <1>8, <2>1, <2>2, <2>4, <2>5
<1> QED BY <1>5, <1>7, <1>8 DEF Chain, OfferRuns, SignalRuns

LEMMA LinkOrder ==
  ASSUME CallTypeOK, CallOrder, NEW p \in Peers, NEW q \in Peers, Pair(p, q),
         Connected(p) \/ Failed(p)
  PROVE  CallOrder'
<1>1. p # q /\ peer[p] \in PeerState
  BY CallData DEF Pair
<1>2. OneOfEach /\ InOrder
  BY DEF CallOrder
<1>3. UNCHANGED <<ops, prompt, made>> /\ QueueGoesOn(p)
  BY DEF Connected, Failed, QueueGoesOn
<1>4. ASSUME NEW t, Become(p, t),
             \/ t.call = NoCall /\ ~Described(t)
             \/ t.call = peer[p].call /\ (Described(t) => Described(peer[p]))
      PROVE  PageGoesOn(p) /\ Only(p, q) /\ peer'[p] = t
  <2>1. peer'[p] = t /\ peer'[q] = peer[q]
    BY <1>1, <1>4, PageOnly
  <2> QED BY <1>3, <1>4, <2>1 DEF PageGoesOn, Only
<1>5. CASE Connected(p)
  <2> DEFINE t == [peer[p] EXCEPT !.did = TRUE, !.up = TRUE, !.phase = "in_call"]
  <2>1. Become(p, t) /\ inbox' = inbox
    BY <1>5 DEF Connected
  <2>2. t.call = peer[p].call /\ (Described(t) => Described(peer[p]))
    BY <1>1 DEF Described, PeerState
  <2> HIDE DEF t
  <2> QED BY <1>3, <1>4, <2>1, <2>2, NothingSent, CallGoesOn
<1>6. CASE Failed(p)
  <2> DEFINE s == [peer[p] EXCEPT !.restarted = TRUE]
             t == [peer[p] EXCEPT !.restarted = TRUE, !.pc = [st |-> "offering", with |-> Nobody]]
  <2>1. /\ peer[p].pc.st = "linked"
        /\ \/ Become(p, s) /\ inbox' = inbox
           \/ /\ peer[p].call # NoCall /\ Become(p, t)
              /\ Relay(p, Offer(p, peer[p].call), inbox[p])
           \/ Become(p, IdleState) /\ inbox' = inbox
    BY <1>6 DEF Failed
  <2>2. CASE Become(p, s) /\ inbox' = inbox
    <3>1. s.call = peer[p].call /\ (Described(s) => Described(peer[p]))
      BY <1>1 DEF Described, PeerState
    <3> HIDE DEF s
    <3> QED BY <1>3, <1>4, <2>2, <3>1, NothingSent, CallGoesOn
  <2>3. CASE Become(p, IdleState) /\ inbox' = inbox
    BY <1>3, <1>4, <2>3, IdleNow, NothingSent, CallGoesOn
  <2>4. CASE /\ peer[p].call # NoCall /\ Become(p, t)
             /\ Relay(p, Offer(p, peer[p].call), inbox[p])
    <3> DEFINE c == peer[p].call
               fs == Offer(p, c)
    <3>1. t.call = c /\ (Described(t) => Described(peer[p]))
      BY <1>1 DEF Described, PeerState
    <3>2. c \in EnteredByAll /\ c \in CallId
      BY <1>1, <1>2, <2>1, <2>4 DEF InOrder, Described, PeerState
    <3>3. /\ fs \in Seq(CallFrame) /\ FrameCalls(fs, "invite") = {}
          /\ FrameCalls(fs, "accept") = {} /\ FrameCalls(fs, "signal") = {c}
      BY <3>2, OfferSent
    <3> HIDE DEF t, fs
    <3>4. PageGoesOn(p) /\ Only(p, q) /\ peer'[p] = t
      BY <1>4, <2>4, <3>1
    <3>5. inbox'[p] = inbox[p] /\ inbox'[q] = inbox[q] \o fs
      BY <2>4 DEF Pair, Relay, fs
    <3>6. FramesGoOn(p, q)
      BY <3>1, <3>2, <3>3, <3>4, <3>5 DEF FramesGoOn
    <3> QED BY <1>3, <3>4, <3>6, CallGoesOn
  <2> QED BY <2>1, <2>2, <2>3, <2>4
<1> QED BY <1>5, <1>6

-----------------------------------------------------------------------------
OneConsole == \E x: Consoles = {x}

LEMMA TheOther ==
  ASSUME OneConsole, NEW p \in Peers
  PROVE  \E q \in Peers: Pair(p, q)
<1>1. PICK x: Consoles = {x}
  BY DEF OneConsole
<1>2. x # Pax /\ Peers = {x, Pax}
  BY <1>1, CallAssumption DEF Peers
<1>3. CASE p = Pax
  BY <1>1, <1>2, <1>3 DEF Pair, Listeners
<1>4. CASE p = x
  BY <1>1, <1>2, <1>4 DEF Pair, Listeners
<1> QED BY <1>2, <1>3, <1>4

LEMMA OrderKept ==
  ASSUME OneConsole, CallTypeOK, CallOrder, [CallNext]_callVars
  PROVE  CallOrder'
<1>1. CASE UNCHANGED callVars
  <2>1. UNCHANGED <<peer, ops, prompt, inbox, made>>
    BY <1>1 DEF callVars
  <2>2. \A p: Entered(p)' = Entered(p)
    BY <2>1 DEF Entered
  <2> QED BY <2>1, <2>2 DEF CallOrder, OneOfEach, InOrder, OneExchange, EnteredByAll, Exchanged, Holds
<1>2. ASSUME NEW p \in Peers, Begins(p) \/ UserOrTimer(p) PROVE CallOrder'
  <2>1. PICK q \in Peers: Pair(p, q)
    BY TheOther
  <2>2. CASE StartCall(p) \/ StartRuns(p) \/ StartReady(p)
    BY <2>1, <2>2, StartOrder, BeginOrder, ReadyOrder
  <2>3. CASE \/ StartDenied(p) \/ Accept(p) \/ AcceptRuns(p) \/ AcceptDenied(p)
             \/ Reject(p) \/ HangUp(p) \/ RingTimeout(p)
    BY <2>1, <2>3, UserOrder
  <2>4. CASE AcceptReady(p) \/ Chain(p) \/ Connected(p) \/ Failed(p)
    BY <2>1, <2>4, AcceptOrder, ChainOrder, LinkOrder
  <2>5. CASE Event(p) \/ FrameLost(p)
    BY <2>1, <2>5, InviteOrder, EventOrder DEF Event
  <2> QED BY <1>2, <2>2, <2>3, <2>4, <2>5 DEF Begins, UserOrTimer, User, Prompt, Network
<1> QED BY <1>1, <1>2 DEF CallNext

LEMMA InitOrder == CallInit => CallOrder
<1> SUFFICES ASSUME CallInit PROVE CallOrder
  OBVIOUS
<1>1. \A p \in Peers: /\ peer[p] = IdleState /\ ops[p] = <<>> /\ inbox[p] = <<>>
  BY DEF CallInit
<1>2. /\ InvitesOnce(<<>>) /\ \A type: FrameCalls(<<>>, type) = {}
      /\ StartsOnce(<<>>) /\ \A kind: OpCalls(<<>>, kind) = {}
  BY FewCalls
<1>3. IdleState.call = NoCall /\ ~Described(IdleState)
  BY IdleNow
<1>4. OneOfEach
  BY <1>1, <1>2 DEF OneOfEach
<1>5. InOrder
  BY <1>1, <1>2, <1>3 DEF InOrder, Exchanged
<1>6. OneExchange
  BY <1>1, <1>3 DEF OneExchange, Holds
<1> QED BY <1>4, <1>5, <1>6 DEF CallOrder

LEMMA OrderGivesSameCall == CallTypeOK /\ CallOrder => SameCall
<1> SUFFICES ASSUME CallTypeOK, CallOrder, NEW p \in Peers, NEW q \in Peers,
                    Linked(p, q), Linked(q, p)
             PROVE  peer[p].call = peer[q].call
  BY DEF SameCall
<1>1. Described(peer[p]) /\ Described(peer[q])
  BY DEF Linked, Described
<1>2. NoCall \notin EnteredByAll
  BY CallData DEF EnteredByAll
<1>3. Holds(p) /\ Holds(q)
  BY <1>1, <1>2 DEF CallOrder, InOrder, Holds
<1> QED BY <1>3 DEF CallOrder, OneExchange

(* With one console a call is never invisible, no timer outlives its call, and *)
(* two pages whose links are up both ways are in the same call: although what  *)
(* earlier calls sent may still be under way, neither page can be a call       *)
(* behind the other and hold its description. With several consoles CallOrder  *)
(* is too strong: one may accept before another has read the invite.           *)
THEOREM CallInvariant == ASSUME OneConsole PROVE CallSpec => []CallInv
<1>1. CallInit => CallIInv /\ CallOrder
  BY InitCall, InitOrder
<1>2. CallIInv /\ CallOrder /\ [CallNext]_callVars => (CallIInv /\ CallOrder)'
  BY CallPreserves, OrderKept DEF CallIInv
<1>3. CallIInv /\ CallOrder => CallInv
  BY OrderGivesSameCall DEF CallIInv, PageFits, NoHiddenCall, NoStrayTimer, CallInv
<1> QED BY <1>1, <1>2, <1>3, PTL DEF CallSpec
=============================================================================
