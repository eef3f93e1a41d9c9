---------------------------- MODULE OutboxProofs -----------------------------
(* Voice notes, the composer and the panel of links, for any number of notes,  *)
(* listeners, encoders, panels, takes and links: nothing is told of before it  *)
(* is stored or sent, and a microphone that is on is shown.                    *)
EXTENDS VoiceNotes, Composer, InviteDesk, FiniteSetTheorems, TLAPS

-----------------------------------------------------------------------------
(* VoiceNotes: what a request has done is on the disk before it goes on, and   *)
(* who asks does so for a note that is in the chat.                            *)
Stages ==
  /\ \A n \in Uploads: upload[n].at \in {"about", "answer"} => disk[n].file = "whole"
  /\ \A n \in chat: /\ upload[n].at \in {"answer", "over"}
                    /\ disk[n].file = "whole" /\ disk[n].about = "whole"
  /\ \A n \in Uploads: upload[n].at = "answer" \/ upload[n].told = "ok" => n \in chat

Asked ==
  \A l \in Listeners:
    /\ bubble[l].at # "none" => bubble[l].of \in chat
    /\ bubble[l].at = "encoding" => bubble[l].by # NoOne /\ enc[bubble[l].by].of = bubble[l].of
    /\ bubble[l].got # "unavailable"

Encoding == \A e \in Encoders: enc[e] = NoEncoder \/ enc[e].of \in Uploads

VoiceIInv == VoiceTypeOK /\ Stages /\ Asked /\ Encoding

Upload == [at: {"none", "file", "about", "answer", "over"}, told: {"nothing", "ok", "failed"}]
Disk == [file: Content, about: Content, copy: Content]
Enc == [of: Uploads \cup {NoOne}, at: {"none", "begun", "open"}]
Bubble == [of: Uploads \cup {NoOne}, at: {"none", "asked", "encoding"},
           by: Encoders \cup {NoOne},
           got: {"nothing", "original", "copy", "broken", "unavailable"}]

LEMMA VoiceTypes ==
  ASSUME VoiceTypeOK
  PROVE  /\ upload \in [Uploads -> Upload] /\ disk \in [Uploads -> Disk]
         /\ enc \in [Encoders -> Enc] /\ bubble \in [Listeners -> Bubble]
         /\ chat \subseteq Uploads /\ crossed \subseteq Uploads
         /\ format \in [Uploads -> {"mp4", "webm"}]
BY DEF VoiceTypeOK, Upload, Disk, Enc, Bubble

LEMMA VoiceTypesBack ==
  ASSUME upload' \in [Uploads -> Upload], disk' \in [Uploads -> Disk],
         enc' \in [Encoders -> Enc], bubble' \in [Listeners -> Bubble],
         chat' \subseteq Uploads, crossed' \subseteq Uploads,
         format' \in [Uploads -> {"mp4", "webm"}]
  PROVE  VoiceTypeOK'
BY DEF VoiceTypeOK, Upload, Disk, Enc, Bubble

LEMMA EncType == NoEncoder \in Enc /\ NoEncoder.of = NoOne /\ Quiet \in Bubble /\ Quiet.at = "none"
BY DEF NoEncoder, Enc, Quiet, Bubble

(* Steps of an upload leave the encoders be, but for one that starts.          *)
LEMMA UploadSteps ==
  ASSUME VoiceIInv, NEW n \in Uploads,
         PostNote(n) \/ FileWritten(n) \/ AboutWritten(n) \/ WriteFails(n) \/ UploadAnswered(n)
  PROVE  VoiceIInv'
<1>1. /\ upload \in [Uploads -> Upload] /\ disk \in [Uploads -> Disk]
      /\ enc \in [Encoders -> Enc] /\ bubble \in [Listeners -> Bubble]
      /\ chat \subseteq Uploads /\ crossed \subseteq Uploads
      /\ format \in [Uploads -> {"mp4", "webm"}] /\ Stages /\ Asked /\ Encoding
  BY VoiceTypes DEF VoiceIInv
<1>2. UNCHANGED <<format, crossed, bubble>>
  BY DEF PostNote, FileWritten, AboutWritten, WriteFails, UploadAnswered
<1>3. \/ enc' = enc
      \/ \E e \in Encoders: /\ enc[e] = NoEncoder
                            /\ enc' = [enc EXCEPT ![e] = [of |-> n, at |-> "begun"]]
  BY DEF PostNote, FileWritten, AboutWritten, WriteFails, UploadAnswered
<1>4. enc' \in [Encoders -> Enc] /\ Encoding'
  <2>1. [of |-> n, at |-> "begun"] \in Enc
    BY DEF Enc
  <2> QED BY <1>1, <1>3, <2>1 DEF Encoding, NoEncoder
<1>5. \/ chat' = chat \cup {n} /\ upload[n].at = "about"
     \/ chat' = chat
  BY DEF PostNote, FileWritten, AboutWritten, WriteFails, UploadAnswered
<1>6. Asked'
  <2>1. \A l \in Listeners: bubble[l].at = "encoding" =>
          enc'[bubble[l].by] = enc[bubble[l].by]
    BY <1>1, <1>3, EncType, VoiceAssumption DEF Asked, Bubble
  <2> QED BY <1>1, <1>2, <1>5, <2>1 DEF Asked
<1>7. upload' \in [Uploads -> Upload] /\ disk' \in [Uploads -> Disk] /\ Stages'
  <2>1. CASE PostNote(n)
    <3>1. upload[n].at = "none" /\ n \notin chat /\ chat' = chat
      BY <1>1, <2>1 DEF PostNote, Stages
    <3>2. CASE disk' = disk /\ upload' = [upload EXCEPT ![n] = [at |-> "over", told |-> "failed"]]
      <4>1. [at |-> "over", told |-> "failed"] \in Upload
        BY DEF Upload
      <4> QED BY <1>1, <3>1, <3>2, <4>1 DEF Stages
    <3>3. CASE /\ upload' = [upload EXCEPT ![n].at = "file"]
               /\ disk' = [disk EXCEPT ![n].file = "part"]
      <4>1. upload' \in [Uploads -> Upload]
        BY <1>1, <3>3 DEF Upload
      <4>2. disk' \in [Uploads -> Disk]
        BY <1>1, <3>3 DEF Disk, Content
      <4>3. Stages'
        BY <1>1, <3>1, <3>3 DEF Stages, Upload, Disk
      <4> QED BY <4>1, <4>2, <4>3
    <3> QED BY <2>1, <3>2, <3>3 DEF PostNote
  <2>2. CASE FileWritten(n)
    <3>1. /\ upload[n].at = "file" /\ n \notin chat /\ chat' = chat
          /\ upload' = [upload EXCEPT ![n].at = "about"]
          /\ disk' = [disk EXCEPT ![n].file = "whole", ![n].about = "part"]
      BY <1>1, <2>2 DEF FileWritten, Stages
    <3>2. upload' \in [Uploads -> Upload]
      BY <1>1, <3>1 DEF Upload
    <3>3. disk' \in [Uploads -> Disk]
      BY <1>1, <3>1 DEF Disk, Content
    <3>4. Stages'
      BY <1>1, <3>1 DEF Stages, Upload, Disk
    <3> QED BY <3>2, <3>3, <3>4
  <2>3. CASE AboutWritten(n)
    <3>1. /\ upload[n].at = "about" /\ chat' = chat \cup {n}
          /\ upload' = [upload EXCEPT ![n].at = "answer"]
          /\ disk' = [disk EXCEPT ![n].about = "whole"]
      BY <1>1, <2>3 DEF AboutWritten
    <3>2. upload' \in [Uploads -> Upload]
      BY <1>1, <3>1 DEF Upload
    <3>3. disk' \in [Uploads -> Disk]
      BY <1>1, <3>1 DEF Disk, Content
    <3>4. Stages'
      BY <1>1, <3>1 DEF Stages, Upload, Disk
    <3> QED BY <3>2, <3>3, <3>4
  <2>4. CASE WriteFails(n)
    <3>1. /\ upload[n].at \in {"file", "about"} /\ UNCHANGED <<disk, chat>>
          /\ upload' = [upload EXCEPT ![n] = [at |-> "over", told |-> "failed"]]
      BY <2>4 DEF WriteFails
    <3>2. [at |-> "over", told |-> "failed"] \in Upload
      BY DEF Upload
    <3> QED BY <1>1, <3>1, <3>2 DEF Stages
  <2>5. CASE UploadAnswered(n)
    <3>1. PICK told \in {"ok", "failed"}:
            upload' = [upload EXCEPT ![n] = [at |-> "over", told |-> told]]
      BY <2>5 DEF UploadAnswered
    <3>2. upload[n].at = "answer" /\ n \in chat /\ UNCHANGED <<disk, chat>>
      BY <1>1, <2>5 DEF UploadAnswered, Stages
    <3>3. [at |-> "over", told |-> told] \in Upload
      BY DEF Upload
    <3> QED BY <1>1, <3>1, <3>2, <3>3 DEF Stages
  <2> QED BY <2>1, <2>2, <2>3, <2>4, <2>5
<1>8. chat' \subseteq Uploads
  BY <1>1, <1>5
<1> QED BY <1>1, <1>2, <1>4, <1>6, <1>7, <1>8, VoiceTypesBack DEF VoiceIInv

(* Encoders touch nothing but copies, and whom they kept waiting.              *)
LEMMA EncoderSteps ==
  ASSUME VoiceIInv, NEW e \in Encoders,
         EncoderOpens(e) \/ EncoderWrites(e) \/ EncoderDone(e) \/ EncoderFails(e)
  PROVE  VoiceIInv'
<1>1. /\ upload \in [Uploads -> Upload] /\ disk \in [Uploads -> Disk]
      /\ enc \in [Encoders -> Enc] /\ bubble \in [Listeners -> Bubble]
      /\ chat \subseteq Uploads /\ crossed \subseteq Uploads
      /\ format \in [Uploads -> {"mp4", "webm"}] /\ Stages /\ Asked /\ Encoding
  BY VoiceTypes DEF VoiceIInv
<1>2. UNCHANGED <<format, upload, chat>>
  BY DEF EncoderOpens, EncoderWrites, EncoderDone, EncoderFails, EncoderEnds
<1>3. \E content \in Content: disk' = disk \/ disk' = [disk EXCEPT ![enc[e].of].copy = content]
  <2>1. CASE EncoderOpens(e) \/ EncoderWrites(e)
    BY <2>1 DEF EncoderOpens, EncoderWrites, Content
  <2>2. CASE EncoderDone(e)
    BY <2>2 DEF EncoderDone, EncoderEnds, Content
  <2>3. CASE EncoderFails(e)
    <3>1. disk' = [disk EXCEPT ![enc[e].of].copy = disk[enc[e].of].copy]
      BY <2>3 DEF EncoderFails, EncoderEnds
    <3>2. CASE enc[e].of \in Uploads
      <4>1. disk[enc[e].of].copy \in Content
        BY <1>1, <3>2 DEF Disk
      <4> QED BY <3>1, <4>1
    <3>3. CASE enc[e].of \notin Uploads
      BY <1>1, <3>1, <3>3 DEF Content
    <3> QED BY <3>2, <3>3
  <2> QED BY <2>1, <2>2, <2>3
<1>4. /\ disk' \in [Uploads -> Disk]
      /\ \A n \in Uploads: disk'[n].file = disk[n].file /\ disk'[n].about = disk[n].about
  <2>1. PICK content \in Content:
          disk' = disk \/ disk' = [disk EXCEPT ![enc[e].of].copy = content]
    BY <1>3
  <2>2. ASSUME disk' = [disk EXCEPT ![enc[e].of].copy = content]
        PROVE  disk' \in [Uploads -> Disk]
    BY <1>1, <2>2 DEF Disk
  <2>3. ASSUME NEW n \in Uploads
        PROVE  disk'[n].file = disk[n].file /\ disk'[n].about = disk[n].about
    BY <1>1, <2>1 DEF Disk
  <2> QED BY <1>1, <2>1, <2>2, <2>3
<1>5. Stages'
  BY <1>1, <1>2, <1>4 DEF Stages
<1>6. crossed' \subseteq Uploads
  <2>1. crossed' \subseteq crossed \cup {enc[e].of}
    BY DEF EncoderOpens, EncoderWrites, EncoderDone, EncoderFails, EncoderEnds
  <2>2. CASE EncoderOpens(e)
    <3>1. enc[e].at = "begun" /\ crossed' \subseteq crossed \cup {enc[e].of}
      BY <2>1, <2>2 DEF EncoderOpens
    <3>2. enc[e].of \in Uploads
      BY <1>1, <3>1 DEF Encoding, NoEncoder
    <3> QED BY <1>1, <3>1, <3>2
  <2>3. CASE ~EncoderOpens(e)
    BY <1>1, <2>3 DEF EncoderWrites, EncoderDone, EncoderFails, EncoderEnds
  <2> QED BY <2>2, <2>3
<1>7. Encoding'
  <2>1. \A d \in Encoders: enc'[d] = NoEncoder \/ (enc[d] # NoEncoder /\ enc'[d].of = enc[d].of)
                           \/ enc'[d] = enc[d]
    <3>1. CASE EncoderOpens(e)
      BY <1>1, <3>1 DEF EncoderOpens, Enc, NoEncoder
    <3>2. CASE EncoderWrites(e) \/ EncoderDone(e) \/ EncoderFails(e)
      <4>1. enc' = enc \/ enc' = [enc EXCEPT ![e] = NoEncoder]
        BY <3>2 DEF EncoderWrites, EncoderDone, EncoderFails, EncoderEnds
      <4> QED BY <1>1, <4>1
    <3> QED BY <3>1, <3>2
  <2> QED BY <1>1, <2>1 DEF Encoding
<1>8. enc' \in [Encoders -> Enc] /\ bubble' \in [Listeners -> Bubble] /\ Asked'
  <2>1. CASE EncoderOpens(e) \/ EncoderWrites(e)
    <3>1. /\ bubble' = bubble /\ enc' \in [Encoders -> Enc]
          /\ \A d \in Encoders: enc'[d].of = enc[d].of
      BY <1>1, <2>1 DEF EncoderOpens, EncoderWrites, Enc
    <3>2. \A l \in Listeners: bubble[l].at = "encoding" => bubble[l].by \in Encoders
      BY <1>1 DEF Asked, Bubble
    <3> QED BY <1>1, <1>2, <3>1, <3>2 DEF Asked
  <2>2. CASE EncoderDone(e) \/ EncoderFails(e)
    <3>1. PICK got \in {"copy", "broken", "original"}:
            /\ enc' = [enc EXCEPT ![e] = NoEncoder]
            /\ bubble' = [l \in Listeners |->
                 IF bubble[l].by # e THEN bubble[l]
                 ELSE [bubble[l] EXCEPT !.at = "none", !.by = NoOne, !.got = got]]
      <4>1. CASE EncoderDone(e)
        <5>1. PICK content:
                /\ EncoderEnds(e, content)
                /\ bubble' = [l \in Listeners |->
                     IF bubble[l].by # e THEN bubble[l]
                     ELSE [bubble[l] EXCEPT !.at = "none", !.by = NoOne, !.got = OfCopy(content)]]
          BY <4>1 DEF EncoderDone
        <5>2. OfCopy(content) \in {"copy", "broken", "original"}
          BY DEF OfCopy
        <5> QED BY <5>1, <5>2 DEF EncoderEnds
      <4>2. CASE EncoderFails(e)
        BY <4>2 DEF EncoderFails, EncoderEnds
      <4> QED BY <2>2, <4>1, <4>2
    <3>2. enc' \in [Encoders -> Enc]
      BY <1>1, <3>1, EncType
    <3>3. ASSUME NEW l \in Listeners
          PROVE  /\ bubble'[l] \in Bubble
                 /\ \/ bubble'[l] = bubble[l] /\ bubble[l].by # e
                    \/ bubble'[l].at = "none" /\ bubble'[l].got # "unavailable"
      <4>1. CASE bubble[l].by # e
        BY <1>1, <3>1, <4>1
      <4>2. CASE bubble[l].by = e
        <5>1. bubble'[l] = [bubble[l] EXCEPT !.at = "none", !.by = NoOne, !.got = got]
          BY <3>1, <4>2
        <5>2. bubble[l] \in Bubble
          BY <1>1
        <5> QED BY <5>1, <5>2 DEF Bubble
      <4> QED BY <4>1, <4>2
    <3>4. \A d \in Encoders: d # e => enc'[d] = enc[d]
      BY <1>1, <3>1
    <3>5. \A l \in Listeners: bubble[l].at = "encoding" => bubble[l].by \in Encoders
      BY <1>1 DEF Asked, Bubble
    <3>6. bubble' \in [Listeners -> Bubble]
      BY <3>1, <3>3
    <3> QED BY <1>1, <1>2, <3>2, <3>3, <3>4, <3>5, <3>6 DEF Asked
  <2> QED BY <2>1, <2>2
<1> QED BY <1>1, <1>2, <1>4, <1>5, <1>6, <1>7, <1>8, VoiceTypesBack DEF VoiceIInv

LEMMA BubbleSteps ==
  ASSUME VoiceIInv, NEW l \in Listeners,
         ServeNote(l) \/ BubbleGives(l) \/ \E n \in Uploads: AskNote(l, n)
  PROVE  VoiceIInv'
<1>1. /\ upload \in [Uploads -> Upload] /\ disk \in [Uploads -> Disk]
      /\ enc \in [Encoders -> Enc] /\ bubble \in [Listeners -> Bubble]
      /\ chat \subseteq Uploads /\ crossed \subseteq Uploads
      /\ format \in [Uploads -> {"mp4", "webm"}] /\ Stages /\ Asked /\ Encoding
  BY VoiceTypes DEF VoiceIInv
<1>2. UNCHANGED <<format, upload, disk, chat, crossed>> /\ Stages'
  BY <1>1 DEF ServeNote, BubbleGives, AskNote, Stages
<1>3. ASSUME NEW b \in Bubble, bubble' = [bubble EXCEPT ![l] = b],
             b.at # "none" => b.of \in chat,
             b.at = "encoding" => b.by # NoOne /\ enc'[b.by].of = b.of,
             b.got # "unavailable",
             enc' = enc \/ \E e \in Encoders: /\ enc[e] = NoEncoder
                             /\ enc' = [enc EXCEPT ![e] = [of |-> b.of, at |-> "begun"]],
             enc' # enc => b.at = "encoding"
      PROVE  VoiceIInv'
  <2>1. enc' \in [Encoders -> Enc] /\ Encoding'
    <3>1. enc' # enc => [of |-> b.of, at |-> "begun"] \in Enc /\ b.of \in Uploads
      BY <1>1, <1>3 DEF Enc
    <3> QED BY <1>1, <1>3, <3>1 DEF Encoding, NoEncoder
  <2>2. bubble' \in [Listeners -> Bubble] /\ \A k \in Listeners: k # l => bubble'[k] = bubble[k]
        /\ bubble'[l] = b
    BY <1>1, <1>3
  <2>3. \A k \in Listeners: k # l /\ bubble[k].at = "encoding" =>
          enc'[bubble[k].by] = enc[bubble[k].by]
    BY <1>1, <1>3, EncType, VoiceAssumption DEF Asked, Bubble
  <2>4. Asked'
    BY <1>1, <1>2, <1>3, <2>2, <2>3 DEF Asked
  <2> QED BY <1>1, <1>2, <2>1, <2>2, <2>4, VoiceTypesBack DEF VoiceIInv
<1>4. ASSUME NEW what \in {"nothing", "original", "copy", "broken"}, Gets(l, what), enc' = enc
      PROVE  VoiceIInv'
  <2> DEFINE b == [bubble[l] EXCEPT !.at = "none", !.by = NoOne, !.got = what]
  <2>1. bubble[l] \in Bubble
    BY <1>1
  <2>2. b \in Bubble /\ b.at = "none" /\ b.got = what
    BY <2>1 DEF Bubble
  <2>3. bubble' = [bubble EXCEPT ![l] = b]
    BY <1>1, <1>4 DEF Gets
  <2> HIDE DEF b
  <2> QED BY <1>3, <1>4, <2>2, <2>3
<1>5. CASE ServeNote(l)
  <2> DEFINE n == bubble[l].of
  <2>1. bubble[l].at = "asked" /\ n \in chat /\ n \in Uploads /\ Stored(n)
    BY <1>1, <1>5 DEF ServeNote, Asked, Stages, Stored
  <2>2. CASE /\ Gets(l, "original") \/ Gets(l, OfCopy(disk[n].copy))
             /\ enc' = enc
    <3>1. OfCopy(disk[n].copy) \in {"copy", "broken", "original"}
      BY DEF OfCopy
    <3> QED BY <1>4, <2>2, <3>1
  <2>3. CASE \E e \in Encoders:
               /\ enc[e] = NoEncoder
               /\ enc' = [enc EXCEPT ![e] = [of |-> n, at |-> "begun"]]
               /\ bubble' = [bubble EXCEPT ![l].at = "encoding", ![l].by = e]
    <3>1. PICK e \in Encoders:
               /\ enc[e] = NoEncoder
               /\ enc' = [enc EXCEPT ![e] = [of |-> n, at |-> "begun"]]
               /\ bubble' = [bubble EXCEPT ![l].at = "encoding", ![l].by = e]
      BY <2>3
    <3> DEFINE b == [bubble[l] EXCEPT !.at = "encoding", !.by = e]
    <3>2. bubble[l] \in Bubble /\ bubble[l].got # "unavailable"
      BY <1>1 DEF Asked
    <3>3. b \in Bubble /\ b.at = "encoding" /\ b.by = e /\ b.of = n /\ b.got = bubble[l].got
      BY <3>2 DEF Bubble
    <3>4. bubble' = [bubble EXCEPT ![l] = b]
      BY <1>1, <3>1
    <3>5. enc'[e].of = n
      BY <1>1, <3>1
    <3> HIDE DEF b, n
    <3> QED BY <1>3, <2>1, <3>1, <3>2, <3>3, <3>4, <3>5, VoiceAssumption
  <2> QED BY <1>5, <2>1, <2>2, <2>3 DEF ServeNote
<1>6. CASE BubbleGives(l)
  BY <1>4, <1>6 DEF BubbleGives
<1>7. CASE \E n \in Uploads: AskNote(l, n)
  <2>1. PICK n \in Uploads: AskNote(l, n)
    BY <1>7
  <2> DEFINE b == [of |-> n, at |-> "asked", got |-> "nothing", by |-> NoOne]
  <2>2. b \in Bubble
    BY DEF Bubble
  <2>3. n \in chat /\ bubble' = [bubble EXCEPT ![l] = b] /\ enc' = enc
    BY <2>1 DEF AskNote
  <2>4. b.at = "asked" /\ b.of = n /\ b.got = "nothing"
    OBVIOUS
  <2> HIDE DEF b
  <2> QED BY <1>3, <2>2, <2>3, <2>4
<1> QED BY <1>5, <1>6, <1>7

LEMMA StopStep == ASSUME VoiceIInv, ServerStops PROVE VoiceIInv'
<1>1. /\ upload \in [Uploads -> Upload] /\ disk \in [Uploads -> Disk]
      /\ enc \in [Encoders -> Enc] /\ bubble \in [Listeners -> Bubble]
      /\ chat \subseteq Uploads /\ format \in [Uploads -> {"mp4", "webm"}] /\ Stages /\ Asked
  BY VoiceTypes DEF VoiceIInv
<1>2. /\ upload' = [n \in Uploads |-> IF upload[n].at \in {"none", "over"} THEN upload[n]
                                     ELSE [at |-> "over", told |-> "failed"]]
      /\ enc' = [e \in Encoders |-> NoEncoder] /\ crossed' = {}
      /\ bubble' = [l \in Listeners |-> IF bubble[l].at = "none" THEN bubble[l]
                                       ELSE [bubble[l] EXCEPT !.at = "none", !.by = NoOne]]
      /\ UNCHANGED <<format, disk, chat>>
  BY DEF ServerStops
<1>3. [at |-> "over", told |-> "failed"] \in Upload
  BY DEF Upload
<1>4. upload' \in [Uploads -> Upload] /\ Stages'
  BY <1>1, <1>2, <1>3 DEF Stages
<1>5. ASSUME NEW l \in Listeners
      PROVE  bubble'[l] \in Bubble /\ bubble'[l].at = "none" /\ bubble'[l].got = bubble[l].got
  <2>1. bubble[l] \in Bubble
    BY <1>1
  <2>2. bubble'[l] = IF bubble[l].at = "none" THEN bubble[l]
                     ELSE [bubble[l] EXCEPT !.at = "none", !.by = NoOne]
    BY <1>2
  <2> QED BY <2>1, <2>2 DEF Bubble
<1>6. bubble' \in [Listeners -> Bubble] /\ Asked'
  BY <1>1, <1>2, <1>5 DEF Asked
<1>7. enc' \in [Encoders -> Enc] /\ Encoding'
  BY <1>2, EncType DEF Encoding
<1> QED BY <1>1, <1>2, <1>4, <1>6, <1>7, VoiceTypesBack DEF VoiceIInv

(* For any number of notes, listeners and encoders, whichever step fails and   *)
(* whenever the server stops: a note that is in the chat, or whose sender was  *)
(* told that it went, is there as a whole and never unavailable, and nobody    *)
(* waits for an encoder that has ended.                                        *)
THEOREM VoiceInvariant == VoiceSpec => []VoiceInv
<1>1. VoiceInit => VoiceIInv
  <2> SUFFICES ASSUME VoiceInit PROVE VoiceIInv
    OBVIOUS
  <2>1. /\ format \in [Uploads -> {"mp4", "webm"}]
        /\ upload = [n \in Uploads |-> [at |-> "none", told |-> "nothing"]]
        /\ disk = [n \in Uploads |-> [file |-> "none", about |-> "none", copy |-> "none"]]
        /\ chat = {} /\ crossed = {}
        /\ enc = [e \in Encoders |-> NoEncoder] /\ bubble = [l \in Listeners |-> Quiet]
    BY DEF VoiceInit
  <2>2. /\ [at |-> "none", told |-> "nothing"] \in Upload
        /\ [file |-> "none", about |-> "none", copy |-> "none"] \in Disk
    BY DEF Upload, Disk, Content
  <2>3. VoiceTypeOK
    BY <2>1, <2>2, EncType DEF VoiceTypeOK, Upload, Disk, Enc, Bubble
  <2>4. Stages
    BY <2>1 DEF Stages
  <2>5. Asked /\ Encoding
    BY <2>1 DEF Asked, Encoding, Quiet
  <2> QED BY <2>3, <2>4, <2>5 DEF VoiceIInv
<1>2. VoiceIInv /\ [VoiceNext]_voiceVars => VoiceIInv'
  <2> SUFFICES ASSUME VoiceIInv, [VoiceNext]_voiceVars PROVE VoiceIInv'
    OBVIOUS
  <2>1. CASE UNCHANGED voiceVars
    <3>1. UNCHANGED <<format, upload, disk, chat, enc, crossed, bubble>>
      BY <2>1 DEF voiceVars
    <3> QED BY <3>1 DEF VoiceIInv, VoiceTypeOK, Stages, Asked, Encoding
  <2> QED BY <2>1, UploadSteps, EncoderSteps, BubbleSteps, StopStep DEF VoiceNext
<1>3. VoiceIInv => VoiceInv
  BY DEF VoiceIInv, VoiceInv, Stages, Asked, StoredIfTold, WaitIsForOne
<1> QED BY <1>1, <1>2, <1>3, PTL DEF VoiceSpec

-----------------------------------------------------------------------------
(* InviteDesk: what the panel, the answer under way or a message under way     *)
(* tells was sent, was; a link that is spoken of was issued; and a message     *)
(* that is with the provider is of a link that was in force at the click.      *)
Told == [ware: Wares \cup {Nothing}, to: Addresses \cup {Nothing}]
Fields == [Channels -> Addresses \cup {Nothing}]
Asking == [op: {"issue"}, at: {"asked"}, to: Fields]
Issuing == [op: {"issue"}, at: {"sms", "mail", "answer"}, to: Fields, url: Wares,
            told: [Channels -> Told]]
Changes == [op: {"revoke", "erase"}, ware: Wares]
Message == [at: {"asked", "provider", "told", "failed"}, url: Wares, to: Addresses, dead: BOOLEAN]
Sent == [ware: Wares, to: Addresses, dead: BOOLEAN]
Desk == [url: Wares \cup {Nothing}, error: BOOLEAN, told: [Channels -> Told]]

DeskTypes ==
  /\ ware \in [Wares -> Row \cup {"unissued", "erased"}]
  /\ local \in BOOLEAN
  /\ to \in Fields
  /\ desk \in Desk
  /\ job \in {NoJob} \cup [op: {"list", "clear"}] \cup Asking \cup Issuing \cup Changes
  /\ list \in [rows: Lists, by: {"opening", "action"}]
  /\ mount \in [at: {"asked", "done"}] \cup [at: {"answer"}, rows: Lists]
  /\ sending \in [Channels -> {NotSending} \cup Message]
  /\ sent \subseteq Sent

WasSent(told, S) == told # Untold => \E m \in S: m.ware = told.ware /\ m.to = told.to

PanelTrue == \A c \in Channels: WasSent(desk.told[c], sent)
AnswerTrue == job \in Issuing =>
  ware[job.url] # "unissued" /\ \A c \in Channels: WasSent(job.told[c], sent)
SendingTrue(s, w, S) ==
  s # NotSending =>
    /\ w[s.url] # "unissued"
    /\ s.at = "asked" /\ s.dead => w[s.url] # "active"
    /\ s.at = "provider" => ~s.dead
    /\ s.at = "told" => \E m \in S: m.ware = s.url /\ m.to = s.to
MessagesTrue == \A c \in Channels: SendingTrue(sending[c], ware, sent)

DeskIInv ==
  /\ DeskTypes /\ PanelTrue /\ AnswerTrue /\ MessagesTrue
  /\ DeadLinksStay /\ ShowsItsLink /\ IssuedIsListed

(* A link that was issued stays so, and one that is not in force stays out of it. *)
Ages(w, v) ==
  \A l \in Wares: w[l] # "unissued" =>
    v[l] # "unissued" /\ (v[l] = "active" => w[l] = "active") /\ (v[l] \in Row => w[l] \in Row)

LEMMA JobKinds ==
  ASSUME job \in {NoJob} \cup [op: {"list", "clear"}] \cup Asking \cup Issuing \cup Changes
  PROVE  /\ job.op = "issue" => job \in Asking \cup Issuing
         /\ job \in Issuing => job.op = "issue" /\ job.at # "asked" /\ job.url \in Wares
                               /\ job.to \in Fields /\ job.told \in [Channels -> Told]
         /\ job \in Asking => job.at = "asked" /\ job.op = "issue" /\ job.to \in Fields
         /\ job.op \in {"revoke", "erase"} => job.ware \in Wares
         /\ job.op # "none" => job # NoJob
BY DEF NoJob, Asking, Issuing, Changes

LEMMA AfterAges ==
  ASSUME DeskTypes, Changing
  PROVE  AfterChange \in [Wares -> Row \cup {"unissued", "erased"}] /\ Ages(ware, AfterChange)
<1>1. job.op \in {"clear", "revoke", "erase"}
  BY DEF Changing
<1>2. job.op \in {"revoke", "erase"} => job.ware \in Wares /\ ware[job.ware] \in Row
  BY JobKinds DEF Changing, DeskTypes
<1>3. CASE job.op = "revoke"
  <2>1. AfterChange = [ware EXCEPT ![job.ware] = "inactive"]
    BY <1>3 DEF AfterChange
  <2> QED BY <1>2, <1>3, <2>1 DEF Ages, Row, DeskTypes
<1>4. CASE job.op = "erase"
  <2>1. AfterChange = [ware EXCEPT ![job.ware] = "erased"]
    BY <1>4 DEF AfterChange
  <2> QED BY <1>2, <1>4, <2>1 DEF Ages, Row, DeskTypes
<1>5. CASE job.op = "clear"
  <2>1. AfterChange = [l \in Wares |-> IF l \in Inactive THEN "erased" ELSE ware[l]]
    BY <1>5 DEF AfterChange
  <2> QED BY <2>1 DEF Ages, Row, DeskTypes
<1> QED BY <1>1, <1>3, <1>4, <1>5

LEMMA ListedIsList == ASSUME ware \in [Wares -> Row \cup {"unissued", "erased"}]
                      PROVE  Listed \in Lists /\ DOMAIN Listed = Rows
<1>1. Rows \in SUBSET Wares /\ Listed \in [Rows -> Row]
  BY DEF Rows, Listed
<1> QED BY <1>1 DEF Lists, Listed

LEMMA NewDeskType == /\ Untold \in Told /\ NewDesk \in Desk
                     /\ NewDesk.told = [c \in Channels |-> Untold] /\ NewDesk.url = Nothing
                     /\ NewDesk.told \in [Channels -> Told]
BY DEF Untold, Told, NewDesk, Desk

(* What stays true of the panel, the answer and the messages when links age    *)
(* and messages are sent.                                                      *)
LEMMA TruthStays ==
  ASSUME DeskIInv, Ages(ware, ware'), sent \subseteq sent'
  PROVE  /\ \A c \in Channels: WasSent(desk.told[c], sent')
         /\ job \in Issuing => /\ ware'[job.url] # "unissued"
                               /\ \A c \in Channels: WasSent(job.told[c], sent')
         /\ \A c \in Channels: SendingTrue(sending[c], ware', sent')
         /\ desk.url # Nothing => ware'[desk.url] # "unissued" /\ (ware'[desk.url] \in Row => ware[desk.url] \in Row)
<1>1. desk.url # Nothing => desk.url \in Wares
  BY DEF DeskIInv, DeskTypes, Desk
<1>2. \A c \in Channels: sending[c] # NotSending => sending[c].url \in Wares
  BY DEF DeskIInv, DeskTypes, Message
<1>3. job \in Issuing => job.url \in Wares
  BY DEF Issuing
<1>4. \A c \in Channels: WasSent(desk.told[c], sent')
  BY DEF DeskIInv, PanelTrue, WasSent
<1>5. job \in Issuing => /\ ware'[job.url] # "unissued"
                         /\ \A c \in Channels: WasSent(job.told[c], sent')
  BY <1>3 DEF DeskIInv, AnswerTrue, WasSent, Ages
<1>6. \A c \in Channels: SendingTrue(sending[c], ware', sent')
  BY <1>2 DEF DeskIInv, MessagesTrue, SendingTrue, Ages
<1> QED BY <1>1, <1>4, <1>5, <1>6 DEF DeskIInv, ShowsItsLink, Ages

(* The buttons of run(), and the fields.                                       *)
LEMMA PressSteps ==
  ASSUME DeskIInv,
         \/ PressIssue \/ PressClear
         \/ \E l \in Wares: PressRevoke(l) \/ PressErase(l)
         \/ \E c \in Channels, a \in Addresses: FillAddress(c, a)
  PROVE  DeskIInv'
<1>1. DeskTypes /\ PanelTrue /\ MessagesTrue /\ DeadLinksStay /\ ShowsItsLink
  BY DEF DeskIInv
<1>2. UNCHANGED <<ware, sent, local, list, mount, sending>>
  BY DEF PressIssue, PressClear, PressRevoke, PressErase, FillAddress, server
<1>3. MessagesTrue' /\ DeadLinksStay'
  BY <1>1, <1>2 DEF MessagesTrue, DeadLinksStay
<1>4. CASE \E c \in Channels, a \in Addresses: FillAddress(c, a)
  <2>1. /\ to' \in Fields /\ UNCHANGED <<desk, job>>
    BY <1>1, <1>4 DEF FillAddress, DeskTypes, Fields
  <2> QED BY <1>2, <1>3, <2>1 DEF DeskIInv, DeskTypes, PanelTrue, AnswerTrue, ShowsItsLink, IssuedIsListed
<1>5. CASE PressIssue \/ PressClear \/ \E l \in Wares: PressRevoke(l) \/ PressErase(l)
  <2>1. /\ to' = to /\ job = NoJob
        /\ \/ desk' = [desk EXCEPT !.error = FALSE]
           \/ desk' = [desk EXCEPT !.error = FALSE, !.told = NewDesk.told]
    BY <1>5 DEF PressIssue, PressClear, PressRevoke, PressErase
  <2>2. \/ job' \in Asking \/ job' = [op |-> "clear"] \/ job' \in Changes
    <3>1. PressIssue => job' \in Asking
      BY <1>1 DEF PressIssue, Asking, DeskTypes
    <3>2. ASSUME NEW l \in Wares PROVE PressRevoke(l) \/ PressErase(l) => job' \in Changes
      BY DEF PressRevoke, PressErase, Changes
    <3> QED BY <1>5, <3>1, <3>2 DEF PressClear
  <2>3. desk' \in Desk /\ desk'.url = desk.url
    BY <1>1, <2>1, NewDeskType DEF DeskTypes, Desk
  <2>4. \A c \in Channels: desk'.told[c] = desk.told[c] \/ desk'.told[c] = Untold
    BY <1>1, <2>1, NewDeskType DEF DeskTypes, Desk
  <2>5. PanelTrue'
    BY <1>1, <1>2, <2>4 DEF PanelTrue, WasSent
  <2>6. job' \notin Issuing /\ job'.op # "none"
    BY <2>2 DEF Issuing, Asking, Changes
  <2>7. DeskTypes'
    BY <1>1, <1>2, <2>1, <2>2, <2>3 DEF DeskTypes
  <2>8. AnswerTrue' /\ IssuedIsListed'
    BY <2>6 DEF AnswerTrue, IssuedIsListed, NoJob
  <2>9. ShowsItsLink'
    BY <1>1, <1>2, <2>3 DEF ShowsItsLink
  <2> QED BY <1>3, <2>5, <2>7, <2>8, <2>9 DEF DeskIInv
<1> QED BY <1>4, <1>5

(* POST /invites: the link, the messages that go with it, the answer.          *)
LEMMA CreateStep == ASSUME DeskIInv, CreateLink PROVE DeskIInv'
<1>1. DeskTypes /\ PanelTrue /\ MessagesTrue /\ DeadLinksStay /\ ShowsItsLink
  BY DEF DeskIInv
<1>2. PICK l \in Wares:
         /\ ware[l] = "unissued" /\ ware' = [ware EXCEPT ![l] = "active"]
         /\ job' = [op |-> "issue", at |-> FirstChannel, to |-> job.to,
                    url |-> l, told |-> NewDesk.told]
  BY DEF CreateLink
<1>3. UNCHANGED <<local, to, desk, list, mount, sending, sent>> /\ job \in Asking
  BY <1>1, JobKinds DEF CreateLink, DeskTypes
<1>4. Ages(ware, ware') /\ ware'[l] # "unissued"
      /\ ware' \in [Wares -> Row \cup {"unissued", "erased"}]
  BY <1>1, <1>2 DEF Ages, Row, DeskTypes
<1>5. job' \in Issuing /\ job'.url = l /\ job'.told = [c \in Channels |-> Untold] /\ job'.op = "issue"
  <2>1. FirstChannel \in {"sms", "mail", "answer"} /\ job.to \in Fields
    BY <1>3 DEF FirstChannel, Asking
  <2> QED BY <1>2, <2>1, NewDeskType DEF Issuing
<1>6. DeskTypes'
  BY <1>1, <1>3, <1>4, <1>5 DEF DeskTypes
<1>7. AnswerTrue'
  BY <1>4, <1>5 DEF AnswerTrue, WasSent
<1>8. PanelTrue' /\ MessagesTrue'
  BY <1>3, <1>4, TruthStays DEF PanelTrue, MessagesTrue
<1>9. DeadLinksStay' /\ ShowsItsLink' /\ IssuedIsListed'
  BY <1>1, <1>3, <1>4, <1>5, TruthStays DEF DeadLinksStay, ShowsItsLink, IssuedIsListed, NoJob
<1> QED BY <1>6, <1>7, <1>8, <1>9 DEF DeskIInv

LEMMA DeliverStep ==
  ASSUME DeskIInv, NEW c \in Channels, DeliverOnIssue(c) PROVE DeskIInv'
<1>1. DeskTypes /\ PanelTrue /\ AnswerTrue /\ MessagesTrue /\ DeadLinksStay /\ ShowsItsLink
  BY DEF DeskIInv
<1>2. UNCHANGED <<ware, local, to, desk, list, mount, sending>> /\ job \in Issuing
  <2>1. c # "asked"
    BY DeskAssumption
  <2>2. job.op = "issue" /\ job.at = c
    BY DEF DeliverOnIssue
  <2>3. job \notin Asking
    BY <2>1, <2>2 DEF Asking
  <2> QED BY <1>1, <2>2, <2>3, JobKinds DEF DeliverOnIssue, DeskTypes
<1>3. job.url \in Wares /\ job.to \in Fields /\ job.told \in [Channels -> Told] /\ job.op = "issue"
  BY <1>2 DEF Issuing
<1> DEFINE message == [ware |-> job.url, to |-> job.to[c], dead |-> FALSE]
           told == [ware |-> job.url, to |-> job.to[c]]
<1>4. /\ sent' = sent \/ (~local /\ job.to[c] # Nothing /\ sent' = sent \cup {message})
      /\ \/ job' = [job EXCEPT !.at = AfterChannel(c)]
         \/ /\ message \in sent'
            /\ job' = [job EXCEPT !.at = AfterChannel(c), !.told[c] = told]
  BY DEF DeliverOnIssue, Provider
<1>5. told \in Told /\ told.ware = job.url /\ told.to = job.to[c]
      /\ message.ware = job.url /\ message.to = job.to[c] /\ message.dead = FALSE
  BY <1>3 DEF Told, Fields
<1>6. job.to[c] # Nothing => message \in Sent
  BY <1>3 DEF Sent, Fields
<1> HIDE DEF message, told
<1>7. sent \subseteq sent' /\ sent' \subseteq Sent /\ DeadLinksStay' /\ ShowsItsLink'
  BY <1>1, <1>2, <1>4, <1>5, <1>6 DEF DeskTypes, DeadLinksStay, ShowsItsLink
<1>8. Ages(ware, ware')
  BY <1>2 DEF Ages
<1>9. /\ job' \in Issuing /\ job'.url = job.url /\ job'.op = "issue"
      /\ \A d \in Channels: job'.told[d] = job.told[d] \/ (job'.told[d] = told /\ message \in sent')
  <2>1. AfterChannel(c) \in {"sms", "mail", "answer"}
    BY DEF AfterChannel
  <2>2. CASE job' = [job EXCEPT !.at = AfterChannel(c)]
    BY <1>2, <2>1, <2>2 DEF Issuing
  <2>3. CASE /\ message \in sent'
             /\ job' = [job EXCEPT !.at = AfterChannel(c), !.told[c] = told]
    BY <1>2, <1>3, <1>5, <2>1, <2>3 DEF Issuing
  <2> QED BY <1>4, <2>2, <2>3
<1>10. DeskTypes'
  BY <1>1, <1>2, <1>7, <1>9 DEF DeskTypes
<1>11. AnswerTrue'
  <2>1. \A d \in Channels: WasSent(job.told[d], sent') /\ ware'[job.url] # "unissued"
    BY <1>2, <1>7, <1>8, TruthStays
  <2>2. message \in sent' => WasSent(told, sent')
    BY <1>5 DEF WasSent
  <2>3. \A d \in Channels: WasSent(job'.told[d], sent')
    BY <1>9, <2>1, <2>2
  <2>4. ware'[job'.url] # "unissued"
    BY <1>1, <1>2, <1>9 DEF AnswerTrue
  <2> QED BY <2>3, <2>4 DEF AnswerTrue
<1>12. PanelTrue' /\ MessagesTrue'
  BY <1>2, <1>7, <1>8, TruthStays DEF PanelTrue, MessagesTrue
<1>13. IssuedIsListed'
  BY <1>9 DEF IssuedIsListed, NoJob
<1> QED BY <1>7, <1>10, <1>11, <1>12, <1>13 DEF DeskIInv

(* The answers to the issue, a change and the list it leads to, and their      *)
(* failures.                                                                   *)
LEMMA AnswerSteps ==
  ASSUME DeskIInv, IssueAnswered \/ ChangeAnswered \/ ActionFails
  PROVE  DeskIInv'
<1>1. DeskTypes /\ PanelTrue /\ AnswerTrue /\ MessagesTrue /\ DeadLinksStay /\ ShowsItsLink
  BY DEF DeskIInv
<1>2. UNCHANGED <<local, to, list, mount, sending, sent>>
  BY DEF IssueAnswered, ChangeAnswered, ActionFails, server
<1>3. /\ ware' \in [Wares -> Row \cup {"unissued", "erased"}]
      /\ Ages(ware, ware')
  <2>1. ware' = ware \/ (Changing /\ ware' = AfterChange)
    BY DEF IssueAnswered, ChangeAnswered, ActionFails, server
  <2>2. CASE ware' = ware
    BY <1>1, <2>2 DEF DeskTypes, Ages
  <2>3. CASE Changing /\ ware' = AfterChange
    BY <1>1, <2>3, AfterAges
  <2> QED BY <2>1, <2>2, <2>3
<1>4. MessagesTrue' /\ DeadLinksStay'
  BY <1>1, <1>2, <1>3, TruthStays DEF MessagesTrue, DeadLinksStay
<1>5. CASE IssueAnswered
  <2>1. job \in Issuing /\ ware' = ware
    <3>1. job.op = "issue" /\ job.at = "answer" /\ ware' = ware
      BY <1>5 DEF IssueAnswered, server
    <3>2. job \notin Asking
      BY <3>1 DEF Asking
    <3> QED BY <1>1, <3>1, <3>2, JobKinds DEF DeskTypes
  <2>2. desk' = [desk EXCEPT !.url = job.url, !.told = job.told] /\ job' = [op |-> "list"]
    BY <1>5 DEF IssueAnswered
  <2>3. desk' \in Desk /\ desk'.url = job.url /\ desk'.told = job.told
    BY <1>1, <2>1, <2>2 DEF Desk, Issuing, DeskTypes
  <2>4. DeskTypes' /\ job' \notin Issuing
    BY <1>1, <1>2, <1>3, <2>2, <2>3 DEF DeskTypes, Issuing
  <2>5. PanelTrue' /\ ShowsItsLink'
    BY <1>1, <1>2, <2>1, <2>3 DEF PanelTrue, AnswerTrue, ShowsItsLink
  <2>6. AnswerTrue' /\ IssuedIsListed'
    BY <2>2, <2>4 DEF AnswerTrue, IssuedIsListed, NoJob
  <2> QED BY <1>4, <2>4, <2>5, <2>6 DEF DeskIInv
<1>6. CASE ChangeAnswered \/ ActionFails
  <2>1. /\ \/ job' = [op |-> "list"] /\ desk' = desk
           \/ job' = NoJob /\ desk' = [desk EXCEPT !.error = TRUE]
    BY <1>6 DEF ChangeAnswered, ActionFails
  <2>2. desk' \in Desk /\ desk'.url = desk.url /\ desk'.told = desk.told
    BY <1>1, <2>1 DEF DeskTypes, Desk
  <2>3. job' \notin Issuing /\ (job' = NoJob => desk'.error)
    BY <1>1, <2>1 DEF NoJob, Issuing, DeskTypes, Desk
  <2>4. DeskTypes'
    BY <1>1, <1>2, <1>3, <2>1, <2>2 DEF DeskTypes
  <2>5. PanelTrue' /\ ShowsItsLink'
    BY <1>1, <1>2, <1>3, <2>2, TruthStays DEF PanelTrue, ShowsItsLink
  <2>6. AnswerTrue' /\ IssuedIsListed'
    BY <2>3 DEF AnswerTrue, IssuedIsListed
  <2> QED BY <1>4, <2>4, <2>5, <2>6 DEF DeskIInv
<1> QED BY <1>5, <1>6

LEMMA ListSteps ==
  ASSUME DeskIInv, ListAnswered \/ ListFails \/ ServeMount \/ MountAnswered \/ MountFails \/ ComeBackToPanel
  PROVE  DeskIInv'
<1>1. /\ DeskTypes /\ PanelTrue /\ AnswerTrue /\ MessagesTrue /\ DeadLinksStay
      /\ ShowsItsLink /\ IssuedIsListed
  BY DEF DeskIInv
<1>2. UNCHANGED <<ware, local, sent, sending>>
  BY DEF ListAnswered, ListFails, ServeMount, MountAnswered, MountFails, ComeBackToPanel, server
<1>3. DeadLinksStay' /\ MessagesTrue'
  BY <1>1, <1>2 DEF DeadLinksStay, MessagesTrue
<1>4. Listed \in Lists /\ DOMAIN Listed = Rows
  BY <1>1, ListedIsList DEF DeskTypes
<1>5. CASE ListAnswered
  <2>1. /\ list' = [rows |-> Listed, by |-> "action"] /\ job' = NoJob
        /\ UNCHANGED <<to, desk, mount>>
    BY <1>5 DEF ListAnswered
  <2>2. DeskTypes' /\ job' \notin Issuing
    BY <1>1, <1>2, <1>4, <2>1 DEF DeskTypes, NoJob, Issuing
  <2>3. IssuedIsListed'
    <3>1. desk.url # Nothing => desk.url \in Wares
      BY <1>1 DEF DeskTypes, Desk
    <3>2. ASSUME desk.url # Nothing, ware[desk.url] \in Row PROVE desk.url \in DOMAIN list'.rows
      BY <1>4, <2>1, <3>1, <3>2 DEF Rows
    <3> QED BY <1>2, <2>1, <3>2 DEF IssuedIsListed
  <2> QED BY <1>1, <1>2, <1>3, <2>1, <2>2, <2>3 DEF DeskIInv, PanelTrue, AnswerTrue, ShowsItsLink
<1>6. CASE ListFails \/ MountFails
  <2>1. /\ desk' = [desk EXCEPT !.error = TRUE] /\ (job' = NoJob \/ job' = job)
        /\ (mount' = mount \/ mount' = [at |-> "done"]) /\ UNCHANGED <<to, list>>
    BY <1>6 DEF ListFails, MountFails
  <2>2. desk' \in Desk /\ desk'.url = desk.url /\ desk'.told = desk.told /\ desk'.error
    BY <1>1, <2>1 DEF DeskTypes, Desk
  <2>3. job' = job \/ job' \notin Issuing
    BY <2>1 DEF NoJob, Issuing
  <2>4. DeskTypes'
    BY <1>1, <1>2, <2>1, <2>2 DEF DeskTypes
  <2>5. AnswerTrue'
    BY <1>1, <1>2, <2>3 DEF AnswerTrue
  <2>6. PanelTrue' /\ ShowsItsLink' /\ IssuedIsListed'
    BY <1>1, <1>2, <2>2 DEF PanelTrue, ShowsItsLink, IssuedIsListed
  <2> QED BY <1>3, <2>4, <2>5, <2>6 DEF DeskIInv
<1>7. CASE ServeMount
  <2>1. mount' = [at |-> "answer", rows |-> Listed] /\ UNCHANGED <<to, desk, job, list>>
    BY <1>7 DEF ServeMount
  <2>2. DeskTypes'
    BY <1>1, <1>2, <1>4, <2>1 DEF DeskTypes
  <2> QED BY <1>1, <1>2, <1>3, <2>1, <2>2 DEF DeskIInv, PanelTrue, AnswerTrue, ShowsItsLink, IssuedIsListed
<1>8. CASE MountAnswered
  <2>1. /\ mount.at = "answer" /\ list' = [rows |-> mount.rows, by |-> "opening"]
        /\ mount' = [at |-> "done"] /\ UNCHANGED <<to, desk, job>>
    BY <1>8 DEF MountAnswered
  <2>2. mount.rows \in Lists
    BY <1>1, <2>1 DEF DeskTypes
  <2>3. DeskTypes' /\ IssuedIsListed'
    BY <1>1, <1>2, <2>1, <2>2 DEF DeskTypes, IssuedIsListed
  <2> QED BY <1>1, <1>2, <1>3, <2>1, <2>3 DEF DeskIInv, PanelTrue, AnswerTrue, ShowsItsLink
<1>9. CASE ComeBackToPanel
  <2>1. /\ desk' = NewDesk /\ list' = NoList /\ mount' = [at |-> "asked"]
        /\ to' = [c \in Channels |-> Nothing] /\ job' = job
    BY <1>9 DEF ComeBackToPanel
  <2>2. NoList \in [rows: Lists, by: {"opening", "action"}]
    <3>1. {} \in SUBSET Wares /\ [l \in {} |-> "active"] \in [{} -> Row]
      OBVIOUS
    <3>2. [l \in {} |-> "active"] \in Lists
      BY <3>1 DEF Lists
    <3> QED BY <3>2 DEF NoList
  <2>3. DeskTypes'
    BY <1>1, <1>2, <2>1, <2>2, NewDeskType DEF DeskTypes, Fields
  <2>4. PanelTrue' /\ ShowsItsLink' /\ IssuedIsListed'
    BY <1>1, <1>2, <2>1, NewDeskType DEF PanelTrue, WasSent, ShowsItsLink, IssuedIsListed
  <2> QED BY <1>1, <1>2, <1>3, <2>1, <2>3, <2>4 DEF DeskIInv, AnswerTrue
<1> QED BY <1>5, <1>6, <1>7, <1>8, <1>9

(* A message of its own: the click, the route, the provider, the answer.       *)
LEMMA SendSteps ==
  ASSUME DeskIInv, NEW c \in Channels,
         PressSend(c) \/ ServeSend(c) \/ ProviderAnswers(c) \/ SendAnswered(c) \/ SendFails(c)
  PROVE  DeskIInv'
<1>1. /\ DeskTypes /\ PanelTrue /\ AnswerTrue /\ MessagesTrue /\ DeadLinksStay
      /\ ShowsItsLink /\ IssuedIsListed
  BY DEF DeskIInv
<1>2. UNCHANGED <<ware, local, to, job, list, mount>>
  BY DEF PressSend, ServeSend, ProviderAnswers, SendAnswered, SendFails, server
<1>3. sending[c] \in {NotSending} \cup Message /\ SendingTrue(sending[c], ware, sent)
  BY <1>1 DEF DeskTypes, MessagesTrue
<1>4. Ages(ware, ware')
  BY <1>2 DEF Ages
<1> DEFINE message == [ware |-> sending[c].url, to |-> sending[c].to, dead |-> sending[c].dead]
<1>5. /\ sent' = sent \/ (sending[c].at = "provider" /\ ~local /\ sent' = sent \cup {message})
      /\ \/ /\ sending' = [sending EXCEPT ![c] = NotSending]
            /\ \/ desk' = desk
               \/ /\ sending[c].at = "told"
                  /\ desk' = [desk EXCEPT !.told[c] = [ware |-> sending[c].url, to |-> sending[c].to]]
         \/ /\ desk' = desk /\ desk.url # Nothing /\ to[c] # Nothing
            /\ sending' = [sending EXCEPT ![c] =
                 [at |-> "asked", url |-> desk.url, to |-> to[c], dead |-> ware[desk.url] # "active"]]
         \/ /\ desk' = desk /\ sending[c].at = "asked" /\ ware[sending[c].url] = "active"
            /\ sending' = [sending EXCEPT ![c].at = "provider"]
         \/ /\ desk' = desk /\ sending[c].at = "provider"
            /\ sending' = [sending EXCEPT ![c].at = "failed"]
         \/ /\ desk' = desk /\ sending[c].at = "provider" /\ message \in sent'
            /\ sending' = [sending EXCEPT ![c].at = "told"]
  BY DEF PressSend, ServeSend, ProviderAnswers, SendAnswered, SendFails, server, Provider
<1>6. sending[c].at = "provider" => /\ message \in Sent /\ ~message.dead
                                    /\ message.ware = sending[c].url /\ message.to = sending[c].to
  BY <1>3 DEF SendingTrue, NotSending, Message, Sent
<1> HIDE DEF message
<1>7. sent \subseteq sent' /\ sent' \subseteq Sent /\ DeadLinksStay'
  BY <1>1, <1>5, <1>6 DEF DeskTypes, DeadLinksStay
<1>8. /\ sending' \in [Channels -> {NotSending} \cup Message]
      /\ \A d \in Channels: d # c => sending'[d] = sending[d]
      /\ SendingTrue(sending'[c], ware', sent')
  <2>1. CASE sending' = [sending EXCEPT ![c] = NotSending]
    BY <1>1, <2>1 DEF DeskTypes, SendingTrue
  <2>2. CASE /\ desk.url # Nothing /\ to[c] # Nothing
             /\ sending' = [sending EXCEPT ![c] =
                  [at |-> "asked", url |-> desk.url, to |-> to[c], dead |-> ware[desk.url] # "active"]]
    <3> DEFINE s == [at |-> "asked", url |-> desk.url, to |-> to[c], dead |-> ware[desk.url] # "active"]
    <3>1. s \in Message /\ s.at = "asked" /\ s.url = desk.url /\ (s.dead => ware[desk.url] # "active")
      BY <1>1, <2>2 DEF DeskTypes, Desk, Fields, Message
    <3>2. ware[desk.url] # "unissued"
      BY <1>1, <2>2 DEF ShowsItsLink
    <3>3. sending' = [sending EXCEPT ![c] = s]
      BY <2>2
    <3> HIDE DEF s
    <3>4. sending' \in [Channels -> {NotSending} \cup Message] /\ sending'[c] = s
          /\ \A d \in Channels: d # c => sending'[d] = sending[d]
      BY <1>1, <3>1, <3>3 DEF DeskTypes
    <3> QED BY <1>2, <3>1, <3>2, <3>4 DEF SendingTrue
  <2>3. CASE /\ sending[c].at = "asked" /\ ware[sending[c].url] = "active"
             /\ sending' = [sending EXCEPT ![c].at = "provider"]
    <3>1. sending[c] \in Message
      BY <1>3, <2>3 DEF NotSending
    <3>2. /\ sending'[c] \in Message /\ sending'[c].at = "provider"
          /\ sending'[c].dead = sending[c].dead /\ sending'[c].url = sending[c].url
      BY <1>1, <2>3, <3>1 DEF DeskTypes, Message
    <3>3. sending' \in [Channels -> {NotSending} \cup Message]
          /\ \A d \in Channels: d # c => sending'[d] = sending[d]
      BY <1>1, <2>3, <3>2 DEF DeskTypes
    <3>4. ~sending[c].dead /\ sending[c] # NotSending
      BY <1>3, <2>3, <3>1 DEF SendingTrue, NotSending, Message
    <3> QED BY <1>2, <1>3, <2>3, <3>2, <3>3, <3>4 DEF SendingTrue
  <2>4. CASE /\ sending[c].at = "provider"
             /\ \/ sending' = [sending EXCEPT ![c].at = "failed"]
                \/ message \in sent' /\ sending' = [sending EXCEPT ![c].at = "told"]
    <3>1. sending[c] \in Message /\ sending[c] # NotSending
      BY <1>3, <2>4 DEF NotSending
    <3>2. /\ sending'[c] \in Message /\ sending'[c].at \in {"failed", "told"}
          /\ sending'[c].to = sending[c].to /\ sending'[c].url = sending[c].url
          /\ sending'[c].at = "told" => message \in sent'
      BY <1>1, <2>4, <3>1 DEF DeskTypes, Message
    <3>3. sending' \in [Channels -> {NotSending} \cup Message]
          /\ \A d \in Channels: d # c => sending'[d] = sending[d]
      BY <1>1, <2>4, <3>2 DEF DeskTypes
    <3>4. sending'[c].at = "told" => \E m \in sent': m.ware = sending'[c].url /\ m.to = sending'[c].to
      BY <1>6, <2>4, <3>2
    <3>5. ware'[sending'[c].url] # "unissued"
      BY <1>2, <1>3, <3>1, <3>2 DEF SendingTrue
    <3> QED BY <3>2, <3>3, <3>4, <3>5 DEF SendingTrue
  <2> QED BY <1>5, <2>1, <2>2, <2>3, <2>4
<1>9. MessagesTrue'
  BY <1>4, <1>7, <1>8, TruthStays DEF MessagesTrue
<1>10. /\ desk' \in Desk /\ desk'.url = desk.url /\ desk'.error = desk.error
       /\ PanelTrue'
  <2>1. CASE desk' = desk
    BY <1>1, <1>4, <1>7, <2>1, TruthStays DEF DeskTypes, PanelTrue
  <2>2. CASE /\ sending[c].at = "told"
             /\ desk' = [desk EXCEPT !.told[c] = [ware |-> sending[c].url, to |-> sending[c].to]]
    <3> DEFINE told == [ware |-> sending[c].url, to |-> sending[c].to]
    <3>1. sending[c] \in Message /\ sending[c] # NotSending
      BY <1>3, <2>2 DEF NotSending
    <3>2. told \in Told /\ told.ware = sending[c].url /\ told.to = sending[c].to
      BY <3>1 DEF Message, Told
    <3>3. desk' = [desk EXCEPT !.told[c] = told]
      BY <2>2
    <3> HIDE DEF told
    <3>4. \E m \in sent': m.ware = told.ware /\ m.to = told.to
      BY <1>3, <1>7, <2>2, <3>1, <3>2 DEF SendingTrue
    <3>5. /\ desk' \in Desk /\ desk'.url = desk.url /\ desk'.error = desk.error
          /\ \A d \in Channels: desk'.told[d] = IF d = c THEN told ELSE desk.told[d]
      BY <1>1, <3>2, <3>3 DEF DeskTypes, Desk
    <3>6. \A d \in Channels: WasSent(desk.told[d], sent')
      BY <1>4, <1>7, TruthStays
    <3>7. WasSent(told, sent')
      BY <3>4 DEF WasSent
    <3>8. \A d \in Channels: WasSent(desk'.told[d], sent')
      BY <3>5, <3>6, <3>7
    <3> QED BY <3>5, <3>8 DEF PanelTrue
  <2> QED BY <1>5, <2>1, <2>2
<1>11. DeskTypes'
  BY <1>1, <1>2, <1>7, <1>8, <1>10 DEF DeskTypes
<1>12. AnswerTrue'
  BY <1>2, <1>4, <1>7, TruthStays DEF AnswerTrue
<1>13. ShowsItsLink'
  <2>1. local => sent' = {}
    BY <1>1, <1>5 DEF ShowsItsLink
  <2> QED BY <1>1, <1>2, <1>10, <2>1 DEF ShowsItsLink
<1>14. IssuedIsListed'
  BY <1>1, <1>2, <1>10 DEF IssuedIsListed
<1> QED BY <1>7, <1>9, <1>10, <1>11, <1>12, <1>13, <1>14 DEF DeskIInv

LEMMA ElsewhereSteps ==
  ASSUME DeskIInv, NEW l \in Wares, EndsElsewhere(l) \/ ErasedElsewhere(l)
  PROVE  DeskIInv'
<1>1. DeskTypes /\ DeadLinksStay /\ ShowsItsLink /\ IssuedIsListed
  BY DEF DeskIInv
<1>2. UNCHANGED <<local, to, desk, job, list, mount, sending, sent>>
  BY DEF EndsElsewhere, ErasedElsewhere
<1>3. Ages(ware, ware') /\ ware' \in [Wares -> Row \cup {"unissued", "erased"}]
  BY <1>1 DEF EndsElsewhere, ErasedElsewhere, Ages, Row, DeskTypes
<1>4. PanelTrue' /\ AnswerTrue' /\ MessagesTrue'
  BY <1>2, <1>3, TruthStays DEF PanelTrue, AnswerTrue, MessagesTrue
<1>5. DeskTypes' /\ DeadLinksStay'
  BY <1>1, <1>2, <1>3 DEF DeskTypes, DeadLinksStay
<1>6. ShowsItsLink' /\ IssuedIsListed'
  BY <1>1, <1>2, <1>3, TruthStays DEF ShowsItsLink, IssuedIsListed
<1> QED BY <1>4, <1>5, <1>6 DEF DeskIInv

(* For any links, channels and addresses, whoever else revokes or erases and   *)
(* whichever answer is lost: what the panel says was sent was sent to that     *)
(* address, a link that was out of force when the operator pressed the button  *)
(* is never sent, nothing goes out from a local origin, and a link that was    *)
(* issued is listed after the refresh unless an error is shown.                *)
THEOREM DeskInvariant == DeskSpec => []DeskInv
<1>1. DeskInit => DeskIInv
  <2> SUFFICES ASSUME DeskInit PROVE DeskIInv
    OBVIOUS
  <2>1. /\ ware = [l \in Wares |-> "unissued"] /\ local \in BOOLEAN
        /\ to = [c \in Channels |-> Nothing] /\ desk = NewDesk /\ job = NoJob /\ list = NoList
        /\ mount = [at |-> "asked"] /\ sending = [c \in Channels |-> NotSending] /\ sent = {}
    BY DEF DeskInit
  <2>2. list \in [rows: Lists, by: {"opening", "action"}]
    <3>1. {} \in SUBSET Wares /\ [l \in {} |-> "active"] \in [{} -> Row]
      OBVIOUS
    <3>2. [l \in {} |-> "active"] \in Lists
      BY <3>1 DEF Lists
    <3> QED BY <2>1, <3>2 DEF NoList
  <2>3. DeskTypes
    BY <2>1, <2>2, NewDeskType DEF DeskTypes, Fields
  <2>4. PanelTrue /\ AnswerTrue /\ MessagesTrue
    BY <2>1, NewDeskType DEF PanelTrue, WasSent, AnswerTrue, Issuing, NoJob, MessagesTrue, SendingTrue
  <2>5. DeadLinksStay /\ ShowsItsLink /\ IssuedIsListed
    BY <2>1, NewDeskType DEF DeadLinksStay, ShowsItsLink, IssuedIsListed
  <2> QED BY <2>3, <2>4, <2>5 DEF DeskIInv
<1>2. DeskIInv /\ [DeskNext]_deskVars => DeskIInv'
  <2> SUFFICES ASSUME DeskIInv, [DeskNext]_deskVars PROVE DeskIInv'
    OBVIOUS
  <2>1. CASE UNCHANGED deskVars
    <3>1. UNCHANGED <<ware, local, to, desk, job, list, mount, sending, sent>>
      BY <2>1 DEF deskVars
    <3> QED BY <3>1 DEF DeskIInv, DeskTypes, PanelTrue, AnswerTrue, MessagesTrue,
                        DeadLinksStay, ShowsItsLink, IssuedIsListed
  <2> QED BY <2>1, PressSteps, CreateStep, DeliverStep, AnswerSteps, ListSteps, SendSteps,
             ElsewhereSteps DEF DeskNext
<1>3. DeskIInv => DeskInv
  <2> SUFFICES ASSUME DeskIInv PROVE DeskInv
    OBVIOUS
  <2>1. job.op \in {"none", "issue", "revoke", "erase", "clear", "list"}
    BY DEF DeskIInv, DeskTypes, NoJob, Asking, Issuing, Changes
  <2>2. DeskTypeOK
    BY <2>1 DEF DeskIInv, DeskTypes, DeskTypeOK, Desk, Told, Fields, Sent
  <2>3. ToldWasSent
    BY DEF DeskIInv, PanelTrue, WasSent, ToldWasSent
  <2> QED BY <2>2, <2>3 DEF DeskIInv, DeskInv
<1> QED BY <1>1, <1>2, <1>3, PTL DEF DeskSpec

-----------------------------------------------------------------------------
(* Composer: a take that is under way has its panel, the one a panel refers to *)
(* is recording or being stopped, and a stream or a minute has its take.       *)
Drafts ==
  /\ draft # None => times = 0
  /\ bound /\ ~guard => draft # None

Bodies ==
  /\ panel # None => about \in Peers
  /\ \A t \in Takes: take[t].at = "none" => take[t] = NoTake
  /\ \A t \in Takes: take[t].at # "none" => take[t].in \in Mounts /\ take[t].by \in Peers
  /\ \A t \in mic \cup limit: take[t].at \in {"taking", "stopping", "posting"}
  /\ \A m \in Mounts: ref[m] # None =>
       take[ref[m]].in = m /\ take[ref[m]].at \in {"taking", "stopping"}

(* While nothing was hasty, a panel has one take at most, it shows what that   *)
(* take does, and nothing but the take it refers to is heard.                  *)
Calm ==
  /\ \A t, u \in Takes: take[t].at # "none" /\ take[t].in = take[u].in => t = u
  /\ \A t \in Takes: take[t].at = "asking" => take[t].in = panel /\ busy[panel] = AtRest
  /\ \A t \in Takes: take[t].at = "taking" => t \in limit
  /\ \A t \in Takes: take[t].at = "stopping" /\ take[t].in = panel =>
       ref[panel] = t /\ busy[panel].recording
  /\ \A t \in Takes: take[t].at = "posting" => busy[take[t].in].sending /\ t \notin mic
  /\ limit \subseteq mic
  /\ \A t \in mic: take[t].in = panel /\ ref[panel] = t /\ busy[panel].recording
  /\ \A m \in Mounts: ref[m] # None => m = panel

ComposerIInv == ComposerTypeOK /\ Drafts /\ DraftSentOnce /\ Bodies /\ (~hasty => Calm)

Take == [at: {"none", "asking", "taking", "stopping", "posting"},
         in: Mounts \cup {None}, by: Peers \cup {None}, to: Peers \cup {None}]
Busy == [recording: BOOLEAN, sending: BOOLEAN]

LEMMA SoundTypes ==
  ASSUME ComposerTypeOK
  PROVE  /\ ref \in [Mounts -> Takes \cup {None}] /\ busy \in [Mounts -> Busy]
         /\ take \in [Takes -> Take] /\ mic \subseteq Takes /\ limit \subseteq Takes
         /\ hasty \in BOOLEAN /\ about \in Peers \cup {None} /\ panel \in Mounts \cup {None}
BY DEF ComposerTypeOK, Take, Busy

LEMMA SoundTypesBack ==
  ASSUME ComposerTypeOK, UNCHANGED field,
         ref' \in [Mounts -> Takes \cup {None}], busy' \in [Mounts -> Busy],
         take' \in [Takes -> Take], mic' \subseteq Takes, limit' \subseteq Takes,
         hasty' \in BOOLEAN, about' \in Peers \cup {None}, panel' \in Mounts \cup {None}
  PROVE  ComposerTypeOK'
BY DEF ComposerTypeOK, Take, Busy, field

LEMMA RestStays == \A b \in Busy: b = AtRest <=> ~b.recording /\ ~b.sending
<1> SUFFICES ASSUME NEW b \in Busy PROVE b = AtRest <=> ~b.recording /\ ~b.sending
  OBVIOUS
<1>1. b = [recording |-> b.recording, sending |-> b.sending] /\ b.recording \in BOOLEAN /\ b.sending \in BOOLEAN
  BY DEF Busy
<1>2. ASSUME ~b.recording, ~b.sending PROVE b = AtRest
  <2>1. b.recording = FALSE /\ b.sending = FALSE
    BY <1>1, <1>2
  <2> QED BY <1>1, <2>1 DEF AtRest
<1> QED BY <1>2 DEF AtRest

LEMMA RestTypes == AtRest \in Busy /\ NoTake \in Take /\ NoTake.at = "none" /\ NoTake.in = None
                   /\ AtRest.recording = FALSE /\ AtRest.sending = FALSE
BY DEF AtRest, Busy, NoTake, Take

(* The field: typing, rendering, sending, the 300 ms.                          *)
LEMMA FieldSteps ==
  ASSUME ComposerIInv, Type \/ Render \/ HandleSend \/ GuardEnds \/ \E p \in Peers: TurnTo(p)
  PROVE  ComposerIInv'
<1>1. UNCHANGED <<panel, ref, busy, take, mic, limit, hasty>>
      /\ about' \in Peers \cup {None} /\ (panel # None => about' \in Peers)
  BY DEF ComposerIInv, ComposerTypeOK, Bodies, Type, Render, HandleSend, GuardEnds, TurnTo, sound
<1>2. Bodies' /\ (~hasty' => Calm')
  BY <1>1 DEF ComposerIInv, Bodies, Calm
<1>3. /\ draft' \in Peers \cup {None} /\ bound' \in BOOLEAN /\ guard' \in BOOLEAN
      /\ times' \in 0..1 /\ Drafts'
  <2>1. times \in 0..1 /\ (panel # None => about \in Peers)
    BY DEF ComposerIInv, ComposerTypeOK, DraftSentOnce, Bodies
  <2>2. CASE Type
    BY <2>1, <2>2 DEF Type, ComposerIInv, ComposerTypeOK, Drafts
  <2>3. CASE Render
    BY <2>1, <2>3 DEF Render, ComposerIInv, ComposerTypeOK, Drafts
  <2>4. CASE HandleSend
    BY <2>1, <2>4 DEF HandleSend, ComposerIInv, ComposerTypeOK, Drafts
  <2>5. CASE GuardEnds
    BY <2>1, <2>5 DEF GuardEnds, ComposerIInv, ComposerTypeOK, Drafts
  <2>6. CASE \E p \in Peers: TurnTo(p)
    BY <2>1, <2>6 DEF TurnTo, field, ComposerIInv, ComposerTypeOK, Drafts
  <2> QED BY <2>2, <2>3, <2>4, <2>5, <2>6
<1>4. ComposerTypeOK' /\ DraftSentOnce'
  BY <1>1, <1>3 DEF ComposerIInv, ComposerTypeOK, DraftSentOnce
<1> QED BY <1>2, <1>3, <1>4 DEF ComposerIInv

LEMMA FieldStays ==
  ASSUME ComposerIInv, UNCHANGED field
  PROVE  Drafts' /\ DraftSentOnce'
BY DEF ComposerIInv, Drafts, DraftSentOnce, field

LEMMA OpenStep ==
  ASSUME ComposerIInv, NEW p \in Peers, NEW m \in Mounts, OpenPanel(p, m)
  PROVE  ComposerIInv'
<1>1. /\ panel = None /\ \A t \in Takes: take[t].in # m
      /\ panel' = m /\ about' = p /\ draft' = None /\ bound' = FALSE /\ guard' = FALSE /\ times' = 0
      /\ busy' = [busy EXCEPT ![m] = AtRest] /\ UNCHANGED <<ref, take, mic, limit, hasty>>
  BY DEF OpenPanel, TakesOf
<1>2. ComposerTypeOK /\ Bodies
  BY DEF ComposerIInv
<1>3. ComposerTypeOK' /\ Drafts' /\ DraftSentOnce'
  <2>1. busy' \in [Mounts -> Busy]
    BY <1>1, <1>2, SoundTypes, RestTypes
  <2>2. ComposerTypeOK'
    <3>1. /\ draft' \in Peers \cup {None}
          /\ about' \in Peers \cup {None} /\ panel' \in Mounts \cup {None}
      BY <1>1
    <3>4. bound' \in BOOLEAN /\ guard' \in BOOLEAN
      BY <1>1
    <3>5. times' \in 0..2
      BY <1>1
    <3>2. /\ ref' \in [Mounts -> Takes \cup {None}] /\ take' \in [Takes -> Take]
          /\ mic' \subseteq Takes /\ limit' \subseteq Takes /\ hasty' \in BOOLEAN
      BY <1>1, <1>2, SoundTypes
    <3> QED BY <2>1, <3>1, <3>2, <3>4, <3>5 DEF ComposerTypeOK, Take, Busy
  <2>3. Drafts' /\ DraftSentOnce'
    BY <1>1 DEF Drafts, DraftSentOnce
  <2> QED BY <2>2, <2>3
<1>4. Bodies'
  BY <1>1, <1>2 DEF Bodies
<1>5. ASSUME Calm PROVE Calm'
  <2>1. \A t \in Takes: take[t].at # "asking"
    BY <1>1, <1>2, <1>5, ComposerAssumption DEF Calm, Bodies
  <2>2. mic = {} /\ limit = {}
    <3>1. \A t \in mic: t \in Takes /\ take[t].at # "none" /\ take[t].in = None
      BY <1>1, <1>2, <1>5 DEF Calm, ComposerTypeOK, Bodies
    <3> QED BY <1>2, <1>5, <3>1, ComposerAssumption DEF Calm, Bodies
  <2>3. \A n \in Mounts: ref[n] = None
    BY <1>1, <1>5, ComposerAssumption DEF Calm
  <2>4. \A t \in Takes: take[t].at = "posting" => busy'[take[t].in] = busy[take[t].in]
    BY <1>1, <1>2, SoundTypes DEF Bodies
  <2>5. \A t \in Takes: take[t].at # "taking"
    BY <1>5, <2>2 DEF Calm
  <2> QED BY <1>1, <1>5, <2>1, <2>2, <2>3, <2>4, <2>5 DEF Calm
<1> QED BY <1>1, <1>3, <1>4, <1>5 DEF ComposerIInv

(* A calm panel hears nothing but the take it refers to.                       *)
LEMMA CalmPanel ==
  ASSUME ComposerTypeOK, Bodies, Calm
  PROVE  /\ panel = None => mic = {} /\ limit = {}
         /\ \A t \in mic: panel \in Mounts /\ ref[panel] = t
         /\ \A m \in Mounts: m # panel => ref[m] = None
         /\ \A t \in Takes: take[t].at \in {"asking", "taking"} => take[t].in = panel /\ panel \in Mounts
<1>1. \A t \in mic: t \in Takes /\ take[t].at # "none" /\ take[t].in = panel
  BY DEF Calm, ComposerTypeOK, Bodies
<1>2. \A t \in mic: panel \in Mounts
  BY <1>1 DEF Bodies
<1>3. panel = None => mic = {}
  BY <1>2, ComposerAssumption
<1>4. limit \subseteq mic
  BY DEF Calm
<1>5. \A t \in Takes: take[t].at \in {"asking", "taking"} => take[t].in = panel /\ panel \in Mounts
  BY <1>1, <1>4 DEF Calm, Bodies
<1> QED BY <1>2, <1>3, <1>4, <1>5 DEF Calm

LEMMA CloseStep == ASSUME ComposerIInv, ClosePanel PROVE ComposerIInv'
<1>1. /\ panel # None /\ panel' = None /\ about' = None /\ UNCHANGED field
      /\ mic' = mic \ {ref[panel]} /\ limit' = limit \ {ref[panel]}
      /\ ref' = [ref EXCEPT ![panel] = None]
      /\ take' = [t \in Takes |-> IF t = ref[panel] /\ take[t].at = "taking" THEN NoTake ELSE take[t]]
      /\ hasty' = (hasty \/ \E t \in Takes: take[t].in = panel /\ take[t].at = "asking")
      /\ busy' = [busy EXCEPT ![panel].recording = FALSE]
  BY DEF ClosePanel, CleanUp, TakesOf
<1>2. ComposerTypeOK /\ Bodies /\ panel \in Mounts
  BY <1>1 DEF ComposerIInv, ComposerTypeOK
<1>3. ComposerTypeOK'
  <2>1. busy' \in [Mounts -> Busy]
    BY <1>1, <1>2, SoundTypes DEF Busy
  <2> QED BY <1>1, <1>2, <2>1, SoundTypes, SoundTypesBack, RestTypes
<1>4. Drafts' /\ DraftSentOnce'
  BY <1>1, FieldStays
<1>5. Bodies'
  BY <1>1, <1>2, SoundTypes, RestTypes, ComposerAssumption DEF Bodies
<1>6. ASSUME ~hasty' PROVE Calm'
  <2>1. Calm /\ \A t \in Takes: take[t].at # "asking"
    BY <1>1, <1>6 DEF ComposerIInv, Calm
  <2>2. mic' = {} /\ limit' = {} /\ \A m \in Mounts: ref'[m] = None
    BY <1>1, <1>2, <2>1, CalmPanel, SoundTypes DEF Calm
  <2>3. \A t \in Takes: take'[t] = take[t] \/ take'[t] = NoTake
    BY <1>1
  <2>4. \A t \in Takes: take'[t].at # "taking"
    BY <1>1, <1>2, <2>1, CalmPanel, RestTypes DEF Calm
  <2>5. \A t \in Takes: take'[t].at = "stopping" => take'[t].in # None
    BY <1>2, <2>3, RestTypes, ComposerAssumption DEF Bodies
  <2>6. \A t \in Takes: take'[t].at = "posting" => busy'[take'[t].in].sending
    <3>1. ASSUME NEW t \in Takes, take'[t].at = "posting"
          PROVE  busy'[take'[t].in].sending
      <4>1. take'[t] = take[t] /\ take[t].in \in Mounts /\ busy[take[t].in].sending
        BY <1>2, <2>1, <2>3, <3>1, RestTypes DEF Calm, Bodies
      <4> QED BY <1>1, <1>2, <4>1, SoundTypes DEF Busy
    <3> QED BY <3>1
  <2>7. \A t, u \in Takes: take'[t].at # "none" /\ take'[t].in = take'[u].in => t = u
    BY <1>2, <2>1, <2>3, RestTypes, ComposerAssumption DEF Calm, Bodies
  <2>8. \A t \in Takes: take'[t].at # "asking"
    BY <2>1, <2>3, RestTypes
  <2> QED BY <1>1, <2>2, <2>4, <2>5, <2>6, <2>7, <2>8 DEF Calm
<1> QED BY <1>3, <1>4, <1>5, <1>6 DEF ComposerIInv

(* The microphone is asked for, granted, refused.                              *)
LEMMA StartStep == ASSUME ComposerIInv, NEW t \in Takes, StartTake(t) PROVE ComposerIInv'
<1> DEFINE new == [at |-> "asking", in |-> panel, by |-> about, to |-> None]
<1>1. /\ panel # None /\ busy[panel] = AtRest /\ take[t] = NoTake /\ t \notin limit \cup mic
      /\ take' = [take EXCEPT ![t] = new]
      /\ hasty' = (hasty \/ \E u \in Takes: take[u].in = panel /\ take[u].at = "asking")
      /\ UNCHANGED <<about, panel, field, ref, busy, mic, limit>>
  BY DEF StartTake, TakesOf
<1>2. ComposerTypeOK /\ Bodies /\ panel \in Mounts /\ about \in Peers
  BY <1>1 DEF ComposerIInv, ComposerTypeOK, Bodies
<1>3. new \in Take /\ new.at = "asking" /\ new.in = panel /\ new.by = about
  BY <1>2 DEF Take
<1> HIDE DEF new
<1>4. ComposerTypeOK'
  BY <1>1, <1>2, <1>3, SoundTypes, SoundTypesBack
<1>5. Drafts' /\ DraftSentOnce'
  BY <1>1, FieldStays
<1>6. /\ take'[t] = new
      /\ \A u \in Takes: u # t => take'[u] = take[u]
      /\ \A m \in Mounts: ref[m] # None => ref[m] # t /\ ref[m] \in Takes
  BY <1>1, <1>2, SoundTypes, RestTypes DEF Bodies
<1>7. Bodies'
  BY <1>1, <1>2, <1>3, <1>6, SoundTypes DEF Bodies
<1>8. ASSUME ~hasty' PROVE Calm'
  <2>1. Calm /\ \A u \in Takes: take[u].in = panel => take[u].at # "asking"
    BY <1>1, <1>8 DEF ComposerIInv
  <2>2. \A u \in Takes: take[u].in = panel => take[u].at = "none"
    BY <1>1, <1>2, <2>1, CalmPanel, SoundTypes, RestTypes DEF Calm, Take
  <2>3. \A u \in Takes: u # t => take'[u].in # panel
    BY <1>2, <1>6, <2>2, RestTypes, ComposerAssumption DEF Bodies
  <2>4. \A u, v \in Takes: take'[u].at # "none" /\ take'[u].in = take'[v].in => u = v
    BY <1>3, <1>6, <2>1, <2>3 DEF Calm
  <2> QED BY <1>1, <1>3, <1>6, <2>1, <2>4 DEF Calm
<1> QED BY <1>4, <1>5, <1>7, <1>8 DEF ComposerIInv

LEMMA GrantedStep == ASSUME ComposerIInv, NEW t \in Takes, Granted(t) PROVE ComposerIInv'
<1>1. /\ take[t].at = "asking"
      /\ take' = [take EXCEPT ![t].at = "taking"]
      /\ mic' = mic \cup {t} /\ limit' = limit \cup {t}
      /\ ref' = [ref EXCEPT ![take[t].in] = t]
      /\ busy' = [busy EXCEPT ![take[t].in].recording = TRUE]
      /\ UNCHANGED <<about, panel, field, hasty>>
  BY DEF Granted
<1>2. ComposerTypeOK /\ Bodies /\ take[t].in \in Mounts /\ take[t].by \in Peers
  BY <1>1 DEF ComposerIInv, Bodies
<1>3. /\ take'[t] \in Take /\ take'[t].at = "taking"
      /\ take'[t].in = take[t].in /\ take'[t].by = take[t].by
      /\ \A u \in Takes: u # t => take'[u] = take[u]
      /\ take' \in [Takes -> Take]
  BY <1>1, <1>2, SoundTypes DEF Take
<1>4. /\ busy' \in [Mounts -> Busy] /\ busy'[take[t].in].recording = TRUE
      /\ \A m \in Mounts: m # take[t].in => busy'[m] = busy[m]
      /\ \A m \in Mounts: busy'[m].sending = busy[m].sending
  BY <1>1, <1>2, SoundTypes DEF Busy
<1>5. /\ ref' \in [Mounts -> Takes \cup {None}] /\ ref'[take[t].in] = t
      /\ \A m \in Mounts: m # take[t].in => ref'[m] = ref[m]
  BY <1>1, <1>2, SoundTypes
<1>6. ComposerTypeOK'
  BY <1>1, <1>2, <1>3, <1>4, <1>5, SoundTypes, SoundTypesBack
<1>7. Drafts' /\ DraftSentOnce'
  BY <1>1, FieldStays
<1>8. Bodies'
  BY <1>1, <1>2, <1>3, <1>5, SoundTypes, ComposerAssumption DEF Bodies
<1>9. ASSUME ~hasty' PROVE Calm'
  <2>1. Calm /\ take[t].in = panel /\ panel \in Mounts /\ busy[panel] = AtRest
    BY <1>1, <1>2, <1>9 DEF ComposerIInv, Calm
  <2>2. mic = {} /\ limit = {}
    BY <2>1, RestTypes DEF Calm
  <2>3. \A u \in Takes: u # t => take[u].at = "none" \/ take[u].in # panel
    BY <2>1 DEF Calm
  <2>4. \A u, v \in Takes: take'[u].at # "none" /\ take'[u].in = take'[v].in => u = v
    BY <1>1, <1>3, <2>1 DEF Calm
  <2>5. \A u \in Takes: take'[u].at = "asking" => take'[u].in = panel' /\ busy'[panel'] = AtRest
    BY <1>1, <1>3, <2>1, <2>3 DEF Calm
  <2>6. \A u \in Takes: take'[u].at = "taking" => u \in limit'
    BY <1>1, <1>3, <2>1 DEF Calm
  <2>7. \A u \in Takes: take'[u].at = "stopping" /\ take'[u].in = panel' =>
          ref'[panel'] = u /\ busy'[panel'].recording
    BY <1>1, <1>3, <2>3
  <2>8. \A u \in Takes: take'[u].at = "posting" => busy'[take'[u].in].sending /\ u \notin mic'
    BY <1>1, <1>2, <1>3, <1>4, <2>1 DEF Calm, Bodies
  <2>9. limit' \subseteq mic' /\ \A u \in mic': take'[u].in = panel' /\ ref'[panel'] = u /\ busy'[panel'].recording
    BY <1>1, <1>3, <1>4, <1>5, <2>1, <2>2
  <2>10. \A m \in Mounts: ref'[m] # None => m = panel'
    BY <1>1, <1>5, <2>1 DEF Calm
  <2> QED BY <2>4, <2>5, <2>6, <2>7, <2>8, <2>9, <2>10 DEF Calm
<1> QED BY <1>6, <1>7, <1>8, <1>9 DEF ComposerIInv

LEMMA DeniedStep == ASSUME ComposerIInv, NEW t \in Takes, Denied(t) PROVE ComposerIInv'
<1> DEFINE m == take[t].in
<1>1. /\ take[t].at = "asking"
      /\ mic' = mic \ {ref[m]} /\ limit' = limit \ {ref[m]}
      /\ ref' = [ref EXCEPT ![m] = None]
      /\ busy' = [busy EXCEPT ![m].recording = FALSE]
      /\ take' = [u \in Takes |-> IF u = t \/ (u = ref[m] /\ take[u].at = "taking")
                                  THEN NoTake ELSE take[u]]
      /\ UNCHANGED <<about, panel, field, hasty>>
  BY DEF Denied, CleanUp
<1>2. ComposerTypeOK /\ Bodies /\ m \in Mounts
  BY <1>1 DEF ComposerIInv, Bodies
<1>3. /\ busy' \in [Mounts -> Busy]
      /\ \A n \in Mounts: busy'[n].sending = busy[n].sending
      /\ \A n \in Mounts: n # m => busy'[n] = busy[n]
  <2> HIDE DEF m
  <2> QED BY <1>1, <1>2, SoundTypes DEF Busy
<1>4. ComposerTypeOK'
  BY <1>1, <1>2, <1>3, SoundTypes, SoundTypesBack, RestTypes
<1>5. Drafts' /\ DraftSentOnce'
  BY <1>1, FieldStays
<1>6. Bodies'
  <2>1. \A u \in Takes: take'[u] = take[u] \/ take'[u] = NoTake
    BY <1>1
  <2>2. \A u \in mic' \cup limit': take'[u].at \in {"taking", "stopping", "posting"}
    BY <1>1, <1>2, SoundTypes, RestTypes DEF Bodies
  <2>3. \A n \in Mounts: ref'[n] # None => take'[ref'[n]].in = n /\ take'[ref'[n]].at \in {"taking", "stopping"}
    <3>1. ASSUME NEW n \in Mounts, ref'[n] # None
          PROVE  take'[ref'[n]].in = n /\ take'[ref'[n]].at \in {"taking", "stopping"}
      <4>1. n # m /\ ref'[n] = ref[n] /\ ref[n] \in Takes
        BY <1>1, <1>2, <3>1, SoundTypes
      <4>2. take[ref[n]].in = n /\ take[ref[n]].at \in {"taking", "stopping"}
        BY <1>2, <3>1, <4>1 DEF Bodies
      <4>3. ref[n] # t /\ ref[n] # ref[m]
        BY <1>1, <1>2, <4>1, <4>2, ComposerAssumption DEF Bodies
      <4> QED BY <1>1, <4>1, <4>2, <4>3
    <3> QED BY <3>1
  <2>4. \A u \in Takes: take'[u].at = "none" => take'[u] = NoTake
    BY <1>2, <2>1, RestTypes DEF Bodies
  <2>5. \A u \in Takes: take'[u].at # "none" => take'[u].in \in Mounts /\ take'[u].by \in Peers
    BY <1>2, <2>1, RestTypes DEF Bodies
  <2> QED BY <1>1, <1>2, <2>2, <2>3, <2>4, <2>5 DEF Bodies
<1>7. ASSUME ~hasty' PROVE Calm'
  <2>1. Calm /\ m = panel /\ panel \in Mounts /\ busy[panel] = AtRest
    BY <1>1, <1>2, <1>7 DEF ComposerIInv, Calm
  <2>2. mic = {} /\ limit = {} /\ ref[panel] = None
    <3>1. mic = {} /\ limit = {}
      BY <2>1, RestTypes DEF Calm
    <3>2. ref[panel] # None => take[ref[panel]].in = panel /\ ref[panel] \in Takes
                              /\ take[ref[panel]].at \in {"taking", "stopping"}
      BY <1>2, <2>1, SoundTypes DEF Bodies
    <3>3. ref[panel] # None => ref[panel] = t
      BY <2>1, <3>2 DEF Calm
    <3> QED BY <1>1, <3>1, <3>2, <3>3
  <2>3. \A u \in Takes: u # t => take'[u] = take[u]
    BY <1>1, <2>1, <2>2, ComposerAssumption
  <2>4. take'[t] = NoTake /\ \A u \in Takes: u # t => take[u].at = "none" \/ take[u].in # panel
    BY <1>1, <2>1 DEF Calm
  <2>5. mic' = {} /\ limit' = {} /\ \A n \in Mounts: ref'[n] = None
    BY <1>1, <1>2, <2>1, <2>2, CalmPanel, SoundTypes
  <2>6. \A u, v \in Takes: take'[u].at # "none" /\ take'[u].in = take'[v].in => u = v
    BY <1>2, <2>1, <2>3, <2>4, RestTypes, ComposerAssumption DEF Calm, Bodies
  <2>7. \A u \in Takes: take'[u].at \notin {"asking", "taking"}
    BY <2>1, <2>2, <2>3, <2>4, RestTypes DEF Calm
  <2>8. \A u \in Takes: take'[u].at = "stopping" => take'[u].in # panel
    BY <2>3, <2>4, RestTypes
  <2>9. \A u \in Takes: take'[u].at = "posting" => busy'[take'[u].in].sending
    BY <1>2, <1>3, <2>1, <2>3, <2>4, RestTypes DEF Calm, Bodies
  <2> QED BY <1>1, <2>5, <2>6, <2>7, <2>8, <2>9 DEF Calm
<1> QED BY <1>4, <1>5, <1>6, <1>7 DEF ComposerIInv

(* stop(send): of the take the panel refers to.                                *)
LEMMA StopsIn ==
  ASSUME ComposerIInv, NEW m \in Mounts, NEW w \in Peers \cup {None}, StopIn(m, w),
         UNCHANGED <<about, panel, field, ref, mic, hasty>>,
         limit' \subseteq limit,
         (~hasty => \A t \in limit \ limit': ref[m] = t)
  PROVE  ComposerIInv'
<1>1. ComposerTypeOK /\ Bodies
  BY DEF ComposerIInv
<1>2. Drafts' /\ DraftSentOnce'
  BY FieldStays
<1>3. CASE ref[m] = None
  <2>1. busy' = [busy EXCEPT ![m].recording = FALSE] /\ take' = take
    BY <1>3 DEF StopIn
  <2>2. /\ busy' \in [Mounts -> Busy]
        /\ \A n \in Mounts: busy'[n].sending = busy[n].sending
        /\ \A n \in Mounts: n # m => busy'[n] = busy[n]
        /\ busy[m] = AtRest => busy'[m] = AtRest
    <3>1. /\ busy' \in [Mounts -> Busy]
          /\ \A n \in Mounts: busy'[n].sending = busy[n].sending
          /\ \A n \in Mounts: n # m => busy'[n] = busy[n]
          /\ ~busy'[m].recording
      BY <1>1, <2>1, SoundTypes DEF Busy
    <3> QED BY <1>1, <3>1, SoundTypes, RestStays
  <2>3. ComposerTypeOK'
    BY <1>1, <2>1, <2>2, SoundTypes, SoundTypesBack
  <2>4. Bodies'
    BY <1>1, <2>1 DEF Bodies
  <2>5. ASSUME ~hasty' PROVE Calm'
    <3>1. Calm /\ limit' = limit
      BY <1>1, <1>3, <2>5, SoundTypes, ComposerAssumption DEF ComposerIInv
    <3>2. \A t \in Takes: take[t].in = panel /\ (take[t].at = "stopping" \/ t \in mic) => m # panel /\ panel \in Mounts
      BY <1>1, <1>3, <3>1, CalmPanel, SoundTypes, ComposerAssumption DEF Calm, Bodies
    <3>3. \A t \in mic: t \in Takes /\ take[t].in = panel
      BY <1>1, <3>1, SoundTypes DEF Calm
    <3>4. \A t \in Takes: take[t].at = "posting" => take[t].in \in Mounts
      BY <1>1 DEF Bodies
    <3>5. \A t \in Takes: take[t].at = "asking" => take[t].in = panel /\ panel \in Mounts
      BY <1>1, <3>1, CalmPanel
    <3> QED BY <2>1, <2>2, <3>1, <3>2, <3>3, <3>4, <3>5 DEF Calm
  <2> QED BY <1>2, <2>3, <2>4, <2>5 DEF ComposerIInv
<1>4. CASE ref[m] # None
  <2> DEFINE s == ref[m]
  <2>1. s \in Takes /\ take' = [take EXCEPT ![s].at = "stopping", ![s].to = w] /\ busy' = busy
    BY <1>1, <1>4, SoundTypes DEF StopIn
  <2>2. /\ take' \in [Takes -> Take]
        /\ take'[s].at = "stopping" /\ take'[s].in = take[s].in /\ take'[s].by = take[s].by
        /\ \A u \in Takes: u # s => take'[u] = take[u]
    BY <1>1, <2>1, SoundTypes DEF Take
  <2>3. take[s].in = m /\ take[s].at \in {"taking", "stopping"}
    BY <1>1, <1>4 DEF Bodies
  <2> HIDE DEF s
  <2>4. ComposerTypeOK'
    BY <1>1, <2>1, <2>2, SoundTypes, SoundTypesBack
  <2>5. Bodies'
    BY <1>1, <2>1, <2>2, <2>3, SoundTypes DEF Bodies
  <2>6. ASSUME ~hasty' PROVE Calm'
    <3>1. Calm /\ limit \ limit' \subseteq {s}
      BY <2>6 DEF ComposerIInv, s
    <3>2. m = panel /\ ref[panel] = s
      BY <1>4, <3>1 DEF Calm, s
    <3>3. busy[panel].recording
      <4>1. CASE take[s].at = "taking"
        BY <2>1, <3>1, <4>1 DEF Calm
      <4>2. CASE take[s].at = "stopping"
        BY <2>1, <2>3, <3>1, <3>2, <4>2 DEF Calm
      <4> QED BY <2>3, <4>1, <4>2
    <3>4. \A u, v \in Takes: take'[u].at # "none" /\ take'[u].in = take'[v].in => u = v
      BY <2>2, <2>3, <3>1 DEF Calm
    <3>5. \A u \in Takes: take'[u].at = "taking" => u \in limit'
      BY <2>2, <3>1 DEF Calm
    <3>6. \A u \in mic: u \in Takes
      BY <1>1, SoundTypes
    <3> QED BY <2>1, <2>2, <3>1, <3>2, <3>3, <3>4, <3>5, <3>6 DEF Calm
  <2> QED BY <1>2, <2>4, <2>5, <2>6 DEF ComposerIInv
<1> QED BY <1>3, <1>4

LEMMA StopSteps ==
  ASSUME ComposerIInv, (\E send \in BOOLEAN: PressStop(send)) \/ \E t \in Takes: LimitFires(t)
  PROVE  ComposerIInv'
<1>1. ComposerTypeOK /\ Bodies
  BY DEF ComposerIInv
<1>2. ASSUME NEW send \in BOOLEAN, PressStop(send) PROVE ComposerIInv'
  <2>1. /\ panel \in Mounts /\ (IF send THEN about ELSE None) \in Peers \cup {None}
        /\ StopIn(panel, IF send THEN about ELSE None)
        /\ UNCHANGED <<about, panel, field, ref, mic, limit, hasty>>
    BY <1>1, <1>2, SoundTypes DEF PressStop
  <2> QED BY <2>1, StopsIn
<1>3. ASSUME NEW t \in Takes, LimitFires(t) PROVE ComposerIInv'
  <2>1. /\ t \in limit /\ limit' = limit \ {t}
        /\ StopIn(take[t].in, take[t].by)
        /\ UNCHANGED <<about, panel, field, ref, mic, hasty>>
    BY <1>3 DEF LimitFires
  <2>2. take[t].in \in Mounts /\ take[t].by \in Peers
    BY <1>1, <2>1 DEF Bodies
  <2>3. ~hasty => ref[take[t].in] = t
    BY <2>1 DEF ComposerIInv, Calm
  <2> QED BY <2>1, <2>2, <2>3, StopsIn
<1> QED BY <1>2, <1>3

(* onstop: with the recorder put away the take is posted or dropped.           *)
LEMMA StoppedStep == ASSUME ComposerIInv, NEW t \in Takes, Stopped(t) PROVE ComposerIInv'
<1> DEFINE m == take[t].in
<1>1. /\ take[t].at = "stopping"
      /\ mic' = mic \ {ref[m]} /\ limit' = limit \ {ref[m]}
      /\ ref' = [ref EXCEPT ![m] = None]
      /\ UNCHANGED <<about, panel, field, hasty>>
      /\ \/ /\ take' = [take EXCEPT ![t].at = "posting"]
            /\ busy' = [busy EXCEPT ![m] = [recording |-> FALSE, sending |-> TRUE]]
         \/ /\ take' = [take EXCEPT ![t] = IF t \in mic' \cup limit' THEN [@ EXCEPT !.at = "taking"]
                                                                   ELSE NoTake]
            /\ busy' = [busy EXCEPT ![m].recording = FALSE]
  BY DEF Stopped, CleanUp
<1>2. ComposerTypeOK /\ Bodies /\ m \in Mounts /\ take[t].by \in Peers
  BY <1>1 DEF ComposerIInv, Bodies
<1>3. /\ take' \in [Takes -> Take]
      /\ \A u \in Takes: u # t => take'[u] = take[u]
      /\ \/ /\ take'[t].at = "posting" /\ take'[t].in = m /\ take'[t].by = take[t].by
            /\ busy'[m].sending
         \/ /\ take'[t].at = "taking" /\ take'[t].in = m /\ take'[t].by = take[t].by
            /\ t \in mic' \cup limit'
         \/ take'[t] = NoTake /\ t \notin mic' \cup limit'
  <2>1. CASE /\ take' = [take EXCEPT ![t].at = "posting"]
             /\ busy' = [busy EXCEPT ![m] = [recording |-> FALSE, sending |-> TRUE]]
    <3>1. busy'[m].sending
      BY <1>2, <2>1, SoundTypes
    <3>2. /\ take' \in [Takes -> Take] /\ \A u \in Takes: u # t => take'[u] = take[u]
          /\ take'[t].at = "posting" /\ take'[t].in = m /\ take'[t].by = take[t].by
      BY <1>2, <2>1, SoundTypes DEF Take
    <3> QED BY <3>1, <3>2
  <2>2. CASE take' = [take EXCEPT ![t] = IF t \in mic' \cup limit' THEN [@ EXCEPT !.at = "taking"]
                                                                    ELSE NoTake]
    BY <1>2, <2>2, SoundTypes, RestTypes DEF Take
  <2> QED BY <1>1, <2>1, <2>2
<1>4. busy' \in [Mounts -> Busy] /\ \A n \in Mounts: n # m => busy'[n] = busy[n]
  <2> DEFINE on == [recording |-> FALSE, sending |-> TRUE]
  <2>1. on \in Busy
    BY DEF Busy
  <2>2. busy' = [busy EXCEPT ![m] = on] \/ busy' = [busy EXCEPT ![m].recording = FALSE]
    BY <1>1
  <2> HIDE DEF on, m
  <2> QED BY <1>2, <2>1, <2>2, SoundTypes DEF Busy
<1>5. /\ ref' \in [Mounts -> Takes \cup {None}] /\ ref'[m] = None
      /\ \A n \in Mounts: n # m => ref'[n] = ref[n]
  BY <1>1, <1>2, SoundTypes
<1>6. ComposerTypeOK'
  BY <1>1, <1>2, <1>3, <1>4, <1>5, SoundTypes, SoundTypesBack
<1>7. Drafts' /\ DraftSentOnce'
  BY <1>1, FieldStays
<1> HIDE DEF m
<1>8. Bodies'
  <2>1. \A n \in Mounts: ref'[n] # None => take'[ref'[n]].in = n /\ take'[ref'[n]].at \in {"taking", "stopping"}
    <3>1. ASSUME NEW n \in Mounts, ref'[n] # None
          PROVE  take'[ref'[n]].in = n /\ take'[ref'[n]].at \in {"taking", "stopping"}
      <4>1. n # m /\ ref'[n] = ref[n] /\ ref[n] \in Takes
        BY <1>2, <1>5, <3>1, SoundTypes
      <4>2. take[ref[n]].in = n /\ take[ref[n]].at \in {"taking", "stopping"}
        BY <1>2, <3>1, <4>1 DEF Bodies
      <4>3. ref[n] # t
        BY <4>1, <4>2 DEF m
      <4> QED BY <1>3, <4>1, <4>2, <4>3
    <3> QED BY <3>1
  <2>2. \A u \in mic' \cup limit': u \in Takes /\ take'[u].at \in {"taking", "stopping", "posting"}
    BY <1>1, <1>2, <1>3, SoundTypes DEF Bodies
  <2>3. \A u \in Takes: take'[u].at = "none" => take'[u] = NoTake
    BY <1>2, <1>3 DEF Bodies
  <2>4. \A u \in Takes: take'[u].at # "none" => take'[u].in \in Mounts /\ take'[u].by \in Peers
    BY <1>2, <1>3, RestTypes DEF Bodies
  <2> QED BY <1>1, <1>2, <2>1, <2>2, <2>3, <2>4 DEF Bodies
<1>9. ASSUME ~hasty' PROVE Calm'
  <2>1. Calm /\ \A u \in Takes: u # t => take[u].at = "none" \/ take[u].in # m
    BY <1>1, <1>9 DEF ComposerIInv, Calm, m
  <2>2. t \notin mic' /\ \A u \in mic': u \in mic /\ m # panel
    <3>1. m = panel => ref[m] = t
      BY <1>1, <2>1 DEF Calm, m
    <3>2. \A u \in mic: take[u].in = panel /\ ref[panel] = u /\ u \in Takes
      BY <1>2, <2>1, SoundTypes DEF Calm
    <3> QED BY <1>1, <3>1, <3>2 DEF m
  <2>3. limit' \subseteq mic'
    BY <1>1, <2>1 DEF Calm
  <2>4. \/ take'[t].at = "posting" /\ take'[t].in = m /\ busy'[m].sending
        \/ take'[t] = NoTake
    BY <1>3, <2>2, <2>3
  <2>5. \A u, v \in Takes: take'[u].at # "none" /\ take'[u].in = take'[v].in => u = v
    BY <1>2, <1>3, <2>1, <2>4, RestTypes, ComposerAssumption DEF Calm, Bodies, m
  <2>6. \A u \in Takes: take'[u].at \in {"asking", "taking", "stopping"} =>
          u # t /\ take'[u] = take[u] /\ take[u].in # m
    BY <1>3, <2>1, <2>4, RestTypes
  <2>7. \A u \in Takes: take'[u].at = "asking" => take'[u].in = panel' /\ busy'[panel'] = AtRest
    BY <1>1, <1>2, <1>4, <2>1, <2>6, CalmPanel DEF Calm
  <2>8. \A u \in Takes: take'[u].at = "taking" => u \in limit'
    <3>1. ASSUME NEW u \in Takes, take'[u].at = "taking" PROVE u \in limit'
      <4>1. u # t /\ take[u].at = "taking" /\ take[u].in # m /\ u \in limit
        BY <2>1, <2>6, <3>1 DEF Calm
      <4>2. ref[m] # u
        BY <1>2, <4>1, ComposerAssumption DEF Bodies
      <4> QED BY <1>1, <4>1, <4>2 DEF m
    <3> QED BY <3>1
  <2>9. \A u \in Takes: take'[u].at = "stopping" /\ take'[u].in = panel' =>
          ref'[panel'] = u /\ busy'[panel'].recording
    <3>1. ASSUME NEW u \in Takes, take'[u].at = "stopping", take'[u].in = panel'
          PROVE  ref'[panel'] = u /\ busy'[panel'].recording
      <4>1. take[u].at = "stopping" /\ take[u].in = panel /\ panel # m /\ panel \in Mounts
        BY <1>1, <1>2, <2>6, <3>1 DEF Bodies
      <4> QED BY <1>1, <1>4, <1>5, <2>1, <4>1 DEF Calm
    <3> QED BY <3>1
  <2>10. \A u \in Takes: take'[u].at = "posting" => busy'[take'[u].in].sending /\ u \notin mic'
    <3>1. ASSUME NEW u \in Takes, u # t, take'[u].at = "posting"
          PROVE  busy'[take'[u].in].sending /\ u \notin mic'
      <4>1. take'[u] = take[u] /\ take[u].in \in Mounts /\ take[u].in # m
        BY <1>2, <1>3, <2>1, <3>1 DEF Bodies
      <4> QED BY <1>4, <2>1, <2>2, <3>1, <4>1 DEF Calm
    <3> QED BY <2>2, <2>4, <3>1, RestTypes
  <2>11. \A u \in mic': take'[u].in = panel' /\ ref'[panel'] = u /\ busy'[panel'].recording
    <3>1. ASSUME NEW u \in mic' PROVE take'[u].in = panel' /\ ref'[panel'] = u /\ busy'[panel'].recording
      <4>1. u \in mic /\ u \in Takes /\ u # t /\ panel # m /\ panel \in Mounts
        BY <1>2, <2>1, <2>2, <3>1, CalmPanel, SoundTypes
      <4> QED BY <1>1, <1>3, <1>4, <1>5, <2>1, <4>1 DEF Calm
    <3> QED BY <3>1
  <2>12. \A n \in Mounts: ref'[n] # None => n = panel'
    BY <1>1, <1>5, <2>1 DEF Calm
  <2> QED BY <2>3, <2>5, <2>7, <2>8, <2>9, <2>10, <2>11, <2>12 DEF Calm
<1> QED BY <1>6, <1>7, <1>8, <1>9 DEF ComposerIInv

LEMMA PostedStep == ASSUME ComposerIInv, NEW t \in Takes, Posted(t) PROVE ComposerIInv'
<1> DEFINE m == take[t].in
<1>1. /\ take[t].at = "posting"
      /\ take' = [take EXCEPT ![t] = IF t \in mic \cup limit THEN [@ EXCEPT !.at = "taking"] ELSE NoTake]
      /\ busy' = [busy EXCEPT ![m].sending = FALSE]
      /\ UNCHANGED <<about, panel, field, ref, mic, limit, hasty>>
  BY DEF Posted
<1>2. ComposerTypeOK /\ Bodies /\ m \in Mounts /\ take[t].by \in Peers
  BY <1>1 DEF ComposerIInv, Bodies
<1>3. /\ take' \in [Takes -> Take]
      /\ \A u \in Takes: u # t => take'[u] = take[u]
      /\ \/ /\ take'[t].at = "taking" /\ take'[t].in = m /\ take'[t].by = take[t].by
            /\ t \in mic \cup limit
         \/ take'[t] = NoTake /\ t \notin mic \cup limit
  BY <1>1, <1>2, SoundTypes, RestTypes DEF Take
<1>4. /\ busy' \in [Mounts -> Busy]
      /\ \A n \in Mounts: n # m => busy'[n] = busy[n]
      /\ \A n \in Mounts: busy'[n].recording = busy[n].recording
      /\ busy[m] = AtRest => busy'[m] = AtRest
  <2> HIDE DEF m
  <2>1. /\ busy' \in [Mounts -> Busy]
        /\ \A n \in Mounts: n # m => busy'[n] = busy[n]
        /\ \A n \in Mounts: busy'[n].recording = busy[n].recording
        /\ ~busy'[m].sending
    BY <1>1, <1>2, SoundTypes DEF Busy
  <2> QED BY <1>2, <2>1, SoundTypes, RestStays
<1>5. ComposerTypeOK'
  BY <1>1, <1>2, <1>3, <1>4, SoundTypes, SoundTypesBack
<1>6. Drafts' /\ DraftSentOnce'
  BY <1>1, FieldStays
<1>7. Bodies'
  <2>1. \A n \in Mounts: ref[n] # None => ref[n] # t /\ ref[n] \in Takes
    BY <1>1, <1>2, SoundTypes DEF Bodies
  <2>2. \A u \in mic \cup limit: u \in Takes
    BY <1>2, SoundTypes
  <2> QED BY <1>1, <1>2, <1>3, <2>1, <2>2, RestTypes DEF Bodies
<1> HIDE DEF m
<1>8. ASSUME ~hasty' PROVE Calm'
  <2>1. Calm /\ \A u \in Takes: u # t => take[u].at = "none" \/ take[u].in # m
    BY <1>1, <1>8 DEF ComposerIInv, Calm, m
  <2>2. t \notin mic \cup limit /\ take'[t] = NoTake
    BY <1>1, <1>3, <2>1 DEF Calm
  <2>3. \A u, v \in Takes: take'[u].at # "none" /\ take'[u].in = take'[v].in => u = v
    BY <1>2, <1>3, <2>1, <2>2, RestTypes, ComposerAssumption DEF Calm, Bodies
  <2>4. \A u \in Takes: take'[u].at = "asking" => take'[u].in = panel' /\ busy'[panel'] = AtRest
    BY <1>1, <1>2, <1>3, <1>4, <2>1, <2>2, CalmPanel, RestTypes DEF Calm
  <2>5. \A u \in Takes: take'[u].at = "posting" => busy'[take'[u].in].sending /\ u \notin mic'
    BY <1>1, <1>2, <1>3, <1>4, <2>1, <2>2, RestTypes DEF Calm, Bodies
  <2>6. \A u \in mic: u \in Takes /\ panel \in Mounts
    BY <1>2, <2>1, CalmPanel, SoundTypes
  <2>7. \A u \in Takes: take'[u].at = "stopping" /\ take'[u].in = panel' =>
          ref'[panel'] = u /\ busy'[panel'].recording
    <3>1. ASSUME NEW u \in Takes, take'[u].at = "stopping", take'[u].in = panel'
          PROVE  ref'[panel'] = u /\ busy'[panel'].recording
      <4>1. u # t /\ take'[u] = take[u] /\ panel \in Mounts /\ take[u].in = panel
        BY <1>1, <1>2, <1>3, <2>2, <3>1, RestTypes DEF Bodies
      <4> QED BY <1>1, <1>4, <2>1, <3>1, <4>1 DEF Calm
    <3> QED BY <3>1
  <2>8. \A u \in Takes: take'[u].at = "taking" => u \in limit'
    BY <1>1, <1>3, <2>1, <2>2, RestTypes DEF Calm
  <2>9. \A u \in mic': take'[u].in = panel' /\ ref'[panel'] = u /\ busy'[panel'].recording
    BY <1>1, <1>3, <1>4, <2>1, <2>2, <2>6 DEF Calm
  <2> QED BY <1>1, <2>1, <2>3, <2>4, <2>5, <2>7, <2>8, <2>9 DEF Calm
<1> QED BY <1>5, <1>6, <1>7, <1>8 DEF ComposerIInv

(* For any number of panels, takes and passengers, in whatever order clicks,   *)
(* callbacks of the recorder and the unmounting of panels come: a draft is     *)
(* sent once; and unless a take was asked for twice, or its panel closed,      *)
(* before the microphone was there, a microphone that is on is the one its     *)
(* panel shows and can stop, and a note being posted is shown as such.         *)
THEOREM ComposerInvariant == ComposerSpec => []ComposerInv
<1>1. ComposerInit => ComposerIInv
  <2> SUFFICES ASSUME ComposerInit PROVE ComposerIInv
    OBVIOUS
  <2>1. ComposerTypeOK
    <3>1. busy \in [Mounts -> Busy] /\ take \in [Takes -> Take]
      BY RestTypes DEF ComposerInit
    <3>2. ref \in [Mounts -> Takes \cup {None}]
      BY DEF ComposerInit
    <3>3. /\ draft \in Peers \cup {None} /\ about \in Peers \cup {None}
          /\ panel \in Mounts \cup {None} /\ mic \subseteq Takes /\ limit \subseteq Takes
      BY DEF ComposerInit
    <3>4. bound \in BOOLEAN /\ guard \in BOOLEAN /\ hasty \in BOOLEAN
      BY DEF ComposerInit
    <3>5. times \in 0..2
      BY DEF ComposerInit
    <3> QED BY <3>1, <3>2, <3>3, <3>4, <3>5 DEF ComposerTypeOK, Take, Busy
  <2>2. Drafts /\ DraftSentOnce
    BY DEF ComposerInit, Drafts, DraftSentOnce
  <2>3. Bodies
    BY RestTypes DEF ComposerInit, Bodies
  <2>4. Calm
    BY RestTypes DEF ComposerInit, Calm
  <2> QED BY <2>1, <2>2, <2>3, <2>4 DEF ComposerIInv
<1>2. ComposerIInv /\ [ComposerNext]_composerVars => ComposerIInv'
  <2> SUFFICES ASSUME ComposerIInv, [ComposerNext]_composerVars PROVE ComposerIInv'
    OBVIOUS
  <2>1. CASE UNCHANGED composerVars
    <3>1. UNCHANGED <<about, panel, draft, bound, guard, times, ref, busy, take, mic, limit, hasty>>
      BY <2>1 DEF composerVars
    <3> QED BY <3>1 DEF ComposerIInv, ComposerTypeOK, Drafts, DraftSentOnce, Bodies, Calm
  <2> QED BY <2>1, FieldSteps, OpenStep, CloseStep, StartStep, GrantedStep, DeniedStep, StopSteps,
             StoppedStep, PostedStep DEF ComposerNext
<1>3. ComposerIInv => ComposerInv
  <2> SUFFICES ASSUME ComposerIInv PROVE ComposerInv
    OBVIOUS
  <2>1. MicIsShown
    <3>1. ASSUME ~hasty, NEW t \in mic
          PROVE  /\ take[t].in = panel /\ busy[panel].recording /\ ref[panel] = t
                 /\ take[t].at = "stopping" \/ t \in limit
      <4>1. t \in Takes /\ take[t].at \in {"taking", "stopping", "posting"}
        BY <3>1 DEF ComposerIInv, ComposerTypeOK, Bodies
      <4> QED BY <3>1, <4>1 DEF ComposerIInv, Calm
    <3> QED BY <3>1 DEF MicIsShown
  <2> QED BY <2>1 DEF ComposerIInv, ComposerInv, PostingIsShown, Calm
<1> QED BY <1>1, <1>2, <1>3, PTL DEF ComposerSpec

=============================================================================
