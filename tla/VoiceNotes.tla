----------------------------- MODULE VoiceNotes -----------------------------
(* Voice notes on the server (hub/voiceNotes.ts, routes/voiceNotes.ts): an     *)
(* upload is written to a file, then described in a second one, then told of   *)
(* in the chat; an encoder makes a copy that Safari can play, beginning when   *)
(* the note is stored or, if there is none yet, when somebody asks for it.     *)
(*                                                                             *)
(* Whether a listener may have the note is asked again at every request and is *)
(* left out, as are the bytes. What a restart does to the message of a note is *)
(* in ChatHistory; the recorder is in Composer.                                *)
EXTENDS FiniteSets

CONSTANTS Uploads,    \* notes
          Listeners,  \* bubbles that play them, one request of each at a time
          Encoders,   \* ffmpeg processes that may run at once
          NoOne       \* no note, no encoder

ASSUME VoiceAssumption == NoOne \notin Uploads \cup Encoders

VARIABLES
  format,    \* of each note: "mp4", or one that Safari cannot play
  upload,    \* the request: how far, and what its sender was told
  disk,      \* VOICE_NOTES_DIR: per note the recording, its description, the copy
  chat,      \* notes of which there is a message
  enc,       \* encoders: of which note, and how far
  crossed,   \* notes of which two encoders wrote at the same time
  bubble     \* per listener: the note asked for, how far, and what came

voiceVars == <<format, upload, disk, chat, enc, crossed, bubble>>

Content == {"none", "part", "whole"}
NoEncoder == [of |-> NoOne, at |-> "none"]
Quiet == [of |-> NoOne, at |-> "none", got |-> "nothing", by |-> NoOne]

VoiceTypeOK ==
  /\ format \in [Uploads -> {"mp4", "webm"}]
  /\ upload \in [Uploads -> [at: {"none", "file", "about", "answer", "over"},
                             told: {"nothing", "ok", "failed"}]]
  /\ disk \in [Uploads -> [file: Content, about: Content, copy: Content]]
  /\ chat \subseteq Uploads /\ crossed \subseteq Uploads
  /\ enc \in [Encoders -> [of: Uploads \cup {NoOne}, at: {"none", "begun", "open"}]]
  /\ bubble \in [Listeners ->
       [of: Uploads \cup {NoOne}, at: {"none", "asked", "encoding"}, by: Encoders \cup {NoOne},
        got: {"nothing", "original", "copy", "broken", "unavailable"}]]

VoiceInit ==
  /\ format \in [Uploads -> {"mp4", "webm"}]
  /\ upload = [n \in Uploads |-> [at |-> "none", told |-> "nothing"]]
  /\ disk = [n \in Uploads |-> [file |-> "none", about |-> "none", copy |-> "none"]]
  /\ chat = {} /\ crossed = {}
  /\ enc = [e \in Encoders |-> NoEncoder] /\ bubble = [l \in Listeners |-> Quiet]

Writing(n) == {e \in Encoders: enc[e].of = n /\ enc[e].at = "open"}

-----------------------------------------------------------------------------
(* POST voice-note: turned away (session, plan, form, size, length), or taken. *)
PostNote(n) ==
  /\ upload[n].at = "none"
  /\ \/ /\ upload' = [upload EXCEPT ![n] = [at |-> "over", told |-> "failed"]]
        /\ UNCHANGED disk
     \/ /\ upload' = [upload EXCEPT ![n].at = "file"]
        /\ disk' = [disk EXCEPT ![n].file = "part"]
  /\ UNCHANGED <<format, chat, enc, crossed, bubble>>

(* saveVoiceNote: the recording, then its description.                         *)
FileWritten(n) ==
  /\ upload[n].at = "file"
  /\ upload' = [upload EXCEPT ![n].at = "about"]
  /\ disk' = [disk EXCEPT ![n].file = "whole", ![n].about = "part"]
  /\ UNCHANGED <<format, chat, enc, crossed, bubble>>

(* Then the encoder is started, without waiting for it, and the message is     *)
(* appended and sent around (appendVoiceChat).                                 *)
AboutWritten(n) ==
  /\ upload[n].at = "about"
  /\ upload' = [upload EXCEPT ![n].at = "answer"]
  /\ disk' = [disk EXCEPT ![n].about = "whole"]
  /\ chat' = chat \cup {n}
  /\ IF format[n] = "mp4" THEN UNCHANGED enc
     ELSE \E e \in Encoders: /\ enc[e] = NoEncoder
                             /\ enc' = [enc EXCEPT ![e] = [of |-> n, at |-> "begun"]]
  /\ UNCHANGED <<format, crossed, bubble>>

(* A write fails: 500, and what was written stays.                             *)
WriteFails(n) ==
  /\ upload[n].at \in {"file", "about"}
  /\ upload' = [upload EXCEPT ![n] = [at |-> "over", told |-> "failed"]]
  /\ UNCHANGED <<format, disk, chat, enc, crossed, bubble>>

UploadAnswered(n) ==
  /\ upload[n].at = "answer"
  /\ \E told \in {"ok", "failed"}: upload' = [upload EXCEPT ![n] = [at |-> "over", told |-> told]]
  /\ UNCHANGED <<format, disk, chat, enc, crossed, bubble>>

-----------------------------------------------------------------------------
(* runFfmpeg -y: the process empties the file of the copy, writes it and ends; *)
(* two of a note write to the same file. An empty copy counts as none.         *)
EncoderOpens(e) ==
  /\ enc[e].at = "begun"
  /\ enc' = [enc EXCEPT ![e].at = "open"]
  /\ disk' = [disk EXCEPT ![enc[e].of].copy = "none"]
  /\ crossed' = IF Writing(enc[e].of) # {} THEN crossed \cup {enc[e].of} ELSE crossed
  /\ UNCHANGED <<format, upload, chat, bubble>>

EncoderWrites(e) ==
  /\ enc[e].at = "open" /\ disk[enc[e].of].copy = "none"
  /\ disk' = [disk EXCEPT ![enc[e].of].copy = "part"]
  /\ UNCHANGED <<format, upload, chat, enc, crossed, bubble>>

(* What a listener gets of a copy: any that is not empty, else the original.   *)
OfCopy(content) ==
  CASE content = "whole" -> "copy" [] content = "part" -> "broken" [] OTHER -> "original"

EncoderEnds(e, content) ==
  /\ enc' = [enc EXCEPT ![e] = NoEncoder]
  /\ disk' = [disk EXCEPT ![enc[e].of].copy = content]
  /\ crossed' = IF Writing(enc[e].of) \subseteq {e} THEN crossed \ {enc[e].of} ELSE crossed
  /\ UNCHANGED <<format, upload, chat>>

(* Seeded fault: a failing encoder is reported to nobody.                      *)
EncoderFailsUnheard(e) ==
  /\ enc[e] # NoEncoder /\ EncoderEnds(e, disk[enc[e].of].copy)
  /\ UNCHANGED bubble

(* It ends well: whole, if no other was in its way; who waits for it reads it. *)
EncoderDone(e) ==
  /\ enc[e].at = "open"
  /\ \E content \in IF enc[e].of \in crossed THEN Content ELSE {"whole"}:
       /\ EncoderEnds(e, content)
       /\ bubble' = [l \in Listeners |->
            IF bubble[l].by # e THEN bubble[l]
            ELSE [bubble[l] EXCEPT !.at = "none", !.by = NoOne, !.got = OfCopy(content)]]

(* It cannot be run, fails, or is killed after twenty seconds: what it wrote   *)
(* stays, and who waits for it gets the original.                              *)
EncoderFails(e) ==
  /\ enc[e] # NoEncoder /\ EncoderEnds(e, disk[enc[e].of].copy)
  /\ bubble' = [l \in Listeners |->
       IF bubble[l].by # e THEN bubble[l]
       ELSE [bubble[l] EXCEPT !.at = "none", !.by = NoOne, !.got = "original"]]

-----------------------------------------------------------------------------
(* A bubble asks for the note of a message, and again when it is made anew.    *)
AskNote(l, n) ==
  /\ n \in chat /\ bubble[l].at = "none"
  /\ bubble' = [bubble EXCEPT ![l] = [of |-> n, at |-> "asked", got |-> "nothing", by |-> NoOne]]
  /\ UNCHANGED <<format, upload, disk, chat, enc, crossed>>

Gets(l, what) ==
  bubble' = [bubble EXCEPT ![l].at = "none", ![l].by = NoOne, ![l].got = what]

(* loadVoiceNote, bytesForVoicePlayback: 404 for one that is not described; a  *)
(* copy that is there; or an encoder is started and waited for.                *)
Stored(n) == disk[n].about = "whole" /\ disk[n].file # "none"

ServeNote(l) ==
  LET n == bubble[l].of
  IN /\ bubble[l].at = "asked"
     /\ \/ ~Stored(n) /\ Gets(l, "unavailable") /\ UNCHANGED enc
        \/ Stored(n) /\ format[n] = "mp4" /\ Gets(l, "original") /\ UNCHANGED enc
        \/ /\ Stored(n) /\ format[n] # "mp4" /\ disk[n].copy # "none"
           /\ Gets(l, OfCopy(disk[n].copy)) /\ UNCHANGED enc
        \/ /\ Stored(n) /\ format[n] # "mp4" /\ disk[n].copy = "none"
           /\ \E e \in Encoders:
                /\ enc[e] = NoEncoder
                /\ enc' = [enc EXCEPT ![e] = [of |-> n, at |-> "begun"]]
                /\ bubble' = [bubble EXCEPT ![l].at = "encoding", ![l].by = e]
     /\ UNCHANGED <<format, upload, disk, chat, crossed>>

(* The page is closed, or the answer does not come.                            *)
BubbleGives(l) ==
  /\ bubble[l].at # "none" /\ Gets(l, "nothing")
  /\ UNCHANGED <<format, upload, disk, chat, enc, crossed>>

-----------------------------------------------------------------------------
(* The server stops, with its encoders: requests fail, the files stay as they  *)
(* are.                                                                        *)
ServerStops ==
  /\ upload' = [n \in Uploads |-> IF upload[n].at \in {"none", "over"} THEN upload[n]
                                  ELSE [at |-> "over", told |-> "failed"]]
  /\ enc' = [e \in Encoders |-> NoEncoder] /\ crossed' = {}
  /\ bubble' = [l \in Listeners |-> IF bubble[l].at = "none" THEN bubble[l]
                                    ELSE [bubble[l] EXCEPT !.at = "none", !.by = NoOne]]
  /\ UNCHANGED <<format, disk, chat>>

VoiceNext ==
  \/ ServerStops
  \/ \E n \in Uploads: PostNote(n) \/ FileWritten(n) \/ AboutWritten(n) \/ WriteFails(n)
                       \/ UploadAnswered(n)
  \/ \E e \in Encoders: EncoderOpens(e) \/ EncoderWrites(e) \/ EncoderDone(e) \/ EncoderFails(e)
  \/ \E l \in Listeners: ServeNote(l) \/ BubbleGives(l) \/ \E n \in Uploads: AskNote(l, n)

VoiceSpec == VoiceInit /\ [][VoiceNext]_voiceVars

-----------------------------------------------------------------------------
(* Whoever reads of a note can have it: a note is told of in the chat, and its *)
(* sender is told that it went, only once it is there as a whole, and from     *)
(* then on it is never unavailable, whichever step fails and whenever the      *)
(* server stops.                                                               *)
StoredIfTold ==
  /\ \A n \in chat: disk[n].file = "whole" /\ disk[n].about = "whole"
  /\ \A n \in Uploads: upload[n].told = "ok" => n \in chat
  /\ \A l \in Listeners: bubble[l].got # "unavailable"

(* Nobody waits for an encoder that has ended; and a copy that is not whole,   *)
(* if the note has one, is being written or was left by a failed encoder.      *)
WaitIsForOne ==
  \A l \in Listeners: bubble[l].at = "encoding" =>
    bubble[l].by # NoOne /\ enc[bubble[l].by].of = bubble[l].of

VoiceInv == VoiceTypeOK /\ StoredIfTold /\ WaitIsForOne

(* "Serve AAC when we can": a listener gets a whole recording, the copy or the *)
(* original. (Not so: a copy is served as soon as it is not empty, and one     *)
(* that a killed encoder has left is never made again.)                        *)
PlaysWhole == \A l \in Listeners: bubble[l].got # "broken"
=============================================================================
