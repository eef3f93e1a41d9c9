------------------------------ MODULE Composer ------------------------------
(* What an operator writes and says to a passenger: the field and the recorder *)
(* of the conversation (ConversationPanel, VoiceNoteRecorder).                 *)
(*                                                                             *)
(* The panel is one component whoever it is about: it keeps its field and its  *)
(* recorder when the conversation turns to another passenger, and starts anew  *)
(* when it is closed or moves between its two places on the page. The bytes of *)
(* a recording and the words of a draft are left out, and so are the buttons   *)
(* that send a fixed text. What becomes of a note is in VoiceNotes.            *)
EXTENDS Naturals

CONSTANTS Peers,     \* passengers
          Mounts,    \* panels, from mount to unmount and to their last callback
          Takes,     \* calls of start()
          None       \* nobody, no panel, no take

ASSUME ComposerAssumption == None \notin Peers \cup Mounts \cup Takes

VARIABLES
  about,     \* the passenger the panel is about, or None when it is closed
  panel,     \* the panel that is mounted
  draft,     \* the field: whom it was written about
  bound,     \* what the rendered handler reads of it (the `input` of its closure)
  guard,     \* sendingRef
  times,     \* (history) how often the draft has been sent
  ref,       \* recRef of each panel (streamRef, limitRef and tickRef with it)
  busy,      \* of each panel, `recording` and `sending`
  take,      \* calls of start(): how far, in which panel, for whom, sent to whom
  mic,       \* takes whose stream is on
  limit,     \* takes whose sixty seconds run
  hasty      \* (history) a take was asked for while another was, or its panel
             \* went away while it was

composerVars ==
  <<about, panel, draft, bound, guard, times, ref, busy, take, mic, limit, hasty>>
field == <<draft, bound, guard, times>>
sound == <<ref, busy, take, mic, limit, hasty>>

NoTake == [at |-> "none", in |-> None, by |-> None, to |-> None]
AtRest == [recording |-> FALSE, sending |-> FALSE]

ComposerTypeOK ==
  /\ about \in Peers \cup {None} /\ panel \in Mounts \cup {None}
  /\ draft \in Peers \cup {None} /\ bound \in BOOLEAN /\ guard \in BOOLEAN /\ times \in 0..2
  /\ ref \in [Mounts -> Takes \cup {None}]
  /\ busy \in [Mounts -> [recording: BOOLEAN, sending: BOOLEAN]]
  /\ take \in [Takes -> [at: {"none", "asking", "taking", "stopping", "posting"},
                         in: Mounts \cup {None}, by: Peers \cup {None},
                         to: Peers \cup {None}]]
  /\ mic \subseteq Takes /\ limit \subseteq Takes /\ hasty \in BOOLEAN

ComposerInit ==
  /\ about = None /\ panel = None
  /\ draft = None /\ bound = FALSE /\ guard = FALSE /\ times = 0
  /\ ref = [m \in Mounts |-> None] /\ busy = [m \in Mounts |-> AtRest]
  /\ take = [t \in Takes |-> NoTake] /\ mic = {} /\ limit = {} /\ hasty = FALSE

TakesOf(m) == {t \in Takes: take[t].in = m}

-----------------------------------------------------------------------------
(* cleanup(): of the take the panel refers to.                                 *)
CleanUp(m) ==
  /\ mic' = mic \ {ref[m]} /\ limit' = limit \ {ref[m]}
  /\ ref' = [ref EXCEPT ![m] = None]

-----------------------------------------------------------------------------
(* openConversation, and closing: the panel of a conversation that changes is  *)
(* kept.                                                                       *)
OpenPanel(p, m) ==
  /\ panel = None /\ TakesOf(m) = {}
  /\ panel' = m /\ about' = p
  /\ draft' = None /\ bound' = FALSE /\ guard' = FALSE /\ times' = 0
  /\ busy' = [busy EXCEPT ![m] = AtRest]
  /\ UNCHANGED <<ref, take, mic, limit, hasty>>

TurnTo(p) ==
  /\ panel # None /\ about # p /\ about' = p
  /\ UNCHANGED <<panel, field, sound>>

(* Closed, or moved between docked and floating (then OpenPanel follows): the  *)
(* recorder is put away, what it recorded dropped, unless it is being stopped. *)
ClosePanel ==
  /\ panel # None
  /\ CleanUp(panel)
  /\ take' = [t \in Takes |-> IF t = ref[panel] /\ take[t].at = "taking" THEN NoTake ELSE take[t]]
  /\ hasty' = (hasty \/ \E t \in TakesOf(panel): take[t].at = "asking")
  /\ busy' = [busy EXCEPT ![panel].recording = FALSE]
  /\ panel' = None /\ about' = None
  /\ UNCHANGED field

-----------------------------------------------------------------------------
(* The operator types; the handler sees it from the next rendering on, which   *)
(* comes before the 300 ms of sendingRef are over.                             *)
Type ==
  /\ panel # None /\ draft = None
  /\ draft' = about /\ times' = 0
  /\ UNCHANGED <<about, panel, bound, guard, sound>>

Render ==
  /\ bound # (draft # None) /\ bound' = (draft # None)
  /\ UNCHANGED <<about, panel, draft, guard, times, sound>>

(* Seeded fault: without sendingRef.                                           *)
HandleSendUnguarded ==
  /\ panel # None /\ bound /\ times < 2
  /\ times' = times + 1 /\ guard' = TRUE /\ draft' = None
  /\ UNCHANGED <<about, panel, bound, sound>>

(* handleSend, by Enter or by the button: to whom the panel is about.          *)
HandleSend ==
  /\ panel # None /\ bound /\ ~guard
  /\ times' = times + 1 /\ guard' = TRUE /\ draft' = None
  /\ UNCHANGED <<about, panel, bound, sound>>

GuardEnds ==
  /\ guard /\ bound = (draft # None) /\ guard' = FALSE
  /\ UNCHANGED <<about, panel, draft, bound, times, sound>>

-----------------------------------------------------------------------------
(* start(): the microphone is asked for; `recording` is set once it is there.  *)
StartTake(t) ==
  /\ panel # None /\ busy[panel] = AtRest /\ take[t] = NoTake /\ t \notin limit \cup mic
  /\ take' = [take EXCEPT ![t] = [at |-> "asking", in |-> panel, by |-> about, to |-> None]]
  /\ hasty' = (hasty \/ \E u \in TakesOf(panel): take[u].at = "asking")
  /\ UNCHANGED <<about, panel, field, ref, busy, mic, limit>>

Granted(t) ==
  /\ take[t].at = "asking"
  /\ take' = [take EXCEPT ![t].at = "taking"]
  /\ mic' = mic \cup {t} /\ limit' = limit \cup {t}
  /\ ref' = [ref EXCEPT ![take[t].in] = t]
  /\ busy' = [busy EXCEPT ![take[t].in].recording = TRUE]
  /\ UNCHANGED <<about, panel, field, hasty>>

Denied(t) ==
  /\ take[t].at = "asking"
  /\ LET m == take[t].in
     IN /\ CleanUp(m)
        /\ busy' = [busy EXCEPT ![m].recording = FALSE]
        /\ take' = [u \in Takes |-> IF u = t \/ (u = ref[m] /\ take[u].at = "taking")
                                    THEN NoTake ELSE take[u]]
  /\ UNCHANGED <<about, panel, field, hasty>>

(* stop(send) in panel m: of the take it refers to, if any; a second call has  *)
(* the last word (rec.onstop is replaced).                                     *)
StopIn(m, forWhom) ==
  LET t == ref[m]
  IN IF t = None
     THEN busy' = [busy EXCEPT ![m].recording = FALSE] /\ UNCHANGED take
     ELSE take' = [take EXCEPT ![t].at = "stopping", ![t].to = forWhom] /\ UNCHANGED busy

PressStop(send) ==
  /\ panel # None /\ busy[panel].recording
  /\ StopIn(panel, IF send THEN about ELSE None)
  /\ UNCHANGED <<about, panel, field, ref, mic, limit, hasty>>

(* Sixty seconds: stop(true) of the rendering that began the take.             *)
LimitFires(t) ==
  /\ t \in limit /\ limit' = limit \ {t}
  /\ StopIn(take[t].in, take[t].by)
  /\ UNCHANGED <<about, panel, field, ref, mic, hasty>>

(* onstop: the recorder is put away, and what it took is posted, unless it is  *)
(* cancelled or next to nothing.                                               *)
Stopped(t) ==
  /\ take[t].at = "stopping"
  /\ LET m == take[t].in
     IN /\ CleanUp(m)
        /\ \/ /\ take[t].to # None
              /\ take' = [take EXCEPT ![t].at = "posting"]
              /\ busy' = [busy EXCEPT ![m] = [recording |-> FALSE, sending |-> TRUE]]
           \/ /\ take' = [take EXCEPT ![t] = IF t \in mic' \cup limit' THEN [@ EXCEPT !.at = "taking"]
                                                                     ELSE NoTake]
              /\ busy' = [busy EXCEPT ![m].recording = FALSE]
  /\ UNCHANGED <<about, panel, field, hasty>>

Posted(t) ==
  /\ take[t].at = "posting"
  /\ take' = [take EXCEPT ![t] = IF t \in mic \cup limit THEN [@ EXCEPT !.at = "taking"] ELSE NoTake]
  /\ busy' = [busy EXCEPT ![take[t].in].sending = FALSE]
  /\ UNCHANGED <<about, panel, field, ref, mic, limit, hasty>>

ComposerNext ==
  \/ ClosePanel \/ Type \/ Render \/ HandleSend \/ GuardEnds
  \/ \E p \in Peers: TurnTo(p) \/ \E m \in Mounts: OpenPanel(p, m)
  \/ \E t \in Takes: \/ StartTake(t) \/ Granted(t) \/ Denied(t) \/ LimitFires(t)
                     \/ Stopped(t) \/ Posted(t)
  \/ \E send \in BOOLEAN: PressStop(send)

ComposerSpec == ComposerInit /\ [][ComposerNext]_composerVars

-----------------------------------------------------------------------------
(* A draft is sent once, however fast Enter and the button follow each other.  *)
DraftSentOnce == times <= 1

(* Unless a take was asked for twice, or its panel closed, before the          *)
(* microphone was there: the microphone is on only while the panel that shows  *)
(* it is there, it is the take the panel can stop, and its minute runs.        *)
MicIsShown ==
  ~hasty => \A t \in mic:
    /\ take[t].in = panel /\ busy[panel].recording /\ ref[panel] = t
    /\ take[t].at = "stopping" \/ t \in limit

(* A take that is posted is the one its panel is sending.                      *)
PostingIsShown ==
  ~hasty => \A t \in Takes: take[t].at = "posting" => busy[take[t].in].sending

ComposerInv == ComposerTypeOK /\ DraftSentOnce /\ MicIsShown /\ PostingIsShown

(* What was written about one passenger goes to that one. (Not so: the field   *)
(* is kept when the conversation turns to another, and a robot request turns   *)
(* it by itself.)                                                              *)
DraftIsTheirs == draft # None => draft = about

(* What was said goes to whom it was begun for. (Not so, for the same reason,  *)
(* unless the sixty seconds end it.)                                           *)
NoteIsTheirs == \A t \in Takes: take[t].at = "posting" => take[t].to = take[t].by

(* The microphone is never on behind a panel that is gone. (Not so: granted    *)
(* after the panel has gone, it records for sixty seconds, then sends that.)   *)
NotBehindTheScenes == \A t \in mic: take[t].in = panel
=============================================================================
