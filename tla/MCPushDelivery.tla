--------------------------- MODULE MCPushDelivery ---------------------------
(* What the console sends to passengers, for TLC: one-way messages, invite     *)
(* links, and what the composer of a chat sends, of which voice notes go by    *)
(* files. They share no state: a behaviour follows one of them and leaves the  *)
(* others as they start. Of the composer it follows the field or the recorder, *)
(* which have nothing in common but the panel.                                 *)
EXTENDS PushDelivery, InviteDesk, Composer, VoiceNotes, TLC

VARIABLE focus

sendVars == <<focus, hubVars, deskVars, composerVars, voiceVars>>

Symmetry == Permutations(Socks) \cup Permutations(Wares)

(* The choices of a start matter only while its part is followed.              *)
SendInit ==
  /\ focus \in {"messages", "links", "drafts", "takes", "notes"}
  /\ HubInit
  /\ DeskInit /\ (focus = "links" \/ ~local)
  /\ ComposerInit
  /\ VoiceInit /\ (focus = "notes" \/ \A n \in Uploads: format[n] = "mp4")

SendNext ==
  /\ UNCHANGED focus
  /\ \/ focus = "messages" /\ HubNext /\ UNCHANGED <<deskVars, composerVars, voiceVars>>
     \/ focus = "links" /\ DeskNext /\ UNCHANGED <<hubVars, composerVars, voiceVars>>
     \/ /\ focus \in {"drafts", "takes"} /\ ComposerNext
        /\ (focus = "drafts" => UNCHANGED sound) /\ (focus = "takes" => UNCHANGED field)
        /\ UNCHANGED <<hubVars, deskVars, voiceVars>>
     \/ focus = "notes" /\ VoiceNext /\ UNCHANGED <<hubVars, deskVars, composerVars>>

SendSpec == SendInit /\ [][SendNext]_sendVars
=============================================================================
