---------------------------- MODULE InviteDesk ------------------------------
(* The console's panel of passenger links (InvitesPanel) and the routes it     *)
(* calls: issuing a link, texting or mailing it, revoking, erasing, and the    *)
(* list of what was issued. The secret of a link is told once, in the answer   *)
(* to its issue; the panel then holds the only copy.                           *)
(*                                                                             *)
(* One operator's page, with what others do to its links. Left out: the        *)
(* passenger, the flights and the QR code of a link, what the panel says of a  *)
(* message that failed, and a device reset, which changes nothing here. The    *)
(* steps of an erasure among those of a redeem are those of PaxInvite.         *)
EXTENDS FiniteSets

CONSTANTS Wares,       \* links that may be issued
          Channels,    \* of {"sms", "mail"}: those in use
          Addresses,   \* numbers and mailboxes an operator types
          Nothing      \* an empty field, no link, no address

ASSUME DeskAssumption ==
  Channels \subseteq {"sms", "mail"} /\ Nothing \notin Wares \cup Addresses

VARIABLES
  ware,      \* the rows: "unissued", "active", "inactive" (revoked, expired), "erased"
  local,     \* the page is on an origin only this machine can reach
  to,        \* the address field of the form for each channel
  desk,      \* the panel: url shown, error, what was told sent on a channel
  job,       \* the action under way, from click to refreshed list, or NoJob
  list,      \* the links listed, with their states, and the request they came with
  mount,     \* the list request of the opening page
  sending,   \* for each channel, the message requested with the button
  sent       \* (history) the messages providers took

deskVars == <<ware, local, to, desk, job, list, mount, sending, sent>>
server == <<ware, sent>>

Untold == [ware |-> Nothing, to |-> Nothing]
Row == {"active", "inactive"}
Lists == UNION {[S -> Row]: S \in SUBSET Wares}
NoList == [rows |-> [l \in {} |-> "active"], by |-> "opening"]
NoJob == [op |-> "none"]
NotSending == [at |-> "none"]

DeskTypeOK ==
  /\ ware \in [Wares -> Row \cup {"unissued", "erased"}]
  /\ local \in BOOLEAN
  /\ to \in [Channels -> Addresses \cup {Nothing}]
  /\ desk \in [url: Wares \cup {Nothing}, error: BOOLEAN,
               told: [Channels -> [ware: Wares \cup {Nothing}, to: Addresses \cup {Nothing}]]]
  /\ job.op \in {"none", "issue", "revoke", "erase", "clear", "list"}
  /\ list \in [rows: Lists, by: {"opening", "action"}]
  /\ sent \subseteq [ware: Wares, to: Addresses, dead: BOOLEAN]

NewDesk == [url |-> Nothing, error |-> FALSE, told |-> [c \in Channels |-> Untold]]

DeskInit ==
  /\ ware = [l \in Wares |-> "unissued"]
  /\ local \in BOOLEAN
  /\ to = [c \in Channels |-> Nothing]
  /\ desk = NewDesk /\ job = NoJob /\ list = NoList
  /\ mount = [at |-> "asked"] /\ sending = [c \in Channels |-> NotSending] /\ sent = {}

-----------------------------------------------------------------------------
(* list and listInactive of PaxInviteStore.                                    *)
Rows == {l \in Wares: ware[l] \in Row}
Listed == [l \in Rows |-> ware[l]]
Inactive == {l \in Wares: ware[l] = "inactive"}

(* sendTwilioSms, createSmtpTransport: the provider takes the message and says *)
(* so, or takes it without our hearing in ten seconds, or refuses. So does the *)
(* server: for a channel that is not configured, a bad address, or a link that *)
(* assertInviteSmsUrl finds on another origin than this page's or on a local   *)
(* one.                                                                        *)
Provider(message, ok) ==
  \/ ok /\ ~local /\ sent' = sent \cup {message}
  \/ ~ok /\ \/ sent' = sent
            \/ ~local /\ sent' = sent \cup {message}

-----------------------------------------------------------------------------
(* The operator types; issuing leaves the addresses where they are.            *)
FillAddress(c, a) ==
  /\ to[c] # a /\ to' = [to EXCEPT ![c] = a]
  /\ UNCHANGED <<server, local, desk, job, list, mount, sending>>

(* run(): one action at a time, the error of the last one wiped; issue() wipes *)
(* what was told of the last link too.                                         *)
PressIssue ==
  /\ job = NoJob
  /\ job' = [op |-> "issue", at |-> "asked", to |-> to]
  /\ desk' = [desk EXCEPT !.error = FALSE, !.told = NewDesk.told]
  /\ UNCHANGED <<server, local, to, list, mount, sending>>

PressRevoke(l) ==
  /\ job = NoJob /\ l \in DOMAIN list.rows /\ list.rows[l] = "active"
  /\ job' = [op |-> "revoke", ware |-> l]
  /\ desk' = [desk EXCEPT !.error = FALSE]
  /\ UNCHANGED <<server, local, to, list, mount, sending>>

PressErase(l) ==
  /\ job = NoJob /\ l \in DOMAIN list.rows
  /\ job' = [op |-> "erase", ware |-> l]
  /\ desk' = [desk EXCEPT !.error = FALSE]
  /\ UNCHANGED <<server, local, to, list, mount, sending>>

PressClear ==
  /\ job = NoJob /\ \E l \in DOMAIN list.rows: list.rows[l] = "inactive"
  /\ job' = [op |-> "clear"]
  /\ desk' = [desk EXCEPT !.error = FALSE]
  /\ UNCHANGED <<server, local, to, list, mount, sending>>

(* textIssuedLink, emailIssuedLink: busy on their own, beside run().           *)
PressSend(c) ==
  /\ desk.url # Nothing /\ sending[c] = NotSending /\ to[c] # Nothing
  /\ sending' = [sending EXCEPT ![c] =
       [at |-> "asked", url |-> desk.url, to |-> to[c], dead |-> ware[desk.url] # "active"]]
  /\ UNCHANGED <<server, local, to, desk, job, list, mount>>

-----------------------------------------------------------------------------
FirstChannel == IF "sms" \in Channels THEN "sms" ELSE "mail"
AfterChannel(c) == IF c = "sms" /\ "mail" \in Channels THEN "mail" ELSE "answer"

(* POST /invites: the row, then the text message, then the mail, then the      *)
(* answer with the secret and the outcome of both.                             *)
CreateLink ==
  /\ job.op = "issue" /\ job.at = "asked"
  /\ \E l \in Wares:
       /\ ware[l] = "unissued" /\ ware' = [ware EXCEPT ![l] = "active"]
       /\ job' = [op |-> "issue", at |-> FirstChannel, to |-> job.to,
                  url |-> l, told |-> NewDesk.told]
  /\ UNCHANGED <<local, to, desk, list, mount, sending, sent>>

DeliverOnIssue(c) ==
  /\ job.op = "issue" /\ job.at = c
  /\ LET message == [ware |-> job.url, to |-> job.to[c], dead |-> FALSE]
     IN IF job.to[c] = Nothing
        THEN sent' = sent /\ job' = [job EXCEPT !.at = AfterChannel(c)]
        ELSE \E ok \in BOOLEAN:
               /\ Provider(message, ok)
               /\ job' = IF ok
                         THEN [job EXCEPT !.at = AfterChannel(c),
                                          !.told[c] = [ware |-> job.url, to |-> job.to[c]]]
                         ELSE [job EXCEPT !.at = AfterChannel(c)]
  /\ UNCHANGED <<ware, local, to, desk, list, mount, sending>>

IssueAnswered ==
  /\ job.op = "issue" /\ job.at = "answer"
  /\ desk' = [desk EXCEPT !.url = job.url, !.told = job.told]
  /\ job' = [op |-> "list"]
  /\ UNCHANGED <<server, local, to, list, mount, sending>>

(* DELETE /invites/:id, POST /invites/:id/erase, POST /invites/erase-inactive: *)
(* a link that is gone answers 404.                                            *)
AfterChange ==
  CASE job.op = "revoke" -> [ware EXCEPT ![job.ware] = "inactive"]
    [] job.op = "erase" -> [ware EXCEPT ![job.ware] = "erased"]
    [] OTHER -> [l \in Wares |-> IF l \in Inactive THEN "erased" ELSE ware[l]]

Changing == job.op = "clear" \/ (job.op \in {"revoke", "erase"} /\ ware[job.ware] \in Row)

ChangeAnswered ==
  /\ Changing
  /\ ware' = AfterChange /\ job' = [op |-> "list"]
  /\ UNCHANGED <<local, to, desk, list, mount, sending, sent>>

(* The action is refused, or the server stops amid it, or its answer is lost.  *)
ActionFails ==
  /\ job.op \in {"issue", "revoke", "erase", "clear"}
  /\ job' = NoJob /\ desk' = [desk EXCEPT !.error = TRUE]
  /\ ware' = ware \/ (Changing /\ ware' = AfterChange)
  /\ UNCHANGED <<local, to, list, mount, sending, sent>>

-----------------------------------------------------------------------------
(* GET /invites, for the refresh after an action and for the opening page,     *)
(* which may come late; a refresh that fails only says so.                     *)
ListAnswered ==
  /\ job.op = "list"
  /\ list' = [rows |-> Listed, by |-> "action"] /\ job' = NoJob
  /\ UNCHANGED <<server, local, to, desk, mount, sending>>

ListFails ==
  /\ job.op = "list"
  /\ job' = NoJob /\ desk' = [desk EXCEPT !.error = TRUE]
  /\ UNCHANGED <<server, local, to, list, mount, sending>>

ServeMount ==
  /\ mount.at = "asked" /\ mount' = [at |-> "answer", rows |-> Listed]
  /\ UNCHANGED <<server, local, to, desk, job, list, sending>>

MountAnswered ==
  /\ mount.at = "answer" /\ list' = [rows |-> mount.rows, by |-> "opening"] /\ mount' = [at |-> "done"]
  /\ UNCHANGED <<server, local, to, desk, job, sending>>

MountFails ==
  /\ mount.at # "done" /\ mount' = [at |-> "done"]
  /\ desk' = [desk EXCEPT !.error = TRUE]
  /\ UNCHANGED <<server, local, to, job, list, sending>>

-----------------------------------------------------------------------------
(* Seeded fault: a link that was revoked or erased is sent.                    *)
ServeSendAny(c) ==
  /\ sending[c].at = "asked"
  /\ sending' = [sending EXCEPT ![c].at = "provider"]
  /\ UNCHANGED <<server, local, to, desk, job, list, mount>>

(* POST /invites/:id/sms and /email: the link must be there and in force; only *)
(* then is the provider asked.                                                 *)
ServeSend(c) ==
  /\ sending[c].at = "asked" /\ ware[sending[c].url] = "active"
  /\ sending' = [sending EXCEPT ![c].at = "provider"]
  /\ UNCHANGED <<server, local, to, desk, job, list, mount>>

ProviderAnswers(c) ==
  /\ sending[c].at = "provider"
  /\ \E ok \in BOOLEAN:
       /\ Provider([ware |-> sending[c].url, to |-> sending[c].to, dead |-> sending[c].dead], ok)
       /\ sending' = [sending EXCEPT ![c].at = IF ok THEN "told" ELSE "failed"]
  /\ UNCHANGED <<ware, local, to, desk, job, list, mount>>

SendAnswered(c) ==
  /\ sending[c].at = "told"
  /\ desk' = [desk EXCEPT !.told[c] = [ware |-> sending[c].url, to |-> sending[c].to]]
  /\ sending' = [sending EXCEPT ![c] = NotSending]
  /\ UNCHANGED <<server, local, to, job, list, mount>>

(* Refused, or the answer, whatever it was, is lost.                           *)
SendFails(c) ==
  /\ sending[c] # NotSending
  /\ sending' = [sending EXCEPT ![c] = NotSending]
  /\ UNCHANGED <<server, local, to, desk, job, list, mount>>

-----------------------------------------------------------------------------
(* Another operator, or time.                                                  *)
EndsElsewhere(l) ==
  /\ ware[l] = "active" /\ ware' = [ware EXCEPT ![l] = "inactive"]
  /\ UNCHANGED <<local, to, desk, job, list, mount, sending, sent>>

ErasedElsewhere(l) ==
  /\ ware[l] \in Row /\ ware' = [ware EXCEPT ![l] = "erased"]
  /\ UNCHANGED <<local, to, desk, job, list, mount, sending, sent>>

(* Another tab of the console and back: the panel starts over, without the     *)
(* secret. (Only between its requests; the answers of others would be dropped.)*)
ComeBackToPanel ==
  /\ job = NoJob /\ mount.at = "done" /\ \A c \in Channels: sending[c] = NotSending
  /\ desk # NewDesk
  /\ desk' = NewDesk /\ list' = NoList /\ mount' = [at |-> "asked"]
  /\ to' = [c \in Channels |-> Nothing]
  /\ UNCHANGED <<server, local, job, sending>>

DeskNext ==
  \/ PressIssue \/ PressClear
  \/ CreateLink \/ IssueAnswered \/ ChangeAnswered \/ ActionFails
  \/ ListAnswered \/ ListFails \/ ServeMount \/ MountAnswered \/ MountFails
  \/ ComeBackToPanel
  \/ \E l \in Wares: PressRevoke(l) \/ PressErase(l) \/ EndsElsewhere(l) \/ ErasedElsewhere(l)
  \/ \E c \in Channels: \/ DeliverOnIssue(c) \/ PressSend(c) \/ ServeSend(c)
                    \/ ProviderAnswers(c) \/ SendAnswered(c) \/ SendFails(c)
                    \/ \E a \in Addresses: FillAddress(c, a)

DeskSpec == DeskInit /\ [][DeskNext]_deskVars

-----------------------------------------------------------------------------
(* What the panel says was sent was: that link, to that address. What it does  *)
(* not say may have been sent all the same (an answer that came too late).     *)
ToldWasSent ==
  \A c \in Channels: desk.told[c] # Untold =>
    \E m \in sent: m.ware = desk.told[c].ware /\ m.to = desk.told[c].to

(* A link that was no longer in force when the operator pressed the button is  *)
(* never sent.                                                                 *)
DeadLinksStay == \A m \in sent: ~m.dead

(* The panel shows the secret of a link that exists or existed, and nothing is *)
(* sent from a page whose links only this machine can open.                    *)
ShowsItsLink ==
  /\ desk.url # Nothing => ware[desk.url] # "unissued"
  /\ local => sent = {}

(* Whatever was issued and answered is listed, or an error is shown, or the    *)
(* panel is still at it; unless the list is that of the opening page, which    *)
(* may have been read before the issue and arrive after it.                    *)
IssuedIsListed ==
  (/\ desk.url # Nothing /\ job = NoJob /\ ~desk.error
   /\ ware[desk.url] \in Row /\ list.by = "action")
     => desk.url \in DOMAIN list.rows

DeskInv == DeskTypeOK /\ ToldWasSent /\ DeadLinksStay /\ ShowsItsLink /\ IssuedIsListed

(* "Sent" stands under the link it is about. (Not so: the answer to a message  *)
(* for the last link, arriving once the next one is issued.)                   *)
ToldOfShown == \A c \in Channels: desk.told[c].ware \in {Nothing, desk.url}

(* A link is issued with the addresses of its own passenger. (Not so: those of *)
(* the last one stay in the form, and the next issue sends to them.)           *)
AddressesAreRetyped ==
  [][job = NoJob /\ job'.op = "issue" /\ desk.url # Nothing => to = [c \in Channels |-> Nothing]]_deskVars
=============================================================================
