----------------------------- MODULE PaxInvite -----------------------------
(***************************************************************************)
(* Invite links of one passenger: passengers/PaxInviteStore.ts, the routes *)
(* of routes/paxInvites.ts that issue, redeem, revoke, erase and reset a   *)
(* link, and DELETE /passengers/:id of routes/passengers.ts.               *)
(*                                                                         *)
(* Every route is a sequence of database statements with an await between  *)
(* each two of them, so requests interleave statement by statement; an     *)
(* action is one statement and the code up to the next.  Any request may   *)
(* stop between two statements (an error, or the process dies).            *)
(***************************************************************************)
EXTENDS Naturals

CONSTANTS
  Links,            \* invite ids; an id is issued at most once
  Devices,          \* device ids
  NoDevice,         \* device_hash IS NULL
  Redeems,          \* POST /invites/redeem requests; a finished one is used again
  Clerks,           \* back-office requests, likewise
  MaxReset          \* bound of the model: device resets of one link

ASSUME InviteAssumption == NoDevice \notin Devices /\ MaxReset \in Nat

VARIABLES
  link,             \* the link's row: is_active, revoked_at, expires_at
  bound,            \* its device_hash
  epoch,            \* history: how often its device was reset
  paxRow,              \* the passenger's row exists
  redeem,           \* where each redeem request is
  clerk,            \* where each back-office request is
  granted,          \* history: sessions ever minted
  valid,            \* sessions that no cutover has invalidated
  closed,           \* history: links whose revocation was answered
  deleted           \* history: a deletion was answered, nothing issued since

inviteVars == <<link, bound, epoch, paxRow, redeem, clerk, granted, valid, closed, deleted>>
linkVars == <<link, bound, epoch>>
history == <<granted, valid, closed, deleted>>

Exists(l) == link[l] \in {"active", "expired", "revoked"}
Usable(l) == link[l] = "active"

(* A redeem request past the device check                                  *)
PastBinding == {"count", "lookup", "create", "select", "mint"}

Epoch == 0..MaxReset
Grant == [link : Links, device : Devices, epoch : Epoch]

(* A straggler is a session minted for a link that was revoked or removed  *)
(* while its redeem request was under way; `after` marks a request that    *)
(* began when the revocation had been answered already.                    *)
Session == [link : Links, straggler : BOOLEAN]
Idle == [at |-> "idle"]
Redeem == [at : {"read", "claim", "reread"} \cup PastBinding,
           link : Links, device : Devices, epoch : Epoch, after : BOOLEAN]
Clerk == [at : {"issue", "cut", "remove", "tally", "drop", "links", "last"},
          link : Links]

InviteTypeOK ==
  /\ link \in [Links -> {"unissued", "active", "expired", "revoked", "gone"}]
  /\ bound \in [Links -> Devices \cup {NoDevice}]
  /\ epoch \in [Links -> Epoch]
  /\ paxRow \in BOOLEAN
  /\ redeem \in [Redeems -> {Idle} \cup Redeem]
  /\ clerk \in [Clerks -> {Idle} \cup Clerk]
  /\ granted \subseteq Grant
  /\ valid \subseteq Session
  /\ closed \subseteq Links
  /\ deleted \in BOOLEAN

InviteInit ==
  /\ link = [l \in Links |-> "unissued"]
  /\ bound = [l \in Links |-> NoDevice]
  /\ epoch = [l \in Links |-> 0]
  /\ paxRow \in BOOLEAN
  /\ redeem = [r \in Redeems |-> Idle]
  /\ clerk = [c \in Clerks |-> Idle]
  /\ granted = {} /\ valid = {} /\ closed = {} /\ deleted = FALSE

-----------------------------------------------------------------------------
(* POST /invites/redeem                                                    *)

Goes(r, from, to) ==
  redeem[r].at = from /\ redeem' = [redeem EXCEPT ![r].at = to]

(* The request is answered                                                 *)
Ends(r, from) ==
  redeem[r].at = from /\ redeem' = [redeem EXCEPT ![r] = Idle]

(* The request is past the device check, under the binding as it is now    *)
Pass(r, from) ==
  /\ redeem[r].at = from
  /\ redeem' = [redeem EXCEPT ![r].at = "count", ![r].epoch = epoch[redeem[r].link]]

Submit(r, l, d) ==
  /\ redeem[r].at = "idle"
  /\ link[l] # "unissued"
  /\ redeem' = [redeem EXCEPT ![r] =
                  [at |-> "read", link |-> l, device |-> d, epoch |-> 0,
                   after |-> l \in closed]]
  /\ UNCHANGED <<linkVars, paxRow, clerk, history>>

(* Seeded fault: is_active and revoked_at are not looked at                *)
ReadTakesRevoked(r) ==
  LET l == redeem[r].link IN
  /\ redeem[r].at = "read"
  /\ \/ Exists(l) /\ bound[l] = NoDevice /\ Goes(r, "read", "claim")
     \/ Exists(l) /\ bound[l] = redeem[r].device /\ Pass(r, "read")
     \/ (Exists(l) => bound[l] \notin {NoDevice, redeem[r].device}) /\ Ends(r, "read")
  /\ UNCHANGED <<linkVars, paxRow, clerk, history>>

(* SELECT the link: refused unless it is active, not expired and free or   *)
(* bound to this device                                                    *)
Read(r) ==
  LET l == redeem[r].link IN
  /\ redeem[r].at = "read"
  /\ \/ Usable(l) /\ bound[l] = NoDevice /\ Goes(r, "read", "claim")
     \/ Usable(l) /\ bound[l] = redeem[r].device /\ Pass(r, "read")
     \/ (Usable(l) => bound[l] \notin {NoDevice, redeem[r].device}) /\ Ends(r, "read")
  /\ UNCHANGED <<linkVars, paxRow, clerk, history>>

(* UPDATE ... WHERE device_hash IS NULL: the binding, whatever has become  *)
(* of is_active since                                                      *)
Claim(r) ==
  LET l == redeem[r].link IN
  /\ redeem[r].at = "claim"
  /\ \/ /\ Exists(l) /\ bound[l] = NoDevice
        /\ Pass(r, "claim")
        /\ bound' = [bound EXCEPT ![l] = redeem[r].device]
     \/ /\ Exists(l) => bound[l] # NoDevice
        /\ Goes(r, "claim", "reread")
        /\ UNCHANGED bound
  /\ UNCHANGED <<link, epoch, paxRow, clerk, history>>

(* Seeded fault: a binding that is gone again counts as a match            *)
RereadTakesUnbound(r) ==
  LET l == redeem[r].link IN
  /\ redeem[r].at = "reread"
  /\ \/ Exists(l) /\ bound[l] \in {NoDevice, redeem[r].device} /\ Pass(r, "reread")
     \/ ~(Exists(l) /\ bound[l] = redeem[r].device) /\ Ends(r, "reread")
  /\ UNCHANGED <<linkVars, paxRow, clerk, history>>

(* The claim was lost: who holds the link?                                 *)
Reread(r) ==
  LET l == redeem[r].link IN
  /\ redeem[r].at = "reread"
  /\ \/ Exists(l) /\ bound[l] = redeem[r].device /\ Pass(r, "reread")
     \/ ~(Exists(l) /\ bound[l] = redeem[r].device) /\ Ends(r, "reread")
  /\ UNCHANGED <<linkVars, paxRow, clerk, history>>

(* The counters are updated and the row is read back; they are not looked  *)
(* at, only whether the row is still there                                 *)
Count(r) ==
  /\ redeem[r].at = "count"
  /\ \/ Exists(redeem[r].link) /\ Goes(r, "count", "lookup")
     \/ ~Exists(redeem[r].link) /\ Ends(r, "count")
  /\ UNCHANGED <<linkVars, paxRow, clerk, history>>

(* The live flight lookup succeeds, and its snapshot is stored             *)
Lookup(r) ==
  /\ Goes(r, "lookup", "create")
  /\ UNCHANGED <<linkVars, paxRow, clerk, history>>

(* getOrCreate: INSERT ... ON CONFLICT DO NOTHING                          *)
CreateRow(r) ==
  /\ Goes(r, "create", "select")
  /\ paxRow' = TRUE
  /\ UNCHANGED <<linkVars, clerk, history>>

(* getOrCreate: the SELECT finds it; applyTrip only updates it if present  *)
ReadPassenger(r) ==
  /\ paxRow
  /\ Goes(r, "select", "mint")
  /\ UNCHANGED <<linkVars, paxRow, clerk, history>>

(* createSessionResponse signs the token                                   *)
Mint(r) ==
  LET q == redeem[r] IN
  /\ Ends(r, "mint")
  /\ granted' = granted \cup {[link |-> q.link, device |-> q.device, epoch |-> q.epoch]}
  /\ valid' = valid \cup {[link |-> q.link,
       straggler |-> link[q.link] \in {"revoked", "gone"} /\ ~q.after]}
  /\ UNCHANGED <<linkVars, paxRow, clerk, closed, deleted>>

(* flight_resolve_failed, a statement that throws, a row that vanished     *)
(* before ReadPassenger, or the end of the process                             *)
RedeemStops(r) ==
  /\ redeem[r].at \notin {"idle", "read"} /\ Ends(r, redeem[r].at)
  /\ UNCHANGED <<linkVars, paxRow, clerk, history>>

-----------------------------------------------------------------------------
(* The back office                                                         *)

ClerkGoes(c, from, to) ==
  clerk[c].at = from /\ clerk' = [clerk EXCEPT ![c].at = to]

ClerkEnds(c, from) ==
  clerk[c].at = from /\ clerk' = [clerk EXCEPT ![c] = Idle]

Begin(c, l, to) ==
  clerk[c].at = "idle" /\ clerk' = [clerk EXCEPT ![c] = [at |-> to, link |-> l]]

(* revokePaxSessionsForPassenger: every token issued up to now is invalid. *)
(* The cutover is taken to outlive the process, as it does with Redis.     *)
Cutover == valid' = {}

(* POST /invites: the passenger's row is created first, then the link      *)
IssueRow(c, l) ==
  /\ link[l] = "unissued"
  /\ \A k \in Clerks : clerk[k].at = "issue" => clerk[k].link # l
  /\ Begin(c, l, "issue")
  /\ paxRow' = TRUE /\ deleted' = FALSE
  /\ UNCHANGED <<linkVars, redeem, granted, valid, closed>>

IssueLink(c) ==
  /\ ClerkEnds(c, "issue")
  /\ link' = [link EXCEPT ![clerk[c].link] = "active"]
  /\ deleted' = FALSE
  /\ UNCHANGED <<bound, epoch, paxRow, redeem, granted, valid, closed>>

(* DELETE /invites/:id: the link is revoked, then the sessions are         *)
RevokeLink(c, l) ==
  /\ Exists(l)
  /\ Begin(c, l, "cut")
  /\ link' = [link EXCEPT ![l] = "revoked"]
  /\ UNCHANGED <<bound, epoch, paxRow, redeem, history>>

RevokeCut(c) ==
  /\ ClerkEnds(c, "cut")
  /\ Cutover
  /\ closed' = closed \cup {clerk[c].link}
  /\ UNCHANGED <<linkVars, paxRow, redeem, granted, deleted>>

(* POST /invites/:id/erase, and each turn of erase-inactive                *)
EraseCut(c, l) ==
  /\ Exists(l)
  /\ Begin(c, l, "remove")
  /\ Cutover
  /\ UNCHANGED <<linkVars, paxRow, redeem, granted, closed, deleted>>

EraseRemove(c) ==
  LET l == clerk[c].link IN
  /\ ClerkGoes(c, "remove", "tally")
  /\ link' = [link EXCEPT ![l] = "gone"]
  /\ UNCHANGED <<bound, epoch, paxRow, redeem, history>>

EraseTally(c) ==
  /\ \/ (\E l \in Links : Exists(l)) /\ ClerkEnds(c, "tally")
     \/ (\A l \in Links : ~Exists(l)) /\ ClerkGoes(c, "tally", "drop")
  /\ UNCHANGED <<linkVars, paxRow, redeem, history>>

EraseDrop(c) ==
  /\ ClerkEnds(c, "drop")
  /\ paxRow' = FALSE
  /\ UNCHANGED <<linkVars, redeem, history>>

(* POST /invites/:id/reset-device                                          *)
ResetDevice(l) ==
  /\ Exists(l) /\ epoch[l] < MaxReset
  /\ bound' = [bound EXCEPT ![l] = NoDevice]
  /\ epoch' = [epoch EXCEPT ![l] = @ + 1]
  /\ UNCHANGED <<link, paxRow, redeem, clerk, history>>

(* DELETE /passengers/:id: the row, then the links, then the sessions      *)
DropPassenger(c) ==
  /\ paxRow /\ paxRow' = FALSE
  /\ \E l \in Links : Begin(c, l, "links")
  /\ UNCHANGED <<linkVars, redeem, history>>

DeleteLinks(c) ==
  /\ ClerkGoes(c, "links", "last")
  /\ link' = [l \in Links |-> IF Exists(l) THEN "gone" ELSE link[l]]
  /\ UNCHANGED <<bound, epoch, paxRow, redeem, history>>

DeleteCut(c) ==
  /\ ClerkEnds(c, "last")
  /\ Cutover /\ deleted' = TRUE
  /\ UNCHANGED <<linkVars, paxRow, redeem, granted, closed>>

(* A statement throws, or the process ends: what was done stays done       *)
ClerkStops(c) ==
  /\ clerk[c].at # "idle" /\ ClerkEnds(c, clerk[c].at)
  /\ UNCHANGED <<linkVars, paxRow, redeem, history>>

(* expires_at passes                                                       *)
Expire(l) ==
  /\ Usable(l)
  /\ link' = [link EXCEPT ![l] = "expired"]
  /\ UNCHANGED <<bound, epoch, paxRow, redeem, clerk, history>>

-----------------------------------------------------------------------------
RedeemStep(r) ==
  \/ \E l \in Links, d \in Devices : Submit(r, l, d)
  \/ Read(r) \/ Claim(r) \/ Reread(r) \/ Count(r) \/ Lookup(r)
  \/ CreateRow(r) \/ ReadPassenger(r) \/ Mint(r) \/ RedeemStops(r)

ClerkStep(c) ==
  \/ \E l \in Links : IssueRow(c, l) \/ RevokeLink(c, l) \/ EraseCut(c, l)
  \/ IssueLink(c) \/ RevokeCut(c)
  \/ EraseRemove(c) \/ EraseTally(c) \/ EraseDrop(c)
  \/ DropPassenger(c) \/ DeleteLinks(c) \/ DeleteCut(c) \/ ClerkStops(c)

InviteNext ==
  \/ \E r \in Redeems : RedeemStep(r)
  \/ \E c \in Clerks : ClerkStep(c)
  \/ \E l \in Links : ResetDevice(l) \/ Expire(l)

InviteSpec == InviteInit /\ [][InviteNext]_inviteVars

-----------------------------------------------------------------------------
(* Two devices never both get in on one binding of a link, however their   *)
(* requests interleave with each other and with resets: PaxInviteStore.ts, *)
(* "two devices opening the same fresh link at once cannot both succeed".  *)
OneDevicePerBinding ==
  \A g, h \in granted : g.link = h.link /\ g.epoch = h.epoch => g.device = h.device

(* Grants made, and those a request past the device check still may make   *)
Authorised ==
  granted \cup {[link |-> redeem[r].link, device |-> redeem[r].device,
                 epoch |-> redeem[r].epoch] : r \in {q \in Redeems : redeem[q].at \in PastBinding}}

(* Whoever got past the device check under the current binding is the      *)
(* device the row names, and under an earlier binding the only one of it.  *)
BindingHolds ==
  /\ \A g \in Authorised :
       g.epoch <= epoch[g.link] /\ (g.epoch = epoch[g.link] => bound[g.link] = g.device)
  /\ \A g, h \in Authorised : g.link = h.link /\ g.epoch = h.epoch => g.device = h.device

(* The inductive invariant of the device binding.                          *)
InviteInv == InviteTypeOK /\ BindingHolds

(* Once a revocation is answered, the sessions of that link that still     *)
(* work are those of redeem requests under way at the time: all earlier    *)
(* ones were cut, and no later request gets through.                       *)
RevokeIsFinal ==
  \A s \in valid : s.link \in closed => s.straggler

(* Why: a link whose revocation is answered, or only has its sessions left *)
(* to cut, never opens again, so a request that began later ends at Read.  *)
LateRequestsFail ==
  \A r \in Redeems : redeem[r].at # "idle" /\ redeem[r].after =>
    redeem[r].at = "read" /\ redeem[r].link \in closed

LinksAsClerksLeftThem ==
  /\ \A l \in closed : link[l] \in {"revoked", "gone"}
  /\ \A c \in Clerks :
       /\ clerk[c].at = "cut" => link[clerk[c].link] \in {"revoked", "gone"}
       /\ clerk[c].at = "remove" => link[clerk[c].link] # "unissued"
       /\ clerk[c].at = "issue" => link[clerk[c].link] = "unissued"
  /\ \A b, c \in Clerks :
       clerk[b].at = "issue" /\ clerk[c].at = "issue" /\ clerk[b].link = clerk[c].link => b = c

RevokeInv == InviteTypeOK /\ RevokeIsFinal /\ LateRequestsFail /\ LinksAsClerksLeftThem

(* "a surviving active link would let the passenger walk back in and       *)
(* silently undo the deletion": after DELETE /passengers/:id is answered   *)
(* the row stays away until somebody issues a link again.                  *)
DeletionSticks == deleted => ~paxRow

=============================================================================
