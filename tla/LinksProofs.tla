---------------------------- MODULE LinksProofs -----------------------------
(* What a passenger signs in with, for any number of links, devices, flights,  *)
(* requests and accounts: one device per binding of a link and what an         *)
(* answered DELETE /invites/:id guarantees (PaxInvite), the trip in the        *)
(* registry, the pages of the browser, and where they propose to walk.         *)
EXTENDS PaxInvite, Itinerary, PaxPages, NavHints, FiniteSetTheorems, TLAPS

LEMMA InitBinding == InviteInit => InviteInv
<1> SUFFICES ASSUME InviteInit PROVE InviteInv
  OBVIOUS
<1>1. InviteTypeOK
  <2>1. 0 \in Epoch
    BY InviteAssumption DEF Epoch
  <2>2. paxRow \in BOOLEAN /\ deleted \in BOOLEAN
    BY DEF InviteInit
  <2>3. /\ link \in [Links -> {"unissued", "active", "expired", "revoked", "gone"}]
        /\ bound \in [Links -> Devices \cup {NoDevice}]
        /\ epoch \in [Links -> Epoch]
        /\ redeem \in [Redeems -> {Idle} \cup Redeem]
        /\ clerk \in [Clerks -> {Idle} \cup Clerk]
    BY <2>1 DEF InviteInit
  <2>4. granted \subseteq Grant /\ valid \subseteq Session /\ closed \subseteq Links
    BY DEF InviteInit
  <2> QED BY <2>2, <2>3, <2>4 DEF InviteTypeOK
<1>2. Authorised = {}
  BY DEF InviteInit, Authorised, PastBinding, Idle
<1> QED BY <1>1, <1>2 DEF InviteInv, BindingHolds

(* A step that authorises nobody new and leaves the binding alone.         *)
LEMMA SameBinding ==
  ASSUME InviteInv, Authorised' \subseteq Authorised, UNCHANGED <<bound, epoch>>
  PROVE  BindingHolds'
BY DEF InviteInv, BindingHolds

(* The type of the redeem requests as they move on, and whom they stand for*)
LEMMA GoesType ==
  ASSUME InviteInv, NEW r \in Redeems, NEW from, NEW to, Goes(r, from, to), from # "idle",
         to \in {"read", "claim", "reread"} \cup PastBinding
  PROVE  redeem' \in [Redeems -> {Idle} \cup Redeem]
BY DEF Goes, InviteInv, InviteTypeOK, Redeem, Idle

LEMMA EndsType ==
  ASSUME InviteInv, NEW r \in Redeems, NEW from, Ends(r, from)
  PROVE  redeem' \in [Redeems -> {Idle} \cup Redeem]
BY DEF Ends, InviteInv, InviteTypeOK

(* A request that does not get past the device check adds no authorisation *)
LEMMA GoesAuthorised ==
  ASSUME InviteInv, NEW r \in Redeems, NEW from, NEW to, Goes(r, from, to),
         to \in PastBinding => from \in PastBinding, UNCHANGED granted
  PROVE  Authorised' \subseteq Authorised
BY DEF Goes, Authorised, InviteInv, InviteTypeOK

LEMMA EndsAuthorised ==
  ASSUME InviteInv, NEW r \in Redeems, NEW from, Ends(r, from), UNCHANGED granted
  PROVE  Authorised' \subseteq Authorised
BY DEF Ends, Authorised, InviteInv, InviteTypeOK, Idle, PastBinding

(* A request gets past the device check: it is the one the row names.      *)
LEMMA PassBinding ==
  ASSUME InviteInv, NEW r \in Redeems, NEW from, Pass(r, from), from # "idle",
         UNCHANGED <<granted, link, epoch>>,
         LET l == redeem[r].link IN
           /\ bound' = [bound EXCEPT ![l] = redeem[r].device]
           /\ bound[l] \in {NoDevice, redeem[r].device}
  PROVE  redeem' \in [Redeems -> {Idle} \cup Redeem] /\ BindingHolds'
<1> DEFINE l == redeem[r].link
           d == redeem[r].device
           mine == [link |-> l, device |-> d, epoch |-> epoch[l]]
<1>1. redeem[r] \in Redeem /\ l \in Links /\ d \in Devices /\ epoch[l] \in Epoch
  BY DEF Pass, InviteInv, InviteTypeOK, Idle, Redeem
<1>2. redeem' \in [Redeems -> {Idle} \cup Redeem]
  BY <1>1 DEF Pass, InviteInv, InviteTypeOK, Redeem, PastBinding
<1>3. Authorised' \subseteq Authorised \cup {mine}
  BY <1>1 DEF Pass, Authorised, InviteInv, InviteTypeOK, Redeem
<1>4. \A g \in Authorised : g.epoch <= epoch[g.link] /\ (g.epoch = epoch[g.link] => bound[g.link] = g.device)
  BY DEF InviteInv, BindingHolds
<1>5. Authorised \subseteq Grant
  BY DEF Authorised, InviteInv, InviteTypeOK, Grant, Redeem, Idle, PastBinding
<1>6. \A g \in Authorised : g.link = l /\ g.epoch = epoch[l] => g.device = d
  BY <1>1, <1>4, <1>5, InviteAssumption DEF Grant
<1>7. \A g \in Authorised' :
        g.epoch <= epoch[g.link] /\ (g.epoch = epoch[g.link] => bound'[g.link] = g.device)
  <2> SUFFICES ASSUME NEW g \in Authorised'
               PROVE  g.epoch <= epoch[g.link] /\ (g.epoch = epoch[g.link] => bound'[g.link] = g.device)
    OBVIOUS
  <2>1. CASE g = mine
    BY <1>1, <2>1 DEF InviteInv, InviteTypeOK, Epoch
  <2>2. CASE g \in Authorised
    BY <1>1, <1>4, <1>5, <1>6, <2>2 DEF InviteInv, InviteTypeOK, Grant
  <2> QED BY <1>3, <2>1, <2>2
<1>8. \A g, h \in Authorised' : g.link = h.link /\ g.epoch = h.epoch => g.device = h.device
  BY <1>3, <1>6 DEF InviteInv, BindingHolds
<1> QED BY <1>2, <1>7, <1>8 DEF BindingHolds

(* What the back office does leaves the requests, and those authorised.    *)
LEMMA ClerkAuthorised ==
  ASSUME UNCHANGED <<redeem, granted>>
  PROVE  Authorised' = Authorised
BY DEF Authorised

-----------------------------------------------------------------------------
(* The redeem requests                                                     *)

(* What a request leaves alone when all it does is go on or end.           *)
quiet == <<linkVars, clerk, history>>

(* A request goes on, or ends, without passing the device check.           *)
LEMMA MovePreserves ==
  ASSUME InviteInv, NEW r \in Redeems, NEW from, NEW to, from # "idle",
         to \in {"read", "claim", "reread"} \cup PastBinding,
         to \in PastBinding => from \in PastBinding,
         Goes(r, from, to) \/ Ends(r, from),
         UNCHANGED quiet, paxRow' \in BOOLEAN
  PROVE  InviteInv'
<1>1. redeem' \in [Redeems -> {Idle} \cup Redeem]
  BY GoesType, EndsType
<1>2. Authorised' \subseteq Authorised
  BY GoesAuthorised, EndsAuthorised DEF quiet, history
<1>3. BindingHolds'
  BY <1>2, SameBinding DEF quiet, linkVars
<1>4. InviteTypeOK'
  BY <1>1 DEF InviteInv, InviteTypeOK, quiet, linkVars, history
<1> QED BY <1>3, <1>4 DEF InviteInv

(* A request passes the device check.                                      *)
LEMMA PassPreserves ==
  ASSUME InviteInv, NEW r \in Redeems, NEW from, from # "idle", Pass(r, from),
         UNCHANGED <<link, epoch, paxRow, clerk, history>>,
         LET l == redeem[r].link IN
           /\ bound' = [bound EXCEPT ![l] = redeem[r].device]
           /\ bound[l] \in {NoDevice, redeem[r].device}
  PROVE  InviteInv'
<1>1. redeem' \in [Redeems -> {Idle} \cup Redeem] /\ BindingHolds'
  BY PassBinding DEF history
<1>2. bound' \in [Links -> Devices \cup {NoDevice}]
  BY DEF Pass, InviteInv, InviteTypeOK, Redeem, Idle
<1>3. InviteTypeOK'
  BY <1>1, <1>2 DEF InviteInv, InviteTypeOK, history
<1> QED BY <1>1, <1>3 DEF InviteInv

(* A step of a redeem request.                                             *)
LEMMA RedeemPreserves ==
  ASSUME InviteInv, NEW r \in Redeems, RedeemStep(r)
  PROVE  InviteInv'
<1> USE DEF PastBinding
<1>1. CASE \E l \in Links, d \in Devices : Submit(r, l, d)
  <2>1. PICK l \in Links, d \in Devices : Submit(r, l, d)
    BY <1>1
  <2> DEFINE q == [at |-> "read", link |-> l, device |-> d, epoch |-> 0, after |-> l \in closed]
  <2>2. q \in Redeem
    <3>1. 0 \in Epoch
      BY InviteAssumption DEF Epoch
    <3>2. (l \in closed) \in BOOLEAN
      OBVIOUS
    <3> QED BY <3>1, <3>2 DEF Redeem
  <2>3. redeem' = [redeem EXCEPT ![r] = q]
    BY <2>1 DEF Submit
  <2>4. redeem' \in [Redeems -> {Idle} \cup Redeem]
    BY <2>2, <2>3 DEF InviteInv, InviteTypeOK
  <2>5. UNCHANGED <<linkVars, paxRow, clerk, history>>
    BY <2>1 DEF Submit
  <2>6. Authorised' \subseteq Authorised
    BY <2>3, <2>5 DEF Authorised, InviteInv, InviteTypeOK, history
  <2>7. BindingHolds'
    BY <2>5, <2>6, SameBinding DEF linkVars
  <2>8. InviteTypeOK'
    BY <2>4, <2>5 DEF InviteInv, InviteTypeOK, linkVars, history
  <2> QED BY <2>7, <2>8 DEF InviteInv
<1>2. CASE Read(r)
  <2>1. CASE redeem[r].at = "read" /\ bound[redeem[r].link] = redeem[r].device /\ Pass(r, "read")
    <3>1. bound' = [bound EXCEPT ![redeem[r].link] = redeem[r].device]
      BY <1>2, <2>1 DEF Read, linkVars, InviteInv, InviteTypeOK
    <3> QED BY <1>2, <2>1, <3>1, PassPreserves DEF Read, linkVars
  <2>2. CASE Goes(r, "read", "claim") \/ Ends(r, "read")
    BY <1>2, <2>2, MovePreserves DEF Read, quiet, InviteInv, InviteTypeOK
  <2> QED BY <1>2, <2>1, <2>2 DEF Read
<1>3. CASE Claim(r)
  <2>1. CASE bound[redeem[r].link] = NoDevice /\ Pass(r, "claim")
             /\ bound' = [bound EXCEPT ![redeem[r].link] = redeem[r].device]
    BY <1>3, <2>1, PassPreserves DEF Claim
  <2>2. CASE Goes(r, "claim", "reread") /\ UNCHANGED bound
    BY <1>3, <2>2, MovePreserves DEF Claim, quiet, linkVars, InviteInv, InviteTypeOK
  <2> QED BY <1>3, <2>1, <2>2 DEF Claim
<1>4. CASE Reread(r)
  <2>1. CASE bound[redeem[r].link] = redeem[r].device /\ Pass(r, "reread")
    <3>1. bound' = [bound EXCEPT ![redeem[r].link] = redeem[r].device]
      BY <1>4, <2>1 DEF Reread, linkVars, InviteInv, InviteTypeOK
    <3> QED BY <1>4, <2>1, <3>1, PassPreserves DEF Reread, linkVars
  <2>2. CASE Ends(r, "reread")
    BY <1>4, <2>2, MovePreserves DEF Reread, quiet, InviteInv, InviteTypeOK
  <2> QED BY <1>4, <2>1, <2>2 DEF Reread
<1>5. CASE Count(r)
  BY <1>5, MovePreserves DEF Count, quiet, InviteInv, InviteTypeOK
<1>6. CASE Lookup(r)
  BY <1>6, MovePreserves DEF Lookup, quiet, InviteInv, InviteTypeOK
<1>7. CASE CreateRow(r)
  BY <1>7, MovePreserves DEF CreateRow, quiet
<1>8. CASE ReadPassenger(r)
  BY <1>8, MovePreserves DEF ReadPassenger, quiet, InviteInv, InviteTypeOK
<1>9. CASE Mint(r)
  <2> DEFINE g == [link |-> redeem[r].link, device |-> redeem[r].device,
                   epoch |-> redeem[r].epoch]
  <2>1. redeem[r] \in Redeem
    BY <1>9 DEF Mint, Ends, InviteInv, InviteTypeOK, Idle
  <2>2. g \in Grant /\ g \in Authorised
    BY <1>9, <2>1 DEF Mint, Ends, Redeem, Grant, Authorised
  <2>3. Authorised' \subseteq Authorised
    BY <1>9, <2>2 DEF Mint, Ends, Authorised, InviteInv, InviteTypeOK, Idle
  <2>4. redeem' \in [Redeems -> {Idle} \cup Redeem]
    BY <1>9, EndsType DEF Mint
  <2>5. valid' \subseteq Session
    <3> DEFINE late == link[redeem[r].link] \in {"revoked", "gone"} /\ ~redeem[r].after
    <3>1. late \in BOOLEAN
      OBVIOUS
    <3>2. [link |-> redeem[r].link, straggler |-> late] \in Session
      BY <2>1, <3>1 DEF Redeem, Session
    <3>3. valid' = valid \cup {[link |-> redeem[r].link, straggler |-> late]}
      BY <1>9 DEF Mint
    <3> HIDE DEF late
    <3> QED BY <3>2, <3>3 DEF InviteInv, InviteTypeOK
  <2>6. BindingHolds'
    BY <1>9, <2>3, SameBinding DEF Mint, linkVars
  <2>7. InviteTypeOK'
    BY <1>9, <2>2, <2>4, <2>5 DEF Mint, linkVars, InviteInv, InviteTypeOK
  <2> QED BY <2>6, <2>7 DEF InviteInv
<1>10. CASE RedeemStops(r)
  <2>1. PICK from : from = redeem[r].at
    OBVIOUS
  <2>2. from # "idle" /\ Ends(r, from)
    BY <1>10, <2>1 DEF RedeemStops, Ends
  <2>3. UNCHANGED quiet /\ paxRow' \in BOOLEAN
    BY <1>10 DEF RedeemStops, quiet, InviteInv, InviteTypeOK
  <2> QED BY <2>2, <2>3, MovePreserves
<1> QED BY <1>1, <1>2, <1>3, <1>4, <1>5, <1>6, <1>7, <1>8, <1>9, <1>10 DEF RedeemStep

-----------------------------------------------------------------------------
(* The back office                                                         *)

LEMMA ClerkType ==
  ASSUME InviteInv, NEW c \in Clerks, NEW from, NEW to,
         \/ ClerkGoes(c, from, to) /\ from # "idle"
            /\ to \in {"issue", "cut", "remove", "tally", "drop", "links", "last"}
         \/ ClerkEnds(c, from)
  PROVE  clerk' \in [Clerks -> {Idle} \cup Clerk]
BY DEF ClerkGoes, ClerkEnds, InviteInv, InviteTypeOK, Clerk, Idle

LEMMA BeginType ==
  ASSUME InviteInv, NEW c \in Clerks, NEW l \in Links,
         NEW to \in {"issue", "cut", "remove", "tally", "drop", "links", "last"},
         Begin(c, l, to)
  PROVE  clerk' \in [Clerks -> {Idle} \cup Clerk]
BY DEF Begin, InviteInv, InviteTypeOK, Clerk

(* A clerk that is not idle names a link.                                  *)
LEMMA ClerkLink ==
  ASSUME InviteInv, NEW c \in Clerks, clerk[c].at # "idle"
  PROVE  clerk[c].link \in Links
BY DEF InviteInv, InviteTypeOK, Clerk, Idle

(* No back-office request touches the bindings or the redeem requests.     *)
LEMMA OfficePreserves ==
  ASSUME InviteInv, UNCHANGED <<bound, epoch, redeem, granted>>,
         clerk' \in [Clerks -> {Idle} \cup Clerk],
         link' \in [Links -> {"unissued", "active", "expired", "revoked", "gone"}],
         paxRow' \in BOOLEAN, valid' \subseteq Session, closed' \subseteq Links,
         deleted' \in BOOLEAN
  PROVE  InviteInv'
<1>1. BindingHolds'
  BY ClerkAuthorised, SameBinding
<1>2. InviteTypeOK'
  BY DEF InviteInv, InviteTypeOK
<1> QED BY <1>1, <1>2 DEF InviteInv

LEMMA ClerkPreserves ==
  ASSUME InviteInv, NEW c \in Clerks, ClerkStep(c)
  PROVE  InviteInv'
<1> USE DEF linkVars, history, Cutover
<1>1. CASE \E l \in Links : IssueRow(c, l) \/ RevokeLink(c, l) \/ EraseCut(c, l)
  <2>1. PICK l \in Links : IssueRow(c, l) \/ RevokeLink(c, l) \/ EraseCut(c, l)
    BY <1>1
  <2>2. CASE IssueRow(c, l)
    BY <2>2, BeginType, OfficePreserves DEF IssueRow, InviteInv, InviteTypeOK
  <2>3. CASE RevokeLink(c, l)
    BY <2>3, BeginType, OfficePreserves DEF RevokeLink, InviteInv, InviteTypeOK
  <2>4. CASE EraseCut(c, l)
    BY <2>4, BeginType, OfficePreserves DEF EraseCut, InviteInv, InviteTypeOK
  <2> QED BY <2>1, <2>2, <2>3, <2>4
<1>2. CASE IssueLink(c)
  BY <1>2, ClerkType, OfficePreserves DEF IssueLink, InviteInv, InviteTypeOK
<1>3. CASE RevokeCut(c)
  <2>1. clerk[c].link \in Links
    BY <1>3, ClerkLink DEF RevokeCut, ClerkEnds
  <2> QED BY <1>3, <2>1, ClerkType, OfficePreserves DEF RevokeCut, InviteInv, InviteTypeOK
<1>4. CASE EraseRemove(c)
  BY <1>4, ClerkType, OfficePreserves DEF EraseRemove, InviteInv, InviteTypeOK
<1>5. CASE EraseTally(c)
  BY <1>5, ClerkType, OfficePreserves DEF EraseTally, InviteInv, InviteTypeOK
<1>6. CASE EraseDrop(c)
  BY <1>6, ClerkType, OfficePreserves DEF EraseDrop, InviteInv, InviteTypeOK
<1>7. CASE DropPassenger(c)
  <2>1. PICK l \in Links : Begin(c, l, "links")
    BY <1>7 DEF DropPassenger
  <2> QED BY <1>7, <2>1, BeginType, OfficePreserves DEF DropPassenger, InviteInv, InviteTypeOK
<1>8. CASE DeleteLinks(c)
  BY <1>8, ClerkType, OfficePreserves DEF DeleteLinks, InviteInv, InviteTypeOK
<1>9. CASE DeleteCut(c)
  BY <1>9, ClerkType, OfficePreserves DEF DeleteCut, InviteInv, InviteTypeOK
<1>10. CASE ClerkStops(c)
  <2>1. PICK from : from = clerk[c].at
    OBVIOUS
  <2>2. ClerkEnds(c, from)
    BY <1>10, <2>1 DEF ClerkStops, ClerkEnds
  <2>3. clerk' \in [Clerks -> {Idle} \cup Clerk]
    BY <2>2, ClerkType
  <2> QED BY <1>10, <2>3, OfficePreserves DEF ClerkStops, InviteInv, InviteTypeOK
<1> QED BY <1>1, <1>2, <1>3, <1>4, <1>5, <1>6, <1>7, <1>8, <1>9, <1>10 DEF ClerkStep

(* A reset starts a new binding.                                           *)
LEMMA ResetPreserves ==
  ASSUME InviteInv, NEW l \in Links, ResetDevice(l)
  PROVE  InviteInv'
<1> USE DEF history
<1>1. /\ bound' \in [Links -> Devices \cup {NoDevice}]
      /\ epoch[l] \in Nat /\ epoch' = [epoch EXCEPT ![l] = epoch[l] + 1]
      /\ epoch' \in [Links -> Epoch]
  BY InviteAssumption DEF ResetDevice, InviteInv, InviteTypeOK, Epoch
<1>2. InviteTypeOK'
  BY <1>1 DEF ResetDevice, InviteInv, InviteTypeOK
<1>3. Authorised' = Authorised
  BY ClerkAuthorised DEF ResetDevice
<1>4. Authorised \subseteq Grant
  BY DEF Authorised, InviteInv, InviteTypeOK, Grant, Redeem, Idle, PastBinding
<1>5. \A g \in Authorised :
        g.epoch <= epoch'[g.link] /\ (g.epoch = epoch'[g.link] => bound'[g.link] = g.device)
  <2> SUFFICES ASSUME NEW g \in Authorised
               PROVE  g.epoch <= epoch'[g.link] /\ (g.epoch = epoch'[g.link] => bound'[g.link] = g.device)
    OBVIOUS
  <2>1. g.link \in Links /\ g.epoch \in Nat /\ epoch[g.link] \in Nat
    BY <1>4, InviteAssumption DEF Grant, Epoch, InviteInv, InviteTypeOK
  <2>2. g.epoch <= epoch[g.link] /\ (g.epoch = epoch[g.link] => bound[g.link] = g.device)
    BY DEF InviteInv, BindingHolds
  <2>3. CASE g.link = l
    BY <1>1, <2>1, <2>2, <2>3 DEF InviteInv, InviteTypeOK
  <2>4. CASE g.link # l
    BY <1>1, <2>1, <2>2, <2>4 DEF ResetDevice, InviteInv, InviteTypeOK
  <2> QED BY <2>3, <2>4
<1>6. BindingHolds'
  BY <1>3, <1>5 DEF InviteInv, BindingHolds
<1> QED BY <1>2, <1>6 DEF InviteInv

LEMMA ExpirePreserves ==
  ASSUME InviteInv, NEW l \in Links, Expire(l)
  PROVE  InviteInv'
BY OfficePreserves DEF Expire, history, InviteInv, InviteTypeOK

LEMMA StutterPreserves == InviteInv /\ UNCHANGED inviteVars => InviteInv'
BY OfficePreserves DEF inviteVars, InviteInv, InviteTypeOK

LEMMA InviteNextPreserves == InviteInv /\ [InviteNext]_inviteVars => InviteInv'
BY RedeemPreserves, ClerkPreserves, ResetPreserves, ExpirePreserves, StutterPreserves
   DEF InviteNext

(* The device the row names is the only one that passed, or is about to be *)
(* granted a session, under the current binding; and every earlier binding *)
(* had at most one device.                                                 *)
THEOREM BindingInvariant == InviteSpec => []InviteInv
<1>1. InviteInit => InviteInv
  BY InitBinding
<1>2. InviteInv /\ [InviteNext]_inviteVars => InviteInv'
  BY InviteNextPreserves
<1> QED BY <1>1, <1>2, PTL DEF InviteSpec

(* Two devices never both get in on one binding of a link.                 *)
THEOREM OneDevice == InviteSpec => []OneDevicePerBinding
<1>1. InviteInv => OneDevicePerBinding
  BY DEF InviteInv, BindingHolds, OneDevicePerBinding, Authorised
<1> QED BY <1>1, BindingInvariant, PTL

-----------------------------------------------------------------------------
(* RevokeInv without the types.                                            *)
RevokeCore == RevokeIsFinal /\ LateRequestsFail /\ LinksAsClerksLeftThem

LEMMA InitRevoke == InviteInit => RevokeCore
BY DEF InviteInit, RevokeCore, RevokeIsFinal, LateRequestsFail, LinksAsClerksLeftThem, Idle

-----------------------------------------------------------------------------
(* The redeem requests                                                     *)

(* A request that goes on keeps its link and its `after`.                  *)
LEMMA GoesKeeps ==
  ASSUME InviteInv, LateRequestsFail, NEW r \in Redeems, NEW from, NEW to,
         from # "idle", from # "read" \/ redeem[r].link \notin closed,
         Goes(r, from, to), UNCHANGED closed
  PROVE  LateRequestsFail'
<1>1. redeem[r] \in Redeem
  BY DEF Goes, InviteInv, InviteTypeOK, Idle
<1>2. ~redeem[r].after
  BY <1>1 DEF LateRequestsFail, Goes
<1>3. redeem' = [redeem EXCEPT ![r] = [redeem[r] EXCEPT !.at = to]]
  BY DEF Goes
<1>4. redeem'[r].after = redeem[r].after /\ \A q \in Redeems \ {r} : redeem'[q] = redeem[q]
  BY <1>1, <1>3 DEF Redeem, InviteInv, InviteTypeOK
<1> QED BY <1>2, <1>4 DEF LateRequestsFail

LEMMA PassKeeps ==
  ASSUME InviteInv, LateRequestsFail, NEW r \in Redeems, NEW from,
         from # "idle", from # "read" \/ redeem[r].link \notin closed,
         Pass(r, from), UNCHANGED closed
  PROVE  LateRequestsFail'
<1>1. redeem[r] \in Redeem
  BY DEF Pass, InviteInv, InviteTypeOK, Idle
<1>2. ~redeem[r].after
  BY <1>1 DEF LateRequestsFail, Pass
<1>3. redeem' = [redeem EXCEPT ![r] = [redeem[r] EXCEPT !.at = "count",
                                                        !.epoch = epoch[redeem[r].link]]]
  BY DEF Pass
<1>4. redeem'[r].after = redeem[r].after /\ \A q \in Redeems \ {r} : redeem'[q] = redeem[q]
  BY <1>1, <1>3 DEF Redeem, InviteInv, InviteTypeOK
<1> QED BY <1>2, <1>4 DEF LateRequestsFail

LEMMA EndsKeeps ==
  ASSUME InviteInv, LateRequestsFail, NEW r \in Redeems, NEW from,
         Ends(r, from), UNCHANGED closed
  PROVE  LateRequestsFail'
<1>1. redeem'[r].at = "idle" /\ \A q \in Redeems \ {r} : redeem'[q] = redeem[q]
  BY DEF Ends, Idle, InviteInv, InviteTypeOK
<1> QED BY <1>1 DEF LateRequestsFail

LEMMA RedeemRevokes ==
  ASSUME InviteInv, RevokeCore, NEW r \in Redeems, RedeemStep(r)
  PROVE  RevokeCore'
<1> USE DEF linkVars, history
<1>1. LateRequestsFail /\ \A l \in closed : ~Usable(l)
  BY DEF RevokeCore, LinksAsClerksLeftThem, Usable
<1>2. ASSUME LateRequestsFail', UNCHANGED <<link, clerk, closed, valid>>
      PROVE  RevokeCore'
  BY <1>2 DEF RevokeCore, RevokeIsFinal, LinksAsClerksLeftThem
<1>3. CASE \E l \in Links, d \in Devices : Submit(r, l, d)
  <2>1. PICK l \in Links, d \in Devices : Submit(r, l, d)
    BY <1>3
  <2>2. /\ redeem'[r].at = "read" /\ redeem'[r].link = l
        /\ redeem'[r].after => l \in closed
        /\ \A q \in Redeems \ {r} : redeem'[q] = redeem[q]
    BY <2>1 DEF Submit, InviteInv, InviteTypeOK
  <2>3. LateRequestsFail'
    BY <1>1, <2>1, <2>2 DEF Submit, LateRequestsFail
  <2> QED BY <1>2, <2>1, <2>3 DEF Submit
<1>4. CASE Read(r)
  <2>1. CASE redeem[r].link \notin closed
    BY <1>1, <1>2, <1>4, <2>1, GoesKeeps, PassKeeps, EndsKeeps DEF Read
  <2>2. CASE redeem[r].link \in closed
    BY <1>1, <1>2, <1>4, <2>2, EndsKeeps DEF Read
  <2> QED BY <2>1, <2>2
<1>5. CASE Claim(r)
  BY <1>1, <1>2, <1>5, GoesKeeps, PassKeeps DEF Claim
<1>6. CASE Reread(r)
  BY <1>1, <1>2, <1>6, PassKeeps, EndsKeeps DEF Reread
<1>7. CASE Count(r)
  BY <1>1, <1>2, <1>7, GoesKeeps, EndsKeeps DEF Count
<1>8. CASE Lookup(r) \/ CreateRow(r) \/ ReadPassenger(r)
  BY <1>1, <1>2, <1>8, GoesKeeps DEF Lookup, CreateRow, ReadPassenger
<1>9. CASE Mint(r)
  <2>1. redeem[r] \in Redeem /\ ~redeem[r].after
    BY <1>1, <1>9 DEF Mint, Ends, InviteInv, InviteTypeOK, Idle, LateRequestsFail
  <2>2. LateRequestsFail'
    BY <1>1, <1>9, EndsKeeps DEF Mint
  <2>3. ASSUME NEW t \in valid', t.link \in closed PROVE t.straggler
    <3>1. CASE t \in valid
      BY <2>3, <3>1 DEF RevokeCore, RevokeIsFinal
    <3>2. CASE t = [link |-> redeem[r].link,
                    straggler |-> link[redeem[r].link] \in {"revoked", "gone"} /\ ~redeem[r].after]
      BY <2>1, <2>3, <3>2 DEF RevokeCore, LinksAsClerksLeftThem
    <3> QED BY <1>9, <3>1, <3>2 DEF Mint
  <2> QED BY <1>9, <2>2, <2>3 DEF Mint, RevokeCore, RevokeIsFinal, LinksAsClerksLeftThem
<1>10. CASE RedeemStops(r)
  <2>1. PICK from : from = redeem[r].at
    OBVIOUS
  <2>2. Ends(r, from)
    BY <1>10, <2>1 DEF RedeemStops, Ends
  <2> QED BY <1>1, <1>2, <1>10, <2>2, EndsKeeps DEF RedeemStops
<1> QED BY <1>3, <1>4, <1>5, <1>6, <1>7, <1>8, <1>9, <1>10 DEF RedeemStep

-----------------------------------------------------------------------------
(* The back office                                                         *)

(* Clerk c ends its request, or goes on to a step that presumes nothing.   *)
LEMMA ClerkMoves ==
  ASSUME InviteInv, LinksAsClerksLeftThem, NEW c \in Clerks, UNCHANGED closed,
         clerk' \in [Clerks -> {Idle} \cup Clerk],
         clerk'[c].at \notin {"cut", "remove", "issue"},
         \A b \in Clerks \ {c} : clerk'[b] = clerk[b],
         \A l \in Links : link'[l] = link[l] \/ (link[l] # "unissued" /\ link'[l] \in {"revoked", "gone"})
  PROVE  LinksAsClerksLeftThem'
<1>1. \A b \in Clerks : clerk[b].at # "idle" => clerk[b].link \in Links
  BY ClerkLink
<1> QED BY <1>1 DEF LinksAsClerksLeftThem, InviteInv, InviteTypeOK

LEMMA ClerkRevokes ==
  ASSUME InviteInv, RevokeCore, NEW c \in Clerks, ClerkStep(c)
  PROVE  RevokeCore'
<1> USE DEF linkVars, history, Cutover
<1>1. InviteInv'
  BY ClerkPreserves
<1>2. clerk' \in [Clerks -> {Idle} \cup Clerk]
  BY <1>1 DEF InviteInv, InviteTypeOK
<1>3. \A b \in Clerks : clerk[b].at # "idle" => clerk[b].link \in Links
  BY ClerkLink
<1>4. ASSUME LinksAsClerksLeftThem', UNCHANGED <<redeem, closed>>, valid' \subseteq valid
      PROVE  RevokeCore'
  BY <1>4 DEF RevokeCore, RevokeIsFinal, LateRequestsFail
<1>5. ASSUME NEW l \in Links, IssueRow(c, l) PROVE RevokeCore'
  <2>1. /\ clerk'[c].at = "issue" /\ clerk'[c].link = l
        /\ \A b \in Clerks \ {c} : clerk'[b] = clerk[b]
    BY <1>5 DEF IssueRow, Begin, InviteInv, InviteTypeOK
  <2>2. LinksAsClerksLeftThem'
    BY <1>5, <2>1 DEF IssueRow, RevokeCore, LinksAsClerksLeftThem
  <2> QED BY <1>4, <1>5, <2>2 DEF IssueRow
<1>6. ASSUME NEW l \in Links, RevokeLink(c, l) PROVE RevokeCore'
  <2>1. /\ clerk'[c].at = "cut" /\ clerk'[c].link = l
        /\ \A b \in Clerks \ {c} : clerk'[b] = clerk[b]
        /\ link'[l] = "revoked" /\ link[l] # "unissued"
        /\ \A m \in Links \ {l} : link'[m] = link[m]
    BY <1>6 DEF RevokeLink, Begin, Exists, InviteInv, InviteTypeOK
  <2>2. LinksAsClerksLeftThem'
    BY <1>3, <1>6, <2>1 DEF RevokeLink, RevokeCore, LinksAsClerksLeftThem, InviteInv, InviteTypeOK
  <2> QED BY <1>4, <1>6, <2>2 DEF RevokeLink
<1>7. ASSUME NEW l \in Links, EraseCut(c, l) PROVE RevokeCore'
  <2>1. /\ clerk'[c].at = "remove" /\ clerk'[c].link = l /\ link[l] # "unissued"
        /\ \A b \in Clerks \ {c} : clerk'[b] = clerk[b]
    BY <1>7 DEF EraseCut, Begin, Exists, InviteInv, InviteTypeOK
  <2>2. LinksAsClerksLeftThem'
    BY <1>7, <2>1 DEF EraseCut, RevokeCore, LinksAsClerksLeftThem
  <2> QED BY <1>4, <1>7, <2>2 DEF EraseCut
<1>8. CASE IssueLink(c)
  <2>1. /\ clerk[c].at = "issue" /\ clerk'[c].at = "idle"
        /\ \A b \in Clerks \ {c} : clerk'[b] = clerk[b]
    BY <1>8 DEF IssueLink, ClerkEnds, Idle, InviteInv, InviteTypeOK
  <2>2. \A m \in Links : m # clerk[c].link => link'[m] = link[m]
    BY <1>8 DEF IssueLink, InviteInv, InviteTypeOK
  <2>3. LinksAsClerksLeftThem'
    BY <1>3, <1>8, <2>1, <2>2 DEF IssueLink, RevokeCore, LinksAsClerksLeftThem, InviteInv, InviteTypeOK
  <2> QED BY <1>4, <1>8, <2>3 DEF IssueLink
<1>9. CASE RevokeCut(c)
  <2>1. /\ clerk[c].at = "cut" /\ clerk'[c].at = "idle" /\ clerk[c].link \in Links
        /\ \A b \in Clerks \ {c} : clerk'[b] = clerk[b]
    BY <1>3, <1>9 DEF RevokeCut, ClerkEnds, Idle, InviteInv, InviteTypeOK
  <2>2. LinksAsClerksLeftThem'
    BY <1>9, <2>1 DEF RevokeCut, RevokeCore, LinksAsClerksLeftThem
  <2> QED BY <1>9, <2>2 DEF RevokeCut, RevokeCore, RevokeIsFinal, LateRequestsFail
<1>10. CASE EraseRemove(c)
  <2>1. /\ clerk[c].at = "remove" /\ clerk'[c].at = "tally"
        /\ \A b \in Clerks \ {c} : clerk'[b] = clerk[b]
    BY <1>10, <1>3 DEF EraseRemove, ClerkGoes, Clerk, Idle, InviteInv, InviteTypeOK
  <2>2. \A m \in Links : link'[m] = link[m] \/ (link[m] # "unissued" /\ link'[m] \in {"revoked", "gone"})
    BY <1>3, <1>10, <2>1 DEF EraseRemove, RevokeCore, LinksAsClerksLeftThem, InviteInv, InviteTypeOK
  <2>3. LinksAsClerksLeftThem'
    BY <1>2, <1>10, <2>1, <2>2, ClerkMoves DEF EraseRemove, RevokeCore
  <2> QED BY <1>4, <1>10, <2>3 DEF EraseRemove
<1>11. CASE EraseTally(c) \/ EraseDrop(c) \/ DropPassenger(c) \/ DeleteCut(c) \/ ClerkStops(c)
  <2>1. /\ clerk'[c].at \notin {"cut", "remove", "issue"}
        /\ \A b \in Clerks \ {c} : clerk'[b] = clerk[b]
    BY <1>11 DEF EraseTally, EraseDrop, DropPassenger, DeleteCut, ClerkStops, ClerkEnds, ClerkGoes,
       Begin, Idle, Clerk, InviteInv, InviteTypeOK
  <2>2. UNCHANGED <<link, redeem, closed>> /\ valid' \subseteq valid
    BY <1>11 DEF EraseTally, EraseDrop, DropPassenger, DeleteCut, ClerkStops
  <2>3. LinksAsClerksLeftThem'
    BY <1>2, <2>1, <2>2, ClerkMoves DEF RevokeCore
  <2> QED BY <1>4, <2>2, <2>3
<1>12. CASE DeleteLinks(c)
  <2>1. /\ clerk'[c].at = "last"
        /\ \A b \in Clerks \ {c} : clerk'[b] = clerk[b]
    BY <1>12 DEF DeleteLinks, ClerkGoes, Idle, Clerk, InviteInv, InviteTypeOK
  <2>2. \A m \in Links : link'[m] = link[m] \/ (link[m] # "unissued" /\ link'[m] \in {"revoked", "gone"})
    BY <1>12 DEF DeleteLinks, Exists
  <2>3. LinksAsClerksLeftThem'
    BY <1>2, <1>12, <2>1, <2>2, ClerkMoves DEF DeleteLinks, RevokeCore
  <2> QED BY <1>4, <1>12, <2>3 DEF DeleteLinks
<1> QED BY <1>5, <1>6, <1>7, <1>8, <1>9, <1>10, <1>11, <1>12 DEF ClerkStep

LEMMA OtherRevokes ==
  ASSUME InviteInv, RevokeCore,
         (\E l \in Links : ResetDevice(l) \/ Expire(l)) \/ UNCHANGED inviteVars
  PROVE  RevokeCore'
BY ClerkLink
   DEF RevokeCore, RevokeIsFinal, LateRequestsFail, LinksAsClerksLeftThem, InviteInv,
       InviteTypeOK, ResetDevice, Expire, Usable, history, inviteVars

LEMMA RevokeNext == InviteInv /\ RevokeCore /\ [InviteNext]_inviteVars => RevokeCore'
BY RedeemRevokes, ClerkRevokes, OtherRevokes DEF InviteNext

-----------------------------------------------------------------------------
(* Revocation at every step: what is minted for a closed link is a straggler. *)
THEOREM RevocationInvariant == InviteSpec => []RevokeInv
<1>1. InviteInit => RevokeCore
  BY InitRevoke
<1>2. InviteInv /\ RevokeCore /\ [InviteNext]_inviteVars => RevokeCore'
  BY RevokeNext
<1>3. InviteInv /\ RevokeCore => RevokeInv
  BY DEF InviteInv, RevokeCore, RevokeInv
<1> QED BY <1>1, <1>2, <1>3, BindingInvariant, PTL DEF InviteSpec

(* After a revocation is answered, the sessions of that link that still    *)
(* work are those of requests that were under way, whatever other redeem,  *)
(* reset, erase and delete requests run beside it.                         *)
THEOREM RevocationIsFinal == InviteSpec => []RevokeIsFinal
<1>1. RevokeInv => RevokeIsFinal
  BY DEF RevokeInv
<1> QED BY <1>1, RevocationInvariant, PTL

-----------------------------------------------------------------------------
(* Itinerary. A request that nobody has crossed since it made or read the row *)
(* finds a row, and its patch is what this row still lacks of its trip.       *)
Rows == [flight: FlightIds \cup {Unknown}, gate: Gates]
RequestRecords ==
  [at: {"none", "select", "apply", "patch", "reread", "over"}, trip: AnyTrip,
   applies: BOOLEAN, patch: Rows, made: AnyTrip, told: AnyTrip, crossed: BOOLEAN]

(* The row b has what is known of the trip t.                                 *)
Shows(b, t) == t.flight \in {b.flight, Unknown} /\ t.gate \in {b.gate, Unknown}

OnCourse(q, b) ==
  q.applies /\ ~q.crossed =>
    /\ q.at \in {"select", "apply", "patch", "reread"} => b # NoRow
    /\ q.at = "patch" => q.patch = Changes(q.trip, b)
    /\ q.at \in {"reread", "over"} => Shows(b, q.trip)
    /\ q.at = "over" => q.told = b

TripIInv ==
  /\ record \in AnyTrip
  /\ request \in [Requests -> RequestRecords]
  /\ \A r \in Requests : OnCourse(request[r], record)

LEMMA TripTypes ==
  /\ AnyTrip \subseteq Rows /\ NoRow \in AnyTrip /\ Trip \subseteq AnyTrip
  /\ NoRequest \in RequestRecords
  /\ \A b \in AnyTrip : b # NoRow <=> b \in Trip
BY UnknownAssumption DEF AnyTrip, Rows, NoRow, Trip, Gates, NoRequest, RequestRecords

(* The patch holds what it takes to show the trip, and applying it does.      *)
LEMMA PatchShows ==
  ASSUME NEW t \in AnyTrip, NEW b \in Trip
  PROVE  /\ Changes(t, b) \in Rows
         /\ Changes(t, b) = NoRow => Shows(b, t)
         /\ Patched(b, Changes(t, b)) \in Trip
         /\ Shows(Patched(b, Changes(t, b)), t)
<1> DEFINE c == Changes(t, b)
           n == Patched(b, c)
<1>1. /\ t.flight \in FlightIds \cup {Unknown} /\ t.gate \in Gates
      /\ b.flight \in FlightIds /\ b.gate \in Gates
      /\ t = [flight |-> t.flight, gate |-> t.gate]
      /\ b = [flight |-> b.flight, gate |-> b.gate]
  BY TripTypes DEF Trip, Rows
<1>2. c = [flight |-> IF t.flight = b.flight THEN Unknown ELSE t.flight,
           gate |-> IF t.gate = b.gate THEN Unknown ELSE t.gate]
  BY <1>1 DEF Changes
<1>3. n = [flight |-> IF c.flight = Unknown THEN b.flight ELSE c.flight,
           gate |-> IF c.gate = Unknown THEN b.gate ELSE c.gate]
  <2> HIDE DEF c
  <2> QED BY <1>1 DEF Patched
<1>4. c \in Rows /\ (c = NoRow => Shows(b, t))
  BY <1>1, <1>2 DEF Rows, NoRow, Shows, Gates
<1>5. n \in Trip /\ Shows(n, t)
  BY <1>1, <1>2, <1>3 DEF Trip, Shows
<1> QED BY <1>4, <1>5

LEMMA PatchType ==
  ASSUME NEW b \in Trip, NEW c \in Rows
  PROVE  Patched(b, c) \in Trip
<1>1. /\ c.flight \in FlightIds \cup {Unknown} /\ c.gate \in Gates
      /\ b.flight \in FlightIds /\ b.gate \in Gates
      /\ b = [flight |-> b.flight, gate |-> b.gate]
  BY DEF Trip, Rows
<1>2. Patched(b, c) = [flight |-> IF c.flight = Unknown THEN b.flight ELSE c.flight,
                       gate |-> IF c.gate = Unknown THEN b.gate ELSE c.gate]
  BY <1>1 DEF Patched
<1> QED BY <1>1, <1>2 DEF Trip

LEMMA InitTrip == TripInit => TripIInv
BY TripTypes DEF TripInit, TripIInv, OnCourse, NoRequest

(* Whoever is crossed has nothing more to show.                               *)
LEMMA CrossedOnCourse ==
  ASSUME NEW q \in RequestRecords
  PROVE  Crossed(q) \in RequestRecords /\ \A b : OnCourse(Crossed(q), b)
BY TripTypes DEF Crossed, OnCourse, NoRequest, RequestRecords

LEMMA WritesPreserve ==
  ASSUME TripIInv, NEW r \in Requests, NEW n \in AnyTrip, NEW become \in RequestRecords,
         Writes(r, n, become), OnCourse(become, n)
  PROVE  TripIInv'
<1>1. /\ record' = n
      /\ request' = [q \in Requests |-> IF q = r THEN become ELSE Crossed(request[q])]
  BY DEF Writes
<1> QED BY <1>1, CrossedOnCourse DEF TripIInv

LEMMA ProceedsPreserve ==
  ASSUME TripIInv, NEW r \in Requests, NEW become \in RequestRecords,
         Proceeds(r, become), OnCourse(become, record)
  PROVE  TripIInv'
<1>1. record' = record /\ request' = [request EXCEPT ![r] = become]
  BY DEF Proceeds
<1> QED BY <1>1 DEF TripIInv

LEMMA AnswerType ==
  ASSUME NEW q \in RequestRecords, NEW t \in AnyTrip
  PROVE  /\ Answer(q, t) \in RequestRecords
         /\ \A b : (Shows(b, q.trip) /\ t = b) \/ ~q.applies \/ q.crossed => OnCourse(Answer(q, t), b)
BY TripTypes DEF Answer, RequestRecords, OnCourse

(* INSERT ... ON CONFLICT DO NOTHING.                                         *)
LEMMA InsertPreserves ==
  ASSUME TripIInv, NEW r \in Requests, NEW w \in Trip, NEW applies \in BOOLEAN,
         Insert(r, w, applies)
  PROVE  TripIInv'
<1> DEFINE asked == [NoRequest EXCEPT !.at = "select", !.applies = applies,
                                      !.trip = IF applies THEN w ELSE NoRow]
<1>1. /\ asked \in RequestRecords /\ asked.at = "select"
      /\ \A b \in Trip : OnCourse(asked, b)
  BY TripTypes DEF NoRequest, RequestRecords, OnCourse
<1>2. IF record = NoRow THEN Writes(r, w, asked) ELSE Proceeds(r, asked)
  BY DEF Insert
<1> HIDE DEF asked
<1>3. CASE record = NoRow
  BY <1>1, <1>2, <1>3, WritesPreserve, TripTypes
<1>4. CASE record # NoRow
  BY <1>1, <1>2, <1>4, ProceedsPreserve, TripTypes DEF TripIInv
<1> QED BY <1>3, <1>4

(* getOrCreate's SELECT, and applyTrip's.                                     *)
LEMMA ReadsPreserve ==
  ASSUME TripIInv, NEW r \in Requests, ReadMade(r) \/ ApplyTrip(r)
  PROVE  TripIInv'
<1>1. PICK q \in RequestRecords : q = request[r] /\ OnCourse(q, record)
  BY DEF TripIInv
<1>2. record \in AnyTrip /\ record \in Rows /\ q.made \in AnyTrip /\ q.trip \in AnyTrip
  BY TripTypes DEF TripIInv, RequestRecords
<1>3. CASE ReadMade(r)
  <2>1. q.at = "select"
    BY <1>1, <1>3 DEF ReadMade
  <2>2. CASE record = NoRow \/ ~q.applies
    <3>1. Proceeds(r, Answer(q, record))
      BY <1>1, <1>3, <2>2 DEF ReadMade
    <3>2. ~q.applies \/ q.crossed
      BY <1>1, <2>1, <2>2 DEF OnCourse
    <3> QED BY <3>1, <3>2, <1>2, AnswerType, ProceedsPreserve
  <2>3. CASE record # NoRow /\ q.applies
    <3>1. Proceeds(r, [q EXCEPT !.at = "apply", !.made = record])
      BY <1>1, <1>3, <2>3 DEF ReadMade
    <3>2. /\ [q EXCEPT !.at = "apply", !.made = record] \in RequestRecords
          /\ OnCourse([q EXCEPT !.at = "apply", !.made = record], record)
      BY <1>2, <2>3 DEF RequestRecords, OnCourse
    <3> QED BY <3>1, <3>2, ProceedsPreserve
  <2> QED BY <2>2, <2>3
<1>4. CASE ApplyTrip(r)
  <2>1. q.at = "apply"
    BY <1>1, <1>4 DEF ApplyTrip
  <2>2. CASE record = NoRow
    <3>1. Proceeds(r, Answer(q, q.made))
      BY <1>1, <1>4, <2>2 DEF ApplyTrip
    <3>2. ~q.applies \/ q.crossed
      BY <1>1, <2>1, <2>2 DEF OnCourse
    <3> QED BY <3>1, <3>2, <1>2, AnswerType, ProceedsPreserve
  <2>3. CASE record # NoRow /\ Changes(q.trip, record) = NoRow
    <3>1. Proceeds(r, Answer(q, record))
      BY <1>1, <1>4, <2>3 DEF ApplyTrip
    <3>2. Shows(record, q.trip)
      BY <1>2, <2>3, PatchShows, TripTypes
    <3> QED BY <3>1, <3>2, <1>2, AnswerType, ProceedsPreserve
  <2>4. CASE record # NoRow /\ Changes(q.trip, record) # NoRow
    <3> DEFINE c == Changes(q.trip, record)
               n == [q EXCEPT !.at = "patch", !.patch = c]
    <3>1. Proceeds(r, n)
      BY <1>1, <1>4, <2>4 DEF ApplyTrip
    <3>2. c \in Rows
      BY <1>2, <2>4, PatchShows, TripTypes
    <3>3. n.at = "patch" /\ n.patch = c /\ n.trip = q.trip /\ n \in RequestRecords
      <4> HIDE DEF c
      <4> QED BY <3>2 DEF RequestRecords
    <3>4. OnCourse(n, record)
      <4> HIDE DEF n
      <4> QED BY <3>3, <2>4 DEF OnCourse
    <3> HIDE DEF n
    <3> QED BY <3>1, <3>3, <3>4, ProceedsPreserve
  <2> QED BY <2>2, <2>3, <2>4
<1> QED BY <1>3, <1>4

(* The UPDATE, the SELECT after it, and a request that breaks off.            *)
LEMMA UpdatesPreserve ==
  ASSUME TripIInv, NEW r \in Requests, Update(r) \/ ReadBack(r) \/ RequestFails(r)
  PROVE  TripIInv'
<1>1. PICK q \in RequestRecords : q = request[r] /\ OnCourse(q, record)
  BY DEF TripIInv
<1>2. /\ record \in AnyTrip /\ record \in Rows /\ q.made \in AnyTrip
      /\ q.trip \in AnyTrip /\ q.patch \in Rows
  BY TripTypes DEF TripIInv, RequestRecords
<1>3. CASE Update(r)
  <2> DEFINE n == [q EXCEPT !.at = "reread"]
  <2>1. /\ q.at = "patch" /\ n \in RequestRecords /\ n.at = "reread"
        /\ n.trip = q.trip /\ n.applies = q.applies /\ n.crossed = q.crossed
    BY <1>1, <1>3 DEF Update, RequestRecords
  <2>2. IF record = NoRow THEN Proceeds(r, n) ELSE Writes(r, Patched(record, q.patch), n)
    BY <1>1, <1>3 DEF Update
  <2> HIDE DEF n
  <2>3. CASE record = NoRow
    <3>1. OnCourse(n, record)
      BY <1>1, <2>1, <2>3 DEF OnCourse
    <3> QED BY <2>1, <2>2, <2>3, <3>1, ProceedsPreserve
  <2>4. CASE record # NoRow
    <3>1. Patched(record, q.patch) \in Trip
      BY <1>2, <2>4, PatchType, TripTypes
    <3>2. ASSUME q.applies, ~q.crossed PROVE Shows(Patched(record, q.patch), q.trip)
      <4>1. q.patch = Changes(q.trip, record)
        BY <1>1, <2>1, <3>2 DEF OnCourse
      <4> QED BY <4>1, <1>2, <2>4, PatchShows, TripTypes
    <3>3. OnCourse(n, Patched(record, q.patch))
      BY <2>1, <3>1, <3>2, TripTypes DEF OnCourse
    <3> QED BY <2>1, <2>2, <2>4, <3>1, <3>3, WritesPreserve, TripTypes
  <2> QED BY <2>3, <2>4
<1>4. CASE ReadBack(r)
  <2>1. q.at = "reread" /\ Proceeds(r, Answer(q, IF record = NoRow THEN q.made ELSE record))
    BY <1>1, <1>4 DEF ReadBack
  <2>2. q.applies /\ ~q.crossed => record # NoRow /\ Shows(record, q.trip)
    BY <1>1, <2>1 DEF OnCourse
  <2>3. (IF record = NoRow THEN q.made ELSE record) \in AnyTrip
    BY <1>2
  <2>4. OnCourse(Answer(q, IF record = NoRow THEN q.made ELSE record), record)
    BY <1>2, <2>2, <2>3, AnswerType DEF RequestRecords
  <2> QED BY <2>1, <2>3, <2>4, AnswerType, ProceedsPreserve
<1>5. CASE RequestFails(r)
  <2>1. NoRequest \in RequestRecords /\ OnCourse(NoRequest, record)
    BY TripTypes DEF NoRequest, OnCourse
  <2> QED BY <1>5, <2>1, ProceedsPreserve DEF RequestFails
<1> QED BY <1>3, <1>4, <1>5

(* The console writes the row, or deletes it.                                 *)
LEMMA ConsolePreserves ==
  ASSUME TripIInv, ConsolePatch \/ Delete
  PROVE  TripIInv'
<1>1. request' = [q \in Requests |-> Crossed(request[q])]
  BY DEF ConsolePatch, Delete, CrossAll
<1>2. record' \in AnyTrip
  <2>1. CASE Delete
    BY <2>1, TripTypes DEF Delete
  <2>2. CASE ConsolePatch
    BY <2>2, TripTypes DEF ConsolePatch, TripIInv, Trip, Gates
  <2> QED BY <2>1, <2>2
<1> QED BY <1>1, <1>2, CrossedOnCourse DEF TripIInv

LEMMA TripPreserves == TripIInv /\ [TripNext]_tripVars => TripIInv'
<1> SUFFICES ASSUME TripIInv, [TripNext]_tripVars PROVE TripIInv'
  OBVIOUS
<1>1. CASE UNCHANGED tripVars
  BY <1>1 DEF tripVars, TripIInv
<1>2. ASSUME NEW r \in Requests, NEW f \in FlightIds, NEW applies \in BOOLEAN,
             NEW gate \in {f, DefaultGate, Unknown},
             Insert(r, [flight |-> f, gate |-> gate], applies)
      PROVE  TripIInv'
  <2>1. [flight |-> f, gate |-> gate] \in Trip
    BY DEF Trip, Gates
  <2> QED BY <1>2, <2>1, InsertPreserves
<1>3. CASE TripNext
  BY <1>2, <1>3, ReadsPreserve, UpdatesPreserve, ConsolePreserves DEF TripNext
<1> QED BY <1>1, <1>3

LEMMA TripIInvSuffices == TripIInv => TripInv
<1> SUFFICES ASSUME TripIInv PROVE TripInv
  OBVIOUS
<1>1. TripTypeOK
  BY DEF TripIInv, TripTypeOK, RequestRecords, Rows
<1>2. ASSUME NEW r \in Requests, request[r].at = "over", request[r].applies, ~request[r].crossed
      PROVE  /\ request[r].told = record
             /\ \A f \in DOMAIN record : request[r].trip[f] \in {record[f], Unknown}
  <2>1. request[r].told = record /\ Shows(record, request[r].trip)
    BY <1>2 DEF TripIInv, OnCourse
  <2>2. DOMAIN record = {"flight", "gate"}
    BY TripTypes DEF TripIInv, Rows
  <2> QED BY <2>1, <2>2 DEF Shows
<1> QED BY <1>1, <1>2 DEF TripInv, SignedInShown

(* Whichever statements of other requests fall between its own: a sign-in     *)
(* that was answered and that nobody has overwritten since shows in the row,  *)
(* and its passenger was told so.                                             *)
THEOREM TripInvariant == TripSpec => []TripInv
<1>1. TripInit => TripIInv
  BY InitTrip
<1>2. TripIInv /\ [TripNext]_tripVars => TripIInv'
  BY TripPreserves
<1> QED BY <1>1, <1>2, TripIInvSuffices, PTL DEF TripSpec

-----------------------------------------------------------------------------
(* PaxPages. The question a page waits for is about the session it shows:     *)
(* that is why there is one at most.                                          *)
AskRecords == [of: Accounts, awaited: BOOLEAN]

PagesIInv ==
  /\ PagesTypeOK
  /\ AssistKeepsLeg
  /\ checking => [of |-> shown.of, awaited |-> TRUE] \in asks
  /\ \A a \in asks : a.awaited => /\ checking /\ a.of = shown.of
                                  /\ page \in {"flight", "app"}

LEMMA PagesIInvSuffices == PagesIInv => PagesInv
<1> SUFFICES ASSUME PagesIInv PROVE PagesInv
  OBVIOUS
<1> DEFINE Waiting == {a \in asks : a.awaited}
           one == [of |-> shown.of, awaited |-> TRUE]
<1>1. Waiting \in SUBSET {one}
  BY DEF PagesIInv, PagesTypeOK
<1>2. IsFiniteSet({one}) /\ Cardinality({one}) = 1
  BY FS_Singleton
<1>3. Cardinality(Waiting) <= 1
  <2> HIDE DEF Waiting, one
  <2> QED BY <1>1, <1>2, FS_Subset
<1> QED BY <1>3 DEF PagesIInv, PagesInv

LEMMA PageRecords ==
  /\ NoTrip \in Trips /\ NothingShown.trip \in Trips
  /\ \A t \in Trips : t.leg \in Legs /\ (t # NoTrip => t \in [of: Accounts, leg: Legs])
  /\ \A w \in Accounts \cup {Nobody}, t \in Trips :
       Stored(w, t) \in [of: Accounts \cup {Nobody}, trip: Trips] /\ Stored(w, t).of = w
  /\ \A w \in Accounts, t \in Trips : Stored(w, t).trip = t
  /\ NothingShown \in [of: Accounts \cup {Nobody}, trip: Trips]
BY PagesAssumption DEF NoTrip, Trips, Legs, NothingShown, Stored

LEMMA InitPages == PagesInit => PagesIInv
<1> SUFFICES ASSUME PagesInit PROVE PagesIInv
  OBVIOUS
<1>1. PagesTypeOK
  BY PageRecords DEF PagesInit, PagesTypeOK, Legs
<1> QED BY <1>1 DEF PagesInit, PagesIInv, AssistKeepsLeg, Ready

(* What storage and the sign-in hold after a step.                            *)
KeptTypes ==
  /\ kept \in Accounts \cup {Nobody} /\ trip \in Trips
  /\ accepted \subseteq Accounts /\ signing \in Accounts \cup {Nobody}

Unwaited(pending) == pending \subseteq AskRecords /\ \A a \in pending : ~a.awaited

LEMMA MountPages ==
  ASSUME KeptTypes', NEW p \in {"flight", "app"}, NEW w \in Accounts \cup {Nobody},
         NEW t \in Trips, NEW pending, Unwaited(pending), Mount(p, w, t, pending)
  PROVE  PagesIInv'
<1>1. /\ page' = p /\ shown' = Stored(w, t) /\ tab' = t.leg
      /\ failed' = (w = Nobody) /\ checking' = (w # Nobody)
      /\ asks' = IF w = Nobody THEN pending
                 ELSE pending \cup {[of |-> w, awaited |-> TRUE]}
      /\ loading' \in {t.leg, "none"}
  BY DEF Mount
<1>2. /\ shown' \in [of: Accounts \cup {Nobody}, trip: Trips] /\ shown'.of = w
      /\ tab' \in Legs /\ loading' \in Legs \cup {"none"}
  BY <1>1, PageRecords
<1>3. /\ asks' \subseteq AskRecords
      /\ w # Nobody => [of |-> w, awaited |-> TRUE] \in asks'
      /\ \A a \in asks' : a.awaited => w # Nobody /\ a.of = w
  <2> DEFINE one == [of |-> w, awaited |-> TRUE]
  <2>1. w # Nobody => one \in AskRecords /\ one.of = w
    BY DEF AskRecords
  <2>2. CASE w = Nobody
    BY <1>1, <2>2 DEF Unwaited
  <2>3. CASE w # Nobody
    <3>1. asks' = pending \cup {one}
      BY <1>1, <2>3
    <3> HIDE DEF one
    <3> QED BY <2>1, <2>3, <3>1 DEF Unwaited, one
  <2> QED BY <2>2, <2>3
<1>4. PagesTypeOK'
  BY <1>1, <1>2, <1>3 DEF KeptTypes, PagesTypeOK, AskRecords
<1>5. AssistKeepsLeg'
  BY <1>1 DEF AssistKeepsLeg, Ready
<1> QED BY <1>1, <1>2, <1>3, <1>4, <1>5 DEF PagesIInv

LEMMA PlainPages ==
  ASSUME KeptTypes', NEW p \in {"entry", "login"}, NEW pending, Unwaited(pending),
         Plain(p, pending)
  PROVE  PagesIInv'
<1>1. PagesTypeOK'
  BY PageRecords DEF Plain, KeptTypes, PagesTypeOK, Unwaited, AskRecords, Legs
<1> QED BY <1>1 DEF Plain, PagesIInv, AssistKeepsLeg, Ready, Unwaited

LEMMA EntryPages ==
  ASSUME KeptTypes, KeptTypes', NEW pending, Unwaited(pending), Entry(kept, trip, pending)
  PROVE  PagesIInv'
BY MountPages, PlainPages DEF Entry, KeptTypes

(* What stays of the questions of the page before.                            *)
LEMMA PendingUnwaited ==
  ASSUME PagesIInv
  PROVE  /\ KeptTypes /\ Unwaited({}) /\ Unwaited(Orphans(asks))
         /\ ~checking => Unwaited(asks)
         /\ page \notin {"flight", "app"} => Unwaited(asks)
<1>1. KeptTypes /\ Unwaited({}) /\ asks \subseteq AskRecords
  BY DEF PagesIInv, PagesTypeOK, KeptTypes, Unwaited, AskRecords
<1>2. Unwaited(Orphans(asks))
  <2>1. ASSUME NEW a \in asks
        PROVE  /\ [of |-> a.of, awaited |-> FALSE] \in AskRecords
               /\ ~[of |-> a.of, awaited |-> FALSE].awaited
    BY <1>1 DEF AskRecords
  <2> QED BY <2>1 DEF Unwaited, Orphans
<1> QED BY <1>1, <1>2 DEF Unwaited, PagesIInv

(* Pages open and close.                                                      *)
LEMMA OpensPreservePages ==
  ASSUME PagesIInv,
         \/ \E p \in {"entry", "login", "flight", "app"} : Visit(p)
         \/ Leave \/ LoginBack \/ Continue \/ Logout \/ FollowErrorLink
         \/ \E a \in Accounts : SignedIn(a)
  PROVE  PagesIInv'
<1> USE PendingUnwaited
<1>1. ASSUME NEW p \in {"entry", "login", "flight", "app"}, Visit(p) PROVE PagesIInv'
  <2>1. KeptTypes' /\ kept \in Accounts \cup {Nobody} /\ trip \in Trips
    BY <1>1 DEF Visit, KeptTypes
  <2>2. CASE p = "entry"
    BY <1>1, <2>1, <2>2, EntryPages DEF Visit
  <2>3. CASE p = "login"
    BY <1>1, <2>1, <2>3, PlainPages DEF Visit
  <2>4. CASE p \in {"flight", "app"}
    BY <1>1, <2>1, <2>4, MountPages DEF Visit
  <2> QED BY <2>2, <2>3, <2>4
<1>2. CASE Leave
  BY <1>2, PlainPages DEF Leave, KeptTypes
<1>3. CASE LoginBack
  BY <1>3, EntryPages DEF LoginBack, KeptTypes
<1>4. CASE Continue
  BY <1>4, PlainPages DEF Continue, KeptTypes
<1>5. CASE Logout
  <2>1. KeptTypes'
    BY <1>5, PageRecords DEF Logout, KeptTypes
  <2>2. ~checking
    BY <1>5 DEF Logout, Ready
  <2> QED BY <1>5, <2>1, <2>2, PlainPages DEF Logout
<1>6. CASE FollowErrorLink
  <2>1. KeptTypes'
    BY <1>6 DEF FollowErrorLink, KeptTypes
  <2> QED BY <1>6, <2>1, PlainPages, EntryPages DEF FollowErrorLink
<1>7. ASSUME NEW a \in Accounts, SignedIn(a) PROVE PagesIInv'
  <2>1. PICK t : /\ t = IF a \in Tripless THEN trip ELSE [of |-> a, leg |-> "arr"]
                 /\ kept' = a /\ trip' = t /\ Mount("flight", a, t, Orphans(asks))
    BY <1>7 DEF SignedIn
  <2>2. t \in Trips
    BY <2>1 DEF KeptTypes, Trips, Legs
  <2>3. KeptTypes'
    BY <1>7, <2>1, <2>2 DEF SignedIn, KeptTypes
  <2> QED BY <2>1, <2>2, <2>3, MountPages
<1> QED BY <1>1, <1>2, <1>3, <1>4, <1>5, <1>6, <1>7

(* The server's word on a session.                                            *)
LEMMA AnswersPreservePages ==
  ASSUME PagesIInv, NEW a \in asks, Confirmed(a) \/ Refused(a)
  PROVE  PagesIInv'
<1>1. a \in AskRecords /\ asks' = asks \ {a}
  BY DEF PagesIInv, PagesTypeOK, AskRecords, Confirmed, Refused
<1>2. a.awaited => \A b \in asks : b.awaited => b = a
  <2> SUFFICES ASSUME a.awaited, NEW b \in asks, b.awaited PROVE b = a
    OBVIOUS
  <2>1. b \in AskRecords /\ b.of = a.of /\ b.awaited = TRUE /\ a.awaited = TRUE
    BY <1>1 DEF PagesIInv, PagesTypeOK, AskRecords
  <2> QED BY <1>1, <2>1 DEF AskRecords
<1>3. CASE ~a.awaited
  <2>1. /\ UNCHANGED <<shown, checking, loading, failed, trip, page, accepted, tab, signing>>
        /\ kept' \in Accounts \cup {Nobody}
    BY <1>1, <1>3 DEF Confirmed, Refused, PagesIInv, PagesTypeOK, AskRecords
  <2>2. PagesTypeOK'
    BY <1>1, <2>1 DEF PagesIInv, PagesTypeOK
  <2>3. AssistKeepsLeg'
    BY <2>1 DEF PagesIInv, AssistKeepsLeg, Ready
  <2>4. checking' => [of |-> shown'.of, awaited |-> TRUE] \in asks'
    BY <1>1, <1>3, <2>1 DEF PagesIInv
  <2> QED BY <1>1, <2>1, <2>2, <2>3, <2>4 DEF PagesIInv
<1>4. CASE a.awaited /\ Confirmed(a)
  <2>1. /\ kept' = a.of /\ shown' = Stored(a.of, trip) /\ checking' = FALSE
        /\ loading' \in {trip.leg, loading}
        /\ UNCHANGED <<trip, page, failed, accepted, tab, signing>>
        /\ a.of \in Accounts
    BY <1>1, <1>4 DEF Confirmed, AskRecords
  <2>2. PagesTypeOK'
    <3>1. /\ trip \in Trips /\ trip.leg \in Legs
          /\ shown' \in [of: Accounts \cup {Nobody}, trip: Trips]
      BY <2>1, PageRecords DEF PagesIInv, PagesTypeOK
    <3> QED BY <1>1, <2>1, <3>1 DEF PagesIInv, PagesTypeOK
  <2>3. shown'.trip = trip'
    BY <2>1, PageRecords DEF PagesIInv, PagesTypeOK
  <2> QED BY <1>1, <1>2, <1>4, <2>1, <2>2, <2>3 DEF PagesIInv, AssistKeepsLeg
<1>5. CASE a.awaited /\ Refused(a)
  <2>1. /\ failed' = TRUE /\ checking' = FALSE
        /\ UNCHANGED <<kept, trip, page, shown, accepted, tab, loading, signing>>
    BY <1>5 DEF Refused
  <2>2. PagesTypeOK'
    BY <1>1, <2>1 DEF PagesIInv, PagesTypeOK
  <2> QED BY <1>1, <1>2, <1>5, <2>1, <2>2 DEF PagesIInv, AssistKeepsLeg, Ready
<1> QED BY <1>3, <1>4, <1>5

(* The leg is chosen, on either page.                                         *)
LEMMA LegPreservesPages ==
  ASSUME PagesIInv, NEW l \in Legs, PickLeg(l)
  PROVE  PagesIInv'
<1>1. /\ trip' = [shown.trip EXCEPT !.leg = l] /\ ~checking
      /\ IF page = "app" THEN shown' = [shown EXCEPT !.trip.leg = l] /\ tab' = tab
         ELSE tab' = l /\ shown' = shown
      /\ UNCHANGED <<kept, page, checking, failed, asks, accepted, loading, signing>>
  BY DEF PickLeg, Ready
<1>2. shown \in [of: Accounts \cup {Nobody}, trip: Trips] /\ shown.trip \in [of: Accounts, leg: Legs]
  BY PageRecords DEF PickLeg, PagesIInv, PagesTypeOK
<1>3. trip' \in Trips
  BY <1>1, <1>2 DEF Trips
<1>4. /\ shown' \in [of: Accounts \cup {Nobody}, trip: Trips] /\ shown'.of = shown.of
      /\ page = "app" => shown'.trip = trip'
  BY <1>1, <1>2, <1>3
<1>5. PagesTypeOK'
  BY <1>1, <1>3, <1>4 DEF PagesIInv, PagesTypeOK
<1> QED BY <1>1, <1>4, <1>5 DEF PagesIInv, AssistKeepsLeg, Ready

(* Steps that open no page and answer no question.                            *)
LEMMA OthersPreservePages ==
  ASSUME PagesIInv, UNCHANGED <<kept, trip, page, shown, checking, failed, asks>>,
         accepted' \subseteq Accounts, signing' \in Accounts \cup {Nobody},
         tab' \in Legs, loading' \in Legs \cup {"none"}
  PROVE  PagesIInv'
BY DEF PagesIInv, PagesTypeOK, AssistKeepsLeg, Ready

LEMMA PagesPreserves == PagesIInv /\ [PagesNext]_pagesVars => PagesIInv'
<1> SUFFICES ASSUME PagesIInv, [PagesNext]_pagesVars PROVE PagesIInv'
  OBVIOUS
<1>1. /\ accepted \subseteq Accounts /\ signing \in Accounts \cup {Nobody}
      /\ tab \in Legs /\ loading \in Legs \cup {"none"}
  BY DEF PagesIInv, PagesTypeOK
<1>2. CASE UNCHANGED pagesVars
  BY <1>1, <1>2, OthersPreservePages DEF pagesVars
<1>3. CASE FlightsLoaded
  BY <1>1, <1>3, OthersPreservePages DEF FlightsLoaded
<1>4. CASE SignInFails
  BY <1>1, <1>4, OthersPreservePages DEF SignInFails
<1>5. ASSUME NEW a \in Accounts, SignIn(a) \/ Expires(a) PROVE PagesIInv'
  <2>1. accepted' \subseteq Accounts /\ signing' \in Accounts \cup {Nobody}
    BY <1>1, <1>5 DEF SignIn, Expires
  <2> QED BY <1>1, <1>5, <2>1, OthersPreservePages DEF SignIn, Expires
<1> QED BY <1>2, <1>3, <1>4, <1>5, OpensPreservePages, AnswersPreservePages, LegPreservesPages
        DEF PagesNext

(* However late the server's word on a session comes, and whatever pages were *)
(* opened meanwhile: a page waits for its own question only, and the assist   *)
(* page and the storage agree on the leg that was chosen.                     *)
THEOREM PagesInvariant == PagesSpec => []PagesInv
<1>1. PagesInit => PagesIInv
  BY InitPages
<1>2. PagesIInv /\ [PagesNext]_pagesVars => PagesIInv'
  BY PagesPreserves
<1> QED BY <1>1, <1>2, PagesIInvSuffices, PTL DEF PagesSpec

-----------------------------------------------------------------------------
(* NavHints. What is kept for a flight is of that flight, or at least on its   *)
(* map once this is the airport the flight leaves from; the form never mixes   *)
(* two maps, whichever it shows and whichever places it waits for.             *)
AnyFlight == Flights \cup {"none"}
AnyMap == Airports \cup {"none"}
HintRecords == [airport: AnyMap, from: AnyFlight, to: AnyFlight, flight: AnyFlight,
                leg: {"arr", "dep", "none"}]
PlanRecords == [airport: AnyMap, ends: AnyMap]
PanelRecords == [airport: Airports, byHand: BOOLEAN, places: AnyMap, picked: AnyMap]
PinRecords == [airport: AnyMap, from: AnyFlight, to: AnyFlight, flight: AnyFlight]

Sound(h) ==
  /\ h.from \in {"none", h.flight}
  /\ h.to \in {"none", h.flight} \/ (h.airport # "none" /\ DepartsFrom(h.to) = Home)
  /\ h.to # "none" /\ h.airport = DepartsFrom(h.flight) => DepartsFrom(h.to) = h.airport

(* Stored hints without a gate for the open flight never join a gate the page  *)
(* has to another map.                                                         *)
Joins(h, k) ==
  k.flight = h.flight /\ k.airport = DepartsFrom(k.flight) /\ k.to = "none"
    => (h.to # "none" => DepartsFrom(h.to) = DepartsFrom(h.flight))

OneMap(p) == p # NoPlan => p.ends = p.airport
OnMap(p, h) == p # NoPlan => h.airport \in {"none", p.airport}
FormFits(form, asked) ==
  /\ form.picked \in {"none", form.airport}
  /\ asked # "none" => asked = form.airport
  /\ asked = "none" => form.places \in {"none", form.airport}

Fits(w, h, k, known) ==
  /\ w \in Sessions /\ h \in HintRecords /\ k \in HintRecords /\ known \in BOOLEAN
  /\ h.flight = OpenFlight(w) /\ Sound(h) /\ Sound(k) /\ Joins(h, k)
  /\ known => h.airport = DepartsFrom(h.flight)

NavIInv ==
  /\ Fits(who, hints, navKept.hints, settled)
  /\ plan \in PlanRecords /\ OneMap(plan) /\ OnMap(plan, hints)
  /\ navKept.plan \in PlanRecords /\ OneMap(navKept.plan)
  /\ panel \in PanelRecords /\ asking \in AnyMap /\ FormFits(panel, asking)

LEMMA NavIInvSuffices == NavIInv => NavInv
BY DEF NavIInv, Fits, Sound, OneMap, OnMap, NavInv, HintsFitOpenFlight, PlanIsOnOneMap

LEMMA SessionFields ==
  ASSUME NEW w \in Sessions
  PROVE  /\ w.trip \in {"transfer", "depart", "arrive", "none"} /\ w.leg \in {"arr", "dep"}
         /\ w.own \in {"in", "out", "new"} /\ w.gate \in BOOLEAN
         /\ OpenFlight(w) \in {"in", "out", "new"} /\ OpenLeg(w) \in {"arr", "dep", "none"}
         /\ w.own = "in" => OpenFlight(w) = "in"
<1>1. /\ w.trip \in {"transfer", "depart", "arrive", "none"} /\ w.leg \in {"arr", "dep"}
      /\ w.own \in {"in", "out", "new"} /\ w.gate \in BOOLEAN
      /\ w.trip # "arrive" => w.own # "in"
  BY DEF Sessions
<1> QED BY <1>1 DEF OpenFlight, OpenLeg

LEMMA HintFields ==
  ASSUME NEW h \in HintRecords
  PROVE  /\ h.airport \in AnyMap /\ h.from \in AnyFlight /\ h.to \in AnyFlight
         /\ h.flight \in AnyFlight /\ h.leg \in {"arr", "dep", "none"}
BY DEF HintRecords

LEMMA PanelMade ==
  /\ Airports \subseteq AnyMap /\ "none" \in AnyMap
  /\ \A a \in Airports, b \in BOOLEAN, c \in AnyMap, e \in AnyMap :
       [airport |-> a, byHand |-> b, places |-> c, picked |-> e] \in PanelRecords
BY DEF PanelRecords, AnyMap

LEMMA Departures == \A f : DepartsFrom(f) \in Airports /\ DepartsFrom(f) # "none"
BY DEF DepartsFrom, Airports, Home

(* selectNavHintsForFlight without pins, then with those of a start.           *)
LEMMA SelectFits ==
  ASSUME NEW w \in Sessions, NEW k \in HintRecords, Sound(k)
  PROVE  /\ Fits(w, SelectHints(w, NoPins, k), k, FALSE)
         /\ SelectHints(w, NoPins, k).airport # "none"
<1> DEFINE f == OpenFlight(w)
           ofF == k.flight = f
           airport == IF ofF /\ k.airport # "none" THEN k.airport ELSE Home
           from == IF ofF THEN k.from ELSE "none"
           boarding == IF w.own = f /\ w.gate THEN f ELSE "none"
           to == IF ofF /\ k.to # "none" THEN k.to ELSE boarding
           h == [airport |-> airport, from |-> from, to |-> to, flight |-> f, leg |-> OpenLeg(w)]
<1>1. f \in Flights /\ f # "none" /\ OpenLeg(w) \in {"arr", "dep", "none"}
  BY SessionFields DEF Flights
<1>2. SelectHints(w, NoPins, k) = h
  BY <1>1 DEF SelectHints, NoPins, Or, Home
<1>3. /\ k.airport \in AnyMap /\ k.from \in AnyFlight /\ k.to \in AnyFlight
  BY HintFields
<1>4. airport \in AnyMap /\ airport # "none" /\ from \in AnyFlight /\ to \in AnyFlight
  BY <1>1, <1>3 DEF AnyMap, AnyFlight, Airports, Home
<1>5. h \in HintRecords
  BY <1>1, <1>4 DEF HintRecords, AnyFlight
<1>6. Sound(h) /\ Joins(h, k)
  BY <1>1, <1>3 DEF Sound, Joins, DepartsFrom, Home
<1> QED BY <1>2, <1>4, <1>5, <1>6 DEF Fits

(* "Start navigation": its pins are also what the page keeps.                  *)
LEMMA StartFits ==
  ASSUME NEW w \in Sessions, NEW pins \in StartPins(w)
  PROVE  LET k == [airport |-> pins.airport, from |-> pins.from, to |-> pins.to,
                   flight |-> pins.flight, leg |-> "none"]
             h == SelectHints(w, pins, k)
         IN Fits(w, h, k, FALSE) /\ h.airport # "none" /\ MergeLive(h, NoHints, pins) = h
<1> DEFINE f == OpenFlight(w)
           k == [airport |-> pins.airport, from |-> pins.from, to |-> pins.to,
                 flight |-> pins.flight, leg |-> "none"]
           boarding == IF w.own = f /\ w.gate THEN f ELSE "none"
           to == IF pins.to # "none" THEN pins.to ELSE boarding
           h == [airport |-> pins.airport, from |-> "none", to |-> to, flight |-> f,
                 leg |-> OpenLeg(w)]
<1>1. /\ f \in Flights /\ f # "none" /\ OpenLeg(w) \in {"arr", "dep", "none"}
      /\ w.own \in {"in", "out", "new"} /\ (w.own = "in" => f = "in")
      /\ f \in {"in", "out", "new"}
  BY SessionFields DEF Flights
<1>2. /\ pins.from = "none" /\ pins.flight = f /\ pins.airport \in Airports
      /\ pins.airport # "none" /\ pins.to \in AnyFlight
      /\ \/ pins.airport = DepartsFrom(f) /\ pins.to \in {f, "none"}
         \/ pins.airport = Home /\ pins.to \in {w.own, "none"}
  BY <1>1, Departures DEF StartPins, AnyFlight, Flights, Airports, Home
<1>3. SelectHints(w, pins, k) = h
  BY <1>1, <1>2 DEF SelectHints, Or
<1>4. h \in HintRecords /\ k \in HintRecords
  BY <1>1, <1>2 DEF HintRecords, AnyFlight, AnyMap
<1>5. Sound(h) /\ Sound(k) /\ Joins(h, k)
  BY <1>1, <1>2 DEF Sound, Joins, DepartsFrom, Home
<1>6. MergeLive(h, NoHints, pins) = h
  BY <1>1, <1>2 DEF MergeLive, NoHints, Or
<1> QED BY <1>2, <1>3, <1>4, <1>5, <1>6 DEF Fits

(* mergeLiveDepartureHints: another airport drops the gate of the one before.  *)
LEMMA MergeFits ==
  ASSUME NEW w, NEW h, NEW k, NEW known, Fits(w, h, k, known), NEW found \in Found(w)
  PROVE  Fits(w, MergeLive(h, found, NoPins), k, found.airport # "none")
<1> DEFINE f == OpenFlight(w)
           airport == IF found.airport # "none" THEN found.airport ELSE h.airport
           moved == /\ airport # "none" /\ h.airport # "none" /\ airport # h.airport
           turned == moved \/ (h.leg # "none" /\ found.leg # h.leg)
           from == IF turned THEN "none" ELSE h.from
           earlier == IF found.airport # "none" /\ turned THEN "none" ELSE h.to
           to == IF found.to # "none" THEN found.to ELSE earlier
           n == [airport |-> airport, from |-> from, to |-> to, flight |-> f, leg |-> found.leg]
<1>1. /\ f \in Flights /\ f # "none" /\ w.leg \in {"arr", "dep"}
      /\ w \in Sessions /\ h \in HintRecords /\ k \in HintRecords /\ h.flight = f
      /\ Sound(h) /\ Sound(k) /\ Joins(h, k)
  BY SessionFields DEF Fits, Flights
<1>2. /\ found.airport \in {"none", DepartsFrom(f)} /\ found.to \in {"none", f}
      /\ found.flight = f /\ found.leg = w.leg /\ found.leg # "none"
  BY <1>1 DEF Found
<1>3. MergeLive(h, found, NoPins) = n
  BY <1>1, <1>2 DEF MergeLive, NoPins, Or
<1>4. h.airport \in AnyMap /\ h.from \in AnyFlight /\ h.to \in AnyFlight
  BY <1>1, HintFields
<1>5. n \in HintRecords
  <2>1. airport \in AnyMap
    BY <1>2, <1>4, Departures DEF AnyMap
  <2>2. from \in AnyFlight /\ to \in AnyFlight
    BY <1>1, <1>2, <1>4 DEF AnyFlight
  <2> QED BY <1>1, <1>2, <2>1, <2>2 DEF HintRecords, AnyFlight
<1>6. Sound(n) /\ Joins(n, k)
  BY <1>1, <1>2, <1>4, Departures DEF Sound, Joins
<1>7. found.airport # "none" => n.airport = DepartsFrom(n.flight)
  BY <1>2
<1> QED BY <1>1, <1>3, <1>5, <1>6, <1>7 DEF Fits

(* A registry that moved the passenger while the same flight is open.          *)
LEMMA RefreshFits ==
  ASSUME NEW w, NEW h, NEW k, NEW known, Fits(w, h, k, known), NEW v \in Sessions,
         v.trip = w.trip, v.leg = w.leg
  PROVE  LET next == SelectHints(v, NoPins, k)
             merged == [airport |-> Or(next.airport, h.airport),
                        from |-> Or(next.from, h.from), to |-> Or(next.to, h.to),
                        flight |-> Or(next.flight, h.flight), leg |-> Or(next.leg, h.leg)]
             n == IF v.own = w.own THEN h
                  ELSE IF next.flight # h.flight THEN next ELSE merged
         IN Fits(v, n, k, FALSE)
<1> DEFINE next == SelectHints(v, NoPins, k)
           merged == [airport |-> Or(next.airport, h.airport),
                      from |-> Or(next.from, h.from), to |-> Or(next.to, h.to),
                      flight |-> Or(next.flight, h.flight), leg |-> Or(next.leg, h.leg)]
<1>1. /\ h \in HintRecords /\ k \in HintRecords /\ h.flight = OpenFlight(w)
      /\ Sound(h) /\ Sound(k) /\ Joins(h, k)
  BY DEF Fits
<1>2. Fits(v, next, k, FALSE) /\ next.airport # "none"
  BY <1>1, SelectFits
<1>3. next \in HintRecords /\ next.flight = OpenFlight(v) /\ Sound(next) /\ Joins(next, k)
  BY <1>2 DEF Fits
<1>4. CASE v.own = w.own
  <2>1. OpenFlight(v) = OpenFlight(w)
    BY <1>4 DEF OpenFlight
  <2> QED BY <1>1, <1>4, <2>1 DEF Fits
<1>5. CASE v.own # w.own /\ next.flight = h.flight
  <2>1. /\ merged.airport = next.airport /\ merged.flight = next.flight
        /\ merged.from \in {next.from, h.from}
        /\ merged.to = (IF next.to # "none" THEN next.to ELSE h.to)
        /\ merged.leg \in {next.leg, h.leg} /\ merged.from \in AnyFlight
    BY <1>1, <1>2, <1>3, <1>5, HintFields DEF Or
  <2>2. merged \in HintRecords
    BY <1>1, <1>3, <1>5, HintFields, <2>1 DEF HintRecords, Or
  <2>3. next.airport \in {k.airport, Home} /\ (next.airport = Home \/ k.flight = next.flight)
    BY <1>3, SessionFields DEF SelectHints, NoPins, Or
  <2>4. next.to = "none" /\ k.flight = next.flight => k.to = "none"
    BY <1>3, SessionFields DEF SelectHints, NoPins, Or
  <2>5. Sound(merged) /\ Joins(merged, k)
    BY <1>1, <1>2, <1>3, <1>5, <2>1, <2>3, <2>4, Departures, SessionFields DEF Sound, Joins, DepartsFrom, Home
  <2> QED BY <1>1, <1>3, <1>5, <2>1, <2>2, <2>5 DEF Fits
<1> QED BY <1>2, <1>4, <1>5

(* The page renders anew: its plan goes with another map, its form starts over *)
(* or follows the hints.                                                       *)
LEMMA RendersPreserves ==
  ASSUME NavIInv, NEW h, NEW p \in PlanRecords, NEW w, Renders(h, p, w), OneMap(p),
         Fits(w, h, navKept'.hints, settled'),
         navKept'.plan \in PlanRecords, OneMap(navKept'.plan)
  PROVE  NavIInv'
<1> DEFINE stays == h.airport = "none" \/ p = NoPlan \/ p.airport = h.airport
           byHand == panel.byHand /\ h.flight = hints.flight
           map == IF byHand THEN panel.airport ELSE Or(h.airport, Home)
<1>1. /\ who' = w /\ hints' = h /\ plan' = IF stays THEN p ELSE NoPlan
      /\ \/ panel' = NoPanel /\ asking' = "none"
         \/ /\ panel' = [panel EXCEPT !.airport = map, !.byHand = byHand, !.picked = "none"]
            /\ asking' = map
         \/ /\ panel' = [panel EXCEPT !.byHand = byHand] /\ asking' = asking
  BY DEF Renders
<1>2. NoPlan \in PlanRecords /\ NoPanel \in PanelRecords
  BY DEF NoPlan, PlanRecords, NoPanel, PanelRecords, AnyMap, Airports, Home
<1>3. plan' \in PlanRecords /\ OneMap(plan') /\ OnMap(plan', h)
  BY <1>1, <1>2 DEF OneMap, OnMap
<1>4. map \in Airports /\ map # "none" /\ byHand \in BOOLEAN
  <2>1. panel.airport \in Airports /\ panel.byHand \in BOOLEAN /\ h.airport \in AnyMap
    BY HintFields DEF NavIInv, PanelRecords, Fits
  <2> QED BY <2>1 DEF Or, AnyMap, Airports, Home
<1>5. panel' \in PanelRecords /\ asking' \in AnyMap /\ FormFits(panel', asking')
  <2> HIDE DEF map, byHand
  <2>1. panel \in PanelRecords /\ asking \in AnyMap /\ FormFits(panel, asking)
    BY DEF NavIInv
  <2>2. CASE panel' = NoPanel /\ asking' = "none"
    BY <1>2, <2>2 DEF FormFits, NoPanel, AnyMap
  <2>3. CASE /\ panel' = [panel EXCEPT !.airport = map, !.byHand = byHand, !.picked = "none"]
             /\ asking' = map
    <3>1. panel' = [airport |-> map, byHand |-> byHand, places |-> panel.places, picked |-> "none"]
      BY <2>1, <2>3 DEF PanelRecords
    <3>2. panel.places \in AnyMap
      BY <2>1 DEF PanelRecords
    <3>3. panel' \in PanelRecords
      BY <1>4, <3>1, <3>2 DEF PanelRecords, AnyMap
    <3> QED BY <1>4, <2>3, <3>1, <3>3 DEF FormFits, AnyMap
  <2>4. CASE panel' = [panel EXCEPT !.byHand = byHand] /\ asking' = asking
    <3>1. panel' = [airport |-> panel.airport, byHand |-> byHand, places |-> panel.places,
                    picked |-> panel.picked]
      BY <2>1, <2>4 DEF PanelRecords
    <3>2. panel' \in PanelRecords
      BY <1>4, <2>1, <3>1 DEF PanelRecords
    <3> QED BY <2>1, <2>4, <3>1, <3>2 DEF FormFits
  <2> QED BY <1>1, <2>2, <2>3, <2>4
<1> QED BY <1>1, <1>3, <1>5 DEF NavIInv

LEMMA MountedPreserves ==
  ASSUME NEW w, NEW pins, NEW k, NEW p \in PlanRecords, Mounted(w, pins, k, p), OneMap(p),
         Fits(w, SelectHints(w, pins, k), k, FALSE), SelectHints(w, pins, k).airport # "none",
         pins = NoPins \/ MergeLive(SelectHints(w, pins, k), NoHints, pins) = SelectHints(w, pins, k)
  PROVE  NavIInv'
<1> DEFINE h == SelectHints(w, pins, k)
<1>1. /\ who' = w /\ hints' = h /\ settled' = FALSE
      /\ plan' = IF p = NoPlan \/ p.airport = h.airport THEN p ELSE NoPlan
      /\ panel' = [NoPanel EXCEPT !.airport = h.airport]
      /\ asking' = (IF plan' = NoPlan THEN h.airport ELSE "none")
      /\ navKept' = [hints |-> k, plan |-> plan']
  BY DEF Mounted, Keep
<1>2. h.airport \in Airports
  BY HintFields DEF Fits, AnyMap
<1> HIDE DEF h
<1>3. plan' \in PlanRecords /\ OneMap(plan') /\ OnMap(plan', h)
  BY <1>1 DEF OneMap, OnMap, NoPlan, PlanRecords, AnyMap
<1>4. panel' = [airport |-> h.airport, byHand |-> FALSE, places |-> "none", picked |-> "none"]
  BY <1>1 DEF NoPanel
<1>5. asking' \in {h.airport, "none"}
  BY <1>1
<1>6. panel' \in PanelRecords /\ asking' \in AnyMap
  BY <1>2, <1>4, <1>5 DEF PanelRecords, AnyMap
<1>7. FormFits(panel', asking')
  BY <1>4, <1>5 DEF FormFits
<1> QED BY <1>1, <1>3, <1>6, <1>7 DEF NavIInv, h

LEMMA KeptPlanFits ==
  NavIInv => KeptPlan \in PlanRecords /\ OneMap(KeptPlan) /\ NoPlan \in PlanRecords /\ OneMap(NoPlan)
BY DEF NavIInv, KeptPlan, NoPlan, PlanRecords, OneMap, AnyMap

LEMMA OpensPreserveNav ==
  ASSUME NavIInv, Reopen \/ StartNavigation
  PROVE  NavIInv'
<1>1. /\ who \in Sessions /\ navKept.hints \in HintRecords /\ Sound(navKept.hints)
      /\ navKept.plan \in PlanRecords /\ OneMap(navKept.plan)
  BY DEF NavIInv, Fits
<1>2. CASE Reopen
  BY <1>1, <1>2, SelectFits, MountedPreserves DEF Reopen
<1>3. CASE StartNavigation
  <2>1. PICK pins \in StartPins(who) :
          Mounted(who, pins, [NoHints EXCEPT !.airport = pins.airport, !.to = pins.to,
                                             !.flight = pins.flight], NoPlan)
    BY <1>3 DEF StartNavigation
  <2>2. pins.from = "none"
    BY <2>1 DEF StartPins
  <2>3. PICK k : k = [NoHints EXCEPT !.airport = pins.airport, !.to = pins.to,
                                     !.flight = pins.flight]
    OBVIOUS
  <2>4. k = [airport |-> pins.airport, from |-> pins.from, to |-> pins.to,
             flight |-> pins.flight, leg |-> "none"]
    BY <2>2, <2>3 DEF NoHints
  <2> QED BY <1>1, <2>1, <2>2, <2>3, <2>4, StartFits, MountedPreserves, KeptPlanFits
<1> QED BY <1>2, <1>3

LEMMA SessionPreservesNav ==
  ASSUME NavIInv,
         \/ \E w \in Sessions : SessionRefreshed(w)
         \/ \E l \in {"arr", "dep"} : SwitchLeg(l)
  PROVE  NavIInv'
<1>1. /\ Fits(who, hints, navKept.hints, settled) /\ plan \in PlanRecords /\ OneMap(plan)
      /\ navKept.hints \in HintRecords /\ Sound(navKept.hints) /\ who \in Sessions
  BY DEF NavIInv, Fits
<1>2. ASSUME NEW w \in Sessions, SessionRefreshed(w) PROVE NavIInv'
  <2> DEFINE next == SelectHints(w, NoPins, navKept.hints)
             merged == [airport |-> Or(next.airport, hints.airport),
                        from |-> Or(next.from, hints.from), to |-> Or(next.to, hints.to),
                        flight |-> Or(next.flight, hints.flight),
                        leg |-> Or(next.leg, hints.leg)]
             h == IF w.own = who.own THEN hints
                  ELSE IF next.flight # hints.flight THEN next ELSE merged
  <2>1. /\ w.trip = who.trip /\ w.leg = who.leg /\ Renders(h, plan, w)
        /\ settled' = FALSE /\ navKept' = [hints |-> navKept.hints, plan |-> KeptPlan]
    BY <1>2 DEF SessionRefreshed, Keep
  <2>2. Fits(w, h, navKept.hints, FALSE)
    BY <1>1, <2>1, RefreshFits
  <2> HIDE DEF h
  <2> QED BY <1>1, <2>1, <2>2, KeptPlanFits, RendersPreserves
<1>3. ASSUME NEW l \in {"arr", "dep"}, SwitchLeg(l) PROVE NavIInv'
  <2>1. PICK w : /\ w = [who EXCEPT !.leg = l] /\ who.trip = "transfer"
                 /\ Renders([NoHints EXCEPT !.flight = OpenFlight(w), !.leg = l], NoPlan, w)
                 /\ settled' = FALSE
                 /\ navKept' = [hints |-> navKept.hints, plan |-> KeptPlan]
    BY <1>3 DEF SwitchLeg, Keep
  <2>2. w \in Sessions
    BY <1>1, <2>1 DEF Sessions
  <2>3. PICK h : h = [NoHints EXCEPT !.flight = OpenFlight(w), !.leg = l]
    OBVIOUS
  <2>4. h = [airport |-> "none", from |-> "none", to |-> "none", flight |-> OpenFlight(w), leg |-> l]
    BY <2>3 DEF NoHints
  <2>5. h \in HintRecords
    BY <2>2, <2>4, SessionFields DEF HintRecords, AnyMap, AnyFlight, Flights
  <2>6. Fits(w, h, navKept.hints, FALSE)
    BY <1>1, <2>2, <2>4, <2>5 DEF Fits, Sound, Joins
  <2> QED BY <2>1, <2>3, <2>6, KeptPlanFits, RendersPreserves
<1> QED BY <1>2, <1>3

LEMMA LivePreservesNav ==
  ASSUME NavIInv, LiveArrives
  PROVE  NavIInv'
<1>1. PICK found \in Found(who) :
        /\ Renders(MergeLive(hints, found, NoPins), plan, who)
        /\ settled' = (found.airport # "none")
        /\ navKept' = [hints |-> navKept.hints, plan |-> KeptPlan]
  BY DEF LiveArrives, Keep
<1>2. Fits(who, hints, navKept.hints, settled) /\ plan \in PlanRecords /\ OneMap(plan)
  BY DEF NavIInv
<1>3. Fits(who, MergeLive(hints, found, NoPins), navKept.hints, found.airport # "none")
  BY <1>2, MergeFits
<1> QED BY <1>1, <1>2, <1>3, KeptPlanFits, RendersPreserves

(* The form on its own: the places that come are those it asked for last.      *)
LEMMA FormPreservesNav ==
  ASSUME NavIInv, PlacesArrive \/ PickEnds \/ ComeBack \/ (\E a \in Airports : ChooseMap(a))
  PROVE  NavIInv'
<1>1. /\ panel \in PanelRecords /\ asking \in AnyMap /\ FormFits(panel, asking)
      /\ panel = [airport |-> panel.airport, byHand |-> panel.byHand,
                  places |-> panel.places, picked |-> panel.picked]
      /\ panel.airport \in Airports /\ panel.byHand \in BOOLEAN
      /\ panel.places \in AnyMap /\ panel.picked \in AnyMap
  BY DEF NavIInv, PanelRecords
<1>2. UNCHANGED <<who, hints, plan, settled, navKept>>
  BY DEF PlacesArrive, PickEnds, ComeBack, ChooseMap
<1>3. SUFFICES panel' \in PanelRecords /\ asking' \in AnyMap /\ FormFits(panel', asking')
  BY <1>2 DEF NavIInv
<1>4. CASE PlacesArrive
  <2>1. PICK ends \in {"none", asking} :
          /\ asking # "none" /\ asking' = "none"
          /\ panel' = [panel EXCEPT !.places = asking, !.picked = ends]
    BY <1>4 DEF PlacesArrive
  <2>2. /\ panel' = [airport |-> panel.airport, byHand |-> panel.byHand,
                     places |-> asking, picked |-> ends]
        /\ ends \in AnyMap
    BY <1>1, <2>1 DEF AnyMap
  <2>3. panel' \in PanelRecords
    BY <1>1, <2>2, PanelMade
  <2> QED BY <1>1, <2>1, <2>2, <2>3, PanelMade DEF FormFits
<1>5. CASE PickEnds
  <2>1. /\ panel' = [panel EXCEPT !.picked = panel.places] /\ asking = "none" /\ asking' = asking
    BY <1>5 DEF PickEnds
  <2>2. panel' = [airport |-> panel.airport, byHand |-> panel.byHand,
                  places |-> panel.places, picked |-> panel.places]
    BY <1>1, <2>1
  <2>3. panel' \in PanelRecords /\ asking' \in AnyMap
    BY <1>1, <2>1, <2>2 DEF PanelRecords, AnyMap
  <2> QED BY <1>1, <2>1, <2>2, <2>3 DEF FormFits
<1>6. CASE ComeBack
  <2>1. /\ panel' = [NoPanel EXCEPT !.airport = Or(hints.airport, Home)]
        /\ asking' = panel'.airport
    BY <1>6 DEF ComeBack
  <2>2. Or(hints.airport, Home) \in Airports
    BY HintFields DEF NavIInv, Fits, Or, Home, AnyMap, Airports
  <2>3. panel' = [airport |-> Or(hints.airport, Home), byHand |-> FALSE,
                  places |-> "none", picked |-> "none"]
    BY <2>1 DEF NoPanel
  <2>4. panel' \in PanelRecords
    BY <2>2, <2>3 DEF PanelRecords, AnyMap
  <2>5. asking' # "none" /\ asking' = panel'.airport /\ asking' \in AnyMap
    BY <2>1, <2>2, <2>3 DEF Airports, Home, AnyMap
  <2> QED BY <2>3, <2>4, <2>5 DEF FormFits
<1>7. ASSUME NEW a \in Airports, ChooseMap(a)
      PROVE  panel' \in PanelRecords /\ asking' \in AnyMap /\ FormFits(panel', asking')
  <2>1. /\ panel' = [panel EXCEPT !.airport = a, !.byHand = TRUE, !.picked = "none"]
        /\ asking' = a
    BY <1>7 DEF ChooseMap
  <2>2. panel' = [airport |-> a, byHand |-> TRUE, places |-> panel.places, picked |-> "none"]
    BY <1>1, <2>1
  <2>3. panel' \in PanelRecords /\ asking' \in AnyMap /\ a # "none"
    BY <1>1, <2>1, <2>2 DEF PanelRecords, AnyMap, Airports, Home
  <2> QED BY <2>1, <2>2, <2>3 DEF FormFits
<1> QED BY <1>4, <1>5, <1>6, <1>7

(* Both ends of what is confirmed are on the map of the form.                  *)
LEMMA PlansPreserveNav ==
  ASSUME NavIInv, Confirm \/ ChangePlan
  PROVE  NavIInv'
<1>1. /\ Fits(who, hints, navKept.hints, settled) /\ hints \in HintRecords
      /\ hints.flight \in {"in", "out", "new"} /\ who \in Sessions
      /\ navKept.hints \in HintRecords
      /\ panel \in PanelRecords /\ FormFits(panel, asking)
  BY SessionFields DEF NavIInv, Fits
<1>2. CASE Confirm
  <2> DEFINE p == [airport |-> panel.airport, ends |-> panel.picked]
             k == [airport |-> panel.airport, from |-> hints.flight, to |-> hints.flight,
                   flight |-> hints.flight, leg |-> "none"]
  <2>1. /\ panel.picked # "none" /\ Renders(hints, p, who) /\ settled' = settled
        /\ navKept' = [hints |-> k, plan |-> plan']
    BY <1>2 DEF Confirm, Keep
  <2>2. panel.airport \in AnyMap /\ panel.picked \in AnyMap
    BY <1>1 DEF PanelRecords, AnyMap
  <2>3. p \in PlanRecords /\ OneMap(p)
    BY <1>1, <2>1, <2>2 DEF PlanRecords, OneMap, FormFits
  <2>4. plan' \in PlanRecords /\ OneMap(plan')
    <3>1. plan' \in {p, NoPlan}
      BY <2>1 DEF Renders
    <3> QED BY <2>3, <3>1 DEF OneMap, NoPlan, PlanRecords, AnyMap
  <2>5. k \in HintRecords
    BY <1>1, <2>2 DEF HintRecords, AnyFlight, Flights
  <2>6. Fits(who, hints, k, settled)
    BY <1>1, <2>2, <2>5 DEF Fits, Sound, Joins
  <2> QED BY <2>1, <2>3, <2>4, <2>6, RendersPreserves
<1>3. CASE ChangePlan
  BY <1>1, <1>3, KeptPlanFits, RendersPreserves DEF ChangePlan, Keep
<1> QED BY <1>2, <1>3

LEMMA InitNav == NavInit => NavIInv
<1> SUFFICES ASSUME NavInit PROVE NavIInv
  OBVIOUS
<1>1. PICK f \in Flights \cup {"none"} : \E k :
        /\ k = (IF f = "none" THEN NoHints
                ELSE [airport |-> DepartsFrom(f), from |-> "none", to |-> f,
                      flight |-> f, leg |-> "none"])
        /\ hints = SelectHints(who, NoPins, k) /\ navKept = [hints |-> k, plan |-> NoPlan]
  BY DEF NavInit
<1>2. PICK k :
        /\ k = (IF f = "none" THEN NoHints
                ELSE [airport |-> DepartsFrom(f), from |-> "none", to |-> f,
                      flight |-> f, leg |-> "none"])
        /\ hints = SelectHints(who, NoPins, k) /\ navKept = [hints |-> k, plan |-> NoPlan]
  BY <1>1
<1>3. who \in Sessions /\ plan = NoPlan /\ settled = FALSE
      /\ panel = [NoPanel EXCEPT !.airport = hints.airport] /\ asking = hints.airport
  BY DEF NavInit
<1>4. k \in HintRecords /\ Sound(k)
  <2>1. DepartsFrom(f) \in AnyMap
    BY Departures DEF AnyMap
  <2> QED BY <1>2, <2>1 DEF HintRecords, Sound, NoHints, AnyMap, AnyFlight, Flights
<1>5. Fits(who, hints, k, FALSE) /\ hints.airport \in Airports /\ hints.airport # "none"
  <2>1. Fits(who, hints, k, FALSE) /\ hints.airport # "none"
    BY <1>2, <1>3, <1>4, SelectFits
  <2> QED BY <2>1, HintFields DEF Fits, AnyMap
<1>6. panel = [airport |-> hints.airport, byHand |-> FALSE, places |-> "none", picked |-> "none"]
  BY <1>3 DEF NoPanel
<1>7. panel \in PanelRecords
  BY <1>5, <1>6 DEF PanelRecords, AnyMap
<1>8. FormFits(panel, asking)
  BY <1>3, <1>5, <1>6 DEF FormFits
<1>9. NoPlan \in PlanRecords /\ OneMap(NoPlan) /\ OnMap(NoPlan, hints)
  BY DEF NoPlan, PlanRecords, OneMap, OnMap, AnyMap
<1> QED BY <1>2, <1>3, <1>5, <1>7, <1>8, <1>9, PanelMade DEF NavIInv

LEMMA NavPreserves == NavIInv /\ [NavNext]_navVars => NavIInv'
<1> SUFFICES ASSUME NavIInv, [NavNext]_navVars PROVE NavIInv'
  OBVIOUS
<1>1. CASE UNCHANGED navVars \/ LiveFails
  BY <1>1 DEF navVars, LiveFails, NavIInv
<1> QED BY <1>1, OpensPreserveNav, SessionPreservesNav, LivePreservesNav, FormPreservesNav,
           PlansPreserveNav DEF NavNext

(* In whatever order the registry, the live lookups and the places of a map    *)
(* answer, and whatever legs, starts and maps the passenger chose meanwhile:   *)
(* the hints are those of the open flight, and a plan is on one map.           *)
THEOREM NavInvariant == NavSpec => []NavInv
<1>1. NavInit => NavIInv
  BY InitNav
<1>2. NavIInv /\ [NavNext]_navVars => NavIInv'
  BY NavPreserves
<1> QED BY <1>1, <1>2, NavIInvSuffices, PTL DEF NavSpec

=============================================================================
