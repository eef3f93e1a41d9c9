------------------------------ MODULE Sessions ------------------------------
(***************************************************************************)
(* Session tokens of one passenger and of one administrator, and their     *)
(* revocation: auth/paxSessionRevocation.ts and adminSessionRevocation.ts  *)
(* with the routes that mint, check and revoke.                            *)
(*                                                                         *)
(* Time counts in ticks of a millisecond clock, Ticks to a second; a token *)
(* carries whole seconds. Redis, where configured, answers or fails anew   *)
(* at each command; a failed check lets the token pass.                    *)
(***************************************************************************)
EXTENDS Integers

CONSTANTS
  Tokens,           \* tokens ever minted, of both kinds
  Ticks,            \* ticks per second
  LongestLife,      \* REGISTERED_SESSION_TTL_MS and ADMIN_JWT_TTL_S
  CutoverLife,      \* CUTOVER_TTL_MS
  LastTick, MaxBoots    \* bounds of a run

ASSUME SessionsAssumption ==
  /\ Ticks \in Nat \ {0} /\ LongestLife \in Nat
  /\ LastTick \in Nat \ {0} /\ MaxBoots \in Nat
  /\ CutoverLife \in Nat /\ CutoverLife >= LongestLife + Ticks

VARIABLES
  now,
  token,            \* what was signed
  cutover,          \* localCutover of the passenger, 0 if there is none
  cutMirror,        \* its copy in Redis
  revoked,          \* locallyRevoked: the jti of tokens
  jtiMirror,        \* until when Redis holds the jti
  redis,            \* is REDIS_URL set
  wire,             \* the SET a revocation awaits
  plan,             \* the passenger's registry row
  request,          \* a plan change or deletion that is yet to revoke
  login,            \* sign-ins that passed the registry and are yet to sign
  boots

sessionVars == <<now, token, cutover, cutMirror, revoked, jtiMirror, redis, wire,
                 plan, request, login, boots>>
mirrors == <<cutMirror, jtiMirror>>

Plans == {"free", "premium"}
Unsigned == [kind |-> "none"]
Signed == [kind : {"pax", "admin"}, at : 1..LastTick, iat : Nat, exp : Nat]
NoCommand == [set |-> "none"]
NotMirrored == [at |-> 0, until |-> 0]

SessionTypeOK ==
  /\ now \in 1..LastTick
  /\ token \in [Tokens -> {Unsigned} \cup Signed]
  /\ cutover \in 0..LastTick
  /\ cutMirror \in [at : 0..LastTick, until : Nat]
  /\ revoked \subseteq Tokens
  /\ jtiMirror \in [Tokens -> Nat]
  /\ redis \in BOOLEAN
  /\ wire \in {NoCommand} \cup [set : {"cutover"}, at : 1..LastTick]
                          \cup [set : {"jti"}, of : Tokens, ttl : Nat]
  /\ plan \in Plans \cup {"none"}
  /\ request \in {"none", "patch", "delete"}
  /\ login \subseteq Tokens
  /\ boots \in 0..MaxBoots

SessionInit ==
  /\ now = 1
  /\ token = [t \in Tokens |-> Unsigned]
  /\ cutover = 0 /\ cutMirror = NotMirrored
  /\ revoked = {} /\ jtiMirror = [t \in Tokens |-> 0]
  /\ redis \in BOOLEAN
  /\ wire = NoCommand
  /\ plan = "none" /\ request = "none" /\ login = {}
  /\ boots = 0

-----------------------------------------------------------------------------
Second(t) == t \div Ticks
SecondsUp(d) == (d + Ticks - 1) \div Ticks

(* Seeded fault: iat is rounded to the nearest second                      *)
IssuedRounded(t) == Second(t + Ticks \div 2)

(* setIssuedAt, and iat of the admin payload.                              *)
Issued(t) == Second(t)

Expired(t) == token[t].exp <= Second(now)

(* What the verifier finds out without Redis, and from Redis.              *)
RefusedLocally(t) ==
  \/ token[t].kind = "pax" /\ token[t].iat * Ticks < cutover
  \/ token[t].kind = "admin" /\ t \in revoked
RefusedByRedis(t) ==
  /\ redis
  /\ \/ token[t].kind = "pax" /\ cutMirror.until > now /\ token[t].iat * Ticks < cutMirror.at
     \/ token[t].kind = "admin" /\ jtiMirror[t] > now

(* verifyPaxSessionToken, verifyAdminToken while Redis answers.            *)
Refused(t) == Expired(t) \/ RefusedLocally(t) \/ RefusedByRedis(t)

(* And whatever Redis does: a check that fails lets the token pass.        *)
MayPass(t) == token[t].kind # "none" /\ ~Expired(t) /\ ~RefusedLocally(t)

-----------------------------------------------------------------------------
(* A sign-in of the passenger: getOrCreate keeps the row there may be.     *)
SignIn(t) ==
  /\ token[t] = Unsigned /\ t \notin login
  /\ login' = login \cup {t}
  /\ plan' = IF plan = "none" THEN "premium" ELSE plan
  /\ UNCHANGED <<now, token, cutover, mirrors, revoked, redis, wire, request, boots>>

Sign(t, kind, life) ==
  token' = [token EXCEPT ![t] =
    [kind |-> kind, at |-> now, iat |-> Issued(now), exp |-> Second(now + life)]]

(* What account-login and the boarding pass routes put into the token,     *)
(* whatever the registry row says.                                         *)
SignedPlan == "premium"

(* createSessionResponse; a temporary session lives as long as its flight  *)
(* asks for.                                                               *)
MintPax(t) ==
  /\ t \in login
  /\ \E life \in {Ticks, LongestLife} : Sign(t, "pax", life)
  /\ login' = login \ {t}
  /\ UNCHANGED <<now, cutover, mirrors, revoked, redis, wire, plan, request, boots>>

(* POST /login.                                                            *)
AdminLogin(t) ==
  /\ token[t] = Unsigned /\ t \notin login
  /\ Sign(t, "admin", LongestLife)
  /\ UNCHANGED <<now, cutover, mirrors, revoked, redis, wire, plan, request, login, boots>>

(* PATCH /passengers/:id with a plan, and DELETE: the row first.           *)
PatchPlan(p) ==
  /\ plan \in Plans /\ request = "none"
  /\ plan' = p /\ request' = "patch"
  /\ UNCHANGED <<now, token, cutover, mirrors, revoked, redis, wire, login, boots>>

DeletePassenger ==
  /\ plan # "none" /\ request = "none"
  /\ plan' = "none" /\ request' = "delete"
  /\ UNCHANGED <<now, token, cutover, mirrors, revoked, redis, wire, login, boots>>

(* revokePaxSessionsForPassenger: one Date.now() for both copies.          *)
RevokePax ==
  /\ request # "none" /\ wire = NoCommand
  /\ cutover' = now
  /\ wire' = IF redis THEN [set |-> "cutover", at |-> now] ELSE NoCommand
  /\ request' = "none"
  /\ UNCHANGED <<now, token, mirrors, revoked, redis, plan, login, boots>>

(* POST /logout with a token that still verifies: revokeAdminToken.        *)
Logout(t) ==
  /\ token[t].kind = "admin" /\ MayPass(t) /\ wire = NoCommand
  /\ revoked' = revoked \cup {t}
  /\ wire' = LET left == SecondsUp(token[t].exp * Ticks - now)
             IN IF redis THEN [set |-> "jti", of |-> t, ttl |-> IF left < 1 THEN 1 ELSE left]
                         ELSE NoCommand
  /\ UNCHANGED <<now, token, cutover, mirrors, redis, plan, request, login, boots>>

(* Seeded fault: the mirror gets the life of the session, not the          *)
(* cutover's                                                               *)
RedisSetBriefly ==
  /\ wire # NoCommand
  /\ IF wire.set = "cutover"
     THEN cutMirror' = [at |-> wire.at, until |-> now + Ticks] /\ UNCHANGED jtiMirror
     ELSE jtiMirror' = [jtiMirror EXCEPT ![wire.of] = now + Ticks] /\ UNCHANGED cutMirror
  /\ wire' = NoCommand
  /\ UNCHANGED <<now, token, cutover, revoked, redis, plan, request, login, boots>>

(* SET ... EX; or it fails, which is logged.                               *)
RedisSet ==
  /\ wire # NoCommand
  /\ IF wire.set = "cutover"
     THEN /\ cutMirror' = [at |-> wire.at, until |-> now + Ticks * SecondsUp(CutoverLife)]
          /\ UNCHANGED jtiMirror
     ELSE /\ jtiMirror' = [jtiMirror EXCEPT ![wire.of] = now + Ticks * wire.ttl]
          /\ UNCHANGED cutMirror
  /\ wire' = NoCommand
  /\ UNCHANGED <<now, token, cutover, revoked, redis, plan, request, login, boots>>

RedisFails ==
  /\ wire # NoCommand
  /\ wire' = NoCommand
  /\ UNCHANGED <<now, token, cutover, mirrors, revoked, redis, plan, request, login, boots>>

(* The sweep timers.                                                       *)
SweepCutover ==
  /\ cutover # 0 /\ cutover < now - CutoverLife
  /\ cutover' = 0
  /\ UNCHANGED <<now, token, mirrors, revoked, redis, wire, plan, request, login, boots>>

SweepRevoked ==
  /\ \E t \in revoked : now >= token[t].exp * Ticks
  /\ revoked' = {t \in revoked : now < token[t].exp * Ticks}
  /\ UNCHANGED <<now, token, cutover, mirrors, redis, wire, plan, request, login, boots>>

(* Requests under way and both maps end with the process.                  *)
Restart ==
  /\ boots < MaxBoots
  /\ boots' = boots + 1
  /\ cutover' = 0 /\ revoked' = {}
  /\ wire' = NoCommand /\ request' = "none" /\ login' = {}
  /\ UNCHANGED <<now, token, mirrors, redis, plan>>

Tick ==
  /\ now < LastTick
  /\ now' = now + 1
  /\ UNCHANGED <<token, cutover, mirrors, revoked, redis, wire, plan, request, login, boots>>

SessionNext ==
  \/ \E t \in Tokens : SignIn(t) \/ MintPax(t) \/ AdminLogin(t) \/ Logout(t)
  \/ \E p \in Plans : PatchPlan(p)
  \/ DeletePassenger \/ RevokePax \/ RedisSet \/ RedisFails
  \/ SweepCutover \/ SweepRevoked \/ Restart \/ Tick

SessionSpec == SessionInit /\ [][SessionNext]_sessionVars

-----------------------------------------------------------------------------
(* Tokens signed before the cutover are refused although they carry whole  *)
(* seconds, and none outlives the time a cutover is remembered.            *)
CutoverCovers ==
  \A t \in Tokens : token[t].kind = "pax" =>
    /\ token[t].at < cutover => RefusedLocally(t)
    /\ token[t].exp * Ticks <= token[t].at + CutoverLife

SessionInv == SessionTypeOK /\ CutoverCovers

(* A token once refused is never accepted again: sweeps, the end of a      *)
(* Redis entry and later revocations bring none back. Only a restart can,  *)
(* and then only one that Redis was not told of.                           *)
RefusedStays ==
  [][\A t \in Tokens : token[t] # Unsigned /\ Refused(t) =>
       Refused(t)' \/ (boots' # boots /\ ~RefusedByRedis(t))]_sessionVars

(* A changed plan reaches the sessions: paxSessionRevocation.ts:5-7 says   *)
(* that already issued tokens have to stop reflecting the old state, "not  *)
(* just sessions issued from then on".                                     *)
PlanReachesSessions ==
  plan \in Plans /\ request = "none" =>
    \A t \in Tokens : token[t].kind = "pax" /\ ~Refused(t) => SignedPlan = plan

=============================================================================
