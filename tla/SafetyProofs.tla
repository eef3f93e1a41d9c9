---------------------------- MODULE SafetyProofs ----------------------------
(* What the server does for a passenger besides the map, for any number of    *)
(* tabs, tokens, messages, pages and minutes: the reminder of who has left,   *)
(* sessions and their revocation, chat histories, journeys and the estimates  *)
(* of the time still needed.                                                  *)
EXTENDS MCSafety, FiniteSetTheorems, SequenceTheorems, TLAPS

-----------------------------------------------------------------------------
(* AwayPush. The invariant is inductive as it stands: a timer that does not   *)
(* carry the token may run out at any time.                                   *)
LEMMA AwayTypes ==
  ASSUME AwayInv
  PROVE  /\ visible \in [Tabs -> BOOLEAN] /\ calls \subseteq TabCalls
         /\ awayToken \in 0..aways /\ aways \in 0..MaxAway /\ aways \in Nat
         /\ timers \in [1..MaxAway -> 0..AwayFor]
         /\ awayToken # 0 => awayToken \in 1..MaxAway
         /\ AwayFor \in Nat /\ AwayFor > 0 /\ MaxAway \in Nat
BY AwayAssumption DEF AwayInv

LEMMA RequestsPreserveAway ==
  ASSUME AwayInv, NEW c \in TabCalls, Away(c) \/ Back(c)
  PROVE  AwayInv'
<1>1. CASE Away(c)
  <2>1. /\ aways < MaxAway /\ aways' = aways + 1 /\ awayToken' = aways'
        /\ timers' = [timers EXCEPT ![aways'] = AwayFor] /\ remains' = AwayFor
        /\ calls' \subseteq TabCalls /\ UNCHANGED <<visible, subs, gone, told>>
    BY <1>1 DEF Away, AwayInv
  <2>2. aways' \in 1..MaxAway /\ awayToken' \in 0..aways'
    BY <2>1, AwayTypes
  <2>3. timers' \in [1..MaxAway -> 0..AwayFor] /\ timers'[awayToken'] = AwayFor
    BY <2>1, <2>2, AwayTypes
  <2> QED BY <2>1, <2>2, <2>3, AwayTypes DEF AwayInv
<1>2. CASE Back(c)
  BY <1>2, AwayTypes DEF Back, AwayInv
<1> QED BY <1>1, <1>2

LEMMA TimePreservesAway ==
  ASSUME AwayInv, AwayTick \/ (\E n \in 1..MaxAway : AwayTimer(n))
  PROVE  AwayInv'
<1>1. CASE AwayTick
  <2>1. /\ \A n \in 1..aways : timers[n] # 1
        /\ timers' = [n \in 1..MaxAway |-> IF timers[n] > 1 THEN timers[n] - 1 ELSE timers[n]]
        /\ remains' = IF remains > 1 THEN remains - 1 ELSE remains
        /\ UNCHANGED <<visible, calls, awayToken, aways, subs, gone, told>>
    BY <1>1 DEF AwayTick
  <2>2. \A n \in 1..MaxAway : timers[n] \in 0..AwayFor
    BY AwayTypes
  <2>3. timers' \in [1..MaxAway -> 0..AwayFor]
    BY <2>1, <2>2, AwayTypes
  <2>4. remains \in 0..AwayFor
    BY DEF AwayInv
  <2>5. remains' \in 0..AwayFor /\ (remains' = 0 <=> remains = 0)
    BY <2>1, <2>4, AwayTypes
  <2>6. awayToken # 0 => timers'[awayToken] = remains'
    BY <2>1, <2>2, <2>4, AwayTypes DEF AwayInv
  <2> QED BY <2>1, <2>3, <2>5, <2>6, AwayTypes DEF AwayInv
<1>2. ASSUME NEW n \in 1..MaxAway, AwayTimer(n) PROVE AwayInv'
  <2>1. /\ timers' = [timers EXCEPT ![n] = 0]
        /\ \/ awayToken = n /\ awayToken' = 0 /\ told' = told \cup subs /\ remains' = 0
           \/ awayToken # n /\ UNCHANGED <<awayToken, told, remains>>
        /\ UNCHANGED <<visible, calls, aways, subs, gone>>
    BY <1>2 DEF AwayTimer
  <2>2. timers' \in [1..MaxAway -> 0..AwayFor]
    BY <2>1, AwayTypes
  <2>3. awayToken' # 0 => timers'[awayToken'] = timers[awayToken']
    BY <2>1, AwayTypes
  <2> QED BY <2>1, <2>2, <2>3, AwayTypes DEF AwayInv
<1> QED BY <1>1, <1>2

LEMMA AwayPreserves == AwayInv /\ [AwayNext]_awayVars => AwayInv'
<1> SUFFICES ASSUME AwayInv, [AwayNext]_awayVars PROVE AwayInv'
  OBVIOUS
<1>1. CASE UNCHANGED awayVars
  BY <1>1 DEF awayVars, AwayInv
<1>2. ASSUME NEW t \in Tabs, TurnsAway(t) PROVE AwayInv'
  <2>1. visible' \in [Tabs -> BOOLEAN]
    BY <1>2, AwayTypes DEF TurnsAway
  <2>2. calls' \subseteq TabCalls
    BY <1>2, AwayTypes DEF TurnsAway, TabCalls
  <2> QED BY <1>2, <2>1, <2>2 DEF TurnsAway, AwayInv
<1>3. ASSUME NEW e \in Endpoints, Subscribe(e) \/ SendReminder(e) \/ Unsubscribe(e)
      PROVE  AwayInv'
  BY <1>3 DEF Subscribe, SendReminder, Unsubscribe, AwayInv
<1> QED BY <1>1, <1>2, <1>3, RequestsPreserveAway, TimePreservesAway DEF AwayNext

(* However the requests of several tabs are lost and overtake each other: a    *)
(* reminder is due exactly while the last one served was a leave, on the one   *)
(* timer that carries the token.                                               *)
THEOREM AwayInvariant == AwaySpec => []AwayInv
<1>1. AwayInit => AwayInv
  BY AwayAssumption DEF AwayInit, AwayInv
<1> QED BY <1>1, AwayPreserves, PTL DEF AwaySpec

-----------------------------------------------------------------------------
(* Sessions: seconds and ticks.                                               *)
LEMMA Rounds ==
  ASSUME NEW x \in Nat
  PROVE  Second(x) \in Nat /\ Second(x) * Ticks <= x /\ x < Second(x) * Ticks + Ticks
BY SessionsAssumption DEF Second

LEMMA RoundsUp ==
  ASSUME NEW d \in Int
  PROVE  SecondsUp(d) \in Int /\ SecondsUp(d) * Ticks >= d /\ (d > 0 => SecondsUp(d) > 0)
<1>1. /\ Ticks \in Nat /\ Ticks > 0 /\ d + Ticks - 1 \in Int
  BY SessionsAssumption
<1>2. /\ (d + Ticks - 1) \div Ticks \in Int
      /\ d + Ticks - 1 < ((d + Ticks - 1) \div Ticks) * Ticks + Ticks
  BY <1>1
<1>3. SecondsUp(d) \in Int /\ SecondsUp(d) * Ticks >= d
  BY <1>1, <1>2 DEF SecondsUp
<1>4. d > 0 => SecondsUp(d) > 0
  BY <1>1, <1>3
<1> QED BY <1>3, <1>4

LEMMA SecondsPass ==
  ASSUME NEW e \in Nat, NEW n \in Nat
  PROVE  e * Ticks <= n <=> e <= Second(n)
<1>1. Ticks \in Nat /\ Ticks > 0 /\ Second(n) \in Nat
      /\ Second(n) * Ticks <= n /\ n < Second(n) * Ticks + Ticks
  BY Rounds, SessionsAssumption
<1>2. CASE e <= Second(n)
  BY <1>1, <1>2
<1>3. CASE e >= Second(n) + 1
  <2>1. e * Ticks >= (Second(n) + 1) * Ticks
    BY <1>1, <1>3
  <2> QED BY <1>1, <1>3, <2>1
<1> QED BY <1>1, <1>2, <1>3

(* A token is signed not before the second it carries, and expires before a    *)
(* cutover that refuses it is forgotten.                                       *)
InTime(k) ==
  k.kind = "pax" => k.iat * Ticks <= k.at /\ k.exp * Ticks <= k.iat * Ticks + CutoverLife

(* A mirror stands as long as what it refuses; a command under way is newer.   *)
CutoverMirrored(m, n) == m.at <= n /\ (m.at # 0 => m.at + CutoverLife <= m.until)
Mirrored(k, until) == until # 0 => k.kind = "admin" /\ k.exp * Ticks <= until
UnderWay(w, m, k, n) ==
  CASE w.set = "cutover" -> m.at <= w.at /\ w.at <= n
    [] w.set = "jti" -> w.ttl > 0 /\ k[w.of].kind = "admin" /\ k[w.of].exp * Ticks <= n + Ticks * w.ttl
    [] OTHER -> TRUE

SessionIInv ==
  /\ SessionTypeOK
  /\ \A t \in Tokens : InTime(token[t]) /\ Mirrored(token[t], jtiMirror[t])
  /\ \A t \in login : token[t] = Unsigned
  /\ cutover <= now /\ CutoverMirrored(cutMirror, now)
  /\ wire # NoCommand => redis
  /\ UnderWay(wire, cutMirror, token, now)

LEMMA SessionTypes ==
  ASSUME SessionTypeOK
  PROVE  /\ now \in Nat /\ now > 0 /\ now <= LastTick /\ cutover \in Nat
         /\ \A t \in Tokens : /\ token[t] = Unsigned \/ token[t] \in Signed
                              /\ token[t] # Unsigned <=> token[t] \in Signed
                              /\ token[t].kind \in {"pax", "admin"} => token[t] \in Signed
                              /\ jtiMirror[t] \in Nat
         /\ \A k \in Signed : /\ k.at \in Nat /\ k.iat \in Nat /\ k.exp \in Nat
                              /\ k.kind \in {"pax", "admin"}
         /\ cutMirror.at \in Nat /\ cutMirror.until \in Nat
         /\ wire = NoCommand \/ wire.set \in {"cutover", "jti"}
         /\ wire.set = "cutover" => wire.at \in Nat /\ wire.at <= LastTick
         /\ wire.set = "jti" => wire.of \in Tokens /\ wire.ttl \in Nat
<1>1. \A k \in Signed : /\ k.at \in Nat /\ k.iat \in Nat /\ k.exp \in Nat
                        /\ k.kind \in {"pax", "admin"}
  BY SessionsAssumption DEF Signed
<1>2. now \in Nat /\ now > 0 /\ now <= LastTick /\ cutover \in Nat
  BY SessionsAssumption DEF SessionTypeOK
<1>3. \A t \in Tokens : token[t] \in {Unsigned} \cup Signed /\ jtiMirror[t] \in Nat
  BY DEF SessionTypeOK
<1>4. Unsigned \notin Signed /\ Unsigned.kind = "none"
  BY DEF Unsigned, Signed
<1>5. cutMirror.at \in Nat /\ cutMirror.until \in Nat
  BY SessionsAssumption DEF SessionTypeOK
<1>6. CASE wire = NoCommand
  BY <1>1, <1>2, <1>3, <1>4, <1>5, <1>6 DEF NoCommand
<1>7. CASE wire \in [set : {"cutover"}, at : 1..LastTick]
  <2>1. wire.set = "cutover" /\ wire.at \in 1..LastTick
    BY <1>7
  <2> QED BY <1>1, <1>2, <1>3, <1>4, <1>5, <2>1, SessionsAssumption
<1>8. CASE wire \in [set : {"jti"}, of : Tokens, ttl : Nat]
  <2>1. wire.set = "jti" /\ wire.of \in Tokens /\ wire.ttl \in Nat
    BY <1>8
  <2> QED BY <1>1, <1>2, <1>3, <1>4, <1>5, <2>1
<1> QED BY <1>6, <1>7, <1>8 DEF SessionTypeOK

LEMMA SessionIInvSuffices == SessionIInv => SessionInv
<1> SUFFICES ASSUME SessionIInv, NEW t \in Tokens, token[t].kind = "pax"
             PROVE  /\ token[t].at < cutover => RefusedLocally(t)
                    /\ token[t].exp * Ticks <= token[t].at + CutoverLife
  BY DEF SessionIInv, SessionInv, CutoverCovers
<1>1. /\ token[t].at \in Nat /\ token[t].iat * Ticks \in Nat /\ token[t].exp * Ticks \in Nat
      /\ cutover \in Nat /\ CutoverLife \in Nat
  BY SessionTypes, SessionsAssumption DEF SessionIInv
<1> QED BY <1>1 DEF SessionIInv, InTime, RefusedLocally

LEMMA SignFits ==
  ASSUME SessionIInv, NEW t \in Tokens, token[t] = Unsigned, NEW kind \in {"pax", "admin"},
         NEW life \in {Ticks, LongestLife}, Sign(t, kind, life),
         UNCHANGED <<now, cutover, mirrors, revoked, redis, wire, plan, request, boots>>,
         login' \subseteq Tokens, t \notin login',
         \A u \in login' \ {t} : u \in login
  PROVE  SessionIInv'
<1> DEFINE k == [kind |-> kind, at |-> now, iat |-> Issued(now), exp |-> Second(now + life)]
<1>1. /\ now \in 1..LastTick /\ now \in Nat /\ life \in Nat /\ now + life \in Nat /\ Ticks \in Nat
      /\ LongestLife \in Nat /\ CutoverLife \in Nat /\ Ticks > 0
      /\ CutoverLife >= LongestLife + Ticks
  BY SessionsAssumption DEF SessionIInv, SessionTypeOK
<1>2. /\ Second(now) \in Nat /\ Second(now) * Ticks <= now /\ now < Second(now) * Ticks + Ticks
      /\ Second(now + life) \in Nat /\ Second(now + life) * Ticks <= now + life
      /\ Second(now) * Ticks \in Nat /\ Second(now + life) * Ticks \in Nat
  BY <1>1, Rounds
<1>3. k \in Signed
  BY <1>1, <1>2 DEF Signed, Issued
<1>4. Second(now + life) * Ticks <= Second(now) * Ticks + CutoverLife
  <2>1. CASE life = LongestLife
    BY <1>1, <1>2, <2>1
  <2>2. CASE life = Ticks
    <3>1. (now + Ticks) \div Ticks = (now \div Ticks) + 1
      BY <1>1
    <3>2. Second(now + life) * Ticks = Second(now) * Ticks + Ticks
      BY <1>1, <1>2, <2>2, <3>1 DEF Second
    <3> QED BY <1>1, <1>2, <3>2
  <2> QED BY <2>1, <2>2
<1>5. InTime(k)
  BY <1>2, <1>4 DEF InTime, Issued
<1>6. token' = [token EXCEPT ![t] = k]
  BY DEF Sign
<1> HIDE DEF k
<1>7. jtiMirror[t] = 0 /\ (wire.set = "jti" => wire.of # t)
  <2>1. Unsigned.kind = "none"
    BY DEF Unsigned
  <2>2. Mirrored(token[t], jtiMirror[t]) /\ UnderWay(wire, cutMirror, token, now)
    BY DEF SessionIInv
  <2> QED BY <2>1, <2>2 DEF Mirrored, UnderWay
<1>8. SessionTypeOK'
  BY <1>3, <1>6 DEF SessionIInv, SessionTypeOK, mirrors
<1>9. \A u \in Tokens : InTime(token'[u]) /\ Mirrored(token'[u], jtiMirror[u])
  BY <1>5, <1>6, <1>7 DEF SessionIInv, SessionTypeOK, Mirrored
<1>10. \A u \in login' : token'[u] = Unsigned
  BY <1>6 DEF SessionIInv, SessionTypeOK
<1>11. UnderWay(wire, cutMirror, token', now)
  <2>1. wire.set = "jti" => token'[wire.of] = token[wire.of]
    BY <1>6, <1>7, SessionTypes DEF SessionIInv, SessionTypeOK
  <2> QED BY <2>1 DEF SessionIInv, UnderWay
<1> QED BY <1>8, <1>9, <1>10, <1>11 DEF SessionIInv, mirrors

(* Neither time nor a command that has come or failed makes a mirror unfit.    *)
LEMMA MirrorsPreserve ==
  ASSUME SessionIInv, RedisSet \/ RedisFails \/ Tick
  PROVE  SessionIInv'
<1>1. SessionTypeOK /\ Ticks \in Nat /\ Ticks > 0 /\ CutoverLife \in Nat
  BY SessionsAssumption DEF SessionIInv
<1>2. CASE RedisFails
  <2>1. UnderWay(NoCommand, cutMirror, token, now)
    BY DEF UnderWay, NoCommand
  <2>2. SessionTypeOK'
    BY <1>1, <1>2 DEF RedisFails, SessionTypeOK, mirrors
  <2> QED BY <1>2, <2>1, <2>2 DEF RedisFails, SessionIInv, mirrors
<1>3. CASE Tick
  <2>1. now' = now + 1 /\ now' \in 1..LastTick
        /\ UNCHANGED <<token, cutover, cutMirror, jtiMirror, revoked, redis, wire, plan, request,
                       login, boots>>
    BY <1>1, <1>3, SessionsAssumption DEF Tick, SessionTypeOK, mirrors
  <2>2. SessionTypeOK'
    BY <1>1, <2>1 DEF SessionTypeOK
  <2>3. CutoverMirrored(cutMirror, now')
    BY <1>1, <2>1, SessionTypes DEF SessionIInv, CutoverMirrored
  <2>4. UnderWay(wire, cutMirror, token, now')
    <3>1. wire.set = "jti" /\ token[wire.of].kind = "admin"
            => token[wire.of].exp * Ticks \in Nat /\ Ticks * wire.ttl \in Nat
      BY <1>1, SessionTypes
    <3> QED BY <1>1, <2>1, <3>1, SessionTypes DEF SessionIInv, UnderWay
  <2> QED BY <1>1, <2>1, <2>2, <2>3, <2>4, SessionTypes DEF SessionIInv
<1>4. CASE RedisSet
  <2>1. /\ wire # NoCommand /\ wire' = NoCommand
        /\ UNCHANGED <<now, token, cutover, revoked, redis, plan, request, login, boots>>
        /\ \/ /\ wire.set = "cutover" /\ UNCHANGED jtiMirror
              /\ cutMirror' = [at |-> wire.at, until |-> now + Ticks * SecondsUp(CutoverLife)]
           \/ /\ wire.set = "jti" /\ UNCHANGED cutMirror
              /\ jtiMirror' = [jtiMirror EXCEPT ![wire.of] = now + Ticks * wire.ttl]
    BY <1>1, <1>4, SessionTypes DEF RedisSet
  <2>2. UnderWay(wire', cutMirror', token, now)
    BY <2>1 DEF UnderWay, NoCommand
  <2>3. CASE wire.set = "cutover"
    <3>1. wire.at \in 0..LastTick /\ wire.at <= now
      BY <2>3, <1>1, SessionTypes DEF SessionIInv, UnderWay
    <3>2. /\ SecondsUp(CutoverLife) \in Int /\ SecondsUp(CutoverLife) * Ticks >= CutoverLife
      BY <1>1, RoundsUp
    <3>3. PICK until \in Int : until = now + Ticks * SecondsUp(CutoverLife)
      BY <1>1, <3>2, SessionTypes
    <3>4. until \in Nat /\ wire.at + CutoverLife <= until
      BY <1>1, <3>1, <3>2, <3>3, SessionTypes
    <3>5. cutMirror' = [at |-> wire.at, until |-> until] /\ jtiMirror' = jtiMirror
      BY <2>1, <2>3, <3>3
    <3>6. CutoverMirrored(cutMirror', now)
      BY <3>1, <3>4, <3>5 DEF CutoverMirrored
    <3>7. SessionTypeOK'
      BY <1>1, <2>1, <3>1, <3>4, <3>5 DEF SessionTypeOK
    <3> QED BY <2>1, <2>2, <3>5, <3>6, <3>7 DEF SessionIInv
  <2>4. CASE wire.set = "jti"
    <3>1. /\ wire.of \in Tokens /\ wire.ttl \in Nat /\ token[wire.of].kind = "admin"
          /\ token[wire.of].exp * Ticks <= now + Ticks * wire.ttl
      BY <1>1, <2>4, SessionTypes DEF SessionIInv, UnderWay
    <3>2. PICK until \in Nat : until = now + Ticks * wire.ttl
      BY <1>1, <3>1, SessionTypes
    <3>3. jtiMirror' = [jtiMirror EXCEPT ![wire.of] = until] /\ cutMirror' = cutMirror
      BY <2>1, <2>4, <3>2
    <3>4. SessionTypeOK'
      BY <1>1, <2>1, <3>3 DEF SessionTypeOK
    <3>5. \A t \in Tokens : Mirrored(token[t], jtiMirror'[t])
      BY <1>1, <3>1, <3>2, <3>3 DEF SessionIInv, SessionTypeOK, Mirrored
    <3> QED BY <2>1, <2>2, <3>3, <3>4, <3>5 DEF SessionIInv
  <2> QED BY <2>1, <2>3, <2>4
<1> QED BY <1>2, <1>3, <1>4

LEMMA RevocationsPreserve ==
  ASSUME SessionIInv, RevokePax \/ (\E t \in Tokens : Logout(t))
  PROVE  SessionIInv'
<1>1. /\ SessionTypeOK /\ Ticks \in Nat /\ Ticks > 0 /\ now \in 1..LastTick /\ now \in Nat
  BY SessionsAssumption, SessionTypes DEF SessionIInv, SessionTypeOK
<1>2. CASE RevokePax
  <2>1. /\ cutover' = now /\ wire = NoCommand /\ request' = "none"
        /\ wire' = IF redis THEN [set |-> "cutover", at |-> now] ELSE NoCommand
        /\ UNCHANGED <<now, token, cutMirror, jtiMirror, revoked, redis, plan, login, boots>>
    BY <1>2 DEF RevokePax, mirrors
  <2>2. SessionTypeOK'
    BY <1>1, <2>1 DEF SessionTypeOK
  <2>3. UnderWay(wire', cutMirror, token, now)
    BY <1>1, <2>1 DEF SessionIInv, CutoverMirrored, UnderWay, NoCommand
  <2> QED BY <1>1, <2>1, <2>2, <2>3 DEF SessionIInv
<1>3. ASSUME NEW t \in Tokens, Logout(t) PROVE SessionIInv'
  <2> DEFINE left == SecondsUp(token[t].exp * Ticks - now)
             ttl == IF left < 1 THEN 1 ELSE left
  <2>1. /\ token[t].kind = "admin" /\ revoked' = revoked \cup {t}
        /\ wire' = IF redis THEN [set |-> "jti", of |-> t, ttl |-> ttl] ELSE NoCommand
        /\ UNCHANGED <<now, token, cutover, cutMirror, jtiMirror, redis, plan, request, login, boots>>
    BY <1>3 DEF Logout, mirrors
  <2>2. token[t].exp * Ticks \in Nat
    BY <1>1, <2>1, SessionTypes
  <2>3. left \in Int /\ left * Ticks >= token[t].exp * Ticks - now
    BY <1>1, <2>2, RoundsUp
  <2> HIDE DEF left
  <2>4. ttl \in Nat /\ ttl > 0 /\ ttl >= left
    BY <2>3
  <2>5. Ticks * ttl >= left * Ticks /\ Ticks * ttl \in Nat
    BY <1>1, <2>3, <2>4
  <2>6. token[t].exp * Ticks <= now + Ticks * ttl
    BY <1>1, <2>2, <2>3, <2>5
  <2> HIDE DEF ttl
  <2>7. SessionTypeOK'
    BY <1>1, <2>1, <2>4 DEF SessionTypeOK
  <2>8. UnderWay(wire', cutMirror, token, now)
    BY <2>1, <2>4, <2>6 DEF UnderWay, NoCommand
  <2> QED BY <1>1, <2>1, <2>7, <2>8 DEF SessionIInv
<1> QED BY <1>2, <1>3

LEMMA SessionPreserves == SessionIInv /\ [SessionNext]_sessionVars => SessionIInv'
<1> SUFFICES ASSUME SessionIInv, [SessionNext]_sessionVars PROVE SessionIInv'
  OBVIOUS
<1>1. SessionTypeOK /\ now \in Nat /\ cutover \in Nat
  BY SessionTypes DEF SessionIInv
<1>2. CASE UNCHANGED sessionVars
  BY <1>1, <1>2 DEF sessionVars, mirrors, SessionIInv, SessionTypeOK
<1>3. ASSUME NEW t \in Tokens, SignIn(t) PROVE SessionIInv'
  <2>1. SessionTypeOK'
    BY <1>1, <1>3 DEF SignIn, SessionTypeOK, mirrors, Plans
  <2> QED BY <1>3, <2>1 DEF SignIn, SessionIInv, mirrors
<1>4. ASSUME NEW t \in Tokens, MintPax(t) PROVE SessionIInv'
  <2>1. PICK life \in {Ticks, LongestLife} : Sign(t, "pax", life)
    BY <1>4 DEF MintPax
  <2>2. token[t] = Unsigned
    BY <1>4 DEF MintPax, SessionIInv
  <2> QED BY <1>1, <1>4, <2>1, <2>2, SignFits DEF MintPax, SessionTypeOK
<1>5. ASSUME NEW t \in Tokens, AdminLogin(t) PROVE SessionIInv'
  BY <1>1, <1>5, SignFits DEF AdminLogin, SessionTypeOK
<1>6. ASSUME NEW p \in Plans, PatchPlan(p) \/ DeletePassenger PROVE SessionIInv'
  <2>1. SessionTypeOK'
    BY <1>1, <1>6 DEF PatchPlan, DeletePassenger, SessionTypeOK, mirrors
  <2> QED BY <1>6, <2>1 DEF PatchPlan, DeletePassenger, SessionIInv, mirrors
<1>7. CASE SweepCutover \/ SweepRevoked
  <2>1. SessionTypeOK'
    BY <1>1, <1>7, SessionsAssumption DEF SweepCutover, SweepRevoked, SessionTypeOK, mirrors
  <2> QED BY <1>1, <1>7, <2>1 DEF SweepCutover, SweepRevoked, SessionIInv, mirrors
<1>8. CASE Restart
  <2>1. SessionTypeOK'
    BY <1>1, <1>8, SessionsAssumption DEF Restart, SessionTypeOK, mirrors
  <2>2. UnderWay(NoCommand, cutMirror, token, now)
    BY DEF UnderWay, NoCommand
  <2> QED BY <1>1, <1>8, <2>1, <2>2 DEF Restart, SessionIInv, mirrors
<1> QED BY <1>2, <1>3, <1>4, <1>5, <1>6, <1>7, <1>8, MirrorsPreserve, RevocationsPreserve
        DEF SessionNext, Plans

LEMMA InitSession == SessionInit => SessionIInv
<1> SUFFICES ASSUME SessionInit PROVE SessionIInv
  OBVIOUS
<1>1. LastTick \in Nat /\ 1 \in 1..LastTick /\ 0 \in 0..LastTick /\ 0 \in 0..MaxBoots
  BY SessionsAssumption
<1>2. SessionTypeOK
  BY <1>1 DEF SessionInit, SessionTypeOK, NotMirrored
<1> QED BY <1>2, SessionsAssumption
        DEF SessionInit, SessionIInv, InTime, Mirrored, CutoverMirrored, UnderWay,
            Unsigned, NotMirrored, NoCommand

(* Tokens signed before a cutover are refused although they carry whole        *)
(* seconds, and none outlives the time a cutover is remembered.                *)
THEOREM SessionInvariant == SessionSpec => []SessionInv
<1> QED BY InitSession, SessionPreserves, SessionIInvSuffices, PTL DEF SessionSpec

(* A refused token stays refused: first while time stands still, then when a   *)
(* memory ends or time passes, and it has expired by then.                     *)
LEMMA TokenKept ==
  ASSUME SessionIInv, [SessionNext]_sessionVars, NEW t \in Tokens, token[t] # Unsigned
  PROVE  token'[t] = token[t]
<1>1. token \in [Tokens -> {Unsigned} \cup Signed] /\ \A u \in login : token[u] = Unsigned
  BY DEF SessionIInv, SessionTypeOK
<1>2. ASSUME NEW u \in Tokens, MintPax(u) \/ AdminLogin(u) PROVE token'[t] = token[t]
  BY <1>1, <1>2 DEF MintPax, AdminLogin, Sign
<1> QED BY <1>2 DEF SessionNext, sessionVars, SignIn, Logout, PatchPlan, DeletePassenger, RevokePax,
                    RedisSet, RedisFails, SweepCutover, SweepRevoked, Restart, Tick

LEMMA ExpiryStays ==
  ASSUME SessionIInv, NEW k \in Signed, NEW n \in Nat, n >= now, k.exp <= Second(now)
  PROVE  k.exp <= Second(n)
<1>1. k.exp \in Nat /\ k.exp * Ticks \in Nat /\ now \in Nat
  BY SessionTypes, SessionsAssumption DEF SessionIInv
<1> QED BY <1>1, SecondsPass

(* What a cutover refuses has expired when the cutover is forgotten.           *)
LEMMA ForgottenExpired ==
  ASSUME SessionIInv, NEW t \in Tokens, token[t].kind = "pax", NEW at \in Nat, NEW n \in Nat,
         token[t].iat * Ticks < at, at + CutoverLife <= n
  PROVE  token[t].exp <= Second(n)
<1>1. /\ token[t].exp \in Nat /\ token[t].iat * Ticks \in Nat /\ token[t].exp * Ticks \in Nat
      /\ CutoverLife \in Nat
  BY SessionTypes, SessionsAssumption DEF SessionIInv
<1>2. token[t].exp * Ticks <= n
  BY <1>1 DEF SessionIInv, InTime
<1> QED BY <1>1, <1>2, SecondsPass

LEMMA RefusalStays ==
  ASSUME SessionIInv, [SessionNext]_sessionVars, NEW t \in Tokens, token[t] # Unsigned, Refused(t)
  PROVE  Refused(t)' \/ (boots' # boots /\ ~RefusedByRedis(t))
<1>1. /\ token'[t] = token[t] /\ token[t] \in Signed /\ token[t].kind \in {"pax", "admin"}
      /\ token[t].iat * Ticks \in Nat /\ token[t].exp * Ticks \in Nat /\ token[t].exp \in Nat
  BY TokenKept, SessionTypes, SessionsAssumption DEF SessionIInv
<1>2. /\ now \in Nat /\ cutover \in Nat /\ cutover <= now /\ Ticks \in Nat /\ Ticks > 0
      /\ CutoverLife \in Nat /\ CutoverLife > 0
  BY SessionTypes, SessionsAssumption DEF SessionIInv
<1>3. now' \in Nat /\ now' >= now /\ redis' = redis
  BY <1>2 DEF SessionNext, sessionVars, SignIn, MintPax, AdminLogin, Logout, PatchPlan,
              DeletePassenger, RevokePax, RedisSet, RedisFails, SweepCutover, SweepRevoked,
              Restart, Tick
<1>4. cutover' \in Nat /\ jtiMirror'[t] \in Nat
  BY SessionPreserves, SessionsAssumption DEF SessionIInv, SessionTypeOK
<1>5. CASE Expired(t)
  <2>1. token'[t].exp <= Second(now')
    BY <1>1, <1>3, <1>5, ExpiryStays DEF Expired
  <2> QED BY <2>1 DEF Refused, Expired
<1>6. CASE RefusedLocally(t) /\ ~Expired(t)
  <2>1. CASE token[t].kind = "pax" /\ cutover' >= cutover
    <3>1. token'[t].kind = "pax" /\ token'[t].iat * Ticks < cutover'
      BY <1>1, <1>2, <1>6, <1>4, <2>1 DEF RefusedLocally
    <3> QED BY <3>1 DEF Refused, RefusedLocally
  <2>2. CASE token[t].kind = "admin" /\ t \in revoked'
    BY <1>1, <2>2 DEF Refused, RefusedLocally
  <2>3. CASE Restart
    <3>1. boots \in Nat /\ boots' = boots + 1
      BY <2>3 DEF Restart, SessionIInv, SessionTypeOK
    <3>2. now' = now /\ cutMirror' = cutMirror /\ jtiMirror' = jtiMirror
      BY <2>3 DEF Restart, mirrors
    <3>3. RefusedByRedis(t) => RefusedByRedis(t)'
      BY <1>1, <1>3, <3>2 DEF RefusedByRedis
    <3> QED BY <3>1, <3>3 DEF Refused
  <2>4. CASE SweepCutover /\ token[t].kind = "pax"
    <3>1. cutover + CutoverLife <= now /\ now' = now
      BY <1>2, <2>4 DEF SweepCutover
    <3>2. token[t].exp <= Second(now)
      BY <1>2, <1>6, <2>4, <3>1, ForgottenExpired DEF RefusedLocally
    <3> QED BY <1>6, <3>2 DEF Expired
  <2>5. CASE SweepRevoked /\ token[t].kind = "admin" /\ t \notin revoked'
    <3>1. token[t].exp * Ticks <= now
      BY <1>1, <1>2, <1>6, <2>5 DEF SweepRevoked, RefusedLocally
    <3> QED BY <1>1, <1>2, <1>6, <3>1, SecondsPass DEF Expired
  <2>6. \/ cutover' = cutover \/ cutover' = now \/ SweepCutover \/ Restart
    BY DEF SessionNext, sessionVars, SignIn, MintPax, AdminLogin, Logout, PatchPlan,
           DeletePassenger, RevokePax, RedisSet, RedisFails, SweepRevoked, Tick
  <2>7. \/ revoked \subseteq revoked' \/ SweepRevoked \/ Restart
    BY DEF SessionNext, sessionVars, SignIn, MintPax, AdminLogin, Logout, PatchPlan,
           DeletePassenger, RevokePax, RedisSet, RedisFails, SweepCutover, Tick
  <2>8. CASE token[t].kind = "pax"
    BY <1>2, <2>1, <2>3, <2>4, <2>6, <2>8
  <2>9. CASE token[t].kind = "admin"
    BY <1>6, <2>2, <2>3, <2>5, <2>7, <2>9 DEF RefusedLocally
  <2> QED BY <1>1, <2>8, <2>9
<1>7. CASE RefusedByRedis(t) /\ ~Expired(t)
  <2>1. \/ RedisSet
        \/ Tick
        \/ now' = now /\ cutMirror' = cutMirror /\ jtiMirror' = jtiMirror
    BY DEF SessionNext, sessionVars, SignIn, MintPax, AdminLogin, Logout, PatchPlan,
           DeletePassenger, RevokePax, RedisFails, SweepCutover, SweepRevoked, Restart, mirrors
  <2>2. CASE now' = now /\ cutMirror' = cutMirror /\ jtiMirror' = jtiMirror
    BY <1>1, <1>3, <1>7, <2>2 DEF Refused, RefusedByRedis
  <2>3. CASE Tick
    <3>1. now' = now + 1 /\ cutMirror' = cutMirror /\ jtiMirror' = jtiMirror
      BY <2>3 DEF Tick, mirrors
    <3>2. CASE token[t].kind = "pax"
      <4>1. /\ cutMirror.until \in Nat /\ cutMirror.at \in Nat /\ cutMirror.until > now
            /\ token[t].iat * Ticks < cutMirror.at /\ cutMirror.at + CutoverLife <= cutMirror.until
        BY <1>1, <1>7, <3>2, SessionTypes DEF RefusedByRedis, SessionIInv, CutoverMirrored
      <4>2. CASE cutMirror.until > now'
        BY <1>1, <1>3, <1>7, <3>1, <3>2, <4>1, <4>2 DEF Refused, RefusedByRedis
      <4>3. CASE cutMirror.until <= now'
        <5>1. token[t].exp <= Second(now')
          BY <1>2, <1>3, <3>2, <4>1, <4>3, ForgottenExpired
        <5> QED BY <1>1, <5>1 DEF Refused, Expired
      <4> QED BY <1>3, <4>1, <4>2, <4>3
    <3>3. CASE token[t].kind = "admin"
      <4>1. /\ jtiMirror[t] \in Nat /\ jtiMirror[t] > now /\ token[t].exp * Ticks <= jtiMirror[t]
        BY <1>1, <1>2, <1>7, <3>3, SessionTypes DEF RefusedByRedis, SessionIInv, Mirrored
      <4>2. CASE jtiMirror[t] > now'
        BY <1>1, <1>3, <1>7, <3>1, <3>3, <4>2 DEF Refused, RefusedByRedis
      <4>3. CASE jtiMirror[t] <= now'
        <5>1. token[t].exp <= Second(now')
          BY <1>1, <1>3, <4>1, <4>3, SecondsPass
        <5> QED BY <1>1, <5>1 DEF Refused, Expired
      <4> QED BY <1>3, <4>1, <4>2, <4>3
    <3> QED BY <1>1, <3>2, <3>3
  <2>4. CASE RedisSet
    <3>1. /\ now' = now
          /\ \/ /\ wire.set = "cutover" /\ jtiMirror' = jtiMirror
                /\ cutMirror' = [at |-> wire.at, until |-> now + Ticks * SecondsUp(CutoverLife)]
             \/ /\ wire.set = "jti" /\ cutMirror' = cutMirror
                /\ jtiMirror' = [jtiMirror EXCEPT ![wire.of] = now + Ticks * wire.ttl]
      BY <2>4, SessionTypes DEF RedisSet, SessionIInv
    <3>2. CASE wire.set = "cutover"
      <4>1. /\ wire.at \in Nat /\ cutMirror.at \in Nat /\ cutMirror.at <= wire.at
        BY <3>2, SessionTypes DEF SessionIInv, UnderWay
      <4>2. SecondsUp(CutoverLife) \in Int /\ SecondsUp(CutoverLife) * Ticks >= CutoverLife
        BY <1>2, RoundsUp
      <4>3. PICK until \in Int : until = now + Ticks * SecondsUp(CutoverLife)
        BY <1>2, <4>2
      <4>4. until > now
        BY <1>2, <4>2, <4>3
      <4>5. cutMirror' = [at |-> wire.at, until |-> until] /\ jtiMirror' = jtiMirror
        BY <3>1, <3>2, <4>3
      <4> QED BY <1>1, <1>3, <1>7, <3>1, <4>1, <4>4, <4>5 DEF Refused, RefusedByRedis
    <3>3. CASE wire.set = "jti"
      <4>1. wire.of \in Tokens /\ wire.ttl \in Nat /\ wire.ttl > 0
        BY <3>3, SessionTypes DEF SessionIInv, UnderWay
      <4>2. PICK until \in Nat : until = now + Ticks * wire.ttl /\ until > now
        BY <1>2, <4>1
      <4>3. cutMirror' = cutMirror /\ jtiMirror' = [jtiMirror EXCEPT ![wire.of] = until]
        BY <3>1, <3>3, <4>2
      <4>4. jtiMirror'[t] = jtiMirror[t] \/ jtiMirror'[t] > now
        BY <4>2, <4>3 DEF SessionIInv, SessionTypeOK
      <4>5. RefusedByRedis(t)'
        BY <1>1, <1>3, <1>7, <3>1, <4>3, <4>4 DEF RefusedByRedis
      <4> QED BY <4>5 DEF Refused
    <3> QED BY <3>1, <3>2, <3>3
  <2> QED BY <2>1, <2>2, <2>3, <2>4
<1> QED BY <1>5, <1>6, <1>7 DEF Refused

(* A token once refused is never accepted again: no sweep, no end of a Redis   *)
(* entry and no later revocation brings one back, and a restart only one that  *)
(* Redis was not told of.                                                      *)
THEOREM RefusalIsFinal == SessionSpec => RefusedStays
<1>1. SessionInit => SessionIInv
  BY InitSession
<1>2. SessionIInv /\ [SessionNext]_sessionVars => SessionIInv'
  BY SessionPreserves
<1>3. SessionIInv /\ [SessionNext]_sessionVars =>
        [\A t \in Tokens : token[t] # Unsigned /\ Refused(t) =>
           Refused(t)' \/ (boots' # boots /\ ~RefusedByRedis(t))]_sessionVars
  BY RefusalStays
<1> QED BY <1>1, <1>2, <1>3, PTL DEF SessionSpec, RefusedStays

-----------------------------------------------------------------------------
(* ChatHistory: the newest of a history are at most as many as it may hold,    *)
(* and their own newest.                                                       *)
LEMMA MsgsFinite == ASSUME NEW S, S \subseteq Msg PROVE IsFiniteSet(S)
<1>1. IsFiniteSet(Msg)
  BY FS_Interval, HistoryAssumption DEF Msg
<1> QED BY <1>1, FS_Subset

LEMMA NewestIdempotent ==
  ASSUME NEW S, S \subseteq Msg
  PROVE  /\ Newest(S) \subseteq S /\ Newest(S) \subseteq Msg
         /\ Newest(Newest(S)) = Newest(S)
<1>1. Newest(S) \subseteq S
  BY DEF Newest
<1>2. ASSUME NEW m \in Newest(S)
      PROVE  Cardinality({n \in Newest(S) : n > m}) < Cap
  <2>1. {n \in Newest(S) : n > m} \subseteq {n \in S : n > m} /\ {n \in S : n > m} \subseteq Msg
    BY <1>1
  <2>2. IsFiniteSet({n \in S : n > m})
    BY <2>1, MsgsFinite
  <2>3. /\ IsFiniteSet({n \in Newest(S) : n > m})
        /\ Cardinality({n \in Newest(S) : n > m}) <= Cardinality({n \in S : n > m})
    BY <2>1, <2>2, FS_Subset
  <2>4. /\ Cardinality({n \in Newest(S) : n > m}) \in Nat
        /\ Cardinality({n \in S : n > m}) \in Nat
    BY <2>2, <2>3, FS_CardinalityType
  <2>5. Cardinality({n \in S : n > m}) < Cap
    BY DEF Newest
  <2> QED BY <2>3, <2>4, <2>5, HistoryAssumption
<1>3. Newest(Newest(S)) = Newest(S)
  BY <1>2 DEF Newest
<1> QED BY <1>1, <1>3

LEMMA ChatTypes ==
  ASSUME ChatInv
  PROVE  /\ text \in [Msg -> Texts \cup {Other, "none"}] /\ Sent \subseteq Msg
         /\ row \in [Msg -> {"none", "inserting", "there", "lost", "purged"}]
         /\ reader \in [Readers -> {ReaderIdle} \cup Reader]
         /\ cache \subseteq Sent /\ Newest(cache) = cache /\ Rows \subseteq Sent
         /\ MaxSent \in Nat /\ purge \in 0..MaxSent
         /\ \A r \in Readers : reader[r].at = "read" =>
              /\ reader[r].got \subseteq Sent /\ Newest(reader[r].got) = reader[r].got
BY HistoryAssumption DEF ChatInv, ChatTypeOK, Sent, Rows, HistoriesBounded, OnlyWhatWasSent

(* The promise speaks of histories in the words of the module.                *)
LEMMA PromiseWords ==
  Promise!Msg = Msg /\ Promise!Sent = Sent /\ \A S : Promise!Newest(S) = Newest(S)
<1>1. Promise!Msg = Msg
  BY DEF Promise!Msg, Msg
<1>2. Promise!Sent = Sent
  BY <1>1 DEF Promise!Sent, Sent
<1>3. ASSUME NEW S PROVE Promise!Newest(S) = Newest(S)
  BY DEF Promise!Newest, Newest, Promise!Cardinality, Cardinality
<1> QED BY <1>1, <1>2, <1>3

LEMMA AppendPreservesChat ==
  ASSUME ChatInv, NEW m \in Msg, NEW t \in Texts \cup {Other}, AppendChat(m, t), UNCHANGED reader
  PROVE  ChatInv' /\ Promise!Say(m, t)
<1>1. /\ m \notin Sent /\ \A n \in Msg : n < m => n \in Sent
      /\ text' = [text EXCEPT ![m] = t] /\ cache' = Newest(cache \cup {m})
      /\ row' = [row EXCEPT ![m] = "inserting"] /\ purge' = purge /\ reader' = reader
  BY DEF AppendChat
<1>2. t # "none"
  BY HistoryAssumption
<1>3. Sent' = Sent \cup {m}
  BY <1>1, <1>2, ChatTypes DEF Sent
<1>4. cache' \subseteq cache \cup {m} /\ Newest(cache') = cache'
  <2>1. cache \cup {m} \subseteq Msg
    BY ChatTypes
  <2> QED BY <1>1, <2>1, NewestIdempotent
<1>5. ChatTypeOK'
  BY <1>1, <1>4, ChatTypes DEF ChatTypeOK
<1>6. HistoriesBounded'
  BY <1>1, <1>4 DEF ChatInv, HistoriesBounded, Newest
<1>7. OnlyWhatWasSent'
  BY <1>1, <1>3, <1>4, ChatTypes DEF ChatInv, OnlyWhatWasSent
<1>8. Promise!Say(m, t)
  BY <1>1, PromiseWords DEF Promise!Say
<1> QED BY <1>5, <1>6, <1>7, <1>8 DEF ChatInv

(* Steps of the database, and those that forget.                               *)
LEMMA RowsPreserveChat ==
  ASSUME ChatInv, UNCHANGED text,
         row' \in [Msg -> {"none", "inserting", "there", "lost", "purged"}],
         \A m \in Msg : row'[m] # "none" => row[m] # "none",
         cache' \in {cache, {}}, reader' \in {reader, [r \in Readers |-> ReaderIdle]},
         purge' \in 0..MaxSent
  PROVE  ChatInv' /\ (Promise!Forgotten \/ cache' = cache)
<1>1. Sent' = Sent
  BY DEF Sent
<1>2. cache' \subseteq Msg /\ Newest(cache') = cache'
  <2>1. Newest({}) = {}
    BY DEF Newest
  <2> QED BY <2>1, ChatTypes DEF ChatInv, ChatTypeOK
<1>3. ReaderIdle.at = "idle"
  BY DEF ReaderIdle
<1>4. ChatTypeOK'
  BY <1>2, ChatTypes DEF ChatTypeOK
<1>5. HistoriesBounded'
  BY <1>2, <1>3, ChatTypes DEF HistoriesBounded, Newest
<1>6. OnlyWhatWasSent'
  BY <1>1, <1>3, ChatTypes DEF ChatInv, OnlyWhatWasSent
<1> QED BY <1>4, <1>5, <1>6 DEF ChatInv, Promise!Forgotten

LEMMA ReadersPreserveChat ==
  ASSUME ChatInv, NEW r \in Readers,
         EnsureChatHistory(r) \/ LoadRead(r) \/ LoadReturns(r) \/ LoadFails(r)
  PROVE  ChatInv' /\ (Promise!Reloaded \/ UNCHANGED <<text, cache>>)
<1>1. /\ UNCHANGED <<text, row, purge>> /\ Sent' = Sent
      /\ reader \in [Readers -> {ReaderIdle} \cup Reader]
  BY ChatTypes DEF EnsureChatHistory, LoadRead, LoadReturns, LoadFails, Sent
<1>2. ReaderIdle.at = "idle" /\ [at |-> "asked"] \in Reader
  BY DEF ReaderIdle, Reader
<1>3. CASE LoadRead(r)
  <2> DEFINE got == Newest(Rows)
  <2>1. /\ reader' = [reader EXCEPT ![r] = [at |-> "read", got |-> got]] /\ cache' = cache
    BY <1>3 DEF LoadRead
  <2>2. got \subseteq Rows /\ got \subseteq Sent /\ got \subseteq Msg /\ Newest(got) = got
    BY ChatTypes, NewestIdempotent
  <2> HIDE DEF got
  <2>3. [at |-> "read", got |-> got] \in Reader
    BY <2>2 DEF Reader
  <2>4. ChatTypeOK'
    BY <1>1, <2>1, <2>3 DEF ChatInv, ChatTypeOK
  <2>5. HistoriesBounded'
    BY <1>1, <2>1, <2>2, ChatTypes DEF HistoriesBounded, Newest
  <2>6. OnlyWhatWasSent'
    BY <1>1, <2>1, <2>2 DEF ChatInv, OnlyWhatWasSent
  <2> QED BY <1>1, <2>1, <2>4, <2>5, <2>6 DEF ChatInv
<1>4. CASE LoadReturns(r)
  <2>1. /\ reader[r].at = "read" /\ reader' = [reader EXCEPT ![r] = ReaderIdle]
        /\ cache' = IF reader[r].got = {} THEN cache ELSE reader[r].got
    BY <1>4 DEF LoadReturns
  <2>2. cache' \subseteq Sent /\ Newest(cache') = cache'
    BY <2>1, ChatTypes
  <2>3. ChatTypeOK'
    BY <1>1, <2>1, <2>2, ChatTypes DEF ChatInv, ChatTypeOK
  <2>4. HistoriesBounded'
    BY <1>1, <1>2, <2>1, <2>2, ChatTypes DEF HistoriesBounded, Newest
  <2>5. OnlyWhatWasSent'
    BY <1>1, <1>2, <2>1, <2>2 DEF ChatInv, OnlyWhatWasSent
  <2>6. cache' # cache => Promise!Reloaded
    <3>1. ASSUME cache' # cache PROVE cache' # {}
      BY <2>1, <3>1
    <3> QED BY <1>1, <2>2, <3>1, PromiseWords DEF Promise!Reloaded
  <2> QED BY <1>1, <2>3, <2>4, <2>5, <2>6 DEF ChatInv
<1>5. CASE EnsureChatHistory(r) \/ LoadFails(r)
  <2>1. cache' = cache /\ \E x \in {ReaderIdle, [at |-> "asked"]} : reader' = [reader EXCEPT ![r] = x]
    BY <1>5 DEF EnsureChatHistory, LoadFails
  <2>2. ChatTypeOK'
    BY <1>1, <1>2, <2>1 DEF ChatInv, ChatTypeOK
  <2>3. HistoriesBounded'
    BY <1>1, <1>2, <2>1, ChatTypes DEF HistoriesBounded, Newest
  <2>4. OnlyWhatWasSent'
    BY <1>1, <1>2, <2>1 DEF ChatInv, OnlyWhatWasSent
  <2> QED BY <1>1, <2>1, <2>2, <2>3, <2>4 DEF ChatInv
<1> QED BY <1>3, <1>4, <1>5

LEMMA PurgesPreserveChat ==
  ASSUME ChatInv, PurgePassenger \/ PurgeRows \/ PruneIdleCaches \/ RestartHub
  PROVE  ChatInv' /\ (Promise!Forgotten \/ cache' = cache)
<1>1. UNCHANGED text /\ cache' \in {cache, {}}
  BY DEF PurgePassenger, PurgeRows, PruneIdleCaches, RestartHub
<1>2. /\ row' \in [Msg -> {"none", "inserting", "there", "lost", "purged"}]
      /\ \A m \in Msg : row'[m] # "none" => row[m] # "none"
  <2>1. CASE PurgePassenger \/ PruneIdleCaches
    BY <2>1, ChatTypes DEF PurgePassenger, PruneIdleCaches
  <2>2. CASE PurgeRows
    BY <2>2, ChatTypes DEF PurgeRows
  <2>3. CASE RestartHub
    <3>1. PICK done : row' = [m \in Msg |-> IF row[m] # "inserting" THEN row[m]
                                            ELSE IF m \in done THEN "there" ELSE "lost"]
      BY <2>3 DEF RestartHub
    <3> QED BY <3>1, ChatTypes
  <2> QED BY <2>1, <2>2, <2>3
<1>3. reader' \in {reader, [r \in Readers |-> ReaderIdle]}
  BY DEF PurgePassenger, PurgeRows, PruneIdleCaches, RestartHub
<1>4. purge' \in 0..MaxSent
  <2>1. CASE PurgePassenger
    <3>1. IsFiniteSet(Msg) /\ Cardinality(Msg) = MaxSent
      <4>1. /\ IsFiniteSet(1..MaxSent)
            /\ Cardinality(1..MaxSent) = IF 1 > MaxSent THEN 0 ELSE MaxSent - 1 + 1
        BY FS_Interval, HistoryAssumption
      <4> QED BY <4>1, HistoryAssumption DEF Msg
    <3>2. IsFiniteSet(Sent) /\ Cardinality(Sent) <= MaxSent
      BY <3>1, FS_Subset, ChatTypes
    <3>3. Cardinality(Sent) \in Nat
      BY <3>2, FS_CardinalityType
    <3> QED BY <2>1, <3>2, <3>3, ChatTypes DEF PurgePassenger
  <2>2. CASE PurgeRows \/ PruneIdleCaches \/ RestartHub
    BY <2>2, ChatTypes DEF PurgeRows, PruneIdleCaches, RestartHub
  <2> QED BY <2>1, <2>2
<1> QED BY <1>1, <1>2, <1>3, <1>4, RowsPreserveChat

LEMMA InsertsPreserveChat ==
  ASSUME ChatInv, NEW m \in Msg, Insert(m) \/ PruneOlderThan(m)
  PROVE  ChatInv' /\ (Promise!Forgotten \/ cache' = cache)
<1>1. UNCHANGED <<text, cache, reader, purge>> /\ purge' \in 0..MaxSent
  BY ChatTypes DEF Insert, PruneOlderThan
<1>2. /\ row' \in [Msg -> {"none", "inserting", "there", "lost", "purged"}]
      /\ \A n \in Msg : row'[n] # "none" => row[n] # "none"
  BY ChatTypes DEF Insert, PruneOlderThan
<1> QED BY <1>1, <1>2, RowsPreserveChat

(* One step of the chat, also as a step of what the hub promises.              *)
LEMMA ChatSteps ==
  ChatInv /\ [ChatNext]_chatVars =>
    ChatInv' /\ [Promise!PromiseNext]_(Promise!promiseVars)
<1> SUFFICES ASSUME ChatInv, [ChatNext]_chatVars
    PROVE  ChatInv' /\ (Promise!PromiseNext \/ UNCHANGED <<text, cache>>)
  BY DEF Promise!promiseVars
<1>1. ASSUME NEW m \in Msg, NEW t \in Texts \cup {Other}, AppendChat(m, t), UNCHANGED reader
      PROVE  ChatInv' /\ Promise!PromiseNext
  <2>1. ChatInv' /\ Promise!Say(m, t)
    BY <1>1, AppendPreservesChat
  <2>2. m \in Promise!Msg
    BY PromiseWords
  <2> QED BY <2>1, <2>2 DEF Promise!PromiseNext
<1>2. ASSUME NEW m \in Msg, Insert(m) \/ PruneOlderThan(m)
      PROVE  ChatInv' /\ UNCHANGED <<text, cache>>
  BY <1>2, InsertsPreserveChat DEF Insert, PruneOlderThan
<1>3. ASSUME NEW r \in Readers,
             EnsureChatHistory(r) \/ LoadRead(r) \/ LoadReturns(r) \/ LoadFails(r)
      PROVE  ChatInv' /\ (Promise!PromiseNext \/ UNCHANGED <<text, cache>>)
  BY <1>3, ReadersPreserveChat DEF Promise!PromiseNext
<1>4. ASSUME PurgePassenger \/ PurgeRows \/ PruneIdleCaches \/ RestartHub
      PROVE  ChatInv' /\ (Promise!PromiseNext \/ UNCHANGED <<text, cache>>)
  <2>1. UNCHANGED text
    BY <1>4 DEF PurgePassenger, PurgeRows, PruneIdleCaches, RestartHub
  <2> QED BY <1>4, <2>1, PurgesPreserveChat DEF Promise!PromiseNext
<1>5. ASSUME UNCHANGED chatVars PROVE ChatInv' /\ UNCHANGED <<text, cache>>
  <2>1. UNCHANGED <<text, cache, row, reader, purge>>
    BY <1>5 DEF chatVars
  <2> QED BY <2>1 DEF ChatInv, ChatTypeOK, HistoriesBounded, OnlyWhatWasSent, Newest, Sent
<1> QED BY <1>1, <1>2, <1>3, <1>4, <1>5 DEF ChatNext

LEMMA InitChat == ChatInit => ChatInv /\ Promise!PromiseInit
<1> SUFFICES ASSUME ChatInit PROVE ChatInv /\ Promise!PromiseInit
  OBVIOUS
<1>1. /\ text = [m \in Msg |-> "none"] /\ cache = {} /\ row = [m \in Msg |-> "none"]
      /\ reader = [r \in Readers |-> ReaderIdle] /\ purge = 0 /\ MaxSent \in Nat
  BY HistoryAssumption DEF ChatInit
<1>2. ReaderIdle.at = "idle" /\ Newest({}) = {}
  BY DEF ReaderIdle, Newest
<1>3. ChatInv
  BY <1>1, <1>2 DEF ChatInv, ChatTypeOK, HistoriesBounded, OnlyWhatWasSent
<1>4. Promise!PromiseInit
  BY <1>1, PromiseWords DEF Promise!PromiseInit
<1> QED BY <1>3, <1>4

(* Whatever loads, appends, purges, prunings and restarts follow each other,   *)
(* for any number of calls of ensureChatHistory and any cap: the cache and     *)
(* what is about to replace it keep to the cap and hold only messages that     *)
(* were sent.                                                                  *)
THEOREM ChatInvariant == ChatSpec => []ChatInv
<1>1. ChatInit => ChatInv
  BY InitChat
<1>2. ChatInv /\ [ChatNext]_chatVars => ChatInv'
  BY ChatSteps
<1> QED BY <1>1, <1>2, PTL DEF ChatSpec

(* Every step of the cache is one the promise of the hub allows: a message     *)
(* sent is at once the newest of the history, what is older goes only when the *)
(* history is full, and else a history is only forgotten as a whole or         *)
(* replaced by one of messages that were sent.                                 *)
THEOREM ChatRefines == ChatSpec => ChatPromised
<1>1. ChatInit => Promise!PromiseInit
  BY InitChat
<1>2. ChatInv /\ [ChatNext]_chatVars => [Promise!PromiseNext]_(Promise!promiseVars)
  BY ChatSteps
<1> QED BY <1>1, <1>2, ChatInvariant, PTL DEF ChatSpec, ChatPromised, Promise!ChatPromiseSpec

-----------------------------------------------------------------------------
(* Journey: with SQLite at most one handler is halfway, and what it goes by -  *)
(* the shares it is to end, the rank it is to add - still holds when it goes   *)
(* on.                                                                         *)
JourneyIInv ==
  /\ JourneyTypeOK
  /\ ~pg =>
       /\ \A p, q \in Working : p = q
       /\ \A s, t \in Open : s = t
       /\ ProgressInOrder
       /\ \A p \in Pages : post[p].at = "insert" => Open \subseteq post[p].ends
       /\ \A p \in Pages : event[p] # EventIdle =>
            \A i \in DOMAIN progress : progress[i] < event[p]

LEMMA JourneyTypes ==
  ASSUME JourneyTypeOK
  PROVE  /\ pg \in BOOLEAN /\ journey \in BOOLEAN
         /\ share \in [Share -> {"none", "open", "lapsed", "off"}]
         /\ link \in [Pages -> 0..MaxShare] /\ MaxShare \in Nat /\ Open \subseteq Share
         /\ progress \in Seq(Ranks) /\ event \in [Pages -> {EventIdle} \cup Ranks]
         /\ resets \in 0..MaxReset /\ MaxReset \in Nat
BY JourneyAssumption DEF JourneyTypeOK, Open

(* A new state of one page's share request                                     *)
PostStates ==
  {PostIdle, [at |-> "force"]} \cup [at : {"check"}, of : Share]
    \cup [at : {"insert"}, ends : SUBSET Share]

(* A share handler that goes a step further, or ends.                          *)
LEMMA PostSteps ==
  ASSUME JourneyIInv, NEW p \in Pages, NEW x \in PostStates, post' = [post EXCEPT ![p] = x],
         UNCHANGED <<pg, progress, event, resets>>, journey' \in BOOLEAN,
         link' \in [Pages -> 0..MaxShare],
         share' \in [Share -> {"none", "open", "lapsed", "off"}],
         ~pg => /\ p \in Working \/ Working = {}
                /\ \A s, t \in Open' : s = t
                /\ x.at = "insert" => Open' \subseteq x.ends
                /\ \A q \in Pages : q # p /\ post[q].at = "insert" => q \in Working
  PROVE  JourneyIInv'
<1>1. JourneyTypeOK'
  BY DEF JourneyIInv, JourneyTypeOK, PostStates
<1>2. ASSUME ~pg PROVE Working' \subseteq Working \cup {p} /\ \A q, r \in Working' : q = r
  <2>1. Working' \subseteq Working \cup {p}
    BY DEF Working, JourneyIInv, JourneyTypeOK
  <2> QED BY <1>2, <2>1 DEF JourneyIInv
<1>3. ASSUME ~pg, NEW q \in Pages, post'[q].at = "insert" PROVE Open' \subseteq post'[q].ends
  <2>1. q = p \/ (q # p /\ post'[q] = post[q])
    BY DEF JourneyIInv, JourneyTypeOK
  <2>2. CASE q = p
    BY <1>3, <2>2 DEF JourneyIInv, JourneyTypeOK
  <2>3. CASE q # p /\ post'[q] = post[q]
    <3>1. q \in Working /\ p \in Working
      BY <1>3, <2>3
    <3> QED BY <1>3, <2>3, <3>1 DEF JourneyIInv
  <2> QED BY <2>1, <2>2, <2>3
<1>4. (ProgressInOrder)' <=> ProgressInOrder
  BY DEF ProgressInOrder
<1> QED BY <1>1, <1>2, <1>3, <1>4 DEF JourneyIInv

LEMMA InsertIsWorking ==
  ASSUME NEW q \in Pages, post[q].at = "insert" PROVE q \in Working
BY DEF Working, PostIdle

LEMMA ShareSteps ==
  ASSUME JourneyIInv, NEW p \in Pages,
         PostShare(p) \/ ReuseShare(p) \/ ForceNew(p) \/ \E n \in Share : InsertShare(p, n)
  PROVE  JourneyIInv'
<1>1. JourneyTypeOK /\ UNCHANGED <<pg, progress, event, resets>> /\ Open \subseteq Share
      /\ share \in [Share -> {"none", "open", "lapsed", "off"}]
      /\ link \in [Pages -> 0..MaxShare] /\ journey \in BOOLEAN
  BY JourneyTypes DEF JourneyIInv, PostShare, ReuseShare, ForceNew, InsertShare
<1>2. CASE PostShare(p)
  <2>1. MayStart(p) /\ link' = link /\ journey' \in BOOLEAN
    BY <1>1, <1>2 DEF PostShare
  <2>2. ~pg => Working = {}
    BY <2>1 DEF MayStart
  <2>3. /\ Open' = Open /\ share' \in [Share -> {"none", "open", "lapsed", "off"}]
        /\ \E x \in PostStates : /\ post' = [post EXCEPT ![p] = x]
                                 /\ x.at = "insert" => Open \subseteq x.ends
    <3>1. CASE Open = {}
      <4>1. [at |-> "insert", ends |-> {}] \in PostStates
        BY DEF PostStates
      <4> QED BY <1>1, <1>2, <3>1, <4>1 DEF PostShare, Open
    <3>2. CASE Open # {}
      <4>1. PICK s \in Open : post' = [post EXCEPT ![p] = [at |-> "check", of |-> s]]
        BY <1>2, <3>2 DEF PostShare
      <4>2. [at |-> "check", of |-> s] \in PostStates
        BY <1>1 DEF PostStates
      <4>3. share' = [t \in Share |-> IF share[t] = "lapsed" THEN "off" ELSE share[t]]
        BY <1>2, <3>2 DEF PostShare
      <4> QED BY <1>1, <4>1, <4>2, <4>3 DEF Open
    <3> QED BY <3>1, <3>2
  <2>4. ~pg => \A s, t \in Open' : s = t
    BY <2>3 DEF JourneyIInv
  <2> QED BY <1>1, <2>1, <2>2, <2>3, <2>4, InsertIsWorking, PostSteps
<1>3. CASE ReuseShare(p) \/ ForceNew(p)
  <2>1. p \in Working
    BY <1>3 DEF ReuseShare, ForceNew, Working, PostIdle
  <2>2. /\ UNCHANGED <<journey, share, link>> /\ Open' = Open
        /\ \E x \in PostStates : /\ post' = [post EXCEPT ![p] = x]
                                 /\ x.at = "insert" => Open \subseteq x.ends
    <3>1. CASE ReuseShare(p)
      <4> DEFINE x == IF link[p] = post[p].of /\ post[p].of \in Open THEN PostIdle
                      ELSE [at |-> "force"]
      <4>1. x \in PostStates /\ x.at # "insert"
        BY DEF PostStates, PostIdle
      <4>2. post' = [post EXCEPT ![p] = x] /\ UNCHANGED <<journey, share, link>>
        BY <3>1 DEF ReuseShare
      <4> HIDE DEF x
      <4> QED BY <4>1, <4>2 DEF Open
    <3>2. CASE ForceNew(p)
      <4>1. [at |-> "insert", ends |-> Open] \in PostStates
        BY <1>1 DEF PostStates
      <4> QED BY <3>2, <4>1 DEF ForceNew, Open
    <3> QED BY <1>3, <3>1, <3>2
  <2>3. ~pg => \A s, t \in Open' : s = t
    BY <2>2 DEF JourneyIInv
  <2> QED BY <1>1, <2>1, <2>2, <2>3, InsertIsWorking, PostSteps
<1>4. CASE \E n \in Share : InsertShare(p, n)
  <2>1. PICK n \in Share : InsertShare(p, n)
    BY <1>4
  <2>2. /\ post[p].at = "insert" /\ link' = [link EXCEPT ![p] = n] /\ journey' = TRUE
        /\ post' = [post EXCEPT ![p] = PostIdle]
        /\ share' = [s \in Share |-> IF s = n THEN "open"
                               ELSE IF s \in post[p].ends \/ share[s] = "lapsed" THEN "off"
                               ELSE share[s]]
    BY <2>1 DEF InsertShare
  <2>3. p \in Working /\ PostIdle \in PostStates /\ PostIdle.at = "idle"
    BY <2>2, InsertIsWorking DEF PostStates, PostIdle
  <2>4. n \in 0..MaxShare /\ share' \in [Share -> {"none", "open", "lapsed", "off"}]
    BY <1>1, <2>2, JourneyTypes DEF Share
  <2>5. ~pg => \A s, t \in Open' : s = t
    <3>1. ~pg => Open \subseteq post[p].ends
      BY <2>2 DEF JourneyIInv
    <3> QED BY <2>2, <3>1 DEF Open
  <2> QED BY <1>1, <2>2, <2>3, <2>4, <2>5, InsertIsWorking, PostSteps
<1> QED BY <1>2, <1>3, <1>4

(* Shares that lapse or are revoked                                            *)
LEMMA LapseSteps ==
  ASSUME JourneyIInv, (\E p \in Pages : RevokeShare(p)) \/ \E s \in Share : ShareLapses(s)
  PROVE  JourneyIInv'
<1>1. UNCHANGED <<pg, journey, link, post, progress, event, resets>>
  BY DEF RevokeShare, ShareLapses
<1>2. Open' \subseteq Open /\ share' \in [Share -> {"none", "open", "lapsed", "off"}]
  BY JourneyTypes DEF JourneyIInv, RevokeShare, ShareLapses, Open
<1>3. JourneyTypeOK' /\ Working' = Working /\ (ProgressInOrder' <=> ProgressInOrder)
  BY <1>1, <1>2 DEF JourneyIInv, JourneyTypeOK, Working, ProgressInOrder
<1> QED BY <1>1, <1>2, <1>3 DEF JourneyIInv

LEMMA LatestIsLast ==
  ASSUME JourneyTypeOK, ProgressInOrder, NEW i \in DOMAIN progress
  PROVE  progress[i] <= Latest /\ Latest \in Ranks
<1> DEFINE n == Len(progress)
<1>1. progress \in Seq(Ranks) /\ n \in Nat /\ DOMAIN progress = 1..n /\ n \in 1..n
      /\ progress # <<>> /\ \A j \in 1..n : progress[j] \in Ranks
  BY JourneyTypes
<1>2. \A j \in DOMAIN progress : progress[j] <= progress[n]
  BY <1>1 DEF ProgressInOrder, InOrder, Ranks
<1>3. \E r \in Ranks : /\ \E j \in DOMAIN progress : progress[j] = r
                       /\ \A j \in DOMAIN progress : progress[j] <= r
  BY <1>1, <1>2
<1> QED BY <1>1, <1>3 DEF Latest

LEMMA ProgressSteps ==
  ASSUME JourneyIInv, NEW p \in Pages,
         InsertEvent(p) \/ ResetEvents(p) \/ \E r \in Ranks : AddEvent(p, r)
  PROVE  JourneyIInv'
<1>1. JourneyTypeOK /\ UNCHANGED <<pg, share, link, post>> /\ Open' = Open
      /\ progress \in Seq(Ranks) /\ event \in [Pages -> {EventIdle} \cup Ranks]
      /\ resets \in 0..MaxReset /\ MaxReset \in Nat /\ journey \in BOOLEAN
  BY JourneyTypes DEF JourneyIInv, InsertEvent, ResetEvents, AddEvent, Open
<1>2. CASE InsertEvent(p)
  <2> DEFINE e == event[p]
  <2>1. e \in Ranks /\ p \in Working /\ journey' = TRUE /\ resets' = resets
        /\ progress' = Append(progress, e) /\ event' = [event EXCEPT ![p] = EventIdle]
    BY <1>1, <1>2 DEF InsertEvent, Working
  <2> HIDE DEF e
  <2>2. progress' \in Seq(Ranks) /\ JourneyTypeOK'
    BY <1>1, <2>1 DEF JourneyTypeOK
  <2>3. Working' \subseteq Working
    BY <1>1, <2>1 DEF Working
  <2>4. ~pg => ProgressInOrder'
    <3>1. ~pg => \A i \in DOMAIN progress : progress[i] < e
      BY <1>2 DEF JourneyIInv, InsertEvent, e
    <3>2. /\ Len(progress) \in Nat /\ DOMAIN progress = 1..Len(progress)
          /\ DOMAIN progress' = 1..(Len(progress) + 1)
          /\ \A i \in 1..Len(progress) : progress'[i] = progress[i]
          /\ progress'[Len(progress) + 1] = e
      BY <1>1, <2>1
    <3> QED BY <3>1, <3>2 DEF JourneyIInv, ProgressInOrder, InOrder
  <2>5. ~pg => \A q \in Pages : event'[q] = EventIdle
    BY <1>1, <2>1 DEF JourneyIInv, Working
  <2> QED BY <1>1, <2>2, <2>3, <2>4, <2>5 DEF JourneyIInv
<1>3. CASE ResetEvents(p)
  <2>1. progress' = <<>> /\ resets' = resets + 1 /\ resets < MaxReset
        /\ UNCHANGED <<journey, event>>
    BY <1>3 DEF ResetEvents
  <2>2. progress' \in Seq(Ranks) /\ DOMAIN progress' = {} /\ resets' \in 0..MaxReset
    BY <1>1, <2>1
  <2>3. JourneyTypeOK' /\ Working' = Working
    BY <1>1, <2>1, <2>2 DEF JourneyTypeOK, Working
  <2> QED BY <1>1, <2>1, <2>2, <2>3 DEF JourneyIInv, ProgressInOrder, InOrder
<1>4. CASE \E r \in Ranks : AddEvent(p, r)
  <2>1. PICK r \in Ranks : AddEvent(p, r)
    BY <1>4
  <2>2. MayStart(p) /\ r > Latest /\ event' = [event EXCEPT ![p] = r]
        /\ UNCHANGED <<journey, progress, resets>>
    BY <2>1 DEF AddEvent
  <2>3. JourneyTypeOK' /\ (ProgressInOrder' <=> ProgressInOrder)
    BY <1>1, <2>2 DEF JourneyTypeOK, ProgressInOrder
  <2>4. ~pg => Working = {} /\ Working' \subseteq {p}
    <3>1. ~pg => Working = {}
      BY <2>2 DEF MayStart
    <3> QED BY <1>1, <2>2, <3>1 DEF Working
  <2>5. ~pg => \A i \in DOMAIN progress : progress[i] < r
    <3>1. ASSUME ~pg, NEW i \in DOMAIN progress PROVE progress[i] < r
      <4>1. progress[i] <= Latest /\ progress[i] \in Ranks /\ Latest \in Ranks
        BY <1>1, <3>1, LatestIsLast DEF JourneyIInv
      <4> QED BY <2>2, <4>1 DEF Ranks
    <3> QED BY <3>1
  <2>6. ~pg => \A q \in Pages : event'[q] # EventIdle => q = p /\ event'[q] = r
    BY <1>1, <2>2, <2>4 DEF Working
  <2>7. ~pg => \A q \in Pages : post'[q].at # "insert"
    BY <1>1, <2>4, InsertIsWorking
  <2> QED BY <1>1, <2>2, <2>3, <2>4, <2>5, <2>6, <2>7 DEF JourneyIInv
<1> QED BY <1>2, <1>3, <1>4

(* With SQLite, for any number of passengers of the flight: at most one share  *)
(* opens, and progress only advances until it is reset.                        *)
THEOREM JourneyInvariant == JourneySpec => []JourneyInv
<1>1. JourneyInit => JourneyIInv
  <2> SUFFICES ASSUME JourneyInit PROVE JourneyIInv
    OBVIOUS
  <2>1. /\ pg \in BOOLEAN /\ journey \in BOOLEAN /\ share = [s \in Share |-> "none"]
        /\ link = [p \in Pages |-> 0] /\ post = [p \in Pages |-> PostIdle] /\ progress = <<>>
        /\ event = [p \in Pages |-> EventIdle] /\ resets = 0 /\ MaxShare \in Nat /\ MaxReset \in Nat
    BY JourneyAssumption DEF JourneyInit
  <2>2. progress \in Seq(Ranks) /\ DOMAIN progress = {}
    BY <2>1
  <2>3. JourneyTypeOK
    BY <2>1, <2>2 DEF JourneyTypeOK
  <2>4. Working = {} /\ Open = {}
    BY <2>1 DEF Working, Open
  <2>5. \A p \in Pages : post[p].at # "insert"
    BY <2>1 DEF PostIdle
  <2> QED BY <2>1, <2>2, <2>3, <2>4, <2>5 DEF JourneyIInv, ProgressInOrder, InOrder
<1>2. JourneyIInv /\ [JourneyNext]_journeyVars => JourneyIInv'
  <2> SUFFICES ASSUME JourneyIInv, [JourneyNext]_journeyVars PROVE JourneyIInv'
    OBVIOUS
  <2>1. CASE UNCHANGED journeyVars
    <3>1. UNCHANGED <<pg, journey, share, link, post, progress, event, resets>>
      BY <2>1 DEF journeyVars
    <3> QED BY <3>1 DEF JourneyIInv, JourneyTypeOK, Working, Open, ProgressInOrder
  <2> QED BY <2>1, ShareSteps, LapseSteps, ProgressSteps DEF JourneyNext
<1>3. JourneyIInv => JourneyInv
  <2> SUFFICES ASSUME JourneyIInv, ~pg PROVE Cardinality(Open) <= 1 /\ ProgressInOrder
    BY DEF JourneyIInv, JourneyInv, OneOpenShare, JourneyTypeOK
  <2>1. Open = {} \/ \E s \in Open : Open = {s}
    BY DEF JourneyIInv
  <2>2. Cardinality(Open) <= 1
    BY <2>1, FS_EmptySet, FS_Singleton
  <2> QED BY <2>2 DEF JourneyIInv
<1> QED BY <1>1, <1>2, <1>3, PTL DEF JourneySpec

-----------------------------------------------------------------------------
(* Estimates. Sums are recursive functions of a fixed number of stages: they  *)
(* are unrolled once for the four of the way to the gate and once for the     *)
(* seven of the way out. What is left out of the band is then a matter of the *)
(* widths the tables can give.                                                *)
Ranges == [min: Int, max: Int]

LEMMA ExpectedTypes ==
  ASSUME NEW r \in Ranges
  PROVE  r.min \in Int /\ r.max \in Int /\ Expected(r) \in Int /\ r.max - r.min \in Int
BY DEF Ranges, Expected

LEMMA IsSequence ==
  ASSUME NEW n \in Nat, NEW S, NEW f \in [1..n -> S]
  PROVE  f \in Seq(S) /\ Len(f) = n
<1>1. f \in Seq(S)
  BY SeqDef
<1>2. 1..Len(f) = 1..n /\ Len(f) \in Nat
  BY <1>1, LenProperties
<1> QED BY <1>1, <1>2

LEMMA TotalOfFour ==
  ASSUME NEW g, Len(g) = 4, \A i \in 1..4: g[i] \in Int
  PROVE  Total(g) = g[1] + g[2] + g[3] + g[4]
<1> DEFINE Sums(h) == h = [i \in 0..Len(g) |-> IF i = 0 THEN 0 ELSE h[i - 1] + g[i]]
           w == [i \in 0..4 |-> IF i = 0 THEN 0
                  ELSE IF i = 1 THEN g[1]
                  ELSE IF i = 2 THEN g[1] + g[2]
                  ELSE IF i = 3 THEN g[1] + g[2] + g[3]
                  ELSE g[1] + g[2] + g[3] + g[4]]
           f == CHOOSE h: Sums(h)
<1>1. Sums(w)
  <2>1. \A i \in 0..4: w[i] = IF i = 0 THEN 0 ELSE w[i - 1] + g[i]
    OBVIOUS
  <2> QED BY <2>1
<1>2. Sums(f)
  BY <1>1
<1>3. Total(g) = f[4]
  BY DEF Total
<1> HIDE DEF f
<1>4. \A i \in 0..4: f[i] = IF i = 0 THEN 0 ELSE f[i - 1] + g[i]
  BY <1>2
<1>5. f[0] = 0 /\ f[1] = f[0] + g[1] /\ f[2] = f[1] + g[2] /\ f[3] = f[2] + g[3]
      /\ f[4] = f[3] + g[4]
  BY <1>4
<1> HIDE DEF Sums, w
<1> QED BY <1>3, <1>5

LEMMA TotalOfSeven ==
  ASSUME NEW g, Len(g) = 7, \A i \in 1..7: g[i] \in Int
  PROVE  Total(g) = g[1] + g[2] + g[3] + g[4] + g[5] + g[6] + g[7]
<1> DEFINE Sums(h) == h = [i \in 0..Len(g) |-> IF i = 0 THEN 0 ELSE h[i - 1] + g[i]]
           w == [i \in 0..7 |-> IF i = 0 THEN 0
                  ELSE IF i = 1 THEN g[1]
                  ELSE IF i = 2 THEN g[1] + g[2]
                  ELSE IF i = 3 THEN g[1] + g[2] + g[3]
                  ELSE IF i = 4 THEN g[1] + g[2] + g[3] + g[4]
                  ELSE IF i = 5 THEN g[1] + g[2] + g[3] + g[4] + g[5]
                  ELSE IF i = 6 THEN g[1] + g[2] + g[3] + g[4] + g[5] + g[6]
                  ELSE g[1] + g[2] + g[3] + g[4] + g[5] + g[6] + g[7]]
           f == CHOOSE h: Sums(h)
<1>1. Sums(w)
  <2>1. \A i \in 0..7: w[i] = IF i = 0 THEN 0 ELSE w[i - 1] + g[i]
    OBVIOUS
  <2> QED BY <2>1
<1>2. Sums(f)
  BY <1>1
<1>3. Total(g) = f[7]
  BY DEF Total
<1> HIDE DEF f
<1>4. \A i \in 0..7: f[i] = IF i = 0 THEN 0 ELSE f[i - 1] + g[i]
  BY <1>2
<1>5. f[0] = 0 /\ f[1] = f[0] + g[1] /\ f[2] = f[1] + g[2] /\ f[3] = f[2] + g[3]
      /\ f[4] = f[3] + g[4] /\ f[5] = f[4] + g[5] /\ f[6] = f[5] + g[6] /\ f[7] = f[6] + g[7]
  BY <1>4
<1> HIDE DEF Sums, w
<1> QED BY <1>3, <1>5

LEMMA FourStages ==
  ASSUME NEW s \in Seq(Ranges), Len(s) = 4
  PROVE  /\ SumExpected(s) = Expected(s[1]) + Expected(s[2]) + Expected(s[3]) + Expected(s[4])
         /\ Total(Widths(s)) = (s[1].max - s[1].min) + (s[2].max - s[2].min)
                               + (s[3].max - s[3].min) + (s[4].max - s[4].min)
         /\ Total([i \in DOMAIN s |-> s[i].max]) = s[1].max + s[2].max + s[3].max + s[4].max
         /\ Widths(s) \in Seq(Int) /\ Len(Widths(s)) = 4
         /\ \A i \in 1..4: Widths(s)[i] = s[i].max - s[i].min
<1> DEFINE e == [i \in DOMAIN s |-> Expected(s[i])]
           m == [i \in DOMAIN s |-> s[i].max]
           w == [i \in DOMAIN s |-> s[i].max - s[i].min]
<1>1. DOMAIN s = 1..4 /\ \A i \in 1..4: s[i] \in Ranges
  BY LenProperties, ElementOfSeq
<1>2. \A i \in 1..4: /\ s[i].max \in Int /\ Expected(s[i]) \in Int
                     /\ s[i].max - s[i].min \in Int
  BY <1>1, ExpectedTypes
<1>3. e \in [1..4 -> Int] /\ m \in [1..4 -> Int] /\ w \in [1..4 -> Int]
  BY <1>1, <1>2
<1>4. /\ \A i \in 1..4: e[i] = Expected(s[i]) /\ m[i] = s[i].max
      /\ \A i \in 1..4: w[i] = s[i].max - s[i].min
  BY <1>1
<1>5. SumExpected(s) = Total(e) /\ Widths(s) = w
  BY DEF SumExpected, Widths
<1>6. Total([i \in DOMAIN s |-> s[i].max]) = Total(m)
  OBVIOUS
<1> HIDE DEF e, m, w
<1>7. 4 \in Nat
  OBVIOUS
<1>8. /\ e \in Seq(Int) /\ Len(e) = 4 /\ m \in Seq(Int) /\ Len(m) = 4
      /\ w \in Seq(Int) /\ Len(w) = 4
  BY <1>3, <1>7, IsSequence
<1>9. /\ Total(e) = e[1] + e[2] + e[3] + e[4]
      /\ Total(m) = m[1] + m[2] + m[3] + m[4]
      /\ Total(w) = w[1] + w[2] + w[3] + w[4]
  BY <1>3, <1>8, TotalOfFour
<1> QED BY <1>4, <1>5, <1>6, <1>8, <1>9

LEMMA SevenStages ==
  ASSUME NEW s \in Seq(Ranges), Len(s) = 7
  PROVE  /\ SumExpected(s) = Expected(s[1]) + Expected(s[2]) + Expected(s[3]) + Expected(s[4])
                              + Expected(s[5]) + Expected(s[6]) + Expected(s[7])
         /\ Total(Widths(s)) = (s[1].max - s[1].min) + (s[2].max - s[2].min)
                               + (s[3].max - s[3].min) + (s[4].max - s[4].min)
                               + (s[5].max - s[5].min) + (s[6].max - s[6].min)
                               + (s[7].max - s[7].min)
         /\ Total([i \in DOMAIN s |-> s[i].max]) = s[1].max + s[2].max + s[3].max + s[4].max
                                                 + s[5].max + s[6].max + s[7].max
         /\ Widths(s) \in Seq(Int) /\ Len(Widths(s)) = 7
         /\ \A i \in 1..7: Widths(s)[i] = s[i].max - s[i].min
<1> DEFINE e == [i \in DOMAIN s |-> Expected(s[i])]
           m == [i \in DOMAIN s |-> s[i].max]
           w == [i \in DOMAIN s |-> s[i].max - s[i].min]
<1>1. DOMAIN s = 1..7 /\ \A i \in 1..7: s[i] \in Ranges
  BY LenProperties, ElementOfSeq
<1>2. \A i \in 1..7: /\ s[i].max \in Int /\ Expected(s[i]) \in Int
                     /\ s[i].max - s[i].min \in Int
  BY <1>1, ExpectedTypes
<1>3. e \in [1..7 -> Int] /\ m \in [1..7 -> Int] /\ w \in [1..7 -> Int]
  BY <1>1, <1>2
<1>4. /\ \A i \in 1..7: e[i] = Expected(s[i]) /\ m[i] = s[i].max
      /\ \A i \in 1..7: w[i] = s[i].max - s[i].min
  BY <1>1
<1>5. SumExpected(s) = Total(e) /\ Widths(s) = w
  BY DEF SumExpected, Widths
<1>6. Total([i \in DOMAIN s |-> s[i].max]) = Total(m)
  OBVIOUS
<1> HIDE DEF e, m, w
<1>7. 7 \in Nat
  OBVIOUS
<1>8. /\ e \in Seq(Int) /\ Len(e) = 7 /\ m \in Seq(Int) /\ Len(m) = 7
      /\ w \in Seq(Int) /\ Len(w) = 7
  BY <1>3, <1>7, IsSequence
<1>9. /\ Total(e) = e[1] + e[2] + e[3] + e[4] + e[5] + e[6] + e[7]
      /\ Total(m) = m[1] + m[2] + m[3] + m[4] + m[5] + m[6] + m[7]
      /\ Total(w) = w[1] + w[2] + w[3] + w[4] + w[5] + w[6] + w[7]
  BY <1>3, <1>8, TotalOfSeven
<1> QED BY <1>4, <1>5, <1>6, <1>8, <1>9

(* The widest stage.                                                          *)
HasMost(S) == S \subseteq Int /\ \E m \in S: \A v \in S: v <= m

LEMMA MostOfMore ==
  ASSUME NEW S, HasMost(S), NEW x \in Int
  PROVE  HasMost(S \cup {x})
<1>1. PICK m \in S: S \subseteq Int /\ \A v \in S: v <= m
  BY DEF HasMost
<1>2. CASE x <= m
  BY <1>1, <1>2 DEF HasMost
<1>3. CASE ~(x <= m)
  <2>1. \A v \in S \cup {x}: v <= x
    BY <1>1, <1>3
  <2> QED BY <1>1, <2>1 DEF HasMost
<1> QED BY <1>2, <1>3

LEMMA MostOfFour ==
  ASSUME NEW a \in Int, NEW b \in Int, NEW c \in Int, NEW d \in Int
  PROVE  HasMost({a, b, c, d})
<1>1. HasMost({a})
  BY DEF HasMost
<1>2. HasMost({a} \cup {b})
  BY <1>1, MostOfMore
<1>3. HasMost({a} \cup {b} \cup {c})
  BY <1>2, MostOfMore
<1>4. HasMost({a} \cup {b} \cup {c} \cup {d})
  BY <1>3, MostOfMore
<1>5. {a} \cup {b} \cup {c} \cup {d} = {a, b, c, d}
  OBVIOUS
<1> QED BY <1>4, <1>5

LEMMA MostOfSeven ==
  ASSUME NEW a \in Int, NEW b \in Int, NEW c \in Int, NEW d \in Int,
         NEW e \in Int, NEW f \in Int, NEW g \in Int
  PROVE  HasMost({a, b, c, d, e, f, g})
<1>1. HasMost({a, b, c, d} \cup {e})
  BY MostOfFour, MostOfMore
<1>2. HasMost({a, b, c, d} \cup {e} \cup {f})
  BY <1>1, MostOfMore
<1>3. HasMost({a, b, c, d} \cup {e} \cup {f} \cup {g})
  BY <1>2, MostOfMore
<1>4. {a, b, c, d} \cup {e} \cup {f} \cup {g} = {a, b, c, d, e, f, g}
  OBVIOUS
<1> QED BY <1>3, <1>4

LEMMA DerivedFromWidest ==
  ASSUME NEW s, HasMost(Range(Widths(s)))
  PROVE  \E w \in Range(Widths(s)):
           /\ w \in Int /\ \A v \in Range(Widths(s)): v <= w
           /\ DerivedHalf(s) = 5 * w + (Total(Widths(s)) - w)
<1> DEFINE w == CHOOSE x \in Range(Widths(s)): \A v \in Range(Widths(s)): v <= x
<1>1. w \in Range(Widths(s)) /\ w \in Int /\ \A v \in Range(Widths(s)): v <= w
  BY DEF HasMost
<1>2. DerivedHalf(s) = 5 * w + (Total(Widths(s)) - w)
  BY DEF DerivedHalf
<1> QED BY <1>1, <1>2

LEMMA ExitDerived ==
  ASSUME NEW s \in Seq(Ranges), Len(s) = 7
  PROVE  DerivedHalf(s) \in Int
<1> DEFINE w == Widths(s)
<1>1. /\ w \in Seq(Int) /\ Len(w) = 7 /\ DOMAIN w = 1..7 /\ \A i \in 1..7: w[i] \in Int
  BY SevenStages, LenProperties, ElementOfSeq
<1>2. Total(w) \in Int
  <2>1. Total(w) = w[1] + w[2] + w[3] + w[4] + w[5] + w[6] + w[7]
    BY <1>1, TotalOfSeven
  <2> QED BY <1>1, <2>1
<1>3. Range(w) = {w[1], w[2], w[3], w[4], w[5], w[6], w[7]}
  BY <1>1 DEF Range
<1>4. HasMost(Range(w))
  <2> HIDE DEF w
  <2>1. /\ w[1] \in Int /\ w[2] \in Int /\ w[3] \in Int /\ w[4] \in Int
        /\ w[5] \in Int /\ w[6] \in Int /\ w[7] \in Int
    BY <1>1
  <2>2. HasMost({w[1], w[2], w[3], w[4], w[5], w[6], w[7]})
    BY <2>1, MostOfSeven, Zenon
  <2> QED BY <1>3, <2>2
<1> QED BY <1>2, <1>4, DerivedFromWidest

LEMMA GateDerived ==
  ASSUME NEW s \in Seq(Ranges), Len(s) = 4
  PROVE  \E w \in Int:
           /\ \A i \in 1..4: s[i].max - s[i].min <= w
           /\ \E i \in 1..4: s[i].max - s[i].min = w
           /\ DerivedHalf(s) = 5 * w + (Total(Widths(s)) - w)
<1> DEFINE w == Widths(s)
<1>1. /\ w \in Seq(Int) /\ Len(w) = 4 /\ DOMAIN w = 1..4 /\ \A i \in 1..4: w[i] \in Int
      /\ \A i \in 1..4: w[i] = s[i].max - s[i].min
  BY FourStages, LenProperties, ElementOfSeq
<1>3. Range(w) = {w[1], w[2], w[3], w[4]}
  BY <1>1 DEF Range
<1>4. HasMost(Range(w))
  <2> HIDE DEF w
  <2> QED BY <1>1, <1>3, MostOfFour
<1>5. PICK x \in Range(w): /\ x \in Int /\ \A v \in Range(w): v <= x
                           /\ DerivedHalf(s) = 5 * x + (Total(w) - x)
  BY <1>4, DerivedFromWidest
<1>6. \A i \in 1..4: w[i] \in Range(w)
  BY <1>1 DEF Range
<1>7. \E i \in 1..4: w[i] = x
  BY <1>1, <1>5 DEF Range
<1> QED BY <1>1, <1>5, <1>6, <1>7

-----------------------------------------------------------------------------
(* A band around a sum of stages.                                             *)
Spans == {r \in Ranges: 0 <= r.min /\ r.min <= r.max}

LEMMA SpanExpected ==
  ASSUME NEW r \in Spans
  PROVE  /\ Expected(r) \in Nat /\ (r # Zero => Expected(r) >= 1) /\ Zero \in Spans
         /\ Expected(Zero) = 0
<1>1. r.min \in Nat /\ r.max \in Nat /\ r.min <= r.max /\ r = [min |-> r.min, max |-> r.max]
  BY DEF Spans, Ranges
<1>2. Zero.min = 0 /\ Zero.max = 0 /\ Zero \in Spans /\ Expected(Zero) = 0
  BY DEF Zero, R, Spans, Ranges, Expected
<1>3. r # Zero => r.max >= 1
  BY <1>1 DEF Zero, R
<1>4. (r.min + r.max + 1) \div 2 \in Nat
  BY <1>1
<1>5. r.max >= 1 => (r.min + r.max + 1) \div 2 >= 1
  BY <1>1
<1> QED BY <1>2, <1>3, <1>4, <1>5 DEF Expected

LEMMA SumOfSeven ==
  ASSUME NEW x \in [1..7 -> Nat]
  PROVE  /\ x[1] + x[2] + x[3] + x[4] + x[5] + x[6] + x[7] \in Nat
         /\ (\E i \in 1..7: x[i] >= 1)
              => x[1] + x[2] + x[3] + x[4] + x[5] + x[6] + x[7] >= 1
<1>1. /\ x[1] \in Nat /\ x[2] \in Nat /\ x[3] \in Nat /\ x[4] \in Nat
      /\ x[5] \in Nat /\ x[6] \in Nat /\ x[7] \in Nat
  OBVIOUS
<1>2. ASSUME NEW i \in 1..7, x[i] >= 1
      PROVE  \/ x[1] >= 1 \/ x[2] >= 1 \/ x[3] >= 1 \/ x[4] >= 1
             \/ x[5] >= 1 \/ x[6] >= 1 \/ x[7] >= 1
  <2>1. i \in {1, 2, 3, 4, 5, 6, 7}
    OBVIOUS
  <2> QED BY <1>2, <2>1
<1> QED BY <1>1, <1>2

LEMMA BandHoldsExpected ==
  ASSUME NEW s \in Seq(Spans), Len(s) = 7, NEW confidence, NEW width \in Nat, NEW far \in BOOLEAN
  PROVE  LET t == NarrowTotalRange(s, confidence, width, far) IN
         /\ t.min <= SumExpected(s) /\ SumExpected(s) <= t.max
         /\ t = Zero <=> \A i \in 1..7: s[i] = Zero
<1> DEFINE t == NarrowTotalRange(s, confidence, width, far)
           derived == DerivedHalf(s)
           tenths == IF confidence = "low" \/ derived > 5 * width + 40
                     THEN Biggest(5 * width, Smallest(derived, IF far THEN 200 ELSE 140))
                     ELSE 5 * width
           half == (tenths + 5) \div 10
           sum == SumExpected(s)
<1>1. /\ DOMAIN s = 1..7 /\ \A i \in 1..7: s[i] \in Spans
  BY LenProperties, ElementOfSeq
<1>2. s \in Seq(Ranges) /\ derived \in Int
  <2>1. \A i \in 1..7: s[i] \in Ranges
    BY <1>1 DEF Spans
  <2>2. s \in [1..7 -> Ranges] /\ 7 \in Nat
    BY <1>1, <2>1, LenProperties
  <2> QED BY <2>2, IsSequence, ExitDerived
<1>3. sum = Expected(s[1]) + Expected(s[2]) + Expected(s[3]) + Expected(s[4])
            + Expected(s[5]) + Expected(s[6]) + Expected(s[7])
  BY <1>2, SevenStages
<1>4. \A i \in 1..7: Expected(s[i]) \in Nat /\ (s[i] # Zero => Expected(s[i]) >= 1)
  BY <1>1, SpanExpected
<1>5. sum \in Nat /\ ((\E i \in 1..7: s[i] # Zero) => sum >= 1)
  <2> DEFINE x == [i \in 1..7 |-> Expected(s[i])]
  <2>1. /\ x \in [1..7 -> Nat] /\ \A i \in 1..7: s[i] # Zero => x[i] >= 1
    BY <1>4
  <2>2. sum = x[1] + x[2] + x[3] + x[4] + x[5] + x[6] + x[7]
    BY <1>3
  <2> HIDE DEF x, sum
  <2> QED BY <2>1, <2>2, SumOfSeven
<1>6. (\A i \in 1..7: s[i] = Zero) => sum = 0
  BY <1>1, <1>3, SpanExpected
<1>7. t = IF \A i \in 1..7: s[i] = Zero THEN Zero
          ELSE R(Biggest(0, sum - half), sum + half)
  BY <1>1 DEF NarrowTotalRange
<1> HIDE DEF t, derived, sum
<1>8. tenths \in Nat
  BY <1>2 DEF Biggest, Smallest
<1> HIDE DEF tenths
<1>9. half \in Nat
  BY <1>8
<1> HIDE DEF half
<1>10. CASE \A i \in 1..7: s[i] = Zero
  BY <1>6, <1>7, <1>10 DEF Zero, R, t, sum
<1>11. CASE \E i \in 1..7: s[i] # Zero
  <2>1. t.min = Biggest(0, sum - half) /\ t.max = sum + half
    BY <1>7, <1>11 DEF R
  <2>2. t.min <= sum /\ sum <= t.max /\ t.max >= 1
    BY <2>1, <1>5, <1>9, <1>11 DEF Biggest
  <2>3. t # Zero
    BY <2>2 DEF Zero, R
  <2> QED BY <2>2, <2>3, <1>11 DEF t, sum
<1> QED BY <1>10, <1>11

-----------------------------------------------------------------------------
LEMMA GivenTimes ==
  ASSUME NEW c \in Given
  PROVE  /\ EffectiveGate(c) \in Int /\ EffectiveRunway(c) \in Int /\ c.now \in Int
         /\ c.runway \in Stamps /\ c.door \in Stamps
BY EstimatesAssumption DEF Given, Stamps, EffectiveGate, EffectiveRunway, Unset

LEMMA RangeSpans ==
  ASSUME NEW a \in Nat, NEW b \in Nat, a <= b
  PROVE  R(a, b) \in Spans
BY DEF R, Spans, Ranges

LEMMA TouchdownSpans == ASSUME NEW c \in Given PROVE TouchdownToDoor(c) \in Spans
<1> DEFINE planned == EffectiveGate(c) - EffectiveRunway(c)
           ahead == EffectiveGate(c) - c.now
           taxi == CASE planned <= 0 -> R(10, 22)
                     [] planned > 0 /\ HasLanded(c) /\ ahead > 0 ->
                          R(Biggest(0, ahead - 3), ahead + 3)
                     [] OTHER -> R(planned, planned)
<1>1. planned \in Int /\ ahead \in Int
  BY GivenTimes
<1>2. TouchdownToDoor(c) = CASE OffPlane(c) -> Zero
                             [] ~OffPlane(c) /\ AtGate(c) -> R(2, 5)
                             [] OTHER -> R(taxi.min + 2, taxi.max + 5)
  BY DEF TouchdownToDoor
<1> HIDE DEF planned, ahead
<1>3. taxi \in Spans
  <2>1. CASE planned <= 0
    <3>1. taxi = R(10, 22)
      BY <1>1, <2>1
    <3> HIDE DEF taxi
    <3> QED BY <3>1, RangeSpans
  <2>2. CASE planned > 0 /\ HasLanded(c) /\ ahead > 0
    <3>1. Biggest(0, ahead - 3) \in Nat /\ ahead + 3 \in Nat /\ Biggest(0, ahead - 3) <= ahead + 3
      BY <1>1, <2>2 DEF Biggest
    <3>2. taxi = R(Biggest(0, ahead - 3), ahead + 3)
      BY <1>1, <2>2
    <3> QED BY <3>1, <3>2, RangeSpans
  <2>3. CASE planned > 0 /\ ~(HasLanded(c) /\ ahead > 0)
    <3>1. taxi = R(planned, planned)
      BY <1>1, <2>3
    <3> QED BY <1>1, <2>3, <3>1, RangeSpans
  <2>4. planned <= 0 \/ planned > 0
    BY <1>1
  <2> HIDE DEF taxi
  <2> QED BY <2>1, <2>2, <2>3, <2>4, Zenon
<1> HIDE DEF taxi
<1>4. /\ taxi.min + 2 \in Nat /\ taxi.max + 5 \in Nat /\ taxi.min + 2 <= taxi.max + 5
  BY <1>3 DEF Spans, Ranges
<1>5. R(taxi.min + 2, taxi.max + 5) \in Spans /\ R(2, 5) \in Spans /\ Zero \in Spans
  BY <1>4, RangeSpans DEF Zero
<1> QED BY <1>2, <1>5

LEMMA BaggageSpans == ASSUME NEW c \in Given PROVE RemainingBaggage(c) \in Spans
<1> DEFINE full == FullBaggage(c)
           ahead == Biggest(0, Expected(full) - Biggest(0, c.now - EffectiveGate(c)))
           half == Smallest(8, (full.max - full.min + 1) \div 2)
<1>1. full \in Spans /\ Zero \in Spans
  <2>1. Zero \in Spans
    BY RangeSpans DEF Zero
  <2>2. /\ R(30, 50) \in Spans /\ R(15, 30) \in Spans /\ R(15, 40) \in Spans
        /\ R(10, 30) \in Spans /\ R(12, 25) \in Spans
    BY RangeSpans
  <2> QED BY <2>1, <2>2 DEF FullBaggage
<1>2. c.now \in Int /\ EffectiveGate(c) \in Int
  BY GivenTimes
<1>3. Expected(full) \in Nat /\ full.min \in Int /\ full.max \in Int /\ full.min <= full.max
  BY <1>1, SpanExpected DEF Spans, Ranges
<1>4. RemainingBaggage(c) = IF BagsCollected(c) \/ full = Zero THEN Zero
                            ELSE IF ~AtGate(c) \/ EffectiveGate(c) > c.now THEN full
                            ELSE IF ahead = 0 THEN Zero
                            ELSE R(Biggest(0, ahead - half), ahead + half)
  BY DEF RemainingBaggage
<1> HIDE DEF full
<1>5. ahead \in Nat
  BY <1>2, <1>3 DEF Biggest
<1>6. half \in Nat
  BY <1>3 DEF Smallest
<1> HIDE DEF ahead, half
<1>7. /\ Biggest(0, ahead - half) \in Nat /\ ahead + half \in Nat
      /\ Biggest(0, ahead - half) <= ahead + half
  BY <1>5, <1>6 DEF Biggest
<1>8. R(Biggest(0, ahead - half), ahead + half) \in Spans
  BY <1>7, RangeSpans
<1> QED BY <1>1, <1>4, <1>8

LEMMA ExitSpans ==
  ASSUME NEW c \in Given
  PROVE  ExitStages(c) \in Seq(Spans) /\ Len(ExitStages(c)) = 7
<1>1. Zero \in Spans
  BY RangeSpans DEF Zero
<1>2. SeatToExit(c) \in Spans
  <2>1. R(4, 12) \in Spans /\ R(8, 22) \in Spans /\ R(13, 30) \in Spans /\ R(5, 25) \in Spans
    BY RangeSpans
  <2> QED BY <1>1, <2>1 DEF SeatToExit
<1>3. GateToBaggage(c) \in Spans
  BY <1>1, RangeSpans DEF GateToBaggage
<1>4. Immigration(c) \in Spans
  <2>1. /\ R(25, 75) \in Spans /\ R(15, 45) \in Spans /\ R(5, 20) \in Spans
        /\ R(20, 65) \in Spans
    BY RangeSpans
  <2> QED BY <1>1, <2>1 DEF Immigration
<1>5. Customs(c) \in Spans
  BY <1>1, RangeSpans DEF Customs
<1>6. FinalWalk(c) \in Spans
  BY <1>1, RangeSpans DEF FinalWalk
<1>7. TouchdownToDoor(c) \in Spans /\ RemainingBaggage(c) \in Spans
  BY TouchdownSpans, BaggageSpans
<1> QED BY <1>2, <1>3, <1>4, <1>5, <1>6, <1>7 DEF ExitStages

(* Nothing is left exactly outside.                                           *)
LEMMA NothingLeftOutside ==
  ASSUME NEW c \in Given
  PROVE  Outside(c) <=> \A i \in 1..7: ExitStages(c)[i] = Zero
<1>1. CASE Outside(c)
  <2>1. BagsCollected(c) /\ OffPlane(c)
    BY <1>1 DEF BagsCollected, OffPlane
  <2>2. /\ TouchdownToDoor(c) = Zero /\ SeatToExit(c) = Zero /\ GateToBaggage(c) = Zero
        /\ Immigration(c) = Zero /\ RemainingBaggage(c) = Zero /\ Customs(c) = Zero
        /\ FinalWalk(c) = Zero
    <3>1. TouchdownToDoor(c) = Zero
      BY <2>1 DEF TouchdownToDoor
    <3>2. SeatToExit(c) = Zero
      BY <2>1 DEF SeatToExit
    <3>3. GateToBaggage(c) = Zero /\ Customs(c) = Zero
      BY <2>1 DEF GateToBaggage, Customs
    <3>4. Immigration(c) = Zero
      BY <2>1 DEF Immigration
    <3>5. RemainingBaggage(c) = Zero
      BY <2>1 DEF RemainingBaggage
    <3>6. FinalWalk(c) = Zero
      BY <1>1 DEF FinalWalk
    <3> QED BY <3>1, <3>2, <3>3, <3>4, <3>5, <3>6
  <2>3. \A i \in 1..7: i \in {1, 2, 3, 4, 5, 6, 7}
    OBVIOUS
  <2> QED BY <1>1, <2>2, <2>3 DEF ExitStages
<1>2. CASE ~Outside(c)
  <2>1. FinalWalk(c) # Zero
    BY <1>2 DEF FinalWalk, Zero, R
  <2>2. ExitStages(c)[7] = FinalWalk(c)
    BY DEF ExitStages
  <2> QED BY <1>2, <2>1, <2>2
<1> QED BY <1>1, <1>2

LEMMA ExitHolds ==
  ASSUME NEW c \in Given
  PROVE  /\ TimeToExit(c).min <= ExitExpected(c) /\ ExitExpected(c) <= TimeToExit(c).max
         /\ (TimeToExit(c) = Zero) <=> Outside(c)
         /\ (Immigration(c) # Zero)
              <=> NeedsImmigration(c) /\ ~Precleared(c) /\ ~BagsCollected(c)
<1>1. ExitWidth(c) \in Nat /\ NeedsImmigration(c) \in BOOLEAN
  BY DEF ExitWidth, NeedsImmigration
<1>2. /\ TimeToExit(c).min <= ExitExpected(c) /\ ExitExpected(c) <= TimeToExit(c).max
      /\ TimeToExit(c) = Zero <=> \A i \in 1..7: ExitStages(c)[i] = Zero
  BY <1>1, ExitSpans, BandHoldsExpected DEF TimeToExit, ExitExpected
<1>3. (Immigration(c) # Zero) <=> NeedsImmigration(c) /\ ~Precleared(c) /\ ~BagsCollected(c)
  <2>1. /\ R(25, 75) # Zero /\ R(15, 45) # Zero /\ R(5, 20) # Zero /\ R(20, 65) # Zero
    BY DEF Zero, R
  <2>2. CASE BagsCollected(c) \/ ~NeedsImmigration(c) \/ Precleared(c)
    BY <2>2 DEF Immigration
  <2>3. CASE ~(BagsCollected(c) \/ ~NeedsImmigration(c) \/ Precleared(c))
    BY <2>1, <2>3 DEF Immigration
  <2> QED BY <2>2, <2>3
<1> QED BY <1>2, <1>3, NothingLeftOutside

-----------------------------------------------------------------------------
(* What the longest time of a stage exceeds its expected time by.             *)
LEMMA LongestOverExpected ==
  ASSUME NEW r \in Ranges
  PROVE  r.max - Expected(r) = (r.max - r.min) \div 2
<1>1. ASSUME NEW a \in Int, NEW b \in Int
      PROVE  b - ((a + b + 1) \div 2) = (b - a) \div 2
  OBVIOUS
<1>2. r.min \in Int /\ r.max \in Int
  BY DEF Ranges
<1> QED BY <1>1, <1>2 DEF Expected

SecurityWidths == {6, 7, 10, 13, 14, 15, 16, 17, 20, 25}

LEMMA SecurityKnown ==
  ASSUME NEW c, Congestion(c) \in {"light", "normal", "busy", "very_busy"}
  PROVE  /\ Security(c) \in Ranges
         /\ Security(c).max - Security(c).min \in SecurityWidths
         /\ Congestion(c) # "very_busy" => Security(c).max - Security(c).min <= 20
<1> DEFINE p == CASE c.queue = "priority" -> 70
                  [] c.queue = "trusted" -> 65
                  [] OTHER -> 100
<1>1. p \in {65, 70, 100}
  OBVIOUS
<1>2. CASE Congestion(c) = "light"
  <2> DEFINE x == Biggest(5, (10 * p + 50) \div 100)
             y == Biggest(5, (20 * p + 50) \div 100)
  <2>1. Security(c) = R(x, y)
    BY <1>2 DEF Security, R
  <2>2. x \in Int /\ y \in Int /\ y - x \in SecurityWidths /\ y - x <= 20
    BY <1>1 DEF Biggest, SecurityWidths
  <2> HIDE DEF x, y
  <2> QED BY <1>2, <2>1, <2>2 DEF R, Ranges
<1>3. CASE Congestion(c) = "normal"
  <2> DEFINE x == Biggest(5, (15 * p + 50) \div 100)
             y == Biggest(5, (30 * p + 50) \div 100)
  <2>1. Security(c) = R(x, y)
    BY <1>3 DEF Security, R
  <2>2. x \in Int /\ y \in Int /\ y - x \in SecurityWidths /\ y - x <= 20
    BY <1>1 DEF Biggest, SecurityWidths
  <2> HIDE DEF x, y
  <2> QED BY <1>3, <2>1, <2>2 DEF R, Ranges
<1>4. CASE Congestion(c) = "busy"
  <2> DEFINE x == Biggest(5, (25 * p + 50) \div 100)
             y == Biggest(5, (45 * p + 49) \div 100)
  <2>1. Security(c) = R(x, y)
    BY <1>4 DEF Security, R
  <2>2. x \in Int /\ y \in Int /\ y - x \in SecurityWidths /\ y - x <= 20
    BY <1>1 DEF Biggest, SecurityWidths
  <2> HIDE DEF x, y
  <2> QED BY <1>4, <2>1, <2>2 DEF R, Ranges
<1>5. CASE Congestion(c) = "very_busy"
  <2> DEFINE x == Biggest(5, (35 * p + 50) \div 100)
             y == Biggest(5, (60 * p + 50) \div 100)
  <2>1. Security(c) = R(x, y)
    BY <1>5 DEF Security, R
  <2>2. x \in Int /\ y \in Int /\ y - x \in SecurityWidths
    BY <1>1 DEF Biggest, SecurityWidths
  <2> HIDE DEF x, y
  <2> QED BY <1>5, <2>1, <2>2 DEF R, Ranges
<1> QED BY <1>2, <1>3, <1>4, <1>5

(* How much the narrowed band of a way to the gate may leave out.             *)
BandFacts(d1, d2, d3, w, derived, cap, tenths) ==
  /\ d1 \in {5, 12, 20, 23} /\ d2 \in SecurityWidths /\ d3 \in {8, 10, 12}
  /\ w \in Int /\ d1 <= w /\ d2 <= w /\ d3 <= w /\ 3 <= w
  /\ derived = 4 * w + (d1 + d2 + d3 + 3)
  /\ cap \in {140, 200} /\ (cap = 140 => d1 <= 12 /\ d2 <= 20)
  /\ tenths \in Int
  /\ \/ tenths >= derived
     \/ tenths >= cap
     \/ tenths \in {60, 90} /\ derived <= tenths + 40

LEMMA BandLeavesOut ==
  ASSUME NEW d1, NEW d2, NEW d3, NEW w, NEW derived, NEW cap, NEW tenths,
         BandFacts(d1, d2, d3, w, derived, cap, tenths)
  PROVE  d1 \div 2 + d2 \div 2 + d3 \div 2 + 1 <= (tenths + 5) \div 10 + 15
<1> USE DEF BandFacts
<1> DEFINE left == d1 \div 2 + d2 \div 2 + d3 \div 2 + 1
<1>1. left \in Int
  BY DEF SecurityWidths
<1>2. left <= (tenths + 5) \div 10 + 15
  <2>1. left <= (derived + 5) \div 10 + 15 /\ left <= (cap + 5) \div 10 + 15
    BY DEF SecurityWidths
  <2>2. CASE tenths \in {60, 90} /\ derived <= tenths + 40
    BY <2>2 DEF SecurityWidths
  <2> HIDE DEF left
  <2>3. CASE tenths >= derived
    BY <1>1, <2>1, <2>3
  <2>4. CASE tenths >= cap
    BY <1>1, <2>1, <2>4
  <2> QED BY <2>2, <2>3, <2>4
<1> QED BY <1>2

LEMMA StagesKnown ==
  ASSUME NEW c \in Given, Congestion(c) # "unknown", DestinationType(c) # "unknown"
  PROVE  /\ BagDrop(c) \in Ranges /\ BagDrop(c).max - BagDrop(c).min \in {5, 12, 20, 23}
         /\ Security(c) \in Ranges /\ Security(c).max - Security(c).min \in SecurityWidths
         /\ Walk(c) \in Ranges /\ Walk(c).max - Walk(c).min \in {8, 10, 12}
         /\ DestinationType(c) # "international" =>
              BagDrop(c).max - BagDrop(c).min <= 12 /\ Security(c).max - Security(c).min <= 20
<1>1. DestinationType(c) \in {"domestic", "international"}
  BY DEF DestinationType
<1>2. /\ BagDrop(c) \in Ranges /\ BagDrop(c).max - BagDrop(c).min \in {5, 12, 20, 23}
      /\ DestinationType(c) # "international" => BagDrop(c).max - BagDrop(c).min <= 12
  <2>1. CASE DestinationType(c) = "domestic"
    BY <2>1 DEF BagDrop, R, Ranges
  <2>2. CASE DestinationType(c) = "international"
    BY <2>2 DEF BagDrop, R, Ranges
  <2> QED BY <1>1, <2>1, <2>2
<1>3. /\ Congestion(c) \in {"light", "normal", "busy", "very_busy"}
      /\ DestinationType(c) # "international" => Congestion(c) # "very_busy"
  <2>1. c.level \in Levels
    BY DEF Given
  <2> QED BY <2>1 DEF Congestion, Levels
<1>4. Walk(c) \in Ranges /\ Walk(c).max - Walk(c).min \in {8, 10, 12}
  BY DEF Walk, R, Ranges
<1> QED BY <1>2, <1>3, <1>4, SecurityKnown

LEMMA StartHolds ==
  ASSUME NEW c \in Given, Congestion(c) # "unknown", DestinationType(c) # "unknown"
  PROVE  RecommendedStart(c) + WorstGate(c) <= BoardingAt(c)
<1> DEFINE s == GateStages(c)
           d1 == s[1].max - s[1].min
           d2 == s[2].max - s[2].min
           d3 == s[3].max - s[3].min
           sum == SumExpected(s)
           far == DestinationType(c) = "international"
           cap == IF far THEN 200 ELSE 140
           width == CASE GateConfidence(c) = "high" -> 12
                      [] GateConfidence(c) = "medium" -> 18 [] OTHER -> 24
           planned == 5 * width
           low == GateConfidence(c) = "low"
           derived == DerivedHalf(s)
           tenths == IF low \/ derived > planned + 40
                     THEN Biggest(planned, Smallest(derived, cap)) ELSE planned
           half == (tenths + 5) \div 10
<1>1. /\ s[1] = BagDrop(c) /\ s[2] = Security(c) /\ s[3] = Walk(c) /\ s[4] = R(5, 8)
      /\ Len(s) = 4 /\ DOMAIN s = 1..4
  BY DEF GateStages
<1>2. /\ s[1] \in Ranges /\ s[2] \in Ranges /\ s[3] \in Ranges /\ s[4] \in Ranges
      /\ d1 \in {5, 12, 20, 23} /\ d2 \in SecurityWidths /\ d3 \in {8, 10, 12}
      /\ ~far => d1 <= 12 /\ d2 <= 20
      /\ s[4].max - s[4].min = 3
  BY <1>1, StagesKnown DEF R, Ranges
<1>3. s \in Seq(Ranges)
  <2>1. \A i \in 1..4: i \in {1, 2, 3, 4}
    OBVIOUS
  <2>2. s \in [1..4 -> Ranges] /\ 4 \in Nat
    BY <1>1, <1>2, <2>1 DEF GateStages
  <2> QED BY <2>2, IsSequence
<1>4. /\ sum = Expected(s[1]) + Expected(s[2]) + Expected(s[3]) + Expected(s[4])
      /\ Total(Widths(s)) = d1 + d2 + d3 + 3
      /\ WorstGate(c) = s[1].max + s[2].max + s[3].max + s[4].max
  BY <1>1, <1>2, <1>3, FourStages DEF WorstGate
<1>5. WorstGate(c) - sum = d1 \div 2 + d2 \div 2 + d3 \div 2 + 1 /\ sum \in Int
  <2>1. /\ s[1].max - Expected(s[1]) = d1 \div 2 /\ s[2].max - Expected(s[2]) = d2 \div 2
        /\ s[3].max - Expected(s[3]) = d3 \div 2 /\ s[4].max - Expected(s[4]) = 1
    BY <1>2, LongestOverExpected
  <2>2. /\ s[1].max \in Int /\ s[2].max \in Int /\ s[3].max \in Int /\ s[4].max \in Int
        /\ Expected(s[1]) \in Int /\ Expected(s[2]) \in Int
        /\ Expected(s[3]) \in Int /\ Expected(s[4]) \in Int
    BY <1>2, ExpectedTypes
  <2>3. d1 \div 2 \in Int /\ d2 \div 2 \in Int /\ d3 \div 2 \in Int
    BY <1>2 DEF SecurityWidths
  <2>4. sum = Expected(s[1]) + Expected(s[2]) + Expected(s[3]) + Expected(s[4])
        /\ WorstGate(c) = s[1].max + s[2].max + s[3].max + s[4].max
    BY <1>4
  <2>5. sum \in Int
    <3> HIDE DEF s, sum
    <3> QED BY <2>2, <2>4
  <2>6. WorstGate(c) - sum = (s[1].max - Expected(s[1])) + (s[2].max - Expected(s[2]))
                             + (s[3].max - Expected(s[3])) + (s[4].max - Expected(s[4]))
    <3> HIDE DEF s, sum
    <3> QED BY <2>2, <2>4
  <2> HIDE DEF sum
  <2> QED BY <2>1, <2>5, <2>6
<1>6. PICK w \in Int: /\ d1 <= w /\ d2 <= w /\ d3 <= w /\ 3 <= w
                      /\ w = d1 \/ w = d2 \/ w = d3 \/ w = 3
                      /\ derived = 4 * w + (d1 + d2 + d3 + 3)
  <2>1. PICK w \in Int: /\ \A i \in 1..4: s[i].max - s[i].min <= w
                        /\ \E i \in 1..4: s[i].max - s[i].min = w
                        /\ derived = 5 * w + (Total(Widths(s)) - w)
    BY <1>1, <1>3, GateDerived
  <2>2. d1 <= w /\ d2 <= w /\ d3 <= w /\ 3 <= w
    BY <1>2, <2>1
  <2>3. w = d1 \/ w = d2 \/ w = d3 \/ w = 3
    <3>1. \A i \in 1..4: i \in {1, 2, 3, 4}
      OBVIOUS
    <3> QED BY <1>2, <2>1, <3>1
  <2>4. d1 \in Int /\ d2 \in Int /\ d3 \in Int
    BY <1>2 DEF SecurityWidths
  <2>5. derived = 4 * w + (d1 + d2 + d3 + 3)
    <3> HIDE DEF derived, d1, d2, d3, s
    <3> QED BY <1>4, <2>1, <2>4
  <2> QED BY <2>2, <2>3, <2>5
<1>7. cap \in {140, 200} /\ (cap = 140 => d1 <= 12 /\ d2 <= 20)
  BY <1>2
<1>8. /\ tenths \in Int
      /\ \/ tenths >= derived
         \/ tenths >= cap
         \/ tenths \in {60, 90} /\ derived <= tenths + 40
  <2>1. planned \in {60, 90, 120} /\ (planned = 120 => low)
    BY DEF GateConfidence
  <2>2. derived \in Int
    BY <1>2, <1>6 DEF SecurityWidths
  <2> HIDE DEF planned, cap, derived, low
  <2>3. CASE low \/ derived > planned + 40
    <3>1. tenths = Biggest(planned, Smallest(derived, cap))
      BY <2>3
    <3> QED BY <1>7, <2>1, <2>2, <3>1 DEF Biggest, Smallest
  <2>4. CASE ~(low \/ derived > planned + 40)
    <3>1. tenths = planned
      BY <2>4
    <3> QED BY <2>1, <2>2, <2>4, <3>1
  <2> QED BY <2>3, <2>4
<1>9. d1 \div 2 + d2 \div 2 + d3 \div 2 + 1 <= half + 15 /\ half \in Int
  <2>1. derived \in Int
    BY <1>2, <1>6 DEF SecurityWidths
  <2> HIDE DEF d1, d2, d3, cap, derived, tenths
  <2>2. d1 \div 2 + d2 \div 2 + d3 \div 2 + 1 <= (tenths + 5) \div 10 + 15
    <3>1. BandFacts(d1, d2, d3, w, derived, cap, tenths)
      BY <1>2, <1>6, <1>7, <1>8 DEF BandFacts
    <3> QED BY <3>1, BandLeavesOut, Zenon
  <2> QED BY <1>8, <2>2
<1>10. TimeToGate(c).max = sum + half
  <2>1. s[4] # Zero
    BY <1>1 DEF R, Zero
  <2>2. TimeToGate(c) = IF \A i \in DOMAIN s: s[i] = Zero THEN Zero
                        ELSE R(Biggest(0, sum - half), sum + half)
    BY DEF TimeToGate, NarrowTotalRange
  <2> HIDE DEF s, sum, half
  <2>3. TimeToGate(c) = R(Biggest(0, sum - half), sum + half)
    BY <1>1, <2>1, <2>2
  <2> QED BY <2>3 DEF R
<1>11. BoardingAt(c) \in Int /\ WorstGate(c) \in Int
  <2>1. c.departs \in Int
    BY DEF Given
  <2>2. BoardingAt(c) \in Int
    BY <2>1 DEF BoardingAt
  <2>3. s[1].max \in Int /\ s[2].max \in Int /\ s[3].max \in Int /\ s[4].max \in Int
    BY <1>2, ExpectedTypes
  <2> QED BY <1>4, <2>2, <2>3
<1>12. RecommendedStart(c) = BoardingAt(c) - 15 - (sum + half)
  BY <1>10 DEF RecommendedStart, TargetGateArrival, GateBuffer
<1> HIDE DEF sum, half, d1, d2, d3
<1> QED BY <1>5, <1>9, <1>11, <1>12

-----------------------------------------------------------------------------
(* The type invariant is enough: whatever the engine is given, the estimates  *)
(* agree.                                                                     *)
LEMMA EstimatesHold == EstimatesTypeOK => EstimatesInv
<1> SUFFICES ASSUME EstimatesTypeOK PROVE EstimatesInv
  OBVIOUS
<1>1. context \in Given
  BY DEF EstimatesTypeOK
<1>2. StartOfWindowBoards
  BY <1>1, StartHolds DEF StartOfWindowBoards
<1>3. ExitAgrees
  BY <1>1, ExitHolds DEF ExitAgrees
<1> QED BY <1>2, <1>3 DEF EstimatesInv

LEMMA InitEstimates == EstimatesInit => EstimatesTypeOK
<1> SUFFICES ASSUME EstimatesInit PROVE EstimatesTypeOK
  OBVIOUS
<1>1. leg \in {"depart", "arrive"} /\ context \in Contexts(leg)
  BY DEF EstimatesInit
<1>2. /\ Minutes \in Nat /\ LastMinute \in Nat
      /\ \A t \in Taxis: Minutes + t \in Nat
  BY EstimatesAssumption
<1>3. /\ context.level \in Levels /\ context.queue \in Queues /\ context.gate \in BOOLEAN
      /\ context.airport \in {"medium", "far", "default"} /\ context.departs \in Nat
      /\ context.seat \in Seats \cup {"unknown"}
      /\ context.destination \in Destinations \cup {"exit"}
      /\ context.now \in 0..LastMinute /\ context.marks \in SUBSET Range(Marks)
      /\ context.process \in Processes /\ context.lane \in Lanes /\ context.bags \in Bags
  <2>1. /\ context.level \in Levels /\ context.queue \in Queues /\ context.gate \in BOOLEAN
        /\ context.airport \in {"medium", "far", "default"}
        /\ context.seat \in Seats \cup {"unknown"}
        /\ context.destination \in Destinations \cup {"exit"}
    <3>1. CASE leg = "depart"
      BY <1>1, <3>1 DEF Contexts
    <3>2. CASE leg = "arrive"
      BY <1>1, <3>2 DEF Contexts, Levels, Queues
    <3> QED BY <1>1, <3>1, <3>2
  <2>2. /\ context.process \in Processes /\ context.lane \in Lanes /\ context.bags \in Bags
        /\ context.departs = LastMinute /\ context.now = 0 /\ context.marks = {}
    BY <1>1 DEF Contexts
  <2> QED BY <1>2, <2>1, <2>2
<1>4. context.runway \in Stamps /\ context.door \in Stamps
  BY <1>1, <1>2 DEF Contexts, Stamps
<1>5. context = [process |-> context.process, lane |-> context.lane, bags |-> context.bags,
        level |-> context.level, queue |-> context.queue, gate |-> context.gate,
        airport |-> context.airport, departs |-> context.departs, seat |-> context.seat,
        destination |-> context.destination, now |-> context.now,
        runway |-> context.runway, door |-> context.door, marks |-> context.marks]
  BY <1>1 DEF Contexts
<1>6. context \in Given
  BY <1>3, <1>4, <1>5 DEF Given
<1> QED BY <1>1, <1>6 DEF EstimatesTypeOK

LEMMA GivenStays ==
  ASSUME NEW c \in Given
  PROVE  /\ \A n \in 0..LastMinute: [c EXCEPT !.now = n] \in Given
         /\ \A s \in Stamps: [c EXCEPT !.runway = s] \in Given
         /\ \A s \in Stamps: [c EXCEPT !.door = s] \in Given
         /\ \A m \in SUBSET Range(Marks): [c EXCEPT !.marks = m] \in Given
         /\ \A d \in Nat, l \in Levels: [c EXCEPT !.departs = d, !.level = l] \in Given
BY DEF Given

LEMMA EstimatesPreserve == EstimatesTypeOK /\ [EstimatesNext]_estimateVars => EstimatesTypeOK'
<1> SUFFICES ASSUME EstimatesTypeOK, [EstimatesNext]_estimateVars PROVE EstimatesTypeOK'
  OBVIOUS
<1>1. /\ leg \in {"depart", "arrive"} /\ context \in Given /\ context.now \in 0..LastMinute
      /\ context.departs \in Nat /\ context.marks \in SUBSET Range(Marks)
      /\ context.runway \in Stamps /\ context.door \in Stamps
  BY DEF EstimatesTypeOK, Given
<1>2. Minutes \in Nat /\ LastMinute \in Nat
  BY EstimatesAssumption
<1>3. CASE MinutesPass
  <2>1. context.now + Minutes \in 0..LastMinute
    BY <1>1, <1>2, <1>3 DEF MinutesPass
  <2>2. context' = [context EXCEPT !.now = context.now + Minutes]
    BY <1>3 DEF MinutesPass
  <2> QED BY <1>1, <1>3, <2>1, <2>2, GivenStays DEF MinutesPass, EstimatesTypeOK
<1>4. CASE TouchesDown
  <2>1. [context.runway EXCEPT !.actual = context.now] \in Stamps
    BY <1>1 DEF Stamps
  <2>2. context' = [context EXCEPT !.runway = [context.runway EXCEPT !.actual = context.now]]
    BY <1>4 DEF TouchesDown
  <2> QED BY <1>1, <1>4, <2>1, <2>2, GivenStays DEF TouchesDown, EstimatesTypeOK
<1>5. CASE ReachesGate
  <2>1. [context.door EXCEPT !.actual = context.now] \in Stamps
    BY <1>1 DEF Stamps
  <2>2. context' = [context EXCEPT !.door = [context.door EXCEPT !.actual = context.now]]
    BY <1>5 DEF ReachesGate
  <2> QED BY <1>1, <1>5, <2>1, <2>2, GivenStays DEF ReachesGate, EstimatesTypeOK
<1>6. CASE MarkProgress
  <2>1. PICK i \in DOMAIN Marks:
          context' = [context EXCEPT !.marks = context.marks \cup {Marks[i]}]
    BY <1>6 DEF MarkProgress
  <2>2. context.marks \cup {Marks[i]} \in SUBSET Range(Marks)
    BY <1>1 DEF Range
  <2> QED BY <1>1, <1>6, <2>1, <2>2, GivenStays DEF MarkProgress, EstimatesTypeOK
<1>7. CASE ResetProgress
  <2>1. {} \in SUBSET Range(Marks) /\ context' = [context EXCEPT !.marks = {}]
    BY <1>7 DEF ResetProgress
  <2> QED BY <1>1, <1>7, <2>1, GivenStays DEF ResetProgress, EstimatesTypeOK
<1>8. CASE Slips
  <2>1. PICK l \in Levels:
          context' = [context EXCEPT !.departs = context.departs + Minutes, !.level = l]
    BY <1>8 DEF Slips
  <2>2. context.departs + Minutes \in Nat
    BY <1>1, <1>2
  <2> QED BY <1>1, <1>8, <2>1, <2>2, GivenStays DEF Slips, EstimatesTypeOK
<1>9. CASE UNCHANGED estimateVars
  BY <1>1, <1>9 DEF estimateVars, EstimatesTypeOK
<1> QED BY <1>3, <1>4, <1>5, <1>6, <1>7, <1>8, <1>9 DEF EstimatesNext

(* Whatever the flight, the preferences, the clock and the progress: leaving  *)
(* at the start of the window is early enough, and what is told of the way    *)
(* out agrees with itself (EstimatesInv).                                     *)
THEOREM EstimatesInvariant == EstimatesSpec => []EstimatesInv
<1>1. EstimatesSpec => []EstimatesTypeOK
  BY InitEstimates, EstimatesPreserve, PTL DEF EstimatesSpec
<1> QED BY <1>1, EstimatesHold, PTL

-----------------------------------------------------------------------------
(* Estimates from one step to the next. Of the seven stages of the way out    *)
(* each is compared with itself a step later; a way that has come down stage  *)
(* by stage is expected to take no longer, and its band ends no later unless  *)
(* the band has grown. One stage may widen, the wait for bags, by a minute.   *)
LEMMA ExitDerivedFromWidest ==
  ASSUME NEW s \in Seq(Ranges), Len(s) = 7
  PROVE  \E w \in Int:
           /\ \A i \in 1..7: s[i].max - s[i].min <= w
           /\ \E i \in 1..7: s[i].max - s[i].min = w
           /\ DerivedHalf(s) = 5 * w + (Total(Widths(s)) - w)
<1> DEFINE w == Widths(s)
<1>1. /\ w \in Seq(Int) /\ Len(w) = 7 /\ DOMAIN w = 1..7 /\ \A i \in 1..7: w[i] \in Int
      /\ \A i \in 1..7: w[i] = s[i].max - s[i].min
  BY SevenStages, LenProperties, ElementOfSeq
<1>3. Range(w) = {w[1], w[2], w[3], w[4], w[5], w[6], w[7]}
  BY <1>1 DEF Range
<1>4. HasMost(Range(w))
  <2> HIDE DEF w
  <2>1. /\ w[1] \in Int /\ w[2] \in Int /\ w[3] \in Int /\ w[4] \in Int
        /\ w[5] \in Int /\ w[6] \in Int /\ w[7] \in Int
    BY <1>1
  <2>2. HasMost({w[1], w[2], w[3], w[4], w[5], w[6], w[7]})
    BY <2>1, MostOfSeven, Zenon
  <2> QED BY <1>3, <2>2
<1>5. PICK x \in Range(w): /\ x \in Int /\ \A v \in Range(w): v <= x
                           /\ DerivedHalf(s) = 5 * x + (Total(w) - x)
  BY <1>4, DerivedFromWidest
<1>6. \A i \in 1..7: w[i] \in Range(w)
  BY <1>1 DEF Range
<1>7. \E i \in 1..7: w[i] = x
  BY <1>1, <1>5 DEF Range
<1> QED BY <1>1, <1>5, <1>6, <1>7

(* The band of a way, in tenths of a minute.                                  *)
Tenths(derived, confidence, width, far) ==
  IF confidence = "low" \/ derived > 5 * width + 40
  THEN Biggest(5 * width, Smallest(derived, IF far THEN 200 ELSE 140))
  ELSE 5 * width

Band(s, confidence, width, far) == Tenths(DerivedHalf(s), confidence, width, far)

LEMMA BandIsWhole ==
  ASSUME NEW derived \in Int, NEW confidence, NEW width \in Nat, NEW far \in BOOLEAN
  PROVE  Tenths(derived, confidence, width, far) \in Nat
         /\ Tenths(derived, confidence, width, far) >= 5 * width
BY DEF Tenths, Biggest, Smallest

LEMMA SpansAreRanges ==
  ASSUME NEW s \in Seq(Spans), Len(s) = 7
  PROVE  /\ s \in Seq(Ranges) /\ DOMAIN s = 1..7 /\ \A i \in 1..7: s[i] \in Spans
<1>1. /\ DOMAIN s = 1..7 /\ \A i \in 1..7: s[i] \in Spans
  BY LenProperties, ElementOfSeq
<1>2. \A i \in 1..7: s[i] \in Ranges
  BY <1>1 DEF Spans
<1>3. s \in [1..7 -> Ranges] /\ 7 \in Nat
  BY <1>1, <1>2, LenProperties
<1> QED BY <1>1, <1>3, IsSequence

LEMMA SumOfSpans ==
  ASSUME NEW s \in Seq(Spans), Len(s) = 7
  PROVE  /\ SumExpected(s) = Expected(s[1]) + Expected(s[2]) + Expected(s[3]) + Expected(s[4])
                              + Expected(s[5]) + Expected(s[6]) + Expected(s[7])
         /\ SumExpected(s) \in Nat
         /\ (\A i \in 1..7: s[i] = Zero) <=> SumExpected(s) = 0
<1>1. SumExpected(s) = Expected(s[1]) + Expected(s[2]) + Expected(s[3]) + Expected(s[4])
                        + Expected(s[5]) + Expected(s[6]) + Expected(s[7])
  BY SpansAreRanges, SevenStages
<1>2. \A i \in 1..7: Expected(s[i]) \in Nat /\ (s[i] # Zero => Expected(s[i]) >= 1)
  BY SpansAreRanges, SpanExpected
<1>3. SumExpected(s) \in Nat /\ ((\E i \in 1..7: s[i] # Zero) => SumExpected(s) >= 1)
  <2> DEFINE x == [i \in 1..7 |-> Expected(s[i])]
  <2>1. /\ x \in [1..7 -> Nat] /\ \A i \in 1..7: s[i] # Zero => x[i] >= 1
    BY <1>2
  <2>2. SumExpected(s) = x[1] + x[2] + x[3] + x[4] + x[5] + x[6] + x[7]
    BY <1>1
  <2> HIDE DEF x
  <2> QED BY <2>1, <2>2, SumOfSeven
<1>4. (\A i \in 1..7: s[i] = Zero) => SumExpected(s) = 0
  <2>1. Expected(Zero) = 0
    BY DEF Expected, Zero, R
  <2> QED BY <1>1, <2>1
<1> QED BY <1>1, <1>3, <1>4

LEMMA SevenAtMost ==
  ASSUME NEW a \in [1..7 -> Int], NEW b \in [1..7 -> Int], \A i \in 1..7: b[i] <= a[i]
  PROVE  b[1] + b[2] + b[3] + b[4] + b[5] + b[6] + b[7]
           <= a[1] + a[2] + a[3] + a[4] + a[5] + a[6] + a[7]
<1>1. /\ a[1] \in Int /\ a[2] \in Int /\ a[3] \in Int /\ a[4] \in Int
      /\ a[5] \in Int /\ a[6] \in Int /\ a[7] \in Int
      /\ b[1] \in Int /\ b[2] \in Int /\ b[3] \in Int /\ b[4] \in Int
      /\ b[5] \in Int /\ b[6] \in Int /\ b[7] \in Int
  OBVIOUS
<1>2. /\ b[1] <= a[1] /\ b[2] <= a[2] /\ b[3] <= a[3] /\ b[4] <= a[4]
      /\ b[5] <= a[5] /\ b[6] <= a[6] /\ b[7] <= a[7]
  OBVIOUS
<1> QED BY <1>1, <1>2

(* A way that has come down, stage by stage, is expected to take no longer.   *)
LEMMA SumShrinks ==
  ASSUME NEW s \in Seq(Spans), Len(s) = 7, NEW t \in Seq(Spans), Len(t) = 7,
         \A i \in 1..7: Expected(t[i]) <= Expected(s[i])
  PROVE  SumExpected(t) <= SumExpected(s)
<1> DEFINE a == [i \in 1..7 |-> Expected(s[i])]
           b == [i \in 1..7 |-> Expected(t[i])]
<1>1. a \in [1..7 -> Int] /\ b \in [1..7 -> Int] /\ \A i \in 1..7: b[i] <= a[i]
  BY SpansAreRanges, SpanExpected
<1>2. SumExpected(s) = a[1] + a[2] + a[3] + a[4] + a[5] + a[6] + a[7]
  BY SumOfSpans
<1>3. SumExpected(t) = b[1] + b[2] + b[3] + b[4] + b[5] + b[6] + b[7]
  BY SumOfSpans
<1> HIDE DEF a, b
<1> QED BY <1>1, <1>2, <1>3, SevenAtMost

(* A band around no more, and no wider, ends no later.                        *)
LEMMA BandEndsNoLater ==
  ASSUME NEW s \in Seq(Spans), Len(s) = 7, NEW t \in Seq(Spans), Len(t) = 7,
         SumExpected(t) <= SumExpected(s),
         NEW f, NEW n \in Nat, NEW g, NEW m \in Nat, NEW far \in BOOLEAN,
         Band(t, g, m, far) <= Band(s, f, n, far)
  PROVE  NarrowTotalRange(t, g, m, far).max <= NarrowTotalRange(s, f, n, far).max
<1> DEFINE a == Band(s, f, n, far)
           b == Band(t, g, m, far)
<1>1. a \in Nat /\ b \in Nat /\ b <= a
  BY SpansAreRanges, ExitDerived, BandIsWhole DEF Band
<1>2. /\ NarrowTotalRange(s, f, n, far) =
           IF \A i \in 1..7: s[i] = Zero THEN Zero
           ELSE R(Biggest(0, SumExpected(s) - ((a + 5) \div 10)),
                  SumExpected(s) + ((a + 5) \div 10))
      /\ NarrowTotalRange(t, g, m, far) =
           IF \A i \in 1..7: t[i] = Zero THEN Zero
           ELSE R(Biggest(0, SumExpected(t) - ((b + 5) \div 10)),
                  SumExpected(t) + ((b + 5) \div 10))
  BY SpansAreRanges DEF NarrowTotalRange, Band, Tenths
<1>3. /\ SumExpected(s) \in Nat /\ SumExpected(t) \in Nat
      /\ (\A i \in 1..7: s[i] = Zero) <=> SumExpected(s) = 0
      /\ (\A i \in 1..7: t[i] = Zero) <=> SumExpected(t) = 0
  BY SumOfSpans
<1> HIDE DEF a, b
<1>4. (b + 5) \div 10 <= (a + 5) \div 10 /\ (a + 5) \div 10 \in Nat /\ (b + 5) \div 10 \in Nat
  BY <1>1
<1> DEFINE x == (a + 5) \div 10
           y == (b + 5) \div 10
<1>5. y <= x /\ x \in Nat /\ y \in Nat
  BY <1>4
<1>6. /\ NarrowTotalRange(s, f, n, far).max = IF SumExpected(s) = 0 THEN 0 ELSE SumExpected(s) + x
      /\ NarrowTotalRange(t, g, m, far).max = IF SumExpected(t) = 0 THEN 0 ELSE SumExpected(t) + y
  BY <1>2, <1>3 DEF R, Zero
<1> HIDE DEF x, y
<1> QED BY <1>3, <1>5, <1>6

Wide(r) == r.max - r.min

LEMMA SpanWide == ASSUME NEW r \in Spans PROVE Wide(r) \in Nat /\ r.max - r.min = Wide(r)
<1>1. r.min \in Int /\ r.max \in Int /\ r.min <= r.max
  BY DEF Spans, Ranges
<1> QED BY <1>1 DEF Wide

LEMMA WidthsAdd ==
  ASSUME NEW s \in Seq(Spans), Len(s) = 7
  PROVE  /\ Total(Widths(s)) = Wide(s[1]) + Wide(s[2]) + Wide(s[3]) + Wide(s[4])
                                + Wide(s[5]) + Wide(s[6]) + Wide(s[7])
         /\ \A i \in 1..7: Wide(s[i]) \in Nat
         /\ Total(Widths(s)) \in Nat
<1>1. \A i \in 1..7: Wide(s[i]) \in Nat
  BY SpansAreRanges, SpanWide
<1>2. Total(Widths(s)) = Wide(s[1]) + Wide(s[2]) + Wide(s[3]) + Wide(s[4])
                          + Wide(s[5]) + Wide(s[6]) + Wide(s[7])
  BY SpansAreRanges, SevenStages DEF Wide
<1>3. Total(Widths(s)) \in Nat
  <2> DEFINE x == [i \in 1..7 |-> Wide(s[i])]
  <2>1. x \in [1..7 -> Nat]
    BY <1>1
  <2>2. Total(Widths(s)) = x[1] + x[2] + x[3] + x[4] + x[5] + x[6] + x[7]
    BY <1>2
  <2> HIDE DEF x
  <2> QED BY <2>1, <2>2, SumOfSeven
<1> QED BY <1>1, <1>2, <1>3

LEMMA DerivedAtMost ==
  ASSUME NEW s \in Seq(Spans), Len(s) = 7, NEW m \in Int, \A i \in 1..7: Wide(s[i]) <= m
  PROVE  DerivedHalf(s) <= 4 * m + Total(Widths(s))
<1>1. PICK w \in Int: /\ \A i \in 1..7: Wide(s[i]) <= w
                      /\ \E i \in 1..7: Wide(s[i]) = w
                      /\ DerivedHalf(s) = 5 * w + (Total(Widths(s)) - w)
  BY SpansAreRanges, ExitDerivedFromWidest DEF Wide
<1>2. w <= m
  BY <1>1
<1>3. Total(Widths(s)) \in Int
  BY WidthsAdd
<1>4. ASSUME NEW x \in Int, NEW d, d = 5 * w + (x - w) PROVE d <= 4 * m + x
  BY <1>2, <1>4
<1> QED BY <1>1, <1>3, <1>4

(* A way whose stages are no wider has no wider a band; nor has one whose     *)
(* wait for bags is a minute wider and where nobody sits in the plane.        *)
LEMMA DerivedShrinks ==
  ASSUME NEW s \in Seq(Spans), Len(s) = 7, NEW t \in Seq(Spans), Len(t) = 7,
         NEW e \in {0, 1}, \A i \in 1..7: Wide(t[i]) <= Wide(s[i]) + e,
         Total(Widths(t)) + 4 * e <= Total(Widths(s))
  PROVE  DerivedHalf(t) <= DerivedHalf(s)
<1>1. PICK w \in Int: /\ \A i \in 1..7: Wide(s[i]) <= w
                      /\ \E i \in 1..7: Wide(s[i]) = w
                      /\ DerivedHalf(s) = 5 * w + (Total(Widths(s)) - w)
  BY SpansAreRanges, ExitDerivedFromWidest DEF Wide
<1>2. ASSUME NEW i \in 1..7 PROVE Wide(t[i]) <= w + e
  <2>1. Wide(t[i]) \in Nat /\ Wide(s[i]) \in Nat /\ Wide(t[i]) <= Wide(s[i]) + e /\ Wide(s[i]) <= w
    BY <1>1, WidthsAdd
  <2> QED BY <2>1
<1>3. DerivedHalf(t) <= 4 * (w + e) + Total(Widths(t))
  <2>1. w + e \in Int
    BY <1>1
  <2> HIDE DEF Wide
  <2> QED BY <1>2, <2>1, DerivedAtMost
<1>4. Total(Widths(s)) \in Nat /\ Total(Widths(t)) \in Nat /\ DerivedHalf(t) \in Int
  BY WidthsAdd, ExitDerived, SpansAreRanges
<1> DEFINE x == Total(Widths(s))
           y == Total(Widths(t))
           d == DerivedHalf(t)
<1>5. x \in Int /\ y \in Int /\ d \in Int /\ y + 4 * e <= x /\ d <= 4 * (w + e) + y
  BY <1>3, <1>4
<1>6. DerivedHalf(s) = 5 * w + (x - w)
  BY <1>1
<1> HIDE DEF x, y, d
<1>7. d <= 5 * w + (x - w)
  BY <1>1, <1>5
<1> QED BY <1>6, <1>7 DEF d

LEMMA BandNarrows ==
  ASSUME NEW a \in Int, NEW b \in Int, NEW n \in Nat, NEW m \in Nat, m <= n,
         NEW f, NEW far \in BOOLEAN,
         b <= 5 * m + 40 \/ (b <= a /\ (f = "low" \/ m = n))
  PROVE  Tenths(b, "high", m, far) <= Tenths(a, f, n, far)
<1>1. CASE b <= 5 * m + 40
  BY <1>1 DEF Tenths, Biggest, Smallest
<1>2. CASE b > 5 * m + 40 /\ b <= a /\ (f = "low" \/ m = n)
  BY <1>2 DEF Tenths, Biggest, Smallest
<1> QED BY <1>1, <1>2

-----------------------------------------------------------------------------
(* Nothing but the time and the marks changes on the way.                     *)
Alike(c, d) ==
  /\ d.process = c.process /\ d.lane = c.lane /\ d.bags = c.bags /\ d.level = c.level
  /\ d.seat = c.seat /\ d.destination = c.destination
  /\ d.runway = c.runway /\ d.door = c.door

LEMMA AlikeStages ==
  ASSUME NEW c, NEW d, Alike(c, d)
  PROVE  /\ DestinationType(d) = DestinationType(c) /\ NeedsImmigration(d) = NeedsImmigration(c)
         /\ Precleared(d) = Precleared(c) /\ Congestion(d) = Congestion(c)
         /\ FullBaggage(d) = FullBaggage(c) /\ EffectiveGate(d) = EffectiveGate(c)
         /\ EffectiveRunway(d) = EffectiveRunway(c)
<1>1. DestinationType(d) = DestinationType(c)
  BY DEF Alike, DestinationType
<1>2. /\ NeedsImmigration(d) = NeedsImmigration(c) /\ Precleared(d) = Precleared(c)
      /\ EffectiveGate(d) = EffectiveGate(c) /\ EffectiveRunway(d) = EffectiveRunway(c)
  BY DEF Alike, NeedsImmigration, Precleared, EffectiveGate, EffectiveRunway
<1>3. Congestion(d) = Congestion(c) /\ FullBaggage(d) = FullBaggage(c)
  BY <1>1 DEF Alike, Congestion, FullBaggage
<1> QED BY <1>1, <1>2, <1>3

(* The wait for bags: x minutes of it are expected still.                     *)
Half(full) == Smallest(8, (full.max - full.min + 1) \div 2)
WaitOf(full, x) ==
  IF x = 0 THEN Zero ELSE R(Biggest(0, x - Half(full)), x + Half(full))
Left(c) == Biggest(0, Expected(FullBaggage(c)) - Biggest(0, c.now - EffectiveGate(c)))

LEMMA BaggageIs ==
  ASSUME NEW c
  PROVE  RemainingBaggage(c) =
           IF BagsCollected(c) \/ FullBaggage(c) = Zero THEN Zero
           ELSE IF ~AtGate(c) \/ EffectiveGate(c) > c.now THEN FullBaggage(c)
           ELSE WaitOf(FullBaggage(c), Left(c))
BY DEF RemainingBaggage, WaitOf, Left, Half

Waits == {R(30, 50), R(15, 30), R(15, 40), R(10, 30), R(12, 25)}
Tight == {R(15, 30), R(12, 25)}

LEMMA FullIsKnown ==
  ASSUME NEW c
  PROVE  /\ FullBaggage(c) = Zero \/ FullBaggage(c) \in Waits
         /\ FullBaggage(c) \in Tight =>
              ~NeedsImmigration(c) /\ c.bags # "no" /\ DestinationType(c) # "international"
<1>1. FullBaggage(c) = Zero \/ FullBaggage(c) \in Waits
  BY DEF FullBaggage, Waits
<1>2. FullBaggage(c) \in Tight => c.bags # "no" /\ DestinationType(c) # "international"
  BY DEF FullBaggage, Tight, R, Zero
<1>3. NeedsImmigration(c) => DestinationType(c) = "international"
  BY DEF NeedsImmigration, DestinationType
<1> QED BY <1>1, <1>2, <1>3

LEMMA WaitIs ==
  ASSUME NEW full \in Waits, NEW x \in Nat
  PROVE  /\ Half(full) \in {7, 8} /\ Expected(full) \in {40, 23, 28, 20, 19}
         /\ Expected(WaitOf(full, x)) =
              IF x = 0 THEN 0 ELSE IF x >= Half(full) THEN x ELSE (x + Half(full) + 1) \div 2
         /\ Wide(WaitOf(full, x)) =
              IF x = 0 THEN 0 ELSE IF x >= Half(full) THEN 2 * Half(full) ELSE x + Half(full)
<1>1. Half(full) \in {7, 8} /\ Expected(full) \in {40, 23, 28, 20, 19}
  BY DEF Waits, R, Half, Smallest, Expected
<1> DEFINE h == Half(full)
<1>2. h \in {7, 8} /\ WaitOf(full, x) = IF x = 0 THEN R(0, 0) ELSE R(Biggest(0, x - h), x + h)
  BY <1>1 DEF WaitOf, Zero
<1> HIDE DEF h
<1>3. /\ Expected(WaitOf(full, x)) = IF x = 0 THEN 0 ELSE IF x >= h THEN x ELSE (x + h + 1) \div 2
      /\ Wide(WaitOf(full, x)) = IF x = 0 THEN 0 ELSE IF x >= h THEN 2 * h ELSE x + h
  <2>1. CASE x = 0
    BY <1>2, <2>1 DEF R, Expected, Wide
  <2>2. CASE x # 0 /\ x >= h
    <3>1. WaitOf(full, x) = R(x - h, x + h)
      BY <1>2, <2>2 DEF Biggest
    <3>2. Expected(R(x - h, x + h)) = x /\ Wide(R(x - h, x + h)) = 2 * h
      BY <1>2, <2>2 DEF R, Expected, Wide
    <3> QED BY <2>2, <3>1, <3>2
  <2>3. CASE x # 0 /\ x < h
    <3>1. WaitOf(full, x) = R(0, x + h)
      BY <1>2, <2>3 DEF Biggest
    <3>2. Expected(R(0, x + h)) = (x + h + 1) \div 2 /\ Wide(R(0, x + h)) = x + h
      BY <1>2, <2>3 DEF R, Expected, Wide
    <3> QED BY <1>2, <2>3, <3>1, <3>2
  <2> QED BY <1>2, <2>1, <2>2, <2>3
<1> QED BY <1>1, <1>3 DEF h

LEMMA WaitShrinks ==
  ASSUME NEW full \in Waits, NEW x \in Nat, NEW y \in Nat, y <= x, x <= Expected(full)
  PROVE  /\ Expected(WaitOf(full, y)) <= Expected(WaitOf(full, x))
         /\ Wide(WaitOf(full, y)) <= Wide(WaitOf(full, x))
         /\ Expected(WaitOf(full, x)) <= Expected(full)
         /\ Wide(WaitOf(full, x)) <= 16 /\ Wide(WaitOf(full, x)) <= Wide(full) + 1
         /\ full \in Tight \/ Wide(WaitOf(full, x)) <= Wide(full)
<1>1. /\ \/ Half(full) = 8 /\ Wide(full) >= 20
         \/ full \in Tight /\ Half(full) = 8 /\ Wide(full) = 15
         \/ full \in Tight /\ Half(full) = 7 /\ Wide(full) = 13
      /\ Wide(full) \in Nat
  BY DEF Waits, Tight, R, Half, Smallest, Wide
<1>2. /\ Half(full) \in {7, 8} /\ Expected(full) \in {40, 23, 28, 20, 19}
      /\ Expected(WaitOf(full, x)) =
              IF x = 0 THEN 0 ELSE IF x >= Half(full) THEN x ELSE (x + Half(full) + 1) \div 2
      /\ Expected(WaitOf(full, y)) =
              IF y = 0 THEN 0 ELSE IF y >= Half(full) THEN y ELSE (y + Half(full) + 1) \div 2
      /\ Wide(WaitOf(full, x)) =
              IF x = 0 THEN 0 ELSE IF x >= Half(full) THEN 2 * Half(full) ELSE x + Half(full)
      /\ Wide(WaitOf(full, y)) =
              IF y = 0 THEN 0 ELSE IF y >= Half(full) THEN 2 * Half(full) ELSE y + Half(full)
  BY WaitIs
<1>3. CASE Half(full) = 8
  BY <1>1, <1>2, <1>3
<1>4. CASE Half(full) = 7
  BY <1>1, <1>2, <1>4
<1> QED BY <1>2, <1>3, <1>4

-----------------------------------------------------------------------------
LEMMA StagesAre ==
  ASSUME NEW c
  PROVE  /\ ExitStages(c)[1] = TouchdownToDoor(c) /\ ExitStages(c)[2] = SeatToExit(c)
         /\ ExitStages(c)[3] = GateToBaggage(c) /\ ExitStages(c)[4] = Immigration(c)
         /\ ExitStages(c)[5] = RemainingBaggage(c) /\ ExitStages(c)[6] = Customs(c)
         /\ ExitStages(c)[7] = FinalWalk(c)
BY DEF ExitStages

LEMMA ComesDown ==
  ASSUME NEW c \in Given, NEW d \in Given, Alike(c, d), AtGate(d),
         \A i \in 1..7: Expected(ExitStages(d)[i]) <= Expected(ExitStages(c)[i]),
         ExitWidth(d) <= ExitWidth(c),
         \/ DerivedHalf(ExitStages(d)) <= 5 * ExitWidth(d) + 40
         \/ /\ DerivedHalf(ExitStages(d)) <= DerivedHalf(ExitStages(c))
            /\ ~AtGate(c) \/ ExitWidth(d) = ExitWidth(c)
  PROVE  /\ ExitExpected(d) <= ExitExpected(c)
         /\ TimeToExit(d).max <= TimeToExit(c).max
<1> DEFINE s == ExitStages(c)
           t == ExitStages(d)
<1>1. /\ s \in Seq(Spans) /\ Len(s) = 7 /\ t \in Seq(Spans) /\ Len(t) = 7
  BY ExitSpans
<1>2. SumExpected(t) <= SumExpected(s)
  <2> HIDE DEF s, t
  <2>1. \A i \in 1..7: Expected(t[i]) <= Expected(s[i])
    BY DEF s, t
  <2> QED BY <1>1, <2>1, SumShrinks
<1>3. /\ ExitWidth(c) \in Nat /\ ExitWidth(d) \in Nat /\ NeedsImmigration(c) \in BOOLEAN
      /\ NeedsImmigration(d) = NeedsImmigration(c)
  BY AlikeStages DEF ExitWidth, NeedsImmigration
<1>4. ExitConfidence(d) = "high" /\ (~AtGate(c) => ExitConfidence(c) = "low")
  BY DEF ExitConfidence
<1>5. Band(t, "high", ExitWidth(d), NeedsImmigration(c))
        <= Band(s, ExitConfidence(c), ExitWidth(c), NeedsImmigration(c))
  <2>1. DerivedHalf(s) \in Int /\ DerivedHalf(t) \in Int
    BY <1>1, SpansAreRanges, ExitDerived
  <2> DEFINE a == DerivedHalf(s)
             b == DerivedHalf(t)
             n == ExitWidth(c)
             m == ExitWidth(d)
  <2>2. b <= 5 * m + 40 \/ (b <= a /\ (ExitConfidence(c) = "low" \/ m = n))
    BY <1>4
  <2>3. a \in Int /\ b \in Int /\ n \in Nat /\ m \in Nat /\ m <= n
    BY <1>3, <2>1
  <2> HIDE DEF a, b, n, m
  <2>4. Tenths(b, "high", m, NeedsImmigration(c))
          <= Tenths(a, ExitConfidence(c), n, NeedsImmigration(c))
    BY <1>3, <2>2, <2>3, BandNarrows
  <2> QED BY <2>4 DEF Band, a, b, n, m
<1>6. NarrowTotalRange(t, "high", ExitWidth(d), NeedsImmigration(c)).max
        <= NarrowTotalRange(s, ExitConfidence(c), ExitWidth(c), NeedsImmigration(c)).max
  <2> HIDE DEF s, t
  <2> QED BY <1>1, <1>2, <1>3, <1>5, BandEndsNoLater
<1> QED BY <1>2, <1>3, <1>4, <1>6 DEF TimeToExit, ExitExpected

LEMMA OnTheWayStages ==
  ASSUME NEW c \in Given
  PROVE  /\ \A i \in 1..7: ExitStages(c)[i] \in Spans /\ Expected(ExitStages(c)[i]) \in Nat
                           /\ Wide(ExitStages(c)[i]) \in Nat
         /\ Zero \in Spans /\ Expected(Zero) = 0 /\ Wide(Zero) = 0
<1>1. \A i \in 1..7: ExitStages(c)[i] \in Spans
  BY ExitSpans, SpansAreRanges
<1>2. Zero \in Spans
  BY RangeSpans DEF Zero
<1> QED BY <1>1, <1>2, SpanExpected, SpanWide DEF Zero, R, Wide

LEMMA TotalsShrink ==
  ASSUME NEW s \in Seq(Spans), Len(s) = 7, NEW t \in Seq(Spans), Len(t) = 7,
         \A i \in 1..7: Wide(t[i]) <= Wide(s[i])
  PROVE  Total(Widths(t)) <= Total(Widths(s)) /\ DerivedHalf(t) <= DerivedHalf(s)
<1> DEFINE a == [i \in 1..7 |-> Wide(s[i])]
           b == [i \in 1..7 |-> Wide(t[i])]
<1>1. a \in [1..7 -> Int] /\ b \in [1..7 -> Int] /\ \A i \in 1..7: b[i] <= a[i]
  <2>1. \A i \in 1..7: Wide(s[i]) \in Nat
    BY WidthsAdd
  <2>2. \A i \in 1..7: Wide(t[i]) \in Nat
    BY WidthsAdd
  <2> QED BY <2>1, <2>2
<1>2. Total(Widths(s)) = a[1] + a[2] + a[3] + a[4] + a[5] + a[6] + a[7]
  BY WidthsAdd
<1>3. Total(Widths(t)) = b[1] + b[2] + b[3] + b[4] + b[5] + b[6] + b[7]
  BY WidthsAdd
<1> HIDE DEF a, b
<1>4. Total(Widths(t)) <= Total(Widths(s))
  BY <1>1, <1>2, <1>3, SevenAtMost
<1>5. \A i \in 1..7: Wide(t[i]) <= Wide(s[i]) + 0
  <2>1. \A i \in 1..7: Wide(s[i]) \in Nat
    BY WidthsAdd
  <2> QED BY <2>1
<1>6. Total(Widths(t)) + 4 * 0 <= Total(Widths(s))
  <2>1. Total(Widths(t)) \in Nat
    BY WidthsAdd
  <2> QED BY <1>4, <2>1
<1>7. 0 \in {0, 1}
  OBVIOUS
<1> QED BY <1>4, <1>5, <1>6, <1>7, DerivedShrinks

(* The tables' widest.                                                        *)
LEMMA LastStages ==
  ASSUME NEW c
  PROVE  /\ Wide(FinalWalk(c)) <= 15
         /\ ~NeedsImmigration(c) => Wide(GateToBaggage(c)) <= 9
         /\ ~NeedsImmigration(c) => Immigration(c) = Zero /\ Customs(c) = Zero
         /\ ~OffPlane(c) => Wide(SeatToExit(c)) >= 8
<1>1. Wide(FinalWalk(c)) <= 15
  BY DEF FinalWalk, Zero, R, Wide
<1>2. ~NeedsImmigration(c) => Wide(GateToBaggage(c)) <= 9
  BY DEF GateToBaggage, Zero, R, Wide
<1>3. ~NeedsImmigration(c) => Immigration(c) = Zero /\ Customs(c) = Zero
  BY DEF Immigration, Customs
<1>4. ~OffPlane(c) => Wide(SeatToExit(c)) >= 8
  BY DEF SeatToExit, R, Wide
<1> QED BY <1>1, <1>2, <1>3, <1>4

LEMMA LeftIs ==
  ASSUME NEW c \in Given, FullBaggage(c) \in Waits
  PROVE  /\ Left(c) \in Nat /\ Left(c) <= Expected(FullBaggage(c))
         /\ Expected(FullBaggage(c)) \in Nat
<1>1. FullBaggage(c) \in Spans
  BY RangeSpans DEF Waits
<1>2. Expected(FullBaggage(c)) \in Nat /\ c.now \in Int /\ EffectiveGate(c) \in Int
  BY <1>1, SpanExpected, GivenTimes
<1> QED BY <1>2 DEF Left, Biggest

(* Once at the gate, time alone only shortens the wait for bags; at the time  *)
(* the plane was due, someone who was out before may find the range a minute  *)
(* wider, and no later.                                                       *)
LEMMA WaitInTime ==
  ASSUME NEW c \in Given, NEW d \in Given, Alike(c, d), d.marks = c.marks,
         c.now <= d.now, AtGate(c), c.door.actual <= c.now
  PROVE  /\ Expected(RemainingBaggage(d)) <= Expected(RemainingBaggage(c))
         /\ \/ Wide(RemainingBaggage(d)) <= Wide(RemainingBaggage(c))
            \/ /\ Wide(RemainingBaggage(d)) <= 16 /\ FullBaggage(c) \in Tight
               /\ OffPlane(c) /\ ~BagsCollected(c)
<1> DEFINE full == FullBaggage(c)
<1>1. /\ AtGate(d) /\ (BagsCollected(d) <=> BagsCollected(c)) /\ FullBaggage(d) = full
      /\ EffectiveGate(d) = EffectiveGate(c)
      /\ c.now \in Int /\ d.now \in Int /\ EffectiveGate(c) \in Int
  <2>1. AtGate(d) /\ (BagsCollected(d) <=> BagsCollected(c))
    BY DEF Alike, AtGate, OffPlane, BagsCollected, Outside
  <2> QED BY <2>1, AlikeStages, GivenTimes
<1>2. CASE BagsCollected(c) \/ full = Zero
  <2>1. RemainingBaggage(d) = Zero /\ RemainingBaggage(c) = Zero
    BY <1>1, <1>2, BaggageIs
  <2> QED BY <2>1, OnTheWayStages
<1>3. CASE ~BagsCollected(c) /\ full # Zero
  <2>1. full \in Waits /\ full \in Spans
    BY <1>3, FullIsKnown, RangeSpans DEF Waits
  <2>2. Expected(full) \in Nat /\ Wide(full) \in Nat
    BY <2>1, SpanExpected, SpanWide
  <2>3. CASE EffectiveGate(c) > d.now
    <3>1. RemainingBaggage(d) = full /\ RemainingBaggage(c) = full
      BY <1>1, <1>3, <2>3, BaggageIs
    <3> QED BY <2>2, <3>1
  <2>4. CASE EffectiveGate(c) <= d.now /\ EffectiveGate(c) > c.now
    <3>1. RemainingBaggage(d) = WaitOf(full, Left(d)) /\ RemainingBaggage(c) = full
      BY <1>1, <1>3, <2>4, BaggageIs
    <3>2. Left(d) \in Nat /\ Left(d) <= Expected(full)
      BY <1>1, <2>1, LeftIs
    <3>3. /\ Expected(WaitOf(full, Left(d))) <= Expected(full)
          /\ Wide(WaitOf(full, Left(d))) <= 16
          /\ full \in Tight \/ Wide(WaitOf(full, Left(d))) <= Wide(full)
      BY <2>1, <3>2, WaitShrinks
    <3>4. OffPlane(c)
      BY <1>1, <2>4, GivenTimes DEF AtGate, EffectiveGate, Stamps, Unset
    <3> QED BY <1>3, <3>1, <3>3, <3>4
  <2>5. CASE EffectiveGate(c) <= c.now
    <3>1. /\ RemainingBaggage(d) = WaitOf(full, Left(d))
          /\ RemainingBaggage(c) = WaitOf(full, Left(c))
      BY <1>1, <1>3, <2>5, BaggageIs
    <3>2. Left(d) \in Nat /\ Left(c) \in Nat /\ Left(c) <= Expected(full)
      BY <1>1, <2>1, LeftIs
    <3>3. Left(d) <= Left(c)
      BY <1>1, <2>2 DEF Left, Biggest
    <3> QED BY <2>1, <3>1, <3>2, <3>3, WaitShrinks
  <2> QED BY <1>1, <2>3, <2>4, <2>5
<1> QED BY <1>2, <1>3

LEMMA TimeShrinks ==
  ASSUME NEW c \in Given, NEW d \in Given, Alike(c, d), d.marks = c.marks,
         c.now <= d.now, AtGate(c), c.door.actual <= c.now
  PROVE  /\ ExitExpected(d) <= ExitExpected(c)
         /\ TimeToExit(d).max <= TimeToExit(c).max
<1> DEFINE s == ExitStages(c)
           t == ExitStages(d)
<1>1. /\ AtGate(d) /\ (BagsCollected(d) <=> BagsCollected(c)) /\ (OffPlane(d) <=> OffPlane(c))
      /\ (Outside(d) <=> Outside(c))
  BY DEF Alike, AtGate, OffPlane, BagsCollected, Outside
<1>2. /\ t[1] = s[1] /\ t[2] = s[2] /\ t[3] = s[3] /\ t[4] = s[4] /\ t[6] = s[6] /\ t[7] = s[7]
  <2>1. TouchdownToDoor(d) = TouchdownToDoor(c)
    BY <1>1 DEF TouchdownToDoor
  <2>2. SeatToExit(d) = SeatToExit(c) /\ FinalWalk(d) = FinalWalk(c)
    BY <1>1 DEF SeatToExit, FinalWalk, Alike
  <2>3. GateToBaggage(d) = GateToBaggage(c) /\ Customs(d) = Customs(c)
    BY <1>1, AlikeStages DEF GateToBaggage, Customs
  <2>4. Immigration(d) = Immigration(c)
    BY <1>1, AlikeStages DEF Immigration, Alike
  <2> QED BY <2>1, <2>2, <2>3, <2>4, StagesAre
<1>3. ExitWidth(d) = ExitWidth(c) /\ ExitWidth(c) \in Nat
  <2>1. ExitWidth(d) = ExitWidth(c)
    BY <1>1, AlikeStages DEF ExitWidth, ExitConfidence, Alike
  <2>2. ExitWidth(c) \in Nat
    BY DEF ExitWidth
  <2> QED BY <2>1, <2>2
<1>4. /\ Expected(t[5]) <= Expected(s[5])
      /\ \/ Wide(t[5]) <= Wide(s[5])
         \/ Wide(t[5]) <= 16 /\ FullBaggage(c) \in Tight /\ OffPlane(c) /\ ~BagsCollected(c)
  BY WaitInTime, StagesAre
<1>5. /\ s \in Seq(Spans) /\ Len(s) = 7 /\ t \in Seq(Spans) /\ Len(t) = 7
      /\ \A i \in 1..7: Expected(s[i]) \in Nat /\ Wide(s[i]) \in Nat
      /\ \A i \in 1..7: Expected(t[i]) \in Nat /\ Wide(t[i]) \in Nat
  BY ExitSpans, OnTheWayStages
<1>6. \A i \in 1..7: i \in {1, 2, 3, 4, 5, 6, 7}
  OBVIOUS
<1> HIDE DEF s, t
<1>7. \A i \in 1..7: Expected(t[i]) <= Expected(s[i])
  <2>1. ASSUME NEW i \in 1..7 PROVE i = 5 \/ t[i] = s[i]
    BY <1>2, <1>6
  <2>2. ASSUME NEW i \in 1..7 PROVE Expected(t[i]) <= Expected(s[i])
    <3>1. Expected(s[i]) \in Nat
      BY <1>5
    <3> QED BY <1>4, <2>1, <3>1
  <2> QED BY <2>2
<1>8. CASE Wide(t[5]) <= Wide(s[5])
  <2>1. \A i \in 1..7: Wide(t[i]) <= Wide(s[i])
    <3>1. ASSUME NEW i \in 1..7 PROVE i = 5 \/ t[i] = s[i]
      BY <1>2, <1>6
    <3>2. ASSUME NEW i \in 1..7 PROVE Wide(t[i]) <= Wide(s[i])
      <4>1. Wide(s[i]) \in Nat
        BY <1>5
      <4> QED BY <1>8, <3>1, <4>1
    <3> QED BY <3>2
  <2>2. DerivedHalf(t) <= DerivedHalf(s)
    BY <1>5, <2>1, TotalsShrink
  <2> QED BY <1>1, <1>3, <1>7, <2>2, ComesDown DEF s, t
<1>9. CASE Wide(t[5]) <= 16 /\ FullBaggage(c) \in Tight /\ OffPlane(c) /\ ~BagsCollected(c)
  <2>1. ~NeedsImmigration(c) /\ c.bags # "no" /\ ~NeedsImmigration(d) /\ OffPlane(d)
    BY <1>1, <1>9, FullIsKnown, AlikeStages
  <2>2. /\ t[1] = Zero /\ t[2] = Zero /\ t[4] = Zero /\ t[6] = Zero
        /\ Wide(t[3]) <= 9 /\ Wide(t[7]) <= 15
    <3>1. TouchdownToDoor(d) = Zero /\ SeatToExit(d) = Zero
      BY <2>1 DEF TouchdownToDoor, SeatToExit
    <3> QED BY <2>1, <3>1, StagesAre, LastStages DEF t
  <2>3. \A i \in 1..7: Wide(t[i]) <= 16
    <3>1. /\ Wide(t[1]) = 0 /\ Wide(t[2]) = 0 /\ Wide(t[4]) = 0 /\ Wide(t[6]) = 0
          /\ Wide(t[3]) \in Nat /\ Wide(t[7]) \in Nat
      BY <1>5, <2>2, OnTheWayStages
    <3>2. /\ Wide(t[1]) <= 16 /\ Wide(t[2]) <= 16 /\ Wide(t[3]) <= 16 /\ Wide(t[4]) <= 16
          /\ Wide(t[5]) <= 16 /\ Wide(t[6]) <= 16 /\ Wide(t[7]) <= 16
      BY <1>9, <2>2, <3>1
    <3> QED BY <1>6, <3>2
  <2>4. Total(Widths(t)) <= 40
    <3>1. Total(Widths(t)) = Wide(t[1]) + Wide(t[2]) + Wide(t[3]) + Wide(t[4])
                              + Wide(t[5]) + Wide(t[6]) + Wide(t[7])
      BY <1>5, WidthsAdd
    <3>2. Wide(t[1]) = 0 /\ Wide(t[2]) = 0 /\ Wide(t[4]) = 0 /\ Wide(t[6]) = 0
      BY <2>2, OnTheWayStages
    <3>3. Wide(t[3]) \in Nat /\ Wide(t[5]) \in Nat /\ Wide(t[7]) \in Nat
      BY <1>5
    <3> QED BY <1>9, <2>2, <3>1, <3>2, <3>3
  <2>5. DerivedHalf(t) <= 4 * 16 + Total(Widths(t)) /\ DerivedHalf(t) \in Int
        /\ Total(Widths(t)) \in Nat
    <3>1. DerivedHalf(t) <= 4 * 16 + Total(Widths(t))
      <4>1. 16 \in Int /\ t \in Seq(Spans) /\ Len(t) = 7
        BY <1>5
      <4> QED BY <2>3, <4>1, DerivedAtMost, Zenon
    <3>2. DerivedHalf(t) \in Int
      BY <1>5, SpansAreRanges, ExitDerived
    <3>3. Total(Widths(t)) \in Nat
      BY <1>5, WidthsAdd
    <3> QED BY <3>1, <3>2, <3>3
  <2>6. ExitWidth(d) = 14
    BY <1>1, <1>9, <2>1 DEF ExitWidth, ExitConfidence, Alike
  <2>7. DerivedHalf(t) <= 5 * ExitWidth(d) + 40
    BY <2>4, <2>5, <2>6
  <2> QED BY <1>1, <1>3, <1>7, <2>7, ComesDown DEF s, t
<1> QED BY <1>4, <1>8, <1>9

(* Marking a step only shortens the rest of the way: after the bags or the    *)
(* exit nothing but a walk is left; off the plane, the seat's range is gone.  *)
LEMMA MarkedPastBags ==
  ASSUME NEW c \in Given, NEW d \in Given, Alike(c, d), d.now = c.now,
         c.marks \subseteq d.marks, BagsCollected(d)
  PROVE  /\ ExitExpected(d) <= ExitExpected(c)
         /\ TimeToExit(d).max <= TimeToExit(c).max
<1> DEFINE s == ExitStages(c)
           t == ExitStages(d)
<1>1. /\ s \in Seq(Spans) /\ Len(s) = 7 /\ t \in Seq(Spans) /\ Len(t) = 7
      /\ \A i \in 1..7: Expected(s[i]) \in Nat /\ Wide(s[i]) \in Nat
      /\ \A i \in 1..7: Expected(t[i]) \in Nat /\ Wide(t[i]) \in Nat
  BY ExitSpans, OnTheWayStages
<1>2. \A i \in 1..7: i \in {1, 2, 3, 4, 5, 6, 7}
  OBVIOUS
<1>3. OffPlane(d) /\ AtGate(d) /\ (Outside(c) => Outside(d))
      /\ (BagsCollected(c) => BagsCollected(d))
  BY DEF OffPlane, AtGate, Outside, BagsCollected
<1>4. /\ t[1] = Zero /\ t[2] = Zero /\ t[3] = Zero /\ t[4] = Zero /\ t[5] = Zero /\ t[6] = Zero
      /\ t[7] = s[7] \/ t[7] = Zero
      /\ Wide(t[7]) <= 15
  <2>1. TouchdownToDoor(d) = Zero /\ SeatToExit(d) = Zero /\ GateToBaggage(d) = Zero
    BY <1>3 DEF TouchdownToDoor, SeatToExit, GateToBaggage
  <2>2. Immigration(d) = Zero /\ RemainingBaggage(d) = Zero /\ Customs(d) = Zero
    BY DEF Immigration, RemainingBaggage, Customs
  <2>3. FinalWalk(d) = FinalWalk(c) \/ FinalWalk(d) = Zero
    BY <1>3 DEF FinalWalk, Alike
  <2> QED BY <2>1, <2>2, <2>3, StagesAre, LastStages
<1>5. ExitWidth(d) \in Nat /\ ExitWidth(d) >= 10 /\ ExitWidth(d) <= ExitWidth(c)
  <2>1. ExitConfidence(d) = "high" /\ NeedsImmigration(d) = NeedsImmigration(c)
    BY <1>3, AlikeStages DEF ExitConfidence
  <2>2. ExitWidth(d) = IF NeedsImmigration(c) THEN 18 ELSE 10
    BY <2>1 DEF ExitWidth
  <2>3. IF NeedsImmigration(c) THEN ExitWidth(c) \in {18, 30} ELSE ExitWidth(c) \in {10, 14, 22}
    BY DEF ExitWidth
  <2> QED BY <2>2, <2>3
<1>6. Expected(Zero) = 0 /\ Wide(Zero) = 0
  BY OnTheWayStages
<1> HIDE DEF s, t
<1>7. \A i \in 1..7: Expected(t[i]) <= Expected(s[i])
  <2>1. ASSUME NEW i \in 1..7 PROVE t[i] = Zero \/ t[i] = s[i]
    BY <1>2, <1>4
  <2>2. ASSUME NEW i \in 1..7 PROVE Expected(t[i]) <= Expected(s[i])
    <3>1. Expected(s[i]) \in Nat
      BY <1>1
    <3> QED BY <1>6, <2>1, <3>1
  <2> QED BY <2>2
<1>8. DerivedHalf(t) <= 75
  <2>1. /\ Wide(t[1]) = 0 /\ Wide(t[2]) = 0 /\ Wide(t[3]) = 0 /\ Wide(t[4]) = 0
        /\ Wide(t[5]) = 0 /\ Wide(t[6]) = 0 /\ Wide(t[7]) \in Nat
    BY <1>1, <1>4, <1>6
  <2>2. \A i \in 1..7: Wide(t[i]) <= 15
    <3>1. /\ Wide(t[1]) <= 15 /\ Wide(t[2]) <= 15 /\ Wide(t[3]) <= 15 /\ Wide(t[4]) <= 15
          /\ Wide(t[5]) <= 15 /\ Wide(t[6]) <= 15 /\ Wide(t[7]) <= 15
      BY <1>4, <2>1
    <3> QED BY <1>2, <3>1
  <2>3. Total(Widths(t)) <= 15 /\ Total(Widths(t)) \in Nat
    <3>1. /\ Total(Widths(t)) = Wide(t[1]) + Wide(t[2]) + Wide(t[3]) + Wide(t[4])
                                 + Wide(t[5]) + Wide(t[6]) + Wide(t[7])
          /\ Total(Widths(t)) \in Nat
      BY <1>1, WidthsAdd
    <3> QED BY <1>4, <2>1, <3>1
  <2>4. DerivedHalf(t) <= 4 * 15 + Total(Widths(t))
    <3>1. 15 \in Int /\ t \in Seq(Spans) /\ Len(t) = 7
      BY <1>1
    <3> QED BY <2>2, <3>1, DerivedAtMost, Zenon
  <2>5. DerivedHalf(t) \in Int
    BY <1>1, SpansAreRanges, ExitDerived
  <2> QED BY <2>3, <2>4, <2>5
<1>9. DerivedHalf(t) <= 5 * ExitWidth(d) + 40
  <2>1. DerivedHalf(t) \in Int
    BY <1>1, SpansAreRanges, ExitDerived
  <2> QED BY <1>5, <1>8, <2>1
<1> QED BY <1>3, <1>5, <1>7, <1>9, ComesDown DEF s, t

LEMMA WaitOffPlane ==
  ASSUME NEW c \in Given, NEW d \in Given, Alike(c, d), d.now = c.now,
         ~BagsCollected(c), ~BagsCollected(d), AtGate(d)
  PROVE  /\ Expected(RemainingBaggage(d)) <= Expected(RemainingBaggage(c))
         /\ Wide(RemainingBaggage(d)) <= Wide(RemainingBaggage(c)) + 1
         /\ AtGate(c) => RemainingBaggage(d) = RemainingBaggage(c)
<1> DEFINE full == FullBaggage(c)
<1>1. FullBaggage(d) = full /\ EffectiveGate(d) = EffectiveGate(c) /\ Left(d) = Left(c)
  BY AlikeStages DEF Left
<1>2. CASE full = Zero \/ AtGate(c)
  <2>1. RemainingBaggage(d) = RemainingBaggage(c)
    BY <1>1, <1>2, BaggageIs
  <2>2. /\ Expected(RemainingBaggage(c)) \in Nat /\ Wide(RemainingBaggage(c)) \in Nat
    BY BaggageSpans, SpanExpected, SpanWide
  <2> QED BY <2>1, <2>2
<1>3. CASE full # Zero /\ ~AtGate(c)
  <2>1. full \in Waits /\ full \in Spans
    BY <1>3, FullIsKnown, RangeSpans DEF Waits
  <2>2. Expected(full) \in Nat /\ Wide(full) \in Nat
    BY <2>1, SpanExpected, SpanWide
  <2>3. RemainingBaggage(c) = full
    BY <1>3, BaggageIs
  <2>4. RemainingBaggage(d) = full \/ RemainingBaggage(d) = WaitOf(full, Left(c))
    BY <1>1, BaggageIs
  <2>5. Left(c) \in Nat /\ Left(c) <= Expected(full)
    BY <2>1, LeftIs
  <2>6. /\ Expected(WaitOf(full, Left(c))) <= Expected(full)
        /\ Wide(WaitOf(full, Left(c))) <= Wide(full) + 1
    BY <2>1, <2>5, WaitShrinks
  <2> QED BY <1>3, <2>2, <2>3, <2>4, <2>6
<1> QED BY <1>2, <1>3

LEMMA MarkedOffPlane ==
  ASSUME NEW c \in Given, NEW d \in Given, Alike(c, d), d.now = c.now,
         ~OffPlane(c), OffPlane(d), ~BagsCollected(d)
  PROVE  /\ ExitExpected(d) <= ExitExpected(c)
         /\ TimeToExit(d).max <= TimeToExit(c).max
<1> DEFINE s == ExitStages(c)
           t == ExitStages(d)
<1>1. /\ s \in Seq(Spans) /\ Len(s) = 7 /\ t \in Seq(Spans) /\ Len(t) = 7
      /\ \A i \in 1..7: Expected(s[i]) \in Nat /\ Wide(s[i]) \in Nat
      /\ \A i \in 1..7: Expected(t[i]) \in Nat /\ Wide(t[i]) \in Nat
  BY ExitSpans, OnTheWayStages
<1>2. \A i \in 1..7: i \in {1, 2, 3, 4, 5, 6, 7}
  OBVIOUS
<1>3. /\ AtGate(d) /\ ~Outside(d) /\ ~Outside(c) /\ ~BagsCollected(c)
  BY DEF OffPlane, AtGate, Outside, BagsCollected
<1>4. /\ t[1] = Zero /\ t[2] = Zero /\ t[3] = s[3] /\ t[4] = s[4] /\ t[6] = s[6] /\ t[7] = s[7]
      /\ Wide(s[2]) >= 8
  <2>1. TouchdownToDoor(d) = Zero /\ SeatToExit(d) = Zero
    BY DEF TouchdownToDoor, SeatToExit
  <2>2. GateToBaggage(d) = GateToBaggage(c) /\ Customs(d) = Customs(c)
    BY <1>3, AlikeStages DEF GateToBaggage, Customs
  <2>3. Immigration(d) = Immigration(c) /\ FinalWalk(d) = FinalWalk(c)
    BY <1>3, AlikeStages DEF Immigration, FinalWalk, Alike
  <2> QED BY <2>1, <2>2, <2>3, StagesAre, LastStages
<1>5. /\ Expected(t[5]) <= Expected(s[5]) /\ Wide(t[5]) <= Wide(s[5]) + 1
      /\ AtGate(c) => t[5] = s[5]
  BY <1>3, WaitOffPlane, StagesAre
<1>6. /\ ExitWidth(d) <= ExitWidth(c) /\ (AtGate(c) => ExitWidth(d) = ExitWidth(c))
  <2>1. /\ ExitConfidence(d) = "high" /\ NeedsImmigration(d) = NeedsImmigration(c)
        /\ d.bags = c.bags
    BY <1>3, AlikeStages DEF ExitConfidence, Alike
  <2>2. ExitWidth(d) = IF NeedsImmigration(c) THEN 18 ELSE IF c.bags = "no" THEN 10 ELSE 14
    BY <1>3, <2>1 DEF ExitWidth
  <2>3. ExitWidth(c) = IF NeedsImmigration(c) THEN (IF AtGate(c) THEN 18 ELSE 30)
                       ELSE IF c.bags = "no" THEN (IF AtGate(c) THEN 10 ELSE 14)
                       ELSE (IF AtGate(c) THEN 14 ELSE 22)
    BY <1>3 DEF ExitWidth, ExitConfidence
  <2> QED BY <2>2, <2>3
<1>7. Expected(Zero) = 0 /\ Wide(Zero) = 0
  BY OnTheWayStages
<1> HIDE DEF s, t
<1>8. \A i \in 1..7: Expected(t[i]) <= Expected(s[i])
  <2>1. ASSUME NEW i \in 1..7 PROVE t[i] = Zero \/ t[i] = s[i] \/ i = 5
    BY <1>2, <1>4
  <2>2. ASSUME NEW i \in 1..7 PROVE Expected(t[i]) <= Expected(s[i])
    <3>1. Expected(s[i]) \in Nat
      BY <1>1
    <3> QED BY <1>5, <1>7, <2>1, <3>1
  <2> QED BY <2>2
<1>9. \A i \in 1..7: Wide(t[i]) <= Wide(s[i]) + 1
  <2>1. ASSUME NEW i \in 1..7 PROVE t[i] = Zero \/ t[i] = s[i] \/ i = 5
    BY <1>2, <1>4
  <2>2. ASSUME NEW i \in 1..7 PROVE Wide(t[i]) <= Wide(s[i]) + 1
    <3>1. Wide(s[i]) \in Nat
      BY <1>1
    <3> QED BY <1>5, <1>7, <2>1, <3>1
  <2> QED BY <2>2
<1>10. Total(Widths(t)) + 4 * 1 <= Total(Widths(s))
  <2>1. /\ Total(Widths(t)) = Wide(t[1]) + Wide(t[2]) + Wide(t[3]) + Wide(t[4])
                               + Wide(t[5]) + Wide(t[6]) + Wide(t[7])
        /\ Total(Widths(s)) = Wide(s[1]) + Wide(s[2]) + Wide(s[3]) + Wide(s[4])
                               + Wide(s[5]) + Wide(s[6]) + Wide(s[7])
    BY <1>1, WidthsAdd
  <2>2. /\ Wide(t[1]) = 0 /\ Wide(t[2]) = 0 /\ Wide(t[3]) = Wide(s[3])
        /\ Wide(t[4]) = Wide(s[4]) /\ Wide(t[6]) = Wide(s[6]) /\ Wide(t[7]) = Wide(s[7])
    BY <1>4, <1>7
  <2>3. /\ Wide(s[1]) \in Nat /\ Wide(s[2]) \in Nat /\ Wide(s[3]) \in Nat /\ Wide(s[4]) \in Nat
        /\ Wide(s[5]) \in Nat /\ Wide(s[6]) \in Nat /\ Wide(s[7]) \in Nat
        /\ Wide(t[5]) \in Nat
    BY <1>1
  <2> QED BY <1>4, <1>5, <2>1, <2>2, <2>3
<1>11. DerivedHalf(t) <= DerivedHalf(s)
  <2>1. 1 \in {0, 1}
    OBVIOUS
  <2> QED BY <1>1, <1>9, <1>10, <2>1, DerivedShrinks
<1> QED BY <1>3, <1>6, <1>8, <1>11, ComesDown DEF s, t

-----------------------------------------------------------------------------
(* The gate was not reached at a time to come.                                *)
EstimatesIInv == EstimatesTypeOK /\ context.door.actual <= context.now

LEMMA InitEstimatesIInv == EstimatesInit => EstimatesIInv
<1> SUFFICES ASSUME EstimatesInit PROVE EstimatesIInv
  OBVIOUS
<1>1. EstimatesTypeOK
  BY InitEstimates
<1>2. context.door.actual = Unset /\ context.now = 0
  BY DEF EstimatesInit, Contexts
<1> QED BY <1>1, <1>2 DEF EstimatesIInv, Unset

LEMMA EstimatesIInvStays == EstimatesIInv /\ [EstimatesNext]_estimateVars => EstimatesIInv'
<1> SUFFICES ASSUME EstimatesIInv, [EstimatesNext]_estimateVars PROVE EstimatesIInv'
  OBVIOUS
<1>1. EstimatesTypeOK'
  BY EstimatesPreserve DEF EstimatesIInv
<1>2. /\ context \in Given /\ context.now \in Int /\ context.door \in Stamps
      /\ context.door.actual \in Int /\ Minutes \in Nat /\ context.door.actual <= context.now
  BY EstimatesAssumption DEF EstimatesIInv, EstimatesTypeOK, Given, Stamps, Unset
<1>3. CASE MinutesPass
  <2>1. context'.now = context.now + Minutes /\ context'.door = context.door
    BY <1>2, <1>3 DEF MinutesPass, Given
  <2> QED BY <1>1, <1>2, <2>1 DEF EstimatesIInv
<1>4. CASE ReachesGate
  <2>1. context' = [context EXCEPT !.door = [context.door EXCEPT !.actual = context.now]]
    BY <1>4 DEF ReachesGate
  <2>2. context'.door.actual = context.now /\ context'.now = context.now
    BY <1>2, <2>1 DEF Given, Stamps
  <2> QED BY <1>1, <1>2, <2>2 DEF EstimatesIInv
<1>5. CASE TouchesDown \/ MarkProgress \/ ResetProgress \/ Slips \/ UNCHANGED estimateVars
  <2>1. context'.now = context.now /\ context'.door = context.door
    BY <1>2, <1>5 DEF TouchesDown, MarkProgress, ResetProgress, Slips, estimateVars, Given
  <2> QED BY <1>1, <1>2, <2>1 DEF EstimatesIInv
<1> QED BY <1>3, <1>4, <1>5 DEF EstimatesNext

LEMMA LaterStep ==
  ASSUME EstimatesIInv, EstimatesIInv', [EstimatesNext]_estimateVars,
         \/ context.marks \subseteq context'.marks /\ context.marks # context'.marks
         \/ context'.now # context.now /\ AtGate(context)
  PROVE  NoLonger
<1>1. context \in Given /\ context' \in Given /\ context.door.actual <= context.now
      /\ context.now \in Int /\ Minutes \in Nat
  BY EstimatesAssumption DEF EstimatesIInv, EstimatesTypeOK, Given
<1>2. CASE MinutesPass
  <2>1. /\ context' = [context EXCEPT !.now = context.now + Minutes]
        /\ context'.marks = context.marks /\ context'.now = context.now + Minutes
    BY <1>1, <1>2 DEF MinutesPass, Given
  <2>2. Alike(context, context')
    BY <1>1, <2>1 DEF Alike, Given
  <2>3. AtGate(context) /\ context.now <= context'.now
    BY <1>1, <2>1
  <2> QED BY <1>1, <2>1, <2>2, <2>3, TimeShrinks DEF NoLonger
<1>3. CASE MarkProgress
  <2>1. PICK i \in DOMAIN Marks:
          /\ \A j \in i..Len(Marks): Marks[j] \notin context.marks
          /\ context' = [context EXCEPT !.marks = context.marks \cup {Marks[i]}]
    BY <1>3 DEF MarkProgress
  <2>2. /\ Alike(context, context') /\ context'.now = context.now
        /\ context'.marks = context.marks \cup {Marks[i]}
    BY <1>1, <2>1 DEF Alike, Given
  <2>3. CASE BagsCollected(context')
    BY <1>1, <2>2, <2>3, MarkedPastBags DEF NoLonger
  <2>4. CASE ~BagsCollected(context')
    <3>1. i = 1 /\ Marks[i] = "off_plane"
      BY <2>2, <2>4 DEF Marks, BagsCollected, Outside
    <3>2. /\ "off_plane" \notin context.marks /\ "bags_collected" \notin context.marks
          /\ "outside" \notin context.marks
      BY <2>1, <3>1 DEF Marks
    <3>3. ~OffPlane(context) /\ OffPlane(context')
      BY <2>2, <3>1, <3>2 DEF OffPlane, BagsCollected, Outside
    <3> QED BY <1>1, <2>2, <2>4, <3>3, MarkedOffPlane DEF NoLonger
  <2> QED BY <2>3, <2>4
<1>4. CASE ResetProgress
  <2>1. context'.marks = {} /\ context.marks # {} /\ context'.now = context.now
    BY <1>1, <1>4 DEF ResetProgress, Given
  <2> QED BY <2>1
<1>5. CASE TouchesDown \/ ReachesGate \/ Slips \/ UNCHANGED estimateVars
  <2>1. context'.marks = context.marks /\ context'.now = context.now
    BY <1>1, <1>5 DEF TouchesDown, ReachesGate, Slips, estimateVars, Given
  <2> QED BY <2>1
<1> QED BY <1>2, <1>3, <1>4, <1>5 DEF EstimatesNext

(* Neither marking progress nor, once the plane is at the gate, time alone    *)
(* makes the rest of the way look longer, whatever the flight and however     *)
(* fine the clock.                                                            *)
THEOREM LaterIsNeverLonger == EstimatesSpec => LaterNeverLonger
<1>1. EstimatesIInv /\ EstimatesIInv' /\ [EstimatesNext]_estimateVars =>
        [\/ context.marks \subseteq context'.marks /\ context.marks # context'.marks
         \/ context'.now # context.now /\ AtGate(context)
         => NoLonger]_estimateVars
  BY LaterStep
<1> QED BY <1>1, InitEstimatesIInv, EstimatesIInvStays, PTL DEF EstimatesSpec, LaterNeverLonger

-----------------------------------------------------------------------------
(* Guidance as a whole (GuidanceInv): with what JourneyInvariant says of      *)
(* shares and progress.                                                       *)
THEOREM GuidanceInvariant == JourneySpec /\ EstimatesSpec => []GuidanceInv
BY JourneyInvariant, EstimatesInvariant, PTL DEF GuidanceInv
=============================================================================
