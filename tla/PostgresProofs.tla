--------------------------- MODULE PostgresProofs ---------------------------
(***************************************************************************)
(* Proofs about what is kept in Postgres.  SQLOwner keeps the fence, for   *)
(* every number of nodes and operations, every TTL and every clock skew,   *)
(* and implements FencedScope; the edge's denylist and its limiters, the   *)
(* one in memory too, for every value of their constants.                  *)
(***************************************************************************)
EXTENDS SqlOwner, EdgePolicy, TLAPS

\* Most steps are first-order; those about numbers or data cite SMT.
USE Zenon

----------------------------------------------------------------------------
(* Capability tokens: a revoked token stays denied until it has expired by  *)
(* itself, whichever of the two the row outlives.                           *)

Claims == [exp : Nat, ra : BOOLEAN, at : Nat]
Ceiling(c) == IF c.ra THEN BoundMax ELSE ShareableMax
Request == [pc : {"idle", "denylist"}, jti : Jti \cup {"none"}, since : BOOLEAN,
            fits : BOOLEAN, from : Nat]

\* Nobody who looks at the denylist from edgeNow on finds j both live and allowed.
Barred(j) == denied[j] >= claims[j].exp \/ edgeNow >= claims[j].exp

CpInv ==
    /\ edgeNow \in 0 .. MaxNow /\ denied \in [Jti -> Nat] /\ claims \in [Jti -> Claims]
    /\ revoked \in SUBSET Jti /\ lost \in SUBSET Jti /\ req \in Request
    /\ \A j \in Jti : claims[j].at <= edgeNow /\ claims[j].exp <= claims[j].at + Ceiling(claims[j])
    /\ revoked \subseteq Minted /\ \A j \in revoked \ lost : Barred(j)
    /\ req.pc = "denylist" => /\ req.jti \in Minted
                              /\ req.from < claims[req.jti].at + Ceiling(claims[req.jti])
                              /\ req.since => Barred(req.jti)
    /\ \A a \in served : a.jti \in Minted
    /\ RevokedRefused /\ ServedInWindow

\* No token minted: the first state satisfies CpInv.
LEMMA CpInitInv == CpInit => CpInv
<1> SUFFICES ASSUME CpInit
             PROVE  CpInv
  OBVIOUS
<1>1. NoReq \in Request /\ NoReq.pc = "idle"
  BY DEF NoReq, Request
<1>2. \A j \in Jti : claims[j] = [exp |-> 0, ra |-> FALSE, at |-> 0]
  BY DEF CpInit
<1> QED
  BY SMT, <1>1, <1>2, CapabilityAssumption
     DEF CpInit, CpInv, Claims, Ceiling, RevokedRefused, ServedInWindow

\* The clock is a number.
LEMMA EdgeNowNat == ASSUME CpInv PROVE edgeNow \in Nat
<1>1. edgeNow \in 0 .. MaxNow /\ MaxNow \in Nat
  BY CapabilityAssumption DEF CpInv
<1> QED
  BY SMT, <1>1

LEMMA GeqTrans == \A a, b, c \in Nat : b <= c /\ b >= a => c >= a
  BY SMT

LEMMA GeqStep == \A a, b \in Nat : (b >= a => b + 1 >= a) /\ (a <= b => a <= b + 1)
  BY SMT

\* A clamped lifetime is within the configured maximum.
LEMMA ClampBounded ==
    ASSUME NEW ttl \in TTLs, NEW ra \in BOOLEAN
    PROVE  Clamp(ttl, ra) \in Nat /\ Clamp(ttl, ra) <= IF ra THEN BoundMax ELSE ShareableMax
  BY SMT, CapabilityAssumption DEF Clamp

\* A minted token expires within the maximum and is not revoked.
LEMMA MintInv ==
    ASSUME CpInv, NEW j \in Jti, NEW ttl \in TTLs, NEW ra \in BOOLEAN, Mint(j, ttl, ra)
    PROVE  CpInv'
<1> DEFINE c == [exp |-> edgeNow + Clamp(ttl, ra), ra |-> ra, at |-> edgeNow]
<1>1. /\ j \notin Minted /\ claims' = [claims EXCEPT ![j] = c]
      /\ UNCHANGED <<edgeNow, denied, req, revoked, lost, served>> /\ edgeNow \in Nat
  BY EdgeNowNat DEF Mint
<1>2. c \in Claims /\ c.at = edgeNow /\ c.exp <= c.at + Ceiling(c)
  BY SMT, <1>1, ClampBounded, CapabilityAssumption DEF Claims, Ceiling
<1> HIDE DEF c
<1>3. /\ claims \in [Jti -> Claims] /\ claims' \in [Jti -> Claims] /\ claims'[j] = c
      /\ \A i \in Jti : i # j => claims'[i] = claims[i]
  BY <1>1, <1>2 DEF CpInv
<1>4. \A i \in Minted : i # j /\ i \in Minted' /\ claims'[i] = claims[i] /\ (Barred(i) => Barred(i)')
  BY <1>1, <1>3 DEF Minted, Barred
<1>5. \A i \in Jti : claims'[i].at <= edgeNow /\ claims'[i].exp <= claims'[i].at + Ceiling(claims'[i])
  <2>1. \A i \in Jti : claims[i].at <= edgeNow /\ claims[i].exp <= claims[i].at + Ceiling(claims[i])
    BY DEF CpInv
  <2>2. edgeNow <= edgeNow
    BY SMT, <1>1
  <2> QED
    BY <1>2, <1>3, <2>1, <2>2
<1>6. RevokedRefused' /\ ServedInWindow'
  BY <1>1, <1>4 DEF CpInv, RevokedRefused, ServedInWindow
<1> QED
  BY <1>1, <1>3, <1>4, <1>5, <1>6 DEF CpInv

\* Verifying a token keeps CpInv.
LEMMA VerifyInv ==
    ASSUME CpInv, NEW j \in Jti, NEW fits \in BOOLEAN, VerifyToken(j, fits)
    PROVE  CpInv'
<1> DEFINE r == [pc |-> "denylist", jti |-> j, since |-> j \in revoked \ lost, fits |-> fits, from |-> edgeNow]
<1>1. /\ j \in Minted /\ edgeNow < claims[j].exp /\ req' = r
      /\ UNCHANGED <<edgeNow, claims, denied, revoked, lost, served>> /\ edgeNow \in Nat
  BY EdgeNowNat DEF VerifyToken, Live
<1>2. r \in Request /\ r.pc = "denylist" /\ r.jti = j /\ r.from = edgeNow /\ (r.since => j \in revoked \ lost)
  <2> DEFINE b == j \in revoked \ lost
  <2>1. r = [pc |-> "denylist", jti |-> j, since |-> b, fits |-> fits, from |-> edgeNow]
    OBVIOUS
  <2> HIDE DEF r
  <2>2. b \in BOOLEAN
    BY SMT
  <2> HIDE DEF b
  <2>3. r \in Request /\ r.pc = "denylist" /\ r.jti = j /\ r.from = edgeNow /\ r.since = b
    BY <1>1, <2>1, <2>2 DEF Request
  <2> QED
    BY <2>3 DEF b
<1>3. edgeNow < claims[j].at + Ceiling(claims[j])
  <2>1. claims[j].exp <= claims[j].at + Ceiling(claims[j]) /\ claims[j] \in Claims
    BY DEF CpInv
  <2> QED
    BY SMT, <1>1, <2>1, CapabilityAssumption DEF Claims, Ceiling
<1> HIDE DEF r
<1>4. /\ Minted' = Minted /\ (\A i \in Jti : Barred(i)' <=> Barred(i))
      /\ RevokedRefused' /\ ServedInWindow'
  BY <1>1 DEF Minted, Barred, CpInv, RevokedRefused, ServedInWindow
<1> QED
  BY <1>1, <1>2, <1>3, <1>4 DEF CpInv

\* The check against the revocation list keeps CpInv.
LEMMA CheckInv == ASSUME CpInv, CheckDenylist \/ DenylistDown PROVE CpInv'
<1>1. /\ req.pc = "denylist" /\ req' = NoReq
      /\ UNCHANGED <<edgeNow, claims, denied, revoked, lost>> /\ edgeNow \in Nat
  BY EdgeNowNat DEF CheckDenylist, DenylistDown
<1>2. NoReq \in Request /\ NoReq.pc = "idle"
  BY DEF NoReq, Request
<1>3. Minted' = Minted /\ (\A i \in Jti : Barred(i)' <=> Barred(i)) /\ req.jti \in Minted
  BY <1>1 DEF Minted, Barred, CpInv
<1>4. /\ \A a \in served' : a.jti \in Minted
      /\ RevokedRefused' /\ ServedInWindow'
  <2>1. CASE served' \subseteq served
    BY <1>1, <2>1 DEF CpInv, RevokedRefused, ServedInWindow
  <2>2. CASE /\ ~IsRevoked(req.jti)
             /\ served' = {[jti |-> req.jti, since |-> req.since, from |-> req.from, at |-> edgeNow]}
    <3>1. \A a \in served' : a.jti = req.jti /\ a.since = req.since /\ a.from = req.from /\ a.at = edgeNow
      BY SMT, <2>2
    <3>2. req.jti \in Jti /\ denied[req.jti] \in Nat /\ claims[req.jti].exp \in Nat
      BY <1>3 DEF Minted, CpInv, Claims
    <3>3. req.since => edgeNow >= claims[req.jti].exp
      <4>1. req.since => denied[req.jti] >= claims[req.jti].exp \/ edgeNow >= claims[req.jti].exp
        BY <1>1 DEF CpInv, Barred
      <4>2. ~(denied[req.jti] > edgeNow) => denied[req.jti] <= edgeNow
        BY SMT, <1>1, <3>2
      <4> QED
        BY <1>1, <2>2, <3>2, <4>1, <4>2, GeqTrans DEF IsRevoked
    <3>4. req.from < claims[req.jti].at + Ceiling(claims[req.jti])
      BY <1>1 DEF CpInv
    <3> QED
      BY <1>1, <1>3, <3>1, <3>3, <3>4 DEF RevokedRefused, ServedInWindow, Ceiling
  <2>3. \/ served' \subseteq served
        \/ /\ ~IsRevoked(req.jti)
           /\ served' = {[jti |-> req.jti, since |-> req.since, from |-> req.from, at |-> edgeNow]}
    BY DEF CheckDenylist, DenylistDown
  <2> QED
    BY <2>1, <2>2, <2>3
<1> QED
  BY <1>1, <1>2, <1>3, <1>4 DEF CpInv

\* The row a revocation writes outlives the token, with a known expiry or the
\* retention.
LEMMA EntryOutlives ==
    ASSUME CpInv, NEW j \in Jti, NEW known \in BOOLEAN
    PROVE  EntryExpiry(j, known) \in Nat /\ EntryExpiry(j, known) >= claims[j].exp
<1>1. /\ edgeNow \in Nat /\ claims[j] \in Claims /\ claims[j].at <= edgeNow
      /\ claims[j].exp <= claims[j].at + Ceiling(claims[j])
  BY SMT, CapabilityAssumption DEF CpInv
<1>2. Ceiling(claims[j]) \in Nat /\ Ceiling(claims[j]) <= Retention
  BY CapabilityAssumption DEF Ceiling
<1> QED
  BY SMT, <1>1, <1>2, CapabilityAssumption DEF EntryExpiry, Claims

\* A revocation stays listed until the token has expired.
LEMMA RevokeInv ==
    ASSUME CpInv, NEW j \in Jti, NEW known \in BOOLEAN, Revoke(j, known)
    PROVE  CpInv'
<1>1. /\ j \in Minted /\ revoked' = revoked \cup {j}
      /\ UNCHANGED <<edgeNow, claims, req, served>> /\ edgeNow \in Nat
  BY EdgeNowNat DEF Revoke
<1>2. Minted' = Minted /\ RevokedRefused' /\ ServedInWindow'
  BY <1>1 DEF Minted, CpInv, RevokedRefused, ServedInWindow
<1>3. CASE denied' = [denied EXCEPT ![j] = EntryExpiry(j, known)] /\ lost' = lost
  <2>1. denied' \in [Jti -> Nat] /\ denied'[j] >= claims[j].exp /\ \A i \in Jti : i # j => denied'[i] = denied[i]
    BY <1>3, EntryOutlives DEF CpInv
  <2>2. Barred(j)' /\ \A i \in Jti : Barred(i) => Barred(i)'
    BY <1>1, <2>1 DEF Barred
  <2> QED
    BY <1>1, <1>2, <1>3, <2>1, <2>2 DEF CpInv, Minted
<1>4. CASE denied[j] = 0 /\ lost' = lost \cup {j} /\ denied' = denied
  <2>1. \A i \in Jti : Barred(i)' <=> Barred(i)
    BY <1>1, <1>4 DEF Barred
  <2> QED
    BY <1>1, <1>2, <1>4, <2>1 DEF CpInv, Minted
<1> QED
  BY <1>3, <1>4 DEF Revoke

\* Pruning drops only what has expired.
LEMMA PruneInv == ASSUME CpInv, Prune PROVE CpInv'
<1>1. /\ denied' = [j \in Jti |-> IF denied[j] <= edgeNow THEN 0 ELSE denied[j]]
      /\ UNCHANGED <<edgeNow, claims, req, revoked, lost, served>> /\ edgeNow \in Nat
  BY EdgeNowNat DEF Prune
<1>2. denied' \in [Jti -> Nat]
  BY <1>1 DEF CpInv
<1>3. ASSUME NEW j \in Jti, Barred(j)
      PROVE  Barred(j)'
  <2>1. denied[j] \in Nat /\ claims[j].exp \in Nat
    BY DEF CpInv, Claims
  <2>2. denied'[j] = IF denied[j] <= edgeNow THEN 0 ELSE denied[j]
    BY <1>1
  <2>3. edgeNow \in Nat
    BY <1>1
  <2>4. denied[j] <= edgeNow /\ denied[j] >= claims[j].exp => edgeNow >= claims[j].exp
    BY <2>1, <2>3, GeqTrans
  <2> QED
    BY <1>1, <1>3, <2>2, <2>4 DEF Barred
<1>4. Minted' = Minted /\ RevokedRefused' /\ ServedInWindow'
  BY <1>1 DEF Minted, CpInv, RevokedRefused, ServedInWindow
<1> QED
  BY <1>1, <1>2, <1>3, <1>4 DEF CpInv, Minted

\* The passing of time keeps CpInv.
LEMMA CpTickInv == ASSUME CpInv, CpTick PROVE CpInv'
<1>1. /\ edgeNow' = edgeNow + 1 /\ edgeNow < MaxNow /\ edgeNow \in Nat
      /\ UNCHANGED <<claims, denied, req, revoked, lost, served>>
  BY EdgeNowNat DEF CpTick
<1>2. ASSUME NEW j \in Jti
      PROVE  claims[j].at <= edgeNow' /\ (Barred(j) => Barred(j)')
  <2>1. claims[j].exp \in Nat /\ claims[j].at \in Nat /\ claims[j].at <= edgeNow
    BY DEF CpInv, Claims
  <2> QED
    BY <1>1, <2>1, GeqStep DEF Barred
<1>3. Minted' = Minted /\ RevokedRefused' /\ ServedInWindow'
  BY <1>1 DEF Minted, CpInv, RevokedRefused, ServedInWindow
<1>4. edgeNow' \in 0 .. MaxNow
  BY SMT, <1>1, CapabilityAssumption
<1> QED
  BY <1>1, <1>2, <1>3, <1>4 DEF CpInv, Minted

\* Every step of the capability tokens keeps CpInv.
LEMMA CpStepInv == CpInv /\ [CpNext]_cpVars => CpInv'
<1> SUFFICES ASSUME CpInv, [CpNext]_cpVars
             PROVE  CpInv'
  OBVIOUS
<1>1. CASE UNCHANGED cpVars
  BY <1>1 DEF cpVars, CpInv, Minted, Barred, RevokedRefused, ServedInWindow
<1> QED
  BY <1>1, MintInv, VerifyInv, CheckInv, RevokeInv, PruneInv, CpTickInv DEF CpNext

----------------------------------------------------------------------------
(* The limiters.  What the bucket holds and what was granted is paid for by *)
(* the burst and the time between the seeding and the bucket's last         *)
(* reading; a grant leaves the bucket at zero or more, so that the grants   *)
(* alone are within the limit whenever one is made.                         *)

Paid == bucket.tokens + grants <= Burst + bucket.last - first

RlInv ==
    /\ backing \in {"memory", "postgres"} /\ RlTypeOK
    /\ bucket \in [tokens : Int, last : Nat, new : BOOLEAN]
    /\ first \in Nat /\ latest \in Nat
    /\ bucket.tokens - bucket.last >= -MaxTick
    /\ backing = "postgres" => bucket.tokens >= 0
    /\ IF bucket.new THEN grants = 0
       ELSE bucket.last <= latest /\ (backing = "memory" \/ ~behind => Paid /\ RateBounded)

\* The limiter before its first request satisfies RlInv.
LEMMA RlInitInv == RlInit => RlInv
<1> SUFFICES ASSUME RlInit
             PROVE  RlInv
  OBVIOUS
<1>1. /\ bucket \in [tokens : Int, last : Nat, new : BOOLEAN]
      /\ bucket.tokens = 0 /\ bucket.last = 0 /\ bucket.new
  BY SMT DEF RlInit
<1> QED
  <2>1. /\ backing \in {"memory", "postgres"} /\ tick = 0 /\ call = [c \in Caller |-> -1]
        /\ first = 0 /\ latest = 0 /\ grants = 0 /\ behind = FALSE
        /\ MaxTick \in Nat /\ MaxGrants \in Nat /\ Burst \in Nat
    BY RateLimitAssumption DEF RlInit
  <2>2. RlTypeOK
    <3>1. -1 \in -1 .. MaxTick /\ 0 \in -MaxTick .. Burst /\ 0 \in 0 .. MaxTick /\ 0 \in 0 .. MaxGrants
      BY SMT, <2>1
    <3>2. call \in [Caller -> -1 .. MaxTick]
      BY <2>1, <3>1
    <3> QED
      BY <1>1, <2>1, <3>1, <3>2 DEF RlTypeOK
  <2> QED
    BY SMT, <1>1, <2>1, <2>2 DEF RlInv

\* The limit in the state after a grant, and in a later state without one.
LEMMA WithinWhenSpent ==
    \A l, g, t, late \in Int : \A b, f \in Nat :
        l >= 0 /\ l + g <= b + t - f /\ late >= t => g <= b + Max2(0, late - f)
  BY SMT DEF Max2

LEMMA WithinLater ==
    \A g, b, f, lt, late \in Nat :
        g <= b + Max2(0, lt - f) /\ late >= lt => g <= b + Max2(0, late - f)
  BY SMT DEF Max2

\* A request at the limiter, allowed or refused, keeps RlInv.
LEMMA AllowInv == ASSUME RlInv, NEW c \in Caller, Allow(c) PROVE RlInv'
<1> DEFINE t == call[c]
<1> DEFINE spends == bucket.new \/ Refilled(t) >= 1
<1> DEFINE left == IF bucket.new THEN Burst - 1 ELSE IF spends THEN Refilled(t) - 1 ELSE Refilled(t)
<1>1. /\ t \in 0 .. MaxTick /\ grants < MaxGrants /\ UNCHANGED <<backing, tick>>
      /\ call' = [call EXCEPT ![c] = -1]
      /\ bucket' = [new |-> FALSE, last |-> t, tokens |-> left]
      /\ grants' = IF spends THEN grants + 1 ELSE grants
      /\ first' = IF bucket.new THEN t ELSE first
      /\ latest' = Max2(latest, t)
      /\ behind' = (behind \/ (~bucket.new /\ t < bucket.last))
  BY SMT, RateLimitAssumption DEF Allow, RlInv, RlTypeOK
<1>2. /\ MaxTick \in Nat /\ MaxGrants \in Nat /\ Burst \in Nat \ {0} /\ tick \in Nat
      /\ bucket.tokens \in Int /\ bucket.last \in Nat /\ bucket.new \in BOOLEAN /\ bucket.last <= MaxTick
      /\ bucket.tokens - bucket.last >= -MaxTick
      /\ first \in Nat /\ latest \in Nat /\ grants \in Nat /\ behind \in BOOLEAN
      /\ backing \in {"memory", "postgres"} /\ (backing = "postgres" => bucket.tokens >= 0)
  BY SMT, RateLimitAssumption DEF RlInv, RlTypeOK
<1>3. /\ Refilled(t) \in Int /\ Refilled(t) <= Burst
      /\ Refilled(t) - t >= -MaxTick
      /\ backing = "postgres" => Refilled(t) >= 0
      /\ backing = "memory" \/ t >= bucket.last => Refilled(t) <= bucket.tokens + t - bucket.last
  <2>1. Elapsed(t) \in Int /\ (backing = "postgres" => Elapsed(t) >= 0) /\ Elapsed(t) >= t - bucket.last
    BY SMT, <1>1, <1>2 DEF Elapsed, Max2
  <2>2. backing = "memory" \/ t >= bucket.last => Elapsed(t) = t - bucket.last
    BY SMT, <1>1, <1>2 DEF Elapsed, Max2
  <2>3. t \in Nat /\ t <= MaxTick
    BY SMT, <1>1, <1>2
  <2> HIDE DEF t
  <2> QED
    BY SMT, <1>2, <2>1, <2>2, <2>3 DEF Refilled, Min2
<1>4. /\ left \in Int /\ left <= Burst /\ left - t >= -MaxTick /\ (backing = "postgres" => left >= 0)
      /\ spends => left >= 0
  <2>1. t \in Nat /\ t <= MaxTick
    BY SMT, <1>1, <1>2
  <2> HIDE DEF t
  <2>2. CASE bucket.new
    BY SMT, <1>2, <2>1, <2>2
  <2>3. CASE ~bucket.new /\ spends
    BY SMT, <1>2, <1>3, <2>1, <2>3
  <2>4. CASE ~bucket.new /\ ~spends
    BY SMT, <1>2, <1>3, <2>1, <2>4
  <2> QED
    BY <2>2, <2>3, <2>4
<1>5. ASSUME backing = "memory" \/ ~behind'
      PROVE  /\ left + grants' <= Burst + t - first'
             /\ grants' <= Burst + Max2(0, latest' - first')
  <2>1. CASE bucket.new
    BY SMT, <1>1, <1>2, <2>1 DEF RlInv, Max2
  <2>2. CASE ~bucket.new
    <3>1. backing = "memory" \/ (~behind /\ t >= bucket.last)
      <4>1. ~behind' => ~behind /\ ~(t < bucket.last)
        BY <1>1, <2>2, Zenon
      <4>2. ~(t < bucket.last) => t >= bucket.last
        BY SMT, <1>1, <1>2
      <4> QED
        BY <1>5, <4>1, <4>2
    <3>2. /\ bucket.tokens + grants <= Burst + bucket.last - first
          /\ grants <= Burst + Max2(0, latest - first)
      BY <2>2, <3>1 DEF RlInv, Paid, RateBounded
    <3>3. Refilled(t) + grants <= Burst + t - first
      BY SMT, <1>1, <1>2, <1>3, <3>1, <3>2
    <3>4. left + grants' <= Burst + t - first /\ first' = first
      BY SMT, <1>1, <1>2, <1>3, <2>2, <3>3
    <3>5. latest' \in Nat /\ latest' >= latest /\ latest' >= t
      BY SMT, <1>1, <1>2 DEF Max2
    <3>6. CASE spends
      <4>1. grants' \in Int
        BY SMT, <1>1, <1>2
      <4>2. t \in Int /\ latest' \in Int
        BY SMT, <1>1, <3>5
      <4>3. left \in Int /\ left >= 0
        BY <1>4, <3>6
      <4> HIDE DEF t, spends, left
      <4> QED
        BY <1>2, <3>4, <3>5, <4>1, <4>2, <4>3, WithinWhenSpent
    <3>7. CASE ~spends
      <4>1. grants' = grants
        BY <1>1, <3>7
      <4> QED
        BY <1>2, <3>2, <3>4, <3>5, <4>1, WithinLater
    <3> QED
      BY <3>4, <3>6, <3>7
  <2> QED
    BY <1>2, <2>1, <2>2
<1>6. /\ bucket' \in [tokens : Int, last : Nat, new : BOOLEAN]
      /\ bucket'.tokens = left /\ bucket'.last = t /\ bucket'.new = FALSE
  <2>1. bucket' = [new |-> FALSE, last |-> t, tokens |-> left] /\ left \in Int /\ t \in 0 .. MaxTick
    BY <1>1, <1>4
  <2> HIDE DEF t, left
  <2>2. t \in Nat
    BY SMT, <1>2, <2>1
  <2> QED
    BY <2>1, <2>2
<1>7. /\ grants' \in 0 .. MaxGrants /\ first' \in Nat /\ latest' \in Nat /\ t <= latest'
      /\ behind' \in BOOLEAN /\ call' \in [Caller -> -1 .. MaxTick]
  BY SMT, <1>1, <1>2 DEF Max2, RlInv, RlTypeOK
<1> HIDE DEF left, t
<1>8. RlTypeOK'
  BY SMT, <1>1, <1>2, <1>4, <1>6, <1>7 DEF RlInv, RlTypeOK
<1> QED
  BY <1>1, <1>2, <1>4, <1>5, <1>6, <1>7, <1>8 DEF RlInv, Paid, RateBounded

\* Every step of the rate limiter keeps RlInv.
LEMMA RlStepInv == RlInv /\ [RlNext]_rlVars => RlInv'
<1> SUFFICES ASSUME RlInv, [RlNext]_rlVars
             PROVE  RlInv'
  OBVIOUS
<1>1. ASSUME UNCHANGED <<backing, bucket, first, latest, grants, behind>>, RlTypeOK'
      PROVE  RlInv'
  BY <1>1 DEF RlInv, Paid, RateBounded
<1>2. CASE RlTick
  BY SMT, <1>1, <1>2, RateLimitAssumption DEF RlTick, RlInv, RlTypeOK
<1>3. ASSUME NEW c \in Caller, ReadClock(c) \/ AllowOpen(c)
      PROVE  RlInv'
  <2>1. /\ UNCHANGED <<backing, tick, bucket, first, latest, grants, behind>>
        /\ call' = [call EXCEPT ![c] = tick] \/ call' = [call EXCEPT ![c] = -1]
    BY <1>3 DEF ReadClock, AllowOpen
  <2>2. call' \in [Caller -> -1 .. MaxTick]
    BY SMT, <2>1, RateLimitAssumption DEF RlInv, RlTypeOK
  <2> QED
    BY <1>1, <2>1, <2>2 DEF RlInv, RlTypeOK
<1>4. CASE UNCHANGED rlVars
  BY <1>1, <1>4 DEF rlVars, RlInv, RlTypeOK
<1> QED
  BY <1>2, <1>3, <1>4, AllowInv DEF RlNext

\* The edge lets no request through on a token whose revocation was acknowledged
\* before, nor after its ceiling, however checks, revocations, pruning and the
\* clock interleave; and no more calls than the burst and what accrued, for any
\* number of concurrent callers of the in-memory limiter, and of the Postgres
\* one as long as no call overtakes another (verifyRequest, IsRevoked, Allow).
THEOREM EdgeStaysSound == CpSpec /\ RlSpec => []EdgePolicySound
<1>1. CpSpec => []CpInv
  BY CpInitInv, CpStepInv, PTL DEF CpSpec
<1>2. RlSpec => []RlInv
  BY RlInitInv, RlStepInv, PTL DEF RlSpec
<1>3. CpInv => CpTypeOK
  BY DEF CpInv, CpTypeOK, Claims, Request
<1>4. RlInv => OrderedRateBounded
  BY DEF RlInv, OrderedRateBounded, RateBounded
<1>5. CpInv /\ RlInv => EdgePolicySound
  BY <1>3, <1>4 DEF CpInv, RlInv, EdgePolicySound
<1> QED
  BY <1>1, <1>2, <1>5, PTL

----------------------------------------------------------------------------
(* Facts that hold whichever protocol drives the row and the fence.         *)

\* What one step does to the row: nothing, or another node takes it.  A change of hands
\* starts a new generation and finds no write transaction on the row.
RowStep ==
    \/ UNCHANGED <<owner, gen>>
    \/ share = {} /\ owner' \in Node /\ owner' # owner /\ gen' = gen + 1

Fencing == {"store", "cache", "fence", "commit"}

\* What one step does to an operation: nothing; it gives its generation up, or has
\* none yet; it is handed a generation; it passes the fence.
OpStep(o) ==
    \/ /\ wpc'[o] = wpc[o] /\ wgen'[o] = wgen[o]
       /\ o \in share' <=> o \in share
    \/ /\ wpc'[o] \notin Fencing /\ wgen'[o] \in {0, wgen[o]}
       /\ o \notin share'
    \/ /\ wpc'[o] \in Fencing \ {"commit"} /\ wgen'[o] > 0
       /\ o \notin share'
       /\ wgen'[o] <= gen' /\ (wgen'[o] = gen' => owner' = At[o])
    \/ /\ wpc[o] = "fence" /\ wpc'[o] = "commit" /\ wgen'[o] = wgen[o]
       /\ StillOwns(At[o], wgen[o])
       /\ o \in share'
       /\ UNCHANGED <<owner, gen>>

\* AcquireOrResume changes hands or resumes, and returns the row's generation.
LEMMA AcquireIsRowStep ==
    ASSUME NEW n \in Node, AcquireOrResume(n), gen \in Nat, gen = 0 <=> owner = NoNode
    PROVE  RowStep /\ owner' = n /\ gen' \in Nat /\ gen' > 0
  BY SMT, OwnershipAssumption DEF AcquireOrResume, NextGen, RowStep

\* A generation a node holds stays either its own or behind the row's.
LEMMA HoldsForward ==
    ASSUME NEW n, NEW g \in Nat, Holds(n, g), gen \in Nat, RowStep
    PROVE  g <= gen' /\ (g = gen' /\ gen' > 0 => owner' = n)
  BY SMT DEF Holds, RowStep

\* The fence is inductive over any such step.
LEMMA FenceStep ==
    ASSUME OwnTypeOK, OwnTypeOK', FenceInv,
           RowStep, \A o \in Op : OpStep(o)
    PROVE  FenceInv'
<1> USE OwnershipAssumption
<1>1. gen \in Nat /\ gen' \in Nat /\ wgen \in [Op -> Nat] /\ wgen' \in [Op -> Nat]
  BY DEF OwnTypeOK
<1>2. ASSUME NEW o \in Op PROVE Holds(At[o], wgen[o])'
  <2>1. wgen[o] <= gen' /\ (wgen[o] = gen' /\ gen' > 0 => owner' = At[o])
    BY <1>1, HoldsForward DEF FenceInv
  <2>2. OpStep(o)
    OBVIOUS
  <2> QED
    BY SMT, <1>1, <2>1, <2>2 DEF OpStep, Holds, StillOwns, FenceInv
<1>3. ASSUME NEW o \in Op, wpc'[o] \in Fencing PROVE wgen'[o] > 0
  BY <1>1, <1>3 DEF OpStep, FenceInv, Fencing
<1>4. ASSUME NEW o \in Op PROVE o \in share' <=> wpc'[o] = "commit"
  <2>1. OpStep(o) /\ (o \in share <=> wpc[o] = "commit")
    BY DEF FenceInv
  <2> QED
    BY <2>1 DEF OpStep, Fencing
<1>5. ASSUME NEW o \in share' PROVE StillOwns(At[o], wgen[o])'
  <2>1. o \in Op /\ OpStep(o)
    BY DEF OwnTypeOK
  <2>2. wgen'[o] = wgen[o]
    BY <2>1, <1>4 DEF OpStep, Fencing
  <2>3. StillOwns(At[o], wgen[o]) /\ UNCHANGED <<owner, gen>>
    BY <2>1, <1>4 DEF OpStep, Fencing, RowStep, FenceInv
  <2> QED
    BY <2>2, <2>3 DEF StillOwns
<1>6. gen' = 0 <=> owner' = NoNode
  BY SMT, <1>1 DEF RowStep, FenceInv
<1> QED
  BY <1>2, <1>3, <1>4, <1>5, <1>6 DEF FenceInv, Fencing

\* The steps of a write transaction leave the row alone and keep the fence.
LEMMA WriteTxStep ==
    ASSUME OwnTypeOK, FenceInv, NEW p \in Op, Begin(p) \/ WriteTx(p)
    PROVE  OwnTypeOK' /\ UNCHANGED <<now, owner, gen>> /\ \A o \in Op : OpStep(o)
<1> USE OwnershipAssumption DEF OpStep, Fencing, Stale, OwnTypeOK, rowVars
<1>1. CASE Begin(p)
  BY <1>1 DEF Begin, FenceInv
<1>2. CASE CheckFence(p)
  <2>1. CASE FenceHolds(p)
    BY <1>2, <2>1 DEF CheckFence, FenceShare, FenceHolds, StillOwns
  <2>2. CASE ~FenceHolds(p)
    BY SMT, <1>2, <2>2 DEF CheckFence, FenceInv
  <2> QED
    BY <2>1, <2>2
<1>3. CASE Commit(p)
  BY SMT, <1>3 DEF Commit
<1>4. CASE Abort(p)
  BY <1>4 DEF Abort
<1> QED
  BY <1>1, <1>2, <1>3, <1>4 DEF WriteTx

\* The log is written only for the owner, under the current generation.
LogStep ==
    \/ log' = log
    \/ /\ UNCHANGED <<owner, gen>>
       /\ owner \in Node
       /\ log' = log \union {<<gen, owner>>}

\* A commit under the fence is the log step of FencedScope.
LEMMA CommitIsLogStep ==
    ASSUME FenceInv, NEW o \in Op, Commit(o)
    PROVE  LogStep
<1>1. StillOwns(At[o], wgen[o]) /\ At[o] \in Node
  BY OwnershipAssumption DEF Commit, FenceInv
<1> QED
  BY <1>1 DEF Commit, StillOwns, LogStep, rowVars

----------------------------------------------------------------------------
(* What the fenced scope promises.                                          *)

\* FencedScope starts with an empty write log, so its invariant holds.
LEMMA FInitInv == Fenced!FInit => Fenced!FInv
  BY SMT DEF Fenced!FInit, Fenced!FInv, Fenced!OneWriterPerGeneration

\* Every change of owner and every logged write of FencedScope keeps the invariant.
LEMMA FNextInv == Fenced!FInv /\ [Fenced!FNext]_(Fenced!fvars) => Fenced!FInv'
<1> SUFFICES ASSUME Fenced!FInv, [Fenced!FNext]_(Fenced!fvars) PROVE Fenced!FInv'
  OBVIOUS
<1>1. ASSUME NEW n \in Node, Fenced!ChangeHands(n) PROVE Fenced!FInv'
  BY SMT, <1>1 DEF Fenced!FInv, Fenced!ChangeHands, Fenced!OneWriterPerGeneration
<1>2. ASSUME NEW n \in Node, Fenced!Write(n) PROVE Fenced!FInv'
  <2>1. gen' \in Nat /\ log' \subseteq Nat \X Node
    BY SMT, <1>2 DEF Fenced!FInv, Fenced!Write
  <2>2. \A a \in log' : a \in log \/ (a[1] = gen /\ a[2] = n)
    BY SMT, <1>2 DEF Fenced!Write
  <2>3. \A a \in log' : a[1] <= gen /\ (a[1] = gen => a[2] = owner)
    BY SMT, <1>2, <2>2 DEF Fenced!FInv, Fenced!Write
  <2>4. Fenced!OneWriterPerGeneration'
    <3> SUFFICES ASSUME NEW a \in log', NEW b \in log', a[1] = b[1] PROVE a[2] = b[2]
      BY DEF Fenced!OneWriterPerGeneration
    <3>1. a \in log /\ b \in log => a[2] = b[2]
      BY DEF Fenced!FInv, Fenced!OneWriterPerGeneration
    <3>2. n = owner
      BY <1>2 DEF Fenced!Write
    <3>3. a \notin log \/ b \notin log => a[1] = gen /\ b[1] = gen
      BY <2>2
    <3> QED
      BY SMT, <2>2, <2>3, <3>1, <3>2, <3>3
  <2> QED
    BY <1>2, <2>1, <2>3, <2>4 DEF Fenced!FInv, Fenced!Write
<1>3. CASE UNCHANGED Fenced!fvars
  BY <1>3 DEF Fenced!FInv, Fenced!fvars, Fenced!OneWriterPerGeneration
<1> QED
  BY <1>1, <1>2, <1>3 DEF Fenced!FNext

\* The promise of the fence: two nodes never write under one generation.
THEOREM OneWriter == Fenced!FSpec => []Fenced!OneWriterPerGeneration
<1>1. Fenced!FInv => Fenced!OneWriterPerGeneration
  BY DEF Fenced!FInv
<1> QED
  BY FInitInv, FNextInv, <1>1, PTL DEF Fenced!FSpec

----------------------------------------------------------------------------

IInv == TypeOK /\ CachesBehind

\* No row, no cached lease and no operation: the first state satisfies IInv.
LEMMA InitInv == Init => IInv
  BY SMT, OwnershipAssumption, CrashAssumption
     DEF Init, OwnInit, IInv, TypeOK, OwnTypeOK, CachesBehind, FenceInv, Holds, StillOwns

\* The lease a node has cached, and the one its loop works on, are kept, dropped,
\* copied from one another, or those of an operation that acquired them.
CacheStep(n) ==
    /\ \/ held'[n] \in {0, held[n]}
       \/ \E o \in Op : At[o] = n /\ held'[n] = wgen[o]
    /\ rgen'[n] \in {0, rgen[n], held[n]}

\* A step changes the row, the operations and the caches in these ways only.
Shape ==
    /\ TypeOK'
    /\ RowStep
    /\ \A o \in Op : OpStep(o)
    /\ \A n \in Node : CacheStep(n)

\* Opening, fencing and committing a metadata transaction has the shape IInv survives.
LEMMA WriteShape ==
    ASSUME IInv, NEW p \in Op, Begin(p) \/ WriteTx(p), UNCHANGED <<cacheVars, loopVars, crashes>>
    PROVE  Shape
<1>1. OwnTypeOK' /\ UNCHANGED <<owner, gen>> /\ \A o \in Op : OpStep(o)
  BY WriteTxStep DEF IInv, TypeOK, CachesBehind
<1> QED
  BY <1>1 DEF IInv, TypeOK, Shape, RowStep, CacheStep, cacheVars, loopVars

\* Ensure, from the cache or by a takeover of the row, has that shape.
LEMMA EnsureShape ==
    ASSUME IInv, NEW p \in Op, Ensure(p)
    PROVE  Shape
<1> USE OwnershipAssumption DEF IInv, TypeOK, OwnTypeOK
<1>1. Holds(At[p], wgen[p]) /\ Holds(At[p], held[At[p]]) /\ At[p] \in Node
  BY DEF CachesBehind, FenceInv
<1>2. p \in share <=> wpc[p] = "commit"
  BY DEF CachesBehind, FenceInv
<1>3. CASE EnsureCached(p)
  BY SMT, <1>1, <1>2, <1>3 DEF EnsureCached, Fresh, Fences, Holds, Shape, RowStep, OpStep, CacheStep, Fencing,
     rowVars, cacheVars, loopVars
<1>4. CASE EnsureAcquires(p)
  <2>1. RowStep /\ owner' = At[p] /\ gen' \in Nat /\ gen' > 0
    BY <1>1, <1>4, AcquireIsRowStep DEF EnsureAcquires, CachesBehind, FenceInv
  <2>2. expires' \in Nat
    BY SMT, <1>1, <1>4 DEF EnsureAcquires, AcquireOrResume, Clock
  <2>3. TypeOK'
    BY <1>1, <1>4, <2>1, <2>2 DEF EnsureAcquires, cacheVars, loopVars
  <2>4. \A o \in Op : OpStep(o)
    BY SMT, <1>1, <1>2, <1>4, <2>1 DEF EnsureAcquires, OpStep, Fencing
  <2>5. \A n \in Node : CacheStep(n)
    BY <1>4 DEF EnsureAcquires, CacheStep, cacheVars, loopVars
  <2> QED
    BY <2>1, <2>3, <2>4, <2>5 DEF Shape
<1>5. CASE EnsureStores(p)
  <2>1. wgen[p] > 0
    BY <1>5 DEF EnsureStores, CachesBehind, FenceInv
  <2>2. TypeOK'
    BY SMT, <1>1, <1>5 DEF EnsureStores, Clock, rowVars, loopVars
  <2>3. RowStep
    BY <1>5 DEF EnsureStores, RowStep, rowVars
  <2>4. \A o \in Op : OpStep(o)
    BY SMT, <1>1, <1>2, <1>5, <2>1 DEF EnsureStores, Holds, OpStep, Fencing, rowVars
  <2>5. \A n \in Node : CacheStep(n)
    BY SMT, <1>1, <1>5 DEF EnsureStores, CacheStep, loopVars
  <2> QED
    BY <2>2, <2>3, <2>4, <2>5 DEF Shape
<1>6. CASE EnsureRefused(p)
  BY <1>1, <1>2, <1>6 DEF EnsureRefused, Stale, Shape, RowStep, OpStep, CacheStep, Fencing,
     rowVars, cacheVars, loopVars
<1> QED
  BY <1>3, <1>4, <1>5, <1>6 DEF Ensure

\* The refresh loop, Release, Close and a crash have that shape.
LEMMA NodeShape ==
    ASSUME IInv, NEW n \in Node, RefreshLoop(n) \/ RefreshFails(n) \/ ReleaseAll(n) \/ Crash(n)
    PROVE  Shape
<1> USE OwnershipAssumption, CrashAssumption DEF IInv, TypeOK, OwnTypeOK, Shape, RowStep, OpStep, CacheStep
<1>1. CASE RefreshStarts(n)
  BY <1>1 DEF RefreshStarts, ownVars, rowVars, opVars, cacheVars
<1>2. CASE RefreshRow(n)
  <2>1. TypeOK'
    BY SMT, <1>2 DEF RefreshRow, Refresh, Clock, opVars, cacheVars
  <2> QED
    BY <1>2, <2>1 DEF RefreshRow, Refresh, opVars, cacheVars
<1>3. CASE RefreshFails(n)
  BY SMT, <1>3 DEF RefreshFails, ownVars, rowVars, opVars, cacheVars
<1>4. CASE RefreshApplies(n)
  <2>1. held' \in [Node -> Nat] /\ \A m \in Node : held'[m] \in {0, held[m]}
    BY <1>4 DEF RefreshApplies, Dropped
  <2>2. lexp' \in [Node -> Nat]
    BY SMT, <1>4 DEF RefreshApplies, Lapsed, Clock
  <2> QED
    BY <1>4, <2>1, <2>2 DEF RefreshApplies, ownVars, rowVars, opVars
<1>5. CASE ReleaseAll(n)
  BY SMT, <1>5 DEF ReleaseAll, ownVars, rowVars, opVars, loopVars
<1>6. CASE Crash(n)
  <2>1. \A o \in Op : (o \in share <=> wpc[o] = "commit")
    BY DEF CachesBehind, FenceInv
  <2>2. TypeOK'
    <3>1. OwnTypeOK'
      BY <1>6 DEF Crash, rowVars
    <3>2. /\ held' \in [Node -> Nat] /\ lexp' \in [Node -> Nat]
          /\ rpc' \in [Node -> {"idle", "sql", "renewed", "stolen", "failed"}] /\ rgen' \in [Node -> Nat]
      BY <1>6 DEF Crash
    <3>3. crashes' \in 0 .. MaxCrashes
      BY SMT, <1>6 DEF Crash
    <3> QED
      BY <3>1, <3>2, <3>3
  <2>3. RowStep /\ \A m \in Node : CacheStep(m)
    BY <1>6 DEF Crash, rowVars
  <2>4. \A o \in Op : OpStep(o)
    BY <1>6, <2>1 DEF Crash, Fencing
  <2> QED
    BY <2>2, <2>3, <2>4
<1> QED
  BY <1>1, <1>2, <1>3, <1>4, <1>5, <1>6 DEF RefreshLoop

\* Every step of SQLOwner, stutters included, has that shape.
LEMMA StepShape == IInv /\ [Next]_vars => Shape
<1> SUFFICES ASSUME IInv, [Next]_vars PROVE Shape
  OBVIOUS
<1>1. ASSUME NEW o \in Op, Operation(o) PROVE Shape
  BY <1>1, WriteShape, EnsureShape DEF Operation
<1>2. CASE Tick /\ UNCHANGED <<rowVars, log, opVars, share, cacheVars, loopVars, crashes>>
  BY SMT, <1>2, OwnershipAssumption DEF Tick, IInv, TypeOK, OwnTypeOK, Shape, RowStep, OpStep, CacheStep,
     rowVars, opVars, cacheVars, loopVars
<1>3. CASE UNCHANGED vars
  BY <1>3 DEF IInv, TypeOK, OwnTypeOK, Shape, RowStep, OpStep, CacheStep,
     vars, ownVars, rowVars, opVars, cacheVars, loopVars
<1> QED
  BY <1>1, <1>2, <1>3, NodeShape DEF Next

\* The caches stay behind the row over any step of that shape.
LEMMA ShapeInv == IInv /\ Shape => IInv'
<1> SUFFICES ASSUME IInv, Shape PROVE IInv'
  OBVIOUS
<1> USE OwnershipAssumption
<1>1. FenceInv'
  BY FenceStep DEF IInv, CachesBehind, Shape, TypeOK
<1>2. /\ gen \in Nat /\ gen' \in Nat
      /\ wgen \in [Op -> Nat] /\ held \in [Node -> Nat] /\ rgen \in [Node -> Nat]
      /\ RowStep
  BY DEF IInv, TypeOK, OwnTypeOK, Shape
<1>3. ASSUME NEW n \in Node PROVE Holds(n, held[n])' /\ Holds(n, rgen[n])'
  <2>1. CacheStep(n)
    BY DEF Shape
  <2>2. held[n] <= gen' /\ (held[n] = gen' /\ gen' > 0 => owner' = n)
    BY <1>2, HoldsForward DEF IInv, CachesBehind
  <2>3. rgen[n] <= gen' /\ (rgen[n] = gen' /\ gen' > 0 => owner' = n)
    BY <1>2, HoldsForward DEF IInv, CachesBehind
  <2>4. ASSUME NEW o \in Op, At[o] = n
        PROVE wgen[o] <= gen' /\ (wgen[o] = gen' /\ gen' > 0 => owner' = n)
    BY <1>2, <2>4, HoldsForward DEF IInv, CachesBehind, FenceInv
  <2>5. Holds(n, held[n])'
    BY SMT, <1>2, <2>1, <2>2, <2>4 DEF CacheStep, Holds
  <2>6. Holds(n, rgen[n])'
    BY SMT, <1>2, <2>1, <2>2, <2>3 DEF CacheStep, Holds
  <2> QED
    BY <2>5, <2>6
<1> QED
  BY <1>1, <1>3 DEF IInv, CachesBehind, Shape

\* No cache, loop or operation of SQLOwner holds a generation another node owns,
\* and an open write transaction owns the row at the generation it checked.
THEOREM Invariance == Spec => []IInv
<1>1. IInv /\ [Next]_vars => IInv'
  BY StepShape, ShapeInv
<1> QED
  BY InitInv, <1>1, PTL DEF Spec

\* SqlOwner's TypeOK holds in every reachable state.
THEOREM TypeCorrect == Spec => []TypeOK
<1>1. IInv => TypeOK
  BY DEF IInv
<1> QED
  BY Invariance, <1>1, PTL

\* No lease is believed in that another node owns.
THEOREM CachesStayBehind == Spec => []CachesBehind
<1>1. IInv => CachesBehind
  BY DEF IInv
<1> QED
  BY Invariance, <1>1, PTL

----------------------------------------------------------------------------
(* The refinement.                                                          *)

\* The write log grows only at a commit, by the operation that passed the fence.
LEMMA LogShape == IInv /\ [Next]_vars => LogStep
<1> SUFFICES ASSUME IInv, [Next]_vars PROVE LogStep
  OBVIOUS
<1>1. ASSUME NEW o \in Op, Commit(o) PROVE LogStep
  BY <1>1, CommitIsLogStep DEF IInv, CachesBehind
<1>2. ASSUME NEW o \in Op, Operation(o), ~Commit(o) PROVE log' = log
  BY <1>2 DEF Operation, Begin, WriteTx, CheckFence, Abort, Ensure, EnsureCached, EnsureAcquires,
     EnsureStores, EnsureRefused
<1>3. ASSUME NEW n \in Node, RefreshLoop(n) \/ RefreshFails(n) \/ ReleaseAll(n) \/ Crash(n)
      PROVE log' = log
  BY <1>3 DEF RefreshLoop, RefreshStarts, RefreshRow, RefreshApplies, RefreshFails, ReleaseAll, Crash, ownVars
<1>4. CASE UNCHANGED vars
  BY <1>4 DEF LogStep, vars, ownVars
<1> QED
  BY <1>1, <1>2, <1>3, <1>4 DEF Next, LogStep

\* SQLOwner starts in an initial state of FencedScope.
LEMMA InitFenced == Init => Fenced!FInit
  BY DEF Init, OwnInit, Fenced!FInit

\* A step of SQLOwner is a step of FencedScope or changes nothing it sees.
LEMMA StepFenced == IInv /\ [Next]_vars => [Fenced!FNext]_(Fenced!fvars)
<1> SUFFICES ASSUME IInv, [Next]_vars PROVE [Fenced!FNext]_(Fenced!fvars)
  OBVIOUS
<1>1. RowStep /\ LogStep
  BY StepShape, LogShape DEF Shape
<1>2. CASE UNCHANGED <<owner, gen>>
  BY <1>1, <1>2 DEF LogStep, Fenced!FNext, Fenced!Write, Fenced!fvars
<1>3. CASE ~UNCHANGED <<owner, gen>>
  <2>1. owner' \in Node /\ owner' # owner /\ gen' = gen + 1 /\ log' = log
    BY <1>1, <1>3 DEF RowStep, LogStep
  <2> QED
    BY <2>1 DEF Fenced!FNext, Fenced!ChangeHands
<1> QED
  BY <1>2, <1>3

\* SQLOwner implements the fenced scope: a generation changes only with its owner,
\* and only the owner writes, under the current generation.
THEOREM Refinement == Spec => FencedSpec
  BY Invariance, InitFenced, StepFenced, PTL DEF Spec, FencedSpec, Fenced!FSpec

\* Two nodes never commit writes under one generation.
THEOREM OneWriterThm == Spec => []OneWriterPerGeneration
  BY Refinement, OneWriter, PTL DEF FencedSpec, OneWriterPerGeneration

=============================================================================
