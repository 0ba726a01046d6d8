----------------------------- MODULE EdgePolicy -----------------------------
(***************************************************************************)
(* The edge's policies: capability tokens with their revocation, and rate  *)
(* limits.                                                                 *)
(***************************************************************************)
EXTENDS FiniteSets, Integers

-----------------------------------------------------------------------------
(***************************************************************************)
(* Capability tokens of blobgw-edge: mint, verification of a request, the  *)
(* Postgres denylist and its pruning (capability.go, edge.go, pgpolicy.go).*)
(***************************************************************************)

CONSTANTS
    Jti,                     \* token ids
    TTLs, DefaultTTL,        \* lifetimes a client may ask for; 0: none asked
    ShareableMax, BoundMax,  \* ceilings for bearer and for auth-bound tokens
    Retention,               \* denylist lifetime when no expiry is given
    MaxNow, MaxLost          \* bounds: clock, denylist writes that fail

\* NewPgRevocation: "set it to at least the maximum capability TTL".
ASSUME CapabilityAssumption ==
    /\ {DefaultTTL, ShareableMax, BoundMax, Retention, MaxNow, MaxLost} \subseteq Nat
    /\ TTLs \subseteq Nat
    /\ Retention >= ShareableMax /\ Retention >= BoundMax /\ {ShareableMax, BoundMax} \cap {0} = {}

VARIABLES
    edgeNow,
    claims,   \* minted tokens: [exp, ra, at]
    denied,   \* edge_revocation: expires_at of each jti; 0: no row
    req,      \* the request being verified: [pc, jti, since, fits, from]
    \* History.
    revoked,  \* tokens whose revocation was acknowledged
    lost,     \* ... although the row was not written
    served    \* the last request, if let through: [jti, since, from, at]

cpVars == <<edgeNow, claims, denied, req, revoked, lost, served>>

NoReq == [pc |-> "idle", jti |-> "none", since |-> FALSE, fits |-> FALSE, from |-> 0]
Minted == {j \in Jti : claims[j].exp > 0}

CpTypeOK ==
    /\ edgeNow \in 0 .. MaxNow
    /\ \A j \in Jti : claims[j].exp \in Nat /\ claims[j].ra \in BOOLEAN
    /\ denied \in [Jti -> Nat] /\ {revoked, lost} \subseteq SUBSET Jti
    /\ req.pc \in {"idle", "denylist"}

CpInit ==
    /\ edgeNow = 0
    /\ claims = [j \in Jti |-> [exp |-> 0, ra |-> FALSE, at |-> 0]]
    /\ denied = [j \in Jti |-> 0] /\ req = NoReq
    /\ revoked = {} /\ lost = {} /\ served = {}

----------------------------------------------------------------------------
\* The lifetime a token gets: asked for or the default, under its ceiling.
Clamp(ttl, ra) ==
    LET want == IF ttl > 0 THEN ttl ELSE DefaultTTL
        cap == IF ra THEN BoundMax ELSE ShareableMax
    IN IF want > cap THEN cap ELSE want

Mint(j, ttl, ra) ==
    /\ j \notin Minted
    /\ claims' = [claims EXCEPT ![j] = [exp |-> edgeNow + Clamp(ttl, ra), ra |-> ra, at |-> edgeNow]]
    /\ UNCHANGED <<edgeNow, denied, req, revoked, lost, served>>

\* verifyRequest: the token's window first ...
Live(j) == edgeNow < claims[j].exp

VerifyToken(j, fits) ==
    /\ req.pc = "idle" /\ j \in Minted /\ Live(j)
    /\ req' = [pc |-> "denylist", jti |-> j, since |-> j \in revoked \ lost, fits |-> fits, from |-> edgeNow]
    /\ UNCHANGED <<edgeNow, claims, denied, revoked, lost, served>>

\* ... then the denylist; an unreachable one refuses.  Operation, reference,
\* rate and principal (`fits`) follow.
IsRevoked(j) == denied[j] > edgeNow

CheckDenylist ==
    /\ req.pc = "denylist"
    /\ served' = IF ~IsRevoked(req.jti) /\ req.fits
                 THEN {[jti |-> req.jti, since |-> req.since,
                        from |-> req.from, at |-> edgeNow]}
                 ELSE {}
    /\ req' = NoReq
    /\ UNCHANGED <<edgeNow, claims, denied, revoked, lost>>

DenylistDown ==
    /\ req.pc = "denylist"
    /\ req' = NoReq
    /\ UNCHANGED <<edgeNow, claims, denied, revoked, lost, served>>

\* revoke: the caller gives the token's expiry or none.  A failed write is
\* logged and acknowledged all the same.
EntryExpiry_Short(j, known) == IF known THEN claims[j].exp ELSE edgeNow + 1
EntryExpiry(j, known) == IF known THEN claims[j].exp ELSE edgeNow + Retention

Revoke(j, known) ==
    /\ j \in Minted
    /\ revoked' = revoked \cup {j}
    /\ \/ denied' = [denied EXCEPT ![j] = EntryExpiry(j, known)] /\ UNCHANGED lost
       \/ /\ Cardinality(lost) < MaxLost /\ denied[j] = 0
          /\ lost' = lost \cup {j} /\ UNCHANGED denied
    /\ UNCHANGED <<edgeNow, claims, req, served>>

Prune ==
    /\ denied' = [j \in Jti |-> IF denied[j] <= edgeNow THEN 0 ELSE denied[j]]
    /\ UNCHANGED <<edgeNow, claims, req, revoked, lost, served>>

CpTick == /\ edgeNow < MaxNow /\ edgeNow' = edgeNow + 1
          /\ UNCHANGED <<claims, denied, req, revoked, lost, served>>

CpNext ==
    \/ \E j \in Jti : \/ \E ttl \in TTLs, ra \in BOOLEAN : Mint(j, ttl, ra)
                      \/ \E fits \in BOOLEAN : VerifyToken(j, fits)
                      \/ \E known \in BOOLEAN : Revoke(j, known)
    \/ CheckDenylist \/ DenylistDown \/ Prune \/ CpTick

CpSpec == CpInit /\ [][CpNext]_cpVars

----------------------------------------------------------------------------
\* A request that starts after a token's revocation was acknowledged is not
\* let through, with or without a stated expiry and whatever Prune removes;
\* the one gap is a token that expires between the two checks.
RevokedRefused == \A a \in served : a.since => a.at >= claims[a.jti].exp

\* No request is let through that came later than the ceiling of its token's
\* kind after the mint (TTL clamp of mint, window of Verify).
ServedInWindow == \A a \in served :
    a.from < claims[a.jti].at + (IF claims[a.jti].ra THEN BoundMax ELSE ShareableMax)

-----------------------------------------------------------------------------
(***************************************************************************)
(* The token-bucket limiters of blobgw-edge (policy.go, pgpolicy.go), one  *)
(* key: the clock is read before the mutex or the row lock is obtained.    *)
(* One token accrues per tick.                                             *)
(***************************************************************************)

CONSTANTS Caller, Burst, Backing, MaxTick, MaxGrants

ASSUME RateLimitAssumption ==
    Burst \in Nat \ {0} /\ Backing \subseteq {"memory", "postgres"} /\ {MaxTick, MaxGrants} \subseteq Nat

VARIABLES
    backing,  \* which limiter
    tick,     \* the clock
    call,     \* what each caller read; -1: not calling
    bucket,   \* the bucket: [tokens, last, new]
    \* History.
    first,    \* reading that seeded the bucket
    latest,   \* latest reading used
    grants,   \* calls allowed
    behind    \* a call used a reading older than the bucket's

rlVars == <<backing, tick, call, bucket, first, latest, grants, behind>>

RlTypeOK ==
    /\ tick \in 0 .. MaxTick /\ call \in [Caller -> -1 .. MaxTick]
    /\ bucket.tokens \in -MaxTick .. Burst /\ bucket.last \in 0 .. MaxTick
    /\ grants \in 0 .. MaxGrants /\ behind \in BOOLEAN

RlInit ==
    /\ backing \in Backing /\ tick = 0 /\ call = [c \in Caller |-> -1]
    /\ bucket = [tokens |-> 0, last |-> 0, new |-> TRUE]
    /\ first = 0 /\ latest = 0 /\ grants = 0 /\ behind = FALSE

ReadClock(c) ==
    /\ call[c] = -1 /\ call' = [call EXCEPT ![c] = tick]
    /\ UNCHANGED <<backing, tick, bucket, first, latest, grants, behind>>

Min2(a, b) == IF a < b THEN a ELSE b
Max2(a, b) == IF a > b THEN a ELSE b

\* What accrued since the last call; only the Postgres limiter clamps it.
Elapsed(t) == IF backing = "postgres" THEN Max2(0, t - bucket.last) ELSE t - bucket.last

Refilled(t) == Min2(Burst, bucket.tokens + Elapsed(t))

\* The locked section: seed, refill, spend or refuse.
Allow(c) ==
    LET t == call[c]
        spends == bucket.new \/ Refilled(t) >= 1
    IN /\ t # -1 /\ grants < MaxGrants
       /\ bucket' = [new |-> FALSE, last |-> t,
                     tokens |-> IF bucket.new THEN Burst - 1
                                ELSE IF spends THEN Refilled(t) - 1 ELSE Refilled(t)]
       /\ grants' = IF spends THEN grants + 1 ELSE grants
       /\ first' = IF bucket.new THEN t ELSE first
       /\ latest' = Max2(latest, t)
       /\ behind' = (behind \/ (~bucket.new /\ t < bucket.last))
       /\ call' = [call EXCEPT ![c] = -1]
       /\ UNCHANGED <<backing, tick>>

\* The database is away: the call is allowed and nothing is stored.
AllowOpen(c) ==
    /\ backing = "postgres" /\ call[c] # -1
    /\ call' = [call EXCEPT ![c] = -1]
    /\ UNCHANGED <<backing, tick, bucket, first, latest, grants, behind>>

RlTick == /\ tick < MaxTick /\ tick' = tick + 1
          /\ UNCHANGED <<backing, call, bucket, first, latest, grants, behind>>

RlNext == RlTick \/ \E c \in Caller : ReadClock(c) \/ Allow(c) \/ AllowOpen(c)

RlSpec == RlInit /\ [][RlNext]_rlVars

----------------------------------------------------------------------------
\* The limit holds: between two readings no more calls are allowed than the
\* burst and what accrued.
\* Refuted for the Postgres limiter: a call that read its clock earlier and is
\* served later sets the bucket's time back, and the same interval accrues
\* twice.
RateBounded == ~bucket.new => grants <= Burst + Max2(0, latest - first)

\* The in-memory limiter keeps it however calls overtake each other; the
\* Postgres one as long as none does.
OrderedRateBounded == backing = "memory" \/ ~behind => RateBounded

\* What the edge lets through: no revoked token, none out of its window, no
\* more requests than the limit (capability.go, policy.go, pgpolicy.go).
EdgePolicySound ==
    /\ CpTypeOK /\ RevokedRefused /\ ServedInWindow
    /\ RlTypeOK /\ OrderedRateBounded

=============================================================================
