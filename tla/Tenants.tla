------------------------------- MODULE Tenants ------------------------------
(***************************************************************************)
(* A tenant's stores and credentials, and the configuration that names the *)
(* tenants.                                                                *)
(***************************************************************************)
EXTENDS Naturals, FiniteSets, Sequences

-----------------------------------------------------------------------------
(***************************************************************************)
(* How one tenant's storage binding reaches the gateway: the credential    *)
(* cache (caching.go), the store cache (backend.go) and the gateway cache  *)
(* (tenant_router.go), each with its own lifetime, over a PostgreSQL       *)
(* manifest pool per built set of stores.                                  *)
(***************************************************************************)

CONSTANTS
    ProviderTTL, CacheTTL,   \* lifetimes of the caches
    Session, Margin,         \* of an assumed role; how early it is renewed
    MaxClk, MaxPool          \* bounds

\* The defaults: 15m, 15m and a session of an hour.
ASSUME TenancyAssumption ==
    /\ {ProviderTTL, CacheTTL, Session, Margin, MaxClk, MaxPool} \subseteq Nat
    /\ Session > 0 /\ Session >= ProviderTTL + 2 * CacheTTL

VARIABLES
    clk,
    binding,   \* CachingProvider's entry: [at, exp], when fetched, when it lapses
    stores,    \* perTenantBackend's entry: [at, exp, pool]
    gateway,   \* TenantRouter's entry: [at, exp, pool]
    sweep,     \* the stores a sweep or compaction holds
    open,      \* manifest pools that are open
    pools,     \* pools opened so far
    \* History.
    use        \* the last use of a set of stores: [at, pool, on]

tnVars == <<clk, binding, stores, gateway, sweep, open, pools, use>>

None == [at |-> 0, exp |-> 0, pool |-> 0]

TnTypeOK ==
    /\ clk \in 0 .. MaxClk
    /\ open \subseteq 1 .. MaxPool /\ pools \in 0 .. MaxPool
    /\ \A e \in {stores, gateway, sweep} : e.pool \in 0 .. pools

TnInit ==
    /\ clk = 0 /\ binding = None /\ stores = None /\ gateway = None /\ sweep = None
    /\ open = {} /\ pools = 0 /\ use = None

----------------------------------------------------------------------------
Fresh(e) == e.exp > clk
Earlier(a, b) == IF a < b THEN a ELSE b

\* BindingFor: the cached binding, or one fetched now.
EffectiveExpiry_TTLOnly == clk + Session
EffectiveExpiry == Earlier(clk + ProviderTTL, clk + Session - Margin)
Binding == IF Fresh(binding) THEN binding
           ELSE [at |-> clk, exp |-> EffectiveExpiry, pool |-> 0]

\* perTenantBackend.For (one flight per tenant): the cached stores, or new ones
\* over the binding; the pool of the entry replaced is closed.
Retired == {stores.pool}
For ==
    IF Fresh(stores) THEN UNCHANGED <<binding, stores, open, pools>>
    ELSE /\ pools < MaxPool /\ pools' = pools + 1
         /\ binding' = Binding
         /\ stores' = [at |-> Binding.at, exp |-> clk + CacheTTL, pool |-> pools + 1]
         /\ open' = (open \ Retired) \cup {pools + 1}

Use(e) == use' = [at |-> e.at, exp |-> clk, pool |-> e.pool]

\* ForCtx: a cached gateway is handed out as it is.
ForCtx ==
    /\ IF Fresh(gateway) THEN UNCHANGED <<binding, stores, open, pools, gateway>>
       ELSE For /\ gateway' = [at |-> stores'.at, exp |-> clk + CacheTTL, pool |-> stores'.pool]
    /\ Use(gateway')
    /\ UNCHANGED <<clk, sweep>>

\* GCForTenant, ChunksForTenant, CompactorForTenant resolve without that cache;
\* the pass works with the stores until it ends.
SweepBegin ==
    /\ sweep = None /\ For /\ sweep' = stores'
    /\ UNCHANGED <<clk, gateway, use>>

SweepEnd == /\ sweep # None /\ sweep' = None
            /\ UNCHANGED <<clk, binding, stores, gateway, open, pools, use>>

\* Presigning asks the credential cache alone.
Presign ==
    /\ binding' = Binding /\ use' = [at |-> Binding.at, exp |-> clk, pool |-> 0]
    /\ UNCHANGED <<clk, stores, gateway, sweep, open, pools>>

TnClose ==
    /\ open # {} /\ open' = {} /\ stores' = None
    /\ gateway' = None /\ sweep' = None        \* the process is shutting down
    /\ UNCHANGED <<clk, binding, pools, use>>

TnTick == /\ clk < MaxClk /\ clk' = clk + 1
          /\ UNCHANGED <<binding, stores, gateway, sweep, open, pools, use>>

TnNext == ForCtx \/ SweepBegin \/ SweepEnd \/ Presign \/ TnClose \/ TnTick

TnSpec == TnInit /\ [][TnNext]_tnVars

----------------------------------------------------------------------------
\* No request runs on session credentials that have expired, though it may
\* find a gateway built over stores built over a binding, each near its end.
CredsLive == use # None => use.exp < use.at + Session

\* Rebuilding does not leak: the open pool is the one of the cached stores.
OnePool == open \subseteq {stores.pool}

\* "The entry is already unreachable": no cached gateway is on a closed pool.
\* Refuted (no run checks it): the gateway entry is made later than the pool
\* entry it holds, and outlives it.
PoolOpen == Fresh(gateway) => gateway.pool \in open

\* "Propagates to both the presign path and the per-tenant direct-I/O path
\* within one TTL".
WithinOneTTL == use # None => use.exp < use.at + ProviderTTL

-----------------------------------------------------------------------------
(***************************************************************************)
(* The tenant configuration and its poller (tenantconfig.go, reload.go):   *)
(* one file, or a directory read file by file while it is being edited.    *)
(***************************************************************************)

CONSTANTS
    FileCounts,   \* numbers of files to consider; one: the single-file form
    Tenant,
    Prefix,       \* pairs <<a, b>> where a's name is a prefix of b's
    MaxEdits

\* What a file holds: its tenants (none when absent), if it parses.
Broken == [ok |-> FALSE, names |-> {}]
Content == [ok : {TRUE}, names : SUBSET Tenant] \cup {Broken}

ASSUME TenantConfigAssumption == Prefix \subseteq Tenant \X Tenant /\ MaxEdits \in Nat /\ FileCounts \subseteq Nat \ {0}

VARIABLES
    files,   \* number of files
    cfg,     \* file contents, in the order they are read
    poll,    \* [at, merged]: next file to read, tenants so far; at = 0: not polling
    seen,    \* the contents parsed so far in this poll
    cur,     \* tenants of the resolver in force
    sum,     \* contents the recorded hash stands for
    edits

tcVars == <<files, cfg, poll, seen, cur, sum, edits>>

TcFile == 1 .. files
Single == files = 1
NoPoll == [at |-> 0, merged |-> {}]

TcTypeOK ==
    /\ cfg \in [TcFile -> Content] /\ sum \in [TcFile -> Content] /\ seen \in [TcFile -> Content]
    /\ cur \subseteq Tenant /\ poll.merged \subseteq Tenant /\ poll.at \in 0 .. files + 1

\* validateFile: some tenant, and no name a prefix of another's.
Valid(T) == T # {} /\ \A p \in Prefix : ~({p[1], p[2]} \subseteq T)

Merged(c) == UNION {c[f].names : f \in TcFile}
Loads(c) == Valid(Merged(c)) /\ \A f, g \in TcFile : f # g => c[f].names \cap c[g].names = {}

\* The first load must succeed.
TcInit ==
    /\ files \in FileCounts /\ cfg \in {c \in [TcFile -> Content] : Loads(c)}
    /\ poll = NoPoll /\ seen = cfg /\ cur = Merged(cfg) /\ sum = cfg /\ edits = 0

TcEdit(f, c) ==
    /\ edits < MaxEdits /\ c # cfg[f] /\ edits' = edits + 1
    /\ cfg' = [cfg EXCEPT ![f] = c]
    /\ UNCHANGED <<files, poll, seen, cur, sum>>

PollBegin ==
    /\ poll.at = 0 /\ poll' = [at |-> 1, merged |-> {}]
    /\ UNCHANGED <<files, cfg, seen, cur, sum, edits>>

\* LoadDir: a broken file is passed over, a tenant met twice ends the load.
\* A single file that is broken is an error.
ReadFile ==
    LET names == cfg[poll.at].names
        fails == IF Single THEN cfg[1] = Broken ELSE names \cap poll.merged # {}
    IN /\ poll.at \in TcFile
       /\ seen' = [seen EXCEPT ![poll.at] = cfg[poll.at]]
       /\ poll' = IF fails THEN NoPoll ELSE [at |-> poll.at + 1, merged |-> poll.merged \cup names]
       /\ UNCHANGED <<files, cfg, cur, sum, edits>>

\* The hash of one file is of the bytes parsed, of a directory of a new reading.
Hashed == IF Single THEN seen ELSE cfg

\* An invalid set, or an unchanged hash, leaves the resolver in force.
SwapIn ==
    /\ poll.at = files + 1 /\ poll' = NoPoll
    /\ IF Valid(poll.merged) /\ Hashed # sum THEN cur' = poll.merged /\ sum' = Hashed
                                             ELSE UNCHANGED <<cur, sum>>
    /\ UNCHANGED <<files, cfg, seen, edits>>

TcNext == \/ PollBegin \/ ReadFile \/ SwapIn
          \/ \E f \in TcFile, c \in Content : TcEdit(f, c)

TcSpec == TcInit /\ [][TcNext]_tcVars

----------------------------------------------------------------------------
\* A bad reload never blanks the tenants, and no two of them have ambiguous
\* blob-id prefixes, whatever mix of old and new files one poll read.
TenantsServable == cur # {} /\ \A a, b \in cur : <<a, b>> \notin Prefix

\* With one file the resolver is the one its recorded hash stands for.
FileReloadExact == Single => cur = Merged(sum)

\* "Adding, removing, or editing any one file triggers a reload": while the
\* hash says nothing changed, the tenants are the directory's.
\* Refuted (no run checks it): a file edited between its parsing and the
\* hashing of the directory is recorded as seen.
ReloadExact == poll = NoPoll /\ sum = cfg /\ Loads(cfg) => cur = Merged(cfg)

\* A tenant's stores and the tenants' configuration: live credentials, one
\* pool, and a resolver that is valid and that of the files it was read from.
TenantsSound ==
    /\ TnTypeOK /\ CredsLive /\ OnePool
    /\ TcTypeOK /\ TenantsServable /\ FileReloadExact

=============================================================================
