---------------------------- MODULE ServiceProofs ----------------------------
(***************************************************************************)
(* Proofs about the services around the stores, for every value of their   *)
(* constants: a tenant's stores and configuration, and the presigned URLs  *)
(* of a node.                                                              *)
(***************************************************************************)
EXTENDS PresignCache, Integers, TLAPS

\* Most steps are first-order; those about numbers or data cite SMT.
USE Zenon

----------------------------------------------------------------------------
(* A tenant's stores: each cache is no further ahead of the credentials it  *)
(* was built from than the lifetimes above it add up to.                    *)

Entry == [at : Nat, exp : Int, pool : Nat]

TnInv ==
    /\ TnTypeOK
    /\ {binding, stores, gateway, sweep, use} \subseteq Entry
    /\ binding.exp <= binding.at + ProviderTTL
    /\ stores.exp <= stores.at + ProviderTTL + CacheTTL
    /\ gateway.exp <= gateway.at + ProviderTTL + 2 * CacheTTL
    /\ CredsLive /\ OnePool

\* No cached credentials and no pools: the first state satisfies TnInv.
LEMMA TnInitInv == TnInit => TnInv
  BY SMT, TenancyAssumption DEF TnInit, TnInv, TnTypeOK, Entry, None, CredsLive, OnePool

\* What BindingFor hands out was issued less than ProviderTTL ago, or now.
LEMMA BindingFresh ==
    ASSUME TnInv
    PROVE  /\ Binding \in Entry
           /\ Binding.exp <= Binding.at + ProviderTTL
           /\ clk <= Binding.at + ProviderTTL
           /\ clk < Binding.at + Session
<1>1. clk \in Nat /\ binding \in Entry
  BY SMT, TenancyAssumption DEF TnInv, TnTypeOK
<1>2. CASE Fresh(binding)
  BY SMT, <1>1, <1>2, TenancyAssumption DEF Binding, Fresh, Entry, TnInv
<1>3. CASE ~Fresh(binding)
  BY SMT, <1>1, <1>3, TenancyAssumption DEF Binding, EffectiveExpiry, Earlier, Entry
<1> QED
  BY <1>2, <1>3

\* Whatever For returns, found or built, was found or built in time, and its
\* pool is the only one open.
LEMMA ForKeeps ==
    ASSUME TnInv, For
    PROVE  /\ binding' \in Entry /\ stores' \in Entry
           /\ binding'.exp <= binding'.at + ProviderTTL
           /\ stores'.exp <= stores'.at + ProviderTTL + CacheTTL
           /\ clk < stores'.at + Session
           /\ clk <= stores'.at + ProviderTTL + CacheTTL
           /\ pools' \in pools .. MaxPool /\ stores'.pool \in 0 .. pools'
           /\ open' \subseteq 1 .. MaxPool /\ open' \subseteq {stores'.pool}
<1>1. /\ clk \in Nat /\ binding \in Entry /\ stores \in Entry
      /\ pools \in Nat /\ pools <= MaxPool /\ stores.pool \in 0 .. pools
      /\ open \subseteq 1 .. MaxPool /\ open \subseteq {stores.pool}
      /\ binding.exp <= binding.at + ProviderTTL
      /\ stores.exp <= stores.at + ProviderTTL + CacheTTL
  BY SMT, TenancyAssumption DEF TnInv, TnTypeOK, OnePool
<1>2. CASE Fresh(stores)
  <2>1. binding' = binding /\ stores' = stores /\ open' = open /\ pools' = pools
    BY <1>2 DEF For
  <2>2. clk < stores.at + ProviderTTL + CacheTTL
    BY SMT, <1>1, <1>2, TenancyAssumption DEF Fresh, Entry
  <2> QED
    BY SMT, <1>1, <2>1, <2>2, TenancyAssumption DEF Entry
<1>3. CASE ~Fresh(stores)
  <2>1. /\ pools < MaxPool /\ pools' = pools + 1 /\ binding' = Binding
        /\ stores' = [at |-> Binding.at, exp |-> clk + CacheTTL, pool |-> pools + 1]
        /\ open' = {pools + 1}
    BY <1>1, <1>3 DEF For, Retired
  <2>2. /\ stores' \in Entry /\ stores'.at = Binding.at /\ stores'.exp = clk + CacheTTL
        /\ stores'.pool = pools + 1
    BY SMT, <1>1, <2>1, BindingFresh, TenancyAssumption DEF Entry
  <2> QED
    BY SMT, <1>1, <2>1, <2>2, BindingFresh, TenancyAssumption DEF Entry
<1> QED
  BY <1>2, <1>3

\* Every step of the credential cache and the pool registry keeps TnInv.
LEMMA TnStepInv == TnInv /\ [TnNext]_tnVars => TnInv'
<1> SUFFICES ASSUME TnInv, [TnNext]_tnVars
             PROVE  TnInv'
  OBVIOUS
<1>0. /\ clk \in Nat /\ clk <= MaxClk /\ pools \in Nat /\ pools <= MaxPool
      /\ binding \in Entry /\ stores \in Entry /\ gateway \in Entry /\ sweep \in Entry /\ use \in Entry
      /\ stores.pool \in 0 .. pools /\ gateway.pool \in 0 .. pools /\ sweep.pool \in 0 .. pools
  BY SMT, TenancyAssumption DEF TnInv, TnTypeOK
<1>1. ASSUME ForCtx
      PROVE  TnInv'
  <2>1. CASE Fresh(gateway)
    <3>1. /\ UNCHANGED <<binding, stores, open, pools, gateway, clk, sweep>>
          /\ use' = [at |-> gateway.at, exp |-> clk, pool |-> gateway.pool]
      BY <1>1, <2>1 DEF ForCtx, Use
    <3>2. use'.exp < use'.at + Session /\ use' \in Entry
      BY SMT, <1>0, <2>1, <3>1, TenancyAssumption DEF Fresh, Entry, TnInv
    <3> QED
      BY <3>1, <3>2 DEF TnInv, TnTypeOK, CredsLive, OnePool
  <2>2. CASE ~Fresh(gateway)
    <3>1. /\ For /\ clk' = clk /\ sweep' = sweep
          /\ gateway' = [at |-> stores'.at, exp |-> clk + CacheTTL, pool |-> stores'.pool]
          /\ use' = [at |-> gateway'.at, exp |-> clk, pool |-> gateway'.pool]
      BY <1>1, <2>2 DEF ForCtx, Use
    <3>2. /\ gateway' \in Entry /\ gateway'.at = stores'.at /\ gateway'.pool = stores'.pool
          /\ gateway'.exp = clk + CacheTTL
          /\ use' \in Entry /\ use'.at = stores'.at /\ use'.exp = clk
      BY SMT, <1>0, <3>1, ForKeeps, TenancyAssumption DEF Entry
    <3>3. CredsLive' /\ gateway'.exp <= gateway'.at + ProviderTTL + 2 * CacheTTL
      BY SMT, <1>0, <3>1, <3>2, ForKeeps, TenancyAssumption DEF CredsLive, Entry
    <3>4. TnTypeOK' /\ OnePool'
      BY SMT, <1>0, <3>1, <3>2, ForKeeps, TenancyAssumption DEF TnInv, TnTypeOK, OnePool, Entry
    <3> QED
      BY <1>0, <3>1, <3>2, <3>3, <3>4, ForKeeps DEF TnInv
  <2> QED
    BY <2>1, <2>2
<1>2. ASSUME SweepBegin
      PROVE  TnInv'
  <2>1. For /\ sweep' = stores' /\ UNCHANGED <<clk, gateway, use>>
    BY <1>2 DEF SweepBegin
  <2>2. TnTypeOK' /\ OnePool'
    BY SMT, <1>0, <2>1, ForKeeps, TenancyAssumption DEF TnInv, TnTypeOK, OnePool, Entry
  <2> QED
    BY <1>0, <2>1, <2>2, ForKeeps DEF TnInv, CredsLive
<1>3. ASSUME Presign
      PROVE  TnInv'
  <2>1. /\ binding' = Binding /\ UNCHANGED <<clk, stores, gateway, sweep, open, pools>>
        /\ use' = [at |-> Binding.at, exp |-> clk, pool |-> 0]
    BY <1>3 DEF Presign
  <2>2. use' \in Entry /\ use'.exp < use'.at + Session
    BY SMT, <1>0, <2>1, BindingFresh DEF Entry
  <2> QED
    BY <2>1, <2>2, BindingFresh DEF TnInv, TnTypeOK, CredsLive, OnePool
<1>4. ASSUME SweepEnd \/ TnClose \/ TnTick
      PROVE  TnInv'
  <2>1. None \in Entry /\ None.at = 0 /\ None.exp = 0 /\ None.pool = 0
    BY SMT DEF None, Entry
  <2>2. CASE SweepEnd
    BY SMT, <1>0, <2>1, <2>2 DEF SweepEnd, TnInv, TnTypeOK, CredsLive, OnePool
  <2>3. CASE TnClose
    BY SMT, <1>0, <2>1, <2>3, TenancyAssumption DEF TnClose, TnInv, TnTypeOK, CredsLive, OnePool
  <2>4. CASE TnTick
    BY SMT, <1>0, <2>4, TenancyAssumption DEF TnTick, TnInv, TnTypeOK, CredsLive, OnePool
  <2> QED
    BY <1>4, <2>2, <2>3, <2>4
<1>5. CASE UNCHANGED tnVars
  BY <1>5 DEF tnVars, TnInv, TnTypeOK, CredsLive, OnePool
<1> QED
  BY <1>1, <1>2, <1>3, <1>4, <1>5 DEF TnNext

----------------------------------------------------------------------------
(* The tenant configuration: with one file, what the poll has merged is     *)
(* what it has parsed.                                                      *)

TcInv ==
    /\ files \in Nat \ {0} /\ TcTypeOK
    /\ poll \in [at : Nat, merged : SUBSET Tenant]
    /\ Valid(cur)
    /\ FileReloadExact
    /\ Single => /\ poll.at = 1 => poll.merged = {}
                 /\ poll.at = 2 => poll.merged = Merged(seen)

\* What a config file lists are tenants.
LEMMA ContentNames == \A c \in Content : c.names \subseteq Tenant
<1> SUFFICES ASSUME NEW c \in Content
             PROVE  c.names \subseteq Tenant
  OBVIOUS
<1>1. CASE c = Broken
  BY <1>1 DEF Broken
<1>2. CASE c \in [ok : {TRUE}, names : SUBSET Tenant]
  BY <1>2
<1> QED
  BY <1>1, <1>2 DEF Content

\* A list that passed validate can be served.
LEMMA ValidServable ==
    ASSUME Valid(cur)
    PROVE  TenantsServable
<1>1. ASSUME NEW a \in cur, NEW b \in cur, <<a, b>> \in Prefix
      PROVE  FALSE
  <2>1. {<<a, b>>[1], <<a, b>>[2]} \subseteq cur
    OBVIOUS
  <2> QED
    BY <1>1, <2>1 DEF Valid
<1> QED
  BY <1>1 DEF Valid, TenantsServable

\* The first load satisfies TcInv.
LEMMA TcInitInv == TcInit => TcInv
<1> SUFFICES ASSUME TcInit
             PROVE  TcInv
  OBVIOUS
<1>1. /\ files \in Nat \ {0} /\ cfg \in [TcFile -> Content] /\ Loads(cfg) /\ seen = cfg /\ sum = cfg
      /\ cur = Merged(cfg) /\ poll = [at |-> 0, merged |-> {}]
  BY TenantConfigAssumption DEF TcInit, NoPoll
<1>2. Merged(cfg) \subseteq Tenant
  BY <1>1, ContentNames DEF Merged
<1> QED
  BY SMT, <1>1, <1>2 DEF TcInv, TcTypeOK, Loads, FileReloadExact

\* Every edit, poll and swap of the tenant list keeps TcInv.
LEMMA TcStepInv == TcInv /\ [TcNext]_tcVars => TcInv'
<1> SUFFICES ASSUME TcInv, [TcNext]_tcVars
             PROVE  TcInv'
  OBVIOUS
<1>0. /\ files' = files /\ (TcFile' = TcFile) /\ (Single' = Single)
      /\ (\A T : Valid(T)' = Valid(T)) /\ files \in Nat \ {0}
  BY DEF TcNext, tcVars, PollBegin, ReadFile, SwapIn, TcEdit, TcFile, Single, Valid, TcInv
<1>1. ASSUME NEW f \in TcFile, NEW c \in Content, TcEdit(f, c)
      PROVE  TcInv'
  <2>1. cfg' \in [TcFile -> Content] /\ UNCHANGED <<files, poll, seen, cur, sum>>
    BY <1>1 DEF TcEdit, TcInv, TcTypeOK
  <2> QED
    BY SMT, <1>0, <2>1 DEF TcInv, TcTypeOK, TcFile, Valid, Merged, Single, FileReloadExact
<1>2. ASSUME PollBegin
      PROVE  TcInv'
  <2>1. poll' = [at |-> 1, merged |-> {}] /\ UNCHANGED <<files, cfg, seen, cur, sum>>
    BY <1>2 DEF PollBegin
  <2> QED
    BY SMT, <1>0, <2>1 DEF TcInv, TcTypeOK, TcFile, Valid, Merged, Single, FileReloadExact
<1>3. ASSUME ReadFile
      PROVE  TcInv'
  <2>1. /\ poll.at \in TcFile /\ UNCHANGED <<files, cfg, cur, sum>>
        /\ seen' = [seen EXCEPT ![poll.at] = cfg[poll.at]]
        /\ \/ poll' = NoPoll
           \/ poll' = [at |-> poll.at + 1, merged |-> poll.merged \cup cfg[poll.at].names]
    BY <1>3 DEF ReadFile
  <2>2. seen' \in [TcFile -> Content] /\ cfg[poll.at].names \subseteq Tenant
    BY <2>1, ContentNames DEF TcInv, TcTypeOK
  <2>3. /\ poll' \in [at : Nat, merged : SUBSET Tenant]
        /\ poll'.at \in 0 .. files + 1 /\ poll'.at # 1
    BY SMT, <1>0, <2>1, <2>2 DEF NoPoll, TcInv, TcTypeOK, TcFile
  <2>4. ASSUME Single, poll'.at = 2
        PROVE  poll'.merged = Merged(seen)'
    <3>0. poll.at = 1 /\ poll.merged = {} /\ 1 \in TcFile
      BY SMT, <2>1, <2>4 DEF TcInv, TcFile, Single
    <3>1. poll'.merged = cfg[1].names /\ seen'[1] = cfg[1]
      <4>1. poll' = [at |-> poll.at + 1, merged |-> poll.merged \cup cfg[poll.at].names]
        BY SMT, <2>1, <2>4 DEF NoPoll
      <4> QED
        BY <2>1, <3>0, <4>1 DEF TcInv, TcTypeOK
    <3>2. (TcFile = {1})'
      BY SMT, <1>0, <2>4 DEF TcFile, Single
    <3>3. Merged(seen)' = UNION {seen'[f].names : f \in {1}}
      BY <3>2 DEF Merged
    <3> QED
      BY <3>1, <3>3
  <2> QED
    BY SMT, <1>0, <2>1, <2>2, <2>3, <2>4 DEF TcInv, TcTypeOK, TcFile, Valid, Merged, Single, FileReloadExact
<1>4. ASSUME SwapIn
      PROVE  TcInv'
  <2>1. /\ poll.at = files + 1 /\ poll' = [at |-> 0, merged |-> {}] /\ UNCHANGED <<files, cfg, seen>>
        /\ \/ Valid(poll.merged) /\ cur' = poll.merged /\ sum' = Hashed
           \/ UNCHANGED <<cur, sum>>
    BY <1>4 DEF SwapIn, NoPoll
  <2>2. Hashed \in [TcFile -> Content]
    BY DEF Hashed, TcInv, TcTypeOK
  <2>3. TcTypeOK' /\ Valid(cur)'
    BY SMT, <1>0, <2>1, <2>2 DEF TcInv, TcTypeOK, TcFile, Valid
  <2>4. FileReloadExact'
    <3>1. CASE UNCHANGED <<cur, sum>>
      BY SMT, <1>0, <2>1, <3>1 DEF TcInv, FileReloadExact, Merged, TcFile, Single
    <3>2. ASSUME Single, cur' = poll.merged, sum' = Hashed
          PROVE  cur' = Merged(sum)'
      <4>1. poll.at = 2
        BY SMT, <2>1, <3>2 DEF Single
      <4>2. cur' = Merged(seen) /\ sum' = seen
        BY <3>2, <4>1 DEF TcInv, Hashed
      <4> QED
        BY <1>0, <4>2 DEF Merged, TcFile
    <3> QED
      BY <1>0, <2>1, <3>1, <3>2 DEF FileReloadExact
  <2> QED
    BY SMT, <1>0, <2>1, <2>3, <2>4 DEF TcInv
<1>5. CASE UNCHANGED tcVars
  BY SMT, <1>0, <1>5 DEF tcVars, TcInv, TcTypeOK, TcFile, Valid, Merged, Single, FileReloadExact
<1> QED
  BY <1>1, <1>2, <1>3, <1>4, <1>5 DEF TcNext

\* However requests, sweeps, presigning and expiries interleave, no request runs
\* on session credentials that have lapsed and no pool of a replaced entry stays
\* open; and however files change while they are polled, the tenants in force
\* are a valid set, with one file the set of the file whose hash is recorded
\* (caching.go, backend.go, tenant_router.go, reload.go).
THEOREM TenantsStaySound == TnSpec /\ TcSpec => []TenantsSound
<1>1. TnSpec => []TnInv
  BY TnInitInv, TnStepInv, PTL DEF TnSpec
<1>2. TcSpec => []TcInv
  BY TcInitInv, TcStepInv, PTL DEF TcSpec
<1>3. TnInv /\ TcInv => TenantsSound
  BY ValidServable DEF TnInv, TcInv, TenantsSound
<1> QED
  BY <1>1, <1>2, <1>3, PTL

----------------------------------------------------------------------------
(* Presigned URLs: no URL outlives the session that signed it, so that what *)
(* is left of it can be read off the expiry it reports; the cache, and the  *)
(* flight after it looked at the cache, hold no URL that had failed before. *)

Url == 1 .. Len(signed)
Lasts(u) == signed[u].exp + NodeLag >= clk + RefreshMargin

Call == [pc : {"idle", "wait", "sign", "send"}, op : {"get", "put"}, url : Nat, tries : Nat,
         since : Nat, known : SUBSET Nat, joined : BOOLEAN]

PcTypes ==
    /\ signed \in Seq([exp : Nat, at : Nat])
    /\ cached \in [url : Url \cup {0}, refreshAt : Int]
    /\ flight \in [pc : {"none", "check", "ask", "done"}, url : Url \cup {0}]
    /\ xfer \in [PcCaller -> Call] /\ failed \subseteq Url

\* Of a call r, with the URLs made, those that failed and the flight.
CallOK(r, urls, dead, fly) ==
    /\ r.url \in 0 .. Len(urls) /\ r.known \subseteq dead
    /\ r.pc = "send" => /\ r.url # 0 /\ urls[r.url].exp + NodeLag >= r.since + RefreshMargin
                        /\ ~r.joined => r.url \notin r.known
    /\ r.pc = "wait" /\ ~r.joined /\ fly.pc = "done" => fly.url \notin r.known

PcInv ==
    /\ TnInv /\ PcTypes
    /\ \A u \in Url : signed[u].exp <= signed[u].at + Session
    /\ cached.url # 0 => /\ cached.refreshAt = signed[cached.url].exp - RefreshMargin
                         /\ cached.url \notin failed
    /\ flight.pc = "done" /\ flight.url # 0 => Lasts(flight.url)
    /\ \A c \in PcCaller : CallOK(xfer[c], signed, failed, flight)

\* An element of a sequence over S is in S.
LEMMA Element ==
    ASSUME NEW S, NEW s \in Seq(S), NEW i \in 1 .. Len(s)
    PROVE  s[i] \in S
  BY SMT

\* A signed URL is well typed, and dies when its signature says.
LEMMA UrlTyped ==
    ASSUME PcInv, NEW u \in Url
    PROVE  /\ signed[u].exp \in Nat /\ signed[u].at \in Nat
           /\ Dies(u) = signed[u].exp
<1>0. signed \in Seq([exp : Nat, at : Nat]) /\ u \in 1 .. Len(signed)
  BY DEF PcInv, PcTypes, Url
<1>1. signed[u] \in [exp : Nat, at : Nat]
  BY <1>0, Element
<1>2. signed[u].exp <= signed[u].at + Session
  BY DEF PcInv
<1> QED
  BY SMT, <1>1, <1>2, TenancyAssumption DEF Dies, Earlier

\* PcInv implies the property the run checks.
LEMMA PcInvSound == PcInv => PresignSound
<1> SUFFICES ASSUME PcInv
             PROVE  PresignSound
  OBVIOUS
<1>1. PcTypeOK
  BY SMT DEF PcInv, PcTypes, PcTypeOK, CallOK, Url, Call
<1>2. ASSUME NEW c \in PcCaller, xfer[c].pc = "send"
      PROVE  /\ Dies(xfer[c].url) + NodeLag >= xfer[c].since + RefreshMargin
             /\ ~xfer[c].joined => xfer[c].url \notin xfer[c].known
  <2>1. CallOK(xfer[c], signed, failed, flight) /\ xfer[c].url \in Url
    BY SMT, <1>2 DEF PcInv, PcTypes, CallOK, Url
  <2> QED
    BY <1>2, <2>1, UrlTyped DEF CallOK
<1> QED
  BY <1>1, <1>2 DEF PresignSound, LifeLeft, DeadNotServed

\* An empty URL cache satisfies PcInv.
LEMMA PcInitInv == PcInit /\ TnInit => PcInv
<1> SUFFICES ASSUME PcInit, TnInit
             PROVE  PcInv
  OBVIOUS
<1>1. signed = <<>> /\ Url = {} /\ failed = {}
  BY SMT DEF PcInit, Url
<1>2. NoCall \in Call /\ NoCall.url = 0 /\ NoCall.pc = "idle" /\ NoCall.known = {}
  BY DEF NoCall, Call
<1>3. PcTypes
  BY SMT, <1>1, <1>2 DEF PcInit, PcTypes, NoCached, NoFlight
<1> QED
  BY SMT, <1>1, <1>2, <1>3, TnInitInv DEF PcInit, PcInv, CallOK, NoCached, NoFlight

\* handlePresign appends one URL that lasts and that the session outlives.
LEMMA PresignKeeps ==
    ASSUME PcInv, HandlePresign
    PROVE  /\ TnInv' /\ clk' = clk
           /\ signed' \in Seq([exp : Nat, at : Nat]) /\ Len(signed') = Len(signed) + 1
           /\ \A u \in Url : signed'[u] = signed[u]
           /\ \A u \in Url' : signed'[u].exp <= signed'[u].at + Session
           /\ signed'[Len(signed')].exp + NodeLag >= clk + RefreshMargin
<1>0. /\ clk \in Nat /\ Binding.at \in Nat /\ clk <= Binding.at + ProviderTTL
      /\ EffectiveTTL \in Nat /\ signed \in Seq([exp : Nat, at : Nat])
  <2>1. TnInv /\ signed \in Seq([exp : Nat, at : Nat])
    BY DEF PcInv, PcTypes
  <2>2. clk \in Nat
    BY SMT, <2>1, TenancyAssumption DEF TnInv, TnTypeOK
  <2>3. EffectiveTTL \in Nat
    BY PresignAssumption DEF EffectiveTTL, Earlier
  <2> QED
    BY <2>1, <2>2, <2>3, BindingFresh DEF Entry
<1>1. Presign /\ signed' = Append(signed, [exp |-> clk + EffectiveTTL, at |-> Binding.at])
  BY DEF HandlePresign
<1>2. TnInv' /\ clk' = clk
  BY <1>1, TnStepInv DEF PcInv, TnNext, Presign
<1>3. /\ signed' \in Seq([exp : Nat, at : Nat]) /\ Len(signed') = Len(signed) + 1
      /\ \A u \in Url : signed'[u] = signed[u]
      /\ signed'[Len(signed')] = [exp |-> clk + EffectiveTTL, at |-> Binding.at]
  BY SMT, <1>0, <1>1 DEF Url
<1>4. clk + EffectiveTTL <= Binding.at + Session
  <2>1. {ProviderTTL, Session} \subseteq Nat /\ Session >= ProviderTTL + EffectiveTTL
    BY TenancyAssumption, PresignAssumption
  <2> QED
    BY SMT, <1>0, <2>1
<1>5. clk + EffectiveTTL + NodeLag >= clk + RefreshMargin
  BY SMT, <1>0, PresignAssumption
<1>6. \A u \in Url' : u \in Url \/ u = Len(signed')
  BY SMT, <1>0, <1>3 DEF Url
<1>7. ASSUME NEW u \in Url'
      PROVE  signed'[u].exp <= signed'[u].at + Session
  BY SMT, <1>3, <1>4, <1>6, <1>7 DEF PcInv
<1> QED
  BY SMT, <1>2, <1>3, <1>5, <1>7

\* URLs and failures are only ever added.
Grows == /\ Url \subseteq Url' /\ \A u \in Url : signed'[u] = signed[u]
         /\ failed \subseteq failed'

\* A call that no step touches keeps what is known of it.
LEMMA CallKept ==
    ASSUME PcInv, Grows, NEW c \in PcCaller, xfer'[c] = xfer[c],
           flight' = flight \/ flight'.pc # "done"
    PROVE  CallOK(xfer'[c], signed', failed', flight')
<1>1. CallOK(xfer[c], signed, failed, flight)
  BY DEF PcInv
<1>2. xfer[c].url = 0 \/ (xfer[c].url \in Url /\ xfer[c].url \in Url' /\ signed'[xfer[c].url] = signed[xfer[c].url])
  BY SMT, <1>1 DEF Grows, CallOK, PcInv, PcTypes, Url
<1>3. xfer[c].url \in 0 .. Len(signed')
  BY SMT, <1>2 DEF Grows, Url, PcInv, PcTypes
<1> QED
  BY <1>1, <1>2, <1>3 DEF Grows, CallOK

\* A caller without a call in progress.
LEMMA NoCallTyped ==
    /\ NoCall \in Call /\ NoCall.pc = "idle" /\ NoCall.url = 0 /\ NoCall.known = {}
  BY DEF NoCall, Call

\* Handing out a URL records it and the time.
LEMMA HandOutTyped ==
    ASSUME NEW r \in Call, NEW u \in Nat, clk \in Nat
    PROVE  /\ HandOut(r, u) \in Call
           /\ HandOut(r, u).pc = "send" /\ HandOut(r, u).url = u /\ HandOut(r, u).since = clk
           /\ HandOut(r, u).known = r.known /\ HandOut(r, u).joined = r.joined
  BY DEF HandOut, Call

\* A URL served from the cache lasts, and had not failed.
LEMMA ServedLasts ==
    ASSUME PcInv, Served
    PROVE  cached.url \in Url /\ cached.url \notin failed /\ Lasts(cached.url)
<1>1. cached.url \in Url /\ cached.url \notin failed
  BY DEF Served, PcInv, PcTypes
<1>2. cached.refreshAt = signed[cached.url].exp - RefreshMargin /\ clk < cached.refreshAt + NodeLag
  BY DEF Served, PcInv
<1>3. clk \in Nat
  BY SMT, TenancyAssumption DEF PcInv, TnInv, TnTypeOK
<1> QED
  BY SMT, <1>1, <1>2, <1>3, UrlTyped, PresignAssumption DEF Lasts

\* A lookup of the URL cache keeps PcInv.
LEMMA GetBlobInv == ASSUME PcInv, NEW c \in PcCaller, RemoteGetBlob(c) PROVE PcInv'
<1>1. /\ UNCHANGED <<cached, signed, failed, tnVars>> /\ xfer[c].pc = "idle"
      /\ UNCHANGED clk /\ Url' = Url /\ TnInv' /\ PcTypes
  <2>1. UNCHANGED <<cached, signed, failed, tnVars>> /\ xfer[c].pc = "idle" /\ TnInv
    BY DEF RemoteGetBlob, PcInv
  <2>2. TnInv'
    BY <2>1, TnStepInv
  <2> QED
    BY <2>1, <2>2 DEF tnVars, Url, PcInv
<1>2. Grows
  BY <1>1 DEF Grows
<1>3. clk \in Nat
  BY SMT, TenancyAssumption DEF PcInv, TnInv, TnTypeOK
<1>4. failed \subseteq Nat /\ Len(signed) \in Nat
  BY SMT, <1>1 DEF PcTypes, Url
<1>5. CASE Served
  <2> DEFINE r == HandOut([NoCall EXCEPT !.known = failed], cached.url)
  <2>1. flight' = flight /\ xfer' = [xfer EXCEPT ![c] = r]
    BY <1>5 DEF RemoteGetBlob
  <2>2. cached.url \in Url /\ cached.url \notin failed /\ Lasts(cached.url)
    BY <1>5, ServedLasts
  <2>3. r \in Call /\ r.pc = "send" /\ r.url = cached.url /\ r.since = clk /\ r.known = failed
    <3>1. [NoCall EXCEPT !.known = failed] \in Call /\ [NoCall EXCEPT !.known = failed].known = failed
      BY <1>4 DEF NoCall, Call
    <3>2. cached.url \in Nat
      BY SMT, <1>4, <2>2 DEF Url
    <3> QED
      BY <1>3, <3>1, <3>2, HandOutTyped
  <2> HIDE DEF r
  <2>4. CallOK(r, signed, failed, flight)
    <3>1. r.url \in 0 .. Len(signed) /\ r.url # 0
      BY SMT, <1>4, <2>2, <2>3 DEF Url
    <3>2. signed[r.url].exp + NodeLag >= r.since + RefreshMargin
      BY <2>2, <2>3 DEF Lasts
    <3>3. r.url \notin r.known /\ r.known \subseteq failed
      BY <2>2, <2>3
    <3> QED
      BY <2>3, <3>1, <3>2, <3>3 DEF CallOK
  <2>5. xfer' \in [PcCaller -> Call] /\ \A d \in PcCaller : CallOK(xfer'[d], signed', failed', flight')
    BY <1>1, <2>1, <2>3, <2>4 DEF PcInv, PcTypes
  <2> QED
    BY <1>1, <2>1, <2>5 DEF PcInv, PcTypes, Lasts
<1>6. CASE ~Served
  <2> DEFINE r == [[NoCall EXCEPT !.known = failed] EXCEPT !.pc = "wait", !.joined = flight.pc # "none"]
  <2>1. /\ xfer' = [xfer EXCEPT ![c] = r]
        /\ flight' = IF flight.pc = "none" THEN [flight EXCEPT !.pc = "check"] ELSE flight
    BY <1>6 DEF RemoteGetBlob
  <2>2. /\ r \in Call /\ r.pc = "wait" /\ r.url = 0 /\ r.known = failed
        /\ r.joined = (flight.pc # "none")
    BY <1>4 DEF NoCall, Call
  <2>3. /\ flight' \in [pc : {"none", "check", "ask", "done"}, url : Url \cup {0}]
        /\ flight' = flight \/ flight'.pc # "done"
        /\ flight.pc = "none" => flight'.pc # "done"
    BY <1>1, <2>1 DEF PcTypes
  <2> HIDE DEF r
  <2>4. CallOK(r, signed', failed', flight')
    <3>1. r.url \in 0 .. Len(signed') /\ r.known \subseteq failed'
      BY SMT, <1>1, <1>4, <2>2
    <3>2. ~r.joined => flight'.pc # "done"
      BY <2>2, <2>3
    <3> QED
      BY <2>2, <3>1, <3>2 DEF CallOK
  <2>5. xfer' \in [PcCaller -> Call] /\ \A d \in PcCaller : CallOK(xfer'[d], signed', failed', flight')
    <3>1. ASSUME NEW d \in PcCaller
          PROVE  CallOK(xfer'[d], signed', failed', flight')
      <4>1. CASE d = c
        BY <1>1, <2>1, <2>4, <4>1 DEF PcTypes
      <4>2. CASE d # c
        <5>1. xfer'[d] = xfer[d]
          BY <1>1, <2>1, <4>2 DEF PcTypes
        <5> QED
          BY <1>2, <2>3, <5>1, CallKept
      <4> QED
        BY <4>1, <4>2
    <3> QED
      BY <1>1, <2>1, <2>2, <3>1 DEF PcTypes
  <2>6. flight'.pc = "done" /\ flight'.url # 0 => Lasts(flight.url)'
    BY <1>1, <2>3 DEF PcInv, Lasts
  <2> QED
    BY <1>1, <2>3, <2>5, <2>6 DEF PcInv, PcTypes
<1> QED
  BY <1>5, <1>6

\* The steps that leave the tenant's stores alone.
LEMMA Still ==
    ASSUME PcInv, UNCHANGED <<signed, tnVars>>
    PROVE  /\ TnInv' /\ clk' = clk /\ clk \in Nat /\ Url' = Url /\ Len(signed) \in Nat /\ PcTypes
           /\ failed \subseteq failed' => Grows
<1>1. TnInv' /\ clk' = clk /\ Url' = Url
  BY TnStepInv DEF PcInv, tnVars, Url
<1>2. clk \in Nat /\ Len(signed) \in Nat /\ PcTypes
  <2>1. TnInv /\ PcTypes
    BY DEF PcInv
  <2>2. clk \in Nat
    BY SMT, <2>1, TenancyAssumption DEF TnInv, TnTypeOK
  <2>3. Len(signed) \in Nat
    BY SMT, <2>1 DEF PcTypes
  <2> QED
    BY <2>1, <2>2, <2>3
<1> QED
  BY <1>1, <1>2 DEF Grows

\* Using a URL, and the retry after a refusal, keep PcInv.
LEMMA TransferInv == ASSUME PcInv, NEW c \in PcCaller, Transfer(c) PROVE PcInv'
<1>1. UNCHANGED <<flight, signed, tnVars>> /\ xfer[c].pc = "send"
  BY DEF Transfer
<1>2. xfer[c] \in Call /\ xfer[c].url \in Url
  <2>1. xfer[c] \in Call /\ CallOK(xfer[c], signed, failed, flight)
    BY DEF PcInv, PcTypes
  <2> QED
    BY SMT, <1>1, <2>1, Still DEF CallOK, Url
<1>3. failed' \in {failed, failed \cup {xfer[c].url}} /\ ((cached' = cached /\ failed' = failed) \/ cached' = NoCached)
  BY DEF Transfer, Fails, InvalidateGetURL
<1>4. xfer' = [xfer EXCEPT ![c] = NoCall] \/ xfer' = [xfer EXCEPT ![c].tries = @ + 1]
  BY DEF Transfer, Fails
<1>5. Grows /\ failed' \subseteq Url
  BY <1>1, <1>2, <1>3, Still DEF PcTypes
<1>6. xfer' \in [PcCaller -> Call] /\ CallOK(xfer'[c], signed', failed', flight')
  <2>1. CASE xfer' = [xfer EXCEPT ![c] = NoCall]
    <3>1. xfer' \in [PcCaller -> Call] /\ xfer'[c] = NoCall
      BY <1>1, <2>1, Still, NoCallTyped DEF PcTypes
    <3> QED
      BY SMT, <1>1, <3>1, Still, NoCallTyped DEF CallOK
  <2>2. CASE xfer' = [xfer EXCEPT ![c].tries = @ + 1]
    <3>1. /\ xfer' \in [PcCaller -> Call] /\ xfer'[c].pc = "send"
          /\ xfer'[c].url = xfer[c].url /\ xfer'[c].since = xfer[c].since
          /\ xfer'[c].known = xfer[c].known /\ xfer'[c].joined = xfer[c].joined
      <4> DEFINE r == [xfer[c] EXCEPT !.tries = @ + 1]
      <4>1. /\ r \in Call /\ r.pc = xfer[c].pc /\ r.url = xfer[c].url /\ r.since = xfer[c].since
            /\ r.known = xfer[c].known /\ r.joined = xfer[c].joined
        BY SMT, <1>2 DEF Call
      <4>2. xfer' = [xfer EXCEPT ![c] = r] /\ xfer \in [PcCaller -> Call]
        BY <1>1, <2>2, Still DEF PcTypes
      <4> HIDE DEF r
      <4> QED
        BY <1>1, <4>1, <4>2
    <3>2. CallOK(xfer[c], signed, failed, flight)
      BY DEF PcInv
    <3> QED
      BY <1>1, <1>5, <3>1, <3>2 DEF CallOK, Grows
  <2> QED
    BY <1>4, <2>1, <2>2
<1>7. ASSUME NEW d \in PcCaller
      PROVE  CallOK(xfer'[d], signed', failed', flight')
  <2>1. CASE d = c
    BY <1>6, <2>1
  <2>2. CASE d # c
    <3>1. xfer'[d] = xfer[d]
      BY <1>1, <1>4, <2>2, Still DEF PcTypes
    <3> QED
      BY <1>1, <1>5, <3>1, CallKept
  <2> QED
    BY <2>1, <2>2
<1>8. PcTypes'
  BY SMT, <1>1, <1>3, <1>5, <1>6, Still DEF PcTypes, NoCached
<1> QED
  BY SMT, <1>1, <1>3, <1>7, <1>8, Still DEF PcInv, NoCached, Lasts

\* Asking for an upload keeps PcInv.
LEMMA PutBlobInv == ASSUME PcInv, NEW c \in PcCaller, RemotePutBlob(c) PROVE PcInv'
<1>1. /\ UNCHANGED <<cached, flight, signed, failed, tnVars>>
      /\ xfer' = [xfer EXCEPT ![c] = [NoCall EXCEPT !.pc = "sign", !.op = "put"]]
  BY DEF RemotePutBlob
<1> DEFINE r == [NoCall EXCEPT !.pc = "sign", !.op = "put"]
<1>2. r \in Call /\ r.pc = "sign" /\ r.url = 0 /\ r.known = {}
  BY DEF NoCall, Call
<1>3. Grows
  BY <1>1, Still
<1> HIDE DEF r
<1>4. CallOK(r, signed', failed', flight')
  BY SMT, <1>1, <1>2, Still DEF CallOK
<1>5. xfer' \in [PcCaller -> Call] /\ xfer' = [xfer EXCEPT ![c] = r]
  BY <1>1, <1>2, Still DEF PcTypes, r
<1>6. ASSUME NEW d \in PcCaller
      PROVE  CallOK(xfer'[d], signed', failed', flight')
  <2>1. CASE d = c
    BY <1>1, <1>4, <1>5, <2>1, Still DEF PcTypes
  <2>2. CASE d # c
    <3>1. xfer'[d] = xfer[d]
      BY <1>1, <1>5, <2>2, Still DEF PcTypes
    <3> QED
      BY <1>1, <1>3, <3>1, CallKept
  <2> QED
    BY <2>1, <2>2
<1> QED
  BY <1>1, <1>5, <1>6, Still DEF PcInv, PcTypes, Lasts

\* An upload that was signed keeps PcInv.
LEMMA PutSignedInv == ASSUME PcInv, NEW c \in PcCaller, PutSigned(c) PROVE PcInv'
<1>1. UNCHANGED <<cached, flight, failed>> /\ xfer[c].pc = "sign" /\ PcTypes /\ clk \in Nat
  BY SMT, TenancyAssumption DEF PutSigned, PcInv, TnInv, TnTypeOK
<1>2. CASE HandlePresign /\ xfer' = [xfer EXCEPT ![c] = HandOut(@, Len(signed'))]
  <2> DEFINE r == HandOut(xfer[c], Len(signed'))
  <2>1. Len(signed') \in Nat /\ Len(signed') = Len(signed) + 1 /\ Len(signed) \in Nat /\ xfer[c] \in Call
    BY SMT, <1>1, <1>2, PresignKeeps DEF PcTypes
  <2>2. /\ r \in Call /\ r.pc = "send" /\ r.url = Len(signed') /\ r.since = clk
        /\ r.known = xfer[c].known
    BY <1>1, <2>1, HandOutTyped
  <2>3. Grows
    BY SMT, <1>1, <1>2, <2>1, PresignKeeps DEF Grows, Url
  <2>4. xfer' = [xfer EXCEPT ![c] = r] /\ xfer \in [PcCaller -> Call]
    BY <1>1, <1>2 DEF PcTypes
  <2> HIDE DEF r
  <2>5. CallOK(r, signed', failed', flight')
    <3>1. r.known \subseteq failed' /\ r.url \notin r.known
      BY SMT, <1>1, <2>1, <2>2 DEF PcInv, PcTypes, CallOK, Url
    <3>2. r.url \in 0 .. Len(signed') /\ r.url # 0
      BY SMT, <2>1, <2>2
    <3>3. signed'[r.url].exp + NodeLag >= r.since + RefreshMargin
      BY <1>2, <2>2, PresignKeeps
    <3> QED
      BY <2>2, <3>1, <3>2, <3>3 DEF CallOK
  <2>6. ASSUME NEW d \in PcCaller
        PROVE  CallOK(xfer'[d], signed', failed', flight')
    <3>1. CASE d = c
      BY <2>4, <2>5, <3>1
    <3>2. CASE d # c
      <4>1. xfer'[d] = xfer[d]
        BY <2>4, <3>2
      <4> QED
        BY <1>1, <2>3, <4>1, CallKept
    <3> QED
      BY <3>1, <3>2
  <2>7. PcTypes'
    BY <1>1, <1>2, <2>1, <2>2, <2>3, <2>4, PresignKeeps DEF PcTypes, Grows
  <2>8. /\ cached'.url # 0 => /\ cached'.refreshAt = signed'[cached'.url].exp - RefreshMargin
                              /\ cached'.url \notin failed'
        /\ flight'.pc = "done" /\ flight'.url # 0 => Lasts(flight.url)'
    BY <1>1, <1>2, <2>3, PresignKeeps DEF PcInv, PcTypes, Grows, Lasts
  <2> QED
    BY <1>2, <2>6, <2>7, <2>8, PresignKeeps DEF PcInv
<1>3. CASE xfer' = [xfer EXCEPT ![c] = NoCall] /\ UNCHANGED <<signed, tnVars>>
  <2>1. xfer' \in [PcCaller -> Call] /\ xfer'[c] = NoCall
    BY <1>1, <1>3, NoCallTyped DEF PcTypes
  <2>2. CallOK(NoCall, signed', failed', flight')
    BY SMT, <1>3, Still, NoCallTyped DEF CallOK
  <2>3. ASSUME NEW d \in PcCaller
        PROVE  CallOK(xfer'[d], signed', failed', flight')
    <3>1. CASE d = c
      BY <2>1, <2>2, <3>1
    <3>2. CASE d # c
      <4>1. xfer'[d] = xfer[d]
        BY <1>1, <1>3, <3>2 DEF PcTypes
      <4> QED
        BY <1>1, <1>3, <4>1, CallKept, Still
    <3> QED
      BY <3>1, <3>2
  <2> QED
    BY <1>1, <1>3, <2>1, <2>3, Still DEF PcInv, PcTypes, Lasts
<1> QED
  BY <1>2, <1>3 DEF PutSigned

\* The flight's second look at the cache keeps PcInv.
LEMMA FlightChecksInv == ASSUME PcInv, FlightChecks PROVE PcInv'
<1>1. UNCHANGED <<cached, xfer, signed, failed, tnVars>> /\ flight.pc = "check"
  BY DEF FlightChecks
<1>2. CASE Served
  <2>1. flight' = [pc |-> "done", url |-> cached.url]
    BY <1>2 DEF FlightChecks
  <2>2. cached.url \in Url /\ cached.url \notin failed /\ Lasts(cached.url)
    BY <1>2, ServedLasts
  <2>3. ASSUME NEW c \in PcCaller
        PROVE  CallOK(xfer'[c], signed', failed', flight')
    <3>1. CallOK(xfer[c], signed, failed, flight)
      BY DEF PcInv
    <3>2. flight'.url \notin xfer[c].known
      BY <2>1, <2>2, <3>1 DEF CallOK
    <3> QED
      BY <1>1, <3>1, <3>2 DEF CallOK
  <2> QED
    BY <1>1, <2>1, <2>2, <2>3, Still DEF PcInv, PcTypes, Lasts
<1>3. CASE ~Served
  <2>1. flight' = [flight EXCEPT !.pc = "ask"]
    BY <1>3 DEF FlightChecks
  <2>2. flight' \in [pc : {"none", "check", "ask", "done"}, url : Url \cup {0}] /\ flight'.pc = "ask"
    BY <2>1 DEF PcInv, PcTypes
  <2>3. \A c \in PcCaller : CallOK(xfer'[c], signed', failed', flight')
    BY <1>1, <2>2, Still, CallKept
  <2> QED
    BY <1>1, <2>2, <2>3, Still DEF PcInv, PcTypes
<1> QED
  BY <1>2, <1>3

\* The flight's request to the control plane keeps PcInv.
LEMMA FlightAsksInv == ASSUME PcInv, FlightAsks PROVE PcInv'
<1>1. UNCHANGED <<xfer, failed>> /\ flight.pc = "ask" /\ PcTypes
  BY DEF FlightAsks, PcInv
<1>2. CASE /\ HandlePresign /\ flight' = [pc |-> "done", url |-> Len(signed')]
           /\ cached' = [url |-> Len(signed'), refreshAt |-> RefreshAt(signed'[Len(signed')].exp)]
  <2>1. Len(signed') \in Nat /\ Len(signed') = Len(signed) + 1 /\ Len(signed) \in Nat
    BY SMT, <1>1, <1>2, PresignKeeps DEF PcTypes
  <2>2. Grows /\ Len(signed') \in Url' /\ Len(signed') \notin failed
    <3>1. Len(signed') \in Url' /\ Len(signed') \notin Url /\ Url \subseteq Url'
      BY SMT, <2>1 DEF Url
    <3> QED
      BY <1>1, <1>2, <3>1, PresignKeeps DEF Grows, PcTypes
  <2>3. /\ flight'.url = Len(signed') /\ cached'.url = Len(signed')
        /\ cached'.refreshAt = signed'[Len(signed')].exp - RefreshMargin
    BY <1>2 DEF RefreshAt
  <2>4. ASSUME NEW c \in PcCaller
        PROVE  CallOK(xfer'[c], signed', failed', flight')
    <3>1. CallOK(xfer[c], signed, failed, flight)
      BY DEF PcInv
    <3>2. flight'.url \notin xfer[c].known
      BY <2>2, <2>3, <3>1 DEF CallOK
    <3>3. xfer[c].url = 0 \/ (xfer[c].url \in Url /\ signed'[xfer[c].url] = signed[xfer[c].url])
      BY SMT, <1>1, <2>2, <3>1 DEF Grows, CallOK, PcTypes, Url
    <3>4. xfer[c].url \in 0 .. Len(signed')
      BY SMT, <2>1, <3>1 DEF CallOK
    <3> QED
      BY <1>1, <3>1, <3>2, <3>3, <3>4 DEF CallOK
  <2>5. signed'[Len(signed')].exp \in Nat
    <3>1. signed'[Len(signed')] \in [exp : Nat, at : Nat]
      BY <1>2, <2>2, PresignKeeps, Element DEF Url
    <3> QED
      BY <3>1
  <2>6. PcTypes'
    <3>1. cached' \in [url : Url' \cup {0}, refreshAt : Int]
      BY SMT, <1>2, <2>2, <2>5, PresignAssumption DEF RefreshAt
    <3>2. flight' \in [pc : {"none", "check", "ask", "done"}, url : Url' \cup {0}]
      BY <1>2, <2>2
    <3> QED
      BY <1>1, <1>2, <2>2, <3>1, <3>2, PresignKeeps DEF PcTypes, Grows
  <2>7. Lasts(flight.url)'
    BY <1>2, <2>3, PresignKeeps DEF Lasts
  <2> QED
    BY <1>1, <1>2, <2>2, <2>3, <2>4, <2>6, <2>7, PresignKeeps DEF PcInv
<1>3. CASE flight' = [pc |-> "done", url |-> 0] /\ UNCHANGED <<cached, signed, tnVars>>
  <2>1. ASSUME NEW c \in PcCaller
        PROVE  CallOK(xfer'[c], signed', failed', flight')
    <3>1. CallOK(xfer[c], signed, failed, flight) /\ 0 \notin failed
      BY SMT, <1>1 DEF PcInv, PcTypes, Url
    <3>2. flight'.url \notin xfer[c].known
      BY <1>3, <3>1 DEF CallOK
    <3> QED
      BY <1>1, <1>3, <3>1, <3>2 DEF CallOK
  <2> QED
    BY <1>1, <1>3, <2>1, Still DEF PcInv, PcTypes
<1> QED
  BY <1>2, <1>3 DEF FlightAsks

\* The flight's answer to everyone who joined it keeps PcInv.
LEMMA FlightReturnsInv == ASSUME PcInv, FlightReturns PROVE PcInv'
<1>1. /\ UNCHANGED <<cached, signed, failed, tnVars>> /\ flight.pc = "done"
      /\ flight' = [pc |-> "none", url |-> 0] /\ PcTypes
      /\ xfer' = [c \in PcCaller |->
                    IF xfer[c].pc # "wait" THEN xfer[c]
                    ELSE IF flight.url = 0 THEN NoCall ELSE HandOut(xfer[c], flight.url)]
  BY DEF FlightReturns, NoFlight, PcInv
<1>2. ASSUME NEW c \in PcCaller
      PROVE  xfer'[c] \in Call /\ CallOK(xfer'[c], signed', failed', flight')
  <2>1. CallOK(xfer[c], signed, failed, flight) /\ xfer[c] \in Call
    BY DEF PcInv, PcTypes
  <2>2. CASE xfer[c].pc # "wait"
    BY <1>1, <2>1, <2>2 DEF CallOK
  <2>3. CASE xfer[c].pc = "wait" /\ flight.url = 0
    BY SMT, <1>1, <2>3, NoCallTyped, Still DEF CallOK
  <2>4. CASE xfer[c].pc = "wait" /\ flight.url # 0
    <3> DEFINE r == HandOut(xfer[c], flight.url)
    <3>1. flight.url \in Url /\ Lasts(flight.url) /\ flight.url \in Nat
      BY SMT, <1>1, <2>4, Still DEF PcInv, PcTypes, Url
    <3>2. /\ r \in Call /\ r.pc = "send" /\ r.url = flight.url /\ r.since = clk
          /\ r.known = xfer[c].known /\ r.joined = xfer[c].joined
      BY <1>1, <2>1, <3>1, HandOutTyped, Still
    <3>3. xfer'[c] = r
      BY <1>1, <2>4
    <3> HIDE DEF r
    <3>4. r.url \in 0 .. Len(signed) /\ r.url # 0 /\ signed[r.url].exp + NodeLag >= r.since + RefreshMargin
      BY SMT, <2>4, <3>1, <3>2 DEF Lasts, Url
    <3>5. r.known \subseteq failed /\ (~r.joined => r.url \notin r.known)
      BY <1>1, <2>1, <2>4, <3>2 DEF CallOK
    <3> QED
      BY <1>1, <3>2, <3>3, <3>4, <3>5 DEF CallOK
  <2> QED
    BY <2>2, <2>3, <2>4
<1>3. xfer' \in [PcCaller -> Call]
  BY <1>1, <1>2
<1> QED
  BY <1>1, <1>2, <1>3, Still DEF PcInv, PcTypes

\* Other clients' presigns and the passing of time keep PcInv.
LEMMA BlobgwInv == ASSUME PcInv, OtherPresign \/ PcTick PROVE PcInv'
<1>0. UNCHANGED nodeVars /\ (Presign \/ (TnTick /\ flight.pc # "done"))
  BY Zenon DEF OtherPresign, PcTick
<1>1. UNCHANGED nodeVars /\ (Presign \/ (TnTick /\ flight.pc # "done")) /\ Url' = Url
  BY <1>0 DEF nodeVars, Url
<1>2. TnInv'
  BY <1>1, TnStepInv DEF PcInv, TnNext
<1>3. flight.pc = "done" => clk' = clk
  BY <1>1 DEF Presign
<1> QED
  BY <1>1, <1>2, <1>3 DEF nodeVars, PcInv, PcTypes, Lasts

\* Every step of the presigned-URL path keeps PcInv.
LEMMA PcStepInv == PcInv /\ [PcNext]_pcVars => PcInv'
<1> SUFFICES ASSUME PcInv, [PcNext]_pcVars
             PROVE  PcInv'
  OBVIOUS
<1>1. CASE UNCHANGED pcVars
  BY <1>1, Still DEF pcVars, nodeVars, PcInv, PcTypes, Lasts
<1> QED
  BY <1>1, GetBlobInv, TransferInv, PutBlobInv, PutSignedInv, FlightChecksInv, FlightAsksInv,
     FlightReturnsInv, BlobgwInv DEF PcNext

\* Every URL a node is handed works for the refresh margin, less the lag of its
\* clock, whatever session signed it and however long the caller waited; and a
\* URL that failed is not handed to a read that begins its own flight later
\* (cachedGetURL, invalidateGetURL, handlePresign).
THEOREM PresignStaysSound == PcSpec => []PresignSound
<1>1. PcSpec => []PcInv
  BY PcInitInv, PcStepInv, PTL DEF PcSpec
<1> QED
  BY <1>1, PcInvSound, PTL

=============================================================================
