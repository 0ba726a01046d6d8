------------------------------ MODULE SweepGC ------------------------------
(***************************************************************************)
(* Mark-and-sweep collection of one domain (ChunkedGC), racing Puts,       *)
(* deletions and RegisterRef calls that bind existing packs to a new key.  *)
(*                                                                         *)
(* Time is discrete.  age[p] is the age of pack blob p, saturating at the  *)
(* safety window: all that sweepOrphan asks of it.  A Put and a pass are   *)
(* given a longest duration, because the window is meant to outlast them.  *)
(* Keys are written once (slices, refs); a context stands for its key.     *)
(***************************************************************************)
EXTENDS PackStore

CONSTANTS
    Window,   \* ChunkedGC.SafetyWindow
    MaxPut,   \* longest time from the first upload of a Put to its manifest
    MaxPass,  \* longest time from the live set of a pass to its last deletion
    UseAssoc  \* ChunkedGC.Assoc is set and the domain is backfilled

ASSUME TimesAssumption ==
    /\ Window \in Nat \ {0} /\ MaxPut \in Nat /\ MaxPass \in Nat
    /\ MaxPut + MaxPass < Window
    /\ UseAssoc \in BOOLEAN

\* Marks on calls and marks on keys share one set.
ASSUME NamesAssumption == Writer \cap Context = {} /\ NoContext \notin Writer

VARIABLES
    age,                 \* age of every pack blob
    busy,                \* time since each Put started
    made,                \* packs each Put really created (PutIfAbsent wrote them)
    racy,                \* history: Puts and keys that relied on an orphan pack
    gpc, glive, gseen,   \* the pass: control point, live set, blobs visited
    gcur, gtime,         \* pack being reclaimed, time since the live set
    bpc, bctx, brefs     \* the RegisterRef call: control point, key, chunk list

sweepVars == <<gpc, glive, gseen, gcur, gtime>>
bridgeVars == <<bpc, bctx, brefs>>
timeVars == <<age, busy, made, racy>>
vars == <<storeVars, writerVars, faults, timeVars, sweepVars, bridgeVars>>

TypeOK ==
    /\ PSTypeOK
    /\ age \in [Pack -> 0 .. Window]
    /\ busy \in [Writer -> 0 .. MaxPut]
    /\ made \in [Writer -> SUBSET Pack]
    /\ racy \subseteq Writer \union Context
    /\ gpc \in {"idle", "sweep", "purge", "delete"}
    /\ glive \subseteq Pack /\ gseen \subseteq Pack /\ gcur \in Loc
    /\ gtime \in 0 .. MaxPass
    /\ bpc \in {"idle", "validate", "write"}
    /\ bctx \in Context \union {NoContext}
    /\ brefs \in [Chunk -> Loc]

Init ==
    /\ PSInit
    /\ age = [p \in Pack |-> 0]
    /\ busy = [w \in Writer |-> 0]
    /\ made = [w \in Writer |-> {}]
    /\ racy = {}
    /\ gpc = "idle" /\ glive = {} /\ gseen = {} /\ gcur = NoPack /\ gtime = 0
    /\ bpc = "idle" /\ bctx = NoContext /\ brefs = [c \in Chunk |-> NoPack]

Referenced(p) == \E m \in manifests : p \in PacksOf(m.refs)
KeyFree(x) ==
    /\ \A m \in manifests : m.ctx # x
    /\ \A w \in Writer : wctx[w] # x
    /\ bctx # x

----------------------------------------------------------------------------
(* Puts, with the age of what they upload.                                  *)

\* A call relies on packs it did not create; that is safe only while they are
\* pinned by manifests that are safe themselves.
Pinned == UNION {PacksOf(m.refs) : m \in {n \in manifests : n.ctx \notin racy}}
Relies(call, ps) == racy' = IF ps \subseteq Pinned THEN racy ELSE racy \union {call}

PutBegins(w) ==
    \E x \in Context, obj \in Objects :
        /\ KeyFree(x)
        /\ Begin(w, x, obj)
        /\ UNCHANGED <<timeVars, sweepVars, bridgeVars>>

PutEmits(w) ==
    /\ \E c \in Chunk :
        /\ Emit(w, c)
        /\ IF LookupHit(c) /\ index[c] \notin made[w] THEN Relies(w, {index[c]}) ELSE UNCHANGED racy
    /\ UNCHANGED <<age, busy, made, sweepVars, bridgeVars>>

\* PutIfAbsent leaves an existing blob, and its timestamp, alone.
PutFlushes(w) ==
    /\ Flush(w)
    /\ IF buf[w] \in blobs
       THEN Relies(w, {buf[w]}) /\ UNCHANGED <<age, made>>
       ELSE /\ age' = [age EXCEPT ![buf[w]] = 0]
            /\ made' = [made EXCEPT ![w] = @ \union {buf[w]}]
            /\ UNCHANGED racy
    /\ UNCHANGED <<busy, sweepVars, bridgeVars>>

PutCommits(w) ==
    /\ Record(w) \/ Associate(w)
    /\ UNCHANGED <<timeVars, sweepVars, bridgeVars>>

PutEnds(w) ==
    /\ \/ WriteManifest(w) /\ racy' = IF w \in racy THEN (racy \ {w}) \union {wctx[w]} ELSE racy
       \/ PutFails(w) /\ racy' = racy \ {w}
    /\ busy' = [busy EXCEPT ![w] = 0]
    /\ made' = [made EXCEPT ![w] = {}]
    /\ UNCHANGED <<age, sweepVars, bridgeVars>>

\* Gateway.Delete and CasStore.Remove: every version of a key goes.  This may orphan
\* packs that calls in progress rely on: those are exposed when `kept` stays pinned.
PinnedWithout(x) == UNION {PacksOf(m.refs) : m \in {n \in manifests : n.ctx \notin racy \union {x}}}
Exposed(kept) ==
    {w \in Writer : PacksOf(refs[w]) \ (made[w] \union kept) # {}}
      \union {y \in {bctx} \ {NoContext} : PacksOf(brefs) \ kept # {}}

KeyDeleted(x) ==
    /\ \E m \in manifests : m.ctx = x
    /\ manifests' = {m \in manifests : m.ctx # x}
    /\ racy' = (racy \ {x}) \union Exposed(PinnedWithout(x))
    /\ UNCHANGED <<blobs, index, pstate, assoc, writerVars, faults, age, busy, made, sweepVars, bridgeVars>>

----------------------------------------------------------------------------
(* RegisterRef: bind the chunks of an existing manifest to a new key.       *)

\* The coordinator reads the source's chunk list (ManifestChunks).
RegisterReads(m, x) ==
    /\ bpc = "idle" /\ KeyFree(x)
    /\ bctx' = x /\ brefs' = m.refs
    /\ bpc' = "validate"
    /\ Relies(x, PacksOf(m.refs))
    /\ UNCHANGED <<storeVars, writerVars, faults, age, busy, made, sweepVars>>

BridgeReturns ==
    /\ bpc' = "idle" /\ bctx' = NoContext
    /\ brefs' = [c \in Chunk |-> NoPack]

\* validateAndNormaliseChunks: every chunk must be in the index, at this place.
ChunksValid == \A c \in Chunk : brefs[c] # NoPack => index[c] = brefs[c] /\ pstate[index[c]] = "stored"

RegisterValidates ==
    /\ bpc = "validate"
    /\ IF ChunksValid
       THEN bpc' = "write" /\ UNCHANGED <<bctx, brefs, racy>>
       ELSE BridgeReturns /\ racy' = racy \ {bctx}
    /\ UNCHANGED <<storeVars, writerVars, faults, age, busy, made, sweepVars>>

\* RegisterManifest writes the manifest and associates nothing.
RegisterWrites ==
    /\ bpc = "write"
    /\ manifests' = manifests \union {[ctx |-> bctx, refs |-> brefs, own |-> TRUE]}
    /\ BridgeReturns
    /\ UNCHANGED <<blobs, index, pstate, assoc, writerVars, faults, timeVars, sweepVars>>

----------------------------------------------------------------------------
(* The collector.                                                           *)

\* liveSet: what the manifests reference, or what has an association.
LiveSet_Indexed == {p \in Pack : Referenced(p) \/ \E c \in Chunk : index[c] = p}
LiveSet ==
    IF UseAssoc THEN {p \in Pack : Associated(p)} ELSE {p \in Pack : Referenced(p)}

GCMarks ==
    /\ gpc = "idle"
    /\ glive' = LiveSet
    /\ gpc' = "sweep" /\ gseen' = {} /\ gtime' = 0
    /\ UNCHANGED <<gcur, storeVars, writerVars, faults, timeVars, bridgeVars>>

\* sweepOrphan up to its early returns.
Reclaimable_AnyAge(p) == p \notin glive
Reclaimable(p) == p \notin glive /\ age[p] >= Window

GCVisits(p) ==
    /\ gpc = "sweep"
    /\ p \in blobs \ gseen
    /\ gseen' = gseen \union {p}
    /\ IF Reclaimable(p) THEN gpc' = "purge" /\ gcur' = p ELSE UNCHANGED <<gpc, gcur>>
    /\ UNCHANGED <<glive, gtime, storeVars, writerVars, faults, timeVars, bridgeVars>>

GCPurges ==
    /\ gpc = "purge"
    /\ index' = [c \in Chunk |-> IF index[c] = gcur THEN NoPack ELSE index[c]]
    /\ gpc' = "delete"
    /\ UNCHANGED <<gcur, glive, gseen, gtime, blobs, pstate, assoc, manifests, writerVars, faults,
                   timeVars, bridgeVars>>

GCDeletes ==
    /\ gpc = "delete"
    /\ blobs' = blobs \ {gcur}
    /\ gpc' = "sweep" /\ gcur' = NoPack
    /\ UNCHANGED <<glive, gseen, gtime, index, pstate, assoc, manifests, writerVars, faults,
                   timeVars, bridgeVars>>

\* A failed purge or delete is counted and the sweep goes on.
GCSkips ==
    /\ gpc \in {"purge", "delete"}
    /\ faults < MaxFaults
    /\ faults' = faults + 1
    /\ gpc' = "sweep" /\ gcur' = NoPack
    /\ UNCHANGED <<glive, gseen, gtime, storeVars, writerVars, timeVars, bridgeVars>>

GCEnds ==
    /\ gpc = "sweep" /\ blobs \subseteq gseen
    /\ gpc' = "idle" /\ glive' = {} /\ gseen' = {} /\ gtime' = 0
    /\ UNCHANGED <<gcur, storeVars, writerVars, faults, timeVars, bridgeVars>>

\* Cancelled, or the replica died.
GCDies ==
    /\ gpc # "idle"
    /\ faults < MaxFaults
    /\ faults' = faults + 1
    /\ gpc' = "idle" /\ glive' = {} /\ gseen' = {} /\ gtime' = 0 /\ gcur' = NoPack
    /\ UNCHANGED <<storeVars, writerVars, timeVars, bridgeVars>>

GCStep == GCMarks \/ (\E p \in Pack : GCVisits(p)) \/ GCPurges \/ GCDeletes \/ GCEnds

----------------------------------------------------------------------------
Older(p) == IF p \in blobs /\ age[p] < Window THEN age[p] + 1 ELSE age[p]

Tick ==
    /\ \A w \in Writer : wpc[w] # "idle" => busy[w] < MaxPut
    /\ gpc # "idle" => gtime < MaxPass
    /\ age' = [p \in Pack |-> Older(p)]
    /\ busy' = [w \in Writer |-> IF wpc[w] = "idle" THEN 0 ELSE busy[w] + 1]
    /\ gtime' = IF gpc = "idle" THEN 0 ELSE gtime + 1
    /\ UNCHANGED <<made, racy, gpc, glive, gseen, gcur, storeVars, writerVars, faults, bridgeVars>>

PutActs(w) == PutBegins(w) \/ PutEmits(w) \/ PutFlushes(w) \/ PutCommits(w) \/ PutEnds(w)

Next ==
    \/ \E w \in Writer : PutActs(w)
    \/ \E x \in Context : KeyDeleted(x) \/ \E m \in manifests : RegisterReads(m, x)
    \/ RegisterValidates \/ RegisterWrites
    \/ GCStep \/ GCSkips \/ GCDies
    \/ Tick

Spec == Init /\ [][Next]_vars

\* Time passes, passes are started and run, Puts that started go on.
LiveSpec ==
    /\ Spec
    /\ WF_vars(Tick) /\ WF_vars(GCStep)
    /\ \A w \in Writer : WF_vars(PutEmits(w) \/ PutFlushes(w) \/ PutCommits(w) \/ PutEnds(w))
    /\ WF_vars(RegisterValidates \/ RegisterWrites)

----------------------------------------------------------------------------
\* An object stays readable through any number of passes, as long as no pack it
\* relied on was an orphan between the moment its Put (or RegisterRef) took it and
\* the moment the manifest was written: what the live set and the window promise.
CoveredReadable ==
    \A m \in manifests : m.ctx \notin racy => PacksOf(m.refs) \subseteq blobs

\* What a Put in progress has uploaded itself is not collected under it, although
\* no manifest references it yet (the window outlasts the Put).
UploadsKept == \A w \in Writer : made[w] \subseteq blobs

\* Orphans do not accumulate: a pack that nothing uses is collected in the end, or
\* used again.
InUse(p) == Referenced(p) \/ \E w \in Writer : p \in PacksOf(refs[w])
OrphansCollected == \A p \in Pack : (p \in blobs /\ ~InUse(p)) ~> (p \notin blobs \/ InUse(p))

\* What a collection pass may not do: an object that was covered throughout
\* stays readable, and the packs a Put in progress made stay (RunOnceForDomain).
SweepSpares == TypeOK /\ CoveredReadable /\ UploadsKept

============================================================================
