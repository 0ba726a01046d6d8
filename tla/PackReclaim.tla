---------------------------- MODULE PackReclaim ----------------------------
(***************************************************************************)
(* Mark-based reclamation of an owner context (PackReclaimer) running      *)
(* against concurrent Puts, over the in-memory association store.          *)
(***************************************************************************)
EXTENDS PackStore

CONSTANT Reclaimer  \* concurrent ObliterateContext calls

VARIABLES
    rpc, rctx,  \* control point and context of each call
    cand,       \* candidates still to mark
    marked,     \* packs this call marked and has not finished
    cur         \* the pack finish is working on

reclaimVars == <<rpc, rctx, cand, marked, cur>>
vars == <<storeVars, writerVars, faults, reclaimVars>>

TypeOK ==
    /\ PSTypeOK
    /\ rpc \in [Reclaimer -> {"idle", "mark", "finish", "release", "purge", "purgerow", "delete"}]
    /\ rctx \in [Reclaimer -> Context \union {NoContext}]
    /\ cand \in [Reclaimer -> SUBSET Pack]
    /\ marked \in [Reclaimer -> SUBSET Pack]
    /\ cur \in [Reclaimer -> Loc]

Init ==
    /\ PSInit
    /\ rpc = [r \in Reclaimer |-> "idle"]
    /\ rctx = [r \in Reclaimer |-> NoContext]
    /\ cand = [r \in Reclaimer |-> {}]
    /\ marked = [r \in Reclaimer |-> {}]
    /\ cur = [r \in Reclaimer |-> NoPack]

----------------------------------------------------------------------------
\* DropContext: every association of x goes; what x referenced is returned.
Disown(m, x) == IF m.ctx = x THEN [m EXCEPT !.own = FALSE] ELSE m

DropContext(x) ==
    /\ assoc' = {a \in assoc : a[1] # x}
    /\ manifests' = {Disown(m, x) : m \in manifests}
    /\ own' = [w \in Writer |-> own[w] /\ wctx[w] # x]

PutUnchanged == UNCHANGED <<wpc, wctx, todo, buf, refs, packed, puts>>

\* Step 1 of ObliterateContext.
Drop(r, x) ==
    /\ rpc[r] = "idle"
    /\ \E p \in Pack : <<x, p>> \in assoc
    /\ DropContext(x)
    /\ cand' = [cand EXCEPT ![r] = {p \in Pack : <<x, p>> \in assoc}]
    /\ rctx' = [rctx EXCEPT ![r] = x]
    /\ rpc' = [rpc EXCEPT ![r] = "mark"]
    /\ UNCHANGED <<blobs, index, pstate, faults, marked, cur>> /\ PutUnchanged

\* Step 2, one candidate: MarkObliterating is won only from "stored".
MarkWins_AnyState(p) == TRUE
MarkWins(p) == pstate[p] = "stored"

Mark(r, p) ==
    /\ rpc[r] = "mark" /\ p \in cand[r]
    /\ cand' = [cand EXCEPT ![r] = @ \ {p}]
    /\ IF MarkWins(p)
       THEN /\ pstate' = [pstate EXCEPT ![p] = "obliterating"]
            /\ marked' = [marked EXCEPT ![r] = @ \union {p}]
       ELSE UNCHANGED <<pstate, marked>>
    /\ UNCHANGED <<blobs, index, assoc, manifests, writerVars, faults, rpc, rctx, cur>>

\* Steps 3 and 4: drop again; the drain interval is any delay.
DropAgain_Returns(r) ==
    /\ rpc[r] = "mark" /\ cand[r] = {}
    /\ DropContext(rctx[r])
    /\ rpc' = [rpc EXCEPT ![r] = "idle"]
    /\ rctx' = [rctx EXCEPT ![r] = NoContext]
    /\ marked' = [marked EXCEPT ![r] = {}]
    /\ UNCHANGED <<blobs, index, pstate, faults, cand, cur>> /\ PutUnchanged
DropAgain(r) ==
    /\ rpc[r] = "mark" /\ cand[r] = {}
    /\ DropContext(rctx[r])
    /\ rpc' = [rpc EXCEPT ![r] = "finish"]
    /\ UNCHANGED <<blobs, index, pstate, faults, rctx, cand, marked, cur>> /\ PutUnchanged

\* Step 5, one pack: the association re-check and the transition are atomic.
MayObliterate_NoRecheck(p) == pstate[p] = "obliterating"
MayObliterate(p) == pstate[p] = "obliterating" /\ ~Associated(p)

CommitObliterated(r, p) ==
    /\ rpc[r] = "finish" /\ p \in marked[r]
    /\ marked' = [marked EXCEPT ![r] = @ \ {p}]
    /\ cur' = [cur EXCEPT ![r] = p]
    /\ IF MayObliterate(p)
       THEN /\ pstate' = [pstate EXCEPT ![p] = "obliterated"]
            /\ rpc' = [rpc EXCEPT ![r] = "purge"]
       ELSE /\ rpc' = [rpc EXCEPT ![r] = "release"]
            /\ UNCHANGED pstate
    /\ UNCHANGED <<blobs, index, assoc, manifests, writerVars, faults, rctx, cand>>

Released(s) == IF s = "obliterating" THEN "stored" ELSE s

ReleaseMark(r) ==
    /\ rpc[r] = "release"
    /\ pstate' = [pstate EXCEPT ![cur[r]] = Released(@)]
    /\ rpc' = [rpc EXCEPT ![r] = "finish"]
    /\ cur' = [cur EXCEPT ![r] = NoPack]
    /\ UNCHANGED <<blobs, index, assoc, manifests, writerVars, faults, rctx, cand, marked>>

\* Step 6: the index entries first, then the bytes.
PurgePacks_ErasesState(r) ==
    /\ rpc[r] = "purge"
    /\ index' = [c \in Chunk |-> IF index[c] = cur[r] THEN NoPack ELSE index[c]]
    /\ pstate' = [pstate EXCEPT ![cur[r]] = "stored"]
    /\ rpc' = [rpc EXCEPT ![r] = "delete"]
    /\ UNCHANGED <<blobs, assoc, manifests, writerVars, faults, rctx, cand, marked, cur>>
PurgePacks(r) ==
    /\ rpc[r] = "purge"
    /\ index' = [c \in Chunk |-> IF index[c] = cur[r] THEN NoPack ELSE index[c]]
    /\ rpc' = [rpc EXCEPT ![r] = "delete"]
    /\ UNCHANGED <<blobs, pstate, assoc, manifests, writerVars, faults, rctx, cand, marked, cur>>

DeleteBlob(r) ==
    /\ rpc[r] = "delete"
    /\ blobs' = blobs \ {cur[r]}
    /\ rpc' = [rpc EXCEPT ![r] = "finish"]
    /\ cur' = [cur EXCEPT ![r] = NoPack]
    /\ UNCHANGED <<index, pstate, assoc, manifests, writerVars, faults, rctx, cand, marked>>

Return(r) ==
    /\ rpc[r] = "finish" /\ marked[r] = {}
    /\ rpc' = [rpc EXCEPT ![r] = "idle"]
    /\ rctx' = [rctx EXCEPT ![r] = NoContext]
    /\ UNCHANGED <<storeVars, writerVars, faults, cand, marked, cur>>

\* A store call fails: the pack is counted in PacksSkippedError and the call goes
\* on with the next one (a failure of the second DropContext is only logged).
Skip ==
    /\ faults < MaxFaults
    /\ faults' = faults + 1

SkipMark(r, p) ==
    /\ rpc[r] = "mark" /\ p \in cand[r]
    /\ Skip
    /\ cand' = [cand EXCEPT ![r] = @ \ {p}]
    /\ UNCHANGED <<storeVars, writerVars, rpc, rctx, marked, cur>>

SkipCommit(r, p) ==
    /\ rpc[r] = "finish" /\ p \in marked[r]
    /\ Skip
    /\ marked' = [marked EXCEPT ![r] = @ \ {p}]
    /\ UNCHANGED <<storeVars, writerVars, rpc, rctx, cand, cur>>

SkipFinish(r) ==
    /\ rpc[r] \in {"release", "purge", "delete"}
    /\ Skip
    /\ rpc' = [rpc EXCEPT ![r] = "finish"]
    /\ cur' = [cur EXCEPT ![r] = NoPack]
    /\ UNCHANGED <<storeVars, writerVars, rctx, cand, marked>>

DropAgainFails(r) ==
    /\ rpc[r] = "mark" /\ cand[r] = {}
    /\ faults < MaxFaults
    /\ faults' = faults + 1
    /\ rpc' = [rpc EXCEPT ![r] = "finish"]
    /\ UNCHANGED <<storeVars, writerVars, rctx, cand, marked, cur>>

\* The packs a call has marked or is finishing.
Held(r) == marked[r] \union ({cur[r]} \ {NoPack})

\* The call is cancelled or its process dies: marks it placed stay.
ReclaimDies(r) ==
    /\ rpc[r] # "idle"
    /\ faults < MaxFaults
    /\ faults' = faults + 1
    /\ rpc' = [rpc EXCEPT ![r] = "idle"]
    /\ marked' = [marked EXCEPT ![r] = {}]
    /\ cand' = [cand EXCEPT ![r] = {}]
    /\ cur' = [cur EXCEPT ![r] = NoPack]
    /\ rctx' = [rctx EXCEPT ![r] = NoContext]
    /\ UNCHANGED <<storeVars, writerVars>>

----------------------------------------------------------------------------
ReclaimStep(r) ==
    \/ \E p \in Pack : Mark(r, p) \/ CommitObliterated(r, p)
    \/ DropAgain(r) \/ ReleaseMark(r) \/ PurgePacks(r) \/ DeleteBlob(r) \/ Return(r)

ReclaimFault(r) ==
    \/ \E p \in Pack : SkipMark(r, p) \/ SkipCommit(r, p)
    \/ SkipFinish(r) \/ DropAgainFails(r) \/ ReclaimDies(r)

Put(w) ==
    \/ \E x \in Context, obj \in Objects : Begin(w, x, obj)
    \/ PutStep(w)
    \/ PutFails(w)

Obliterate(r) ==
    \/ \E x \in Context : Drop(r, x)
    \/ ReclaimStep(r)
    \/ ReclaimFault(r)

Next ==
    \/ \E w \in Writer : Put(w) /\ UNCHANGED reclaimVars
    \/ \E r \in Reclaimer : Obliterate(r)
    \/ \E m \in manifests : DeleteManifest(m) /\ UNCHANGED reclaimVars

Spec == Init /\ [][Next]_vars

\* Calls in progress run to their end, and ObliterateContext is called again
\* while a context has something to drop; Puts and failures are never forced.
Fairness ==
    /\ \A w \in Writer : WF_vars(PutStep(w) /\ UNCHANGED reclaimVars)
    /\ \A r \in Reclaimer : WF_vars(ReclaimStep(r) \/ \E x \in Context : Drop(r, x))

LiveSpec == Spec /\ Fairness

----------------------------------------------------------------------------
(* Safety.                                                                  *)

\* A committed object can be read: unless its owner context was obliterated
\* after the Put associated its packs, every pack its manifest references is in
\* the object store (associate before manifest, mark and re-check before delete).
ManifestsReadable == \A m \in manifests : m.own => PacksOf(m.refs) \subseteq blobs

\* Dedup never points a Put at missing bytes: an index entry that Lookup would
\* hand out (its pack is "stored") names a pack in the object store.
VisibleEntriesExist ==
    \A c \in Chunk : (index[c] # NoPack /\ pstate[index[c]] = "stored") => index[c] \in blobs

\* At most one ObliterateContext call works on a pack: two calls that both drop
\* a context of a shared pack never both hold its mark or both delete it.
OneReclaimerPerPack ==
    \A r, q \in Reclaimer : r # q => Held(r) \cap Held(q) = {}

\* "A pack is deleted only when NO association remains for it": bytes never
\* leave the object store in a step that starts with an owner still associated.
DeletedOnlyUnassociated == [][\A p \in blobs \ blobs' : ~Associated(p)]_vars

----------------------------------------------------------------------------
(* The inductive invariant behind the safety properties.                    *)

Present(p) == p \in blobs \/ pstate[p] = "obliterated"

\* Contexts and packs of the calls in progress are real ones.
CallsOK ==
    /\ \A w \in Writer : wpc[w] # "idle" => wctx[w] \in Context
    /\ \A w \in Writer : own[w] => wpc[w] = "manifest"
    /\ \A r \in Reclaimer : cur[r] # NoPack <=> rpc[r] \in {"release", "purge", "delete"}

\* A location known to the index or to a Put is in the store or obliterated.
LocationsPresent ==
    /\ \A c \in Chunk : index[c] # NoPack => Present(index[c])
    /\ \A w \in Writer, c \in Chunk : refs[w][c] # NoPack => Present(refs[w][c])

\* What an owner is associated with is in the store and stays there.
AssociatedStored ==
    \A x \in Context, p \in Pack :
        <<x, p>> \in assoc => p \in blobs /\ pstate[p] # "obliterated"

\* A manifest, and a Put about to write one, still hold their associations.
OwnersAssociated ==
    /\ \A m \in manifests, c \in Chunk :
           m.own /\ m.refs[c] # NoPack => <<m.ctx, m.refs[c]>> \in assoc
    /\ \A w \in Writer, c \in Chunk :
           own[w] /\ refs[w][c] # NoPack => <<wctx[w], refs[w][c]>> \in assoc

\* A call works only on packs it marked, and knows their state.
MarksHeld ==
    /\ \A r \in Reclaimer : \A p \in marked[r] : pstate[p] = "obliterating"
    /\ \A r \in Reclaimer : rpc[r] = "release" => pstate[cur[r]] = "obliterating"
    /\ \A r \in Reclaimer : rpc[r] \in {"purge", "delete"} => pstate[cur[r]] = "obliterated"
    /\ \A r \in Reclaimer : cur[r] \notin marked[r]
    /\ OneReclaimerPerPack

\* Everything ManifestsReadable needs to be preserved by every step of every
\* call: together the parts say that bytes leave only when nothing can name them.
IInv == TypeOK /\ CallsOK /\ LocationsPresent /\ AssociatedStored /\ OwnersAssociated /\ MarksHeld

----------------------------------------------------------------------------
(* Liveness.                                                                *)

\* No mark is left behind: while no call fails, a pack that ObliterateContext
\* marks is either released to "stored" or obliterated.
MarksResolved ==
    \A p \in Pack : pstate[p] = "obliterating" ~> (pstate[p] # "obliterating" \/ faults > 0)

=============================================================================
