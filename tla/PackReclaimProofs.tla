------------------------- MODULE PackReclaimProofs -------------------------
(***************************************************************************)
(* PackReclaim over the in-memory store, for any chunks, contexts, writers *)
(* and reclaimers and any number of faults: every step of a Put and every  *)
(* step of a reclamation preserves IInv, and the safety properties follow. *)
(* The backfill of associations, for any keys, packs and contexts.         *)
(***************************************************************************)
EXTENDS PackReclaim, Backfill, TLAPS

\* Most steps are first-order; those about numbers or data cite SMT.
USE Zenon

----------------------------------------------------------------------------
(* Puts.                                                                    *)

\* What PacksOf returns: the packs a manifest references, blanks left out.
LEMMA PacksOfMember ==
    ASSUME NEW f, NEW p
    PROVE  p \in PacksOf(f) <=> p # NoPack /\ \E c \in Chunk : p = f[c]
BY DEF PacksOf

\* A location is a pack or blank; a non-empty buffer is a pack.
LEMMA PackFacts ==
    /\ NoPack \notin Pack
    /\ Loc = Pack \union {NoPack}
    /\ NoPack \in Loc
    /\ \A p \in Pack : p \in Loc /\ p # NoPack
    /\ \A l \in Loc : l # NoPack => l \in Pack
    /\ \A s \in SUBSET Chunk : s # {} => s \in Pack
BY DEF Pack, Loc, NoPack

\* The types of the locals of a Put, and of the locations.
LEMMA PutTypes ==
    ASSUME TypeOK
    PROVE  /\ wpc \in [Writer -> {"idle", "emit", "associate", "insert", "manifest", "refused"}]
           /\ wctx \in [Writer -> Context \union {NoContext}]
           /\ todo \in [Writer -> SUBSET Chunk] /\ buf \in [Writer -> SUBSET Chunk]
           /\ refs \in [Writer -> [Chunk -> Loc]] /\ packed \in [Writer -> SUBSET Pack]
           /\ own \in [Writer -> BOOLEAN]
BY DEF TypeOK, PSTypeOK

\* What is left when a Put returns.
LEMMA PutReturnsFacts ==
    ASSUME TypeOK, NEW w \in Writer, PutReturns(w)
    PROVE  /\ wpc' \in [Writer -> {"idle", "emit", "associate", "insert", "manifest", "refused"}]
           /\ wctx' \in [Writer -> Context \union {NoContext}]
           /\ todo' \in [Writer -> SUBSET Chunk] /\ buf' \in [Writer -> SUBSET Chunk]
           /\ refs' \in [Writer -> [Chunk -> Loc]] /\ packed' \in [Writer -> SUBSET Pack]
           /\ own' \in [Writer -> BOOLEAN]
           /\ ~own'[w] /\ wpc'[w] = "idle" /\ \A c \in Chunk : refs'[w][c] = NoPack
           /\ \A v \in Writer : v # w => /\ own'[v] = own[v] /\ refs'[v] = refs[v]
                                        /\ wctx'[v] = wctx[v] /\ wpc'[v] = wpc[v]
<1> USE PutTypes DEF PutReturns
<1>1. wpc' \in [Writer -> {"idle", "emit", "associate", "insert", "manifest", "refused"}]
  OBVIOUS
<1>2. wctx' \in [Writer -> Context \union {NoContext}]
  OBVIOUS
<1>3. todo' \in [Writer -> SUBSET Chunk] /\ buf' \in [Writer -> SUBSET Chunk]
  OBVIOUS
<1>4. refs' \in [Writer -> [Chunk -> Loc]]
  BY PackFacts
<1>5. packed' \in [Writer -> SUBSET Pack] /\ own' \in [Writer -> BOOLEAN]
  OBVIOUS
<1>6. ~own'[w] /\ wpc'[w] = "idle" /\ \A c \in Chunk : refs'[w][c] = NoPack
  OBVIOUS
<1>7. \A v \in Writer : v # w => own'[v] = own[v] /\ refs'[v] = refs[v]
  OBVIOUS
<1>8. \A v \in Writer : v # w => wctx'[v] = wctx[v] /\ wpc'[v] = wpc[v]
  OBVIOUS
<1> QED
  BY <1>1, <1>2, <1>3, <1>4, <1>5, <1>6, <1>7, <1>8

\* A Put that returns takes its references along; the other Puts keep theirs.
LEMMA PutReturnsKeeps ==
    ASSUME TypeOK, LocationsPresent, OwnersAssociated, NEW w \in Writer, PutReturns(w),
           UNCHANGED <<blobs, index, pstate, assoc>>
    PROVE  /\ LocationsPresent'
           /\ \A v \in Writer, c \in Chunk :
                 own'[v] /\ refs'[v][c] # NoPack => <<wctx'[v], refs'[v][c]>> \in assoc'
<1>1. \A v \in Writer, c \in Chunk : refs'[v][c] # NoPack => v # w /\ refs'[v] = refs[v]
  BY PutReturnsFacts
<1>2. \A v \in Writer : own'[v] => own[v] /\ wctx'[v] = wctx[v]
  BY PutReturnsFacts
<1>3. \A p : Present(p)' <=> Present(p)
  BY DEF Present
<1>4. LocationsPresent'
  <2>1. \A c \in Chunk : index'[c] # NoPack => Present(index'[c])
    BY DEF LocationsPresent
  <2>2. ASSUME NEW v \in Writer, NEW c \in Chunk, refs'[v][c] # NoPack PROVE Present(refs'[v][c])
    BY <1>1, <2>2 DEF LocationsPresent
  <2> QED
    BY <2>1, <2>2 DEF LocationsPresent, Present
<1>5. ASSUME NEW v \in Writer, NEW c \in Chunk, own'[v], refs'[v][c] # NoPack
      PROVE  <<wctx'[v], refs'[v][c]>> \in assoc'
  BY <1>1, <1>2, <1>5 DEF OwnersAssociated
<1> QED
  BY <1>4, <1>5

\* The invariant holds in the empty store.
LEMMA InitIInv == Init => IInv
<1> SUFFICES ASSUME Init PROVE IInv
  OBVIOUS
<1> USE DEF Init, PSInit
<1>1. TypeOK
  BY SMT, PackFacts, BoundsAssumption DEF TypeOK, PSTypeOK, PackState
<1>2. CallsOK /\ AssociatedStored /\ OwnersAssociated
  BY DEF CallsOK, AssociatedStored, OwnersAssociated
<1>3. LocationsPresent
  BY DEF LocationsPresent, PacksOf
<1>4. MarksHeld
  BY DEF MarksHeld, OneReclaimerPerPack, Held
<1> QED
  BY <1>1, <1>2, <1>3, <1>4 DEF IInv

\* The parts about the store only depend on the store and the Puts.
LEMMA StoreFrame ==
    ASSUME LocationsPresent, AssociatedStored, OwnersAssociated, UNCHANGED <<storeVars, writerVars>>
    PROVE  LocationsPresent' /\ AssociatedStored' /\ OwnersAssociated'
<1> USE DEF storeVars, writerVars
<1>1. LocationsPresent'
  BY DEF LocationsPresent, Present
<1>2. AssociatedStored' /\ OwnersAssociated'
  BY DEF AssociatedStored, OwnersAssociated
<1> QED
  BY <1>1, <1>2

\* The part about marks only depends on the calls and the lifecycle states.
LEMMA MarksFrame ==
    ASSUME MarksHeld, UNCHANGED <<reclaimVars, pstate>>
    PROVE  MarksHeld'
BY DEF MarksHeld, OneReclaimerPerPack, Held, reclaimVars

\* A Put starts with an empty manifest.
LEMMA BeginIInv ==
    ASSUME IInv, NEW w \in Writer, NEW x \in Context, NEW obj \in Objects, Begin(w, x, obj), UNCHANGED reclaimVars
    PROVE  IInv'
<1> USE DEF storeVars, writerVars, reclaimVars, Begin
<1>0. TypeOK /\ CallsOK /\ LocationsPresent /\ AssociatedStored /\ OwnersAssociated /\ MarksHeld
  BY DEF IInv
<1>1. TypeOK'
  BY SMT, <1>0, PackFacts, BoundsAssumption, ObjectsAssumption DEF TypeOK, PSTypeOK
<1>2. CallsOK'
  BY <1>0, PackFacts DEF CallsOK, TypeOK, PSTypeOK
<1>3. LocationsPresent'
  BY <1>0 DEF LocationsPresent, Present
<1>4. AssociatedStored'
  BY <1>0 DEF AssociatedStored
<1>5. OwnersAssociated'
  BY <1>0 DEF OwnersAssociated, CallsOK, TypeOK, PSTypeOK
<1>6. MarksHeld'
  BY <1>0, MarksFrame
<1> QED
  BY <1>1, <1>2, <1>3, <1>4, <1>5, <1>6 DEF IInv

\* A chunk deduped into a stored pack is present; a miss only fills the buffer.
LEMMA EmitIInv ==
    ASSUME IInv, NEW w \in Writer, NEW c \in Chunk, Emit(w, c), UNCHANGED reclaimVars
    PROVE  IInv'
<1> USE DEF storeVars, writerVars, reclaimVars, Emit, LookupHit
<1>0. TypeOK /\ CallsOK /\ LocationsPresent /\ AssociatedStored /\ OwnersAssociated /\ MarksHeld
  BY DEF IInv
<1>1. TypeOK'
  <2>1. todo' \in [Writer -> SUBSET Chunk]
    BY <1>0 DEF TypeOK, PSTypeOK
  <2>2. CASE LookupHit(c)
    <3>1. [refs[w] EXCEPT ![c] = index[c]] \in [Chunk -> Loc]
      BY <1>0 DEF TypeOK, PSTypeOK
    <3>2. refs' = [refs EXCEPT ![w] = [refs[w] EXCEPT ![c] = index[c]]]
      BY <2>2
    <3>3. refs' \in [Writer -> [Chunk -> Loc]]
      BY <1>0, <3>1, <3>2 DEF TypeOK, PSTypeOK
    <3> QED
      BY <1>0, <2>1, <2>2, <3>3 DEF TypeOK, PSTypeOK
  <2>3. CASE ~LookupHit(c)
    <3>1. buf' \in [Writer -> SUBSET Chunk]
      BY SMT, <1>0, <2>3 DEF TypeOK, PSTypeOK
    <3> QED
      BY <1>0, <2>1, <2>3, <3>1 DEF TypeOK, PSTypeOK
  <2> QED
    BY <2>2, <2>3
<1>2. CallsOK'
  BY <1>0 DEF CallsOK
<1>3. LocationsPresent'
  <2>1. CASE LookupHit(c)
    <3>1. Present(index[c])
      BY <1>0, <2>1 DEF LocationsPresent
    <3>2. \A v \in Writer, d \in Chunk :
             refs'[v][d] = IF v = w /\ d = c THEN index[c] ELSE refs[v][d]
      BY SMT, <1>0, <2>1 DEF TypeOK, PSTypeOK
    <3> QED
      BY SMT, <1>0, <3>1, <3>2 DEF LocationsPresent, Present
  <2>2. CASE ~LookupHit(c)
    BY <1>0, <2>2 DEF LocationsPresent, Present
  <2> QED
    BY <2>1, <2>2
<1>4. AssociatedStored'
  BY <1>0 DEF AssociatedStored
<1>5. OwnersAssociated'
  <2>1. \A v \in Writer : own[v] => v # w
    BY <1>0 DEF CallsOK
  <2>2. \A v \in Writer : v # w => refs'[v] = refs[v]
    BY <1>0, PutTypes
  <2> QED
    BY <1>0, <2>1, <2>2 DEF OwnersAssociated
<1>6. MarksHeld'
  BY <1>0, MarksFrame
<1> QED
  BY <1>1, <1>2, <1>3, <1>4, <1>5, <1>6 DEF IInv

\* The flushed pack is in the store.
LEMMA FlushIInv ==
    ASSUME IInv, NEW w \in Writer, Flush(w), UNCHANGED reclaimVars
    PROVE  IInv'
<1> USE DEF storeVars, writerVars, reclaimVars, Flush, FlushDue
<1>0. TypeOK /\ CallsOK /\ LocationsPresent /\ AssociatedStored /\ OwnersAssociated /\ MarksHeld
  BY DEF IInv
<1>1. TypeOK'
  <2>1. buf[w] \in Pack
    BY <1>0, PutTypes, PackFacts
  <2>2. blobs' \subseteq Pack
    BY <1>0, <2>1 DEF TypeOK, PSTypeOK
  <2>3. [c \in Chunk |-> IF c \in buf[w] THEN buf[w] ELSE refs[w][c]] \in [Chunk -> Loc]
    BY SMT, <1>0, <2>1, PutTypes, PackFacts
  <2>4. refs' \in [Writer -> [Chunk -> Loc]]
    BY <1>0, <2>3, PutTypes
  <2>5. packed' \in [Writer -> SUBSET Pack]
    BY <1>0, <2>1, PutTypes
  <2>6. buf' \in [Writer -> SUBSET Chunk]
    BY <1>0, PutTypes
  <2> QED
    BY <1>0, <2>2, <2>4, <2>5, <2>6 DEF TypeOK, PSTypeOK
<1>2. CallsOK'
  BY <1>0 DEF CallsOK
<1>3. LocationsPresent'
  BY <1>0, PackFacts DEF LocationsPresent, Present, TypeOK, PSTypeOK
<1>4. AssociatedStored'
  BY <1>0, PackFacts DEF AssociatedStored, TypeOK, PSTypeOK, CallsOK, LocationsPresent, Present
<1>5. OwnersAssociated'
  BY <1>0, PackFacts DEF OwnersAssociated, TypeOK, PSTypeOK, CallsOK, LocationsPresent, Present
<1>6. MarksHeld'
  BY <1>0, MarksFrame
<1> QED
  BY <1>1, <1>2, <1>3, <1>4, <1>5, <1>6 DEF IInv

\* The index only learns locations the Put uploaded.
LEMMA RecordIInv ==
    ASSUME IInv, NEW w \in Writer, Record(w), UNCHANGED reclaimVars
    PROVE  IInv'
<1> USE DEF storeVars, writerVars, reclaimVars, Record
<1>0. TypeOK /\ CallsOK /\ LocationsPresent /\ AssociatedStored /\ OwnersAssociated /\ MarksHeld
  BY DEF IInv
<1>1. TypeOK'
  BY SMT, <1>0, PackFacts, BoundsAssumption, ObjectsAssumption DEF TypeOK, PSTypeOK
<1>2. CallsOK'
  BY <1>0, PackFacts DEF CallsOK, TypeOK, PSTypeOK
<1>3. LocationsPresent'
  BY <1>0, PackFacts DEF LocationsPresent, Present, TypeOK, PSTypeOK
<1>4. AssociatedStored'
  BY <1>0 DEF AssociatedStored
<1>5. OwnersAssociated'
  BY <1>0 DEF OwnersAssociated
<1>6. MarksHeld'
  BY <1>0, MarksFrame
<1> QED
  BY <1>1, <1>2, <1>3, <1>4, <1>5, <1>6 DEF IInv

\* Associate accepts only packs that are stored, hence still in the store.
LEMMA AssociateIInv ==
    ASSUME IInv, NEW w \in Writer, Associate(w), UNCHANGED reclaimVars
    PROVE  IInv'
<1> USE DEF storeVars, writerVars, reclaimVars, Associate, MayAssociate
<1>0. TypeOK /\ CallsOK /\ LocationsPresent /\ AssociatedStored /\ OwnersAssociated /\ MarksHeld
  BY DEF IInv
<1>1. TypeOK'
  <2>1. PacksOf(refs[w]) \subseteq Pack /\ wctx[w] \in Context
    BY SMT, <1>0, PackFacts DEF TypeOK, PSTypeOK, CallsOK, PacksOf
  <2>2. assoc' \subseteq Context \X Pack
    BY SMT, <1>0, <2>1 DEF TypeOK, PSTypeOK
  <2>3. wpc' \in [Writer -> {"idle", "emit", "associate", "insert", "manifest", "refused"}]
    BY <1>0, PutTypes
  <2>4. own' \in [Writer -> BOOLEAN]
    BY <1>0, PutTypes
  <2> QED
    BY <1>0, <2>2, <2>3, <2>4 DEF TypeOK, PSTypeOK
<1>2. CallsOK'
  <2>1. CASE MayAssociate(w)
    BY <1>0, <2>1, PutTypes DEF CallsOK
  <2>2. CASE ~MayAssociate(w)
    BY <1>0, <2>2, PutTypes DEF CallsOK
  <2> QED
    BY <2>1, <2>2
<1>3. LocationsPresent'
  BY <1>0 DEF LocationsPresent, Present
<1>4. AssociatedStored'
  <2> SUFFICES ASSUME NEW x \in Context, NEW p \in Pack, <<x, p>> \in assoc'
               PROVE  p \in blobs /\ pstate[p] # "obliterated"
    BY DEF AssociatedStored
  <2>1. CASE <<x, p>> \in assoc
    BY <1>0, <2>1 DEF AssociatedStored
  <2>2. CASE <<x, p>> \notin assoc
    <3>1. MayAssociate(w) /\ p \in PacksOf(refs[w])
      BY SMT, <2>2
    <3>2. pstate[p] = "stored"
      BY <3>1
    <3>3. Present(p)
      BY SMT, <1>0, <3>1, PacksOfMember DEF LocationsPresent
    <3> QED
      BY <3>2, <3>3 DEF Present
  <2> QED
    BY <2>1, <2>2
<1>5. OwnersAssociated'
  <2>1. assoc \subseteq assoc'
    OBVIOUS
  <2>2. CASE MayAssociate(w)
    <3>1. \A c \in Chunk : refs[w][c] # NoPack => <<wctx[w], refs[w][c]>> \in assoc'
      BY <2>2, PacksOfMember
    <3>2. \A v \in Writer : v # w => own'[v] = own[v]
      BY <1>0, <2>2 DEF TypeOK, PSTypeOK
    <3> QED
      BY <1>0, <2>1, <3>1, <3>2 DEF OwnersAssociated
  <2>3. CASE ~MayAssociate(w)
    BY <1>0, <2>3 DEF OwnersAssociated
  <2> QED
    BY <2>2, <2>3
<1>6. MarksHeld'
  BY <1>0, MarksFrame
<1> QED
  BY <1>1, <1>2, <1>3, <1>4, <1>5, <1>6 DEF IInv

\* The manifest takes over the associations of its Put.
LEMMA WriteManifestIInv ==
    ASSUME IInv, NEW w \in Writer, WriteManifest(w), UNCHANGED reclaimVars
    PROVE  IInv'
<1> USE DEF storeVars, writerVars, reclaimVars, WriteManifest
<1>0. TypeOK /\ CallsOK /\ LocationsPresent /\ AssociatedStored /\ OwnersAssociated /\ MarksHeld
  BY DEF IInv
<1>1. TypeOK'
  <2>1. [ctx |-> wctx[w], refs |-> refs[w], own |-> own[w]]
           \in [ctx : Context, refs : [Chunk -> Loc], own : BOOLEAN]
    BY <1>0 DEF TypeOK, PSTypeOK, CallsOK
  <2>2. manifests' \subseteq [ctx : Context, refs : [Chunk -> Loc], own : BOOLEAN]
    BY <1>0, <2>1 DEF TypeOK, PSTypeOK
  <2> QED
    BY <1>0, <2>2, PutReturnsFacts DEF TypeOK, PSTypeOK
<1>2. CallsOK'
  BY <1>0, PutReturnsFacts DEF CallsOK
<1>3. LocationsPresent'
  BY <1>0, PutReturnsKeeps
<1>4. AssociatedStored'
  BY <1>0 DEF AssociatedStored
<1>5. OwnersAssociated'
  <2>0. manifests' = manifests \union {[ctx |-> wctx[w], refs |-> refs[w], own |-> own[w]]}
    OBVIOUS
  <2> HIDE DEF WriteManifest
  <2>1. \A m \in manifests' : m \in manifests
           \/ (m.ctx = wctx[w] /\ m.refs = refs[w] /\ m.own = own[w])
    BY SMT, <2>0
  <2>2. ASSUME NEW m \in manifests', NEW c \in Chunk, m.own, m.refs[c] # NoPack
        PROVE  <<m.ctx, m.refs[c]>> \in assoc
    BY <1>0, <2>1, <2>2 DEF OwnersAssociated
  <2>3. ASSUME NEW v \in Writer, NEW c \in Chunk, own'[v], refs'[v][c] # NoPack
        PROVE  <<wctx'[v], refs'[v][c]>> \in assoc
    BY <1>0, <2>3, PutReturnsKeeps DEF WriteManifest
  <2> QED
    BY <2>2, <2>3 DEF OwnersAssociated, WriteManifest
<1>6. MarksHeld'
  BY <1>0, MarksFrame
<1> QED
  BY <1>1, <1>2, <1>3, <1>4, <1>5, <1>6 DEF IInv

\* A retry starts over.
LEMMA RetryIInv ==
    ASSUME IInv, NEW w \in Writer, Retry(w), UNCHANGED reclaimVars
    PROVE  IInv'
<1> USE DEF storeVars, writerVars, reclaimVars, Retry
<1>0. TypeOK /\ CallsOK /\ LocationsPresent /\ AssociatedStored /\ OwnersAssociated /\ MarksHeld
  BY DEF IInv
<1>1. TypeOK'
  BY <1>0, PackFacts, BoundsAssumption, ObjectsAssumption DEF TypeOK, PSTypeOK
<1>2. CallsOK'
  BY <1>0, PackFacts DEF CallsOK, TypeOK, PSTypeOK
<1>3. LocationsPresent'
  BY <1>0, PackFacts DEF LocationsPresent, Present, TypeOK, PSTypeOK
<1>4. AssociatedStored'
  BY <1>0 DEF AssociatedStored
<1>5. OwnersAssociated'
  <2>1. \A v \in Writer : own[v] => v # w
    BY <1>0 DEF CallsOK
  <2>2. \A v \in Writer : v # w => refs'[v] = refs[v]
    BY <1>0, PutTypes
  <2>3. ASSUME NEW v \in Writer, NEW c \in Chunk, own[v], refs'[v][c] # NoPack
        PROVE  <<wctx[v], refs'[v][c]>> \in assoc
    BY <1>0, <2>1, <2>2, <2>3 DEF OwnersAssociated
  <2> QED
    BY <1>0, <2>3 DEF OwnersAssociated
<1>6. MarksHeld'
  BY <1>0, MarksFrame
<1> QED
  BY <1>1, <1>2, <1>3, <1>4, <1>5, <1>6 DEF IInv

\* A failed Put leaves no reference behind but index entries and associations.
LEMMA PutFailsIInv ==
    ASSUME IInv, NEW w \in Writer, PutFails(w), UNCHANGED reclaimVars
    PROVE  IInv'
<1> USE DEF storeVars, writerVars, reclaimVars, PutFails
<1>0. TypeOK /\ CallsOK /\ LocationsPresent /\ AssociatedStored /\ OwnersAssociated /\ MarksHeld
  BY DEF IInv
<1>1. TypeOK'
  <2>1. faults' \in 0 .. MaxFaults
    BY SMT, <1>0, BoundsAssumption DEF TypeOK, PSTypeOK
  <2> QED
    BY <1>0, <2>1, PutReturnsFacts DEF TypeOK, PSTypeOK
<1>2. CallsOK'
  BY <1>0, PutReturnsFacts DEF CallsOK
<1>3. LocationsPresent'
  BY <1>0, PutReturnsKeeps
<1>4. AssociatedStored'
  BY <1>0 DEF AssociatedStored
<1>5. OwnersAssociated'
  BY <1>0, PutReturnsKeeps DEF OwnersAssociated
<1>6. MarksHeld'
  BY <1>0, MarksFrame
<1> QED
  BY <1>1, <1>2, <1>3, <1>4, <1>5, <1>6 DEF IInv

\* Deleting a manifest drops references only.
LEMMA DeleteManifestIInv ==
    ASSUME IInv, NEW m \in manifests, DeleteManifest(m), UNCHANGED reclaimVars
    PROVE  IInv'
<1> USE DEF storeVars, writerVars, reclaimVars, DeleteManifest
<1>0. TypeOK /\ CallsOK /\ LocationsPresent /\ AssociatedStored /\ OwnersAssociated /\ MarksHeld
  BY DEF IInv
<1>1. TypeOK'
  BY <1>0, PackFacts, BoundsAssumption, ObjectsAssumption DEF TypeOK, PSTypeOK
<1>2. CallsOK'
  BY <1>0 DEF CallsOK
<1>3. LocationsPresent'
  BY <1>0 DEF LocationsPresent, Present
<1>4. AssociatedStored'
  BY <1>0 DEF AssociatedStored
<1>5. OwnersAssociated'
  BY <1>0, PackFacts DEF OwnersAssociated, TypeOK, PSTypeOK, CallsOK, LocationsPresent, Present
<1>6. MarksHeld'
  BY <1>0, MarksFrame
<1> QED
  BY <1>1, <1>2, <1>3, <1>4, <1>5, <1>6 DEF IInv

----------------------------------------------------------------------------
(* Reclamations.                                                            *)

\* The types of the locals of a reclamation, and of the locations.
LEMMA CallTypes ==
    ASSUME TypeOK
    PROVE  /\ rpc \in [Reclaimer -> {"idle", "mark", "finish", "release", "purge", "purgerow", "delete"}]
           /\ rctx \in [Reclaimer -> Context \union {NoContext}]
           /\ cand \in [Reclaimer -> SUBSET Pack] /\ marked \in [Reclaimer -> SUBSET Pack]
           /\ cur \in [Reclaimer -> Loc]
           /\ pstate \in [Pack -> PackState] /\ index \in [Chunk -> Loc]
           /\ refs \in [Writer -> [Chunk -> Loc]]
           /\ faults \in 0 .. MaxFaults
BY DEF TypeOK, PSTypeOK

\* Call r lets go of the pack it works on, and perhaps of others; the remaining calls
\* go on as they were.
LetsGo(r) ==
    /\ \A q \in Reclaimer : q # r => rpc'[q] = rpc[q] /\ marked'[q] = marked[q] /\ cur'[q] = cur[q]
    /\ rpc'[r] \notin {"release", "purge", "delete"}
    /\ cur'[r] = NoPack
    /\ marked'[r] \subseteq marked[r]

\* A call that lets go leaves the marks of everybody else alone, as long as it only
\* changes the state of a pack it no longer holds.
LEMMA LetsGoKeeps ==
    ASSUME TypeOK, CallsOK, MarksHeld, NEW r \in Reclaimer, LetsGo(r),
           \A p \in Pack : p # cur[r] => pstate'[p] = pstate[p]
    PROVE  MarksHeld'
<1>1. \A q \in Reclaimer : marked[q] \subseteq Pack /\ (cur[q] # NoPack => cur[q] \in Pack)
  BY CallTypes, PackFacts
<1>2. \A q \in Reclaimer : marked'[q] \subseteq marked[q] /\ (cur'[q] # NoPack => q # r)
  BY DEF LetsGo
<1>3. \A q \in Reclaimer : Held(q)' \subseteq Held(q)
  BY DEF LetsGo, Held
<1>4. OneReclaimerPerPack'
  BY <1>3 DEF MarksHeld, OneReclaimerPerPack
<1>5. \A q \in Reclaimer : cur[r] \notin marked[q]
  <2> SUFFICES ASSUME NEW q \in Reclaimer, cur[r] \in marked[q] PROVE FALSE
    OBVIOUS
  <2>1. cur[r] # NoPack
    BY <1>1, PackFacts
  <2>2. q # r
    BY DEF MarksHeld
  <2> QED
    BY <2>1, <2>2 DEF MarksHeld, OneReclaimerPerPack, Held
<1>6. \A q \in Reclaimer : \A p \in marked'[q] : pstate'[p] = "obliterating"
  BY SMT, <1>1, <1>2, <1>5 DEF MarksHeld
<1>7. ASSUME NEW q \in Reclaimer, rpc'[q] \in {"release", "purge", "delete"}
      PROVE  q # r /\ rpc[q] = rpc'[q] /\ cur'[q] = cur[q] /\ pstate'[cur[q]] = pstate[cur[q]]
  <2>1. q # r /\ rpc[q] = rpc'[q] /\ cur'[q] = cur[q]
    BY <1>7 DEF LetsGo
  <2>2. cur[q] # NoPack
    BY <1>7, <2>1 DEF CallsOK
  <2>3. cur[q] # cur[r]
    BY SMT, <2>1, <2>2 DEF MarksHeld, OneReclaimerPerPack, Held
  <2> QED
    BY <1>1, <2>1, <2>2, <2>3
<1>8. \A q \in Reclaimer : rpc'[q] = "release" => pstate'[cur'[q]] = "obliterating"
  BY <1>7 DEF MarksHeld
<1>9. \A q \in Reclaimer : rpc'[q] \in {"purge", "delete"} => pstate'[cur'[q]] = "obliterated"
  BY <1>7 DEF MarksHeld
<1>10. \A q \in Reclaimer : cur'[q] \notin marked'[q]
  <2>1. cur'[r] \notin marked'[r]
    BY <1>1, PackFacts DEF LetsGo
  <2>2. \A q \in Reclaimer : q # r => cur'[q] \notin marked'[q]
    BY DEF LetsGo, MarksHeld
  <2> QED
    BY <2>1, <2>2
<1> QED
  BY <1>4, <1>6, <1>8, <1>9, <1>10 DEF MarksHeld

\* DropContext(x) disowns exactly the manifests and Puts of x, and leaves every other
\* owner its associations.
LEMMA DropContextKeeps ==
    ASSUME TypeOK, AssociatedStored, OwnersAssociated, NEW x, DropContext(x), PutUnchanged,
           UNCHANGED <<blobs, pstate>>
    PROVE  /\ assoc' \subseteq Context \X Pack
           /\ manifests' \subseteq [ctx : Context, refs : [Chunk -> Loc], own : BOOLEAN]
           /\ own' \in [Writer -> BOOLEAN]
           /\ \A w \in Writer : own'[w] => own[w]
           /\ AssociatedStored'
           /\ OwnersAssociated'
<1> DEFINE M == [ctx : Context, refs : [Chunk -> Loc], own : BOOLEAN]
<1>1. assoc' \subseteq assoc /\ \A a \in assoc : a[1] # x => a \in assoc'
  BY DEF DropContext
<1>2. \A m \in M : Disown(m, x) \in M /\ (Disown(m, x).own => m.ctx # x /\ Disown(m, x) = m)
  BY DEF Disown
<1>3. manifests \subseteq M
  BY DEF TypeOK, PSTypeOK
<1> HIDE DEF M
<1>4. \A n \in manifests' : \E m \in manifests : n = Disown(m, x)
  BY DEF DropContext
<1>5. \A n \in manifests' : n \in M /\ (n.own => n \in manifests /\ n.ctx # x)
  BY SMT, <1>2, <1>3, <1>4
<1>6. own' \in [Writer -> BOOLEAN] /\ \A w \in Writer : own'[w] => own[w] /\ wctx[w] # x
  BY DEF DropContext, TypeOK, PSTypeOK
<1>7. assoc' \subseteq Context \X Pack
  BY <1>1 DEF TypeOK, PSTypeOK
<1>8. AssociatedStored'
  BY <1>1 DEF AssociatedStored
<1>9. OwnersAssociated'
  <2>1. ASSUME NEW n \in manifests', NEW c \in Chunk, n.own, n.refs[c] # NoPack
        PROVE  <<n.ctx, n.refs[c]>> \in assoc'
    BY <1>1, <1>5, <2>1 DEF OwnersAssociated
  <2>2. ASSUME NEW w \in Writer, NEW c \in Chunk, own'[w], refs[w][c] # NoPack
        PROVE  <<wctx[w], refs[w][c]>> \in assoc'
    BY <1>1, <1>6, <2>2 DEF OwnersAssociated
  <2> QED
    BY <2>1, <2>2 DEF OwnersAssociated, PutUnchanged
<1> QED
  BY <1>5, <1>6, <1>7, <1>8, <1>9 DEF M

\* The first drop gathers the candidates.
LEMMA DropIInv ==
    ASSUME IInv, NEW r \in Reclaimer, NEW x \in Context, Drop(r, x)
    PROVE  IInv'
<1> USE DEF Drop
<1>0. TypeOK /\ CallsOK /\ LocationsPresent /\ AssociatedStored /\ OwnersAssociated /\ MarksHeld
  BY DEF IInv
<1>1. /\ assoc' \subseteq Context \X Pack
      /\ manifests' \subseteq [ctx : Context, refs : [Chunk -> Loc], own : BOOLEAN]
      /\ own' \in [Writer -> BOOLEAN]
      /\ \A w \in Writer : own'[w] => own[w]
      /\ AssociatedStored'
      /\ OwnersAssociated'
  BY <1>0, DropContextKeeps
<1> USE DEF PutUnchanged
<1>2. TypeOK'
  BY <1>0, <1>1 DEF TypeOK, PSTypeOK
<1>3. CallsOK'
  BY <1>0, <1>1, PackFacts DEF CallsOK, TypeOK, PSTypeOK
<1>4. LocationsPresent'
  BY <1>0 DEF LocationsPresent, Present
<1>5. MarksHeld'
  BY SMT, <1>0, PackFacts DEF MarksHeld, OneReclaimerPerPack, Held, TypeOK, PSTypeOK, CallsOK
<1> QED
  BY <1>1, <1>2, <1>3, <1>4, <1>5 DEF IInv

\* A stored pack is held by no call, so its mark has one owner.
LEMMA MarkIInv ==
    ASSUME IInv, NEW r \in Reclaimer, NEW p \in Pack, Mark(r, p)
    PROVE  IInv'
<1> USE DEF storeVars, writerVars, reclaimVars, Mark, MarkWins
<1>0. TypeOK /\ CallsOK /\ LocationsPresent /\ AssociatedStored /\ OwnersAssociated /\ MarksHeld
  BY DEF IInv
<1>1. TypeOK'
  <2>1. pstate' \in [Pack -> PackState]
    BY <1>0, PackFacts DEF TypeOK, PSTypeOK, PackState, CallsOK
  <2>2. cand' \in [Reclaimer -> SUBSET Pack] /\ marked' \in [Reclaimer -> SUBSET Pack]
    BY SMT, <1>0 DEF TypeOK, PSTypeOK
  <2>3. cur' \in [Reclaimer -> Loc]
    BY <1>0, PackFacts DEF TypeOK, PSTypeOK
  <2>4. rpc' \in [Reclaimer -> {"idle", "mark", "finish", "release", "purge", "purgerow", "delete"}]
    BY <1>0 DEF TypeOK, PSTypeOK
  <2> QED
    BY <1>0, <2>1, <2>2, <2>3, <2>4 DEF TypeOK, PSTypeOK
<1>2. CallsOK'
  BY <1>0 DEF CallsOK
<1>3. LocationsPresent'
  BY SMT, <1>0, PackFacts DEF LocationsPresent, Present, TypeOK, PSTypeOK
<1>4. AssociatedStored'
  BY SMT, <1>0, PackFacts DEF AssociatedStored, TypeOK, PSTypeOK, CallsOK, LocationsPresent, Present
<1>5. OwnersAssociated'
  BY <1>0 DEF OwnersAssociated
<1>6. MarksHeld'
  <2>1. CASE pstate[p] = "stored"
    <3>1. \A q \in Reclaimer : p \notin Held(q)
      BY <1>0, <2>1, PackFacts DEF MarksHeld, Held, CallsOK, TypeOK, PSTypeOK
    <3>2. /\ pstate' = [pstate EXCEPT ![p] = "obliterating"]
          /\ marked' = [marked EXCEPT ![r] = @ \union {p}]
      BY <2>1
    <3>3. \A q \in Reclaimer : Held(q)' = IF q = r THEN Held(q) \union {p} ELSE Held(q)
      BY <1>0, <3>2 DEF Held, TypeOK, PSTypeOK
    <3>4. OneReclaimerPerPack'
      BY SMT, <1>0, <3>1, <3>3 DEF MarksHeld, OneReclaimerPerPack
    <3>5. \A q \in Reclaimer : cur[q] # p
      BY <3>1, PackFacts DEF Held
    <3> QED
      BY SMT, <1>0, <3>1, <3>2, <3>4, <3>5 DEF MarksHeld, Held, TypeOK, PSTypeOK
  <2>2. CASE pstate[p] # "stored"
    <3>1. UNCHANGED <<pstate, marked, rpc, cur>>
      BY <2>2
    <3> QED
      BY <1>0, <3>1 DEF MarksHeld, OneReclaimerPerPack, Held
  <2> QED
    BY <2>1, <2>2
<1> QED
  BY <1>1, <1>2, <1>3, <1>4, <1>5, <1>6 DEF IInv

\* The second drop is like the first.
LEMMA DropAgainIInv ==
    ASSUME IInv, NEW r \in Reclaimer, DropAgain(r)
    PROVE  IInv'
<1> USE DEF DropAgain
<1>0. TypeOK /\ CallsOK /\ LocationsPresent /\ AssociatedStored /\ OwnersAssociated /\ MarksHeld
  BY DEF IInv
<1>1. /\ assoc' \subseteq Context \X Pack
      /\ manifests' \subseteq [ctx : Context, refs : [Chunk -> Loc], own : BOOLEAN]
      /\ own' \in [Writer -> BOOLEAN]
      /\ \A w \in Writer : own'[w] => own[w]
      /\ AssociatedStored'
      /\ OwnersAssociated'
  BY <1>0, DropContextKeeps
<1> USE DEF PutUnchanged
<1>2. TypeOK'
  BY <1>0, <1>1 DEF TypeOK, PSTypeOK
<1>3. CallsOK'
  BY <1>0, <1>1, PackFacts DEF CallsOK, TypeOK, PSTypeOK
<1>4. LocationsPresent'
  BY <1>0 DEF LocationsPresent, Present
<1>5. MarksHeld'
  BY SMT, <1>0, PackFacts DEF MarksHeld, OneReclaimerPerPack, Held, TypeOK, PSTypeOK, CallsOK
<1> QED
  BY <1>1, <1>2, <1>3, <1>4, <1>5 DEF IInv

\* A pack is obliterated only when no owner is associated with it.
LEMMA CommitObliteratedIInv ==
    ASSUME IInv, NEW r \in Reclaimer, NEW p \in Pack, CommitObliterated(r, p)
    PROVE  IInv'
<1> USE DEF storeVars, writerVars, reclaimVars, CommitObliterated, MayObliterate, Associated
<1>0. TypeOK /\ CallsOK /\ LocationsPresent /\ AssociatedStored /\ OwnersAssociated /\ MarksHeld
  BY DEF IInv
<1>1. TypeOK'
  <2>1. pstate' \in [Pack -> PackState]
    BY <1>0, PackFacts DEF TypeOK, PSTypeOK, PackState, CallsOK
  <2>2. cand' \in [Reclaimer -> SUBSET Pack] /\ marked' \in [Reclaimer -> SUBSET Pack]
    BY <1>0 DEF TypeOK, PSTypeOK
  <2>3. cur' \in [Reclaimer -> Loc]
    BY <1>0, PackFacts DEF TypeOK, PSTypeOK
  <2>4. rpc' \in [Reclaimer -> {"idle", "mark", "finish", "release", "purge", "purgerow", "delete"}]
    <3>1. rpc' = [rpc EXCEPT ![r] = "purge"] \/ rpc' = [rpc EXCEPT ![r] = "release"]
      OBVIOUS
    <3> QED
      BY <1>0, <3>1 DEF TypeOK
  <2> QED
    BY <1>0, <2>1, <2>2, <2>3, <2>4 DEF TypeOK, PSTypeOK
<1>2. CallsOK'
  BY <1>0, PackFacts DEF CallsOK, TypeOK, PSTypeOK
<1>3. LocationsPresent'
  <2>1. \A q \in Pack : pstate[q] = "obliterated" => pstate'[q] = "obliterated"
    BY <1>0 DEF TypeOK, PSTypeOK
  <2>2. \A q \in Pack : Present(q) => Present(q)'
    BY <2>1 DEF Present
  <2>3. UNCHANGED <<index, refs>> /\ index \in [Chunk -> Loc] /\ refs \in [Writer -> [Chunk -> Loc]]
    BY <1>0 DEF TypeOK, PSTypeOK
  <2>4. \A l \in Loc : l # NoPack => l \in Pack
    BY PackFacts
  <2> HIDE DEF CommitObliterated
  <2> QED
    BY <1>0, <2>2, <2>3, <2>4 DEF LocationsPresent
<1>4. AssociatedStored'
  <2>1. CASE MayObliterate(p)
    <3>1. \A x \in Context : <<x, p>> \notin assoc
      BY <2>1
    <3>2. \A q \in Pack : q # p => pstate'[q] = pstate[q]
      BY <1>0, <2>1 DEF TypeOK, PSTypeOK
    <3> QED
      BY <1>0, <3>1, <3>2 DEF AssociatedStored
  <2>2. CASE ~MayObliterate(p)
    BY <1>0, <2>2 DEF AssociatedStored
  <2> QED
    BY <2>1, <2>2
<1>5. OwnersAssociated'
  BY <1>0 DEF OwnersAssociated
<1>6. MarksHeld'
  <2>1. /\ marked \in [Reclaimer -> SUBSET Pack] /\ cur \in [Reclaimer -> Loc]
        /\ pstate \in [Pack -> PackState]
        /\ rpc \in [Reclaimer -> {"idle", "mark", "finish", "release", "purge", "purgerow", "delete"}]
    BY <1>0 DEF TypeOK, PSTypeOK
  <2>2. p # NoPack /\ cur[r] = NoPack /\ pstate[p] = "obliterating"
    BY <1>0, PackFacts DEF MarksHeld, CallsOK
  <2>3. \A q \in Reclaimer : Held(q)' = Held(q)
    BY <2>1, <2>2 DEF Held
  <2>4. \A q \in Reclaimer : q # r => p \notin Held(q)
    BY <1>0 DEF MarksHeld, OneReclaimerPerPack, Held
  <2>5. OneReclaimerPerPack'
    BY <1>0, <2>3 DEF MarksHeld, OneReclaimerPerPack
  <2>6. \A q \in Pack : q # p => pstate'[q] = pstate[q]
    BY <2>1
  <2>7. ASSUME NEW q \in Reclaimer, q # r
        PROVE  /\ marked'[q] = marked[q] /\ cur'[q] = cur[q] /\ rpc'[q] = rpc[q]
               /\ p \notin marked[q] /\ (cur[q] # NoPack => cur[q] # p)
    BY <2>1, <2>4, <2>7 DEF Held
  <2>8. marked'[r] = marked[r] \ {p} /\ cur'[r] = p
    BY <2>1
  <2>9. \A q \in Reclaimer : \A k \in marked'[q] : pstate'[k] = "obliterating"
    BY SMT, <1>0, <2>1, <2>6, <2>7, <2>8 DEF MarksHeld
  <2>10. \A q \in Reclaimer : rpc'[q] = "release" => pstate'[cur'[q]] = "obliterating"
    <3>1. CASE MayObliterate(p)
      BY SMT, <1>0, <2>1, <2>2, <2>6, <2>7, <2>8, <3>1, PackFacts DEF MarksHeld, CallsOK
    <3>2. CASE ~MayObliterate(p)
      BY SMT, <1>0, <2>1, <2>2, <2>6, <2>7, <2>8, <3>2, PackFacts DEF MarksHeld, CallsOK
    <3> QED
      BY <3>1, <3>2
  <2>11. \A q \in Reclaimer : rpc'[q] \in {"purge", "delete"} => pstate'[cur'[q]] = "obliterated"
    <3>1. CASE MayObliterate(p)
      BY SMT, <1>0, <2>1, <2>2, <2>6, <2>7, <2>8, <3>1, PackFacts DEF MarksHeld, CallsOK
    <3>2. CASE ~MayObliterate(p)
      BY SMT, <1>0, <2>1, <2>2, <2>6, <2>7, <2>8, <3>2, PackFacts DEF MarksHeld, CallsOK
    <3> QED
      BY <3>1, <3>2
  <2>12. \A q \in Reclaimer : cur'[q] \notin marked'[q]
    BY SMT, <1>0, <2>7, <2>8 DEF MarksHeld
  <2> QED
    BY <2>5, <2>9, <2>10, <2>11, <2>12 DEF MarksHeld
<1> QED
  BY <1>1, <1>2, <1>3, <1>4, <1>5, <1>6 DEF IInv

\* A released pack was spared with its bytes.
LEMMA ReleaseMarkIInv ==
    ASSUME IInv, NEW r \in Reclaimer, ReleaseMark(r)
    PROVE  IInv'
<1> USE DEF storeVars, writerVars, reclaimVars, ReleaseMark, Released
<1>0. TypeOK /\ CallsOK /\ LocationsPresent /\ AssociatedStored /\ OwnersAssociated /\ MarksHeld
  BY DEF IInv
<1>1. TypeOK'
  <2>1. pstate' \in [Pack -> PackState]
    BY <1>0, PackFacts DEF TypeOK, PSTypeOK, PackState, CallsOK
  <2>2. cand' \in [Reclaimer -> SUBSET Pack] /\ marked' \in [Reclaimer -> SUBSET Pack]
    BY <1>0 DEF TypeOK, PSTypeOK
  <2>3. cur' \in [Reclaimer -> Loc]
    BY <1>0, PackFacts DEF TypeOK, PSTypeOK
  <2>4. rpc' \in [Reclaimer -> {"idle", "mark", "finish", "release", "purge", "purgerow", "delete"}]
    BY <1>0 DEF TypeOK, PSTypeOK
  <2> QED
    BY <1>0, <2>1, <2>2, <2>3, <2>4 DEF TypeOK, PSTypeOK
<1>2. CallsOK'
  BY <1>0, PackFacts DEF CallsOK, TypeOK, PSTypeOK
<1>a. \A p \in Pack : pstate'[p] = "obliterated" <=> pstate[p] = "obliterated"
  <2>1. cur[r] \in Pack /\ pstate[cur[r]] = "obliterating"
    BY <1>0, CallTypes, PackFacts DEF CallsOK, MarksHeld
  <2> QED
    BY <1>0, <2>1, CallTypes
<1>3. LocationsPresent'
  <2>1. \A p \in Pack : Present(p) => Present(p)'
    BY <1>a DEF Present
  <2>2. \A c \in Chunk : index[c] # NoPack => index[c] \in Pack
    BY <1>0, CallTypes, PackFacts
  <2>3. \A w \in Writer, c \in Chunk : refs[w][c] # NoPack => refs[w][c] \in Pack
    BY SMT, <1>0, CallTypes, PackFacts
  <2>4. UNCHANGED <<index, refs, blobs>>
    OBVIOUS
  <2> HIDE DEF ReleaseMark
  <2> QED
    BY <1>0, <2>1, <2>2, <2>3, <2>4 DEF LocationsPresent, Present
<1>4. AssociatedStored'
  BY <1>0, <1>a DEF AssociatedStored
<1>5. OwnersAssociated'
  BY <1>0 DEF OwnersAssociated
<1>6. MarksHeld'
  <2>1. LetsGo(r)
    BY <1>0, CallTypes DEF LetsGo
  <2>2. \A p \in Pack : p # cur[r] => pstate'[p] = pstate[p]
    BY <1>0, CallTypes
  <2> QED
    BY <1>0, <2>1, <2>2, LetsGoKeeps
<1> QED
  BY <1>1, <1>2, <1>3, <1>4, <1>5, <1>6 DEF IInv

\* Purging removes entries only.
LEMMA PurgePacksIInv ==
    ASSUME IInv, NEW r \in Reclaimer, PurgePacks(r)
    PROVE  IInv'
<1> USE DEF storeVars, writerVars, reclaimVars, PurgePacks
<1>0. TypeOK /\ CallsOK /\ LocationsPresent /\ AssociatedStored /\ OwnersAssociated /\ MarksHeld
  BY DEF IInv
<1>1. TypeOK'
  BY <1>0, PackFacts, BoundsAssumption, ObjectsAssumption DEF TypeOK, PSTypeOK
<1>2. CallsOK'
  BY <1>0, PackFacts DEF CallsOK, TypeOK, PSTypeOK
<1>3. LocationsPresent'
  <2>1. \A c \in Chunk : index'[c] # NoPack => index'[c] = index[c]
    OBVIOUS
  <2> QED
    BY <1>0, <2>1 DEF LocationsPresent, Present
<1>4. AssociatedStored'
  BY <1>0 DEF AssociatedStored, MarksHeld, CallsOK
<1>5. OwnersAssociated'
  BY <1>0 DEF OwnersAssociated
<1>6. MarksHeld'
  <2>1. \A q \in Reclaimer : Held(q)' = Held(q)
    BY DEF Held
  <2>2. \A q \in Reclaimer : rpc'[q] = "release" => rpc[q] = "release"
    BY <1>0, CallTypes
  <2>3. \A q \in Reclaimer : rpc'[q] \in {"purge", "delete"} => rpc[q] \in {"purge", "delete"}
    BY <1>0, CallTypes
  <2>4. UNCHANGED <<pstate, marked, cur>>
    OBVIOUS
  <2> HIDE DEF PurgePacks
  <2>5. OneReclaimerPerPack'
    BY <1>0, <2>1 DEF MarksHeld, OneReclaimerPerPack
  <2> QED
    BY <1>0, <2>2, <2>3, <2>4, <2>5 DEF MarksHeld
<1> QED
  BY <1>1, <1>2, <1>3, <1>4, <1>5, <1>6 DEF IInv

\* Only an obliterated pack loses its bytes, and no owner is associated with it.
LEMMA DeleteBlobIInv ==
    ASSUME IInv, NEW r \in Reclaimer, DeleteBlob(r)
    PROVE  IInv'
<1> USE DEF storeVars, writerVars, reclaimVars, DeleteBlob
<1>0. TypeOK /\ CallsOK /\ LocationsPresent /\ AssociatedStored /\ OwnersAssociated /\ MarksHeld
  BY DEF IInv
<1>1. TypeOK'
  BY <1>0, PackFacts, BoundsAssumption, ObjectsAssumption DEF TypeOK, PSTypeOK
<1>2. CallsOK'
  BY <1>0, PackFacts DEF CallsOK, TypeOK, PSTypeOK
<1>3. LocationsPresent'
  <2>1. pstate[cur[r]] = "obliterated"
    BY <1>0 DEF MarksHeld
  <2> QED
    BY <1>0, <2>1 DEF LocationsPresent, Present
<1>4. AssociatedStored'
  <2>1. pstate[cur[r]] = "obliterated"
    BY <1>0 DEF MarksHeld
  <2> QED
    BY <1>0, <2>1 DEF AssociatedStored
<1>5. OwnersAssociated'
  BY <1>0 DEF OwnersAssociated
<1>6. MarksHeld'
  <2>1. LetsGo(r)
    BY <1>0, CallTypes DEF LetsGo
  <2> QED
    BY <1>0, <2>1, LetsGoKeeps
<1> QED
  BY <1>1, <1>2, <1>3, <1>4, <1>5, <1>6 DEF IInv

\* A call that returns, skips a pack or dies touches no store state, and holds no
\* more packs than before; a mark it leaves behind is held by no call.
LEMMA CallOnlyIInv ==
    ASSUME IInv, NEW r \in Reclaimer, Return(r) \/ ReclaimFault(r)
    PROVE  IInv'
<1>0. TypeOK /\ CallsOK /\ LocationsPresent /\ AssociatedStored /\ OwnersAssociated /\ MarksHeld
  BY DEF IInv
<1>1. UNCHANGED <<storeVars, writerVars>>
  BY DEF Return, ReclaimFault, SkipMark, SkipCommit, SkipFinish, DropAgainFails, ReclaimDies
<1>2. LocationsPresent' /\ AssociatedStored' /\ OwnersAssociated'
  BY <1>0, <1>1, StoreFrame
<1> DEFINE Steps == {"idle", "mark", "finish", "release", "purge", "purgerow", "delete"}
           LocalsOK == /\ rpc' \in [Reclaimer -> Steps]
                       /\ rctx' \in [Reclaimer -> Context \union {NoContext}]
                       /\ cand' \in [Reclaimer -> SUBSET Pack] /\ marked' \in [Reclaimer -> SUBSET Pack]
                       /\ cur' \in [Reclaimer -> Loc]
                       /\ faults' \in 0 .. MaxFaults
<1>3. rpc[r] \notin {"release", "purge", "delete"} => cur[r] = NoPack
  BY <1>0 DEF CallsOK
<1>4. ASSUME Return(r) PROVE LocalsOK /\ LetsGo(r)
  <2>1. LocalsOK
    BY <1>0, <1>4, CallTypes DEF Return
  <2>2. LetsGo(r)
    BY <1>0, <1>3, <1>4, CallTypes DEF Return, LetsGo
  <2> QED
    BY <2>1, <2>2
<1>5. ASSUME NEW p \in Pack, SkipMark(r, p) PROVE LocalsOK /\ LetsGo(r)
  <2>1. LocalsOK
    BY SMT, <1>0, <1>5, CallTypes, BoundsAssumption DEF SkipMark, Skip
  <2>2. LetsGo(r)
    BY <1>0, <1>3, <1>5, CallTypes DEF SkipMark, LetsGo
  <2> QED
    BY <2>1, <2>2
<1>6. ASSUME NEW p \in Pack, SkipCommit(r, p) PROVE LocalsOK /\ LetsGo(r)
  <2>1. LocalsOK
    BY SMT, <1>0, <1>6, CallTypes, BoundsAssumption DEF SkipCommit, Skip
  <2>2. LetsGo(r)
    BY <1>0, <1>3, <1>6, CallTypes DEF SkipCommit, LetsGo
  <2> QED
    BY <2>1, <2>2
<1>7. ASSUME SkipFinish(r) PROVE LocalsOK /\ LetsGo(r)
  <2>1. LocalsOK
    BY SMT, <1>0, <1>7, CallTypes, PackFacts, BoundsAssumption DEF SkipFinish, Skip
  <2>2. LetsGo(r)
    BY <1>0, <1>7, CallTypes DEF SkipFinish, LetsGo
  <2> QED
    BY <2>1, <2>2
<1>8. ASSUME DropAgainFails(r) PROVE LocalsOK /\ LetsGo(r)
  <2>1. LocalsOK
    BY SMT, <1>0, <1>8, CallTypes, BoundsAssumption DEF DropAgainFails
  <2>2. LetsGo(r)
    BY <1>0, <1>3, <1>8, CallTypes DEF DropAgainFails, LetsGo
  <2> QED
    BY <2>1, <2>2
<1>9. ASSUME ReclaimDies(r) PROVE LocalsOK /\ LetsGo(r)
  <2>1. LocalsOK
    BY SMT, <1>0, <1>9, CallTypes, PackFacts, BoundsAssumption DEF ReclaimDies
  <2>2. LetsGo(r)
    BY <1>0, <1>9, CallTypes DEF ReclaimDies, LetsGo
  <2> QED
    BY <2>1, <2>2
<1>10. LocalsOK /\ LetsGo(r)
  BY <1>4, <1>5, <1>6, <1>7, <1>8, <1>9 DEF ReclaimFault
<1>11. TypeOK'
  BY <1>0, <1>1, <1>10 DEF TypeOK, PSTypeOK, storeVars, writerVars
<1>12. CallsOK'
  BY <1>0, <1>1, <1>10 DEF CallsOK, LetsGo, writerVars
<1>13. MarksHeld'
  BY <1>0, <1>1, <1>10, LetsGoKeeps DEF storeVars
<1> QED
  BY <1>2, <1>11, <1>12, <1>13 DEF IInv

\* Every step of every call preserves the invariant.
LEMMA NextIInv == IInv /\ [Next]_vars => IInv'
<1> SUFFICES ASSUME IInv, [Next]_vars PROVE IInv'
  OBVIOUS
<1>1. ASSUME NEW w \in Writer, Put(w), UNCHANGED reclaimVars PROVE IInv'
  BY <1>1, BeginIInv, EmitIInv, FlushIInv, RecordIInv, AssociateIInv, WriteManifestIInv,
     RetryIInv, PutFailsIInv DEF Put, PutStep
<1>2. ASSUME NEW r \in Reclaimer, Obliterate(r) PROVE IInv'
  <2>1. CASE \E x \in Context : Drop(r, x)
    BY <2>1, DropIInv
  <2>2. CASE ReclaimStep(r)
    BY <2>2, MarkIInv, DropAgainIInv, CommitObliteratedIInv, ReleaseMarkIInv, PurgePacksIInv,
       DeleteBlobIInv, CallOnlyIInv DEF ReclaimStep
  <2>3. CASE ReclaimFault(r)
    BY <2>3, CallOnlyIInv
  <2> QED
    BY <1>2, <2>1, <2>2, <2>3 DEF Obliterate
<1>3. ASSUME NEW m \in manifests, DeleteManifest(m), UNCHANGED reclaimVars PROVE IInv'
  BY <1>3, DeleteManifestIInv
<1>4. CASE UNCHANGED vars
  <2> USE <1>4 DEF vars, storeVars, writerVars, reclaimVars, IInv
  <2>1. TypeOK' /\ CallsOK'
    BY DEF TypeOK, PSTypeOK, CallsOK
  <2>2. LocationsPresent' /\ AssociatedStored' /\ OwnersAssociated'
    BY StoreFrame
  <2>3. MarksHeld'
    BY MarksFrame
  <2> QED
    BY <2>1, <2>2, <2>3
<1> QED
  BY <1>1, <1>2, <1>3, <1>4 DEF Next

\* IInv is an invariant of the specification: it holds initially and no step of a
\* Put, a reclamation, a failure or a deletion breaks it.
THEOREM Invariance == Spec => []IInv
BY InitIInv, NextIInv, PTL DEF Spec

\* Type correctness of the store, the writers and the reclaimers.
THEOREM TypeCorrect == Spec => []TypeOK
<1>1. IInv => TypeOK
  BY DEF IInv
<1> QED
  BY <1>1, Invariance, PTL

\* Every object whose owner was not obliterated since it associated its packs can
\* be read: the bytes its manifest references are in the object store, whatever
\* the interleaving of Puts, reclaimers, failures and crashes.
THEOREM ReadableObjects == Spec => []ManifestsReadable
<1>1. IInv => ManifestsReadable
  <2> SUFFICES ASSUME IInv, NEW m \in manifests, m.own, NEW p \in PacksOf(m.refs)
               PROVE  p \in blobs
    BY DEF ManifestsReadable
  <2>1. PICK c \in Chunk : p = m.refs[c] /\ p # NoPack
    BY PacksOfMember
  <2>2. <<m.ctx, p>> \in assoc
    BY <2>1 DEF IInv, OwnersAssociated
  <2>3. m.ctx \in Context /\ p \in Pack
    BY SMT, <2>1, PackFacts DEF IInv, TypeOK, PSTypeOK
  <2> QED
    BY <2>2, <2>3 DEF IInv, AssociatedStored
<1> QED
  BY <1>1, Invariance, PTL

\* An index entry that Lookup would hand out names a pack in the object store.
THEOREM DedupHitsExist == Spec => []VisibleEntriesExist
<1>1. IInv => VisibleEntriesExist
  BY DEF IInv, LocationsPresent, Present, VisibleEntriesExist
<1> QED
  BY <1>1, Invariance, PTL

\* No two ObliterateContext calls ever work on the same pack.
THEOREM ExclusiveMarks == Spec => []OneReclaimerPerPack
<1>1. IInv => OneReclaimerPerPack
  BY DEF IInv, MarksHeld
<1> QED
  BY <1>1, Invariance, PTL

\* Bytes leave the object store only in a step that starts with no owner
\* associated with the pack.
THEOREM DeletionsSafe == Spec => DeletedOnlyUnassociated
<1>1. IInv /\ [Next]_vars => [\A p \in blobs \ blobs' : ~Associated(p)]_vars
  <2> SUFFICES ASSUME IInv, Next, NEW p \in blobs \ blobs' PROVE ~Associated(p)
    OBVIOUS
  <2>w. ASSUME NEW w \in Writer, Put(w) PROVE blobs \subseteq blobs'
    BY SMT, <2>w DEF Put, PutStep, storeVars, Begin, Emit, Flush, Record, Associate,
       WriteManifest, Retry, PutFails
  <2>f. ASSUME NEW r \in Reclaimer, ReclaimFault(r) PROVE blobs' = blobs
    BY <2>f DEF ReclaimFault, storeVars, SkipMark, SkipCommit, SkipFinish, DropAgainFails,
       ReclaimDies
  <2>s. ASSUME NEW r \in Reclaimer, ReclaimStep(r) PROVE DeleteBlob(r) \/ blobs' = blobs
    BY <2>s DEF ReclaimStep, storeVars, Mark, CommitObliterated, DropAgain, ReleaseMark,
       PurgePacks, Return
  <2>d. ASSUME NEW r \in Reclaimer, NEW x \in Context, Drop(r, x) PROVE blobs' = blobs
    BY <2>d DEF Drop, storeVars
  <2>m. ASSUME NEW m \in manifests, DeleteManifest(m) PROVE blobs' = blobs
    BY <2>m DEF DeleteManifest
  <2>1. PICK r \in Reclaimer : DeleteBlob(r)
    BY <2>w, <2>f, <2>s, <2>d, <2>m DEF Next, Obliterate
  <2>2. p = cur[r] /\ pstate[p] = "obliterated"
    BY <2>1 DEF DeleteBlob, IInv, MarksHeld
  <2>3. p \in Pack
    BY DEF IInv, TypeOK, PSTypeOK
  <2> QED
    BY <2>2, <2>3 DEF Associated, IInv, AssociatedStored
<1> QED
  BY <1>1, Invariance, PTL DEF Spec, DeletedOnlyUnassociated

----------------------------------------------------------------------------
(* The backfill.  A pack that a manifest references is stored or was        *)
(* reclaimed with its context, and no pass of the collector is about to     *)
(* take it; the walk still has every row of a manifest ahead of it, in its  *)
(* batch or behind it in the table.                                         *)

WalkRec == [pc : {"idle", "walk", "flush"}, left : SUBSET BfKey, snap : [BfKey -> SUBSET BfPack],
            pending : SUBSET (BfKey \X BfPack)]
PutRec == [pc : {"idle", "associate", "write"}, key : BfKey \cup {NoPut.key}, packs : SUBSET BfPack,
           fresh : SUBSET BfPack, safe : BOOLEAN]
ObRec == [pc : {"idle", "mark", "finish"}, ctx : Contexts \cup {"none"}, todo : SUBSET BfPack,
          marks : SUBSET BfPack]

BfTyped ==
    /\ streams \in BOOLEAN /\ backfilled \in BOOLEAN
    /\ bfRows \in [BfKey -> SUBSET BfPack] /\ bfBlobs \subseteq BfPack
    /\ bfState \in [BfPack -> {"stored", "obliterating", "obliterated"}]
    /\ bfWalk \in WalkRec /\ bfPut \in PutRec /\ bfOb \in ObRec
    /\ bfAssoc \subseteq Contexts \X BfPack
    /\ bfGc \subseteq BfPack /\ bare \subseteq BfKey /\ robbed \subseteq BfPack

\* p is stored, or was reclaimed with its context, and not about to be collected.
Kept(p) == (p \in bfBlobs \/ bfState[p] = "obliterated") /\ p \notin bfGc
Named(k, p) == <<k, p>> \in bfAssoc \/ <<OwnerContext[k], p>> \in bfAssoc
Unabsorbed(k, p) == k \in bfWalk.left /\ p \in (IF streams THEN bfWalk.snap[k] ELSE bfRows[k])

Reclaiming ==
    /\ \A p \in BfPack : bfState[p] = "obliterated" => p \in robbed
    /\ \A a \in bfAssoc : bfState[a[2]] # "obliterated"
    /\ \A p \in bfOb.marks : bfState[p] = "obliterating"

Intact == \A k \in BfKey \ bare : \A p \in bfRows[k] : Kept(p)

Putting ==
    /\ bfPut.pc # "idle" => bfPut.key \in BfKey
    /\ \A p \in bfPut.fresh : Kept(p)
    /\ bfPut.safe => \A p \in bfPut.packs \ bfPut.fresh : \E k \in BfKey \ bare : p \in bfRows[k]
    /\ bfPut.pc = "write" /\ bfPut.safe =>
         \A p \in bfPut.packs : <<OwnerContext[bfPut.key], p>> \in bfAssoc

Walking == bfWalk.pc # "idle" => \A k \in BfKey \ bare : \A p \in bfRows[k] :
    Named(k, p) \/ <<k, p>> \in bfWalk.pending \/ Unabsorbed(k, p)

Adopted == backfilled => \A k \in BfKey \ bare : \A p \in bfRows[k] : Named(k, p)

BfInv == BfTyped /\ Reclaiming /\ Intact /\ Putting /\ Walking /\ Adopted

\* An association row names its pack.
LEMMA PairSecond == \A x, y : <<x, y>>[2] = y
  BY SMT

LEMMA PairTyped == \A a \in Contexts \X BfPack : a[2] \in BfPack
  BY SMT

\* The records a step resets.
LEMMA NoneTyped ==
    /\ NoWalk \in WalkRec /\ NoWalk.pc = "idle" /\ NoWalk.pending = {}
    /\ NoPut \in PutRec /\ NoPut.pc = "idle" /\ NoPut.packs = {} /\ NoPut.fresh = {}
    /\ NoOb \in ObRec /\ NoOb.marks = {}
<1>1. NoWalk \in WalkRec /\ NoWalk.pc = "idle" /\ NoWalk.pending = {}
  BY DEF NoWalk, WalkRec
<1>2. NoPut \in PutRec /\ NoPut.pc = "idle" /\ NoPut.packs = {} /\ NoPut.fresh = {}
  BY DEF NoPut, PutRec
<1>3. NoOb \in ObRec /\ NoOb.marks = {}
  BY DEF NoOb, ObRec
<1> QED
  BY <1>1, <1>2, <1>3

\* The facts of the types that steps use.
LEMMA BfFacts ==
    ASSUME BfInv
    PROVE  /\ bfWalk.pc \in {"idle", "walk", "flush"} /\ bfWalk.left \subseteq BfKey
           /\ bfWalk.snap \in [BfKey -> SUBSET BfPack] /\ bfWalk.pending \subseteq BfKey \X BfPack
           /\ bfPut.pc \in {"idle", "associate", "write"} /\ bfPut.packs \subseteq BfPack
           /\ bfPut.fresh \subseteq BfPack /\ bfPut.safe \in BOOLEAN
           /\ bfOb.pc \in {"idle", "mark", "finish"} /\ bfOb.todo \subseteq BfPack /\ bfOb.marks \subseteq BfPack
  BY DEF BfInv, BfTyped, WalkRec, PutRec, ObRec

\* A manifest's pack that is named by an association is stored.
LEMMA NamedStored ==
    ASSUME BfInv, NEW k, NEW p, Named(k, p), Kept(p)
    PROVE  p \in bfBlobs
<1>1. bfState[p] # "obliterated"
  BY PairSecond DEF BfInv, Reclaiming, Named
<1> QED
  BY <1>1 DEF Kept

\* The invariant is what the runs check.
LEMMA BfInvSound == BfInv => BackfillSound
<1> SUFFICES ASSUME BfInv
             PROVE  BackfillSound
  OBVIOUS
<1>1. \A a \in bfAssoc \cup bfWalk.pending : a[2] \in BfPack
  <2>1. \A a \in BfKey \X BfPack : a[2] \in BfPack
    BY SMT
  <2> QED
    BY <2>1, BfFacts, PairTyped DEF BfInv, BfTyped
<1>2. BfTypeOK
  BY <1>1, BfFacts DEF BfInv, BfTyped, BfTypeOK
<1>3. CollectorSpares
  BY DEF BfInv, BfTyped, Intact, Kept, Reclaiming, CollectorSpares
<1>4. BackfilledKept
  <2>1. ASSUME backfilled, NEW k \in BfKey \ bare, NEW p \in bfRows[k]
        PROVE  p \in bfBlobs /\ \E x \in {k, OwnerContext[k]} : <<x, p>> \in bfAssoc
    <3>1. Named(k, p) /\ Kept(p)
      BY <2>1 DEF BfInv, Adopted, Intact
    <3> QED
      BY <3>1, NamedStored DEF Named
  <2> QED
    BY <2>1 DEF BackfilledKept
<1> QED
  BY <1>2, <1>3, <1>4 DEF BackfillSound

\* Manifests without associations, and nothing running.
LEMMA BfInitInv == BfInit => BfInv
<1> SUFFICES ASSUME BfInit
             PROVE  BfInv
  OBVIOUS
<1>1. BfTyped
  BY NoneTyped, BackfillAssumption DEF BfInit, BfTyped
<1>2. Reclaiming /\ Putting /\ Walking /\ Adopted
  BY NoneTyped DEF BfInit, Reclaiming, Putting, Walking, Adopted
<1>3. Intact
  BY DEF BfInit, Intact, Kept
<1> QED
  BY <1>1, <1>2, <1>3 DEF BfInv

\* A step of the walk that leaves manifests, packs and rows alone.
LEMMA WalkStep ==
    ASSUME BfInv, UNCHANGED <<streams, bfRows, bfBlobs, bfAssoc, bfState, bfPut, bfOb, bfGc, bare, robbed>>,
           bfWalk' \in WalkRec, backfilled' \in BOOLEAN, Walking', Adopted'
    PROVE  BfInv'
<1>1. BfTyped'
  BY DEF BfInv, BfTyped, Contexts
<1>2. Reclaiming' /\ Putting' /\ Intact'
  BY DEF BfInv, Reclaiming, Putting, Intact, Kept
<1> QED
  BY <1>1, <1>2 DEF BfInv

\* The walk starts with every manifest ahead of it.
LEMMA WalkBeginsInv == ASSUME BfInv, WalkBegins PROVE BfInv'
<1> DEFINE snap == IF streams THEN bfRows ELSE NoWalk.snap
<1>1. /\ bfWalk' = [pc |-> "walk", left |-> {k \in BfKey : bfRows[k] # {}}, snap |-> snap, pending |-> {}]
      /\ UNCHANGED <<streams, bfRows, bfBlobs, bfAssoc, bfState, backfilled, bfPut, bfOb, bfGc, bare, robbed>>
  BY DEF WalkBegins
<1>2. snap \in [BfKey -> SUBSET BfPack] /\ (streams => snap = bfRows)
  BY NoneTyped DEF BfInv, BfTyped, WalkRec
<1> HIDE DEF snap
<1>3. /\ bfWalk' \in WalkRec /\ bfWalk'.pc = "walk" /\ bfWalk'.snap = snap
      /\ bfWalk'.left = {k \in BfKey : bfRows[k] # {}}
  BY <1>1, <1>2 DEF WalkRec
<1>4. Walking'
  BY <1>1, <1>2, <1>3 DEF Walking, Unabsorbed
<1>5. Adopted' /\ backfilled' \in BOOLEAN
  BY <1>1 DEF BfInv, BfTyped, Adopted, Named
<1> QED
  BY <1>1, <1>3, <1>4, <1>5, WalkStep

\* What a manifest implies goes into the batch.
LEMMA AbsorbInv == ASSUME BfInv, NEW k \in BfKey, Absorb(k) PROVE BfInv'
<1> DEFINE rows == bfWalk.pending \cup Implied(k)
<1> DEFINE pc == IF Cardinality(rows) >= BatchSize THEN "flush" ELSE "walk"
<1> DEFINE snap == [bfWalk.snap EXCEPT ![k] = {}]
<1>1. /\ bfWalk.pc = "walk" /\ k \in bfWalk.left
      /\ bfWalk' = [bfWalk EXCEPT !.left = @ \ {k}, !.snap = snap, !.pending = rows, !.pc = pc]
      /\ UNCHANGED <<streams, bfRows, bfBlobs, bfAssoc, bfState, backfilled, bfPut, bfOb, bfGc, bare, robbed>>
  BY DEF Absorb
<1>2. /\ snap \in [BfKey -> SUBSET BfPack] /\ \A j \in BfKey \ {k} : snap[j] = bfWalk.snap[j]
  BY BfFacts
<1>3. /\ rows \subseteq BfKey \X BfPack
      /\ \A p : p \in (IF streams THEN bfWalk.snap[k] ELSE bfRows[k]) => <<k, p>> \in rows
  <2>1. (IF streams THEN bfWalk.snap[k] ELSE bfRows[k]) \subseteq BfPack
    BY BfFacts DEF BfInv, BfTyped
  <2> DEFINE S == IF streams THEN bfWalk.snap[k] ELSE bfRows[k]
  <2>2. Implied(k) = {k} \X S
    BY DEF Implied
  <2> HIDE DEF S
  <2>3. S \subseteq BfPack => {k} \X S \subseteq BfKey \X BfPack /\ \A p \in S : <<k, p>> \in {k} \X S
    BY SMT
  <2> QED
    BY <2>1, <2>2, <2>3, BfFacts DEF S
<1>4. pc \in {"flush", "walk"}
  OBVIOUS
<1> HIDE DEF rows, pc, snap
<1>5. /\ bfWalk' \in WalkRec /\ bfWalk'.left = bfWalk.left \ {k} /\ bfWalk'.snap = snap
      /\ bfWalk'.pending = rows
  BY <1>1, <1>2, <1>3, <1>4, BfFacts DEF BfInv, BfTyped, WalkRec
<1>6. bfWalk.pending \subseteq rows
  BY DEF rows
<1>7. Walking'
  <2> SUFFICES ASSUME NEW j \in BfKey \ bare, NEW p \in bfRows[j]
               PROVE  (Named(j, p) \/ <<j, p>> \in bfWalk.pending \/ Unabsorbed(j, p))'
    BY <1>1 DEF Walking
  <2>1. Named(j, p) \/ <<j, p>> \in bfWalk.pending \/ Unabsorbed(j, p)
    BY <1>1 DEF BfInv, Walking
  <2>2. CASE j = k
    BY <1>1, <1>3, <1>5, <1>6, <2>1, <2>2 DEF Named, Unabsorbed
  <2>3. CASE j # k
    BY <1>1, <1>2, <1>5, <1>6, <2>1, <2>3 DEF Named, Unabsorbed
  <2> QED
    BY <2>2, <2>3
<1>8. Adopted' /\ backfilled' \in BOOLEAN
  BY <1>1 DEF BfInv, BfTyped, Adopted, Named
<1> QED
  BY <1>1, <1>5, <1>7, <1>8, WalkStep

\* The walk is over, or given up.
LEMMA WalkEndsInv == ASSUME BfInv, MarkBackfilled \/ WalkFails PROVE BfInv'
<1>1. /\ bfWalk' = NoWalk
      /\ UNCHANGED <<streams, bfRows, bfBlobs, bfAssoc, bfState, bfPut, bfOb, bfGc, bare, robbed>>
  BY DEF MarkBackfilled, WalkFails
<1>2. bfWalk' \in WalkRec /\ Walking'
  BY <1>1, NoneTyped DEF Walking
<1>3. Adopted' /\ backfilled' \in BOOLEAN
  <2>1. CASE UNCHANGED backfilled
    BY <1>1, <2>1 DEF BfInv, BfTyped, Adopted, Named
  <2>2. CASE MarkBackfilled
    <3>1. bfWalk.pc = "walk" /\ bfWalk.left = {} /\ bfWalk.pending = {} /\ backfilled' = TRUE
      BY <2>2 DEF MarkBackfilled
    <3>2. \A k \in BfKey \ bare : \A p \in bfRows[k] : Named(k, p)
      BY <3>1 DEF BfInv, Walking, Unabsorbed
    <3> QED
      BY <1>1, <3>1, <3>2 DEF Adopted, Named
  <2> QED
    BY <2>1, <2>2 DEF WalkFails
<1> QED
  BY <1>1, <1>2, <1>3, WalkStep

\* A batch goes into the table, or the walk ends.
LEMMA FlushBatchInv == ASSUME BfInv, FlushBatch PROVE BfInv'
<1>1. /\ UNCHANGED <<streams, bfRows, bfBlobs, bfState, backfilled, bfPut, bfOb, bfGc, bare, robbed>>
      /\ bfWalk.pc # "idle"
  BY DEF FlushBatch
<1>2. CASE bfWalk' = NoWalk /\ bfAssoc' = bfAssoc
  <2>1. bfWalk' \in WalkRec /\ Walking'
    BY <1>2, NoneTyped DEF Walking
  <2>2. Adopted' /\ backfilled' \in BOOLEAN
    BY <1>1, <1>2 DEF BfInv, BfTyped, Adopted, Named
  <2> QED
    BY <1>1, <1>2, <2>1, <2>2, WalkStep
<1>3. CASE /\ ~BatchRefused(bfWalk.pending) /\ bfAssoc' = bfAssoc \cup bfWalk.pending
           /\ bfWalk' = [bfWalk EXCEPT !.pc = "walk", !.pending = {}]
  <2>1. /\ bfWalk' \in WalkRec /\ bfWalk'.left = bfWalk.left /\ bfWalk'.snap = bfWalk.snap
        /\ bfWalk'.pending = {} /\ bfWalk'.pc = "walk"
    BY <1>3, BfFacts DEF BfInv, BfTyped, WalkRec
  <2>2. bfAssoc' \subseteq Contexts \X BfPack
    <3>1. BfKey \X BfPack \subseteq Contexts \X BfPack
      <4>1. BfKey \subseteq Contexts
        BY DEF Contexts
      <4> QED
        BY SMT, <4>1
    <3> QED
      BY <1>3, <3>1, BfFacts DEF BfInv, BfTyped
  <2>3. BfTyped'
    BY <1>1, <2>1, <2>2 DEF BfInv, BfTyped, Contexts
  <2>4. Reclaiming'
    <3>1. \A a \in bfWalk.pending : bfState[a[2]] = "stored"
      BY <1>3 DEF BatchRefused
    <3> QED
      BY <1>1, <1>3, <3>1 DEF BfInv, Reclaiming
  <2>5. Intact' /\ Putting'
    BY <1>1, <1>3 DEF BfInv, Intact, Putting, Kept
  <2>6. Walking'
    BY <1>1, <1>3, <2>1 DEF BfInv, Walking, Named, Unabsorbed
  <2>7. Adopted'
    BY <1>1, <1>3 DEF BfInv, Adopted, Named
  <2> QED
    BY <2>3, <2>4, <2>5, <2>6, <2>7 DEF BfInv
<1> QED
  BY <1>2, <1>3 DEF FlushBatch

\* A Put stays safe while the keys that hold what it reuses do.
LEMMA StaysSafeTyped ==
    ASSUME BfInv, NEW keys
    PROVE  /\ StaysSafe(keys) \in PutRec /\ StaysSafe(keys).pc = bfPut.pc /\ StaysSafe(keys).key = bfPut.key
           /\ StaysSafe(keys).packs = bfPut.packs /\ StaysSafe(keys).fresh = bfPut.fresh
           /\ StaysSafe(keys).safe =>
                bfPut.safe /\ \A p \in bfPut.packs \ bfPut.fresh : \E k \in keys : p \in bfRows[k]
<1> DEFINE s == bfPut.safe /\ bfPut.packs \ bfPut.fresh \subseteq HeldBy(bfRows, keys)
<1>1. StaysSafe(keys) = [bfPut EXCEPT !.safe = s]
  BY DEF StaysSafe
<1>2. s \in BOOLEAN
  BY SMT
<1>3. s => bfPut.safe /\ \A p \in bfPut.packs \ bfPut.fresh : \E k \in keys : p \in bfRows[k]
  BY DEF HeldBy
<1> HIDE DEF s
<1>4. /\ [bfPut EXCEPT !.safe = s] \in PutRec /\ [bfPut EXCEPT !.safe = s].pc = bfPut.pc
      /\ [bfPut EXCEPT !.safe = s].key = bfPut.key
      /\ [bfPut EXCEPT !.safe = s].packs = bfPut.packs /\ [bfPut EXCEPT !.safe = s].fresh = bfPut.fresh
      /\ [bfPut EXCEPT !.safe = s].safe = s
  BY <1>2 DEF BfInv, BfTyped, PutRec
<1> QED
  BY <1>1, <1>3, <1>4

LEMMA StaysSafePutting ==
    ASSUME BfInv, bfPut' = StaysSafe(BfKey \ bare'), UNCHANGED <<bfRows, bfAssoc>>,
           \A p \in bfPut.fresh : Kept(p)'
    PROVE  Putting'
<1>1. /\ bfPut'.pc = bfPut.pc /\ bfPut'.key = bfPut.key /\ bfPut'.packs = bfPut.packs /\ bfPut'.fresh = bfPut.fresh
      /\ bfPut'.safe =>
           bfPut.safe /\ \A p \in bfPut.packs \ bfPut.fresh : \E k \in BfKey \ bare' : p \in bfRows[k]
  BY StaysSafeTyped
<1>2. /\ bfPut'.pc # "idle" => bfPut'.key \in BfKey
      /\ bfPut'.pc = "write" /\ bfPut'.safe =>
           \A p \in bfPut'.packs : <<OwnerContext[bfPut'.key], p>> \in bfAssoc'
  BY <1>1 DEF BfInv, Putting
<1> QED
  BY <1>1, <1>2 DEF Putting

\* A walk passes over a manifest it cannot read: the walk of the backfill ...
LEMMA AbsorbSkipsInv == ASSUME BfInv, NEW k \in BfKey, AbsorbSkips(k) PROVE BfInv'
<1>1. /\ bfWalk.pc = "walk" /\ bfWalk' = [bfWalk EXCEPT !.left = @ \ {k}]
      /\ bare' = bare \cup {k} /\ bfPut' = StaysSafe(BfKey \ bare')
      /\ UNCHANGED <<streams, bfRows, bfBlobs, bfAssoc, bfState, backfilled, bfOb, bfGc, robbed>>
  BY DEF AbsorbSkips
<1>2. /\ bfWalk' \in WalkRec /\ bfWalk'.left = bfWalk.left \ {k} /\ bfWalk'.snap = bfWalk.snap
      /\ bfWalk'.pending = bfWalk.pending /\ bfWalk'.pc = "walk"
  BY <1>1, BfFacts DEF BfInv, BfTyped, WalkRec
<1>3. BfTyped'
  BY <1>1, <1>2, StaysSafeTyped DEF BfInv, BfTyped, Contexts
<1>4. Reclaiming' /\ Intact' /\ Adopted'
  BY <1>1 DEF BfInv, Reclaiming, Intact, Adopted, Kept, Named
<1>5. Putting'
  BY <1>1, StaysSafePutting DEF BfInv, Putting, Kept
<1>6. Walking'
  <2>1. \A j \in BfKey \ bare' : j # k /\ j \in BfKey \ bare
    BY <1>1
  <2> QED
    BY <1>1, <1>2, <2>1 DEF BfInv, Walking, Named, Unabsorbed
<1> QED
  BY <1>3, <1>4, <1>5, <1>6 DEF BfInv

\* ... and the collector's.
LEMMA GcSkipsInv == ASSUME BfInv, NEW k \in BfKey, GcSkips(k) PROVE BfInv'
<1>1. /\ bfGc' = bfBlobs \ (HeldBy(bfRows, BfKey \ {k}) \cup bfPut.fresh)
      /\ bare' = bare \cup {k} /\ bfPut' = StaysSafe(BfKey \ bare')
      /\ UNCHANGED <<streams, bfRows, bfBlobs, bfAssoc, bfState, backfilled, bfWalk, bfOb, robbed>>
  BY DEF GcSkips
<1>2. \A j \in BfKey \ {k} : \A p \in bfRows[j] : p \notin bfGc'
  BY <1>1 DEF HeldBy
<1>3. BfTyped'
  BY <1>1, StaysSafeTyped DEF BfInv, BfTyped, Contexts
<1>4. Reclaiming' /\ Adopted' /\ Walking'
  BY <1>1 DEF BfInv, Reclaiming, Adopted, Walking, Named, Unabsorbed
<1>5. Intact'
  BY <1>1, <1>2 DEF BfInv, Intact, Kept
<1>6. Putting'
  <2>1. \A p \in bfPut.fresh : Kept(p)'
    BY <1>1 DEF BfInv, Putting, Kept
  <2> QED
    BY <1>1, <2>1, StaysSafePutting
<1> QED
  BY <1>3, <1>4, <1>5, <1>6 DEF BfInv

\* A pass of the collector keeps what manifests or, once adopted, rows name.
LEMMA GcBeginsInv == ASSUME BfInv, GcBegins PROVE BfInv'
<1>1. /\ bfGc' = bfBlobs \ (GcLive \cup bfPut.fresh)
      /\ UNCHANGED <<streams, bfRows, bfBlobs, bfAssoc, bfState, backfilled, bfWalk, bfPut, bfOb, bare, robbed>>
  BY DEF GcBegins
<1>2. \A k \in BfKey \ bare : \A p \in bfRows[k] : p \notin bfGc'
  <2> SUFFICES ASSUME NEW k \in BfKey \ bare, NEW p \in bfRows[k]
               PROVE  p \in GcLive
    BY <1>1
  <2>1. CASE backfilled
    <3>1. Named(k, p)
      BY <2>1 DEF BfInv, Adopted
    <3>2. GcLive = {a[2] : a \in bfAssoc}
      BY <2>1 DEF GcLive
    <3>3. \E a \in bfAssoc : a[2] = p
      BY <3>1, PairSecond DEF Named
    <3> QED
      BY <3>2, <3>3
  <2>2. CASE ~backfilled
    BY <2>2 DEF GcLive, HeldBy
  <2> QED
    BY <2>1, <2>2
<1>3. BfTyped'
  BY <1>1 DEF BfInv, BfTyped, Contexts
<1>4. Reclaiming' /\ Adopted' /\ Walking'
  BY <1>1 DEF BfInv, Reclaiming, Adopted, Walking, Named, Unabsorbed
<1>5. Intact' /\ Putting'
  BY <1>1, <1>2 DEF BfInv, Intact, Putting, Kept
<1> QED
  BY <1>3, <1>4, <1>5 DEF BfInv

\* It takes what nothing holds.
LEMMA GcSweepsInv == ASSUME BfInv, NEW p \in BfPack, GcSweeps(p) PROVE BfInv'
<1>1. /\ p \in bfGc /\ bfGc' = bfGc \ {p} /\ bfBlobs' = bfBlobs \ {p}
      /\ UNCHANGED <<streams, bfRows, bfAssoc, bfState, backfilled, bfWalk, bfPut, bfOb, bare, robbed>>
  BY DEF GcSweeps
<1>2. \A q : Kept(q) => Kept(q)'
  BY <1>1 DEF Kept
<1>3. BfTyped'
  BY <1>1 DEF BfInv, BfTyped, Contexts
<1>4. Reclaiming' /\ Adopted' /\ Walking'
  BY <1>1 DEF BfInv, Reclaiming, Adopted, Walking, Named, Unabsorbed
<1>5. Intact' /\ Putting'
  BY <1>1, <1>2 DEF BfInv, Intact, Putting
<1> QED
  BY <1>3, <1>4, <1>5 DEF BfInv

\* A Put finds packs or uploads them.
LEMMA PutPacksInv ==
    ASSUME BfInv, NEW k \in BfKey, NEW ps \in SUBSET BfPack, PutPacks(k, ps)
    PROVE  BfInv'
<1> DEFINE s == ps \cap bfBlobs \subseteq HeldBy(bfRows, BfKey \ bare)
<1>1. /\ bfBlobs' = bfBlobs \cup ps /\ bfGc' = bfGc \ (ps \ bfBlobs)
      /\ bfPut' = [pc |-> "associate", key |-> k, packs |-> ps, fresh |-> ps \ bfBlobs, safe |-> s]
      /\ UNCHANGED <<streams, bfRows, bfAssoc, bfState, backfilled, bfWalk, bfOb, bare, robbed>>
  BY DEF PutPacks
<1>2. s \in BOOLEAN
  BY SMT
<1>3. s => \A p \in ps \cap bfBlobs : \E j \in BfKey \ bare : p \in bfRows[j]
  BY DEF HeldBy
<1> HIDE DEF s
<1>4. /\ bfPut' \in PutRec /\ bfPut'.pc = "associate" /\ bfPut'.key = k /\ bfPut'.packs = ps
      /\ bfPut'.fresh = ps \ bfBlobs /\ bfPut'.safe = s
  BY <1>1, <1>2 DEF PutRec
<1>5. \A p : Kept(p) => Kept(p)'
  BY <1>1 DEF Kept
<1>6. BfTyped'
  BY <1>1, <1>4 DEF BfInv, BfTyped, Contexts
<1>7. Reclaiming' /\ Adopted' /\ Walking'
  BY <1>1 DEF BfInv, Reclaiming, Adopted, Walking, Named, Unabsorbed
<1>8. Intact'
  BY <1>1, <1>5 DEF BfInv, Intact
<1>9. Putting'
  BY <1>1, <1>3, <1>4 DEF Putting, Kept
<1> QED
  BY <1>6, <1>7, <1>8, <1>9 DEF BfInv

\* It associates them with its key's context, or gives up.
LEMMA PutAssociatesInv == ASSUME BfInv, PutAssociates PROVE BfInv'
<1> DEFINE x == OwnerContext[bfPut.key]
<1>1. /\ bfPut.pc = "associate"
      /\ UNCHANGED <<streams, bfRows, bfBlobs, bfState, backfilled, bfWalk, bfOb, bfGc, bare, robbed>>
  BY DEF PutAssociates
<1>2. CASE bfPut' = NoPut /\ bfAssoc' = bfAssoc
  <2>1. BfTyped' /\ Putting'
    BY <1>1, <1>2, NoneTyped DEF BfInv, BfTyped, Putting, Contexts
  <2>2. Reclaiming' /\ Intact' /\ Walking' /\ Adopted'
    BY <1>1, <1>2 DEF BfInv, Reclaiming, Intact, Walking, Adopted, Kept, Named, Unabsorbed
  <2> QED
    BY <2>1, <2>2 DEF BfInv
<1>3. CASE /\ ~BatchRefused({x} \X bfPut.packs) /\ bfAssoc' = bfAssoc \cup ({x} \X bfPut.packs)
           /\ bfPut' = [bfPut EXCEPT !.pc = "write"]
  <2>1. /\ bfPut' \in PutRec /\ bfPut'.pc = "write" /\ bfPut'.key = bfPut.key /\ bfPut'.packs = bfPut.packs
        /\ bfPut'.fresh = bfPut.fresh /\ bfPut'.safe = bfPut.safe
    BY <1>3 DEF BfInv, BfTyped, PutRec
  <2>2. x \in Contexts
    BY <1>1 DEF BfInv, Putting, Contexts
  <2>3. bfPut.packs \subseteq BfPack
    BY BfFacts
  <2> HIDE DEF x
  <2>4. {x} \X bfPut.packs \subseteq Contexts \X BfPack /\ \A p \in bfPut.packs : <<x, p>> \in {x} \X bfPut.packs
    BY SMT, <2>2, <2>3
  <2>5. BfTyped'
    BY <1>1, <1>3, <2>1, <2>4 DEF BfInv, BfTyped, Contexts
  <2>6. Reclaiming'
    <3>1. \A a \in {x} \X bfPut.packs : bfState[a[2]] = "stored"
      BY <1>3 DEF BatchRefused
    <3> QED
      BY <1>1, <1>3, <3>1 DEF BfInv, Reclaiming
  <2>7. Intact' /\ Walking' /\ Adopted'
    BY <1>1, <1>3 DEF BfInv, Intact, Walking, Adopted, Kept, Named, Unabsorbed
  <2>8. Putting'
    <3>1. OwnerContext[bfPut'.key] = x
      BY <2>1 DEF x
    <3>2. \A p \in bfPut'.packs : <<x, p>> \in bfAssoc'
      BY <1>3, <2>1, <2>4
    <3> QED
      BY <1>1, <2>1, <3>1, <3>2 DEF BfInv, Putting, Kept
  <2> QED
    BY <2>5, <2>6, <2>7, <2>8 DEF BfInv
<1> QED
  BY <1>2, <1>3 DEF PutAssociates

\* It writes its manifest: the key is the associations' again, if the Put was safe.
LEMMA PutWritesInv == ASSUME BfInv, PutWrites PROVE BfInv'
<1> DEFINE k == bfPut.key
<1>1. /\ bfPut.pc = "write" /\ bfPut' = NoPut /\ bfRows' = [bfRows EXCEPT ![k] = bfPut.packs]
      /\ bare' = IF bfPut.safe THEN bare \ {k} ELSE bare \cup {k}
      /\ UNCHANGED <<streams, bfBlobs, bfAssoc, bfState, backfilled, bfWalk, bfOb, bfGc, robbed>>
  BY DEF PutWrites
<1>2. /\ k \in BfKey /\ bfPut.packs \subseteq BfPack
  BY <1>1, BfFacts DEF BfInv, Putting
<1>3. /\ bfRows' \in [BfKey -> SUBSET BfPack] /\ bfRows'[k] = bfPut.packs
      /\ \A j \in BfKey \ {k} : bfRows'[j] = bfRows[j]
  BY <1>1, <1>2 DEF BfInv, BfTyped
<1>4. bfPut.safe => \A p \in bfPut.packs : Kept(p) /\ Named(k, p)
  BY <1>1 DEF BfInv, Putting, Intact, Named
<1>5. \A j \in BfKey \ bare' : (j = k /\ bfPut.safe) \/ (j # k /\ j \in BfKey \ bare)
  BY <1>1
<1> HIDE DEF k
<1>6. BfTyped'
  BY <1>1, <1>2, <1>3, NoneTyped DEF BfInv, BfTyped, Contexts
<1>7. Reclaiming' /\ Putting'
  BY <1>1, NoneTyped DEF BfInv, Reclaiming, Putting
<1>8. Intact'
  <2>1. \A j \in BfKey \ bare' : \A p \in bfRows'[j] : Kept(p)
    BY <1>3, <1>4, <1>5 DEF BfInv, Intact
  <2> QED
    BY <1>1, <2>1 DEF Intact, Kept
<1>9. Adopted'
  BY <1>1, <1>3, <1>4, <1>5 DEF BfInv, Adopted, Named
<1>10. Walking'
  <2>1. \A j \in BfKey \ bare' : \A p \in bfRows'[j] : (j = k /\ Named(j, p)) \/ (j # k /\ j \in BfKey \ bare /\ p \in bfRows[j])
    BY <1>3, <1>4, <1>5
  <2> QED
    BY <1>1, <1>3, <2>1 DEF BfInv, Walking, Named, Unabsorbed
<1> QED
  BY <1>6, <1>7, <1>8, <1>9, <1>10 DEF BfInv

\* A manifest goes.
LEMMA DeleteKeyInv == ASSUME BfInv, NEW k \in BfKey, DeleteKey(k) PROVE BfInv'
<1>1. /\ bfRows' = [bfRows EXCEPT ![k] = {}] /\ bfPut' = StaysSafe(BfKey \ (bare \cup {k}))
      /\ UNCHANGED <<streams, bfBlobs, bfAssoc, bfState, backfilled, bfWalk, bfOb, bfGc, bare, robbed>>
  BY DEF DeleteKey
<1>2. /\ bfRows' \in [BfKey -> SUBSET BfPack] /\ bfRows'[k] = {}
      /\ \A j \in BfKey \ {k} : bfRows'[j] = bfRows[j]
  BY <1>1 DEF BfInv, BfTyped
<1>3. BfTyped'
  BY <1>1, <1>2, StaysSafeTyped DEF BfInv, BfTyped, Contexts
<1>4. Reclaiming'
  BY <1>1 DEF BfInv, Reclaiming
<1>5. Intact' /\ Adopted' /\ Walking'
  BY <1>1, <1>2 DEF BfInv, Intact, Adopted, Walking, Kept, Named, Unabsorbed
<1>6. Putting'
  <2>1. bfPut'.safe => \A p \in bfPut.packs \ bfPut.fresh : \E j \in BfKey \ (bare \cup {k}) : p \in bfRows[j]
    BY <1>1, StaysSafeTyped
  <2>2. bfPut'.safe => \A p \in bfPut.packs \ bfPut.fresh : \E j \in BfKey \ bare : p \in bfRows'[j]
    BY <1>2, <2>1
  <2> QED
    BY <1>1, <2>2, StaysSafeTyped DEF BfInv, Putting, Kept
<1> QED
  BY <1>3, <1>4, <1>5, <1>6 DEF BfInv

\* A manifest is registered over packs of another.
LEMMA RegisterKeyInv == ASSUME BfInv, NEW k \in BfKey, NEW from \in BfKey, RegisterKey(k, from) PROVE BfInv'
<1>1. /\ bfRows[k] = {} /\ bfRows' = [bfRows EXCEPT ![k] = bfRows[from]] /\ bare' = bare \cup {k}
      /\ UNCHANGED <<streams, bfBlobs, bfAssoc, bfState, backfilled, bfWalk, bfPut, bfOb, bfGc, robbed>>
  BY DEF RegisterKey
<1>2. /\ bfRows' \in [BfKey -> SUBSET BfPack]
      /\ \A j \in BfKey \ {k} : bfRows'[j] = bfRows[j]
  BY <1>1 DEF BfInv, BfTyped
<1>3. BfTyped'
  BY <1>1, <1>2 DEF BfInv, BfTyped, Contexts
<1>4. Reclaiming'
  BY <1>1 DEF BfInv, Reclaiming
<1>5. Intact' /\ Adopted' /\ Walking'
  BY <1>1, <1>2 DEF BfInv, Intact, Adopted, Walking, Kept, Named, Unabsorbed
<1>6. Putting'
  BY <1>1, <1>2 DEF BfInv, Putting, Kept
<1> QED
  BY <1>3, <1>4, <1>5, <1>6 DEF BfInv

\* The rows of a context go: its keys are not the associations' any more.
LEMMA DropRowsInv ==
    ASSUME BfInv, NEW x, DropRows(x), bfOb' \in ObRec, \A p \in bfOb'.marks : p \in bfOb.marks,
           UNCHANGED <<streams, bfRows, bfBlobs, bfState, backfilled, bfWalk, bfGc, robbed>>
    PROVE  BfInv'
<1> DEFINE r == StaysSafe(BfKey \ bare')
<1> DEFINE s == r.safe /\ bfPut.key \notin ContextOf(x)
<1>1. /\ bfAssoc' = {a \in bfAssoc : a[1] # x}
      /\ bare' = bare \cup {k \in ContextOf(x) : bfRows[k] # {}}
      /\ bfPut' = [r EXCEPT !.safe = s]
  BY DEF DropRows
<1>2. /\ r \in PutRec /\ r.pc = bfPut.pc /\ r.key = bfPut.key /\ r.packs = bfPut.packs /\ r.fresh = bfPut.fresh
      /\ r.safe => bfPut.safe /\ \A p \in bfPut.packs \ bfPut.fresh : \E k \in BfKey \ bare' : p \in bfRows[k]
  BY StaysSafeTyped
<1>3. s \in BOOLEAN
  BY SMT
<1>4. s => r.safe /\ bfPut.key \notin ContextOf(x)
  OBVIOUS
<1> HIDE DEF s, r
<1>5. /\ bfPut' \in PutRec /\ bfPut'.pc = bfPut.pc /\ bfPut'.key = bfPut.key /\ bfPut'.packs = bfPut.packs
      /\ bfPut'.fresh = bfPut.fresh /\ bfPut'.safe = s
  BY <1>1, <1>2, <1>3 DEF PutRec
<1>6. \A k, p : <<k, p>> \in bfAssoc /\ k # x => <<k, p>> \in bfAssoc'
  <2>1. \A k, p : <<k, p>>[1] = k
    BY SMT
  <2> QED
    BY <1>1, <2>1
<1>7. ContextOf(x) \subseteq BfKey /\ \A k \in BfKey \ ContextOf(x) : x # k /\ x # OwnerContext[k]
  BY DEF ContextOf
<1>8. \A k \in BfKey \ bare' : \A p \in bfRows[k] : k \in BfKey \ bare /\ (Named(k, p) => Named(k, p)')
  BY <1>1, <1>6, <1>7 DEF Named
<1>9. BfTyped'
  BY <1>1, <1>5, <1>7 DEF BfInv, BfTyped, Contexts
<1>10. Reclaiming'
  BY <1>1 DEF BfInv, Reclaiming
<1>11. Intact'
  BY <1>8 DEF BfInv, Intact, Kept
<1>12. Adopted'
  BY <1>8 DEF BfInv, Adopted
<1>13. Walking'
  BY <1>8 DEF BfInv, Walking, Unabsorbed
<1>14. Putting'
  <2>1. bfPut.key \in BfKey /\ s => OwnerContext[bfPut.key] # x
    BY <1>4, <1>7
  <2>2. bfPut'.pc = "write" /\ bfPut'.safe =>
            \A p \in bfPut'.packs : <<OwnerContext[bfPut'.key], p>> \in bfAssoc'
    <3>1. bfPut.pc = "write" /\ s => \A p \in bfPut.packs : <<OwnerContext[bfPut.key], p>> \in bfAssoc
      BY <1>2, <1>4 DEF BfInv, Putting
    <3>2. bfPut.pc = "write" => bfPut.key \in BfKey
      BY DEF BfInv, Putting
    <3> QED
      BY <1>5, <1>6, <2>1, <3>1, <3>2
  <2>3. bfPut'.safe => \A p \in bfPut'.packs \ bfPut'.fresh : \E k \in BfKey \ bare' : p \in bfRows'[k]
    BY <1>2, <1>4, <1>5
  <2>4. /\ bfPut'.pc # "idle" => bfPut'.key \in BfKey
        /\ \A p \in bfPut'.fresh : Kept(p)'
    BY <1>5 DEF BfInv, Putting, Kept
  <2> QED
    BY <2>2, <2>3, <2>4 DEF Putting
<1> QED
  BY <1>9, <1>10, <1>11, <1>12, <1>13, <1>14 DEF BfInv

LEMMA ObDropInv ==
    ASSUME BfInv, ObDropAgain \/ \E x \in Contexts : ObDrop(x)
    PROVE  BfInv'
<1>1. CASE ObDropAgain
  <2>1. /\ DropRows(bfOb.ctx) /\ bfOb' = [bfOb EXCEPT !.pc = "finish"]
        /\ UNCHANGED <<streams, bfRows, bfBlobs, bfState, backfilled, bfWalk, bfGc, robbed>>
    BY <1>1 DEF ObDropAgain
  <2>2. bfOb' \in ObRec /\ bfOb'.marks = bfOb.marks
    BY <2>1 DEF BfInv, BfTyped, ObRec
  <2> QED
    BY <2>1, <2>2, DropRowsInv
<1>2. ASSUME NEW x \in Contexts, ObDrop(x)
      PROVE  BfInv'
  <2> DEFINE T == {p \in BfPack : <<x, p>> \in bfAssoc}
  <2>1. /\ DropRows(x) /\ bfOb' = [pc |-> "mark", ctx |-> x, todo |-> T, marks |-> {}]
        /\ UNCHANGED <<streams, bfRows, bfBlobs, bfState, backfilled, bfWalk, bfGc, robbed>>
    BY <1>2 DEF ObDrop
  <2>2. T \subseteq BfPack
    OBVIOUS
  <2> HIDE DEF T
  <2>3. bfOb' \in ObRec /\ bfOb'.marks = {}
    BY <2>1, <2>2 DEF ObRec
  <2> QED
    BY <2>1, <2>3, DropRowsInv
<1> QED
  BY <1>1, <1>2

\* A step of the reclaimer that keeps the rows and what is present.
LEMMA ObStep ==
    ASSUME BfInv, UNCHANGED <<streams, bfRows, bfAssoc, backfilled, bfWalk, bfPut, bfGc, bare>>,
           bfBlobs' \subseteq BfPack, bfState' \in [BfPack -> {"stored", "obliterating", "obliterated"}],
           bfOb' \in ObRec, robbed' \subseteq BfPack, Reclaiming', \A p \in BfPack : Kept(p) => Kept(p)'
    PROVE  BfInv'
<1>1. BfTyped'
  BY DEF BfInv, BfTyped, Contexts
<1>2. Adopted' /\ Walking'
  BY DEF BfInv, Adopted, Walking, Named, Unabsorbed
<1>3. Intact'
  BY DEF BfInv, BfTyped, Intact
<1>4. Putting'
  BY BfFacts DEF BfInv, Putting
<1> QED
  BY <1>1, <1>2, <1>3, <1>4 DEF BfInv

LEMMA ObMarkInv == ASSUME BfInv, NEW p \in BfPack, ObMark(p) PROVE BfInv'
<1> DEFINE marks == IF bfState[p] = "stored" THEN bfOb.marks \cup {p} ELSE bfOb.marks
<1>1. /\ bfOb' = [bfOb EXCEPT !.todo = @ \ {p}, !.marks = marks]
      /\ bfState' = [bfState EXCEPT ![p] = IF @ = "stored" THEN "obliterating" ELSE @]
      /\ UNCHANGED <<streams, bfRows, bfBlobs, bfAssoc, backfilled, bfWalk, bfPut, bfGc, bare, robbed>>
  BY DEF ObMark
<1>2. /\ bfState' \in [BfPack -> {"stored", "obliterating", "obliterated"}]
      /\ bfState'[p] = (IF bfState[p] = "stored" THEN "obliterating" ELSE bfState[p])
      /\ \A q \in BfPack \ {p} : bfState'[q] = bfState[q]
  BY <1>1 DEF BfInv, BfTyped
<1>3. marks \subseteq BfPack /\ \A q \in marks : bfState'[q] = "obliterating"
  BY <1>2, BfFacts DEF BfInv, Reclaiming
<1> HIDE DEF marks
<1>4. bfOb' \in ObRec /\ bfOb'.marks = marks
  BY <1>1, <1>3, BfFacts DEF BfInv, BfTyped, ObRec
<1>5. \A q \in BfPack : bfState'[q] = "obliterated" <=> bfState[q] = "obliterated"
  BY <1>2
<1>6. Reclaiming'
  BY <1>1, <1>3, <1>4, <1>5, PairTyped DEF BfInv, BfTyped, Reclaiming
<1>7. \A q \in BfPack : Kept(q) => Kept(q)'
  BY <1>1, <1>5 DEF Kept
<1> QED
  BY <1>1, <1>2, <1>4, <1>6, <1>7, ObStep DEF BfInv, BfTyped

LEMMA ObFinishInv == ASSUME BfInv, NEW p \in BfPack, ObFinish(p) PROVE BfInv'
<1>1. /\ p \in bfOb.marks /\ bfOb' = [bfOb EXCEPT !.marks = @ \ {p}]
      /\ UNCHANGED <<streams, bfRows, bfAssoc, backfilled, bfWalk, bfPut, bfGc, bare>>
  BY DEF ObFinish
<1>2. bfOb' \in ObRec /\ bfOb'.marks = bfOb.marks \ {p}
  BY <1>1, BfFacts DEF BfInv, BfTyped, ObRec
<1>3. bfState[p] = "obliterating"
  BY <1>1 DEF BfInv, Reclaiming
<1>4. CASE bfState' = [bfState EXCEPT ![p] = "stored"] /\ UNCHANGED <<bfBlobs, robbed>>
  <2>1. /\ bfState' \in [BfPack -> {"stored", "obliterating", "obliterated"}] /\ bfState'[p] = "stored"
        /\ \A q \in BfPack \ {p} : bfState'[q] = bfState[q]
    BY <1>4 DEF BfInv, BfTyped
  <2>2. Reclaiming'
    BY <1>1, <1>2, <1>4, <2>1, BfFacts, PairTyped DEF BfInv, BfTyped, Reclaiming
  <2>3. \A q \in BfPack : Kept(q) => Kept(q)'
    BY <1>1, <1>3, <1>4, <2>1 DEF Kept
  <2> QED
    BY <1>1, <1>2, <1>4, <2>1, <2>2, <2>3, ObStep DEF BfInv, BfTyped
<1>5. CASE /\ ~\E a \in bfAssoc : a[2] = p
           /\ bfState' = [bfState EXCEPT ![p] = "obliterated"] /\ bfBlobs' = bfBlobs \ {p}
           /\ robbed' = robbed \cup {p}
  <2>1. /\ bfState' \in [BfPack -> {"stored", "obliterating", "obliterated"}] /\ bfState'[p] = "obliterated"
        /\ \A q \in BfPack \ {p} : bfState'[q] = bfState[q]
    BY <1>5 DEF BfInv, BfTyped
  <2>2. Reclaiming'
    BY <1>1, <1>2, <1>5, <2>1, BfFacts, PairTyped DEF BfInv, BfTyped, Reclaiming
  <2>3. \A q \in BfPack : Kept(q) => Kept(q)'
    BY <1>1, <1>5, <2>1 DEF Kept
  <2> QED
    BY <1>1, <1>2, <1>5, <2>1, <2>2, <2>3, ObStep DEF BfInv, BfTyped
<1> QED
  BY <1>4, <1>5 DEF ObFinish

LEMMA ObReturnsInv == ASSUME BfInv, ObReturns PROVE BfInv'
<1>1. /\ bfOb' = NoOb
      /\ UNCHANGED <<streams, bfRows, bfBlobs, bfAssoc, bfState, backfilled, bfWalk, bfPut, bfGc, bare, robbed>>
  BY DEF ObReturns
<1>2. Reclaiming'
  BY <1>1, NoneTyped DEF BfInv, Reclaiming
<1>3. \A q \in BfPack : Kept(q) => Kept(q)'
  BY <1>1 DEF Kept
<1> QED
  BY <1>1, <1>2, <1>3, NoneTyped, ObStep DEF BfInv, BfTyped

LEMMA BfStepInv == BfInv /\ [BfNext]_bfVars => BfInv'
<1> SUFFICES ASSUME BfInv, [BfNext]_bfVars
             PROVE  BfInv'
  OBVIOUS
<1>1. CASE WalkBegins \/ FlushBatch \/ MarkBackfilled \/ WalkFails
  BY <1>1, WalkBeginsInv, FlushBatchInv, WalkEndsInv
<1>2. CASE \E k \in BfKey : Absorb(k) \/ AbsorbSkips(k) \/ DeleteKey(k) \/ GcSkips(k)
  BY <1>2, AbsorbInv, AbsorbSkipsInv, DeleteKeyInv, GcSkipsInv
<1>3. CASE (\E k \in BfKey, ps \in SUBSET BfPack \ {{}} : PutPacks(k, ps)) \/ PutAssociates \/ PutWrites
  BY <1>3, PutPacksInv, PutAssociatesInv, PutWritesInv
<1>4. CASE \E k, from \in BfKey : RegisterKey(k, from)
  BY <1>4, RegisterKeyInv
<1>5. CASE (\E x \in Contexts : ObDrop(x)) \/ ObDropAgain \/ ObReturns
  BY <1>5, ObDropInv, ObReturnsInv
<1>6. CASE (\E p \in BfPack : ObMark(p) \/ ObFinish(p) \/ GcSweeps(p)) \/ GcBegins
  BY <1>6, ObMarkInv, ObFinishInv, GcSweepsInv, GcBeginsInv
<1>7. CASE UNCHANGED bfVars
  <2>1. UNCHANGED <<streams, bfRows, bfBlobs, bfAssoc, bfState, backfilled, bfWalk, bfPut, bfOb, bfGc, bare, robbed>>
    BY <1>7 DEF bfVars
  <2>2. Walking' /\ Adopted'
    BY <2>1 DEF BfInv, Walking, Adopted, Named, Unabsorbed
  <2> QED
    BY <2>1, <2>2, WalkStep DEF BfInv, BfTyped
<1> QED
  BY <1>1, <1>2, <1>3, <1>4, <1>5, <1>6, <1>7 DEF BfNext

\* However the backfill of associations interleaves with Puts, deletions,
\* reclamations and the collector, and wherever it fails, no pack of a manifest
\* that the associations stand for is collected, and after the marker each of
\* them is stored and associated (BackfillAssociations, liveFromAssociations).
THEOREM BackfillStaysSound == BfSpec => []BackfillSound
  BY BfInitInv, BfStepInv, BfInvSound, PTL DEF BfSpec

=============================================================================
