---------------------------- MODULE SweepProofs ----------------------------
(***************************************************************************)
(* The sweeping collector and compaction take nothing that is covered, for *)
(* every set of chunks, keys and Puts and every window that outlasts a Put *)
(* and a pass together; compaction costs no key its last version.          *)
(*                                                                         *)
(* The argument: a pack that a safe manifest pins is in the pass's live    *)
(* set, or was made by a Put or a compaction whose manifest came after the *)
(* mark and is therefore younger than MaxPut and the pass together, which  *)
(* is less than the window.  A rewritten manifest references what the old  *)
(* one did and what the compaction made or found kept.                     *)
(***************************************************************************)
EXTENDS Compaction, TLAPS

\* Most steps are first-order; those about numbers or data cite SMT.
USE Zenon

Blank == [c \in Chunk |-> NoPack]

\* A running Put has a key of its own, and so has a RegisterRef call; a call that
\* is not running holds nothing.
KeysApart ==
    /\ \A w \in Writer : IF wpc[w] = "idle" THEN wctx[w] = NoContext /\ refs[w] = Blank /\ made[w] = {}
                         ELSE wctx[w] \in Context
    /\ IF bpc = "idle" THEN bctx = NoContext /\ brefs = Blank ELSE bctx \in Context
    /\ \A m \in manifests : m.ctx # bctx /\ \A w \in Writer : m.ctx # wctx[w]
    /\ \A w \in Writer : /\ wctx[w] = NoContext \/ wctx[w] # bctx
                         /\ \A v \in Writer : v # w => wctx[w] = NoContext \/ wctx[w] # wctx[v]

\* What no pass in progress can take: referenced blobs that are live to it, or too
\* young for it.
Kept == {p \in blobs : Referenced(p) /\ (gpc # "idle" => p \in glive \/ age[p] <= MaxPut + gtime)}

\* A call that is not racy relies only on what it made itself and on what is kept.
CallsCovered ==
    /\ \A w \in Writer : w \notin racy => PacksOf(refs[w]) \subseteq made[w] \union Kept
    /\ bctx \notin racy => PacksOf(brefs) \subseteq Kept

\* What a Put made is there, and no older than the Put.
MadeYoung == \A w \in Writer : \A p \in made[w] : p \in blobs /\ age[p] <= busy[w]

\* What a manifest references, or is about to, has an association.
AllAssociated == UseAssoc =>
    /\ \A m \in manifests : \A p \in PacksOf(m.refs) : Associated(p)
    /\ \A p \in PacksOf(brefs) : Associated(p)
    /\ \A w \in Writer : wpc[w] = "manifest" => \A p \in PacksOf(refs[w]) : Associated(p)

\* What a pass is about to delete is neither live to it nor young.
VictimAged == gpc \in {"purge", "delete"} => gcur \in blobs \ glive /\ age[gcur] >= Window

SweepInv ==
    /\ SweepSpares /\ Pinned \subseteq Kept
    /\ KeysApart /\ CallsCovered /\ MadeYoung /\ AllAssociated /\ VictimAged

----------------------------------------------------------------------------
(* Facts about the operators.                                               *)

\* A pack is never the blank location; a non-empty buffer is a pack.
LEMMA PackFacts ==
    /\ NoPack \in Loc /\ NoPack \notin Pack
    /\ \A p \in Loc : p # NoPack => p \in Pack
    /\ \A s \in SUBSET Chunk : s # {} => s \in Pack /\ s \in Loc
    /\ Blank \in [Chunk -> Loc]
BY DEF Pack, Loc, NoPack, Blank

\* What a chunk list references.
LEMMA PacksOfFacts ==
    /\ PacksOf(Blank) = {}
    /\ \A f \in [Chunk -> Loc] : PacksOf(f) \subseteq Pack
    /\ \A f, p : p \in PacksOf(f) <=> p # NoPack /\ \E c \in Chunk : f[c] = p
BY PackFacts DEF PacksOf, Blank

\* What is pinned, before and after a step.
LEMMA PinnedFacts ==
    /\ \A p : p \in Pinned <=> \E m \in manifests : m.ctx \notin racy /\ p \in PacksOf(m.refs)
    /\ \A p : p \in Pinned' <=> \E m \in manifests' : m.ctx \notin racy' /\ p \in PacksOf(m.refs)
BY DEF Pinned

\* Being readable while covered follows from keeping what is pinned.
LEMMA CoveredFacts ==
    /\ Pinned \subseteq Kept => CoveredReadable
    /\ (Pinned \subseteq Kept)' => CoveredReadable'
BY PinnedFacts DEF CoveredReadable, Kept

\* What is kept stays kept when nothing is deleted and no time passes.
LEMMA KeptGrows ==
    ASSUME blobs \subseteq blobs', manifests \subseteq manifests', UNCHANGED <<gpc, glive, gtime>>,
           \A p \in blobs : age'[p] = age[p]
    PROVE  Kept \subseteq Kept'
BY DEF Kept, Referenced

\* Marks on calls, and on keys that have no manifest, pin and unpin nothing.
LEMMA PinnedSame ==
    ASSUME UNCHANGED manifests, \A m \in manifests : m.ctx \in racy' <=> m.ctx \in racy
    PROVE  Pinned' = Pinned
BY PinnedFacts

\* What the type invariant says of the state a Put or a call works on.
LEMMA Types ==
    ASSUME TypeOK
    PROVE  /\ blobs \subseteq Pack /\ index \in [Chunk -> Loc] /\ assoc \subseteq Context \X Pack
           /\ \A m \in manifests : m.ctx \in Context /\ m.refs \in [Chunk -> Loc]
           /\ refs \in [Writer -> [Chunk -> Loc]] /\ buf \in [Writer -> SUBSET Chunk]
           /\ age \in [Pack -> 0 .. Window] /\ busy \in [Writer -> 0 .. MaxPut]
           /\ made \in [Writer -> SUBSET Pack] /\ gtime \in 0 .. MaxPass
           /\ brefs \in [Chunk -> Loc]
BY DEF TypeOK, PSTypeOK

----------------------------------------------------------------------------
(* The parts of the invariant under steps that leave their state alone.     *)

\* Keys stay apart while the calls and the manifests stay.
LEMMA KeysFrame ==
    ASSUME KeysApart, UNCHANGED <<wpc, wctx, refs, made, bridgeVars, manifests>>
    PROVE  KeysApart'
BY DEF KeysApart, bridgeVars

\* Calls stay covered while what is kept and what is marked only grows.
LEMMA CallsFrame ==
    ASSUME CallsCovered, UNCHANGED <<refs, made, brefs, bctx>>, Kept \subseteq Kept', racy \subseteq racy'
    PROVE  CallsCovered'
BY DEF CallsCovered

\* What a Put made stays young while no time passes and nothing is deleted.
LEMMA MadeFrame ==
    ASSUME MadeYoung, UNCHANGED <<made, age, busy>>, blobs \subseteq blobs'
    PROVE  MadeYoung'
BY DEF MadeYoung

\* Associations are never dropped here.
LEMMA AssocFrame ==
    ASSUME AllAssociated, UNCHANGED <<manifests, brefs, wpc, refs>>, assoc \subseteq assoc'
    PROVE  AllAssociated'
BY DEF AllAssociated, Associated

\* A victim stays one while nothing is deleted and no time passes.
LEMMA VictimFrame ==
    ASSUME VictimAged, UNCHANGED <<sweepVars, age>>, blobs \subseteq blobs'
    PROVE  VictimAged'
BY DEF VictimAged, sweepVars

\* The invariant taken apart, and put together again.
LEMMA Parts ==
    /\ SweepInv => /\ TypeOK /\ Pinned \subseteq Kept /\ KeysApart /\ CallsCovered
                   /\ MadeYoung /\ AllAssociated /\ VictimAged
    /\ TypeOK' /\ (Pinned \subseteq Kept)' /\ KeysApart' /\ CallsCovered' /\ MadeYoung'
         /\ AllAssociated' /\ VictimAged' => SweepInv'
BY CoveredFacts DEF SweepInv, SweepSpares, UploadsKept, MadeYoung

----------------------------------------------------------------------------
(* The steps of a Put.                                                      *)

\* The empty store, no call running.
LEMMA InitSweep == Init => SweepInv
<1> SUFFICES ASSUME Init PROVE SweepInv
  OBVIOUS
<1> USE PackFacts, PacksOfFacts, BoundsAssumption, TimesAssumption DEF Init, PSInit
<1>1. TypeOK
  BY SMT DEF TypeOK, PSTypeOK, PackState, Blank
<1>2. CoveredReadable /\ UploadsKept /\ Pinned \subseteq Kept
  BY PinnedFacts DEF CoveredReadable, UploadsKept
<1>3. KeysApart
  BY DEF KeysApart, Blank
<1>4. CallsCovered
  BY DEF CallsCovered, Blank
<1>5. MadeYoung /\ VictimAged
  BY DEF MadeYoung, VictimAged
<1>6. AllAssociated
  BY DEF AllAssociated, Blank
<1> QED
  BY <1>1, <1>2, <1>3, <1>4, <1>5, <1>6 DEF SweepInv, SweepSpares

\* A Put starts on a key nobody uses, with nothing made and nothing relied on.
LEMMA BeginsSweep ==
    ASSUME SweepInv, NEW w \in Writer, PutBegins(w)
    PROVE  SweepInv' /\ Kept \subseteq Kept'
<1>0. TypeOK /\ Pinned \subseteq Kept /\ KeysApart /\ CallsCovered /\ MadeYoung /\ AllAssociated /\ VictimAged
  BY Parts
<1>1. PICK x \in Context, obj \in Objects : KeyFree(x) /\ Begin(w, x, obj)
  BY DEF PutBegins
<1>2. UNCHANGED <<storeVars, refs, timeVars, sweepVars, bridgeVars>>
  BY <1>1 DEF PutBegins, Begin
<1>3. Pinned' = Pinned /\ Kept \subseteq Kept'
  BY <1>2, PinnedSame, KeptGrows DEF storeVars, timeVars, sweepVars
<1>4. TypeOK'
  BY SMT, <1>0, <1>1, <1>2, ObjectsAssumption, BoundsAssumption
  DEF TypeOK, PSTypeOK, Begin, storeVars, timeVars, sweepVars, bridgeVars
<1>5. KeysApart'
  <2>1. wpc' = [wpc EXCEPT ![w] = "emit"] /\ wctx' = [wctx EXCEPT ![w] = x] /\ x # NoContext
    BY <1>1, ContextAssumption DEF Begin
  <2>2. wpc \in [Writer -> {"idle", "emit", "associate", "insert", "manifest", "refused"}]
        /\ wctx \in [Writer -> Context \union {NoContext}]
    BY <1>0 DEF TypeOK, PSTypeOK
  <2> QED
    BY <1>0, <1>1, <1>2, <2>1, <2>2 DEF KeysApart, KeyFree, storeVars, timeVars, bridgeVars
<1>6. AllAssociated'
  <2>1. \A v \in Writer : wpc'[v] = "manifest" => wpc[v] = "manifest"
    BY <1>0, <1>1 DEF Begin, TypeOK, PSTypeOK
  <2> QED
    BY <1>0, <1>2, <2>1 DEF AllAssociated, Associated, storeVars, bridgeVars
<1>7. CallsCovered' /\ MadeYoung' /\ VictimAged'
  BY <1>0, <1>2, <1>3, CallsFrame, MadeFrame, VictimFrame DEF storeVars, timeVars, bridgeVars, sweepVars
<1> QED
  BY <1>0, <1>2, <1>3, <1>4, <1>5, <1>6, <1>7, Parts DEF storeVars

\* A chunk found in the index: the Put made that pack, or a safe manifest pins it,
\* or the Put is marked.
LEMMA EmitsSweep ==
    ASSUME SweepInv, NEW w \in Writer, PutEmits(w)
    PROVE  SweepInv' /\ Kept \subseteq Kept'
<1>0. TypeOK /\ Pinned \subseteq Kept /\ KeysApart /\ CallsCovered /\ MadeYoung /\ AllAssociated /\ VictimAged
  BY Parts
<1>1. PICK c \in Chunk :
        /\ Emit(w, c)
        /\ IF LookupHit(c) /\ index[c] \notin made[w] THEN Relies(w, {index[c]}) ELSE UNCHANGED racy
  BY DEF PutEmits
<1>2. UNCHANGED <<storeVars, wpc, wctx, age, busy, made, sweepVars, bridgeVars>>
  BY <1>1 DEF PutEmits, Emit
<1>3. racy' \in {racy, racy \union {w}}
  BY <1>1 DEF Relies
<1>4. Pinned' = Pinned /\ Kept \subseteq Kept'
  BY <1>0, <1>2, <1>3, PinnedSame, KeptGrows, Types, NamesAssumption DEF storeVars, sweepVars
<1>5. refs' \in [Writer -> [Chunk -> Loc]] /\ \A v \in Writer : v # w => refs'[v] = refs[v]
  <2>1. [refs[w] EXCEPT ![c] = index[c]] \in [Chunk -> Loc]
    BY <1>0, Types
  <2>2. refs' \in {refs, [refs EXCEPT ![w] = [refs[w] EXCEPT ![c] = index[c]]]}
    BY <1>1 DEF Emit
  <2> QED
    BY <1>0, <2>1, <2>2, Types
<1>6. TypeOK'
  <2>1. /\ todo' \in [Writer -> SUBSET Chunk] /\ buf' \in [Writer -> SUBSET Chunk]
        /\ UNCHANGED <<packed, own, puts, faults>>
    BY SMT, <1>0, <1>1 DEF TypeOK, PSTypeOK, Emit
  <2>2. racy' \subseteq Writer \union Context
    BY <1>0, <1>3 DEF TypeOK
  <2> QED
    BY <1>0, <1>2, <1>5, <2>1, <2>2 DEF TypeOK, PSTypeOK, storeVars, sweepVars, bridgeVars
<1>7. wpc[w] = "emit"
  BY <1>1 DEF Emit
<1>8. KeysApart'
  BY <1>0, <1>2, <1>5, <1>7 DEF KeysApart, storeVars, bridgeVars
<1>9. CallsCovered'
  <2>1. ASSUME w \notin racy' PROVE PacksOf(refs'[w]) \subseteq made[w] \union Kept
    <3>1. w \notin racy /\ PacksOf(refs[w]) \subseteq made[w] \union Kept
      BY <1>0, <1>3, <2>1 DEF CallsCovered
    <3>2. CASE LookupHit(c)
      <4>1. index[c] \in made[w] \union Kept
        BY <1>0, <1>1, <2>1, <3>2 DEF Relies
      <4>2. \A d \in Chunk : refs'[w][d] \in {refs[w][d], index[c]}
        BY SMT, <1>0, <1>1, <3>2, Types DEF Emit
      <4> QED
        BY SMT, <3>1, <4>1, <4>2, PacksOfFacts
    <3>3. CASE ~LookupHit(c)
      BY <1>1, <3>1, <3>3 DEF Emit
    <3> QED
      BY <3>2, <3>3
  <2>2. ASSUME NEW v \in Writer, v # w, v \notin racy' PROVE PacksOf(refs'[v]) \subseteq made[v] \union Kept
    BY <1>0, <1>3, <1>5, <2>2 DEF CallsCovered
  <2>3. bctx \notin racy' => PacksOf(brefs) \subseteq Kept
    BY <1>0, <1>3 DEF CallsCovered
  <2> QED
    BY <1>2, <1>4, <2>1, <2>2, <2>3 DEF CallsCovered, bridgeVars
<1>10. AllAssociated'
  BY <1>0, <1>2, <1>5, <1>7 DEF AllAssociated, Associated, storeVars, bridgeVars
<1>11. MadeYoung' /\ VictimAged'
  BY <1>0, <1>2, <1>4, MadeFrame, VictimFrame DEF storeVars, sweepVars
<1> QED
  BY <1>0, <1>2, <1>4, <1>6, <1>8, <1>9, <1>10, <1>11, Parts DEF storeVars

\* A pack the Put uploads is new, and as young as can be; one that was there
\* already is pinned, or the Put is marked.
LEMMA FlushesSweep ==
    ASSUME SweepInv, NEW w \in Writer, PutFlushes(w)
    PROVE  SweepInv' /\ Kept \subseteq Kept'
<1>0. TypeOK /\ Pinned \subseteq Kept /\ KeysApart /\ CallsCovered /\ MadeYoung /\ AllAssociated /\ VictimAged
  BY Parts
<1> DEFINE b == buf[w]
<1>1. /\ wpc[w] = "emit" /\ b \in Pack /\ b \in Loc /\ b # NoPack
      /\ blobs' = blobs \union {b}
      /\ UNCHANGED <<index, pstate, assoc, manifests, wpc, wctx, busy, sweepVars, bridgeVars>>
  BY <1>0, Types, PackFacts DEF PutFlushes, Flush, FlushDue
<1>2. racy' \in {racy, racy \union {w}}
  BY DEF PutFlushes, Relies
<1>3. Pinned' = Pinned
  BY <1>0, <1>1, <1>2, PinnedSame, Types, NamesAssumption
<1>4. /\ refs' \in [Writer -> [Chunk -> Loc]]
      /\ \A v \in Writer : v # w => refs'[v] = refs[v]
      /\ \A d \in Chunk : refs'[w][d] \in {refs[w][d], b}
  <2>1. [d \in Chunk |-> IF d \in b THEN b ELSE refs[w][d]] \in [Chunk -> Loc]
    BY SMT, <1>0, <1>1, Types
  <2>2. refs' = [refs EXCEPT ![w] = [d \in Chunk |-> IF d \in b THEN b ELSE refs[w][d]]]
    BY DEF PutFlushes, Flush
  <2> QED
    BY <1>0, <2>1, <2>2, Types
<1>5. IF b \in blobs THEN Relies(w, {b}) /\ UNCHANGED <<age, made>>
      ELSE age' = [age EXCEPT ![b] = 0] /\ made' = [made EXCEPT ![w] = @ \union {b}] /\ UNCHANGED racy
  BY DEF PutFlushes
<1>6. /\ made' \in [Writer -> SUBSET Pack] /\ made[w] \subseteq made'[w]
      /\ \A v \in Writer : v # w => made'[v] = made[v]
      /\ age' \in [Pack -> 0 .. Window]
      /\ \A p \in blobs : age'[p] = age[p]
  <2>1. CASE b \in blobs
    BY <1>0, <1>5, <2>1, Types
  <2>2. CASE b \notin blobs
    <3>1. made' = [made EXCEPT ![w] = made[w] \union {b}] /\ age' = [age EXCEPT ![b] = 0]
      BY <1>5, <2>2
    <3>2. 0 \in 0 .. Window
      BY SMT, TimesAssumption
    <3>3. age' \in [Pack -> 0 .. Window] /\ \A p \in blobs : age'[p] = age[p]
      BY <1>0, <1>1, <2>2, <3>1, <3>2, Types
    <3> QED
      BY <1>0, <1>1, <3>1, <3>3, Types
  <2> QED
    BY <2>1, <2>2
<1>13. Kept \subseteq Kept'
  BY <1>1, <1>6, KeptGrows DEF sweepVars
<1>7. TypeOK'
  <2>1. packed' \in [Writer -> SUBSET Pack] /\ buf' \in [Writer -> SUBSET Chunk] /\ UNCHANGED <<todo, own, puts, faults>>
    BY <1>0, <1>1 DEF PutFlushes, Flush, TypeOK, PSTypeOK
  <2> QED
    BY <1>0, <1>1, <1>2, <1>4, <1>6, <2>1 DEF TypeOK, PSTypeOK, sweepVars, bridgeVars
<1>8. KeysApart'
  BY <1>0, <1>1, <1>4, <1>6 DEF KeysApart, bridgeVars
<1>9. CallsCovered'
  <2>1. ASSUME w \notin racy' PROVE PacksOf(refs'[w]) \subseteq made'[w] \union Kept
    <3>1. w \notin racy /\ PacksOf(refs[w]) \subseteq made[w] \union Kept
      BY <1>0, <1>2, <2>1 DEF CallsCovered
    <3>2. b \in made'[w] \union Kept
      BY SMT, <1>0, <1>5, <2>1, Types DEF Relies
    <3> QED
      BY SMT, <1>4, <1>6, <3>1, <3>2, PacksOfFacts
  <2>2. ASSUME NEW v \in Writer, v # w, v \notin racy' PROVE PacksOf(refs'[v]) \subseteq made'[v] \union Kept
    BY <1>0, <1>2, <1>4, <1>6, <2>2 DEF CallsCovered
  <2>3. bctx \notin racy' => PacksOf(brefs) \subseteq Kept
    BY <1>0, <1>2 DEF CallsCovered
  <2> QED
    BY <1>1, <1>13, <2>1, <2>2, <2>3 DEF CallsCovered, bridgeVars
<1>10. MadeYoung'
  <2>1. \A v \in Writer : \A p \in made[v] : p \in blobs /\ age'[p] <= busy'[v]
    BY <1>0, <1>1, <1>6 DEF MadeYoung
  <2>2. CASE b \in blobs
    BY <1>1, <1>5, <2>1, <2>2 DEF MadeYoung
  <2>3. CASE b \notin blobs
    <3>1. age'[b] = 0 /\ \A v \in Writer : made'[v] \subseteq made[v] \union {b}
      BY <1>0, <1>1, <1>5, <2>3, Types
    <3>2. \A v \in Writer : 0 <= busy'[v]
      BY SMT, <1>0, <1>1, Types, TimesAssumption
    <3> QED
      BY <1>1, <2>1, <3>1, <3>2 DEF MadeYoung
  <2> QED
    BY <2>2, <2>3
<1>11. AllAssociated'
  BY <1>0, <1>1, <1>4 DEF AllAssociated, Associated, bridgeVars
<1>12. VictimAged'
  BY <1>0, <1>1, <1>6 DEF VictimAged, sweepVars
<1> QED
  BY <1>0, <1>3, <1>7, <1>8, <1>9, <1>10, <1>11, <1>12, <1>13, Parts

\* The index learns where the Put's chunks are; then its packs are associated.
LEMMA CommitsSweep ==
    ASSUME SweepInv, NEW w \in Writer, PutCommits(w)
    PROVE  SweepInv' /\ Kept \subseteq Kept'
<1>0. TypeOK /\ Pinned \subseteq Kept /\ KeysApart /\ CallsCovered /\ MadeYoung /\ AllAssociated /\ VictimAged
  BY Parts
<1>1. /\ wpc[w] # "idle" /\ assoc \subseteq assoc'
      /\ UNCHANGED <<blobs, pstate, manifests, wctx, todo, buf, refs, packed, puts, faults>>
      /\ UNCHANGED <<timeVars, sweepVars, bridgeVars>>
  BY DEF PutCommits, Record, Associate
<1>2. Pinned' = Pinned /\ Kept \subseteq Kept'
  BY <1>1, PinnedSame, KeptGrows DEF timeVars, sweepVars
<1>3. /\ wpc' \in [Writer -> {"idle", "emit", "associate", "insert", "manifest", "refused"}]
      /\ wpc'[w] # "idle" /\ \A v \in Writer : v # w => wpc'[v] = wpc[v]
      /\ wpc'[w] = "manifest" => \A p \in PacksOf(refs[w]) : <<wctx[w], p>> \in assoc'
  <2>1. CASE Record(w)
    BY <1>0, <2>1 DEF Record, TypeOK, PSTypeOK
  <2>2. CASE Associate(w)
    BY <1>0, <2>2 DEF Associate, TypeOK, PSTypeOK
  <2> QED
    BY <2>1, <2>2 DEF PutCommits
<1>4. TypeOK'
  <2>1. index' \in [Chunk -> Loc] /\ assoc' \subseteq Context \X Pack /\ own' \in [Writer -> BOOLEAN]
    <3>1. CASE Record(w)
      BY SMT, <1>0, <3>1 DEF Record, TypeOK, PSTypeOK
    <3>2. CASE Associate(w)
      <4>1. wctx[w] \in Context /\ PacksOf(refs[w]) \subseteq Pack
        BY <1>0, <1>1, Types, PacksOfFacts DEF KeysApart
      <4>2. assoc' \subseteq Context \X Pack
        <5>1. {wctx[w]} \X PacksOf(refs[w]) \subseteq Context \X Pack
          BY <4>1
        <5>2. assoc' \in {assoc, assoc \union ({wctx[w]} \X PacksOf(refs[w]))}
          BY <3>2 DEF Associate
        <5> QED
          BY <1>0, <5>1, <5>2, Types
      <4>3. own' \in [Writer -> BOOLEAN]
        BY <1>0, <3>2 DEF Associate, TypeOK, PSTypeOK
      <4> QED
        BY <1>0, <3>2, <4>2, <4>3, Types DEF Associate
    <3> QED
      BY <3>1, <3>2 DEF PutCommits
  <2> QED
    BY <1>0, <1>1, <1>3, <2>1 DEF TypeOK, PSTypeOK, timeVars, sweepVars, bridgeVars
<1>5. KeysApart'
  BY <1>0, <1>1, <1>3 DEF KeysApart, timeVars, bridgeVars
<1>6. AllAssociated'
  BY <1>0, <1>1, <1>3 DEF AllAssociated, Associated, KeysApart, bridgeVars
<1>7. CallsCovered' /\ MadeYoung' /\ VictimAged'
  BY <1>0, <1>1, <1>2, CallsFrame, MadeFrame, VictimFrame DEF timeVars, sweepVars, bridgeVars
<1> QED
  BY <1>0, <1>1, <1>2, <1>4, <1>5, <1>6, <1>7, Parts

\* A Put that returns lets go of everything.
LEMMA ReturnsFacts ==
    ASSUME TypeOK, NEW w \in Writer, PutReturns(w)
    PROVE  /\ wpc' \in [Writer -> {"idle", "emit", "associate", "insert", "manifest", "refused"}]
           /\ wctx' \in [Writer -> Context \union {NoContext}]
           /\ todo' \in [Writer -> SUBSET Chunk] /\ buf' \in [Writer -> SUBSET Chunk]
           /\ refs' \in [Writer -> [Chunk -> Loc]] /\ packed' \in [Writer -> SUBSET Pack]
           /\ own' \in [Writer -> BOOLEAN]
           /\ wpc'[w] = "idle" /\ wctx'[w] = NoContext /\ refs'[w] = Blank
           /\ \A v \in Writer : v # w => wpc'[v] = wpc[v] /\ wctx'[v] = wctx[v] /\ refs'[v] = refs[v]
<1> USE DEF TypeOK, PSTypeOK, PutReturns, Blank
<1>1. refs' \in [Writer -> [Chunk -> Loc]] /\ refs'[w] = Blank
  BY PackFacts
<1>2. /\ todo' \in [Writer -> SUBSET Chunk] /\ buf' \in [Writer -> SUBSET Chunk]
      /\ packed' \in [Writer -> SUBSET Pack] /\ own' \in [Writer -> BOOLEAN]
  OBVIOUS
<1>3. /\ wpc' \in [Writer -> {"idle", "emit", "associate", "insert", "manifest", "refused"}]
      /\ wctx' \in [Writer -> Context \union {NoContext}]
      /\ wpc'[w] = "idle" /\ wctx'[w] = NoContext
  OBVIOUS
<1>4. \A v \in Writer : v # w => wpc'[v] = wpc[v] /\ wctx'[v] = wctx[v] /\ refs'[v] = refs[v]
  OBVIOUS
<1> QED
  BY <1>1, <1>2, <1>3, <1>4

\* The manifest pins what the Put made: packs no older than MaxPut.  The key of a
\* marked Put inherits the mark.
LEMMA EndsSweep ==
    ASSUME SweepInv, NEW w \in Writer, PutEnds(w)
    PROVE  SweepInv' /\ Kept \subseteq Kept'
<1>0. TypeOK /\ Pinned \subseteq Kept /\ KeysApart /\ CallsCovered /\ MadeYoung /\ AllAssociated /\ VictimAged
  BY Parts
<1> DEFINE m0 == [ctx |-> wctx[w], refs |-> refs[w], own |-> own[w]]
<1>1. /\ PutReturns(w) /\ wpc[w] # "idle" /\ wctx[w] \in Context
      /\ UNCHANGED <<blobs, index, pstate, assoc, puts, age, sweepVars, bridgeVars>>
      /\ made' = [made EXCEPT ![w] = {}] /\ busy' = [busy EXCEPT ![w] = 0]
      /\ faults' \in 0 .. MaxFaults
  BY SMT, <1>0, BoundsAssumption DEF PutEnds, WriteManifest, PutFails, storeVars, KeysApart, TypeOK, PSTypeOK
<1>2. \/ manifests' = manifests /\ racy' = racy \ {w}
      \/ /\ manifests' = manifests \union {m0} /\ wpc[w] = "manifest"
         /\ racy' = IF w \in racy THEN (racy \ {w}) \union {wctx[w]} ELSE racy
  BY DEF PutEnds, WriteManifest, PutFails, storeVars
<1>3. m0.ctx = wctx[w] /\ m0.refs = refs[w] /\ m0 \in [ctx : Context, refs : [Chunk -> Loc], own : BOOLEAN]
  BY <1>0, <1>1, Types DEF TypeOK, PSTypeOK
<1> HIDE DEF m0
<1>4. \A m \in manifests : m.ctx # w /\ m.ctx # wctx[w] /\ m.ctx # bctx
  BY <1>0, Types, NamesAssumption DEF KeysApart
<1>5. manifests \subseteq manifests' /\ Kept \subseteq Kept'
  BY <1>1, <1>2, KeptGrows DEF sweepVars
<1>14. (Pinned \subseteq Kept)'
  <2>1. \A m \in manifests : m.ctx \in racy' <=> m.ctx \in racy
    BY <1>2, <1>4
  <2>2. m0 \in manifests' /\ m0 \notin manifests /\ m0.ctx \notin racy' => PacksOf(refs[w]) \subseteq Kept \union made[w]
    BY <1>0, <1>2, <1>3 DEF CallsCovered
  <2>3. manifests' \subseteq manifests \union {m0}
    BY <1>2
  <2>4. ASSUME NEW p \in made[w] PROVE p \in blobs /\ age[p] <= MaxPut + gtime
    <3>1. p \in Pack /\ p \in blobs /\ age[p] <= busy[w]
      BY <1>0, <2>4, Types DEF MadeYoung
    <3> QED
      BY SMT, <1>0, <3>1, Types, TimesAssumption
  <2>5. ASSUME NEW p, p \in Pinned' PROVE p \in Kept'
    <3>1. PICK m \in manifests' : m.ctx \notin racy' /\ p \in PacksOf(m.refs)
      BY <2>5, PinnedFacts
    <3>2. CASE m \in manifests
      BY <1>0, <1>5, <2>1, <3>1, <3>2, PinnedFacts
    <3>3. CASE m \notin manifests
      <4>1. p \in Kept \union made[w]
        BY <1>3, <2>2, <2>3, <3>1, <3>3
      <4> QED
        BY <1>1, <1>5, <2>4, <3>1, <4>1 DEF Kept, Referenced, sweepVars
    <3> QED
      BY <3>2, <3>3
  <2> QED
    BY <2>5
<1>6. \A v \in Writer : v # w => made'[v] = made[v] /\ busy'[v] = busy[v]
  BY <1>0, <1>1, Types
<1>7. made'[w] = {} /\ made' \in [Writer -> SUBSET Pack] /\ busy' \in [Writer -> 0 .. MaxPut]
  BY SMT, <1>0, <1>1, Types, TimesAssumption
<1>8. TypeOK'
  <2>1. manifests' \subseteq [ctx : Context, refs : [Chunk -> Loc], own : BOOLEAN]
    BY <1>0, <1>2, <1>3 DEF TypeOK, PSTypeOK
  <2>2. racy' \subseteq Writer \union Context
    BY <1>0, <1>1, <1>2 DEF TypeOK
  <2> QED
    BY <1>0, <1>1, <1>7, <2>1, <2>2, ReturnsFacts DEF TypeOK, PSTypeOK, sweepVars, bridgeVars
<1>9. KeysApart'
  <2>1. \A m \in manifests' : m \in manifests \/ m.ctx = wctx[w]
    BY <1>2, <1>3
  <2>2. \A v \in Writer : v # w => wctx[w] # wctx[v]
    BY <1>0, <1>1, ContextAssumption DEF KeysApart
  <2>3. wctx[w] # bctx /\ wctx[w] # NoContext
    BY <1>0, <1>1, ContextAssumption DEF KeysApart
  <2>4. \A m \in manifests' : m.ctx # NoContext
    BY <1>0, <2>1, <2>3, Types, ContextAssumption
  <2> QED
    <3>1. /\ wpc'[w] = "idle" /\ wctx'[w] = NoContext /\ refs'[w] = Blank
          /\ \A v \in Writer : v # w => wpc'[v] = wpc[v] /\ wctx'[v] = wctx[v] /\ refs'[v] = refs[v]
      BY <1>0, <1>1, ReturnsFacts
    <3>2. \A v \in Writer : IF wpc'[v] = "idle" THEN wctx'[v] = NoContext /\ refs'[v] = Blank /\ made'[v] = {}
                            ELSE wctx'[v] \in Context
      BY <1>0, <1>6, <1>7, <3>1 DEF KeysApart
    <3>3. \A m \in manifests' : m.ctx # bctx /\ \A v \in Writer : m.ctx # wctx'[v]
      BY SMT, <1>0, <2>1, <2>2, <2>3, <2>4, <3>1 DEF KeysApart
    <3>4. \A v \in Writer : /\ wctx'[v] = NoContext \/ wctx'[v] # bctx
                            /\ \A u \in Writer : u # v => wctx'[v] = NoContext \/ wctx'[v] # wctx'[u]
      BY SMT, <1>0, <3>1 DEF KeysApart
    <3> QED
      BY <1>0, <1>1, <3>2, <3>3, <3>4 DEF KeysApart, bridgeVars, Blank
<1>10. CallsCovered'
  <2>1. ASSUME NEW v \in Writer, v # w, v \notin racy' PROVE PacksOf(refs'[v]) \subseteq made'[v] \union Kept'
    <3>1. v \notin racy
      BY <1>2, <2>1
    <3> QED
      BY <1>0, <1>1, <1>5, <1>6, <2>1, <3>1, ReturnsFacts DEF CallsCovered
  <2>2. PacksOf(refs'[w]) = {}
    BY <1>0, <1>1, ReturnsFacts, PacksOfFacts
  <2>3. bctx \notin racy' => PacksOf(brefs) \subseteq Kept'
    <3>1. bctx # w
      BY <1>0, NamesAssumption DEF TypeOK
    <3> QED
      BY <1>0, <1>2, <1>5, <3>1 DEF CallsCovered
  <2> QED
    BY <1>1, <2>1, <2>2, <2>3 DEF CallsCovered, bridgeVars
<1>11. MadeYoung'
  BY <1>0, <1>1, <1>6, <1>7 DEF MadeYoung
<1>12. AllAssociated'
  <2>1. UseAssoc => \A m \in manifests' : \A p \in PacksOf(m.refs) : Associated(p)
    BY <1>0, <1>2, <1>3 DEF AllAssociated
  <2>2. UseAssoc => \A v \in Writer : wpc'[v] = "manifest" => \A p \in PacksOf(refs'[v]) : Associated(p)
    BY <1>0, <1>1, ReturnsFacts DEF AllAssociated
  <2> QED
    BY <1>0, <1>1, <2>1, <2>2 DEF AllAssociated, Associated, bridgeVars
<1>13. VictimAged'
  BY <1>0, <1>1, VictimFrame
<1> QED
  BY <1>5, <1>8, <1>9, <1>10, <1>11, <1>12, <1>13, <1>14, Parts

----------------------------------------------------------------------------
(* Deletions and RegisterRef.                                               *)

\* A deletion unpins; the calls that relied on what is no longer pinned are marked.
LEMMA DeletedSweep ==
    ASSUME SweepInv, NEW x \in Context, KeyDeleted(x)
    PROVE  SweepInv'
<1>0. TypeOK /\ Pinned \subseteq Kept /\ KeysApart /\ CallsCovered /\ MadeYoung /\ AllAssociated /\ VictimAged
  BY Parts
<1>1. /\ manifests' = {m \in manifests : m.ctx # x}
      /\ racy' = (racy \ {x}) \union Exposed(PinnedWithout(x))
      /\ UNCHANGED <<blobs, index, pstate, assoc, writerVars, faults, age, busy, made, sweepVars, bridgeVars>>
  BY DEF KeyDeleted
<1>2. Exposed(PinnedWithout(x)) \subseteq Writer \union ({bctx} \ {NoContext})
  BY DEF Exposed
<1>3. Pinned' = PinnedWithout(x) /\ PinnedWithout(x) \subseteq Pinned
  <2>1. \A m \in manifests : m.ctx \notin Exposed(PinnedWithout(x))
    BY <1>0, <1>2, Types, NamesAssumption DEF KeysApart
  <2>2. \A p : p \in PinnedWithout(x) <=> \E m \in manifests : m.ctx # x /\ m.ctx \notin racy /\ p \in PacksOf(m.refs)
    BY DEF PinnedWithout
  <2> QED
    BY <1>1, <2>1, <2>2, PinnedFacts
<1>9. (Pinned \subseteq Kept)'
  BY <1>0, <1>1, <1>3, PinnedFacts DEF Kept, Referenced, sweepVars
<1>4. TypeOK'
  <2>1. racy' \subseteq Writer \union Context
    BY <1>0, <1>1, <1>2 DEF TypeOK
  <2>2. manifests' \subseteq manifests
    BY <1>1
  <2> QED
    BY <1>0, <1>1, <2>1, <2>2 DEF TypeOK, PSTypeOK, writerVars, sweepVars, bridgeVars
<1>5. KeysApart'
  BY <1>0, <1>1 DEF KeysApart, writerVars, bridgeVars
<1>6. CallsCovered'
  <2>1. ASSUME NEW w \in Writer, w \notin racy' PROVE PacksOf(refs[w]) \subseteq made[w] \union PinnedWithout(x)
    BY <1>1, <2>1 DEF Exposed
  <2>2. ASSUME bctx \notin racy' PROVE PacksOf(brefs) \subseteq PinnedWithout(x)
    <3>1. CASE bctx = NoContext
      BY <1>0, <3>1, PacksOfFacts, ContextAssumption DEF KeysApart
    <3>2. CASE bctx # NoContext
      BY <1>1, <2>2, <3>2 DEF Exposed
    <3> QED
      BY <3>1, <3>2
  <2> QED
    BY <1>1, <1>3, <1>9, <2>1, <2>2 DEF CallsCovered, writerVars, bridgeVars
<1>7. MadeYoung' /\ VictimAged'
  BY <1>0, <1>1, MadeFrame, VictimFrame
<1>8. AllAssociated'
  BY <1>0, <1>1 DEF AllAssociated, Associated, writerVars, bridgeVars
<1> QED
  BY <1>4, <1>5, <1>6, <1>7, <1>8, <1>9, Parts

\* RegisterRef takes the chunk list of a manifest for a key nobody uses.
LEMMA RegisterReadsSweep ==
    ASSUME SweepInv, NEW x \in Context, NEW m \in manifests, RegisterReads(m, x)
    PROVE  SweepInv'
<1>0. TypeOK /\ Pinned \subseteq Kept /\ KeysApart /\ CallsCovered /\ MadeYoung /\ AllAssociated /\ VictimAged
  BY Parts
<1>1. /\ bpc = "idle" /\ KeyFree(x) /\ bctx' = x /\ brefs' = m.refs /\ bpc' = "validate"
      /\ Relies(x, PacksOf(m.refs))
      /\ UNCHANGED <<storeVars, writerVars, faults, age, busy, made, sweepVars>>
  BY DEF RegisterReads
<1>2. racy' \in {racy, racy \union {x}}
  BY <1>1 DEF Relies
<1>3. Pinned' = Pinned /\ Kept \subseteq Kept'
  BY <1>1, <1>2, PinnedSame, KeptGrows DEF KeyFree, storeVars, sweepVars
<1>4. TypeOK'
  <2>1. racy' \subseteq Writer \union Context
    BY <1>0, <1>2 DEF TypeOK
  <2> QED
    BY <1>0, <1>1, <2>1, Types DEF TypeOK, PSTypeOK, storeVars, writerVars, sweepVars
<1>5. KeysApart'
  BY <1>0, <1>1 DEF KeysApart, KeyFree, storeVars, writerVars
<1>6. CallsCovered'
  <2>1. x \notin racy' => PacksOf(m.refs) \subseteq Pinned
    BY <1>1 DEF Relies
  <2> QED
    BY <1>0, <1>1, <1>2, <1>3, <2>1 DEF CallsCovered, writerVars
<1>7. MadeYoung' /\ VictimAged'
  BY <1>0, <1>1, <1>3, MadeFrame, VictimFrame DEF storeVars
<1>8. AllAssociated'
  BY <1>0, <1>1 DEF AllAssociated, Associated, storeVars, writerVars
<1> QED
  BY <1>0, <1>1, <1>3, <1>4, <1>5, <1>6, <1>7, <1>8, Parts DEF storeVars

\* A refused RegisterRef leaves nothing behind, not even its mark.
LEMMA RegisterValidatesSweep ==
    ASSUME SweepInv, RegisterValidates
    PROVE  SweepInv'
<1>0. TypeOK /\ Pinned \subseteq Kept /\ KeysApart /\ CallsCovered /\ MadeYoung /\ AllAssociated /\ VictimAged
  BY Parts
<1>1. bpc = "validate" /\ UNCHANGED <<storeVars, writerVars, faults, age, busy, made, sweepVars>>
  BY DEF RegisterValidates
<1>2. \/ bpc' = "write" /\ UNCHANGED <<bctx, brefs, racy>>
      \/ bpc' = "idle" /\ bctx' = NoContext /\ brefs' = Blank /\ racy' = racy \ {bctx}
  BY DEF RegisterValidates, BridgeReturns, Blank
<1>3. bctx \in Context
  BY <1>0, <1>1 DEF KeysApart
<1>4. Pinned' = Pinned /\ Kept \subseteq Kept'
  BY <1>0, <1>1, <1>2, PinnedSame, KeptGrows DEF KeysApart, storeVars, sweepVars
<1>5. TypeOK'
  BY <1>0, <1>1, <1>2, PackFacts DEF TypeOK, PSTypeOK, storeVars, writerVars, sweepVars
<1>6. KeysApart'
  <2>1. \A m \in manifests : m.ctx # NoContext
    BY <1>0, Types, ContextAssumption
  <2> QED
    BY <1>0, <1>1, <1>2, <2>1 DEF KeysApart, storeVars, writerVars, Blank
<1>7. CallsCovered'
  <2>1. \A w \in Writer : w \notin racy' => w \notin racy
    BY <1>2, <1>3, NamesAssumption
  <2>2. bctx' \notin racy' => PacksOf(brefs') \subseteq Kept
    BY SMT, <1>0, <1>2, PacksOfFacts DEF CallsCovered
  <2> QED
    BY <1>0, <1>1, <1>4, <2>1, <2>2 DEF CallsCovered, writerVars
<1>8. MadeYoung' /\ VictimAged'
  BY <1>0, <1>1, <1>4, MadeFrame, VictimFrame DEF storeVars
<1>9. AllAssociated'
  BY <1>0, <1>1, <1>2, PacksOfFacts DEF AllAssociated, Associated, storeVars, writerVars
<1> QED
  BY <1>0, <1>1, <1>4, <1>5, <1>6, <1>7, <1>8, <1>9, Parts DEF storeVars

\* The new manifest pins what is pinned already, or its key is marked.
LEMMA RegisterWritesSweep ==
    ASSUME SweepInv, RegisterWrites
    PROVE  SweepInv'
<1>0. TypeOK /\ Pinned \subseteq Kept /\ KeysApart /\ CallsCovered /\ MadeYoung /\ AllAssociated /\ VictimAged
  BY Parts
<1> DEFINE m0 == [ctx |-> bctx, refs |-> brefs, own |-> TRUE]
<1>1. /\ manifests' = manifests \union {m0} /\ bctx \in Context
      /\ bpc' = "idle" /\ bctx' = NoContext /\ brefs' = Blank
      /\ UNCHANGED <<blobs, index, pstate, assoc, writerVars, faults, timeVars, sweepVars>>
  BY <1>0 DEF RegisterWrites, BridgeReturns, KeysApart, Blank
<1>2. m0.ctx = bctx /\ m0.refs = brefs /\ m0 \in [ctx : Context, refs : [Chunk -> Loc], own : BOOLEAN]
  BY <1>0, <1>1, Types
<1> HIDE DEF m0
<1>9. Kept \subseteq Kept'
  BY <1>1, KeptGrows DEF timeVars, sweepVars
<1>3. (Pinned \subseteq Kept)'
  BY <1>0, <1>1, <1>2, <1>9, PinnedFacts DEF CallsCovered, timeVars
<1>4. TypeOK'
  BY <1>0, <1>1, <1>2, PackFacts DEF TypeOK, PSTypeOK, writerVars, timeVars, sweepVars
<1>5. KeysApart'
  <2>1. \A m \in manifests' : m.ctx # NoContext /\ (m \in manifests \/ m.ctx = bctx)
    BY <1>0, <1>1, <1>2, Types, ContextAssumption
  <2>2. \A w \in Writer : bctx # wctx[w]
    BY <1>0, <1>1, ContextAssumption DEF KeysApart
  <2> QED
    BY <1>0, <1>1, <2>1, <2>2 DEF KeysApart, writerVars, timeVars, Blank
<1>6. CallsCovered'
  BY <1>0, <1>1, <1>9, PacksOfFacts DEF CallsCovered, writerVars, timeVars
<1>7. MadeYoung' /\ VictimAged'
  BY <1>0, <1>1, MadeFrame, VictimFrame DEF timeVars
<1>8. AllAssociated'
  BY <1>0, <1>1, <1>2, PacksOfFacts DEF AllAssociated, Associated, writerVars
<1> QED
  BY <1>0, <1>1, <1>3, <1>4, <1>5, <1>6, <1>7, <1>8, Parts

----------------------------------------------------------------------------
(* The collector, and time.                                                 *)

\* What is pinned, and what a Put made, cannot be what a pass is about to delete:
\* MaxPut and MaxPass together are shorter than the window.
LEMMA VictimUnused ==
    ASSUME SweepInv, gpc \in {"purge", "delete"}
    PROVE  gcur \notin Kept /\ \A w \in Writer : gcur \notin made[w]
<1>0. TypeOK /\ MadeYoung /\ VictimAged
  BY Parts
<1>1. gcur \in blobs /\ gcur \in Pack /\ gcur \notin glive /\ age[gcur] >= Window
  BY <1>0, Types DEF VictimAged
<1>2. age[gcur] \in Nat /\ gtime \in 0 .. MaxPass /\ \A w \in Writer : busy[w] \in 0 .. MaxPut
  BY SMT, <1>0, <1>1, Types, TimesAssumption
<1>3. ~(age[gcur] <= MaxPut + gtime) /\ \A w \in Writer : ~(age[gcur] <= busy[w])
  BY SMT, <1>1, <1>2, TimesAssumption
<1> QED
  BY <1>0, <1>1, <1>3 DEF Kept, MadeYoung

\* A step of the collector that deletes no blob.
LEMMA PassSteps ==
    ASSUME SweepInv, UNCHANGED <<blobs, pstate, assoc, manifests, writerVars, timeVars, bridgeVars>>,
           index' \in [Chunk -> Loc], faults' \in 0 .. MaxFaults,
           gpc' \in {"idle", "sweep", "purge", "delete"}, glive' \subseteq Pack, gseen' \subseteq Pack,
           gcur' \in Loc, gtime' \in 0 .. MaxPass,
           Kept \subseteq Kept', VictimAged'
    PROVE  SweepInv' /\ Kept \subseteq Kept'
<1>0. TypeOK /\ Pinned \subseteq Kept /\ KeysApart /\ CallsCovered /\ MadeYoung /\ AllAssociated
  BY Parts
<1>1. TypeOK'
  BY <1>0 DEF TypeOK, PSTypeOK, writerVars, timeVars, bridgeVars
<1>2. Pinned' = Pinned
  BY PinnedSame DEF timeVars
<1>3. KeysApart' /\ CallsCovered' /\ MadeYoung' /\ AllAssociated'
  BY <1>0, <1>2, KeysFrame, CallsFrame, MadeFrame, AssocFrame DEF writerVars, timeVars, bridgeVars
<1> QED
  BY <1>0, <1>1, <1>2, <1>3, Parts

\* The live set holds all that is pinned when the pass marks it.
LEMMA MarksSweep ==
    ASSUME SweepInv, GCMarks
    PROVE  SweepInv' /\ Kept \subseteq Kept'
<1>0. TypeOK /\ AllAssociated
  BY Parts
<1>1. Kept \subseteq LiveSet /\ LiveSet \subseteq Pack
  BY <1>0, Types DEF LiveSet, Kept, Referenced, AllAssociated
<1>2. Kept \subseteq Kept'
  BY <1>1 DEF GCMarks, Kept, Referenced, storeVars
<1>3. VictimAged'
  BY DEF VictimAged, GCMarks
<1>4. index' \in [Chunk -> Loc] /\ faults' \in 0 .. MaxFaults /\ gcur' \in Loc /\ gtime' \in 0 .. MaxPass
  BY SMT, <1>0, TimesAssumption DEF GCMarks, TypeOK, PSTypeOK, storeVars
<1> QED
  BY <1>1, <1>2, <1>3, <1>4, PassSteps DEF GCMarks, storeVars

\* The pass turns to a blob that is not live and has the age of the window.
LEMMA VisitsSweep ==
    ASSUME SweepInv, NEW p \in Pack, GCVisits(p)
    PROVE  SweepInv' /\ Kept \subseteq Kept'
<1>0. TypeOK /\ VictimAged
  BY Parts
<1>1. Kept \subseteq Kept'
  BY DEF GCVisits, Kept, Referenced, storeVars, timeVars
<1>2. VictimAged'
  BY <1>0 DEF VictimAged, GCVisits, Reclaimable, storeVars, timeVars
<1>3. /\ index' \in [Chunk -> Loc] /\ faults' \in 0 .. MaxFaults /\ gtime' \in 0 .. MaxPass
      /\ glive' \subseteq Pack /\ gseen' \subseteq Pack
  BY <1>0 DEF GCVisits, TypeOK, PSTypeOK, storeVars
<1>4. gcur' \in Loc /\ gpc' \in {"idle", "sweep", "purge", "delete"}
  BY <1>0 DEF GCVisits, TypeOK, Loc
<1> QED
  BY <1>1, <1>2, <1>3, <1>4, PassSteps DEF GCVisits, storeVars

\* Purging index rows changes no pin.
LEMMA PurgesSweep ==
    ASSUME SweepInv, GCPurges
    PROVE  SweepInv' /\ Kept \subseteq Kept'
<1>0. TypeOK /\ VictimAged
  BY Parts
<1>1. Kept \subseteq Kept'
  BY DEF GCPurges, Kept, Referenced, timeVars
<1>2. VictimAged'
  BY <1>0 DEF VictimAged, GCPurges, timeVars
<1>3. index' \in [Chunk -> Loc]
  BY <1>0, PackFacts, Types DEF GCPurges
<1> QED
  BY <1>0, <1>1, <1>2, <1>3, PassSteps DEF GCPurges, TypeOK, PSTypeOK

\* The one step that takes bytes away.
LEMMA DeletesSweep ==
    ASSUME SweepInv, GCDeletes
    PROVE  SweepInv' /\ Kept \subseteq Kept'
<1>0. TypeOK /\ Pinned \subseteq Kept /\ KeysApart /\ CallsCovered /\ MadeYoung /\ AllAssociated /\ VictimAged
  BY Parts
<1>1. /\ gpc = "delete" /\ blobs' = blobs \ {gcur} /\ gpc' = "sweep" /\ gcur' = NoPack
      /\ UNCHANGED <<glive, gseen, gtime, index, pstate, assoc, manifests, writerVars, faults, timeVars, bridgeVars>>
  BY DEF GCDeletes
<1>2. Pinned' = Pinned /\ Kept \subseteq Kept'
  BY <1>1, PinnedSame, VictimUnused DEF timeVars, Kept, Referenced
<1>3. (Pinned \subseteq Kept)'
  BY <1>0, <1>2
<1>4. MadeYoung'
  BY <1>0, <1>1, VictimUnused DEF MadeYoung, timeVars
<1>5. VictimAged'
  BY <1>1 DEF VictimAged
<1>6. TypeOK'
  BY <1>0, <1>1, PackFacts DEF TypeOK, PSTypeOK, writerVars, timeVars, bridgeVars
<1>7. KeysApart' /\ CallsCovered' /\ AllAssociated'
  BY <1>0, <1>1, <1>2, KeysFrame, CallsFrame, AssocFrame DEF writerVars, timeVars, bridgeVars
<1> QED
  BY <1>2, <1>3, <1>4, <1>5, <1>6, <1>7, Parts

\* A pass that skips a blob, ends or dies forgets its victim.
LEMMA StopsSweep ==
    ASSUME SweepInv, GCSkips \/ GCEnds \/ GCDies
    PROVE  SweepInv' /\ Kept \subseteq Kept'
<1>0. TypeOK /\ VictimAged
  BY Parts
<1>1. Kept \subseteq Kept'
  BY DEF GCSkips, GCEnds, GCDies, Kept, Referenced, storeVars, timeVars
<1>2. VictimAged'
  BY <1>0 DEF VictimAged, GCSkips, GCEnds, GCDies, storeVars, timeVars
<1>3. faults' \in 0 .. MaxFaults /\ gtime' \in 0 .. MaxPass
  BY SMT, <1>0, BoundsAssumption, TimesAssumption DEF GCSkips, GCEnds, GCDies, TypeOK, PSTypeOK
<1>4. gcur' \in Loc /\ glive' \subseteq Pack /\ gseen' \subseteq Pack
  BY <1>0, PackFacts DEF GCSkips, GCEnds, GCDies, TypeOK
<1> QED
  BY <1>0, <1>1, <1>2, <1>3, <1>4, PassSteps DEF GCSkips, GCEnds, GCDies, storeVars, TypeOK, PSTypeOK

\* Packs age no faster than the Puts and the pass they are measured against.
LEMMA TickSweep ==
    ASSUME SweepInv, Tick
    PROVE  SweepInv' /\ Kept \subseteq Kept'
<1>0. TypeOK /\ Pinned \subseteq Kept /\ KeysApart /\ CallsCovered /\ MadeYoung /\ AllAssociated /\ VictimAged
  BY Parts
<1>1. UNCHANGED <<made, racy, gpc, glive, gseen, gcur, storeVars, writerVars, faults, bridgeVars>>
  BY DEF Tick
<1>2. Pinned' = Pinned
  BY <1>1, PinnedSame DEF storeVars
<1>3. \A p \in Pack : age'[p] \in 0 .. Window /\ age[p] \in 0 .. Window /\ age[p] <= age'[p] /\ age'[p] <= age[p] + 1
  BY SMT, <1>0, Types, TimesAssumption DEF Tick, Older
<1>4. \A w \in Writer : /\ busy[w] \in 0 .. MaxPut /\ busy'[w] \in 0 .. MaxPut
                        /\ wpc[w] # "idle" => busy'[w] = busy[w] + 1
  BY SMT, <1>0, Types, TimesAssumption DEF Tick
<1>5. gtime \in 0 .. MaxPass /\ gtime' \in 0 .. MaxPass /\ (gpc # "idle" => gtime' = gtime + 1)
  BY SMT, <1>0, Types, TimesAssumption DEF Tick
<1>6. TypeOK'
  <2>1. age' \in [Pack -> 0 .. Window]
    BY <1>3 DEF Tick
  <2>2. busy' \in [Writer -> 0 .. MaxPut]
    BY <1>4 DEF Tick
  <2> QED
    BY <1>0, <1>1, <1>5, <2>1, <2>2 DEF TypeOK, PSTypeOK, storeVars, writerVars, bridgeVars
<1>7. MadeYoung'
  <2>1. ASSUME NEW w \in Writer, NEW p \in made[w] PROVE p \in blobs /\ age'[p] <= busy'[w]
    <3>1. p \in Pack /\ p \in blobs /\ age[p] <= busy[w] /\ wpc[w] # "idle"
      BY <1>0, <2>1, Types DEF MadeYoung, KeysApart
    <3> QED
      BY SMT, <1>3, <1>4, <3>1, TimesAssumption
  <2> QED
    BY <1>1, <2>1 DEF MadeYoung, storeVars
<1>10. Kept \subseteq Kept'
  <2>1. ASSUME NEW p \in Kept, gpc # "idle", p \notin glive PROVE age'[p] <= MaxPut + gtime'
    <3>1. age[p] <= MaxPut + gtime /\ p \in Pack
      BY <1>0, <2>1, Types DEF Kept
    <3> QED
      BY SMT, <1>3, <1>5, <2>1, <3>1, TimesAssumption
  <2> QED
    BY <1>1, <2>1 DEF Kept, Referenced, storeVars
<1>8. VictimAged'
  <2>1. ASSUME gpc \in {"purge", "delete"} PROVE gcur \in blobs \ glive /\ age'[gcur] >= Window
    <3>1. gcur \in blobs \ glive /\ gcur \in Pack /\ age[gcur] >= Window
      BY <1>0, <2>1, Types DEF VictimAged
    <3> QED
      BY SMT, <1>3, <3>1, TimesAssumption
  <2> QED
    BY <1>1, <2>1 DEF VictimAged, storeVars
<1>9. KeysApart' /\ CallsCovered' /\ AllAssociated'
  BY <1>0, <1>1, <1>10, KeysFrame, CallsFrame, AssocFrame DEF storeVars, writerVars, bridgeVars
<1> QED
  BY <1>0, <1>2, <1>6, <1>7, <1>8, <1>9, <1>10, Parts

\* A stuttering step.
LEMMA StutterSweep ==
    ASSUME SweepInv, UNCHANGED vars
    PROVE  SweepInv'
<1>0. TypeOK /\ Pinned \subseteq Kept /\ KeysApart /\ CallsCovered /\ MadeYoung /\ AllAssociated /\ VictimAged
  BY Parts
<1>1. Pinned' = Pinned /\ Kept \subseteq Kept'
  BY PinnedSame, KeptGrows DEF vars, storeVars, timeVars, sweepVars
<1>2. TypeOK'
  BY <1>0 DEF TypeOK, PSTypeOK, vars, storeVars, writerVars, timeVars, sweepVars, bridgeVars
<1>3. KeysApart' /\ CallsCovered' /\ MadeYoung' /\ AllAssociated' /\ VictimAged'
  BY <1>0, <1>1, KeysFrame, CallsFrame, MadeFrame, AssocFrame, VictimFrame
  DEF vars, storeVars, writerVars, timeVars, bridgeVars
<1> QED
  BY <1>0, <1>1, <1>2, <1>3, Parts DEF vars, storeVars

\* A Put's step, whichever it is.
LEMMA PutSweep ==
    ASSUME SweepInv, NEW w \in Writer, PutActs(w)
    PROVE  SweepInv' /\ Kept \subseteq Kept'
BY BeginsSweep, EmitsSweep, FlushesSweep, CommitsSweep, EndsSweep DEF PutActs

\* A step of the collector, whichever it is.
LEMMA CollectorSweep ==
    ASSUME SweepInv, GCStep \/ GCSkips \/ GCDies
    PROVE  SweepInv' /\ Kept \subseteq Kept'
BY MarksSweep, VisitsSweep, PurgesSweep, DeletesSweep, StopsSweep DEF GCStep

\* No pass of the collector, whatever it races with, takes a pack from an object that
\* was covered throughout or from a Put in progress, as long as the window outlasts a
\* Put and a pass together (RunOnceForDomain, sweepOrphan).
THEOREM SweepStaysSparing == Spec => []SweepSpares
<1>1. Init => SweepInv
  BY InitSweep
<1>2. SweepInv /\ [Next]_vars => SweepInv'
  <2> SUFFICES ASSUME SweepInv, [Next]_vars PROVE SweepInv'
    OBVIOUS
  <2>1. CASE \E w \in Writer : PutActs(w)
    BY <2>1, PutSweep
  <2>2. CASE \E x \in Context : KeyDeleted(x) \/ \E m \in manifests : RegisterReads(m, x)
    BY <2>2, DeletedSweep, RegisterReadsSweep
  <2>3. CASE RegisterValidates \/ RegisterWrites
    BY <2>3, RegisterValidatesSweep, RegisterWritesSweep
  <2>4. CASE GCStep \/ GCSkips \/ GCDies
    BY <2>4, CollectorSweep
  <2>5. CASE Tick
    BY <2>5, TickSweep
  <2>6. CASE UNCHANGED vars
    BY <2>6, StutterSweep
  <2> QED
    BY <2>1, <2>2, <2>3, <2>4, <2>5, <2>6 DEF Next
<1>3. SweepInv => SweepSpares
  BY DEF SweepInv
<1> QED
  BY <1>1, <1>2, <1>3, PTL DEF Spec

----------------------------------------------------------------------------
(* Compaction: what it does to keys.                                        *)

\* A version as it is stored.
Version(m) == DOMAIN m = {"ctx", "refs", "own"} /\ m.ctx \in Context

\* Puts write keys of their own, and none of them is the key that is being rewritten;
\* the rewritten version differs from the one it replaces, and is there before that
\* one goes.
RewriteInv ==
    /\ wpc \in [Writer -> {"idle", "emit", "associate", "insert", "manifest", "refused"}]
    /\ wctx \in [Writer -> Context \union {NoContext}]
    /\ \A w \in Writer : IF wpc[w] = "idle" THEN wctx[w] = NoContext ELSE wctx[w] \in Context
    /\ \A m \in manifests : Version(m) /\ \A w \in Writer : m.ctx # wctx[w]
    /\ \A w, v \in Writer : v # w => wctx[w] = NoContext \/ wctx[w] # wctx[v]
    /\ kpc \in {"put", "drop"} => Version(kcur) /\ \A w \in Writer : kcur.ctx # wctx[w]
    /\ kpc = "put" => Relocated(kcur) # kcur.refs
    /\ kpc = "drop" /\ kcur \in manifests => \E m \in manifests : m # kcur /\ m.ctx = kcur.ctx

\* No call is running at first.
LEMMA InitRewrite == CInit => RewriteInv
BY SMT DEF CInit, Init, PSInit, RewriteInv

\* A Put changes neither the keys of others nor the version being rewritten.
LEMMA PutRewrite ==
    ASSUME RewriteInv, NEW w \in Writer, CPutActs(w)
    PROVE  RewriteInv'
<1> USE DEF RewriteInv
<1>0. PutActs(w) /\ UNCHANGED <<kpc, kcur, ksel, kloc>> /\ (kcur = NoManifest \/ wctx'[w] # kcur.ctx)
  BY DEF CPutActs, compactVars
<1>1. Relocated(kcur)' = Relocated(kcur)
  BY <1>0 DEF Relocated
<1>2. kpc \in {"put", "drop"} => kcur # NoManifest
  BY SMT, ContextAssumption DEF NoManifest, Version
<1>3. CASE PutBegins(w)
  <2>1. PICK x \in Context, obj \in Objects : KeyFree(x) /\ Begin(w, x, obj)
    BY <1>3 DEF PutBegins
  <2>2. /\ wpc' = [wpc EXCEPT ![w] = "emit"] /\ wctx' = [wctx EXCEPT ![w] = x] /\ UNCHANGED manifests
        /\ \A m \in manifests : m.ctx # x
        /\ \A v \in Writer : wctx[v] # x
    BY <2>1 DEF Begin, storeVars, KeyFree
  <2> QED
    BY <1>0, <1>1, <1>2, <2>1, <2>2
<1>4. CASE PutEmits(w) \/ PutFlushes(w) \/ PutCommits(w)
  <2>1. UNCHANGED <<wctx, manifests>>
    BY <1>4 DEF PutEmits, PutFlushes, PutCommits, Emit, Flush, Record, Associate, storeVars
  <2>2. /\ wpc' \in [Writer -> {"idle", "emit", "associate", "insert", "manifest", "refused"}]
        /\ \A v \in Writer : wpc'[v] = "idle" <=> wpc[v] = "idle"
    BY <1>4 DEF PutEmits, PutFlushes, PutCommits, Emit, Flush, Record, Associate
  <2> QED
    BY <1>0, <1>1, <2>1, <2>2
<1>5. CASE PutEnds(w)
  <2> DEFINE m0 == [ctx |-> wctx[w], refs |-> refs[w], own |-> own[w]]
  <2>1. /\ wpc' = [wpc EXCEPT ![w] = "idle"] /\ wctx' = [wctx EXCEPT ![w] = NoContext]
        /\ wpc[w] # "idle"
        /\ manifests' \in {manifests, manifests \union {m0}}
    BY <1>5 DEF PutEnds, WriteManifest, PutFails, PutReturns, storeVars
  <2>2. Version(m0) /\ m0.ctx = wctx[w] /\ wctx[w] \in Context
    BY <2>1 DEF Version
  <2> HIDE DEF m0
  <2>3. \A m \in manifests' : Version(m) /\ \A v \in Writer : m.ctx # wctx'[v]
    BY <2>1, <2>2, ContextAssumption DEF Version
  <2>4. /\ kpc \in {"put", "drop"} => Version(kcur) /\ \A v \in Writer : kcur.ctx # wctx'[v]
        /\ kpc \in {"put", "drop"} => m0 # kcur
    BY <2>1, <2>2, ContextAssumption DEF Version
  <2> QED
    BY <1>0, <1>1, <2>1, <2>2, <2>3, <2>4 DEF Version
<1> QED
  BY <1>0, <1>3, <1>4, <1>5 DEF PutActs

\* A deletion takes every version of its key.
LEMMA DeletedRewrite ==
    ASSUME RewriteInv, NEW x \in Context, CKeyDeleted(x)
    PROVE  RewriteInv'
<1>1. manifests' = {m \in manifests : m.ctx # x} /\ UNCHANGED <<wpc, wctx, kpc, kcur, ksel, kloc>>
  BY DEF CKeyDeleted, KeyDeleted, writerVars
<1> QED
  BY <1>1 DEF RewriteInv, Relocated, Version

\* Steps that change no manifest and move no rewriting.
LEMMA OtherRewrite ==
    ASSUME RewriteInv, UNCHANGED <<wpc, wctx, manifests>>,
           UNCHANGED <<kpc, kcur, ksel, kloc>> \/ kpc' \notin {"put", "drop"}
    PROVE  RewriteInv'
BY DEF RewriteInv, Relocated, Version

\* The rewriting itself: read, put, drop.
LEMMA StepRewrite ==
    ASSUME RewriteInv, KStep \/ KDies
    PROVE  RewriteInv'
<1> USE DEF vars, storeVars, writerVars
<1>1. CASE \E sel \in SUBSET blobs : KSelects(sel)
  BY <1>1, OtherRewrite DEF KSelects
<1>2. CASE \E p \in Pack : KWrites(p)
  BY <1>2, OtherRewrite DEF KWrites
<1>3. CASE KFetchFails \/ KEnds \/ KDies
  BY <1>3, OtherRewrite DEF KFetchFails, KEnds, KDies, KReturns
<1>4. CASE KPurges \/ KRecords
  BY <1>4, OtherRewrite DEF KPurges, KRecords
<1>5. ASSUME NEW x \in Context, KReads(x) PROVE RewriteInv'
  <2>1. UNCHANGED <<wpc, wctx, manifests>>
    BY <1>5 DEF KReads
  <2>2. CASE kpc' \notin {"put", "drop"}
    BY <2>1, <2>2, OtherRewrite
  <2>3. CASE kpc' \in {"put", "drop"}
    <3>1. /\ kpc' = "put" /\ UNCHANGED <<ksel, kloc>>
          /\ \E m \in Versions(x) \ superseded : Relocated(m) # m.refs /\ kcur' = m
      BY <1>5, <2>3 DEF KReads, KReturns
    <3>2. kcur' \in manifests /\ Relocated(kcur)' # kcur'.refs
      BY <3>1 DEF Versions, Relocated
    <3> QED
      BY <2>1, <3>1, <3>2 DEF RewriteInv, Version
  <2> QED
    BY <2>2, <2>3
<1>6. CASE KPuts
  <2> DEFINE m1 == [kcur EXCEPT !.refs = Relocated(kcur)]
  <2>1. kpc = "put" /\ kpc' = "drop" /\ manifests' = manifests \union {m1} /\ UNCHANGED <<wpc, wctx, kcur>>
    BY <1>6 DEF KPuts
  <2>2. Version(m1) /\ m1.ctx = kcur.ctx /\ m1 # kcur
    BY <2>1 DEF RewriteInv, Version
  <2> HIDE DEF m1
  <2> QED
    BY <2>1, <2>2 DEF RewriteInv, Version
<1>7. CASE KDrops
  BY <1>7 DEF KDrops, RewriteInv, Version
<1> QED
  BY <1>1, <1>2, <1>3, <1>4, <1>5, <1>6, <1>7 DEF KStep

\* Compaction never leaves a key without a version: the old one is dropped only
\* when the rewritten one is there, whatever other calls did in between
\* (rewriteSelectedRefs).
THEOREM RewritingKeepsKeys == CSpec => KeysSurvive
<1>1. CInit => RewriteInv
  BY InitRewrite
<1>2. RewriteInv /\ [CNext]_cvars => RewriteInv'
  <2> SUFFICES ASSUME RewriteInv, [CNext]_cvars PROVE RewriteInv'
    OBVIOUS
  <2> USE DEF storeVars, writerVars, compactVars
  <2>1. CASE \E w \in Writer : CPutActs(w)
    BY <2>1, PutRewrite
  <2>2. CASE \E x \in Context : CKeyDeleted(x)
    BY <2>2, DeletedRewrite
  <2>3. CASE (GCStep \/ GCSkips \/ GCDies) /\ UNCHANGED compactVars
    BY <2>3, OtherRewrite DEF GCStep, GCMarks, GCVisits, GCPurges, GCDeletes, GCEnds, GCSkips, GCDies
  <2>4. CASE CTick
    BY <2>4, OtherRewrite DEF CTick, Tick
  <2>5. CASE KStep \/ KDies
    BY <2>5, StepRewrite
  <2>6. CASE UNCHANGED cvars
    BY <2>6, OtherRewrite DEF cvars, vars
  <2> QED
    BY <2>1, <2>2, <2>3, <2>4, <2>5, <2>6 DEF CNext
<1>3. RewriteInv /\ [CNext]_cvars => [kpc' # kpc => Keys \subseteq Keys']_cvars
  <2> SUFFICES ASSUME RewriteInv, CNext, kpc' # kpc PROVE Keys \subseteq Keys'
    OBVIOUS
  <2> USE DEF vars, storeVars, compactVars
  <2>1. KStep \/ KDies
    BY DEF CNext, CPutActs, CKeyDeleted, CTick
  <2>2. CASE KDrops
    BY <2>2 DEF RewriteInv, Keys, KDrops
  <2>3. CASE ~KDrops
    <3>1. manifests \subseteq manifests'
      BY <2>1, <2>3 DEF KStep, KDies, KSelects, KWrites, KFetchFails, KPurges, KRecords, KReads, KPuts, KEnds
    <3> QED
      BY <3>1 DEF Keys
  <2> QED
    BY <2>2, <2>3
<1> QED
  BY <1>1, <1>2, <1>3, PTL DEF CSpec, KeysSurvive

----------------------------------------------------------------------------
(* Compaction: what it does to bytes.                                       *)

\* A chunk is in the pack that a list gives for it.
Placed(f) == \A c \in Chunk : f[c] # NoPack => c \in f[c]
AllPlaced ==
    /\ Placed(index) /\ \A m \in manifests : Placed(m.refs)
    /\ \A w \in Writer : Placed(refs[w])

\* The rewritten form of the manifest at hand.
Rewritten == [kcur EXCEPT !.refs = Relocated(kcur)]

\* The plan of a compaction: chunks move together with their pack; what it has
\* written or reused is young or kept, unless it is marked; the old version goes
\* after the new one came.
PlanInv ==
    /\ CTypeOK /\ bpc = "idle"
    /\ kpc = "idle" => kmade = {} /\ kloc = Blank
    /\ kpc # "write" => knew = {}
    /\ \A c \in Chunk : kloc[c] # NoPack => c \in kloc[c] /\ \A d \in kloc[c] : kloc[d] = kloc[c]
    /\ \A p \in kmade : p \in blobs /\ age[p] <= kbusy
    /\ ~kracy => PacksOf(kloc) \ knew \subseteq kmade \union Kept
    /\ kpc \in {"put", "drop"} =>
         kcur \in [ctx : Context, refs : [Chunk -> Loc], own : BOOLEAN] /\ Placed(kcur.refs)
    /\ kpc = "drop" => Rewritten # kcur /\ (kcur \in manifests => Rewritten \in manifests)

CompactInv == SweepInv /\ RewriteInv /\ AllPlaced /\ PlanInv

\* A Put gives a chunk the pack that the index has for it, or the one it was packed in.
LEMMA PutPlaced ==
    ASSUME TypeOK, AllPlaced, NEW w \in Writer, PutActs(w)
    PROVE  AllPlaced'
<1> USE DEF AllPlaced, Placed
<1>1. CASE PutBegins(w)
  BY <1>1 DEF PutBegins, Begin, storeVars
<1>2. CASE PutEmits(w)
  <2>1. PICK c \in Chunk : Emit(w, c)
    BY <1>2 DEF PutEmits
  <2>2. UNCHANGED <<index, manifests>>
    BY <2>1 DEF Emit, storeVars
  <2>3. \A v \in Writer, d \in Chunk : refs'[v][d] = refs[v][d] \/ (d = c /\ refs'[v][d] = index[c])
    BY SMT, <2>1, Types DEF Emit
  <2> QED
    BY SMT, <2>2, <2>3
<1>3. CASE PutFlushes(w)
  <2>1. UNCHANGED <<index, manifests>>
    BY <1>3 DEF PutFlushes, Flush
  <2>2. \A v \in Writer, d \in Chunk : refs'[v][d] = refs[v][d] \/ d \in refs'[v][d]
    BY <1>3, Types DEF PutFlushes, Flush
  <2> QED
    BY <2>1, <2>2
<1>4. CASE PutCommits(w)
  <2>1. UNCHANGED <<manifests, refs>>
    BY <1>4 DEF PutCommits, Record, Associate
  <2>2. \A c \in Chunk : index'[c] \in {index[c], refs[w][c]}
    BY <1>4 DEF PutCommits, Record, Associate
  <2> QED
    BY <2>1, <2>2
<1>5. CASE PutEnds(w)
  <2>1. PutReturns(w) /\ UNCHANGED index
    BY <1>5 DEF PutEnds, WriteManifest, PutFails, storeVars
  <2>2. \A m \in manifests' : m \in manifests \/ m.refs = refs[w]
    BY SMT, <1>5 DEF PutEnds, WriteManifest, PutFails, storeVars
  <2>3. \A v \in Writer : refs'[v] = refs[v] \/ refs'[v] = Blank
    BY <2>1, ReturnsFacts
  <2> QED
    BY SMT, <2>1, <2>2, <2>3 DEF Blank
<1> QED
  BY <1>1, <1>2, <1>3, <1>4, <1>5 DEF PutActs

\* A Put takes no blob away, ages none, and leaves RegisterRef alone.
LEMMA PutMonotone ==
    ASSUME TypeOK, NEW w \in Writer, PutActs(w)
    PROVE  /\ blobs \subseteq blobs' /\ \A p \in blobs : age'[p] = age[p]
           /\ manifests \subseteq manifests' /\ UNCHANGED bpc
<1>1. CASE PutBegins(w) \/ PutEmits(w) \/ PutCommits(w) \/ PutEnds(w)
  BY <1>1 DEF PutBegins, PutEmits, PutCommits, PutEnds, Begin, Emit, Record, Associate, WriteManifest, PutFails,
              storeVars, timeVars, bridgeVars
<1>2. CASE PutFlushes(w)
  <2>1. buf[w] \notin blobs => \A p \in blobs : age'[p] = age[p]
    BY <1>2, Types DEF PutFlushes
  <2>2. buf[w] \in blobs => UNCHANGED age
    BY <1>2 DEF PutFlushes
  <2> QED
    BY <1>2, <2>1, <2>2 DEF PutFlushes, Flush, bridgeVars
<1> QED
  BY <1>1, <1>2 DEF PutActs

\* The plan under steps of others that keep what is kept, what was made and the
\* versions.
LEMMA PlanFrame ==
    ASSUME PlanInv, TypeOK', UNCHANGED <<bpc, compactVars>>, Kept \subseteq Kept',
           \A p \in kmade : p \in blobs' /\ age'[p] <= kbusy,
           manifests \subseteq manifests', kpc = "drop" /\ kcur \in manifests' => kcur \in manifests
    PROVE  PlanInv'
<1> USE DEF compactVars
<1>1. CTypeOK'
  BY DEF PlanInv, CTypeOK, NoManifest, NoLoc
<1>2. Rewritten' = Rewritten
  BY DEF Rewritten, Relocated
<1> QED
  BY <1>1, <1>2 DEF PlanInv, Placed

\* No compaction is planned at first.
LEMMA InitCompact == CInit => CompactInv
<1> SUFFICES ASSUME CInit PROVE CompactInv
  OBVIOUS
<1>1. SweepInv /\ RewriteInv /\ TypeOK
  BY InitSweep, InitRewrite, Parts DEF CInit
<1>2. AllPlaced
  BY DEF CInit, Init, PSInit, AllPlaced, Placed
<1>3. CTypeOK
  <2>1. kcur # NoManifest <=> kpc \in {"put", "drop"}
    BY DEF CInit
  <2>2. kloc \in [Chunk -> Loc] /\ kbusy \in 0 .. MaxPut
    BY SMT, PackFacts, TimesAssumption DEF CInit, NoLoc, Blank
  <2>3. kracy \in BOOLEAN /\ kpc \in {"idle", "write", "purge", "record", "keys", "put", "drop"}
    BY DEF CInit
  <2> QED
    BY <1>1, <2>1, <2>2, <2>3 DEF CInit, CTypeOK
<1>4. PlanInv
  BY <1>3, PacksOfFacts DEF CInit, Init, PlanInv, NoLoc, Blank, Placed
<1> QED
  BY <1>1, <1>2, <1>4 DEF CompactInv

\* A Put beside a compaction.
LEMMA PutCompact ==
    ASSUME CompactInv, NEW w \in Writer, CPutActs(w)
    PROVE  CompactInv'
<1>0. SweepInv /\ RewriteInv /\ AllPlaced /\ PlanInv /\ TypeOK
  BY Parts DEF CompactInv
<1>1. PutActs(w) /\ UNCHANGED compactVars
  BY DEF CPutActs
<1>2. SweepInv' /\ Kept \subseteq Kept' /\ TypeOK'
  BY <1>0, <1>1, PutSweep DEF SweepInv, SweepSpares
<1>3. RewriteInv'
  BY <1>0, PutRewrite
<1>4. AllPlaced'
  BY <1>0, <1>1, PutPlaced
<1>5. /\ blobs \subseteq blobs' /\ \A p \in blobs : age'[p] = age[p]
      /\ manifests \subseteq manifests' /\ UNCHANGED bpc
  BY <1>0, <1>1, PutMonotone
<1>6. kpc = "drop" /\ kcur \in manifests' => kcur \in manifests
  <2>1. CASE PutEnds(w)
    <3>1. manifests' \in {manifests, manifests \union {[ctx |-> wctx[w], refs |-> refs[w], own |-> own[w]]}}
      BY <2>1 DEF PutEnds, WriteManifest, PutFails, storeVars
    <3> QED
      BY SMT, <1>0, <3>1 DEF RewriteInv
  <2>2. CASE ~PutEnds(w)
    BY <1>1, <2>2 DEF PutActs, PutBegins, PutEmits, PutFlushes, PutCommits, Begin, Emit, Flush, Record,
                      Associate, storeVars
  <2> QED
    BY <2>1, <2>2
<1>7. PlanInv'
  BY <1>0, <1>1, <1>2, <1>5, <1>6, PlanFrame DEF PlanInv
<1> QED
  BY <1>2, <1>3, <1>4, <1>7 DEF CompactInv

\* A step of the collector: what a compaction made is too young to be the victim.
LEMMA CollectorCompact ==
    ASSUME CompactInv, GCStep \/ GCSkips \/ GCDies, UNCHANGED compactVars
    PROVE  CompactInv'
<1>0. SweepInv /\ RewriteInv /\ AllPlaced /\ PlanInv /\ TypeOK /\ VictimAged
  BY Parts DEF CompactInv
<1>1. SweepInv' /\ Kept \subseteq Kept' /\ TypeOK'
  BY <1>0, CollectorSweep DEF SweepInv, SweepSpares
<1>2. UNCHANGED <<manifests, wpc, wctx, refs, age, bpc>>
  BY DEF GCStep, GCMarks, GCVisits, GCPurges, GCDeletes, GCEnds, GCSkips, GCDies,
         storeVars, writerVars, timeVars, bridgeVars
<1>3. RewriteInv'
  BY <1>0, <1>2, OtherRewrite DEF compactVars
<1>4. AllPlaced'
  <2>1. \A c \in Chunk : index'[c] \in {index[c], NoPack}
    BY DEF GCStep, GCMarks, GCVisits, GCPurges, GCDeletes, GCEnds, GCSkips, GCDies, storeVars
  <2> QED
    BY <1>0, <1>2, <2>1 DEF AllPlaced, Placed
<1>5. \A p \in kmade : p \in blobs' /\ age'[p] <= kbusy
  <2>1. \A p \in kmade : p \in blobs /\ age[p] <= kbusy
    BY <1>0 DEF PlanInv
  <2>2. CASE GCDeletes
    <3>1. gpc = "delete" /\ blobs' = blobs \ {gcur}
      BY <2>2 DEF GCDeletes
    <3>2. age[gcur] \in 0 .. Window /\ age[gcur] >= Window /\ kbusy \in 0 .. MaxPut
      BY <1>0, <3>1, Types DEF VictimAged, PlanInv, CTypeOK
    <3>3. ~(age[gcur] <= kbusy)
      BY SMT, <3>2, TimesAssumption
    <3> QED
      BY <1>2, <2>1, <3>1, <3>3
  <2>3. CASE ~GCDeletes
    BY <1>2, <2>1, <2>3 DEF GCStep, GCMarks, GCVisits, GCPurges, GCEnds, GCSkips, GCDies, storeVars
  <2> QED
    BY <2>2, <2>3
<1>6. PlanInv'
  BY <1>0, <1>1, <1>2, <1>5, PlanFrame
<1> QED
  BY <1>1, <1>3, <1>4, <1>6 DEF CompactInv

\* A compaction takes at most as long as a Put.
LEMMA TickCompact ==
    ASSUME CompactInv, CTick
    PROVE  CompactInv'
<1>0. SweepInv /\ RewriteInv /\ AllPlaced /\ PlanInv /\ TypeOK
  BY Parts DEF CompactInv
<1>1. SweepInv' /\ Kept \subseteq Kept' /\ TypeOK'
  BY <1>0, TickSweep DEF CTick, SweepInv, SweepSpares
<1>2. /\ UNCHANGED <<blobs, index, manifests, wpc, wctx, refs, bpc>>
      /\ UNCHANGED <<kpc, ksel, knew, kloc, kkeys, kcur, kmade, kracy, superseded>>
  BY DEF CTick, Tick, storeVars, writerVars, bridgeVars
<1>3. RewriteInv' /\ AllPlaced'
  BY <1>0, <1>2, OtherRewrite DEF AllPlaced
<1>4. kbusy' \in 0 .. MaxPut /\ kbusy \in 0 .. MaxPut /\ (kpc # "idle" => kbusy' = kbusy + 1)
  BY SMT, <1>0, TimesAssumption DEF CTick, PlanInv, CTypeOK
<1>5. \A p \in kmade : p \in blobs' /\ age'[p] <= kbusy'
  <2>1. ASSUME NEW p \in kmade PROVE p \in blobs' /\ age'[p] <= kbusy'
    <3>1. p \in blobs /\ p \in Pack /\ age[p] <= kbusy /\ kpc # "idle"
      BY <1>0, <2>1, Types DEF PlanInv
    <3>2. age[p] \in 0 .. Window /\ age'[p] \in {age[p], age[p] + 1}
      BY <1>0, <3>1, Types DEF CTick, Tick, Older
    <3> QED
      BY SMT, <1>2, <1>4, <3>1, <3>2, TimesAssumption
  <2> QED
    BY <2>1
<1>6. CTypeOK'
  BY <1>0, <1>1, <1>2, <1>4 DEF PlanInv, CTypeOK, NoManifest, NoLoc
<1>7. PlanInv'
  <2>1. Rewritten' = Rewritten
    BY <1>2 DEF Rewritten, Relocated
  <2> QED
    BY <1>0, <1>1, <1>2, <1>5, <1>6, <2>1 DEF PlanInv, Placed
<1> QED
  BY <1>1, <1>3, <1>7 DEF CompactInv

\* A deletion: the compaction is marked when it relied on what is now unpinned.
LEMMA DeletedCompact ==
    ASSUME CompactInv, NEW x \in Context, CKeyDeleted(x)
    PROVE  CompactInv'
<1>0. SweepInv /\ RewriteInv /\ AllPlaced /\ PlanInv /\ TypeOK /\ Pinned \subseteq Kept /\ KeysApart
  BY Parts DEF CompactInv
<1>1. KeyDeleted(x) /\ SweepInv' /\ TypeOK' /\ (Pinned \subseteq Kept)'
  BY <1>0, DeletedSweep DEF CKeyDeleted, SweepInv, SweepSpares
<1>2. /\ manifests' = {m \in manifests : m.ctx # x}
      /\ UNCHANGED <<blobs, index, age, refs, bpc, kpc, kbusy, ksel, knew, kloc, kkeys, kcur, kmade>>
      /\ superseded' = {m \in superseded : m.ctx # x}
  BY DEF CKeyDeleted, KeyDeleted, writerVars, bridgeVars
<1>3. RewriteInv' /\ AllPlaced'
  BY <1>0, <1>2, DeletedRewrite DEF AllPlaced
<1>4. PinnedWithout(x) \subseteq Kept'
  <2>1. Exposed(PinnedWithout(x)) \subseteq Writer
    BY <1>0, ContextAssumption DEF Exposed, PlanInv, KeysApart
  <2>2. \A m \in manifests : m.ctx \notin Exposed(PinnedWithout(x))
    BY <1>0, <2>1, Types, NamesAssumption
  <2>3. PinnedWithout(x) \subseteq Pinned'
    BY <1>1, <1>2, <2>2, PinnedFacts DEF PinnedWithout, KeyDeleted
  <2> QED
    BY <1>1, <2>3
<1>5. kracy' \in BOOLEAN /\ (~kracy' => PacksOf(kloc) \ knew \subseteq kmade \union Kept')
  <2>1. kracy' = (kracy \/ (PacksOf(kloc) \cap blobs) \ (kmade \union knew \union PinnedWithout(x)) # {})
    BY DEF CKeyDeleted
  <2>2. ~kracy' => ~kracy /\ (PacksOf(kloc) \cap blobs) \ (kmade \union knew \union PinnedWithout(x)) = {}
    BY <2>1
  <2>3. ~kracy => PacksOf(kloc) \ knew \subseteq blobs
    BY <1>0 DEF PlanInv, Kept
  <2> QED
    BY <1>4, <2>1, <2>2, <2>3
<1>6. CTypeOK'
  <2>1. superseded' \subseteq manifests'
    BY <1>0, <1>2 DEF PlanInv, CTypeOK
  <2> QED
    BY <1>0, <1>1, <1>2, <1>5, <2>1 DEF PlanInv, CTypeOK, NoManifest, NoLoc
<1>7. PlanInv'
  <2>1. Rewritten' = Rewritten
    BY <1>2 DEF Rewritten, Relocated
  <2>2. kpc = "drop" => Rewritten.ctx = kcur.ctx
    BY <1>0 DEF PlanInv, Rewritten
  <2> QED
    BY <1>0, <1>2, <1>5, <1>6, <2>1, <2>2 DEF PlanInv, Placed
<1> QED
  BY <1>1, <1>3, <1>7 DEF CompactInv

\* A compaction that returns forgets its plan.
LEMMA ReturnsPlan ==
    ASSUME PlanInv, TypeOK', KReturns, UNCHANGED <<superseded, manifests, bpc>>
    PROVE  PlanInv'
<1>1. kloc' = Blank /\ kcur' = NoManifest /\ kpc' = "idle" /\ kmade' = {} /\ knew' = {}
  BY DEF KReturns, NoLoc, Blank
<1>2. CTypeOK'
  <2>1. kbusy' \in 0 .. MaxPut /\ kloc' \in [Chunk -> Loc] /\ kracy' \in BOOLEAN
    <3>1. kbusy' \in 0 .. MaxPut
      BY SMT, TimesAssumption DEF KReturns
    <3>2. kloc' \in [Chunk -> Loc]
      BY <1>1, PackFacts
    <3>3. kracy' \in BOOLEAN
      BY DEF KReturns
    <3> QED
      BY <3>1, <3>2, <3>3
  <2>2. kcur' = NoManifest'
    BY <1>1 DEF NoManifest, NoLoc
  <2>3. superseded' \subseteq manifests'
    BY DEF PlanInv, CTypeOK
  <2> QED
    BY <1>1, <2>1, <2>2, <2>3 DEF CTypeOK, KReturns
<1>3. PacksOf(kloc') = {} /\ \A c \in Chunk : kloc'[c] = NoPack
  BY <1>1, PacksOfFacts DEF Blank
<1> QED
  BY <1>1, <1>2, <1>3 DEF PlanInv

\* The chosen packs cut the live chunks into disjoint packs: a chunk of a new pack
\* goes to that pack.
LEMMA SelectsCompact ==
    ASSUME CompactInv, NEW sel \in SUBSET blobs, KSelects(sel)
    PROVE  CompactInv'
<1>0. SweepInv /\ RewriteInv /\ AllPlaced /\ PlanInv /\ TypeOK
  BY Parts DEF CompactInv
<1> DEFINE live == UNION {LiveIn(p) : p \in sel}
<1>1. /\ kpc = "idle" /\ kpc' = "write" /\ ksel' = sel
      /\ kkeys' = {m.ctx : m \in {n \in Latest : PacksOf(n.refs) \cap sel # {}}}
      /\ UNCHANGED <<kbusy, kcur, kmade, kracy, superseded, vars>>
  BY DEF KSelects
<1>2. PICK S \in Consolidations(live) :
        /\ knew' = S
        /\ kloc' = [c \in Chunk |-> IF c \in live THEN CHOOSE p \in S : c \in p ELSE NoPack]
  BY DEF KSelects
<1> HIDE DEF live
<1>3. S \subseteq Pack /\ UNION S = live /\ \A p, q \in S : p # q => p \cap q = {}
  BY <1>2 DEF Consolidations
<1>4. /\ \A c \in Chunk : c \in live => kloc'[c] \in S /\ c \in kloc'[c]
      /\ \A c \in Chunk : c \notin live => kloc'[c] = NoPack
  BY <1>2, <1>3
<1>5. \A c \in Chunk : kloc'[c] # NoPack => c \in kloc'[c] /\ \A d \in kloc'[c] : kloc'[d] = kloc'[c]
  <2>1. ASSUME NEW c \in Chunk, c \in live, NEW d \in kloc'[c] PROVE kloc'[d] = kloc'[c]
    <3>1. d \in live /\ d \in Chunk
      BY SMT, <1>3, <1>4, <2>1 DEF Pack
    <3> QED
      BY SMT, <1>3, <1>4, <2>1, <3>1
  <2> QED
    BY <1>4, <2>1
<1>6. kloc' \in [Chunk -> Loc] /\ PacksOf(kloc') \ knew' = {}
  <2>1. \A c \in Chunk : kloc'[c] \in Loc
    BY <1>3, <1>4, PackFacts DEF Loc
  <2> QED
    BY SMT, <1>2, <1>4, <2>1, PacksOfFacts
<1>7. SweepInv' /\ TypeOK'
  BY <1>0, <1>1, StutterSweep DEF SweepInv, SweepSpares
<1>8. UNCHANGED <<blobs, index, manifests, wpc, wctx, refs, age, bpc, kbusy, kcur, kmade, kracy, superseded>>
  BY <1>1 DEF vars, storeVars, writerVars, timeVars, bridgeVars
<1>9. RewriteInv' /\ AllPlaced'
  BY <1>0, <1>1, <1>8, OtherRewrite DEF AllPlaced
<1>10. CTypeOK'
  <2>1. kkeys' \subseteq Context
    BY <1>0, <1>1, Types DEF Latest
  <2>2. ksel' \subseteq Pack /\ knew' \subseteq Pack
    BY <1>0, <1>1, <1>2, <1>3, Types
  <2>3. kcur' = NoManifest
    BY <1>0, <1>1, <1>8 DEF PlanInv, CTypeOK
  <2> QED
    BY <1>0, <1>1, <1>6, <1>7, <1>8, <2>1, <2>2, <2>3 DEF PlanInv, CTypeOK, NoManifest, NoLoc
<1>11. PlanInv'
  BY <1>0, <1>1, <1>5, <1>6, <1>8, <1>10 DEF PlanInv
<1> QED
  BY <1>7, <1>9, <1>11 DEF CompactInv

\* A consolidated pack is new, or kept, or the compaction is marked.
LEMMA WritesCompact ==
    ASSUME CompactInv, NEW p \in Pack, KWrites(p)
    PROVE  CompactInv'
<1>0. SweepInv /\ RewriteInv /\ AllPlaced /\ PlanInv
  BY DEF CompactInv
<1>a. TypeOK /\ Pinned \subseteq Kept /\ KeysApart /\ CallsCovered /\ MadeYoung /\ AllAssociated /\ VictimAged
  BY <1>0, Parts
<1>1. /\ kpc = "write" /\ p \in knew /\ blobs' = blobs \union {p} /\ knew' = knew \ {p}
      /\ kpc' = IF knew = {p} THEN "purge" ELSE "write"
      /\ UNCHANGED <<kbusy, ksel, kloc, kkeys, kcur, superseded>>
      /\ UNCHANGED <<index, pstate, assoc, manifests, writerVars, faults, busy, made, racy, sweepVars, bridgeVars>>
  BY DEF KWrites
<1>2. IF p \in blobs THEN kracy' = (kracy \/ p \notin Pinned) /\ UNCHANGED <<age, kmade>>
      ELSE age' = [age EXCEPT ![p] = 0] /\ kmade' = kmade \union {p} /\ UNCHANGED kracy
  BY DEF KWrites
<1>3. age' \in [Pack -> 0 .. Window] /\ \A q \in blobs : age'[q] = age[q]
  <2>1. 0 \in 0 .. Window
    BY SMT, TimesAssumption
  <2> QED
    BY <1>a, <1>2, <2>1, Types
<1>4. Pinned' = Pinned /\ Kept \subseteq Kept'
  BY <1>1, <1>3, PinnedSame, KeptGrows DEF sweepVars
<1>5. SweepInv' /\ TypeOK'
  <2>1. TypeOK'
    BY <1>a, <1>1, <1>3 DEF TypeOK, PSTypeOK, writerVars, sweepVars, bridgeVars
  <2>2. MadeYoung'
    BY <1>a, <1>1, <1>3 DEF MadeYoung
  <2>3. VictimAged'
    BY <1>a, <1>1, <1>3 DEF VictimAged, sweepVars
  <2>4. KeysApart' /\ CallsCovered' /\ AllAssociated'
    BY <1>a, <1>1, <1>4, KeysFrame, CallsFrame, AssocFrame DEF writerVars, bridgeVars
  <2> QED
    BY <1>a, <1>4, <2>1, <2>2, <2>3, <2>4, Parts
<1>6. RewriteInv' /\ AllPlaced'
  BY <1>0, <1>1, OtherRewrite DEF AllPlaced, writerVars
<1>7. \A q \in kmade' : q \in blobs' /\ age'[q] <= kbusy'
  <2>1. \A q \in kmade : q \in blobs' /\ age'[q] <= kbusy'
    BY <1>0, <1>1, <1>3 DEF PlanInv
  <2>2. p \notin blobs => age'[p] <= kbusy'
    <3>1. p \notin blobs => age'[p] = 0
      BY <1>a, <1>2, Types
    <3>2. kbusy' \in 0 .. MaxPut
      BY <1>0, <1>1 DEF PlanInv, CTypeOK
    <3> QED
      BY SMT, <3>1, <3>2, TimesAssumption
  <2> QED
    BY <1>1, <1>2, <2>1, <2>2
<1>8. ~kracy' => PacksOf(kloc) \ knew' \subseteq kmade' \union Kept'
  <2>1. ~kracy' => ~kracy /\ p \in kmade' \union Kept
    BY <1>a, <1>2
  <2>2. kmade \subseteq kmade'
    BY <1>2
  <2> QED
    BY <1>0, <1>1, <1>4, <2>1, <2>2 DEF PlanInv
<1>9. CTypeOK'
  <2>1. kracy' \in BOOLEAN /\ kmade' \subseteq Pack
    BY <1>0, <1>2 DEF PlanInv, CTypeOK
  <2> QED
    BY <1>0, <1>1, <1>5, <2>1 DEF PlanInv, CTypeOK, NoManifest, NoLoc
<1>10. PlanInv'
  BY <1>0, <1>1, <1>7, <1>8, <1>9 DEF PlanInv, bridgeVars
<1> QED
  BY <1>5, <1>6, <1>10 DEF CompactInv

\* A pass that gives up, ends, or dies: what it wrote is left to the collector.
LEMMA ReturnsCompact ==
    ASSUME CompactInv, KFetchFails \/ KEnds \/ KDies
    PROVE  CompactInv'
<1>0. SweepInv /\ RewriteInv /\ AllPlaced /\ PlanInv /\ TypeOK /\ VictimAged
  BY Parts DEF CompactInv
<1>1. KReturns /\ UNCHANGED <<superseded, storeVars, writerVars, timeVars, sweepVars, bridgeVars>>
  BY DEF KFetchFails, KEnds, KDies, vars
<1>2. SweepInv' /\ TypeOK'
  <2>1. CASE KFetchFails \/ KEnds
    BY <1>0, <2>1, StutterSweep DEF KFetchFails, KEnds, SweepInv, SweepSpares
  <2>2. CASE KDies
    <3>1. faults' \in 0 .. MaxFaults
      BY SMT, <1>0, <2>2, BoundsAssumption DEF KDies, TypeOK, PSTypeOK
    <3>2. Kept \subseteq Kept' /\ VictimAged'
      BY <1>0, <1>1, KeptGrows, VictimFrame DEF storeVars, timeVars, sweepVars
    <3>3. index' \in [Chunk -> Loc] /\ gpc' \in {"idle", "sweep", "purge", "delete"} /\ glive' \subseteq Pack
          /\ gseen' \subseteq Pack /\ gcur' \in Loc /\ gtime' \in 0 .. MaxPass
      BY <1>0, <1>1 DEF TypeOK, PSTypeOK, storeVars, sweepVars
    <3> QED
      BY <1>0, <1>1, <3>1, <3>2, <3>3, PassSteps DEF storeVars, SweepInv, SweepSpares
  <2> QED
    BY <2>1, <2>2
<1>3. RewriteInv' /\ AllPlaced'
  BY <1>0, <1>1, StepRewrite DEF KStep, AllPlaced, storeVars, writerVars
<1>4. PlanInv'
  BY <1>0, <1>1, <1>2, ReturnsPlan DEF storeVars, bridgeVars
<1> QED
  BY <1>2, <1>3, <1>4 DEF CompactInv

\* Repointing the index: a chunk is repointed to a pack that holds it.
LEMMA RepointsCompact ==
    ASSUME CompactInv, KPurges \/ KRecords
    PROVE  CompactInv'
<1>0. SweepInv /\ RewriteInv /\ AllPlaced /\ PlanInv /\ TypeOK /\ VictimAged
  BY Parts DEF CompactInv
<1>1. /\ kpc \in {"purge", "record"} /\ kpc' \in {"record", "keys"}
      /\ UNCHANGED <<kbusy, ksel, knew, kloc, kkeys, kcur, kmade, kracy, superseded, blobs, pstate,
                     assoc, manifests, writerVars, faults, timeVars, sweepVars, bridgeVars>>
  BY DEF KPurges, KRecords
<1>2. index' \in [Chunk -> Loc] /\ \A c \in Chunk : index'[c] \in {index[c], kloc[c], NoPack}
  <2>1. index \in [Chunk -> Loc] /\ kloc \in [Chunk -> Loc] /\ NoPack \in Loc
    BY <1>0, PackFacts, Types DEF PlanInv, CTypeOK
  <2>2. CASE KPurges
    BY SMT, <2>1, <2>2 DEF KPurges
  <2>3. CASE KRecords
    BY SMT, <2>1, <2>3 DEF KRecords
  <2> QED
    BY <2>2, <2>3
<1>3. Kept \subseteq Kept' /\ VictimAged'
  BY <1>0, <1>1, KeptGrows, VictimFrame DEF timeVars, sweepVars
<1>4. SweepInv' /\ TypeOK'
  <2>1. faults' \in 0 .. MaxFaults /\ gpc' \in {"idle", "sweep", "purge", "delete"} /\ glive' \subseteq Pack
        /\ gseen' \subseteq Pack /\ gcur' \in Loc /\ gtime' \in 0 .. MaxPass
    BY <1>0, <1>1 DEF TypeOK, PSTypeOK, sweepVars
  <2> QED
    BY <1>0, <1>1, <1>2, <1>3, <2>1, PassSteps DEF SweepInv, SweepSpares
<1>5. RewriteInv'
  BY <1>0, StepRewrite DEF KStep
<1>6. AllPlaced'
  BY <1>0, <1>1, <1>2 DEF AllPlaced, Placed, PlanInv, writerVars
<1>7. CTypeOK'
  BY <1>0, <1>1, <1>4 DEF PlanInv, CTypeOK, NoManifest, NoLoc
<1>8. PlanInv'
  BY <1>0, <1>1, <1>3, <1>7 DEF PlanInv, timeVars, bridgeVars
<1> QED
  BY <1>4, <1>5, <1>6, <1>8 DEF CompactInv

\* The pass takes up a stored manifest, passes over a key, or fails.
LEMMA ReadsCompact ==
    ASSUME CompactInv, NEW x \in Context, KReads(x)
    PROVE  CompactInv'
<1>0. SweepInv /\ RewriteInv /\ AllPlaced /\ PlanInv /\ TypeOK
  BY Parts DEF CompactInv
<1>1. kpc = "keys" /\ UNCHANGED <<superseded, vars>>
  BY DEF KReads
<1>2. UNCHANGED <<blobs, index, manifests, wpc, wctx, refs, age, bpc, gpc, glive, gtime>>
  BY <1>1 DEF vars, storeVars, writerVars, timeVars, sweepVars, bridgeVars
<1>3. SweepInv' /\ TypeOK' /\ Kept \subseteq Kept'
  BY <1>0, <1>1, <1>2, StutterSweep, KeptGrows DEF SweepInv, SweepSpares
<1>4. RewriteInv' /\ AllPlaced'
  BY <1>0, <1>2, StepRewrite DEF KStep, AllPlaced
<1>5. PlanInv'
  <2>1. CASE KReturns
    BY <1>0, <1>1, <1>2, <1>3, <2>1, ReturnsPlan
  <2>2. CASE ~KReturns
    <3>1. /\ UNCHANGED <<kbusy, ksel, knew, kloc, kmade, kracy>> /\ kkeys' = kkeys \ {x}
          /\ \/ UNCHANGED <<kpc, kcur>>
             \/ kpc' = "put" /\ kcur' \in manifests
      BY <2>2 DEF KReads, Versions
    <3>2. \A m \in manifests : m \in [ctx : Context, refs : [Chunk -> Loc], own : BOOLEAN] /\ m # NoManifest
      <4>1. NoManifest.ctx = NoContext
        BY DEF NoManifest
      <4>2. \A m \in manifests : m.ctx # NoContext
        BY <1>0, Types, ContextAssumption
      <4>3. manifests \subseteq [ctx : Context, refs : [Chunk -> Loc], own : BOOLEAN]
        BY <1>0 DEF TypeOK, PSTypeOK
      <4> QED
        BY <4>1, <4>2, <4>3
    <3>3. CTypeOK'
      BY <1>0, <1>1, <1>2, <1>3, <3>1, <3>2 DEF PlanInv, CTypeOK, NoManifest, NoLoc
    <3>4. kpc' = "put" => kcur' \in [ctx : Context, refs : [Chunk -> Loc], own : BOOLEAN] /\ Placed(kcur'.refs)
      BY <1>0, <1>1, <3>1, <3>2 DEF AllPlaced
    <3> QED
      BY <1>0, <1>1, <1>2, <1>3, <3>1, <3>3, <3>4 DEF PlanInv, Placed
  <2> QED
    BY <2>1, <2>2
<1> QED
  BY <1>3, <1>4, <1>5 DEF CompactInv

\* The rewritten version is pinned by what is pinned already and by what the pass
\* wrote, which is younger than the pass.
LEMMA PutsCompact ==
    ASSUME CompactInv, KPuts, UseAssoc = FALSE
    PROVE  CompactInv'
<1>0. SweepInv /\ RewriteInv /\ AllPlaced /\ PlanInv
  BY DEF CompactInv
<1>a. TypeOK /\ Pinned \subseteq Kept /\ KeysApart /\ CallsCovered /\ MadeYoung /\ VictimAged
  BY <1>0, Parts
<1>1. /\ kpc = "put" /\ kpc' = "drop" /\ manifests' = manifests \union {Rewritten}
      /\ superseded' = superseded \union ({kcur} \cap manifests)
      /\ racy' = IF kracy \/ kcur \notin manifests THEN racy \union {kcur.ctx} ELSE racy
      /\ UNCHANGED <<kbusy, ksel, knew, kloc, kkeys, kcur, kmade, kracy>>
      /\ UNCHANGED <<blobs, index, pstate, assoc, writerVars, faults, age, busy, made, sweepVars, bridgeVars>>
  BY DEF KPuts, Rewritten
<1>2. kcur \in [ctx : Context, refs : [Chunk -> Loc], own : BOOLEAN] /\ Placed(kcur.refs) /\ knew = {}
  BY <1>0, <1>1 DEF PlanInv
<1>3. /\ Rewritten \in [ctx : Context, refs : [Chunk -> Loc], own : BOOLEAN]
      /\ Rewritten.ctx = kcur.ctx /\ Rewritten.refs = Relocated(kcur) /\ Rewritten # kcur
  <2>1. Relocated(kcur) \in [Chunk -> Loc] /\ Relocated(kcur) # kcur.refs
    BY <1>0, <1>1, <1>2 DEF Relocated, PlanInv, CTypeOK, RewriteInv
  <2> QED
    BY <1>2, <2>1 DEF Rewritten
<1>4. \A c \in Chunk : Relocated(kcur)[c] \in {kloc[c], kcur.refs[c]}
  BY DEF Relocated
<1>5. Rewritten' = Rewritten
  BY <1>1 DEF Rewritten, Relocated
<1> HIDE DEF Rewritten
<1>6. Kept \subseteq Kept' /\ racy \subseteq racy'
  BY <1>1, KeptGrows DEF sweepVars
<1>7. \A p \in kmade : p \in PacksOf(Relocated(kcur)) => p \in Kept'
  <2>1. ASSUME NEW p \in kmade, p \in PacksOf(Relocated(kcur)) PROVE p \in Kept'
    <3>1. p \in blobs /\ p \in Pack /\ age[p] <= kbusy /\ kbusy \in 0 .. MaxPut
      BY <1>0, <1>a, <2>1, Types DEF PlanInv, CTypeOK
    <3>2. age[p] <= MaxPut + gtime
      BY SMT, <1>a, <3>1, Types, TimesAssumption
    <3>3. Referenced(p)'
      BY <1>1, <1>3, <2>1 DEF Referenced
    <3> QED
      BY <1>1, <3>1, <3>2, <3>3 DEF Kept, sweepVars
  <2> QED
    BY <2>1
<1>8. (Pinned \subseteq Kept)'
  <2>1. ASSUME Rewritten.ctx \notin racy' PROVE PacksOf(Relocated(kcur)) \subseteq Kept'
    <3>1. ~kracy /\ kcur \in manifests /\ kcur.ctx \notin racy
      BY <1>1, <1>3, <2>1
    <3>2. PacksOf(kcur.refs) \subseteq Kept
      BY <1>a, <3>1, PinnedFacts
    <3>3. PacksOf(kloc) \subseteq kmade \union Kept
      BY <1>0, <1>2, <3>1 DEF PlanInv
    <3>4. PacksOf(Relocated(kcur)) \subseteq PacksOf(kloc) \union PacksOf(kcur.refs)
      BY SMT, <1>4, PacksOfFacts
    <3> QED
      BY <1>6, <1>7, <3>2, <3>3, <3>4
  <2>2. ASSUME NEW m \in manifests, m.ctx \notin racy' PROVE PacksOf(m.refs) \subseteq Kept'
    BY <1>a, <1>6, <2>2, PinnedFacts
  <2> QED
    BY <1>1, <1>3, <2>1, <2>2, PinnedFacts
<1>9. TypeOK'
  <2>1. manifests' \subseteq [ctx : Context, refs : [Chunk -> Loc], own : BOOLEAN]
    BY <1>a, <1>1, <1>3 DEF TypeOK, PSTypeOK
  <2>2. racy' \subseteq Writer \union Context
    BY <1>a, <1>1, <1>2 DEF TypeOK
  <2> QED
    BY <1>a, <1>1, <2>1, <2>2 DEF TypeOK, PSTypeOK, writerVars, sweepVars, bridgeVars
<1>10. KeysApart'
  <2>1. bctx = NoContext /\ Rewritten.ctx # NoContext
    BY <1>0, <1>a, <1>2, <1>3, ContextAssumption DEF PlanInv, KeysApart
  <2>2. \A w \in Writer : Rewritten.ctx # wctx[w]
    BY <1>0, <1>1, <1>3 DEF RewriteInv
  <2> QED
    BY <1>a, <1>1, <2>1, <2>2 DEF KeysApart, writerVars, bridgeVars
<1>11. SweepInv'
  <2>1. CallsCovered' /\ MadeYoung' /\ VictimAged'
    BY <1>a, <1>1, <1>6, CallsFrame, MadeFrame, VictimFrame DEF writerVars, bridgeVars
  <2>2. AllAssociated'
    BY DEF AllAssociated
  <2> QED
    BY <1>8, <1>9, <1>10, <2>1, <2>2, Parts
<1>12. RewriteInv'
  BY <1>0, StepRewrite DEF KStep
<1>13. AllPlaced'
  <2>1. Placed(Rewritten.refs)
    BY <1>0, <1>2, <1>3, <1>4 DEF Placed, PlanInv
  <2> QED
    BY <1>0, <1>1, <2>1 DEF AllPlaced, writerVars
<1>14. CTypeOK'
  <2>1. superseded' \subseteq manifests'
    BY <1>0, <1>1 DEF PlanInv, CTypeOK
  <2> QED
    BY <1>0, <1>1, <1>9, <2>1 DEF PlanInv, CTypeOK, NoManifest, NoLoc
<1>15. PlanInv'
  BY <1>0, <1>1, <1>2, <1>3, <1>5, <1>6, <1>14 DEF PlanInv, bridgeVars
<1> QED
  BY <1>11, <1>12, <1>13, <1>15 DEF CompactInv

\* The old version goes: what it alone referenced is referenced by the rewritten one
\* as far as the pass still relies on it, and Puts that relied on the rest are marked.
LEMMA DropsCompact ==
    ASSUME CompactInv, KDrops
    PROVE  CompactInv'
<1>0. SweepInv /\ RewriteInv /\ AllPlaced /\ PlanInv
  BY DEF CompactInv
<1>a. TypeOK /\ Pinned \subseteq Kept /\ KeysApart /\ CallsCovered /\ MadeYoung /\ AllAssociated /\ VictimAged
  BY <1>0, Parts
<1> DEFINE rest == UNION {PacksOf(m.refs) : m \in {n \in manifests \ {kcur} : n.ctx \notin racy}}
<1>1. /\ kpc = "drop" /\ kpc' = "keys" /\ manifests' = manifests \ {kcur} /\ kcur' = NoManifest
      /\ superseded' = superseded \ {kcur} /\ racy' = racy \union Exposed(rest)
      /\ UNCHANGED <<kbusy, ksel, knew, kloc, kkeys, kmade, kracy>>
      /\ UNCHANGED <<blobs, index, pstate, assoc, writerVars, faults, age, busy, made, sweepVars, bridgeVars>>
  BY DEF KDrops
<1>2. bctx = NoContext /\ brefs = Blank
  BY <1>0, <1>a DEF PlanInv, KeysApart
<1>3. \A p : p \in rest <=> \E m \in manifests : m # kcur /\ m.ctx \notin racy /\ p \in PacksOf(m.refs)
  OBVIOUS
<1> HIDE DEF rest
<1>4. Exposed(rest) \subseteq Writer
  BY <1>2 DEF Exposed
<1>5. rest = Pinned' /\ rest \subseteq Kept'
  <2>1. \A m \in manifests : m.ctx \notin Exposed(rest)
    BY <1>4, <1>a, Types, NamesAssumption
  <2>2. rest = Pinned'
    BY <1>1, <1>3, <2>1, PinnedFacts
  <2>3. rest \subseteq Kept
    BY <1>a, <1>3, PinnedFacts
  <2>4. \A p \in rest : Referenced(p)'
    BY <1>1, <1>3 DEF Referenced
  <2> QED
    BY <1>1, <2>2, <2>3, <2>4 DEF Kept, sweepVars
<1>6. TypeOK'
  <2>1. racy' \subseteq Writer \union Context /\ manifests' \subseteq manifests
    BY <1>a, <1>1, <1>4 DEF TypeOK
  <2> QED
    BY <1>a, <1>1, <2>1 DEF TypeOK, PSTypeOK, writerVars, sweepVars, bridgeVars
<1>7. KeysApart' /\ AllAssociated'
  BY <1>a, <1>1 DEF KeysApart, AllAssociated, Associated, writerVars, bridgeVars
<1>8. CallsCovered'
  <2>1. \A w \in Writer : w \notin racy' => PacksOf(refs[w]) \subseteq made[w] \union Kept'
    BY <1>1, <1>5 DEF Exposed
  <2> QED
    BY <1>1, <1>2, <2>1, PacksOfFacts DEF CallsCovered, writerVars, bridgeVars
<1>9. SweepInv'
  <2>1. MadeYoung' /\ VictimAged'
    BY <1>a, <1>1, MadeFrame, VictimFrame
  <2> QED
    BY <1>5, <1>6, <1>7, <1>8, <2>1, Parts
<1>10. RewriteInv' /\ AllPlaced'
  BY <1>0, <1>1, StepRewrite DEF KStep, AllPlaced, writerVars
<1>11. \A p \in PacksOf(kloc) : p \in Kept => p \in Kept'
  <2>1. ASSUME NEW p \in PacksOf(kloc), p \in Kept PROVE Referenced(p)'
    <3>1. PICK m \in manifests : p \in PacksOf(m.refs)
      BY <2>1 DEF Kept, Referenced
    <3>2. CASE m # kcur
      BY <1>1, <3>1, <3>2 DEF Referenced
    <3>3. CASE m = kcur
      <4>1. Rewritten \in manifests' /\ Placed(kcur.refs)
        BY <1>0, <1>1, <3>1, <3>3 DEF PlanInv
      <4>2. PICK c \in Chunk : kcur.refs[c] = p /\ p # NoPack
        BY <3>1, <3>3, PacksOfFacts
      <4>3. c \in p /\ kloc[c] = p
        <5>1. c \in p
          BY <4>1, <4>2 DEF Placed
        <5>2. PICK d \in Chunk : kloc[d] = p
          BY <2>1, PacksOfFacts
        <5> QED
          BY <1>0, <4>2, <5>1, <5>2 DEF PlanInv
      <4>4. Rewritten.refs = Relocated(kcur)
        BY <1>0, <1>1 DEF PlanInv, Rewritten
      <4>5. Relocated(kcur)[c] = p
        BY <4>2, <4>3 DEF Relocated
      <4>6. p \in PacksOf(Rewritten.refs)
        BY <4>2, <4>4, <4>5, PacksOfFacts
      <4> QED
        BY <4>1, <4>6 DEF Referenced
    <3> QED
      BY <3>2, <3>3
  <2> QED
    BY <1>1, <2>1 DEF Kept, sweepVars
<1>12. CTypeOK'
  <2>1. superseded' \subseteq manifests'
    BY <1>0, <1>1 DEF PlanInv, CTypeOK
  <2> QED
    BY <1>0, <1>1, <1>6, <2>1 DEF PlanInv, CTypeOK, NoManifest, NoLoc
<1>13. PlanInv'
  BY <1>0, <1>1, <1>11, <1>12 DEF PlanInv, bridgeVars
<1> QED
  BY <1>9, <1>10, <1>13 DEF CompactInv

\* Where the collector lists what manifests reference (compaction associates nothing,
\* so associations are no live set beside it), compaction and collection together
\* cost no covered object its bytes, for every choice of packs and every way to pack
\* them anew (Compact, RunOnceForDomain).
THEOREM CompactionStaysSparing == UseAssoc = FALSE => (CSpec => []CompactionSpares)
<1> SUFFICES ASSUME UseAssoc = FALSE PROVE CSpec => []CompactionSpares
  OBVIOUS
<1>1. CInit => CompactInv
  BY InitCompact
<1>2. CompactInv /\ [CNext]_cvars => CompactInv'
  <2> SUFFICES ASSUME CompactInv, [CNext]_cvars PROVE CompactInv'
    OBVIOUS
  <2>1. CASE \E w \in Writer : CPutActs(w)
    BY <2>1, PutCompact
  <2>2. CASE \E x \in Context : CKeyDeleted(x)
    BY <2>2, DeletedCompact
  <2>3. CASE (GCStep \/ GCSkips \/ GCDies) /\ UNCHANGED compactVars
    BY <2>3, CollectorCompact
  <2>4. CASE CTick
    BY <2>4, TickCompact
  <2>5. CASE KStep \/ KDies
    BY <2>5, SelectsCompact, WritesCompact, RepointsCompact, ReadsCompact, PutsCompact, DropsCompact, ReturnsCompact
    DEF KStep
  <2>6. CASE UNCHANGED cvars
    <3>0. SweepInv /\ RewriteInv /\ AllPlaced /\ PlanInv /\ TypeOK
      BY Parts DEF CompactInv
    <3>1. UNCHANGED vars /\ UNCHANGED compactVars
      BY <2>6 DEF cvars
    <3>2. UNCHANGED <<blobs, index, manifests, wpc, wctx, refs, age, bpc, gpc, glive, gtime>>
      BY <3>1 DEF vars, storeVars, writerVars, timeVars, sweepVars, bridgeVars
    <3>3. SweepInv' /\ TypeOK' /\ Kept \subseteq Kept'
      BY <3>0, <3>1, <3>2, StutterSweep, KeptGrows DEF SweepInv, SweepSpares
    <3>4. RewriteInv' /\ AllPlaced'
      BY <3>0, <3>1, <3>2, OtherRewrite DEF AllPlaced, compactVars
    <3>5. PlanInv'
      BY <3>0, <3>1, <3>2, <3>3, PlanFrame DEF PlanInv
    <3> QED
      BY <3>3, <3>4, <3>5 DEF CompactInv
  <2> QED
    BY <2>1, <2>2, <2>3, <2>4, <2>5, <2>6 DEF CNext
<1>3. CompactInv => CompactionSpares
  BY Parts, CoveredFacts DEF CompactInv, PlanInv, CompactionSpares
<1> QED
  BY <1>1, <1>2, <1>3, PTL DEF CSpec

=============================================================================
