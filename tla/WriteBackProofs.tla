-------------------------- MODULE WriteBackProofs --------------------------
(***************************************************************************)
(* Proofs about mlfs's write-back and read-ahead path, for every number of *)
(* slices, drains, inodes and readers: the disk cache, the slice collector *)
(* and the prefetcher.                                                     *)
(***************************************************************************)
EXTENDS DiskCache, SliceGC, ReadAhead, FiniteSetTheorems, WellFoundedInduction, TLAPS

\* Most steps are first-order; those about numbers or data cite SMT.
USE Zenon

----------------------------------------------------------------------------
(* Maxima.                                                                  *)

\* A nonempty set of naturals has a least element.
LEMMA Least ==
    ASSUME NEW T, T \subseteq Nat, T # {}
    PROVE  \E x \in T : \A y \in T : x <= y
<1> DEFINE R == {ss \in Nat \X Nat : ss[1] < ss[2]}
<1>1. IsWellFoundedOn(R, Nat)
  BY NatLessThanWellFounded DEF OpToRel
<1>2. \A x, y \in Nat : <<y, x>> \notin R => x <= y
  BY SMT
<1> HIDE DEF R
<1>3. PICK x \in T : \A y \in T : ~(<<y, x>> \in R)
  BY WFMin, <1>1
<1>4. \A y \in T : x <= y
  BY <1>2, <1>3
<1> QED
  BY <1>4

(* A set of numbers with a bound has a maximum, counted down from the bound. *)
LEMMA MaxIn ==
    ASSUME NEW N \in Nat, NEW S, S \subseteq 0 .. N, S # {}
    PROVE  Max(S) \in S
<1> DEFINE T == {N - y : y \in S}
<1>1. T \subseteq Nat
  BY SMT
<1>2. T # {}
  <2>1. PICK y \in S : TRUE
    OBVIOUS
  <2>2. N - y \in T
    BY <2>1
  <2> QED
    BY <2>2
<1> HIDE DEF T
<1>3. PICK x \in T : \A t \in T : x <= t
  BY <1>1, <1>2, Least
<1>4. PICK z \in S : x = N - z
  BY <1>3 DEF T
<1>5. \A y \in S : N - y \in T
  BY DEF T
<1>6. \A y \in S : N - z <= N - y
  BY <1>3, <1>4, <1>5
<1>7. \A y \in S : z >= y
  BY SMT, <1>4, <1>6
<1> QED
  BY <1>7 DEF Max

----------------------------------------------------------------------------
(* The disk cache.  A batch past its upload is in the backing store before  *)
(* a staging file of it is dropped; a write in progress is not yet          *)
(* acknowledged; a reader past the staging directory has seen the slice     *)
(* leave it.                                                                *)

DrainState == [pc : {"idle", "read", "wait"}, todo : SUBSET Slice, batch : Seq(Slice), failed : BOOLEAN]

Uploaded(f) == f.pc # "upload" => \A i \in 1 .. Len(f.ids) : f.ids[i] \in back

Copied(s) == staged[s] # "none" \/ s \in back \/ s \in corrupt

Unacked == IF wr.pc = "sync" THEN wr.id \in Slice \ acked /\ Copied(wr.id) ELSE wr.id = None

Reader == [pc : {"idle", "staged", "back", "index", "done"}, id : Slice \cup {None},
           res : {"none", "rot", "missing"}]

Sought ==
    /\ rd \in Reader
    /\ rd.pc \in {"staged", "back", "index"} => rd.id \in acked
    /\ rd.pc = "staged" => rd.res = "none"
    /\ rd.pc = "back" /\ rd.res # "rot" => rd.id \in back \cup corrupt

DcInv ==
    /\ DcTypeOK /\ drain \in [Drain -> DrainState]
    /\ \A f \in flight : f.ids # <<>> /\ Uploaded(f)
    /\ Unacked /\ Sought /\ AckedDurable /\ ReadFindsAcked

\* The cache starts empty.
LEMMA DcInitInv == DcInit => DcInv
<1> SUFFICES ASSUME DcInit
             PROVE  DcInv
  OBVIOUS
<1>1. <<>> \in Seq(Slice)
  BY SMT
<1>2. drain \in [Drain -> DrainState]
  BY <1>1 DEF DcInit, NoDrain, DrainState
<1>3. \A d \in Drain : drain[d].todo \subseteq Slice /\ drain[d].batch \in Seq(Slice)
  BY <1>2 DEF DrainState
<1>4. DcTypeOK
  BY <1>3 DEF DcInit, DcTypeOK, File
<1>5. Unacked /\ Sought /\ ReadFindsAcked
  BY DEF DcInit, Unacked, Sought, Reader, ReadFindsAcked, NoWrite, NoRead
<1> QED
  BY <1>2, <1>4, <1>5 DEF DcInit, DcInv, AckedDurable

\* A sequence is empty when it has no length.
LEMMA EmptyLen == \A q \in Seq(Slice) : Len(q) = 0 <=> q = <<>>
  BY SMT

\* What is left of a batch after its first slice.
LEMMA TailOfMore ==
    ASSUME NEW q \in Seq(Slice), q # <<>>, Len(q) # 1
    PROVE  /\ Tail(q) \in Seq(Slice) /\ Tail(q) # <<>>
           /\ \A i \in 1 .. Len(Tail(q)) : i + 1 \in 1 .. Len(q) /\ Tail(q)[i] = q[i + 1]
<1>1. Len(q) \in Nat /\ Len(q) # 0
  BY SMT
<1>2. Len(q) > 1
  BY SMT, <1>1
<1>3. Tail(q) \in Seq(Slice) /\ Len(Tail(q)) = Len(q) - 1
  BY SMT, <1>1, <1>2
<1>4. Len(Tail(q)) # 0
  BY SMT, <1>1, <1>2, <1>3
<1>5. Tail(q) # <<>>
  BY <1>3, <1>4, EmptyLen
<1>6. \A i \in 1 .. Len(Tail(q)) : i + 1 \in 1 .. Len(q) /\ Tail(q)[i] = q[i + 1]
  BY SMT
<1> QED
  BY <1>3, <1>5, <1>6

\* A drain's state keeps its type.
LEMMA DrainTyped ==
    ASSUME drain' \in [Drain -> DrainState]
    PROVE  \A d \in Drain : drain'[d].todo \subseteq Slice /\ drain'[d].batch \in Seq(Slice)
  BY DEF DrainState

\* The steps of a write: a rename puts the staging file there before the
\* answer.
LEMMA WriteInv == ASSUME DcInv, WriteAck \/ (\E s \in Slice : WriteRename(s)) PROVE DcInv'
<1>1. CASE WriteAck
  <2>1. /\ wr' = NoWrite /\ ghost' = {} /\ acked' = acked \cup {wr.id} /\ wr.pc = "sync"
        /\ UNCHANGED <<up, staged, corrupt, clean, back, rd, drain, flight>>
    BY <1>1 DEF WriteAck, envVars
  <2>2. wr.id \in Slice /\ Copied(wr.id)
    BY <2>1 DEF DcInv, Unacked
  <2>3. DcTypeOK'
    BY <2>1, <2>2 DEF DcInv, DcTypeOK
  <2>4. Unacked' /\ Sought' /\ AckedDurable' /\ ReadFindsAcked'
    BY <2>1, <2>2 DEF DcInv, Unacked, Sought, AckedDurable, ReadFindsAcked, NoWrite, Copied
  <2> QED
    BY <2>1, <2>3, <2>4 DEF DcInv, Uploaded
<1>2. ASSUME NEW s \in Slice, WriteRename(s)
      PROVE  DcInv'
  <2>1. /\ wr' = [pc |-> "sync", id |-> s] /\ staged' = [staged EXCEPT ![s] = "ok"] /\ s \notin acked
        /\ UNCHANGED <<up, ghost, corrupt, clean, back, rd, drain, flight, acked>>
    BY <1>2 DEF WriteRename, envVars
  <2>2. DcTypeOK'
    BY <2>1 DEF DcInv, DcTypeOK, File
  <2>3. Unacked' /\ Sought' /\ ReadFindsAcked'
    BY <2>1 DEF DcInv, DcTypeOK, Unacked, Sought, ReadFindsAcked, Copied
  <2>4. AckedDurable'
    BY <2>1 DEF DcInv, DcTypeOK, AckedDurable
  <2> QED
    BY <2>1, <2>2, <2>3, <2>4 DEF DcInv, Uploaded
<1> QED
  BY <1>1, <1>2

\* What the caller of an unchanged disk sees: a step of the reader, or of the
\* clean cache.
LEMMA ReaderInv ==
    ASSUME DcInv, clean' \in [Slice -> File], Sought', ReadFindsAcked',
           UNCHANGED <<up, staged, ghost, corrupt, back, wr, drain, flight, acked>>
    PROVE  DcInv'
<1>1. DcTypeOK'
  BY DEF DcInv, DcTypeOK
<1> QED
  BY <1>1 DEF DcInv, Unacked, Uploaded, AckedDurable, Copied

\* One locked section of the LRU leaves files of the clean cache.
LEMMA IndexTyped ==
    ASSUME DcInv, NEW id, NEW size, IndexAndEvict(id, size)
    PROVE  clean' \in [Slice -> File]
<1>1. \A s \in Slice : clean[s] \in File
  BY DEF DcInv, DcTypeOK
<1> QED
  BY <1>1 DEF IndexAndEvict, File

\* The three lookups of a read, and the fill of the clean cache.
LEMMA ReadInv ==
    ASSUME DcInv, ReadStaged \/ ReadBacking \/ ReadIndex \/ (\E s \in Slice : ReadClean(s))
    PROVE  DcInv'
<1>1. clean \in [Slice -> File] /\ acked \subseteq Slice /\ AckedDurable /\ Sought /\ ReadFindsAcked
  BY DEF DcInv, DcTypeOK
<1>2. ASSUME NEW s \in Slice, ReadClean(s)
      PROVE  DcInv'
  <2>1. /\ UNCHANGED <<up, staged, ghost, corrupt, back, wr, drain, flight, acked>> /\ s \in acked
        /\ clean' = [clean EXCEPT ![s] = IF @ = "bad" THEN "none" ELSE @]
        /\ rd' = NoRead \/ rd' = [pc |-> "staged", id |-> s, res |-> "none"]
    BY <1>2 DEF ReadClean, ReadDone, envVars
  <2>2. clean' \in [Slice -> File]
    BY <1>1, <2>1 DEF File
  <2>3. Sought' /\ ReadFindsAcked'
    <3>1. CASE rd' = NoRead
      BY <3>1 DEF Sought, Reader, ReadFindsAcked, NoRead
    <3>2. CASE rd' = [pc |-> "staged", id |-> s, res |-> "none"]
      BY <2>1, <3>2 DEF Sought, Reader, ReadFindsAcked
    <3> QED
      BY <2>1, <3>1, <3>2
  <2> QED
    BY <2>1, <2>2, <2>3, ReaderInv
<1>3. CASE ReadStaged
  <2>1. /\ UNCHANGED <<up, staged, ghost, corrupt, clean, back, wr, drain, flight, acked>>
        /\ rd \in Reader /\ rd.pc = "staged" /\ rd.id \in acked /\ rd.res = "none"
    BY <1>1, <1>3 DEF ReadStaged, envVars, diskVars, Sought
  <2>2. staged[rd.id] \in File
    BY <1>1, <2>1 DEF DcInv, DcTypeOK
  <2>3. CASE staged[rd.id] = "ok"
    <3>1. rd' = NoRead
      BY <1>3, <2>3 DEF ReadStaged, ReadDone
    <3>2. Sought' /\ ReadFindsAcked'
      BY <3>1 DEF Sought, Reader, ReadFindsAcked, NoRead
    <3> QED
      BY <1>1, <2>1, <3>2, ReaderInv
  <2>4. CASE staged[rd.id] # "ok"
    <3>1. rd' = [rd EXCEPT !.pc = "back", !.res = IF staged[rd.id] = "bad" THEN "rot" ELSE @]
      BY <1>3, <2>4 DEF ReadStaged
    <3>2. /\ rd' \in Reader /\ rd'.pc = "back" /\ rd'.id = rd.id
          /\ rd'.res = IF staged[rd.id] = "bad" THEN "rot" ELSE "none"
      BY <2>1, <3>1 DEF Reader
    <3>3. rd'.res # "rot" => rd.id \in back \cup corrupt
      BY <1>1, <2>1, <2>2, <2>4, <3>2 DEF AckedDurable, File
    <3>4. Sought' /\ ReadFindsAcked'
      BY <2>1, <3>2, <3>3 DEF Sought, ReadFindsAcked
    <3> QED
      BY <1>1, <2>1, <3>4, ReaderInv
  <2> QED
    BY <2>3, <2>4
<1>4. CASE ReadBacking
  <2>1. /\ UNCHANGED <<up, staged, ghost, corrupt, back, wr, drain, flight, acked>>
        /\ rd \in Reader /\ rd.pc = "back" /\ rd.id \in acked
        /\ rd.res # "rot" => rd.id \in back \cup corrupt
    BY <1>1, <1>4 DEF ReadBacking, envVars, Sought
  <2>2. CASE rd.id \in back
    <3>1. rd' = [rd EXCEPT !.pc = "index"] /\ clean' = [clean EXCEPT ![rd.id] = "bad"]
      BY <1>4, <2>2 DEF ReadBacking, Truncated
    <3>2. rd' \in Reader /\ rd'.pc = "index" /\ rd'.id = rd.id /\ clean' \in [Slice -> File]
      BY <1>1, <2>1, <3>1 DEF Reader, File
    <3>3. Sought' /\ ReadFindsAcked'
      BY <2>1, <3>2 DEF Sought, ReadFindsAcked
    <3> QED
      BY <2>1, <3>2, <3>3, ReaderInv
  <2>3. CASE rd.id \notin back
    <3>1. /\ rd' = [rd EXCEPT !.pc = "done", !.res = IF rd.res = "rot" THEN "rot" ELSE "missing"]
          /\ UNCHANGED clean
      BY <1>4, <2>3 DEF ReadBacking, ReadDone
    <3>2. /\ rd' \in Reader /\ rd'.pc = "done" /\ rd'.id = rd.id
          /\ rd'.res = IF rd.res = "rot" THEN "rot" ELSE "missing"
      BY <2>1, <3>1 DEF Reader
    <3>3. Sought' /\ ReadFindsAcked'
      BY <2>1, <2>3, <3>2 DEF Sought, ReadFindsAcked
    <3> QED
      BY <1>1, <2>1, <3>1, <3>3, ReaderInv
  <2> QED
    BY <2>2, <2>3
<1>5. CASE ReadIndex
  <2>1. /\ UNCHANGED <<up, staged, ghost, corrupt, back, wr, drain, flight, acked>>
        /\ rd' = NoRead /\ IndexAndEvict(rd.id, rd.id)
    BY <1>5 DEF ReadIndex, envVars, ReadDone
  <2>2. clean' \in [Slice -> File]
    BY <2>1, IndexTyped
  <2>3. Sought' /\ ReadFindsAcked'
    BY <2>1 DEF Sought, Reader, ReadFindsAcked, NoRead
  <2> QED
    BY <2>1, <2>2, <2>3, ReaderInv
<1> QED
  BY <1>2, <1>3, <1>4, <1>5

\* A drain's step: no staging file goes but to the quarantine, and a batch is
\* launched to be uploaded.
LEMMA DrainStepInv ==
    ASSUME DcInv, drain' \in [Drain -> DrainState], up' \in {"down", "opening", "up"},
           \/ UNCHANGED <<staged, corrupt>>
           \/ \E s \in Slice : staged' = [staged EXCEPT ![s] = "none"] /\ corrupt' = corrupt \cup {s},
           \/ UNCHANGED flight
           \/ \E d \in Drain, ids \in Seq(Slice) : ids # <<>> /\ Launch(d, ids),
           UNCHANGED <<ghost, clean, back, wr, rd, acked>>
    PROVE  DcInv'
<1>1. /\ staged' \in [Slice -> File] /\ corrupt \subseteq corrupt' /\ corrupt' \subseteq Slice
      /\ \A s \in Slice : staged[s] # "none" => staged'[s] # "none" \/ s \in corrupt'
  BY DEF DcInv, DcTypeOK, File
<1>2. /\ flight' \subseteq Flight
      /\ \A f \in flight' : f \in flight \/ (f.ids # <<>> /\ f.pc = "upload")
  <2>0. flight \subseteq Flight
    BY DEF DcInv, DcTypeOK
  <2>1. CASE UNCHANGED flight
    BY <2>0, <2>1
  <2>2. ASSUME NEW d \in Drain, NEW ids \in Seq(Slice), ids # <<>>, Launch(d, ids)
        PROVE  /\ flight' \subseteq Flight
               /\ \A f \in flight' : f \in flight \/ (f.ids # <<>> /\ f.pc = "upload")
    <3> DEFINE g == [by |-> d, pc |-> "upload", ids |-> ids]
    <3>1. g \in Flight /\ g.ids = ids /\ g.pc = "upload"
      BY DEF Flight
    <3> HIDE DEF g
    <3>2. flight' = flight \cup {g}
      BY <2>2 DEF Launch, g
    <3> QED
      BY <2>0, <2>2, <3>1, <3>2
  <2> QED
    BY <2>1, <2>2
<1>3. DcTypeOK'
  <2>1. \A d \in Drain : drain'[d].todo \subseteq Slice /\ drain'[d].batch \in Seq(Slice)
    BY DrainTyped
  <2>2. clean \in [Slice -> File] /\ {ghost, back, acked} \subseteq SUBSET Slice
    BY DEF DcInv, DcTypeOK
  <2> QED
    BY <1>1, <1>2, <2>1, <2>2 DEF DcTypeOK
<1>4. \A f \in flight' : f.ids # <<>> /\ Uploaded(f)'
  BY <1>2 DEF DcInv, Uploaded
<1>5. Unacked' /\ Sought' /\ ReadFindsAcked'
  BY <1>1 DEF DcInv, Unacked, Copied, Sought, ReadFindsAcked
<1>6. AckedDurable'
  BY <1>1 DEF DcInv, DcTypeOK, AckedDurable
<1> QED
  BY <1>3, <1>4, <1>5, <1>6 DEF DcInv

\* The next entry of a directory listing is a slice of it.
LEMMA NextEntry == ASSUME NEW S \in SUBSET Slice, S # {} PROVE Min(S) \in S
<1>1. S \subseteq Nat
  BY DiskCacheAssumption
<1>2. PICK x \in S : \A y \in S : x <= y
  BY <1>1, Least
<1> QED
  BY <1>2 DEF Min

\* drainBatched reads the next entry.
LEMMA DrainEntryInv == ASSUME DcInv, NEW d \in Drain, DrainEntry(d) PROVE DcInv'
<1> DEFINE s == Min(drain[d].todo)
           ids == Append(drain[d].batch, s)
<1>1. drain[d] \in DrainState /\ drain[d].todo \in SUBSET Slice /\ drain[d].batch \in Seq(Slice)
  BY DEF DcInv, DrainState
<1>2. drain[d].todo # {} /\ UNCHANGED <<up, ghost, clean, back, wr, rd, acked>> /\ up \in {"down", "opening", "up"}
  BY DEF DrainEntry, DcInv, DcTypeOK
<1>3. s \in Slice
  BY <1>1, <1>2, NextEntry
<1>4. ids \in Seq(Slice) /\ ids # <<>> /\ <<>> \in Seq(Slice)
  BY SMT, <1>1, <1>3
<1>5. /\ \/ \E b \in {drain[d].batch, ids, <<>>} :
              drain' = [drain EXCEPT ![d].todo = @ \ {s}, ![d].batch = b]
         \/ drain' = [drain EXCEPT ![d] = [@ EXCEPT !.pc = "wait", !.batch = <<>>, !.failed = TRUE]]
      /\ \/ UNCHANGED <<staged, corrupt>>
         \/ staged' = [staged EXCEPT ![s] = "none"] /\ corrupt' = corrupt \cup {s}
      /\ UNCHANGED flight \/ Launch(d, ids)
  BY DEF DrainEntry
<1> HIDE DEF s, ids
<1>6. drain' \in [Drain -> DrainState]
  <2>1. CASE drain' = [drain EXCEPT ![d] = [@ EXCEPT !.pc = "wait", !.batch = <<>>, !.failed = TRUE]]
    <3>1. [drain[d] EXCEPT !.pc = "wait", !.batch = <<>>, !.failed = TRUE] \in DrainState
      BY <1>1, <1>4 DEF DrainState
    <3> QED
      BY <2>1, <3>1 DEF DcInv
  <2>2. ASSUME NEW b \in {drain[d].batch, ids, <<>>},
               drain' = [drain EXCEPT ![d].todo = @ \ {s}, ![d].batch = b]
        PROVE  drain' \in [Drain -> DrainState]
    <3>1. b \in Seq(Slice) /\ drain[d].todo \ {s} \in SUBSET Slice
      BY <1>1, <1>4, <2>2
    <3>2. [drain[d] EXCEPT !.todo = @ \ {s}, !.batch = b] \in DrainState
      BY <1>1, <3>1 DEF DrainState
    <3>3. drain' = [drain EXCEPT ![d] = [drain[d] EXCEPT !.todo = @ \ {s}, !.batch = b]]
      BY <2>2 DEF DcInv
    <3> QED
      BY <3>2, <3>3 DEF DcInv
  <2> QED
    BY <1>5, <2>1, <2>2
<1> QED
  BY <1>2, <1>3, <1>4, <1>5, <1>6, DrainStepInv

\* The other steps of a drain, and the restart, which begins one.
LEMMA DrainsInv ==
    ASSUME DcInv, NEW d \in Drain, StartDrain(d) \/ DrainRest(d) \/ DrainDone(d)
    PROVE  DcInv'
<1>1. /\ drain[d] \in DrainState /\ drain[d].batch \in Seq(Slice) /\ drain \in [Drain -> DrainState]
      /\ up \in {"down", "opening", "up"}
  BY DEF DcInv, DcTypeOK, DrainState
<1>2. <<>> \in Seq(Slice)
  BY SMT
<1>3. NoDrain \in DrainState
  BY <1>2 DEF NoDrain, DrainState
<1>4. UNCHANGED <<staged, corrupt, ghost, clean, back, wr, rd, acked>>
  BY DEF StartDrain, DrainRest, DrainDone, diskVars
<1>5. CASE StartDrain(d)
  <2> DEFINE todo == {s \in Slice : staged[s] # "none"}
  <2>1. drain' = [drain EXCEPT ![d] = [NoDrain EXCEPT !.pc = "read", !.todo = todo]] /\ UNCHANGED <<flight, up>>
    BY <1>5 DEF StartDrain, envVars
  <2>2. todo \in SUBSET Slice
    OBVIOUS
  <2> HIDE DEF todo
  <2>3. [NoDrain EXCEPT !.pc = "read", !.todo = todo] \in DrainState
    BY <1>3, <2>2 DEF DrainState
  <2>4. drain' \in [Drain -> DrainState]
    BY <1>1, <2>1, <2>3
  <2> QED
    BY <1>1, <1>4, <2>1, <2>4, DrainStepInv
<1>6. CASE DrainRest(d)
  <2>1. drain' = [drain EXCEPT ![d].pc = "wait", ![d].batch = <<>>] /\ UNCHANGED up
    BY <1>6 DEF DrainRest, envVars
  <2>2. UNCHANGED flight \/ (drain[d].batch # <<>> /\ Launch(d, drain[d].batch))
    BY <1>6 DEF DrainRest
  <2>3. [drain[d] EXCEPT !.pc = "wait", !.batch = <<>>] \in DrainState
    BY <1>1, <1>2 DEF DrainState
  <2>4. drain' = [drain EXCEPT ![d] = [drain[d] EXCEPT !.pc = "wait", !.batch = <<>>]]
    BY <1>1, <2>1
  <2>5. drain' \in [Drain -> DrainState]
    BY <1>1, <2>3, <2>4
  <2> QED
    BY <1>1, <1>4, <2>1, <2>2, <2>5, DrainStepInv
<1>7. CASE DrainDone(d)
  <2>1. drain' = [drain EXCEPT ![d] = NoDrain] /\ UNCHANGED flight /\ up' \in {"down", "opening", "up"}
    BY <1>1, <1>7 DEF DrainDone
  <2>2. drain' \in [Drain -> DrainState]
    BY <1>1, <1>3, <2>1
  <2> QED
    BY <1>4, <2>1, <2>2, DrainStepInv
<1> QED
  BY <1>5, <1>6, <1>7

\* Files go bad, a crash undoes what was not synced, New scans what is left.
LEMMA DiskInv == ASSUME DcInv, Rot \/ DcCrash \/ Restart PROVE DcInv'
<1>1. <<>> \in Seq(Slice) /\ NoDrain \in DrainState
  <2>1. <<>> \in Seq(Slice)
    BY SMT
  <2> QED
    BY <2>1 DEF NoDrain, DrainState
<1>2. CASE Rot
  <2>1. UNCHANGED <<up, ghost, corrupt, back, wr, rd, drain, flight, acked>>
    BY <1>2 DEF Rot
  <2>2. /\ staged' \in [Slice -> File] /\ clean' \in [Slice -> File]
        /\ \A s \in Slice : staged[s] # "none" => staged'[s] # "none"
    BY <1>2 DEF Rot, DcInv, DcTypeOK, File
  <2>3. DcTypeOK'
    BY <2>1, <2>2 DEF DcInv, DcTypeOK
  <2>4. Unacked' /\ Sought' /\ ReadFindsAcked'
    BY <2>1, <2>2 DEF DcInv, Unacked, Copied, Sought, ReadFindsAcked
  <2>5. AckedDurable'
    BY <2>1, <2>2 DEF DcInv, DcTypeOK, AckedDurable
  <2> QED
    BY <2>1, <2>3, <2>4, <2>5 DEF DcInv, Uploaded
<1>3. CASE DcCrash
  <2>1. /\ ghost' = {} /\ wr' = NoWrite /\ rd' = NoRead /\ up' = "down"
        /\ drain' = [d \in Drain |-> NoDrain] /\ flight' = {} /\ UNCHANGED <<corrupt, clean, back, acked>>
    BY <1>3 DEF DcCrash
  <2>2. PICK again \in SUBSET ghost, lost \in SUBSET {wr.id} :
          staged' = [s \in Slice |-> IF s \in again THEN "ok"
                       ELSE IF s \in lost THEN "none" ELSE staged[s]]
    BY <1>3 DEF DcCrash
  <2>3. acked \subseteq Slice /\ wr.id \notin acked
    BY SMT, DiskCacheAssumption DEF DcInv, DcTypeOK, Unacked, None
  <2>4. staged' \in [Slice -> File] /\ \A s \in acked : staged[s] # "none" => staged'[s] # "none"
    BY <2>2, <2>3 DEF DcInv, DcTypeOK, File
  <2>5. drain' \in [Drain -> DrainState]
    BY <1>1, <2>1
  <2>6. DcTypeOK'
    BY <2>1, <2>4, <2>5, DrainTyped DEF DcInv, DcTypeOK
  <2>7. Unacked' /\ Sought' /\ ReadFindsAcked'
    BY <2>1 DEF Unacked, Sought, Reader, ReadFindsAcked, NoRead, NoWrite
  <2>8. AckedDurable'
    BY <2>1, <2>4 DEF DcInv, AckedDurable
  <2> QED
    BY <2>1, <2>5, <2>6, <2>7, <2>8 DEF DcInv
<1>4. CASE Restart
  <2> DEFINE todo == {s \in Slice : staged[s] # "none"}
  <2>1. up' = "opening" /\ UNCHANGED <<staged, ghost, corrupt, back, wr, rd, flight, acked>>
    BY <1>4 DEF Restart
  <2>2. clean' \in [Slice -> File]
    <3>1. \A s \in Slice : clean[s] \in File
      BY DEF DcInv, DcTypeOK
    <3> QED
      BY <1>4, <3>1 DEF Restart, File
  <2>3. PICK d \in Drain : drain' = [drain EXCEPT ![d] = [NoDrain EXCEPT !.pc = "read", !.todo = todo]]
    BY <1>4 DEF Restart
  <2>4. todo \in SUBSET Slice
    OBVIOUS
  <2> HIDE DEF todo
  <2>5. [NoDrain EXCEPT !.pc = "read", !.todo = todo] \in DrainState
    BY <1>1, <2>4 DEF DrainState
  <2>6. drain' \in [Drain -> DrainState]
    BY <2>3, <2>5 DEF DcInv
  <2>7. DcTypeOK'
    BY <2>1, <2>2, <2>6, DrainTyped DEF DcInv, DcTypeOK
  <2>8. Unacked' /\ Sought' /\ ReadFindsAcked' /\ AckedDurable'
    BY <2>1 DEF DcInv, Unacked, Copied, Sought, ReadFindsAcked, AckedDurable
  <2> QED
    BY <2>1, <2>6, <2>7, <2>8 DEF DcInv, Uploaded
<1> QED
  BY <1>2, <1>3, <1>4

\* A batch's step keeps the other batches: what it leaves of its own is in the
\* backing store, and nothing leaves the backing store.
LEMMA FlightInv ==
    ASSUME DcInv, NEW f \in flight, back \subseteq back', back' \subseteq Slice, ghost' \subseteq Slice,
           \/ flight' = flight \ {f}
           \/ \E g \in Flight : Advance(f, g) /\ g.ids # <<>> /\ Uploaded(g)',
           staged' \in [Slice -> File], clean' \in [Slice -> File], drain' \in [Drain -> DrainState],
           \A s \in Slice : staged[s] # "none" => staged'[s] # "none" \/ s \in back',
           UNCHANGED <<up, corrupt, wr, rd, acked>>
    PROVE  DcInv'
<1>1. /\ flight' \subseteq Flight
      /\ \A h \in flight' : h \in flight \/ (h.ids # <<>> /\ Uploaded(h)')
  <2>1. flight \subseteq Flight
    BY DEF DcInv, DcTypeOK
  <2>2. ASSUME NEW g \in Flight, Advance(f, g), g.ids # <<>>, Uploaded(g)'
        PROVE  /\ flight' \subseteq Flight
               /\ \A h \in flight' : h \in flight \/ (h.ids # <<>> /\ Uploaded(h)')
    BY <2>1, <2>2 DEF Advance
  <2> QED
    BY <2>1, <2>2
<1>2. \A h \in flight' : h.ids # <<>> /\ Uploaded(h)'
  BY <1>1 DEF DcInv, Uploaded
<1>3. DcTypeOK'
  BY <1>1, DrainTyped DEF DcInv, DcTypeOK
<1>4. Unacked' /\ Sought' /\ ReadFindsAcked'
  BY DEF DcInv, Unacked, Copied, Sought, ReadFindsAcked
<1>5. AckedDurable'
  BY DEF DcInv, DcTypeOK, AckedDurable
<1> QED
  BY <1>2, <1>3, <1>4, <1>5 DEF DcInv

\* The packed write of a batch succeeds whole or fails after a part of it.
LEMMA UploadInv == ASSUME DcInv, NEW f \in flight, Upload(f) PROVE DcInv'
<1>1. /\ f \in Flight /\ f.ids \in Seq(Slice) /\ f.ids # <<>> /\ f.by \in Drain
      /\ staged \in [Slice -> File] /\ clean \in [Slice -> File] /\ drain \in [Drain -> DrainState]
      /\ ghost \subseteq Slice /\ back \subseteq Slice
  BY DEF DcInv, DcTypeOK, Flight
<1>2. UNCHANGED <<up, staged, ghost, corrupt, clean, wr, rd, acked>>
  BY DEF Upload, diskVars
<1>3. Range(f.ids) \subseteq Slice /\ \A i \in 1 .. Len(f.ids) : f.ids[i] \in Range(f.ids)
  BY SMT, <1>1 DEF Range
<1>4. CASE back' = back \cup Range(f.ids) /\ Advance(f, [f EXCEPT !.pc = "fill"]) /\ UNCHANGED drain
  <2> DEFINE g == [f EXCEPT !.pc = "fill"]
  <2>1. g \in Flight /\ g.ids = f.ids
    BY <1>1 DEF Flight
  <2> HIDE DEF g
  <2>2. Uploaded(g)'
    BY <1>3, <1>4, <2>1 DEF Uploaded
  <2>3. Advance(f, g)
    BY <1>4 DEF g
  <2>4. back \subseteq back' /\ back' \subseteq Slice /\ drain' \in [Drain -> DrainState]
    BY <1>1, <1>3, <1>4
  <2> QED
    BY <1>1, <1>2, <2>1, <2>2, <2>3, <2>4, FlightInv
<1>5. ASSUME NEW part \in SUBSET Range(f.ids), back' = back \cup part, flight' = flight \ {f},
             drain' = [drain EXCEPT ![f.by].failed = TRUE]
      PROVE  DcInv'
  <2>1. drain[f.by] \in DrainState
    BY <1>1
  <2>2. [drain[f.by] EXCEPT !.failed = TRUE] \in DrainState
    BY <2>1 DEF DrainState
  <2>3. drain' = [drain EXCEPT ![f.by] = [drain[f.by] EXCEPT !.failed = TRUE]]
    BY <1>1, <1>5
  <2>4. drain' \in [Drain -> DrainState]
    BY <1>1, <2>2, <2>3
  <2>5. back \subseteq back' /\ back' \subseteq Slice
    BY <1>1, <1>3, <1>5
  <2> QED
    BY <1>1, <1>2, <1>5, <2>4, <2>5, FlightInv
<1> QED
  BY <1>4, <1>5 DEF Upload

\* A slice is promoted and indexed; then its staging file goes.
LEMMA PromoteInv == ASSUME DcInv, NEW f \in flight, Fill(f) \/ Index(f) \/ Drop(f) PROVE DcInv'
<1>1. /\ f \in Flight /\ f.ids \in Seq(Slice) /\ f.ids # <<>>
      /\ staged \in [Slice -> File] /\ clean \in [Slice -> File] /\ drain \in [Drain -> DrainState]
      /\ ghost \subseteq Slice /\ back \subseteq Slice
  BY DEF DcInv, DcTypeOK, Flight
<1>2. f.pc # "upload" /\ UNCHANGED <<up, corrupt, back, wr, rd, drain, acked>>
  BY DEF Fill, Index, Drop, envVars
<1>3. \A i \in 1 .. Len(f.ids) : f.ids[i] \in back
  BY <1>2 DEF DcInv, Uploaded
<1>4. Head(f.ids) \in Slice /\ Head(f.ids) \in back
  BY SMT, <1>1, <1>3
<1>5. ASSUME NEW pc \in {"upload", "fill", "index", "drop"}, Advance(f, [f EXCEPT !.pc = pc])
      PROVE  \E g \in Flight : Advance(f, g) /\ g.ids # <<>> /\ Uploaded(g)'
  <2> DEFINE g == [f EXCEPT !.pc = pc]
  <2>1. g \in Flight /\ g.ids = f.ids
    BY <1>1 DEF Flight
  <2> HIDE DEF g
  <2>2. Uploaded(g)'
    BY <1>2, <1>3, <2>1 DEF Uploaded
  <2>3. Advance(f, g)
    BY <1>5 DEF g
  <2> QED
    BY <1>1, <2>1, <2>2, <2>3
<1>6. CASE Fill(f)
  <2>1. clean' = [clean EXCEPT ![Head(f.ids)] = "bad"] /\ UNCHANGED <<staged, ghost>>
    BY <1>6 DEF Fill, Truncated
  <2>2. clean' \in [Slice -> File]
    BY <1>1, <2>1 DEF File
  <2>3. \E g \in Flight : Advance(f, g) /\ g.ids # <<>> /\ Uploaded(g)'
    BY <1>5, <1>6 DEF Fill
  <2> QED
    BY <1>1, <1>2, <2>1, <2>2, <2>3, FlightInv
<1>7. CASE Index(f)
  <2>1. IndexAndEvict(Head(f.ids), Head(f.ids)) /\ UNCHANGED <<staged, ghost>>
    BY <1>7 DEF Index
  <2>2. clean' \in [Slice -> File]
    BY <2>1, IndexTyped
  <2>3. \E g \in Flight : Advance(f, g) /\ g.ids # <<>> /\ Uploaded(g)'
    BY <1>5, <1>7 DEF Index
  <2> QED
    BY <1>1, <1>2, <2>1, <2>2, <2>3, FlightInv
<1>8. CASE Drop(f)
  <2> DEFINE s == Head(f.ids)
             g == [f EXCEPT !.pc = "fill", !.ids = Tail(@)]
  <2>1. /\ staged' = [staged EXCEPT ![s] = "none"] /\ UNCHANGED clean
        /\ ghost' = (IF staged[s] = "none" THEN ghost ELSE ghost \cup {s})
        /\ IF Len(f.ids) = 1 THEN flight' = flight \ {f} ELSE Advance(f, g)
    BY <1>8 DEF Drop
  <2>2. /\ staged' \in [Slice -> File] /\ ghost' \subseteq Slice /\ s \in back
        /\ \A x \in Slice : staged[x] # "none" => staged'[x] # "none" \/ x \in back
    BY <1>1, <1>4, <2>1 DEF File
  <2>3. ASSUME Len(f.ids) # 1
        PROVE  /\ Tail(f.ids) \in Seq(Slice) /\ Tail(f.ids) # <<>>
               /\ \A i \in 1 .. Len(Tail(f.ids)) : Tail(f.ids)[i] \in back
    <3>1. /\ Tail(f.ids) \in Seq(Slice) /\ Tail(f.ids) # <<>>
          /\ \A i \in 1 .. Len(Tail(f.ids)) : i + 1 \in 1 .. Len(f.ids) /\ Tail(f.ids)[i] = f.ids[i + 1]
      BY <1>1, <2>3, TailOfMore
    <3> QED
      BY <1>3, <3>1
  <2>4. CASE Len(f.ids) = 1
    BY <1>1, <1>2, <2>1, <2>2, <2>4, FlightInv
  <2>5. CASE Len(f.ids) # 1
    <3>1. g \in Flight /\ g.ids = Tail(f.ids)
      BY <1>1, <2>3, <2>5 DEF Flight
    <3>2. Advance(f, g)
      BY <2>1, <2>5
    <3> HIDE DEF g, s
    <3>3. Uploaded(g)' /\ g.ids # <<>>
      BY <1>2, <2>3, <2>5, <3>1 DEF Uploaded
    <3> QED
      BY <1>1, <1>2, <2>1, <2>2, <3>1, <3>2, <3>3, FlightInv
  <2> QED
    BY <2>4, <2>5
<1> QED
  BY <1>6, <1>7, <1>8

\* For any slices, drains, batch budget, cache caps and number of failures and
\* crashes: an acknowledged write has a copy at every moment - staged, uploaded
\* or quarantined - through failing uploads, concurrent drains and a crash
\* between any two of their steps (Write, drainBatched, New), and a read's
\* three lookups find it while drains move it (Read).
THEOREM CacheStaysSound == DcSpec => []CacheSound
<1>1. DcInv /\ [DcNext]_dcVars => DcInv'
  <2> SUFFICES ASSUME DcInv, [DcNext]_dcVars
               PROVE  DcInv'
    OBVIOUS
  <2>1. CASE WriteAck \/ \E s \in Slice : WriteRename(s)
    BY <2>1, WriteInv
  <2>2. CASE ReadStaged \/ ReadBacking \/ ReadIndex \/ \E s \in Slice : ReadClean(s)
    BY <2>2, ReadInv
  <2>3. CASE \E d \in Drain : DrainRuns(d)
    BY <2>3, DrainEntryInv, DrainsInv DEF DrainRuns
  <2>4. CASE FlightRuns
    BY <2>4, UploadInv, PromoteInv DEF FlightRuns
  <2>5. CASE Rot \/ DcCrash \/ Restart
    BY <2>5, DiskInv
  <2>6. CASE UNCHANGED dcVars
    BY <2>6 DEF dcVars, DcInv, DcTypeOK, Uploaded, Unacked, Copied, Sought, AckedDurable, ReadFindsAcked
  <2> QED
    BY <2>1, <2>2, <2>3, <2>4, <2>5, <2>6 DEF DcNext
<1>2. DcInv => CacheSound
  BY DEF DcInv, CacheSound
<1> QED
  BY <1>1, <1>2, DcInitInv, PTL DEF DcSpec

----------------------------------------------------------------------------
(* The slice collector.  A slice that a windowed pass has chosen was        *)
(* uploaded a window or more ago, so a commit after the choice is late; a   *)
(* write that is still to commit has its bytes, or would commit late.       *)

Manifest == [id : GcSlice, at : 0 .. MaxGcTime]
Pass == [pc : {"idle", "walk", "reclaim"}, by : {"none", "daemon", "admin"}, win : {0, Window},
         todo : SUBSET GcSlice, batch : SUBSET GcSlice, reclaim : SUBSET GcSlice]

ChosenOld == pass.win > 0 => \A s \in pass.reclaim : IsLate(s) /\ (st[s] = "live" => s \in late)

Backed == \A s \in GcSlice : st[s] \in {"staged", "logged"} => s \in stg \cup Stored \cup bare \/ IsLate(s)

SentPast == \A s \in GcSlice : sent[s] <= clock + 1

SgInv ==
    /\ SgTypeOK /\ mans \subseteq Manifest /\ pass \in Pass
    /\ sent \in [GcSlice -> 0 .. MaxGcTime + 1] /\ SentPast
    /\ \A m \in mans : 0 < sent[m.id] /\ sent[m.id] <= m.at + 1
    /\ ChosenOld /\ Backed /\ WindowKeeps

\* The newest upload of a stored slice is no older than its first.
LEMMA NewestSent ==
    ASSUME SgInv, NEW s \in Stored
    PROVE  Newest(s) \in 0 .. MaxGcTime /\ 0 < sent[s] /\ sent[s] <= Newest(s) + 1
<1> DEFINE T == {m.at : m \in {n \in mans : n.id = s}}
<1>1. T \subseteq 0 .. MaxGcTime /\ T # {} /\ \A x \in T : 0 < sent[s] /\ sent[s] <= x + 1
  BY DEF SgInv, Manifest, Stored
<1> HIDE DEF T
<1>2. Max(T) \in T
  BY <1>1, MaxIn, SliceGCAssumption
<1>3. Newest(s) = Max(T)
  BY DEF Newest, T
<1> QED
  BY <1>1, <1>2, <1>3

\* Nothing is staged, stored or being collected at first.
LEMMA SgInitInv == SgInit => SgInv
<1> SUFFICES ASSUME SgInit
             PROVE  SgInv
  OBVIOUS
<1>1. Stored = {} /\ SgTypeOK
  BY SMT, SliceGCAssumption DEF SgInit, SgTypeOK, Stored, NoPass
<1>2. pass \in Pass /\ sent \in [GcSlice -> 0 .. MaxGcTime + 1] /\ SentPast
  BY SMT, SliceGCAssumption DEF SgInit, Pass, NoPass, SentPast
<1> QED
  BY <1>1, <1>2, SMT DEF SgInit, SgInv, ChosenOld, Backed, WindowKeeps, NoPass

\* The write path: a commit a window or more after the upload is recorded.
LEMMA SgWriteInv ==
    ASSUME SgInv, NEW s \in GcSlice, StageSlice(s) \/ LogSlice(s) \/ CommitSlice(s) \/ DropSlice(s)
    PROVE  SgInv'
<1>1. UNCHANGED <<mans, daemon, pass, clock, downs, sent, bare>> /\ Stored' = Stored
  BY DEF StageSlice, LogSlice, CommitSlice, DropSlice, Stored
<1>2. /\ st' \in [GcSlice -> {"new", "staged", "logged", "live", "dead", "lost"}]
      /\ \A x \in GcSlice \ {s} : st'[x] = st[x]
      /\ late \subseteq late' /\ late' \in SUBSET GcSlice /\ stg \subseteq stg' /\ stg' \in SUBSET GcSlice
  BY DEF StageSlice, LogSlice, CommitSlice, DropSlice, SetState, SgInv, SgTypeOK
<1>3. SgTypeOK' /\ \A x : IsLate(x)' <=> IsLate(x)
  BY <1>1, <1>2 DEF SgInv, SgTypeOK, IsLate
<1>4. \/ st'[s] = "staged" /\ s \in stg'
      \/ st[s] = "staged" /\ st'[s] = "logged"
      \/ st[s] = "logged" /\ st'[s] = "live" /\ (IsLate(s) => s \in late')
      \/ st[s] = "live" /\ st'[s] = "dead"
  BY DEF StageSlice, LogSlice, CommitSlice, DropSlice, SetState, SgInv, SgTypeOK
<1>5. ChosenOld'
  BY <1>1, <1>2, <1>3, <1>4 DEF SgInv, ChosenOld, Pass
<1>6. Backed' /\ WindowKeeps'
  BY <1>1, <1>2, <1>3, <1>4 DEF SgInv, Backed, WindowKeeps
<1> QED
  BY <1>1, <1>3, <1>5, <1>6 DEF SgInv, SentPast

\* Manifests are written for staged slices, now, and only then is a staging
\* file dropped.
LEMMA SgUploadInv ==
    ASSUME SgInv, NEW S \in SUBSET stg,
           mans' = mans \cup {[id |-> x, at |-> clock] : x \in S},
           stg \ S \subseteq stg', stg' \subseteq stg,
           sent' = [x \in GcSlice |-> IF x \in S /\ sent[x] = 0 THEN clock + 1 ELSE sent[x]],
           \A x \in GcSlice : \/ st'[x] = st[x]
                              \/ st[x] = "logged" /\ st'[x] = "live" /\ (IsLate(x) => x \in late'),
           st' \in [GcSlice -> {"new", "staged", "logged", "live", "dead", "lost"}],
           late \subseteq late', late' \subseteq GcSlice, daemon' \in BOOLEAN,
           UNCHANGED <<pass, clock, downs, bare>>
    PROVE  SgInv'
<1>1. clock \in 0 .. MaxGcTime /\ clock \in Nat /\ MaxGcTime \in Nat
  BY SMT, SliceGCAssumption DEF SgInv, SgTypeOK
<1>2. S \subseteq GcSlice /\ Stored' = Stored \cup S
  <2>1. S \subseteq GcSlice /\ \A x : [id |-> x, at |-> clock].id = x
    BY DEF SgInv, SgTypeOK
  <2>2. ASSUME NEW y \in Stored'
        PROVE  y \in Stored \cup S
    <3>1. PICK m \in mans' : y = m.id
      BY DEF Stored
    <3>2. CASE m \in mans
      BY <3>1, <3>2 DEF Stored
    <3>3. CASE m \in {[id |-> x, at |-> clock] : x \in S}
      BY <2>1, <3>1, <3>3
    <3> QED
      BY <3>2, <3>3
  <2>3. Stored \subseteq Stored'
    BY DEF Stored
  <2>4. ASSUME NEW x \in S
        PROVE  x \in Stored'
    <3>1. [id |-> x, at |-> clock] \in mans'
      OBVIOUS
    <3> QED
      BY <2>1, <3>1 DEF Stored
  <2> QED
    BY <2>1, <2>2, <2>3, <2>4
<1>3. SgTypeOK'
  BY <1>1, <1>2 DEF SgInv, SgTypeOK
<1>4. mans' \subseteq Manifest
  BY SMT, <1>1, <1>2 DEF SgInv, Manifest
<1>5. sent' \in [GcSlice -> 0 .. MaxGcTime + 1]
  BY SMT, <1>1 DEF SgInv
<1>6. \A x \in GcSlice : /\ sent[x] > 0 => sent'[x] = sent[x]
                         /\ sent'[x] <= clock + 1 /\ (x \in S => 0 < sent'[x])
  <2> SUFFICES ASSUME NEW x \in GcSlice
               PROVE  /\ sent[x] > 0 => sent'[x] = sent[x]
                      /\ sent'[x] <= clock + 1 /\ (x \in S => 0 < sent'[x])
    OBVIOUS
  <2>1. sent[x] \in 0 .. MaxGcTime + 1 /\ sent'[x] = IF x \in S /\ sent[x] = 0 THEN clock + 1 ELSE sent[x]
    BY DEF SgInv
  <2>2. sent[x] <= clock + 1
    BY DEF SgInv, SentPast
  <2> QED
    BY SMT, <1>1, <2>1, <2>2
<1>7. ASSUME NEW m \in mans'
      PROVE  0 < sent'[m.id] /\ sent'[m.id] <= m.at + 1
  <2>1. CASE m \in mans
    BY <2>1, <1>6 DEF SgInv, Manifest
  <2>2. CASE m \in {[id |-> x, at |-> clock] : x \in S}
    BY SMT, <2>2, <1>6, <1>2
  <2> QED
    BY <2>1, <2>2
<1>8. \A x \in GcSlice : IsLate(x) => IsLate(x)'
  BY <1>6 DEF IsLate
<1>s. SentPast'
  BY <1>6 DEF SentPast
<1>9. ChosenOld'
  BY <1>8 DEF SgInv, ChosenOld, Pass
<1>10. Backed' /\ WindowKeeps'
  BY <1>2, <1>8 DEF SgInv, Backed, WindowKeeps
<1> QED
  BY <1>3, <1>4, <1>5, <1>7, <1>s, <1>9, <1>10 DEF SgInv

\* One slice is uploaded, or all that is staged when the daemon starts, which
\* commits what the log holds.
LEMMA SgUploadsInv ==
    ASSUME SgInv, DaemonStart \/ (\E s \in GcSlice : UploadSlice(s))
    PROVE  SgInv'
<1>1. CASE DaemonStart
  <2>1. /\ stg \in SUBSET stg /\ stg \ stg \subseteq stg' /\ stg' \subseteq stg
        /\ late \subseteq late' /\ late' \subseteq GcSlice /\ daemon' \in BOOLEAN
        /\ UNCHANGED <<pass, clock, downs, bare>>
    BY <1>1 DEF DaemonStart, SgInv, SgTypeOK
  <2>2. /\ mans' = mans \cup {[id |-> x, at |-> clock] : x \in stg}
        /\ sent' = [x \in GcSlice |-> IF x \in stg /\ sent[x] = 0 THEN clock + 1 ELSE sent[x]]
    BY <1>1 DEF DaemonStart
  <2>3. /\ \A x \in GcSlice : \/ st'[x] = st[x]
                              \/ st[x] = "logged" /\ st'[x] = "live" /\ (IsLate(x) => x \in late')
        /\ st' \in [GcSlice -> {"new", "staged", "logged", "live", "dead", "lost"}]
    BY <1>1 DEF DaemonStart, SgInv, SgTypeOK
  <2> QED
    BY <2>1, <2>2, <2>3, SgUploadInv
<1>2. ASSUME NEW s \in GcSlice, UploadSlice(s)
      PROVE  SgInv'
  <2>1. /\ {s} \in SUBSET stg /\ stg \ {s} \subseteq stg' /\ stg' \subseteq stg
        /\ late \subseteq late' /\ late' \subseteq GcSlice /\ daemon' \in BOOLEAN
        /\ UNCHANGED <<st, pass, clock, downs, bare>>
    BY <1>2 DEF UploadSlice, SgInv, SgTypeOK
  <2>2. mans' = mans \cup {[id |-> x, at |-> clock] : x \in {s}}
    BY <1>2 DEF UploadSlice
  <2>3. sent' = [x \in GcSlice |-> IF x \in {s} /\ sent[x] = 0 THEN clock + 1 ELSE sent[x]]
    BY <1>2 DEF UploadSlice, SgInv
  <2>4. st' \in [GcSlice -> {"new", "staged", "logged", "live", "dead", "lost"}]
    BY <2>1 DEF SgInv, SgTypeOK
  <2> QED
    BY <2>1, <2>2, <2>3, <2>4, SgUploadInv
<1> QED
  BY <1>1, <1>2

\* A crash loses the writes that were not logged.
LEMMA SgCrashInv == ASSUME SgInv, DaemonCrash PROVE SgInv'
<1>1. UNCHANGED <<stg, mans, clock, late, bare, sent>> /\ daemon' = FALSE /\ Stored' = Stored
  BY DEF DaemonCrash, Stored
<1>2. /\ st' \in [GcSlice -> {"new", "staged", "logged", "live", "dead", "lost"}]
      /\ \A x \in GcSlice : st'[x] = st[x] \/ st'[x] = "lost"
  BY DEF DaemonCrash, SgInv, SgTypeOK
<1>3. pass' \in Pass /\ (pass' = pass \/ pass' = NoPass)
  BY SMT, SliceGCAssumption DEF DaemonCrash, SgInv, Pass, NoPass
<1>4. SgTypeOK' /\ \A x : IsLate(x)' <=> IsLate(x)
  BY <1>1, <1>2, <1>3 DEF SgInv, SgTypeOK, IsLate, Pass
<1>5. NoPass.reclaim = {}
  BY DEF NoPass
<1>6. ChosenOld'
  BY <1>1, <1>2, <1>3, <1>4, <1>5 DEF SgInv, ChosenOld, Pass
<1>7. Backed' /\ WindowKeeps'
  BY <1>1, <1>2, <1>4 DEF SgInv, Backed, WindowKeeps
<1> QED
  BY <1>1, <1>3, <1>4, <1>6, <1>7 DEF SgInv, SentPast

\* A pass begins, walks, and ends without touching what is stored.
LEMMA SgWalkInv ==
    ASSUME SgInv, UNCHANGED <<st, stg, mans, daemon, clock, downs, sent, late, bare>>,
           pass' \in Pass, pass'.win = pass.win \/ pass'.reclaim = {},
           \A s \in pass'.reclaim \ pass.reclaim : pass.win > 0 => IsLate(s) /\ st[s] # "live"
    PROVE  SgInv'
<1>1. Stored' = Stored /\ \A x : IsLate(x)' <=> IsLate(x)
  BY DEF Stored, IsLate
<1>2. SgTypeOK'
  BY <1>1 DEF SgInv, SgTypeOK, Pass
<1>3. ChosenOld'
  BY <1>1 DEF SgInv, ChosenOld
<1>4. Backed' /\ WindowKeeps'
  BY <1>1 DEF SgInv, Backed, WindowKeeps
<1> QED
  BY <1>2, <1>3, <1>4 DEF SgInv, SentPast

\* flush chooses what no row references and, in a windowed pass, what was last
\* uploaded a window or more ago.
LEMMA SgFlushInv == ASSUME SgInv, FlushBatch PROVE SgInv'
<1> DEFINE O == Orphans(pass.batch, pass.win)
<1>1. /\ UNCHANGED <<st, stg, mans, daemon, clock, downs, sent, late, bare>>
      /\ pass' = [pass EXCEPT !.reclaim = @ \cup O, !.batch = {},
                      !.pc = IF pass.todo = {} THEN "reclaim" ELSE "walk"]
  BY DEF FlushBatch
<1>2. O \subseteq GcSlice /\ \A s \in O : s \in Stored /\ st[s] # "live"
  BY DEF Orphans, LiveSliceIDsIn, SgInv, Pass
<1>3. ASSUME NEW s \in O, pass.win > 0
      PROVE  IsLate(s)
  <2>1. clock - Newest(s) >= pass.win /\ pass.win = Window
    BY SMT, <1>3, SliceGCAssumption DEF Orphans, SgInv, Pass
  <2>2. s \in GcSlice /\ sent[s] \in Nat /\ clock \in Nat /\ Window \in Nat
    BY SMT, <1>2, SliceGCAssumption DEF SgInv, SgTypeOK
  <2>3. Newest(s) \in 0 .. MaxGcTime /\ 0 < sent[s] /\ sent[s] <= Newest(s) + 1
    BY <1>2, NewestSent
  <2> QED
    BY SMT, <2>1, <2>2, <2>3 DEF IsLate
<1> HIDE DEF O
<1>4. pass' \in Pass /\ pass'.win = pass.win /\ pass'.reclaim = pass.reclaim \cup O
  <2>1. pass \in Pass /\ pass.reclaim \subseteq GcSlice
    BY SMT DEF SgInv, Pass
  <2>2. pass' \in Pass
    BY <1>1, <1>2, <2>1 DEF Pass
  <2> QED
    BY <1>1, <2>1, <2>2 DEF Pass
<1> QED
  BY <1>1, <1>2, <1>3, <1>4, SgWalkInv

\* The other steps of a pass choose nothing.
LEMMA SgStepInv ==
    ASSUME SgInv, RunMaintenance \/ RunAdminGC \/ EndPass \/ (\E s \in GcSlice : WalkSlice(s))
    PROVE  SgInv'
<1>1. CASE RunMaintenance \/ RunAdminGC
  <2>1. PICK by \in {"daemon", "admin"}, win \in {0, Window} : BeginPass(by, win)
    BY <1>1 DEF RunMaintenance, RunAdminGC
  <2>2. Stored \subseteq GcSlice
    BY DEF SgInv, SgTypeOK
  <2>3. pass' = [pc |-> "walk", by |-> by, win |-> win, todo |-> Stored, batch |-> {},
                 reclaim |-> {}]
    BY <2>1 DEF BeginPass, NoPass
  <2>4. UNCHANGED <<st, stg, mans, daemon, clock, downs, sent, late, bare>>
    BY <2>1 DEF BeginPass
  <2> QED
    <3>1. pass' \in Pass /\ pass'.reclaim = {}
      BY <2>2, <2>3 DEF Pass
    <3> QED
      BY <3>1, <2>4, SgWalkInv
<1>2. CASE EndPass
  <2>1. pass' \in Pass /\ pass'.reclaim = {}
    BY SMT, <1>2 DEF EndPass, Pass, NoPass
  <2>2. UNCHANGED <<st, stg, mans, daemon, clock, downs, sent, late, bare>>
    BY <1>2 DEF EndPass
  <2> QED
    BY <2>1, <2>2, SgWalkInv
<1>3. ASSUME NEW s \in GcSlice, WalkSlice(s)
      PROVE  SgInv'
  <2>1. pass' \in Pass /\ pass'.reclaim = pass.reclaim /\ pass'.win = pass.win
    <3>1. pass \in Pass /\ pass.batch \subseteq GcSlice
      BY SMT DEF SgInv, Pass
    <3>2. PICK b \in {pass.batch, pass.batch \cup {s}} :
            pass' = [pass EXCEPT !.todo = @ \ {s}, !.batch = b]
      BY <1>3 DEF WalkSlice
    <3> QED
      BY <3>1, <3>2 DEF Pass
  <2>2. UNCHANGED <<st, stg, mans, daemon, clock, downs, sent, late, bare>>
    BY <1>3 DEF WalkSlice
  <2> QED
    BY <2>1, <2>2, SgWalkInv
<1> QED
  BY <1>1, <1>2, <1>3

\* What is reclaimed has no row, or a late one, unless the pass has no window.
LEMMA SgReclaimInv == ASSUME SgInv, NEW s \in GcSlice, ReclaimSlice(s) PROVE SgInv'
<1>1. /\ UNCHANGED <<st, stg, daemon, clock, downs, late, sent>> /\ s \in pass.reclaim
      /\ mans' = {m \in mans : m.id # s} /\ pass' = [pass EXCEPT !.reclaim = @ \ {s}]
  BY DEF ReclaimSlice
<1>2. pass' \in Pass /\ pass'.win = pass.win /\ pass'.reclaim = pass.reclaim \ {s}
  BY SMT, <1>1 DEF SgInv, Pass
<1>3. /\ bare \subseteq bare' /\ bare' \in SUBSET GcSlice
      /\ s \in bare' \/ pass.win > 0
  BY SMT, SliceGCAssumption DEF ReclaimSlice, SgInv, SgTypeOK, Pass
<1>4. Stored' = Stored \ {s} /\ \A x : IsLate(x)' <=> IsLate(x)
  BY <1>1 DEF Stored, IsLate
<1>5. SgTypeOK'
  BY <1>1, <1>2, <1>3, <1>4 DEF SgInv, SgTypeOK, Pass
<1>6. ChosenOld'
  BY <1>1, <1>2, <1>4 DEF SgInv, ChosenOld
<1>7. s \in bare' \/ (IsLate(s) /\ (st[s] = "live" => s \in late))
  BY <1>1, <1>3 DEF SgInv, ChosenOld
<1>8. Backed' /\ WindowKeeps'
  BY <1>1, <1>3, <1>4, <1>7 DEF SgInv, Backed, WindowKeeps
<1> QED
  BY <1>1, <1>2, <1>5, <1>6, <1>8 DEF SgInv, SentPast

\* Time makes a commit late, never early.
LEMMA SgTickInv == ASSUME SgInv, SgTick PROVE SgInv'
<1>1. /\ UNCHANGED <<st, stg, mans, daemon, pass, downs, late, bare, sent>>
      /\ clock' = clock + 1 /\ clock' \in 0 .. MaxGcTime /\ clock \in Nat
  BY SMT, SliceGCAssumption DEF SgTick, SgInv, SgTypeOK
<1>2. Stored' = Stored
  BY <1>1 DEF Stored
<1>3. \A x \in GcSlice : IsLate(x) => IsLate(x)'
  BY SMT, <1>1, SliceGCAssumption DEF IsLate, SgInv
<1>4. SgTypeOK'
  BY <1>1, <1>2 DEF SgInv, SgTypeOK
<1>s. SentPast'
  BY SMT, <1>1 DEF SgInv, SentPast
<1>5. ChosenOld'
  BY <1>1, <1>3 DEF SgInv, ChosenOld, Pass
<1>6. Backed' /\ WindowKeeps'
  BY <1>1, <1>2, <1>3 DEF SgInv, Backed, WindowKeeps
<1> QED
  BY <1>1, <1>s, <1>4, <1>5, <1>6 DEF SgInv

\* Every step of the write path and of the collector keeps SgInv.
LEMMA SgNextInv == SgInv /\ [SgNext]_sgVars => SgInv'
<1> SUFFICES ASSUME SgInv, [SgNext]_sgVars
             PROVE  SgInv'
  OBVIOUS
<1>1. CASE \E s \in GcSlice : StageSlice(s) \/ LogSlice(s) \/ CommitSlice(s) \/ DropSlice(s)
  BY <1>1, SgWriteInv
<1>2. CASE DaemonStart \/ \E s \in GcSlice : UploadSlice(s)
  BY <1>2, SgUploadsInv
<1>3. CASE DaemonCrash
  BY <1>3, SgCrashInv
<1>4. CASE RunMaintenance \/ RunAdminGC \/ EndPass \/ \E s \in GcSlice : WalkSlice(s)
  BY <1>4, SgStepInv
<1>5. CASE FlushBatch
  BY <1>5, SgFlushInv
<1>6. CASE \E s \in GcSlice : ReclaimSlice(s)
  BY <1>6, SgReclaimInv
<1>7. CASE SgTick
  BY <1>7, SgTickInv
<1>8. CASE UNCHANGED sgVars
  BY <1>8 DEF sgVars, SgInv, SgTypeOK, Stored, SentPast, ChosenOld, Backed, WindowKeeps, IsLate
<1> QED
  BY <1>1, <1>2, <1>3, <1>4, <1>5, <1>6, <1>7, <1>8 DEF SgNext, PassSteps

\* For any slices, window, batch size and number of crashes: whatever stages,
\* uploads, commits and crashes beside the collector's walk, a referenced slice
\* keeps its bytes if its row was committed within the window of the first
\* upload and no pass without a window took it (gc.Run, fileio.Write).
THEOREM SlicesStayKept == SgSpec => []SlicesKept
<1>1. SgInv => SlicesKept
  BY DEF SgInv, SlicesKept
<1> QED
  BY <1>1, SgInitInv, SgNextInv, PTL DEF SgSpec

----------------------------------------------------------------------------
(* The prefetcher.  A stream's blocks between the reader and the frontier   *)
(* are read or scheduled from the first read on, and a run is known by the  *)
(* read that started it.                                                    *)

Tracker == [lastEnd : 0 .. FileLen, run : Nat, to : 0 .. FileLen]
Job == [id : Nat, todo : SUBSET Block, held : SUBSET Block]

Tracked ==
    /\ DOMAIN track \subseteq Inode /\ IsFiniteSet(DOMAIN track)
    /\ Cardinality(DOMAIN track) <= MaxTrackers
    /\ \A i \in DOMAIN track : /\ track[i] \in Tracker
                               /\ track[i].to <= track[i].lastEnd + RaWindow
                               /\ Blocks(i, track[i].lastEnd, track[i].to) \subseteq seen[i]

Claimed ==
    /\ jobs \subseteq Job /\ inflight \subseteq Block
    /\ \A j, k \in jobs : j.id = k.id => j = k
    /\ ClaimsHeld

RaInv ==
    /\ reads \in Nat /\ seen \in [Inode -> SUBSET Block]
    /\ Tracked /\ Claimed /\ \A j \in jobs : j.id < reads

\* Ranges of blocks are compared by their numbers.
LEMMA BlocksWithin ==
    ASSUME NEW i, NEW a \in Int, NEW b \in Int, NEW c \in Int, c <= a
    PROVE  Blocks(i, a, b) \subseteq Blocks(i, c, b)
<1>1. a .. b - 1 \subseteq c .. b - 1
  BY SMT
<1> QED
  BY <1>1 DEF Blocks

LEMMA BlocksNone ==
    ASSUME NEW i, NEW a \in Int
    PROVE  Blocks(i, a, a) = {}
<1>1. a .. a - 1 = {}
  BY SMT
<1> QED
  BY <1>1 DEF Blocks

LEMMA BlocksJoin ==
    ASSUME NEW i, NEW a \in Int, NEW b \in Int, NEW c \in Int, a <= c, c <= b
    PROVE  Blocks(i, a, b) \subseteq Blocks(i, a, c) \cup Blocks(i, c, b)
<1>1. a .. b - 1 = (a .. c - 1) \cup (c .. b - 1)
  BY SMT
<1> QED
  BY <1>1 DEF Blocks

\* A range within the file is one of blocks.
LEMMA BlocksTyped ==
    ASSUME NEW i \in Inode, NEW a \in Int, NEW b \in Int, 0 <= a, b <= FileLen
    PROVE  Blocks(i, a, b) \subseteq Block
<1>1. a .. b - 1 \subseteq 0 .. FileLen - 1
  BY SMT, ReadAheadAssumption
<1> QED
  BY <1>1 DEF Blocks, Block

\* Max and Min of two numbers.
LEMMA TwoNumbers ==
    ASSUME NEW a \in Int, NEW b \in Int
    PROVE  /\ Max({a, b}) = IF a >= b THEN a ELSE b
           /\ Min({a, b}) = IF a <= b THEN a ELSE b
<1>1. Max({a, b}) \in {a, b} /\ Max({a, b}) >= a /\ Max({a, b}) >= b
  <2>1. \E x \in {a, b} : \A y \in {a, b} : x >= y
    BY SMT
  <2> QED
    BY <2>1 DEF Max
<1>2. Min({a, b}) \in {a, b} /\ Min({a, b}) <= a /\ Min({a, b}) <= b
  <2>1. \E x \in {a, b} : \A y \in {a, b} : x <= y
    BY SMT
  <2> QED
    BY <2>1 DEF Min
<1> QED
  BY SMT, <1>1, <1>2

\* A tracker is made, by eviction when there are too many, and the others stay.
LEMMA TrackerMade ==
    ASSUME Tracked, NEW ino \in Inode, NEW tr \in Trackers(ino)
    PROVE  /\ DOMAIN tr \subseteq Inode /\ IsFiniteSet(DOMAIN tr)
           /\ Cardinality(DOMAIN tr) <= MaxTrackers /\ ino \in DOMAIN tr
           /\ \A i \in DOMAIN tr \ {ino} : i \in DOMAIN track /\ tr[i] = track[i]
           /\ tr[ino] = IF ino \in DOMAIN track THEN track[ino] ELSE Fresh
<1>1. CASE ino \in DOMAIN track
  BY <1>1 DEF Trackers, Tracked
<1>2. CASE ino \notin DOMAIN track
  <2> DEFINE D == DOMAIN track
             Out == IF Cardinality(D) < MaxTrackers THEN {{}} ELSE {{k} : k \in D}
  <2>1. PICK out \in Out : tr = [i \in (D \ out) \cup {ino} |-> IF i = ino THEN Fresh ELSE track[i]]
    BY <1>2 DEF Trackers
  <2>2. IsFiniteSet(D) /\ Cardinality(D) \in Nat /\ Cardinality(D) <= MaxTrackers /\ MaxTrackers \in Nat \ {0}
    BY FS_CardinalityType, ReadAheadAssumption DEF Tracked
  <2>3. IsFiniteSet(D \ out) /\ Cardinality(D \ out) \in Nat /\ Cardinality(D \ out) + 1 <= MaxTrackers
    <3>1. CASE Cardinality(D) < MaxTrackers
      <4>1. D \ out = D
        BY <3>1
      <4> QED
        BY SMT, <2>2, <3>1, <4>1
    <3>2. CASE ~(Cardinality(D) < MaxTrackers)
      <4>1. PICK k \in D : out = {k}
        BY <3>2
      <4>2. IsFiniteSet(D \ {k}) /\ Cardinality(D \ {k}) = Cardinality(D) - 1
        BY <2>2, <4>1, FS_RemoveElement
      <4>3. Cardinality(D \ {k}) \in Nat
        BY <4>2, FS_CardinalityType
      <4> QED
        BY SMT, <2>2, <4>1, <4>2, <4>3
    <3> QED
      BY <3>1, <3>2
  <2>4. DOMAIN tr = (D \ out) \cup {ino} /\ ino \notin D \ out
    BY <1>2, <2>1
  <2>5. IsFiniteSet(DOMAIN tr) /\ Cardinality(DOMAIN tr) = Cardinality(D \ out) + 1
    <3>1. /\ IsFiniteSet((D \ out) \cup {ino})
          /\ Cardinality((D \ out) \cup {ino}) = Cardinality(D \ out) + 1
      BY <2>3, <2>4, FS_AddElement
    <3> QED
      BY <2>4, <3>1
  <2>6. Cardinality(DOMAIN tr) <= MaxTrackers
    BY <2>3, <2>5
  <2>7. DOMAIN tr \subseteq Inode
    BY <2>4 DEF Tracked
  <2>8. /\ \A i \in DOMAIN tr \ {ino} : i \in DOMAIN track /\ tr[i] = track[i]
        /\ tr[ino] = Fresh
    BY <1>2, <2>1, <2>4
  <2> QED
    BY <1>2, <2>4, <2>5, <2>6, <2>7, <2>8
<1> QED
  BY <1>1, <1>2

\* No tracker, no run.
LEMMA RaInitInv == RaInit => RaInv
<1> SUFFICES ASSUME RaInit
             PROVE  RaInv
  OBVIOUS
<1>1. DOMAIN track = {} /\ Cardinality({}) = 0 /\ IsFiniteSet({})
  BY FS_EmptySet DEF RaInit
<1>2. 0 <= MaxTrackers
  BY SMT, ReadAheadAssumption
<1>3. Tracked
  BY <1>1, <1>2 DEF Tracked
<1>4. Claimed /\ reads \in Nat
  BY SMT DEF RaInit, Claimed, ClaimsHeld
<1> QED
  BY <1>3, <1>4 DEF RaInit, RaInv

\* A read moves its stream's frontier forward over what it schedules, and a
\* seek puts it back at the reader.
LEMMA DemandReadInv ==
    ASSUME RaInv, NEW ino \in Inode, NEW off \in 0 .. FileLen - 1, NEW n \in 1 .. 2,
           DemandRead(ino, off, n)
    PROVE  RaInv'
<1> DEFINE end == off + n
<1>1. /\ end \in 0 .. FileLen /\ off < end /\ off \in Nat /\ FileLen \in Nat /\ RaWindow \in Nat
      /\ reads' = reads + 1 /\ UNCHANGED <<inflight, closed>> /\ reads' \in Nat
  BY SMT, ReadAheadAssumption DEF DemandRead, RaInv
<1>2. CASE end >= FileLen
  <2>1. UNCHANGED <<track, jobs, seen, inflight>>
    BY <1>2 DEF DemandRead
  <2>2. \A j \in jobs : j.id < reads'
    BY SMT, <1>1 DEF RaInv, Claimed, Job
  <2> QED
    BY <1>1, <2>1, <2>2 DEF RaInv, Tracked, Claimed, ClaimsHeld
<1>3. CASE ~(end >= FileLen)
  <2> DEFINE T(tr) == tr[ino]
             U(tr) == Noted(tr[ino], off, end)
             Lo(tr) == From(U(tr), end)
             Go(tr) == Schedules(tr[ino], off, end)
             Old(tr) == IF off = tr[ino].lastEnd /\ ino \in DOMAIN track THEN seen[ino] ELSE {}
  <2>1. PICK tr \in Trackers(ino) :
          /\ track' = [tr EXCEPT ![ino] = IF Go(tr) THEN [U(tr) EXCEPT !.to = Upto(end)] ELSE U(tr)]
          /\ jobs' = IF Go(tr) THEN jobs \cup {[id |-> reads, todo |-> Blocks(ino, Lo(tr), Upto(end)),
                                                held |-> {}]} ELSE jobs
          /\ seen' = [seen EXCEPT ![ino] = Old(tr) \cup Blocks(ino, off, end)
                         \cup (IF Go(tr) THEN Blocks(ino, Lo(tr), Upto(end)) ELSE {})]
    BY <1>3 DEF DemandRead
  <2> DEFINE t == tr[ino]
             lo == Lo(tr)
             go == Go(tr)
             old == Old(tr)
             next == IF go THEN [U(tr) EXCEPT !.to = Upto(end)] ELSE U(tr)
             new == IF go THEN Blocks(ino, lo, Upto(end)) ELSE {}
  <2>2. /\ DOMAIN tr \subseteq Inode /\ IsFiniteSet(DOMAIN tr)
        /\ Cardinality(DOMAIN tr) <= MaxTrackers /\ ino \in DOMAIN tr
        /\ \A i \in DOMAIN tr \ {ino} : i \in DOMAIN track /\ tr[i] = track[i]
        /\ t = IF ino \in DOMAIN track THEN track[ino] ELSE Fresh
    BY <2>1, TrackerMade DEF RaInv
  <2>3. /\ t \in Tracker /\ t.to <= t.lastEnd + RaWindow
        /\ Blocks(ino, t.lastEnd, t.to) \subseteq IF ino \in DOMAIN track THEN seen[ino] ELSE {}
    <3>1. CASE ino \in DOMAIN track
      BY <2>2, <3>1 DEF RaInv, Tracked
    <3>2. CASE ino \notin DOMAIN track
      <4>1. Fresh \in Tracker /\ Fresh.to = 0 /\ Fresh.lastEnd = 0
        BY SMT, <1>1 DEF Fresh, Tracker
      <4>2. Fresh.to <= Fresh.lastEnd + RaWindow /\ Blocks(ino, 0, 0) = {}
        BY SMT, <1>1, <4>1, BlocksNone
      <4> QED
        BY <2>2, <3>2, <4>1, <4>2
    <3> QED
      BY <3>1, <3>2
  <2>4. /\ t.lastEnd \in Nat /\ t.to \in Nat /\ t.run \in Nat /\ t.to <= FileLen
    BY SMT, <1>1, <2>3 DEF Tracker
  <2>5. Upto(end) \in Nat /\ Upto(end) <= FileLen /\ Upto(end) <= end + RaWindow
    <3>1. end + RaWindow \in Int /\ FileLen \in Int /\ end \in Nat
      BY SMT, <1>1
    <3>2. Upto(end) = IF end + RaWindow <= FileLen THEN end + RaWindow ELSE FileLen
      BY <3>1, TwoNumbers DEF Upto
    <3> QED
      BY SMT, <1>1, <3>1, <3>2
  <2>6. /\ U(tr) \in Tracker /\ U(tr).lastEnd = end
        /\ U(tr).to = IF off = t.lastEnd THEN t.to ELSE end
    BY SMT, <1>1, <2>4 DEF Noted, Tracker
  <2>7. lo \in Nat /\ lo >= end /\ lo >= U(tr).to /\ lo \in {end, U(tr).to}
    BY SMT, <1>1, <2>4, <2>6, TwoNumbers DEF From
  <2>8. go => off = t.lastEnd /\ Upto(end) > lo
    BY DEF Schedules
  <2>9. next \in Tracker /\ next.lastEnd = end /\ next.to = IF go THEN Upto(end) ELSE U(tr).to
    BY SMT, <1>1, <2>5, <2>6 DEF Tracker
  <2>10. next.to <= next.lastEnd + RaWindow
    BY SMT, <1>1, <2>3, <2>4, <2>5, <2>6, <2>9
  <2>11. Blocks(ino, end, U(tr).to) \subseteq old
    <3>1. CASE off = t.lastEnd
      <4>1. Blocks(ino, end, t.to) \subseteq Blocks(ino, t.lastEnd, t.to)
        <5>1. end \in Int /\ t.to \in Int /\ t.lastEnd \in Int /\ t.lastEnd <= end
          BY SMT, <1>1, <2>4, <3>1
        <5> QED
          BY <5>1, BlocksWithin
      <4> QED
        BY <2>3, <2>6, <3>1, <4>1
    <3>2. CASE off # t.lastEnd
      <4>1. Blocks(ino, end, end) = {}
        BY SMT, <1>1, BlocksNone
      <4> QED
        BY <2>6, <3>2, <4>1
    <3> QED
      BY <3>1, <3>2
  <2>12. Blocks(ino, end, next.to) \subseteq old \cup new
    <3>1. CASE go
      <4>1. Blocks(ino, end, Upto(end)) \subseteq Blocks(ino, end, lo) \cup Blocks(ino, lo, Upto(end))
        <5>1. end \in Int /\ Upto(end) \in Int /\ lo \in Int /\ end <= lo /\ lo <= Upto(end)
          BY SMT, <1>1, <2>5, <2>7, <2>8, <3>1
        <5> QED
          BY <5>1, BlocksJoin
      <4>2. Blocks(ino, end, lo) \subseteq old
        <5>1. CASE lo = end
          <6>1. Blocks(ino, end, lo) = {}
            BY SMT, <1>1, <5>1, BlocksNone
          <6> QED
            BY <6>1
        <5>2. CASE lo = U(tr).to
          BY <2>11, <5>2
        <5> QED
          BY <2>7, <5>1, <5>2
      <4> QED
        BY <2>9, <3>1, <4>1, <4>2
    <3>2. CASE ~go
      BY <2>9, <2>11, <3>2
    <3> QED
      BY <3>1, <3>2
  <2>13. new \subseteq Block /\ Blocks(ino, off, end) \subseteq Block /\ old \subseteq Block
    <3>0. lo \in Int /\ 0 <= lo /\ Upto(end) \in Int /\ off \in Int /\ 0 <= off /\ end \in Int /\ end <= FileLen
      BY SMT, <1>1, <2>5, <2>7
    <3>1. Blocks(ino, lo, Upto(end)) \subseteq Block
      BY <2>5, <3>0, BlocksTyped
    <3>2. Blocks(ino, off, end) \subseteq Block
      BY <3>0, BlocksTyped
    <3> QED
      BY <3>1, <3>2 DEF RaInv
  <2> HIDE DEF t, lo, go, old, next, new
  <2>14. /\ track' = [tr EXCEPT ![ino] = next]
         /\ seen' = [seen EXCEPT ![ino] = old \cup Blocks(ino, off, end) \cup new]
         /\ jobs' = jobs \/ jobs' = jobs \cup {[id |-> reads, todo |-> new, held |-> {}]}
    BY <2>1 DEF t, lo, go, old, next, new
  <2> HIDE DEF T, U, Lo, Go, Old, end
  <2>15. /\ seen' \in [Inode -> SUBSET Block] /\ seen'[ino] = old \cup Blocks(ino, off, end) \cup new
         /\ \A i \in Inode \ {ino} : seen'[i] = seen[i]
    BY <2>13, <2>14 DEF RaInv
  <2>16. Tracked'
    <3>1. DOMAIN track' = DOMAIN tr /\ track'[ino] = next /\ \A i \in DOMAIN tr \ {ino} : track'[i] = track[i]
      BY <2>2, <2>14
    <3>2. ASSUME NEW i \in DOMAIN track'
          PROVE  /\ track'[i] \in Tracker /\ track'[i].to <= track'[i].lastEnd + RaWindow
                 /\ Blocks(i, track'[i].lastEnd, track'[i].to) \subseteq seen'[i]
      <4>1. CASE i = ino
        BY <2>9, <2>10, <2>12, <2>15, <3>1, <4>1
      <4>2. CASE i # ino
        BY <2>2, <2>15, <3>1, <3>2, <4>2 DEF RaInv, Tracked
      <4> QED
        BY <4>1, <4>2
    <3> QED
      BY <2>2, <3>1, <3>2 DEF Tracked
  <2>17. CASE jobs' = jobs
    <3>1. \A j \in jobs : j.id < reads'
      BY SMT, <1>1 DEF RaInv, Claimed, Job
    <3> QED
      BY <1>1, <2>15, <2>16, <2>17, <3>1 DEF RaInv, Claimed, ClaimsHeld
  <2>18. CASE jobs' = jobs \cup {[id |-> reads, todo |-> new, held |-> {}]}
    <3> DEFINE j0 == [id |-> reads, todo |-> new, held |-> {}]
    <3>1. j0 \in Job /\ j0.id = reads /\ j0.held = {}
      BY <2>13 DEF Job, RaInv
    <3>2. \A j \in jobs : j.id \in Nat /\ j.id < reads
      BY DEF RaInv, Claimed, Job
    <3> HIDE DEF j0
    <3>3. jobs' = jobs \cup {j0}
      BY <2>18 DEF j0
    <3>4. \A j \in jobs : j.id # j0.id
      BY SMT, <3>1, <3>2 DEF RaInv
    <3>5. \A j \in jobs' : j.id < reads'
      <4>1. \A j \in jobs : j.id < reads'
        BY SMT, <1>1, <3>2 DEF RaInv
      <4>2. j0.id < reads'
        BY SMT, <1>1, <3>1 DEF RaInv
      <4> QED
        BY <3>3, <4>1, <4>2
    <3>6. ClaimsHeld'
      <4>1. UNION {j.held : j \in jobs'} = UNION {j.held : j \in jobs}
        BY <3>1, <3>3
      <4>2. \A j, k \in jobs' : j # k => j.held \cap k.held = {}
        BY <3>1, <3>3 DEF RaInv, Claimed, ClaimsHeld
      <4> QED
        BY <1>1, <4>1, <4>2 DEF RaInv, Claimed, ClaimsHeld
    <3>7. \A j, k \in jobs' : j.id = k.id => j = k
      BY <3>3, <3>4 DEF RaInv, Claimed
    <3>8. Claimed'
      BY <1>1, <3>1, <3>3, <3>6, <3>7 DEF RaInv, Claimed
    <3> QED
      BY <1>1, <2>15, <2>16, <3>5, <3>8 DEF RaInv
  <2> QED
    BY <2>14, <2>17, <2>18
<1> QED
  BY <1>2, <1>3

\* A run claims only what nobody holds.
LEMMA ClaimInv ==
    ASSUME RaInv, NEW j \in jobs, NEW b \in Block, NEW c \in BOOLEAN, ClaimNext(j, b, c)
    PROVE  RaInv'
<1> DEFINE g == [j EXCEPT !.todo = @ \ {b}, !.held = IF Claim(b, c) THEN @ \cup {b} ELSE @]
<1>1. /\ jobs' = (jobs \ {j}) \cup {g}
      /\ inflight' = IF Claim(b, c) THEN inflight \cup {b} ELSE inflight
      /\ UNCHANGED <<track, closed, reads, seen>>
  BY DEF ClaimNext
<1>2. j \in Job
  BY DEF RaInv, Claimed
<1>3. /\ g \in Job /\ g.id = j.id
      /\ g.held = IF Claim(b, c) THEN j.held \cup {b} ELSE j.held
  BY <1>2 DEF Job
<1>4. Claim(b, c) => b \notin inflight
  BY DEF Claim
<1> HIDE DEF g
<1>5. \A k \in jobs : k # j => k.id # g.id
  BY <1>3 DEF RaInv, Claimed
<1>6. \A k, l \in jobs' : k.id = l.id => k = l
  BY <1>1, <1>5 DEF RaInv, Claimed
<1>7. \A k, l \in jobs' : k # l => k.held \cap l.held = {}
  <2>0. inflight = UNION {k.held : k \in jobs}
    BY DEF RaInv, Claimed, ClaimsHeld
  <2>1. \A k \in jobs : k.held \subseteq inflight
    BY <2>0
  <2>2. \A k \in jobs : k # j => k.held \cap g.held = {}
    <3>1. \A k \in jobs : k # j => k.held \cap j.held = {}
      BY DEF RaInv, Claimed, ClaimsHeld
    <3> QED
      BY <1>3, <1>4, <2>1, <3>1
  <2> QED
    BY <1>1, <2>2 DEF RaInv, Claimed, ClaimsHeld
<1>8. inflight' = UNION {k.held : k \in jobs'}
  <2>1. UNION {k.held : k \in jobs'} = (UNION {k.held : k \in jobs \ {j}}) \cup g.held
    BY <1>1
  <2>2. inflight = (UNION {k.held : k \in jobs \ {j}}) \cup j.held
    <3>1. inflight = UNION {k.held : k \in jobs}
      BY DEF RaInv, Claimed, ClaimsHeld
    <3> QED
      BY <3>1
  <2> QED
    BY <1>1, <1>3, <2>1, <2>2
<1>9. Claimed'
  BY <1>1, <1>3, <1>6, <1>7, <1>8 DEF RaInv, Claimed, ClaimsHeld
<1>10. \A k \in jobs' : k.id < reads'
  BY <1>1, <1>3 DEF RaInv
<1> QED
  BY <1>1, <1>9, <1>10 DEF RaInv, Tracked

\* A run that ends gives up its claims and nobody else's.
LEMMA ReleaseInv ==
    ASSUME RaInv, NEW j \in jobs, FetchBatch(j) \/ GiveUp(j)
    PROVE  RaInv'
<1>1. jobs' = jobs \ {j} /\ inflight' = inflight \ j.held /\ UNCHANGED <<track, closed, reads, seen>>
  BY DEF FetchBatch, GiveUp, Release
<1>2. inflight' = UNION {k.held : k \in jobs'}
  <2>1. \A k \in jobs \ {j} : k.held \cap j.held = {}
    BY DEF RaInv, Claimed, ClaimsHeld
  <2>2. inflight = (UNION {k.held : k \in jobs \ {j}}) \cup j.held
    <3>1. inflight = UNION {k.held : k \in jobs}
      BY DEF RaInv, Claimed, ClaimsHeld
    <3> QED
      BY <3>1
  <2>3. (UNION {k.held : k \in jobs \ {j}}) \cap j.held = {}
    BY <2>1
  <2> QED
    BY <1>1, <2>2, <2>3
<1>3. Claimed'
  BY <1>1, <1>2 DEF RaInv, Claimed, ClaimsHeld
<1> QED
  BY <1>1, <1>3 DEF RaInv, Tracked

\* For any inodes, file length, window, trigger, tracker cap and number of
\* readers: the prefetcher's frontier stays within a window of the reader and
\* of the file, skips no block of a sequential stream across seeks and tracker
\* evictions (note), claims no slice for two runs and releases every claim
\* with its run (claim, release, runBatch).
THEOREM ReadAheadStaysSound == RaSpec => []ReadAheadSound
<1>1. RaInv /\ [RaNext]_raVars => RaInv'
  <2> SUFFICES ASSUME RaInv, [RaNext]_raVars
               PROVE  RaInv'
    OBVIOUS
  <2>1. CASE \E i \in Inode, off \in 0 .. FileLen - 1, n \in 1 .. 2 : DemandRead(i, off, n)
    BY <2>1, DemandReadInv
  <2>2. CASE \E j \in jobs : FetchBatch(j) \/ GiveUp(j)
    BY <2>2, ReleaseInv
  <2>3. CASE \E j \in jobs, b \in Block, c \in BOOLEAN : ClaimNext(j, b, c)
    BY <2>3, ClaimInv
  <2>4. CASE CloseReadAhead
    BY <2>4 DEF CloseReadAhead, RaInv, Tracked, Claimed, ClaimsHeld
  <2>5. CASE UNCHANGED raVars
    BY <2>5 DEF raVars, RaInv, Tracked, Claimed, ClaimsHeld
  <2> QED
    BY <2>1, <2>2, <2>3, <2>4, <2>5 DEF RaNext
<1>2. RaInv => ReadAheadSound
  <2> SUFFICES ASSUME RaInv
               PROVE  ReadAheadSound
    OBVIOUS
  <2>1. RaTypeOK /\ ClaimsHeld
    BY DEF RaInv, Tracked, Claimed, RaTypeOK, Job
  <2>2. NoGap
    BY DEF RaInv, Tracked, NoGap
  <2>3. \A i \in DOMAIN track : track[i].to \in 0 .. FileLen
    BY DEF RaInv, Tracked, Tracker
  <2>4. FrontierBounded
    BY SMT, <2>3, ReadAheadAssumption DEF RaInv, Tracked, FrontierBounded
  <2> QED
    BY <2>1, <2>2, <2>4 DEF ReadAheadSound
<1> QED
  BY <1>1, <1>2, RaInitInv, PTL DEF RaSpec

=============================================================================
