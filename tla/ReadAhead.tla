----------------------------- MODULE ReadAhead -----------------------------
(***************************************************************************)
(* mlfs's sequential-read prefetcher (mlfs/internal/fileio/readahead.go).  *)
(* A file is FileLen blocks; a block is one slice.                         *)
(***************************************************************************)
EXTENDS Integers, Sequences, FiniteSets, FiniteSetsExt

CONSTANTS
    Inode, FileLen,
    RaWindow,     \* blocks kept warm ahead of the reader
    Trigger,      \* run length at which prefetching starts
    MaxTrackers,  \* cap of the per-inode state
    MaxReads      \* bound: demand reads

ASSUME ReadAheadAssumption == {FileLen, RaWindow, Trigger, MaxTrackers, MaxReads} \subseteq Nat \ {0}

VARIABLES
    track,     \* per-inode state, for the inodes tracked
    jobs,      \* prefetch runs: [lo, hi of ino; ids left to claim; ids claimed]
    inflight,  \* slices claimed
    closed, reads,
    seen       \* history: blocks read or scheduled in the inode's current run

raVars == <<track, jobs, inflight, closed, reads, seen>>

Block == Inode \X (0 .. FileLen - 1)
Blocks(ino, lo, hi) == {ino} \X (lo .. hi - 1)
Fresh == [lastEnd |-> 0, run |-> 0, to |-> 0]

RaTypeOK ==
    /\ DOMAIN track \subseteq Inode /\ Cardinality(DOMAIN track) <= MaxTrackers
    /\ inflight \subseteq Block
    /\ \A j \in jobs : j.todo \subseteq Block /\ j.held \subseteq Block

RaInit ==
    /\ track = [i \in {} |-> Fresh] /\ jobs = {} /\ inflight = {}
    /\ closed = FALSE /\ reads = 0 /\ seen = [i \in Inode |-> {}]

----------------------------------------------------------------------------
(* note: after a demand read of [off, end).                                 *)

\* The tracker of ino, made by evicting another one when the map is full.
Trackers(ino) ==
    IF ino \in DOMAIN track THEN {track}
    ELSE {[i \in (DOMAIN track \ out) \cup {ino} |-> IF i = ino THEN Fresh ELSE track[i]] :
            out \in IF Cardinality(DOMAIN track) < MaxTrackers THEN {{}}
                    ELSE {{k} : k \in DOMAIN track}}

Noted(t, off, end) ==
    LET run == IF off = t.lastEnd THEN t.run + (end - off) ELSE end - off
    IN [lastEnd |-> end, run |-> run,
        to |-> IF off = t.lastEnd THEN t.to ELSE end]

Upto(end) == Min({end + RaWindow, FileLen})
\* The range to schedule: from the frontier, or the reader if it is past it.
From(t, end) == Max({t.to, end})
Schedules(t, off, end) ==
    off = t.lastEnd /\ Noted(t, off, end).run >= Trigger
    /\ Upto(end) > From(Noted(t, off, end), end)

DemandRead(ino, off, n) ==
    LET end == off + n
    IN /\ ~closed /\ reads < MaxReads /\ end <= FileLen
       /\ reads' = reads + 1
       /\ IF end >= FileLen THEN UNCHANGED <<track, jobs, seen>>
          ELSE \E tr \in Trackers(ino) :
            LET t == tr[ino]
                u == Noted(t, off, end)
                lo == From(u, end)
                go == Schedules(t, off, end)
                old == IF off = t.lastEnd /\ ino \in DOMAIN track THEN seen[ino] ELSE {}
            IN /\ track' = [tr EXCEPT ![ino] = IF go THEN [u EXCEPT !.to = Upto(end)] ELSE u]
               /\ jobs' = IF go THEN jobs \cup {[id |-> reads, todo |-> Blocks(ino, lo, Upto(end)),
                                                held |-> {}]} ELSE jobs
               /\ seen' = [seen EXCEPT ![ino] = old \cup Blocks(ino, off, end)
                              \cup (IF go THEN Blocks(ino, lo, Upto(end)) ELSE {})]
       /\ UNCHANGED <<inflight, closed>>

----------------------------------------------------------------------------
(* runBatch: claim what is neither resident nor in flight, read it in one   *)
(* batch, release.  The cache may hold any slice or have evicted it: what   *)
(* CachedLocally answers is left open.                                      *)

Claim_NotBusy(b, cached) == ~cached
Claim(b, cached) == ~cached /\ b \notin inflight

ClaimNext(j, b, cached) ==
    /\ ~closed /\ b \in j.todo
    /\ jobs' = (jobs \ {j}) \cup {[j EXCEPT !.todo = @ \ {b},
                   !.held = IF Claim(b, cached) THEN @ \cup {b} ELSE @]}
    /\ inflight' = IF Claim(b, cached) THEN inflight \cup {b} ELSE inflight
    /\ UNCHANGED <<track, closed, reads, seen>>

Release(j) == jobs' = jobs \ {j} /\ inflight' = inflight \ j.held

\* ReadBatch fills the cache, or fails; the claims are released either way.
FetchBatch(j) ==
    /\ j.todo = {}
    /\ Release(j)
    /\ UNCHANGED <<track, closed, reads, seen>>

\* The context is cancelled: a run that is still claiming gives up.
GiveUp(j) ==
    /\ closed /\ j.todo # {}
    /\ Release(j)
    /\ UNCHANGED <<track, closed, reads, seen>>

CloseReadAhead ==
    /\ ~closed /\ closed' = TRUE
    /\ UNCHANGED <<track, jobs, inflight, reads, seen>>

RaNext ==
    \/ \E i \in Inode, off \in 0 .. FileLen - 1, n \in 1 .. 2 : DemandRead(i, off, n)
    \/ \E j \in jobs : FetchBatch(j) \/ GiveUp(j) \/ \E b \in Block, c \in BOOLEAN : ClaimNext(j, b, c)
    \/ CloseReadAhead

RaSpec == RaInit /\ [][RaNext]_raVars

----------------------------------------------------------------------------
\* The frontier never runs more than a window ahead of the reader, nor past
\* the end of the file, also after seeks and tracker evictions (note).
FrontierBounded == \A i \in DOMAIN track :
    track[i].to <= track[i].lastEnd + RaWindow /\ track[i].to <= FileLen

\* A stream that has passed the trigger has every block up to its frontier
\* read or scheduled: no block is skipped between two windows.
NoGap == \A i \in DOMAIN track :
    track[i].run >= Trigger => Blocks(i, track[i].lastEnd, track[i].to) \subseteq seen[i]

\* No two runs fetch the same slice, and every claim has its run: a claim that
\* leaked would never be prefetched again (claim, release).
ClaimsHeld ==
    /\ inflight = UNION {j.held : j \in jobs}
    /\ \A j, k \in jobs : j # k => j.held \cap k.held = {}

\* The read-ahead scheduler: bounded, without holes, and no slice claimed twice
\* or for ever (note, claim, release).
ReadAheadSound == RaTypeOK /\ NoGap /\ FrontierBounded /\ ClaimsHeld

=============================================================================
