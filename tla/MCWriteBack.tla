---------------------------- MODULE MCWriteBack ----------------------------
(***************************************************************************)
(* The parts of mlfs's write-back and read-ahead path, each on its own:    *)
(* Init picks the part a behaviour is about.                               *)
(***************************************************************************)
EXTENDS DiskCache, SliceGC, Wal, ReadAhead, TLC

VARIABLE part

vars == <<part, dcVars, sgVars, walVars, raVars>>

Init == part \in {"cache", "gc", "wal", "readahead"} /\ DcInit /\ SgInit /\ WalInit /\ RaInit

Next ==
    /\ UNCHANGED part
    /\ \/ part = "cache" /\ DcNext /\ UNCHANGED <<sgVars, walVars, raVars>>
       \/ part = "gc" /\ SgNext /\ UNCHANGED <<dcVars, walVars, raVars>>
       \/ part = "wal" /\ WalNext /\ UNCHANGED <<dcVars, sgVars, raVars>>
       \/ part = "readahead" /\ RaNext /\ UNCHANGED <<dcVars, sgVars, walVars>>

Spec == Init /\ [][Next]_vars

\* What a mount keeps on its own disk: the log replays what was synced, in
\* order (Wal), and the index of clean files is exact, complete and within its
\* caps (addLRU, evict).
LocalSound == LogSound /\ LruExact /\ CleanIndexed

Interchangeable == Permutations(Drain) \cup Permutations(Inode)
=============================================================================
