--------------------------- MODULE PgPackReclaim ---------------------------
(***************************************************************************)
(* The same protocol over blobgw's PostgreSQL store (pgindex).  Two things *)
(* differ from the in-memory store.  Associate is a READ COMMITTED         *)
(* transaction of a check and an insert, and FOR SHARE locks only the rows *)
(* the check returns, the ones that are NOT stored.  PurgePacks deletes    *)
(* the packs row that holds the lifecycle state, in a second statement, so *)
(* the pack reads as "stored" again.                                       *)
(***************************************************************************)
EXTENDS PackReclaim

\* SELECT ... WHERE state <> 'stored' FOR SHARE: a row found rolls back.
PgAssociateCheck(w) ==
    /\ wpc[w] = "associate"
    /\ wpc' = [wpc EXCEPT ![w] = IF MayAssociate(w) THEN "insert" ELSE "refused"]
    /\ UNCHANGED <<storeVars, wctx, todo, buf, refs, packed, own, puts, faults>>

\* INSERT INTO pack_assoc and commit.
PgAssociateInsert(w) ==
    /\ wpc[w] = "insert"
    /\ assoc' = assoc \union ({wctx[w]} \X PacksOf(refs[w]))
    /\ wpc' = [wpc EXCEPT ![w] = "manifest"]
    /\ own' = [own EXCEPT ![w] = TRUE]
    /\ UNCHANGED <<blobs, index, pstate, manifests, wctx, todo, buf, refs, packed, puts, faults>>

\* DELETE FROM pack_manifest: the index entries.
PgPurgeEntries(r) ==
    /\ rpc[r] = "purge"
    /\ index' = [c \in Chunk |-> IF index[c] = cur[r] THEN NoPack ELSE index[c]]
    /\ rpc' = [rpc EXCEPT ![r] = "purgerow"]
    /\ UNCHANGED <<blobs, pstate, assoc, manifests, writerVars, faults, rctx, cand, marked, cur>>

\* DELETE FROM packs: the size, and with it the lifecycle state.
PgPurgeRow(r) ==
    /\ rpc[r] = "purgerow"
    /\ pstate' = [pstate EXCEPT ![cur[r]] = "stored"]
    /\ rpc' = [rpc EXCEPT ![r] = "delete"]
    /\ UNCHANGED <<blobs, index, assoc, manifests, writerVars, faults, rctx, cand, marked, cur>>

----------------------------------------------------------------------------
PgPutStep(w) ==
    \/ \E c \in Chunk : Emit(w, c)
    \/ Flush(w) \/ Record(w)
    \/ PgAssociateCheck(w) \/ PgAssociateInsert(w)
    \/ WriteManifest(w) \/ Retry(w)

PgReclaimStep(r) ==
    \/ \E p \in Pack : Mark(r, p) \/ CommitObliterated(r, p)
    \/ DropAgain(r) \/ ReleaseMark(r)
    \/ PgPurgeEntries(r) \/ PgPurgeRow(r) \/ DeleteBlob(r) \/ Return(r)

PgNext ==
    \/ \E w \in Writer :
        /\ \/ \E x \in Context, obj \in Objects : Begin(w, x, obj)
           \/ PgPutStep(w)
        /\ UNCHANGED reclaimVars
    \/ \E r \in Reclaimer :
        \/ \E x \in Context : Drop(r, x)
        \/ PgReclaimStep(r)
    \/ \E m \in manifests : DeleteManifest(m) /\ UNCHANGED reclaimVars

PgSpec == Init /\ [][PgNext]_vars

=============================================================================
