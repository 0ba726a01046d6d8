------------------------------ MODULE SliceGC ------------------------------
(***************************************************************************)
(* mlfs's slice collector (mlfs/internal/gc) against the write path.       *)
(* fileio.Write stages a slice, logs it and commits its row; the upload    *)
(* of the staged bytes runs beside it.  The collector walks the stored     *)
(* slice manifests and removes those no row references.                    *)
(***************************************************************************)
EXTENDS Naturals, FiniteSets, FiniteSetsExt

CONSTANTS
    GcSlice,    \* slice ids
    Window,     \* mlfs-admin gc's safety window
    WalkBatch,  \* manifests per liveness query
    MaxGcTime, MaxDown   \* bounds: clock, crashes

ASSUME SliceGCAssumption == {Window, WalkBatch, MaxGcTime, MaxDown} \subseteq Nat \ {0}

VARIABLES
    st,      \* where each slice's write is
    stg,     \* slices in the staging directory
    mans,    \* stored manifests: [id, at]
    daemon,  \* the daemon is serving
    pass,    \* the collector's pass
    clock, downs,
    \* History.
    sent,    \* 1 + when each slice was first uploaded; 0: never
    late,    \* committed a window or more after their first upload
    bare     \* reclaimed by a pass that has no window

sgVars == <<st, stg, mans, daemon, pass, clock, downs, sent, late, bare>>

NoPass == [pc |-> "idle", by |-> "none", win |-> 0, todo |-> {}, batch |-> {}, reclaim |-> {}]
Stored == {m.id : m \in mans}

SgTypeOK ==
    /\ st \in [GcSlice -> {"new", "staged", "logged", "live", "dead", "lost"}]
    /\ {stg, late, bare, Stored} \subseteq SUBSET GcSlice
    /\ daemon \in BOOLEAN /\ clock \in 0 .. MaxGcTime
    /\ pass.pc \in {"idle", "walk", "reclaim"} /\ pass.reclaim \subseteq GcSlice

SgInit ==
    /\ st = [s \in GcSlice |-> "new"] /\ stg = {} /\ mans = {}
    /\ daemon = TRUE /\ pass = NoPass /\ clock = 0 /\ downs = 0
    /\ sent = [s \in GcSlice |-> 0] /\ late = {} /\ bare = {}

----------------------------------------------------------------------------
(* The write path.                                                          *)

SetState(s, from, to) == daemon /\ st[s] = from /\ st' = [st EXCEPT ![s] = to]

StageSlice(s) ==
    /\ SetState(s, "new", "staged")
    /\ stg' = stg \cup {s}
    /\ UNCHANGED <<mans, daemon, pass, clock, downs, late, bare, sent>>

LogSlice(s) ==
    /\ SetState(s, "staged", "logged")
    /\ UNCHANGED <<stg, mans, daemon, pass, clock, downs, late, bare, sent>>

\* Stored for a window or more when the row is committed.
IsLate(s) == sent[s] > 0 /\ clock + 1 - sent[s] >= Window

CommitSlice(s) ==
    /\ SetState(s, "logged", "live")
    /\ late' = IF IsLate(s) THEN late \cup {s} ELSE late
    /\ UNCHANGED <<stg, mans, daemon, pass, clock, downs, bare, sent>>

\* The file is removed, or the slice overwritten.
DropSlice(s) ==
    /\ SetState(s, "live", "dead")
    /\ UNCHANGED <<stg, mans, daemon, pass, clock, downs, late, bare, sent>>

\* The drain writes the manifest; a crash may leave the staging file behind.
UploadSlice(s) ==
    /\ daemon /\ s \in stg
    /\ mans' = mans \cup {[id |-> s, at |-> clock]}
    /\ stg' \in {stg, stg \ {s}} /\ (stg' = stg => downs < MaxDown)
    /\ sent' = [sent EXCEPT ![s] = IF @ = 0 THEN clock + 1 ELSE @]
    /\ UNCHANGED <<st, daemon, pass, clock, downs, late, bare>>

DaemonCrash ==
    /\ daemon /\ downs < MaxDown /\ downs' = downs + 1
    /\ daemon' = FALSE
    /\ st' = [s \in GcSlice |-> IF st[s] = "staged" THEN "lost" ELSE st[s]]
    /\ pass' = IF pass.by = "daemon" THEN NoPass ELSE pass
    /\ UNCHANGED <<stg, mans, clock, late, bare, sent>>

\* Start-up, before serving: the cache drains its staging directory and the
\* write-ahead log is replayed.  It does not wait for a running mlfs-admin.
DaemonStart ==
    /\ ~daemon
    /\ daemon' = TRUE
    /\ mans' = mans \cup {[id |-> s, at |-> clock] : s \in stg}
    /\ stg' = {}
    /\ sent' = [s \in GcSlice |-> IF s \in stg /\ sent[s] = 0 THEN clock + 1 ELSE sent[s]]
    /\ st' = [s \in GcSlice |-> IF st[s] = "logged" THEN "live" ELSE st[s]]
    /\ late' = late \cup {s \in GcSlice : st[s] = "logged" /\ IsLate(s)}
    /\ UNCHANGED <<pass, clock, downs, bare>>

----------------------------------------------------------------------------
(* The collector: the daemon's maintenance loop never sets a window; the    *)
(* offline tools start while no daemon runs: gc with a window, fsck without *)
(* one.                                                                     *)

BeginPass(by, win) ==
    /\ pass = NoPass
    /\ pass' = [NoPass EXCEPT !.pc = "walk", !.by = by, !.win = win, !.todo = Stored]
    /\ UNCHANGED <<st, stg, mans, daemon, clock, downs, sent, late, bare>>

RunMaintenance == daemon /\ BeginPass("daemon", 0)
RunAdminGC == ~daemon /\ \E win \in {0, Window} : BeginPass("admin", win)

WalkSlice(s) ==
    /\ pass.pc = "walk" /\ s \in pass.todo /\ Cardinality(pass.batch) < WalkBatch
    /\ pass' = [pass EXCEPT !.todo = @ \ {s},
                    !.batch = IF s \in Stored THEN @ \cup {s} ELSE @]
    /\ UNCHANGED <<st, stg, mans, daemon, clock, downs, sent, late, bare>>

LiveSliceIDsIn(ids) == {s \in ids : st[s] = "live"}

Newest(s) == Max({m.at : m \in {n \in mans : n.id = s}})

Orphans_AnyAge(ids, win) == {s \in ids \ LiveSliceIDsIn(ids) : s \in Stored}

\* flush: the batch's orphans that are old enough.
Orphans(ids, win) ==
    {s \in ids \ LiveSliceIDsIn(ids) : s \in Stored /\ (win > 0 => clock - Newest(s) >= win)}

\* Mutant: the last, partial batch is not flushed.
FlushBatch_ForgetRest ==
    /\ pass.pc = "walk"
    /\ Cardinality(pass.batch) = WalkBatch \/ pass.todo = {}
    /\ pass' = [pass EXCEPT !.batch = {}, !.pc = IF pass.todo = {} THEN "reclaim" ELSE "walk",
                    !.reclaim = IF Cardinality(pass.batch) < WalkBatch THEN @
                                ELSE @ \cup Orphans(pass.batch, pass.win)]
    /\ UNCHANGED <<st, stg, mans, daemon, clock, downs, sent, late, bare>>

FlushBatch ==
    /\ pass.pc = "walk"
    /\ Cardinality(pass.batch) = WalkBatch \/ pass.todo = {}
    /\ pass' = [pass EXCEPT !.reclaim = @ \cup Orphans(pass.batch, pass.win), !.batch = {},
                    !.pc = IF pass.todo = {} THEN "reclaim" ELSE "walk"]
    /\ UNCHANGED <<st, stg, mans, daemon, clock, downs, sent, late, bare>>

\* CasStore.Remove of every version.
ReclaimSlice(s) ==
    /\ pass.pc = "reclaim" /\ s \in pass.reclaim
    /\ mans' = {m \in mans : m.id # s}
    /\ pass' = [pass EXCEPT !.reclaim = @ \ {s}]
    /\ bare' = IF pass.win = 0 THEN bare \cup {s} ELSE bare
    /\ UNCHANGED <<st, stg, daemon, clock, downs, late, sent>>

\* The blob sweep follows (module SweepGC).
EndPass ==
    /\ pass.pc = "reclaim" /\ pass.reclaim = {}
    /\ pass' = NoPass
    /\ UNCHANGED <<st, stg, mans, daemon, clock, downs, sent, late, bare>>

SgTick ==
    /\ clock < MaxGcTime /\ clock' = clock + 1
    /\ UNCHANGED <<st, stg, mans, daemon, pass, downs, late, bare, sent>>

PassSteps == FlushBatch \/ EndPass \/ \E s \in GcSlice : WalkSlice(s) \/ ReclaimSlice(s)

SgNext ==
    \/ \E s \in GcSlice : \/ StageSlice(s) \/ LogSlice(s) \/ CommitSlice(s)
                          \/ DropSlice(s) \/ UploadSlice(s)
    \/ DaemonCrash \/ DaemonStart
    \/ RunMaintenance \/ RunAdminGC \/ PassSteps
    \/ SgTick

SgSpec == SgInit /\ [][SgNext]_sgVars

----------------------------------------------------------------------------
\* A referenced slice has its bytes: the collector takes nothing an in-flight
\* write is about to reference.
\* Refuted (no run checks it): a slice uploaded before its metadata commits is
\* unreferenced, and the daemon's pass has no safety window.
RefsBacked == \A s \in GcSlice : st[s] = "live" => s \in stg \cup Stored

\* The same as far as the safety window carries it: the row was committed
\* within the window of the first upload, and no pass without a window took it.
WindowKeeps == \A s \in GcSlice :
    st[s] = "live" => s \in stg \cup Stored \cup late \cup bare

\* What no row references any more is collected (maintenance loop).
OrphansCollected == \A s \in GcSlice : st[s] \in {"dead", "lost"} ~> s \notin Stored

\* The collector of slices removes none that the window protects, whatever
\* stages, uploads, commits and crashes beside its walk (Run).
SlicesKept == SgTypeOK /\ WindowKeeps

=============================================================================
