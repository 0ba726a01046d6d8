----------------------------- MODULE MCProgress -----------------------------
(***************************************************************************)
(* What must happen in the end: lost leases are noticed, staged slices are *)
(* uploaded, orphaned slices are collected, idle mounts are torn down.     *)
(* The parts are independent: the first state picks the one a behaviour    *)
(* is about, and the fairness is that of the part's own loops and timers.  *)
(***************************************************************************)
EXTENDS SqlOwner, DiskCache, SliceGC, MountManager

CONSTANTS n1, n2, o1, o3

VARIABLE part

\* The clock of n2 is one tick ahead.
MCSkew == [n \in Node |-> IF n = n2 THEN 1 ELSE 0]
MCAt == [o \in Op |-> IF o = o3 THEN n2 ELSE n1]

allVars == <<part, vars, dcVars, sgVars, mmVars>>

Parts == {"lease", "cache", "gc", "mount"}

AllInit == part \in Parts /\ Init /\ DcInit /\ SgInit /\ MmInit /\ (part # "mount" => ~grace)

AllNext ==
    /\ UNCHANGED part
    /\ \/ part = "lease" /\ Next /\ UNCHANGED <<dcVars, sgVars, mmVars>>
       \/ part = "cache" /\ DcNext /\ UNCHANGED <<vars, sgVars, mmVars>>
       \/ part = "gc" /\ SgNext /\ UNCHANGED <<vars, dcVars, mmVars>>
       \/ part = "mount" /\ MmNext /\ UNCHANGED <<vars, dcVars, sgVars>>

\* The refresh ticker of every node keeps firing, and transactions end.
LeaseFairness ==
    /\ \A n \in Node : WF_allVars(part = "lease" /\ RefreshLoop(n) /\ UNCHANGED <<part, dcVars, sgVars, mmVars>>)
    /\ \A o \in Op : WF_allVars(part = "lease" /\ WriteTx(o)
                                 /\ UNCHANGED <<part, cacheVars, loopVars, crashes, dcVars, sgVars, mmVars>>)

\* The upload and maintenance loops keep running, and a crashed daemon is
\* started again.
CacheFairness ==
    /\ WF_allVars(part = "cache" /\ Restart /\ UNCHANGED <<part, vars, sgVars, mmVars>>)
    /\ \A d \in Drain : WF_allVars(part = "cache" /\ DrainRuns(d) /\ UNCHANGED <<part, vars, sgVars, mmVars>>)
    /\ WF_allVars(part = "cache" /\ FlightRuns /\ UNCHANGED <<part, vars, sgVars, mmVars>>)

GcFairness ==
    /\ WF_allVars(part = "gc" /\ DaemonStart /\ UNCHANGED <<part, vars, dcVars, mmVars>>)
    /\ WF_allVars(part = "gc" /\ RunMaintenance /\ UNCHANGED <<part, vars, dcVars, mmVars>>)
    /\ WF_allVars(part = "gc" /\ PassSteps /\ UNCHANGED <<part, vars, dcVars, mmVars>>)
    /\ \A s \in GcSlice : WF_allVars(part = "gc" /\ UploadSlice(s) /\ stg' # stg
                                      /\ UNCHANGED <<part, vars, dcVars, mmVars>>)

\* The grace timer fires and its callback gets the lock; a crashed plugin is
\* started again.
MountFairness ==
    /\ WF_allVars(part = "mount" /\ GraceFires /\ UNCHANGED <<part, vars, dcVars, sgVars>>)
    /\ WF_allVars(part = "mount" /\ GraceTeardown /\ UNCHANGED <<part, vars, dcVars, sgVars>>)
    /\ WF_allVars(part = "mount" /\ Adopt /\ UNCHANGED <<part, vars, dcVars, sgVars>>)

ProgressSpec ==
    AllInit /\ [][AllNext]_allVars /\ LeaseFairness /\ CacheFairness /\ GcFairness /\ MountFairness
=============================================================================
