------------------------------- MODULE MCNode -------------------------------
(***************************************************************************)
(* The services an mlfs node runs beside the data path, each on its own:   *)
(* file locks, leader election, the stale-lock reaper, the change feed,    *)
(* the content hash, the bridge to blobgw, and the scopes of inodes.  They *)
(* share no state; the first state picks the one a behaviour is about.     *)
(***************************************************************************)
EXTENDS Locks, Coord, ContentHash, RefBridge, ScopeMemo, TLC

CONSTANTS k1, k2, k3, e1, e2, r1, r2, f1, f2, c1, c2, NodePart

VARIABLE part

nodeVars == <<part, lkVars, elVars, lrVars, cfVars, chVars, rbVars, spVars>>

\* Two lock owners on one mount, one on another.
MCMountOf == [o \in LkOwner |-> IF o = k3 THEN 2 ELSE 1]

\* A directory under a directory; two operations on one node, one on another.
MCSpParents == [d |-> "root", s |-> "d"]
MCSpAt == [x |-> "m", y |-> "m", z |-> "n"]

\* Objects with a chunk over the edge of an mlfs chunk of four bytes; writes
\* of whole chunks and of one in the middle of another.
MCChunkLen == [a |-> 1, b |-> 2, c |-> 2, d |-> 3]
MCRefObjects == {<<>>, <<"b", "c">>, <<"d", "b">>, <<"a", "d", "b">>, <<"d", "c">>}
MCFileWrites == {[at |-> 0, locs |-> <<"b", "c">>], [at |-> 1, locs |-> <<"c">>],
                 [at |-> 2, locs |-> <<"a">>], [at |-> 4, locs |-> <<"b">>]}

\* The owners on one mount, and the nodes or callers of each other service,
\* can be swapped.
Other == [x \in {k1, k2, e1, e2, r1, r2, f1, f2, c1, c2} |->
            CHOOSE y \in UNION {p \in {{k1, k2}, {e1, e2}, {r1, r2}, {f1, f2}, {c1, c2}} : x \in p} : y # x]
Symmetry == {[x \in DOMAIN Other |-> IF swap THEN Other[x] ELSE x] : swap \in BOOLEAN}

First(p) ==
    /\ part = p
    /\ ElInit /\ LrInit /\ CfInit /\ SpInit
    /\ LkInit /\ (p # "locks" => table = CHOOSE t \in LkTable : TRUE)
    /\ ChInit /\ (p # "hash" => content = <<>>)
    /\ RbInit /\ (p # "bridge" => blobref.locs = <<>>)

NodeInit == \E p \in NodePart : First(p)

NodeNext ==
    /\ UNCHANGED part
    /\ \/ part = "locks" /\ LkNext /\ UNCHANGED <<elVars, lrVars, cfVars, chVars, rbVars, spVars>>
       \/ part = "leader" /\ ElNext /\ UNCHANGED <<lkVars, lrVars, cfVars, chVars, rbVars, spVars>>
       \/ part = "reaper" /\ LrNext /\ UNCHANGED <<lkVars, elVars, cfVars, chVars, rbVars, spVars>>
       \/ part = "feed" /\ CfNext /\ UNCHANGED <<lkVars, elVars, lrVars, chVars, rbVars, spVars>>
       \/ part = "hash" /\ ChNext /\ UNCHANGED <<lkVars, elVars, lrVars, cfVars, rbVars, spVars>>
       \/ part = "bridge" /\ RbNext /\ UNCHANGED <<lkVars, elVars, lrVars, cfVars, chVars, spVars>>
       \/ part = "scope" /\ SpNext /\ UNCHANGED <<lkVars, elVars, lrVars, cfVars, chVars, rbVars>>

NodeSpec == NodeInit /\ [][NodeNext]_nodeVars
=============================================================================
