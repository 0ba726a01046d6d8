------------------------------- MODULE Locks -------------------------------
(***************************************************************************)
(* Advisory file locks on one inode: the flock and plock tables in the      *)
(* metadata database (meta/locks.go) and the blocking SETLKW of the FUSE    *)
(* bridge, which parks on a channel of its own mount.  A call is one        *)
(* transaction at PostgreSQL's default isolation: it reads the other        *)
(* holders and inserts its own row later, locking nothing in between.  An   *)
(* owner has one call in progress at a time.                                *)
(***************************************************************************)
EXTENDS Integers, FiniteSets

CONSTANTS LkOwner,     \* lock owners (a kernel lock owner of some mount)
          MountOf,     \* the mount of each owner
          LkTable,     \* which table a behaviour is about: "flock" or "plock"
          MaxByte,     \* bytes 0..MaxByte; a flock covers them all
          MaxLkCalls   \* bound on lock calls in a behaviour

ASSUME LocksAssumption ==
    LkTable \subseteq {"flock", "plock"} /\ {MaxByte, MaxLkCalls} \subseteq Nat

VARIABLES table,   \* the table of this behaviour
          rows,    \* rows[o]: the lock records of owner o
          lk,      \* lk[o]: the lock call of o in progress
          lkCalls, \* lock calls made
          want,    \* history: the lock o's own calls put on each byte
          blind,   \* history: who committed while o stood between read and insert
          eased    \* history: waiters whose obstacle shrank without a broadcast

lkVars == <<table, rows, lk, lkCalls, want, blind, eased>>

Byte == 0 .. MaxByte
Typ == {"R", "W"}
Rec == [t : Typ, s : Byte, e : Byte]
Quiet == [pc |-> "idle", t |-> "R", s |-> 0, e |-> 0, wait |-> FALSE, woken |-> FALSE]

LkTypeOK ==
  /\ table \in LkTable
  /\ rows \in [LkOwner -> SUBSET Rec]
  /\ \A o \in LkOwner : /\ lk[o].pc \in {"idle", "ready", "trying", "insert", "eagain", "parked", "wake"}
                        /\ lk[o].t \in Typ \cup {"U"}
  /\ lkCalls \in 0 .. MaxLkCalls
  /\ want \in [LkOwner -> [Byte -> Typ \cup {"U"}]]
  /\ blind \in [LkOwner -> SUBSET LkOwner]
  /\ eased \in SUBSET LkOwner

LkInit ==
  /\ table \in LkTable
  /\ rows = [o \in LkOwner |-> {}]
  /\ lk = [o \in LkOwner |-> Quiet]
  /\ lkCalls = 0
  /\ want = [o \in LkOwner |-> [b \in Byte |-> "U"]]
  /\ blind = [o \in LkOwner |-> {}]
  /\ eased = {}

-----------------------------------------------------------------------------
(* Conflicts and record lists *)

Apart(r, s, e) == r.e < s \/ r.s > e

PlockConflict(others, t, s, e) ==
  \E r \in others : ~Apart(r, s, e) /\ (t = "W" \/ r.t = "W")

Others(o) == UNION {rows[p] : p \in LkOwner \ {o}}

(* Trim what the new range overlaps, then add it unless it is an unlock. *)
SplitRange(recs, t, s, e) ==
  {r \in recs : Apart(r, s, e)}
  \cup {[r EXCEPT !.e = s - 1] : r \in {r \in recs : ~Apart(r, s, e) /\ r.s < s}}
  \cup {[r EXCEPT !.s = e + 1] : r \in {r \in recs : ~Apart(r, s, e) /\ r.e > e}}
  \cup (IF t = "U" THEN {} ELSE {[t |-> t, s |-> s, e |-> e]})

Conflict(o) == PlockConflict(Others(o), lk[o].t, lk[o].s, lk[o].e)

Put(o) ==
  /\ rows' = [rows EXCEPT ![o] = SplitRange(@, lk[o].t, lk[o].s, lk[o].e)]
  /\ want' = [want EXCEPT ![o] = [b \in Byte |-> IF b \in lk[o].s .. lk[o].e THEN lk[o].t ELSE @[b]]]

Waiting == {p \in LkOwner : lk[p].wait /\ lk[p].pc \in {"trying", "eagain", "parked"}}
Elsewhere(o) == {p \in LkOwner : MountOf[p] # MountOf[o]}

-----------------------------------------------------------------------------
(* One lock call *)

SetLk(o) ==
  /\ lk[o].pc = "idle" /\ lkCalls < MaxLkCalls
  /\ \E t \in Typ \cup {"U"}, s \in Byte, e \in Byte, w \in BOOLEAN :
       /\ s <= e /\ (table = "flock" => s = 0 /\ e = MaxByte) /\ (t = "U" => ~w)
       /\ lk' = [lk EXCEPT ![o] = [pc |-> "ready", t |-> t, s |-> s, e |-> e, wait |-> w, woken |-> FALSE]]
  /\ lkCalls' = lkCalls + 1
  /\ UNCHANGED <<table, rows, want, blind, eased>>

(* SetLkw takes the wait channel before each attempt. *)
LockWaitCh(o) ==
  /\ lk[o].pc = "ready"
  /\ lk' = [lk EXCEPT ![o].pc = "trying", ![o].woken = FALSE]
  /\ eased' = eased \ {o}
  /\ UNCHANGED <<table, rows, lkCalls, want, blind>>

(* An unlock commits in one statement; a lock request reads the other holders. *)
Unlock(o) ==
  /\ lk[o].pc = "trying" /\ lk[o].t = "U"
  /\ Put(o)
  /\ lk' = [lk EXCEPT ![o].pc = "wake"]
  /\ eased' = eased \cup (Waiting \cap Elsewhere(o))
  /\ UNCHANGED <<table, lkCalls, blind>>

LockGranted(o) ==
  /\ lk[o].pc = "trying" /\ lk[o].t # "U" /\ ~Conflict(o)
  /\ lk' = [lk EXCEPT ![o].pc = "insert"]
  /\ UNCHANGED <<table, rows, lkCalls, want, blind, eased>>

(* EAGAIN: a blocking call goes on to wait, another returns. *)
Refused(o) ==
  /\ lk[o].pc = "trying" /\ lk[o].t # "U" /\ Conflict(o)
  /\ lk' = [lk EXCEPT ![o] = IF @.wait THEN [@ EXCEPT !.pc = "eagain"] ELSE Quiet]
  /\ UNCHANGED <<table, rows, lkCalls, want, blind, eased>>

Park_LateCh(o) ==
  /\ lk[o].pc = "eagain"
  /\ lk' = [lk EXCEPT ![o].pc = "parked", ![o].woken = FALSE]
  /\ UNCHANGED <<table, rows, lkCalls, want, blind, eased>>

(* It waits on the channel it took before the attempt, closed by now or not. *)
Park(o) ==
  /\ lk[o].pc = "eagain"
  /\ lk' = [lk EXCEPT ![o].pc = "parked"]
  /\ UNCHANGED <<table, rows, lkCalls, want, blind, eased>>

(* The row is written.  A downgrade frees readers and wakes nobody. *)
Insert(o) ==
  /\ lk[o].pc = "insert"
  /\ Put(o)
  /\ lk' = [lk EXCEPT ![o] = Quiet]
  /\ blind' = [p \in LkOwner |-> IF p # o /\ lk[p].pc = "insert" THEN blind[p] \cup {o} ELSE blind[p]]
  /\ eased' = IF \E b \in Byte : want[o][b] = "W" /\ want'[o][b] # "W" THEN eased \cup Waiting ELSE eased
  /\ UNCHANGED <<table, lkCalls>>

(* Closing a descriptor: Flush drops the record locks, Release the flock, and
   both broadcast whether or not there was a lock. *)
CloseFd(o) ==
  /\ lk[o].pc = "idle"
  /\ rows' = [rows EXCEPT ![o] = {}]
  /\ want' = [want EXCEPT ![o] = [b \in Byte |-> "U"]]
  /\ lk' = [lk EXCEPT ![o] = [Quiet EXCEPT !.pc = "wake"]]
  /\ eased' = IF rows[o] = {} THEN eased ELSE eased \cup (Waiting \cap Elsewhere(o))
  /\ UNCHANGED <<table, lkCalls, blind>>

(* The broadcast closes the channel of this mount only. *)
WakeLockWaiters(o) ==
  /\ lk[o].pc = "wake"
  /\ lk' = [p \in LkOwner |-> IF p = o THEN Quiet
                              ELSE IF p \in Waiting \ Elsewhere(o) THEN [lk[p] EXCEPT !.woken = TRUE]
                              ELSE lk[p]]
  /\ UNCHANGED <<table, rows, lkCalls, want, blind, eased>>

Retry(o) ==
  /\ lk[o].pc = "parked" /\ lk[o].woken
  /\ lk' = [lk EXCEPT ![o].pc = "ready"]
  /\ UNCHANGED <<table, rows, lkCalls, want, blind, eased>>

Interrupted(o) ==
  /\ lk[o].pc = "parked"
  /\ lk' = [lk EXCEPT ![o] = Quiet]
  /\ eased' = eased \ {o}
  /\ UNCHANGED <<table, rows, lkCalls, want, blind>>

LkNext ==
  \E o \in LkOwner :
    \/ SetLk(o) \/ LockWaitCh(o) \/ Unlock(o) \/ LockGranted(o) \/ Refused(o) \/ Park(o)
    \/ Insert(o) \/ CloseFd(o) \/ WakeLockWaiters(o) \/ Retry(o) \/ Interrupted(o)

LkSpec == LkInit /\ [][LkNext]_lkVars

-----------------------------------------------------------------------------
(* Properties *)

TypesAt(o, b) == {r.t : r \in {r \in rows[o] : r.s <= b /\ b <= r.e}}

\* The records of an owner give each byte exactly the lock its own calls last
\* put there, through every sequence of overlapping locks and partial unlocks
\* (splitRange).
RecordsExact ==
  \A o \in LkOwner, b \in Byte :
    TypesAt(o, b) = IF want[o][b] = "U" THEN {} ELSE {want[o][b]}

Clash(o, p) == \E b \in Byte : "W" \in TypesAt(o, b) /\ TypesAt(p, b) # {}

\* Two owners hold conflicting locks only if one committed while the other
\* stood between reading the holders and inserting its row: whoever reads after
\* the other's commit is refused (Flock, Setlk).
ClashOnlyRaced ==
  \A o, p \in LkOwner : o # p /\ Clash(o, p) => p \in blind[o] \/ o \in blind[p]

\* No two owners hold conflicting locks: what "EAGAIN if a conflicting holder
\* exists" promises of Flock and "EAGAIN if another owner holds a conflicting
\* range" of Setlk.
\* Refuted (no run checks it): two transactions read the holders before either
\* inserts its row.
LocksExclude == \A o, p \in LkOwner : o # p => ~Clash(o, p)

\* A parked SETLKW that has not been woken is still blocked by a holder, or a
\* release of its mount is about to broadcast, or its obstacle shrank where this
\* mount does not broadcast (another mount's release, a downgrade): the channel
\* is taken before the attempt, so no local release is missed.
NoLostWakeup ==
  \A o \in LkOwner :
    lk[o].pc = "parked" /\ ~lk[o].woken
      => \/ Conflict(o) \/ o \in eased
         \/ \E p \in LkOwner : MountOf[p] = MountOf[o] /\ lk[p].pc = "wake"

\* Advisory locks: the stored records are what the calls asked for, conflicts
\* come only from the read-then-insert race, and no waiter is forgotten.
LocksSound == LkTypeOK /\ RecordsExact /\ ClashOnlyRaced /\ NoLostWakeup

=============================================================================
