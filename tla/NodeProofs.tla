----------------------------- MODULE NodeProofs -----------------------------
(***************************************************************************)
(* Proofs about the services an mlfs node runs beside the data path, for   *)
(* every number of nodes, sessions, changes and owners: the election, the  *)
(* stale-lock reaper, the change feed and advisory locks.                  *)
(***************************************************************************)
EXTENDS Coord, Locks, FiniteSetTheorems, WellFoundedInduction, TLAPS

\* Most steps are first-order; those about numbers or data cite SMT.
USE Zenon

----------------------------------------------------------------------------
(* The election.  A revision names one write of the key, and whoever is     *)
(* sure of the leadership made the write that is still there.               *)

LeaderEntry == [node : ElNode \cup {"none"}, rev : Nat, age : 0 .. Ttl]

ElInv ==
    /\ ElTypeOK
    /\ key \in LeaderEntry /\ camp \in [ElNode -> [pc : {"idle", "got"}, seen : LeaderEntry]]
    /\ \A n \in ElNode : /\ camp[n].seen.rev <= rev
                         /\ ~Gone(camp[n].seen) /\ camp[n].seen.rev = key.rev /\ ~Gone(key)
                              => camp[n].seen.node = key.node
    /\ ~snatched => \A n \in Sure : key.node = n /\ key.age = won[n]

\* An absent leader key reads as an expired entry of revision 0.
LEMMA EntryTyped == NoLeader \in LeaderEntry /\ NoLeader.rev = 0 /\ Gone(NoLeader)
  BY SMT, ElectionAssumption DEF NoLeader, LeaderEntry, Gone

\* Before the first campaign nobody leads and the key is absent.
LEMMA ElInitInv == ElInit => ElInv
<1> SUFFICES ASSUME ElInit
             PROVE  ElInv
  OBVIOUS
<1>1. key = NoLeader /\ rev = 0 /\ key.age = Ttl /\ key.rev = 0
  BY DEF ElInit, NoLeader
<1>2. \A n \in ElNode : camp[n] = AtRest /\ ~isLeader[n]
  BY DEF ElInit
<1>3. AtRest \in [pc : {"idle", "got"}, seen : LeaderEntry] /\ AtRest.pc = "idle" /\ AtRest.seen = NoLeader
  BY EntryTyped DEF AtRest
<1>4. ElTypeOK
  <2>1. key.rev \in 0 .. rev /\ rev \in 0 .. MaxRev /\ Ttl \in 0 .. Ttl
    BY SMT, <1>1, ElectionAssumption
  <2>2. isLeader \in [ElNode -> BOOLEAN] /\ snatched \in BOOLEAN
    BY DEF ElInit
  <2> QED
    BY <1>1, <1>2, <1>3, <2>1, <2>2 DEF ElInit, ElTypeOK
<1> QED
  BY SMT, <1>1, <1>2, <1>3, <1>4, EntryTyped DEF ElInit, ElInv, Sure

\* Whoever is sure of the leadership is named by the key, so at most one node is.
LEMMA OneSure == ElInv => OneFreshLeader
<1> SUFFICES ASSUME ElInv, ~snatched
             PROVE  ~(Cardinality(Sure) > 1)
  BY DEF OneFreshLeader
<1>1. Sure = {} \/ Sure = {key.node}
  BY DEF ElInv
<1>2. Cardinality(Sure) = 0 \/ Cardinality(Sure) = 1
  BY <1>1, FS_EmptySet, FS_Singleton
<1> QED
  BY SMT, <1>2

\* A won campaign (Create, or Update at the revision read) keeps ElInv: nobody else
\* was sure of the leadership.
LEMMA WinsInv == ASSUME ElInv, NEW n \in ElNode, CampaignWins(n) PROVE ElInv'
<1> DEFINE k == [node |-> n, rev |-> rev + 1, age |-> 0]
<1>1. /\ rev' = rev + 1 /\ rev < MaxRev /\ rev \in Nat /\ key' = k /\ Wins(n)
      /\ isLeader' = [isLeader EXCEPT ![n] = TRUE] /\ won' = [won EXCEPT ![n] = 0]
      /\ camp' = [camp EXCEPT ![n] = AtRest] /\ snatched' = snatched /\ camp[n].pc = "got"
  BY SMT, ElectionAssumption DEF CampaignWins, ElInv, ElTypeOK
<1>2. k \in LeaderEntry /\ k.node = n /\ k.rev = rev + 1 /\ k.age = 0
  BY SMT, <1>1, ElectionAssumption DEF LeaderEntry
<1>3. AtRest \in [pc : {"idle", "got"}, seen : LeaderEntry] /\ AtRest.pc = "idle" /\ AtRest.seen = NoLeader
  BY EntryTyped DEF AtRest
<1> HIDE DEF k
<1>4. /\ camp' \in [ElNode -> [pc : {"idle", "got"}, seen : LeaderEntry]]
      /\ camp'[n] = AtRest /\ \A m \in ElNode : m # n => camp'[m] = camp[m]
  BY <1>1, <1>3 DEF ElInv
<1>5. ElTypeOK'
  BY SMT, <1>1, <1>2, <1>4, ElectionAssumption DEF ElInv, ElTypeOK, LeaderEntry
<1>6. ASSUME NEW m \in ElNode
      PROVE  camp'[m].seen.rev <= rev /\ camp'[m].seen.rev # key'.rev /\ camp'[m].seen.rev \in Nat
  <2>1. camp'[m].seen = camp[m].seen \/ camp'[m].seen = NoLeader
    BY <1>3, <1>4
  <2>2. camp[m].seen.rev <= rev /\ camp'[m].seen \in LeaderEntry
    BY <1>4 DEF ElInv
  <2> QED
    BY SMT, <1>1, <1>2, <2>1, <2>2, EntryTyped DEF LeaderEntry
<1>7. ~snatched => Sure \subseteq {n}
  <2>1. CASE Gone(key)
    BY SMT, <2>1, ElectionAssumption DEF ElInv, ElTypeOK, Gone, Sure
  <2>2. CASE ~Gone(key)
    <3>1. key.node = n
      BY <1>1, <2>2 DEF Wins, ElInv
    <3> QED
      BY <3>1 DEF ElInv
  <2> QED
    BY <2>1, <2>2
<1>8. Sure' \subseteq Sure \cup {n}
  BY <1>1 DEF Sure, ElInv, ElTypeOK
<1>9. ~snatched' => \A m \in Sure' : key'.node = m /\ key'.age = won'[m]
  BY <1>1, <1>2, <1>7, <1>8 DEF ElInv, ElTypeOK
<1> QED
  BY SMT, <1>1, <1>2, <1>4, <1>5, <1>6, <1>9 DEF ElInv

\* Reading the key keeps ElInv.
LEMMA GetInv == ASSUME ElInv, NEW n \in ElNode, CampaignGet(n) PROVE ElInv'
<1> DEFINE k == IF Gone(key) THEN NoLeader ELSE key
           c == [pc |-> "got", seen |-> k]
<1>1. /\ camp' = [camp EXCEPT ![n] = c]
      /\ UNCHANGED <<key, rev, isLeader, won, snatched>> /\ key.rev \in 0 .. rev
  BY DEF CampaignGet, ElInv, ElTypeOK
<1>2. k \in LeaderEntry /\ (~Gone(k) => k = key) /\ k.rev <= rev
  BY SMT, <1>1, EntryTyped, ElectionAssumption DEF ElInv, ElTypeOK
<1>3. c \in [pc : {"idle", "got"}, seen : LeaderEntry] /\ c.pc = "got" /\ c.seen = k
  BY <1>2
<1> HIDE DEF k, c
<1>4. camp' \in [ElNode -> [pc : {"idle", "got"}, seen : LeaderEntry]]
  BY <1>1, <1>3 DEF ElInv
<1>5. ElTypeOK'
  BY <1>1, <1>4 DEF ElInv, ElTypeOK
<1>6. Sure' = Sure
  BY <1>1 DEF Sure
<1> QED
  BY <1>1, <1>2, <1>3, <1>4, <1>5, <1>6 DEF ElInv, Gone

(* A node that stands down, stops or crashes: its flag falls, its campaign is
   forgotten, and the key is as it was or gone. *)
LEMMA DownInv ==
    ASSUME ElInv, NEW n \in ElNode, StandDown(n) \/ RunEnds(n) \/ ElCrash(n) PROVE ElInv'
<1>1. /\ isLeader' = [isLeader EXCEPT ![n] = FALSE] /\ camp' = [camp EXCEPT ![n] = AtRest]
      /\ UNCHANGED <<rev, won>>
  BY DEF StandDown, RunEnds, ElCrash
<1>2. /\ key' = key \/ (key' = NoLeader /\ isLeader[n])
      /\ ~snatched' => ~snatched /\ (key' = key \/ Gone(key) \/ key.node = n)
      /\ snatched' \in BOOLEAN
  <2>1. CASE StandDown(n) \/ ElCrash(n)
    BY <2>1 DEF StandDown, ElCrash, ElInv, ElTypeOK
  <2>2. CASE RunEnds(n)
    <3> DEFINE b == snatched \/ (isLeader[n] /\ ~Gone(key) /\ key.node # n)
    <3>1. snatched' = b /\ b \in BOOLEAN
      BY <2>2 DEF RunEnds
    <3>2. ~b => ~snatched /\ (~isLeader[n] \/ Gone(key) \/ key.node = n)
      OBVIOUS
    <3> HIDE DEF b
    <3>3. key' = IF isLeader[n] THEN NoLeader ELSE key
      BY <2>2 DEF RunEnds
    <3> QED
      BY <3>1, <3>2, <3>3
  <2> QED
    BY <2>1, <2>2
<1>3. AtRest \in [pc : {"idle", "got"}, seen : LeaderEntry] /\ AtRest.pc = "idle" /\ AtRest.seen = NoLeader
  BY EntryTyped DEF AtRest
<1>4. /\ camp' \in [ElNode -> [pc : {"idle", "got"}, seen : LeaderEntry]]
      /\ camp'[n] = AtRest /\ \A m \in ElNode : m # n => camp'[m] = camp[m]
  BY <1>1, <1>3 DEF ElInv
<1>5. key' \in LeaderEntry /\ key'.rev \in 0 .. rev
  BY SMT, <1>2, EntryTyped DEF ElInv, ElTypeOK
<1>6. ElTypeOK'
  BY <1>1, <1>2, <1>4, <1>5 DEF ElInv, ElTypeOK, LeaderEntry
<1>7. Sure' = Sure \ {n}
  BY <1>1 DEF Sure, ElInv, ElTypeOK
<1>8. ~snatched' => \A m \in Sure' : key'.node = m /\ key'.age = won'[m]
  <2> SUFFICES ASSUME ~snatched', NEW m \in Sure'
               PROVE  key'.node = m /\ key'.age = won'[m]
    OBVIOUS
  <2>1. m # n /\ m \in Sure /\ key.node = m /\ key.age = won[m] /\ ~Gone(key)
    BY SMT, <1>2, <1>7 DEF ElInv, ElTypeOK, Sure, Gone
  <2>2. key' = key
    BY <1>2, <2>1
  <2> QED
    BY <1>1, <2>1, <2>2
<1> QED
  BY SMT, <1>1, <1>2, <1>3, <1>4, <1>5, <1>6, <1>8, EntryTyped, ElectionAssumption DEF ElInv, ElTypeOK

\* The key and the leader's own clock age together.
LEMMA ElTickInv == ASSUME ElInv, ElTick PROVE ElInv'
<1>1. /\ key' = [key EXCEPT !.age = Older(@)] /\ won' = [n \in ElNode |-> Older(won[n])]
      /\ UNCHANGED <<rev, camp, isLeader, snatched>>
  BY DEF ElTick
<1>2. \A a \in 0 .. Ttl : Older(a) \in 0 .. Ttl /\ (Older(a) < Ttl => a < Ttl)
  BY SMT, ElectionAssumption DEF Older
<1>3. /\ key' \in LeaderEntry /\ key'.rev = key.rev /\ key'.node = key.node
      /\ key'.age = Older(key.age) /\ key.age \in 0 .. Ttl
  BY <1>1, <1>2 DEF ElInv, LeaderEntry
<1>4. won' \in [ElNode -> 0 .. Ttl] /\ Sure' \subseteq Sure
  BY <1>1, <1>2 DEF ElInv, ElTypeOK, Sure
<1>5. ElTypeOK'
  BY <1>1, <1>2, <1>3, <1>4 DEF ElInv, ElTypeOK
<1>6. ~Gone(key)' => ~Gone(key)
  BY SMT, <1>3, ElectionAssumption DEF Gone, Older
<1>7. \A n \in Sure' : n \in ElNode
  BY DEF Sure
<1> QED
  BY <1>1, <1>3, <1>4, <1>5, <1>6, <1>7 DEF ElInv, Gone

\* For every set of nodes and every lease, at most one node believes in a
\* leadership it claimed or renewed within the lease unless a departing leader
\* deleted its successor's key (campaign, Run).
THEOREM LeaderStaysSound == ElSpec => []LeaderSound
<1>1. ElInv /\ [ElNext]_elVars => ElInv'
  <2> SUFFICES ASSUME ElInv, [ElNext]_elVars
               PROVE  ElInv'
    OBVIOUS
  <2>1. CASE ElTick
    BY <2>1, ElTickInv
  <2>2. ASSUME NEW n \in ElNode,
               CampaignGet(n) \/ CampaignWins(n) \/ StandDown(n) \/ RunEnds(n) \/ ElCrash(n)
        PROVE  ElInv'
    BY <2>2, GetInv, WinsInv, DownInv
  <2>3. CASE UNCHANGED elVars
    BY <2>3 DEF elVars, ElInv, ElTypeOK, Sure, Gone
  <2> QED
    BY <2>1, <2>2, <2>3 DEF ElNext
<1>2. ElInv => LeaderSound
  BY OneSure DEF LeaderSound, ElInv
<1> QED
  BY ElInitInv, <1>1, <1>2, PTL DEF ElSpec

----------------------------------------------------------------------------
(* The reaper.  What was announced when a pass read the registry, and still  *)
(* is, is in its live set and so never among what it clears.                 *)

LrInv ==
    /\ LrTypeOK /\ SteadyKeepLocks
    /\ \A n \in serving : sid[n] \in Sid
    /\ \A n \in LrNode : /\ reap[n].pc = "live" => steady[n] \subseteq reap[n].live
                         /\ reap[n].pc = "clear" => reap[n].todo \cap steady[n] = {}

Pass == [pc : {"idle", "live", "clear"}, live : SUBSET (0 .. MaxSession), todo : SUBSET Sid]

\* A reaper between passes.
LEMMA NoPassTyped == NoPass \in Pass /\ NoPass.pc = "idle"
  BY DEF NoPass, Pass

\* Before the first node serves there is nothing to lose.
LEMMA LrInitInv == LrInit => LrInv
<1> SUFFICES ASSUME LrInit
             PROVE  LrInv
  OBVIOUS
<1>1. 0 \in 0 .. MaxSession /\ [sid |-> 0, age |-> LrTtl] \in [sid : 0 .. MaxSession, age : 0 .. LrTtl]
  BY SMT, ReaperAssumption
<1>2. reap \in [LrNode -> Pass] /\ \A n \in LrNode : reap[n].pc = "idle"
  BY NoPassTyped DEF LrInit
<1> QED
  BY <1>1, <1>2 DEF LrInit, LrInv, LrTypeOK, Pass, SteadyKeepLocks

(* What every step needs of a new pass r of node n. *)
LEMMA PassSet ==
    ASSUME LrInv, NEW n \in LrNode, NEW r \in Pass, reap' = [reap EXCEPT ![n] = r]
    PROVE  /\ reap' \in [LrNode -> Pass] /\ reap'[n] = r
           /\ \A m \in LrNode : m # n => reap'[m] = reap[m]
  BY DEF LrInv, LrTypeOK, Pass

\* A pass reads every announced session as live.
LEMMA LiveInv == ASSUME LrInv, NEW n \in LrNode, ReapLive(n) PROVE LrInv'
<1> DEFINE r == [pc |-> "live", live |-> LiveSIDs(n), todo |-> {}]
<1>1. /\ reap' = [reap EXCEPT ![n] = r] /\ steady' = [steady EXCEPT ![n] = Announced]
      /\ UNCHANGED <<serving, sid, sessions, beat, lockSids, lost>>
  BY DEF ReapLive
<1>2. LiveSIDs(n) \in SUBSET (0 .. MaxSession)
  BY SMT DEF LiveSIDs, LrInv, LrTypeOK
<1>3. Announced \in SUBSET Sid /\ Announced \subseteq LiveSIDs(n)
  BY SMT DEF Announced, LiveSIDs, LrInv, LrTypeOK
<1>4. r \in Pass /\ r.pc = "live" /\ r.live = LiveSIDs(n)
  BY <1>2 DEF Pass
<1> HIDE DEF r
<1>5. /\ reap' \in [LrNode -> Pass] /\ reap'[n] = r
      /\ \A m \in LrNode : m # n => reap'[m] = reap[m]
  BY <1>1, <1>4, PassSet
<1>6. /\ steady' \in [LrNode -> SUBSET Sid] /\ steady'[n] = Announced
      /\ \A m \in LrNode : m # n => steady'[m] = steady[m]
  BY <1>1, <1>3 DEF LrInv, LrTypeOK
<1> QED
  BY SMT, <1>1, <1>3, <1>4, <1>5, <1>6 DEF LrInv, LrTypeOK, SteadyKeepLocks, Pass

\* What a pass will clear was not live when it read the registry.
LEMMA ListInv == ASSUME LrInv, NEW n \in LrNode, ListLockSIDs(n) PROVE LrInv'
<1> DEFINE r == [pc |-> "clear", live |-> {}, todo |-> lockSids \ reap[n].live]
<1>1. /\ reap' = [reap EXCEPT ![n] = r] /\ reap[n].pc = "live"
      /\ UNCHANGED <<serving, sid, sessions, beat, lockSids, steady, lost>>
  BY DEF ListLockSIDs, LrInv, LrTypeOK
<1>2. r \in Pass /\ r.pc = "clear" /\ r.todo = lockSids \ reap[n].live
  BY DEF Pass, LrInv, LrTypeOK
<1> HIDE DEF r
<1>3. /\ reap' \in [LrNode -> Pass] /\ reap'[n] = r
      /\ \A m \in LrNode : m # n => reap'[m] = reap[m]
  BY <1>1, <1>2, PassSet
<1>4. r.todo \cap steady[n] = {}
  BY <1>1, <1>2 DEF LrInv
<1> QED
  BY <1>1, <1>2, <1>3, <1>4 DEF LrInv, LrTypeOK, SteadyKeepLocks, Pass

\* Clearing a session's rows never hits one that stayed announced.
LEMMA ClearInv == ASSUME LrInv, NEW n \in LrNode, ClearLocksForSID(n) PROVE LrInv'
<1>1. PICK s \in reap[n].todo :
        /\ lockSids' = lockSids \ {s} /\ lost' = lost \cup ({s} \cap lockSids \cap steady[n])
        /\ reap' = [reap EXCEPT ![n].todo = @ \ {s}]
  BY DEF ClearLocksForSID
<1>2. reap[n].pc = "clear" /\ UNCHANGED <<serving, sid, sessions, beat, steady>>
  BY DEF ClearLocksForSID
<1>3. /\ reap' \in [LrNode -> Pass]
      /\ \A m \in LrNode : /\ reap'[m].pc = reap[m].pc /\ reap'[m].live = reap[m].live
                           /\ reap'[m].todo \subseteq reap[m].todo
  BY <1>1 DEF LrInv, LrTypeOK, Pass
<1>4. lost' = {}
  BY <1>1, <1>2 DEF LrInv, SteadyKeepLocks
<1> QED
  BY <1>1, <1>2, <1>3, <1>4 DEF LrInv, LrTypeOK, SteadyKeepLocks, Pass

\* A stopped node, or a pass that ends, forgets its pass.
LEMMA LrEndsInv == ASSUME LrInv, NEW n \in LrNode, Stop(n) \/ ReapEnds(n) PROVE LrInv'
<1>1. /\ reap' = [reap EXCEPT ![n] = NoPass] /\ UNCHANGED <<sid, sessions, lockSids, lost>>
      /\ serving' \subseteq serving
  BY DEF Stop, ReapEnds
<1>2. steady' \in [LrNode -> SUBSET Sid] /\ \A m \in LrNode : steady'[m] \subseteq steady[m]
  BY SMT DEF Stop, ReapEnds, LrInv, LrTypeOK
<1>3. beat' \in [LrNode -> [sid : 0 .. MaxSession, age : 0 .. LrTtl]]
  BY SMT, ReaperAssumption DEF Stop, ReapEnds, LrInv, LrTypeOK
<1>4. /\ reap' \in [LrNode -> Pass] /\ reap'[n] = NoPass
      /\ \A m \in LrNode : m # n => reap'[m] = reap[m]
  BY <1>1, NoPassTyped, PassSet
<1> QED
  BY <1>1, <1>2, <1>3, <1>4, NoPassTyped DEF LrInv, LrTypeOK, SteadyKeepLocks, Pass

\* Starting, heartbeats and taking locks disturb no pass.
LEMMA LrServeInv == ASSUME LrInv, NEW n \in LrNode, Start(n) \/ Heartbeat(n) \/ TakeLock(n) PROVE LrInv'
<1>1. CASE Start(n)
  <2>1. sessions + 1 \in Sid /\ sessions' = sessions + 1
    BY SMT, <1>1, ReaperAssumption DEF Start, LrInv, LrTypeOK, Sid
  <2>2. sid' = [sid EXCEPT ![n] = sessions + 1] /\ sid' \in [LrNode -> 0 .. MaxSession] /\ sessions' \in 0 .. MaxSession
    BY SMT, <1>1, <2>1, ReaperAssumption DEF Start, LrInv, LrTypeOK, Sid
  <2> QED
    BY <1>1, <2>1, <2>2 DEF Start, LrInv, LrTypeOK, SteadyKeepLocks
<1>2. CASE Heartbeat(n)
  <2>1. beat' \in [LrNode -> [sid : 0 .. MaxSession, age : 0 .. LrTtl]]
    BY SMT, <1>2, ReaperAssumption DEF Heartbeat, LrInv, LrTypeOK
  <2> QED
    BY <1>2, <2>1 DEF Heartbeat, LrInv, LrTypeOK, SteadyKeepLocks
<1>3. CASE TakeLock(n)
  BY <1>3 DEF TakeLock, LrInv, LrTypeOK, SteadyKeepLocks
<1> QED
  BY <1>1, <1>2, <1>3

\* Expiring registry entries only shrink what counts as announced.
LEMMA LrTickInv == ASSUME LrInv, LrTick PROVE LrInv'
<1>1. beat' \in [LrNode -> [sid : 0 .. MaxSession, age : 0 .. LrTtl]]
  <2>1. \A a \in 0 .. LrTtl : (IF a < LrTtl THEN a + 1 ELSE a) \in 0 .. LrTtl
    BY SMT, ReaperAssumption
  <2>2. \A n \in LrNode : beat[n].age \in 0 .. LrTtl /\ beat[n].sid \in 0 .. MaxSession
    BY DEF LrInv, LrTypeOK
  <2>3. beat \in [LrNode -> [sid : 0 .. MaxSession, age : 0 .. LrTtl]]
    BY DEF LrInv, LrTypeOK
  <2> QED
    BY SMT, <2>1, <2>2, <2>3 DEF LrTick
<1>2. UNCHANGED <<serving, sid, sessions, lockSids, reap, lost>>
  BY DEF LrTick
<1>3. steady' \in [LrNode -> SUBSET Sid] /\ \A m \in LrNode : steady'[m] \subseteq steady[m]
  BY DEF LrTick, LrInv, LrTypeOK
<1> QED
  BY <1>1, <1>2, <1>3 DEF LrInv, LrTypeOK, SteadyKeepLocks

\* Every step of the nodes keeps LrInv.
LEMMA LrNextInv == LrInv /\ [LrNext]_lrVars => LrInv'
<1> SUFFICES ASSUME LrInv, [LrNext]_lrVars
             PROVE  LrInv'
  OBVIOUS
<1>1. CASE LrTick
  BY <1>1, LrTickInv
<1>2. ASSUME NEW n \in LrNode,
             \/ Start(n) \/ Heartbeat(n) \/ TakeLock(n) \/ Stop(n)
             \/ ReapLive(n) \/ ListLockSIDs(n) \/ ClearLocksForSID(n) \/ ReapEnds(n)
      PROVE  LrInv'
  BY <1>2, LrServeInv, LrEndsInv, LiveInv, ListInv, ClearInv
<1>3. CASE UNCHANGED lrVars
  BY <1>3 DEF lrVars, LrInv, LrTypeOK, SteadyKeepLocks
<1> QED
  BY <1>1, <1>2, <1>3 DEF LrNext

----------------------------------------------------------------------------
(* The change feed.  A publisher's cursor moves only to a visible number,   *)
(* and what was broadcast had committed.                                    *)

\* A nonempty set of naturals has a least element.
LEMMA Least ==
    ASSUME NEW T, T \subseteq Nat, T # {}
    PROVE  \E x \in T : \A y \in T : x <= y
<1> DEFINE R == {ss \in Nat \X Nat : ss[1] < ss[2]}
<1>1. IsWellFoundedOn(R, Nat)
  BY NatLessThanWellFounded DEF OpToRel
<1>2. \A x, y \in Nat : <<y, x>> \notin R => x <= y
  BY SMT
<1> HIDE DEF R
<1>3. PICK x \in T : \A y \in T : ~(<<y, x>> \in R)
  BY WFMin, <1>1
<1>4. \A y \in T : x <= y
  BY <1>2, <1>3
<1> QED
  BY <1>4

(* A set of numbers with a bound has a maximum, counted down from the bound. *)
LEMMA MaxIn ==
    ASSUME NEW N \in Nat, NEW S, S \subseteq 0 .. N, S # {}
    PROVE  Max(S) \in S
<1> DEFINE T == {N - y : y \in S}
<1>1. T \subseteq Nat
  BY SMT
<1>2. T # {}
  <2>1. PICK y \in S : TRUE
    OBVIOUS
  <2>2. N - y \in T
    BY <2>1
  <2> QED
    BY <2>2
<1> HIDE DEF T
<1>3. PICK x \in T : \A t \in T : x <= t
  BY <1>1, <1>2, Least
<1>4. PICK z \in S : x = N - z
  BY <1>3 DEF T
<1>5. \A y \in S : N - y \in T
  BY DEF T
<1>6. \A y \in S : N - z <= N - y
  BY <1>3, <1>4, <1>5
<1>7. \A y \in S : z >= y
  BY SMT, <1>4, <1>6
<1> QED
  BY <1>7 DEF Max

CfInv ==
    /\ CfTypeOK /\ InOrderSent /\ NamesInvalidated
    /\ \A l \in Lsn : /\ l > lsn => row[l] = "none"
                      /\ row[l] \notin {"committed", "trimmed"} => cached[l] = {} /\ l \notin sent
                      /\ cached[l] \subseteq Touches(op[l])

\* ApplyChange notifies every name and directory a change touches.
LEMMA NamesNotified ==
    \A o \in ChangeOp : /\ Touches(o) \subseteq {"name", "dir", "inode", "target"}
                        /\ Touches(o) \cap {"name", "dir"} \subseteq Notified(o)
  BY DEF ChangeOp, Touches, Notified

\* The highest of some visible rows is a row number.
LEMMA VisibleBounded ==
    ASSUME CfInv, NEW S, S \subseteq Visible, S # {}
    PROVE  Max(S) \in Lsn
<1>1. S \subseteq 0 .. MaxLsn /\ S \subseteq Lsn
  BY SMT, FeedAssumption DEF Visible, Lsn
<1>2. Max(S) \in S
  BY <1>1, MaxIn, FeedAssumption
<1> QED
  BY <1>1, <1>2

\* An empty changelog satisfies CfInv.
LEMMA CfInitInv == CfInit => CfInv
<1> SUFFICES ASSUME CfInit
             PROVE  CfInv
  OBVIOUS
<1>1. CfTypeOK
  BY SMT, FeedAssumption DEF CfInit, CfTypeOK, ChangeOp
<1> QED
  BY <1>1 DEF CfInit, CfInv, InOrderSent, NamesInvalidated, Visible

\* A new row is open, unsent and makes nothing stale yet.
LEMMA AppendInv == ASSUME CfInv, AppendChangelog PROVE CfInv'
<1>1. PICK o \in ChangeOp : op' = [op EXCEPT ![lsn + 1] = o]
  BY DEF AppendChangelog
<1>2. /\ lsn' = lsn + 1 /\ lsn + 1 \in Lsn /\ lsn' \in 0 .. MaxLsn /\ lsn \in Nat
      /\ row' = [row EXCEPT ![lsn + 1] = "open"]
      /\ UNCHANGED <<leading, running, cursor, begun, sent, passed, cached>>
  BY SMT, FeedAssumption DEF AppendChangelog, CfInv, CfTypeOK, Lsn
<1>3. row[lsn + 1] = "none" /\ cached[lsn + 1] = {} /\ lsn + 1 \notin sent
  BY SMT, <1>2 DEF CfInv
<1>4. CfTypeOK'
  BY <1>1, <1>2 DEF CfInv, CfTypeOK
<1>5. Visible' = Visible
  BY <1>2, <1>3 DEF Visible, CfInv, CfTypeOK
<1>6. InOrderSent' /\ NamesInvalidated'
  BY <1>2, <1>5 DEF CfInv, InOrderSent, NamesInvalidated
<1>7. ASSUME NEW l \in Lsn
      PROVE  /\ l > lsn' => row'[l] = "none"
             /\ row'[l] \notin {"committed", "trimmed"} => cached'[l] = {} /\ l \notin sent'
             /\ cached'[l] \subseteq Touches(op'[l])
  <2>1. CASE l = lsn + 1
    BY SMT, <1>2, <1>3, <2>1 DEF CfInv, CfTypeOK
  <2>2. CASE l # lsn + 1
    <3>1. row'[l] = row[l] /\ op'[l] = op[l] /\ (l > lsn' => l > lsn)
      BY SMT, <1>1, <1>2, <2>2 DEF CfInv, CfTypeOK, Lsn
    <3> QED
      BY <1>2, <3>1 DEF CfInv
  <2> QED
    BY <2>1, <2>2
<1> QED
  BY <1>4, <1>6, <1>7 DEF CfInv

\* A commit behind some cursor is recorded as passed.
LEMMA CommitInv == ASSUME CfInv, NEW l \in Lsn, CfCommit(l) PROVE CfInv'
<1>1. /\ row' = [row EXCEPT ![l] = "committed"] /\ cached' = [cached EXCEPT ![l] = Touches(op[l])]
      /\ row[l] = "open" /\ l \notin sent /\ cached[l] = {} /\ ~(l > lsn)
      /\ UNCHANGED <<lsn, op, leading, running, cursor, begun, sent>>
  BY DEF CfCommit, CfInv
<1>2. passed' = IF \E n \in running : cursor[n] >= l THEN passed \cup {l} ELSE passed
  BY DEF CfCommit
<1>3. op[l] \in ChangeOp /\ Touches(op[l]) \in SUBSET {"name", "dir", "inode", "target"}
  BY NamesNotified DEF CfInv, CfTypeOK
<1>4. CfTypeOK'
  BY <1>1, <1>2, <1>3 DEF CfInv, CfTypeOK
<1>5. Visible' \subseteq Visible \cup {l}
  BY <1>1 DEF Visible, CfInv, CfTypeOK
<1>6. \A n \in running : l <= cursor[n] => l \in passed'
  BY <1>2 DEF CfInv, CfTypeOK, Lsn
<1>7. InOrderSent'
  BY SMT, <1>1, <1>2, <1>5, <1>6 DEF CfInv, InOrderSent
<1>8. NamesInvalidated'
  BY <1>1 DEF CfInv, CfTypeOK, NamesInvalidated
<1> QED
  BY SMT, <1>1, <1>4, <1>7, <1>8 DEF CfInv, CfTypeOK

\* Aborting or trimming a row leaves nothing more to send.
LEMMA DropInv == ASSUME CfInv, TrimChangelog \/ (\E l \in Lsn : CfAbort(l)) PROVE CfInv'
<1>1. UNCHANGED <<lsn, op, leading, running, cursor, begun, sent, passed, cached>>
  BY DEF TrimChangelog, CfAbort
<1>2. PICK l \in Lsn : \/ row[l] = "committed" /\ row' = [row EXCEPT ![l] = "trimmed"]
                       \/ row[l] = "open" /\ row' = [row EXCEPT ![l] = "aborted"]
  BY DEF TrimChangelog, CfAbort, Visible
<1>3. CfTypeOK' /\ Visible' \subseteq Visible
  BY <1>1, <1>2 DEF CfInv, CfTypeOK, Visible
<1>4. InOrderSent' /\ NamesInvalidated'
  BY <1>1, <1>3 DEF CfInv, InOrderSent, NamesInvalidated
<1> QED
  <2>1. \A k \in Lsn : k # l => row'[k] = row[k]
    BY <1>2 DEF CfInv, CfTypeOK
  <2>2. row'[l] \in {"trimmed", "aborted"} /\ (row'[l] = "aborted" => row[l] = "open") /\ row[l] # "none"
    BY <1>2 DEF CfInv, CfTypeOK
  <2> QED
    BY <1>1, <1>3, <1>4, <2>1, <2>2 DEF CfInv

\* A publisher that starts at the tail counts all that is visible as begun.
LEMMA FeedStartInv == ASSUME CfInv, NEW n \in CfNode, PublisherStarts(n) PROVE CfInv'
<1>1. /\ running' = running \cup {n} /\ begun' = [begun EXCEPT ![n] = Visible]
      /\ cursor' = [cursor EXCEPT ![n] = TailLog]
      /\ passed' = passed \cup {l \in Lsn : row[l] = "open" /\ l < TailLog}
      /\ UNCHANGED <<lsn, row, op, leading, sent, cached>>
  BY DEF PublisherStarts
<1>2. TailLog \in 0 .. MaxLsn /\ Visible \in SUBSET Lsn
  BY SMT, VisibleBounded, FeedAssumption DEF TailLog, Lsn, Visible
<1>3. CfTypeOK'
  BY <1>1, <1>2 DEF CfInv, CfTypeOK
<1>4. Visible' = Visible
  BY <1>1 DEF Visible
<1>5. InOrderSent'
  <2> SUFFICES ASSUME NEW m \in running', NEW l \in Visible, l <= cursor'[m]
               PROVE  l \in sent' \cup begun'[m] \cup passed'
    BY <1>4 DEF InOrderSent
  <2>1. CASE m = n
    BY <1>1, <2>1 DEF CfInv, CfTypeOK
  <2>2. CASE m # n
    BY <1>1, <2>2 DEF CfInv, CfTypeOK, InOrderSent
  <2> QED
    BY <2>1, <2>2
<1> QED
  BY <1>1, <1>3, <1>5 DEF CfInv, NamesInvalidated

\* A publisher's tick sends every visible row up to its new cursor.
LEMMA PublishInv == ASSUME CfInv, NEW n \in CfNode, PublishTick(n) PROVE CfInv'
<1> DEFINE F == Fresh3(n)
<1>1. /\ sent' = sent \cup F /\ cached' = Deliver(F) /\ cursor' = [cursor EXCEPT ![n] = Max(F)]
      /\ F # {} /\ F \subseteq Visible /\ F \subseteq Lsn /\ n \in running
      /\ UNCHANGED <<lsn, row, op, leading, running, begun, passed>>
  BY DEF PublishTick, Fresh3, Visible
<1>2. \A l \in Visible : ~(l <= cursor[n]) => l \in F
  BY SMT DEF Fresh3, Visible, CfInv, CfTypeOK, Lsn
<1>3. \A l \in F : row[l] = "committed"
  BY <1>1 DEF Visible
<1> HIDE DEF F
<1>4. Max(F) \in 0 .. MaxLsn
  <2>1. Max(F) \in Lsn
    BY <1>1, VisibleBounded
  <2> QED
    BY SMT, <2>1, FeedAssumption DEF Lsn
<1>5. \A l \in Lsn : /\ cached'[l] \subseteq cached[l]
                     /\ l \in F => cached'[l] = cached[l] \ Notified(op[l])
  BY <1>1 DEF Deliver
<1>6. cached' \in [Lsn -> SUBSET {"name", "dir", "inode", "target"}]
  BY <1>1 DEF Deliver, CfInv, CfTypeOK
<1>7. CfTypeOK'
  BY <1>1, <1>4, <1>6 DEF CfInv, CfTypeOK
<1>8. Visible' = Visible
  BY <1>1 DEF Visible
<1>9. InOrderSent'
  <2> SUFFICES ASSUME NEW m \in running, NEW l \in Visible, l <= cursor'[m]
               PROVE  l \in sent' \cup begun[m] \cup passed
    BY <1>1, <1>8 DEF InOrderSent
  <2>1. CASE l <= cursor[m]
    BY <1>1, <2>1 DEF CfInv, InOrderSent
  <2>2. CASE ~(l <= cursor[m])
    <3>1. m = n
      BY <1>1, <2>2 DEF CfInv, CfTypeOK
    <3> QED
      BY <1>1, <1>2, <2>2, <3>1
  <2> QED
    BY <2>1, <2>2
<1>10. NamesInvalidated'
  <2> SUFFICES ASSUME NEW l \in sent', NEW x \in cached'[l], x \in {"name", "dir"}
               PROVE  FALSE
    BY DEF NamesInvalidated
  <2>1. l \in Lsn /\ op[l] \in ChangeOp /\ cached[l] \subseteq Touches(op[l])
    BY <1>1 DEF CfInv, CfTypeOK
  <2>2. CASE l \in F
    BY <1>5, <2>1, <2>2, NamesNotified
  <2>3. CASE l \in sent
    BY <1>5, <2>1, <2>3 DEF CfInv, NamesInvalidated
  <2> QED
    BY <1>1, <2>2, <2>3
<1> QED
  BY <1>1, <1>3, <1>5, <1>7, <1>9, <1>10 DEF CfInv

\* Every step of the change feed keeps CfInv.
LEMMA CfNextInv == CfInv /\ [CfNext]_cfVars => CfInv'
<1> SUFFICES ASSUME CfInv, [CfNext]_cfVars
             PROVE  CfInv'
  OBVIOUS
<1>1. CASE AppendChangelog
  BY <1>1, AppendInv
<1>2. CASE TrimChangelog \/ \E l \in Lsn : CfAbort(l)
  BY <1>2, DropInv
<1>3. CASE LeaderMoves
  BY <1>3 DEF LeaderMoves, CfInv, CfTypeOK, InOrderSent, NamesInvalidated, Visible
<1>4. CASE \E l \in Lsn : CfCommit(l)
  BY <1>4, CommitInv
<1>5. CASE \E n \in CfNode : PublisherStarts(n) \/ PublishTick(n)
  BY <1>5, FeedStartInv, PublishInv
<1>6. CASE UNCHANGED cfVars
  BY <1>6 DEF cfVars, CfInv, CfTypeOK, InOrderSent, NamesInvalidated, Visible
<1> QED
  BY <1>1, <1>2, <1>3, <1>4, <1>5, <1>6 DEF CfNext

\* For any number of nodes, sessions and changes: a session whose heartbeat is
\* in the registry and does not lapse keeps its locks through every reaper pass
\* (ReapDeadLocks); a change of the publishing leader loses no change that
\* committed in order (RunPublisher); and what was broadcast leaves no stale
\* directory entry in a mount (ApplyChange).
THEOREM NodesStaySound == LrSpec /\ CfSpec => []NodesSound
<1>1. LrInv /\ CfInv => NodesSound
  BY DEF LrInv, CfInv, NodesSound
<1> QED
  BY LrInitInv, LrNextInv, CfInitInv, CfNextInv, <1>1, PTL DEF LrSpec, CfSpec

----------------------------------------------------------------------------
(* Advisory locks.  The records say byte by byte what the calls put there,   *)
(* so conflicts can be told from want alone.                                 *)

Covers(r, b) == r.s <= b /\ b <= r.e
At(recs, b) == {r.t : r \in {r \in recs : Covers(r, b)}}
Blocks(t, u) == u # "U" /\ (t = "W" \/ u = "W")

LkCall == [pc : {"idle", "ready", "trying", "insert", "eagain", "parked", "wake"}, t : Typ \cup {"U"},
           s : Byte, e : Byte, wait : BOOLEAN, woken : BOOLEAN]

(* The obstacle of o's call, in bytes. *)
Blocked(o) == \E p \in LkOwner, b \in Byte :
                p # o /\ lk[o].s <= b /\ b <= lk[o].e /\ Blocks(lk[o].t, want[p][b])

(* What an owner that is about to insert read of p still holds, or p inserted
   meanwhile. *)
Unopposed(o, p) ==
    \/ p \in blind[o]
    \/ \A b \in Byte : lk[o].s <= b /\ b <= lk[o].e => ~Blocks(lk[o].t, want[p][b])

Awaited(o) == \/ Blocked(o) \/ o \in eased
              \/ \E p \in LkOwner : MountOf[p] = MountOf[o] /\ lk[p].pc = "wake"

LkInv ==
    /\ LkTypeOK /\ RecordsExact
    /\ lk \in [LkOwner -> LkCall]
    /\ \A o \in LkOwner : \A r \in rows[o] : r.s <= r.e
    /\ \A o, p \in LkOwner : o # p /\ (\E b \in Byte : want[o][b] = "W" /\ want[p][b] # "U")
                              => p \in blind[o] \/ o \in blind[p]
    /\ \A o \in LkOwner :
         /\ lk[o].s <= lk[o].e
         /\ lk[o].pc = "insert" => lk[o].t # "U" /\ \A p \in LkOwner \ {o} : Unopposed(o, p)
         /\ lk[o].pc \in {"eagain", "parked"} => lk[o].wait /\ (lk[o].woken \/ Awaited(o))

\* Trimming one end of a record leaves its other fields.
LEMMA Trims ==
    ASSUME NEW r \in Rec, NEW x
    PROVE  /\ [r EXCEPT !.e = x].t = r.t /\ [r EXCEPT !.e = x].s = r.s /\ [r EXCEPT !.e = x].e = x
           /\ [r EXCEPT !.s = x].t = r.t /\ [r EXCEPT !.s = x].e = r.e /\ [r EXCEPT !.s = x].s = x
           /\ x \in Byte => [r EXCEPT !.e = x] \in Rec /\ [r EXCEPT !.s = x] \in Rec
           /\ r.t \in Typ /\ r.s \in Byte /\ r.e \in Byte
  BY DEF Rec

\* splitRange sets exactly the bytes s..e to t and leaves every other byte.
LEMMA SplitExact ==
    ASSUME NEW recs \in SUBSET Rec, NEW t \in Typ \cup {"U"}, NEW s \in Byte, NEW e \in Byte,
           s <= e, \A r \in recs : r.s <= r.e, NEW b \in Byte
    PROVE  /\ SplitRange(recs, t, s, e) \subseteq Rec
           /\ \A r \in SplitRange(recs, t, s, e) : r.s <= r.e
           /\ s <= b /\ b <= e => At(SplitRange(recs, t, s, e), b) = IF t = "U" THEN {} ELSE {t}
           /\ ~(s <= b /\ b <= e) => At(SplitRange(recs, t, s, e), b) = At(recs, b)
<1> DEFINE d == [t |-> t, s |-> s, e |-> e]
           left(r) == [r EXCEPT !.e = s - 1]
           right(r) == [r EXCEPT !.s = e + 1]
           new == SplitRange(recs, t, s, e)
<1>0. MaxByte \in Nat /\ \A r \in recs : r \in Rec /\ r.t \in Typ /\ r.s \in Byte /\ r.e \in Byte
  BY LocksAssumption, Trims
<1>5. s \in Int /\ e \in Int /\ Byte \subseteq Int /\ \A r \in recs : r.s \in Int /\ r.e \in Int
  BY SMT, <1>0 DEF Byte
<1>1. d.t = t /\ d.s = s /\ d.e = e /\ (t # "U" => d \in Rec)
  BY DEF Rec
<1>2. ASSUME NEW r \in recs, ~Apart(r, s, e), r.s < s
      PROVE  left(r) \in Rec /\ left(r).t = r.t /\ left(r).s = r.s /\ left(r).e = s - 1
  <2>1. s - 1 \in Byte
    BY SMT, <1>0, <1>2 DEF Byte
  <2> QED
    BY <1>0, <2>1 DEF Rec
<1>3. ASSUME NEW r \in recs, ~Apart(r, s, e), r.e > e
      PROVE  right(r) \in Rec /\ right(r).t = r.t /\ right(r).s = e + 1 /\ right(r).e = r.e
  <2>1. e + 1 \in Byte
    BY SMT, <1>0, <1>3 DEF Byte
  <2> QED
    BY <1>0, <2>1 DEF Rec
<1>4. \A q : q \in new <=> \/ q \in recs /\ Apart(q, s, e)
                           \/ \E r \in recs : ~Apart(r, s, e) /\ r.s < s /\ q = left(r)
                           \/ \E r \in recs : ~Apart(r, s, e) /\ r.e > e /\ q = right(r)
                           \/ t # "U" /\ q = d
  BY DEF SplitRange
<1> HIDE DEF d, left, right, new
<1>6. ASSUME NEW q \in new
      PROVE  q \in Rec /\ q.s <= q.e
  <2>1. CASE q \in recs
    BY <2>1
  <2>2. ASSUME NEW r \in recs, ~Apart(r, s, e), r.s < s, q = left(r)
        PROVE  q \in Rec /\ q.s <= q.e
    BY SMT, <1>2, <1>5, <2>2
  <2>3. ASSUME NEW r \in recs, ~Apart(r, s, e), r.e > e, q = right(r)
        PROVE  q \in Rec /\ q.s <= q.e
    BY SMT, <1>3, <1>5, <2>3
  <2>4. CASE t # "U" /\ q = d
    BY <1>1, <2>4
  <2> QED
    BY <1>4, <2>1, <2>2, <2>3, <2>4
<1>7. ASSUME NEW q \in new, Covers(q, b)
      PROVE  IF s <= b /\ b <= e THEN t # "U" /\ q.t = t
                                  ELSE \E r \in recs : Covers(r, b) /\ q.t = r.t
  <2>1. CASE q \in recs /\ Apart(q, s, e)
    BY SMT, <1>5, <1>7, <2>1 DEF Apart, Covers
  <2>2. ASSUME NEW r \in recs, ~Apart(r, s, e), r.s < s, q = left(r)
        PROVE  ~(s <= b /\ b <= e) /\ Covers(r, b) /\ q.t = r.t
    BY SMT, <1>2, <1>5, <1>7, <2>2 DEF Apart, Covers
  <2>3. ASSUME NEW r \in recs, ~Apart(r, s, e), r.e > e, q = right(r)
        PROVE  ~(s <= b /\ b <= e) /\ Covers(r, b) /\ q.t = r.t
    BY SMT, <1>3, <1>5, <1>7, <2>3 DEF Apart, Covers
  <2>4. CASE t # "U" /\ q = d
    BY <1>1, <1>7, <2>4 DEF Covers
  <2> QED
    BY SMT, <1>4, <2>1, <2>2, <2>3, <2>4
<1>8. ASSUME NEW r \in recs, Covers(r, b), ~(s <= b /\ b <= e)
      PROVE  \E q \in new : Covers(q, b) /\ q.t = r.t
  <2>1. CASE Apart(r, s, e)
    BY <1>4, <1>8, <2>1
  <2>2. CASE ~Apart(r, s, e) /\ b < s
    <3>1. r.s < s /\ b <= s - 1
      BY SMT, <1>5, <1>8, <2>2 DEF Covers
    <3>2. Covers(left(r), b) /\ left(r).t = r.t
      BY <1>2, <1>8, <2>2, <3>1 DEF Covers
    <3> QED
      BY <1>4, <2>2, <3>1, <3>2
  <2>3. CASE ~Apart(r, s, e) /\ b > e
    <3>1. r.e > e /\ e + 1 <= b
      BY SMT, <1>5, <1>8, <2>3 DEF Covers
    <3>2. Covers(right(r), b) /\ right(r).t = r.t
      BY <1>3, <1>8, <2>3, <3>1 DEF Covers
    <3> QED
      BY <1>4, <2>3, <3>1, <3>2
  <2> QED
    BY SMT, <1>5, <1>8, <2>1, <2>2, <2>3
<1>9. ASSUME s <= b, b <= e, t # "U"
      PROVE  t \in At(new, b)
  BY <1>1, <1>4, <1>9 DEF At, Covers
<1>10. ASSUME s <= b, b <= e
       PROVE  At(new, b) = IF t = "U" THEN {} ELSE {t}
  BY <1>7, <1>9, <1>10 DEF At
<1>11. ASSUME ~(s <= b /\ b <= e)
       PROVE  At(new, b) = At(recs, b)
  BY SMT, <1>7, <1>8, <1>11 DEF At
<1> QED
  BY <1>5, <1>6, <1>10, <1>11 DEF new

\* The records of an owner give a byte the type its calls asked for.
LEMMA Held ==
    ASSUME LkInv, NEW p \in LkOwner, NEW b \in Byte
    PROVE  /\ TypesAt(p, b) = At(rows[p], b) /\ want[p][b] \in Typ \cup {"U"}
           /\ At(rows[p], b) = IF want[p][b] = "U" THEN {} ELSE {want[p][b]}
<1>1. TypesAt(p, b) = At(rows[p], b)
  BY DEF TypesAt, At, Covers
<1>2. want[p][b] \in Typ \cup {"U"}
  BY SMT DEF LkInv, LkTypeOK
<1>3. TypesAt(p, b) = IF want[p][b] = "U" THEN {} ELSE {want[p][b]}
  BY DEF LkInv, RecordsExact
<1> QED
  BY <1>1, <1>2, <1>3

\* plockConflict finds a conflict exactly when some byte is blocked.
LEMMA ConflictBytes ==
    ASSUME LkInv, NEW o \in LkOwner
    PROVE  Conflict(o) <=> Blocked(o)
<1> DEFINE t == lk[o].t
           s == lk[o].s
           e == lk[o].e
<1>1. s \in Byte /\ e \in Byte /\ s <= e
  BY DEF LkInv, LkCall
<1>2. MaxByte \in Nat
  BY LocksAssumption
<1>3. \A p \in LkOwner : \A r \in rows[p] : r.t \in Typ /\ r.s \in Byte /\ r.e \in Byte /\ r.s <= r.e
  BY SMT DEF LkInv, LkTypeOK, Rec
<1>4. Conflict(o) <=> \E p \in LkOwner : \E r \in rows[p] :
                        p # o /\ ~Apart(r, s, e) /\ (t = "W" \/ r.t = "W")
  BY DEF Conflict, PlockConflict, Others
<1> HIDE DEF t, s, e
<1>5. ASSUME NEW p \in LkOwner, NEW r \in rows[p], p # o, ~Apart(r, s, e), t = "W" \/ r.t = "W"
      PROVE  Blocked(o)
  <2>1. PICK b \in Byte : s <= b /\ b <= e /\ Covers(r, b)
    <3>1. CASE r.s <= s
      BY SMT, <1>1, <1>2, <1>3, <1>5, <3>1 DEF Apart, Covers, Byte
    <3>2. CASE s <= r.s
      BY SMT, <1>1, <1>2, <1>3, <1>5, <3>2 DEF Apart, Covers, Byte
    <3> QED
      BY SMT, <1>1, <1>2, <1>3, <3>1, <3>2 DEF Byte
  <2>2. r.t \in At(rows[p], b)
    BY <2>1 DEF At
  <2>3. want[p][b] = r.t
    <3>1. At(rows[p], b) = IF want[p][b] = "U" THEN {} ELSE {want[p][b]}
      BY Held
    <3> QED
      BY <2>2, <3>1
  <2> QED
    BY <1>3, <1>5, <2>1, <2>3 DEF Blocked, Blocks, Typ, t, s, e
<1>6. ASSUME NEW p \in LkOwner, NEW b \in Byte, p # o, s <= b, b <= e, Blocks(t, want[p][b])
      PROVE  Conflict(o)
  <2>1. want[p][b] \in At(rows[p], b)
    BY <1>6, Held DEF Blocks
  <2>2. PICK r \in rows[p] : Covers(r, b) /\ r.t = want[p][b]
    BY <2>1 DEF At
  <2>3. ~Apart(r, s, e)
    BY SMT, <1>1, <1>2, <1>3, <1>6, <2>2 DEF Apart, Covers, Byte
  <2> QED
    BY <1>4, <1>6, <2>2, <2>3 DEF Blocks
<1> QED
  BY <1>4, <1>5, <1>6 DEF Blocked, t, s, e

\* Writing an owner's records keeps them exact, and touches no other owner's.
LEMMA PutExact ==
    ASSUME LkInv, NEW o \in LkOwner, Put(o)
    PROVE  /\ rows' \in [LkOwner -> SUBSET Rec] /\ want' \in [LkOwner -> [Byte -> Typ \cup {"U"}]]
           /\ RecordsExact' /\ \A p \in LkOwner : \A r \in rows'[p] : r.s <= r.e
           /\ \A p \in LkOwner : p # o => want'[p] = want[p]
           /\ \A b \in Byte : want'[o][b] = IF lk[o].s <= b /\ b <= lk[o].e THEN lk[o].t ELSE want[o][b]
<1> DEFINE t == lk[o].t
           s == lk[o].s
           e == lk[o].e
           new == SplitRange(rows[o], t, s, e)
           w == [b \in Byte |-> IF b \in s .. e THEN t ELSE want[o][b]]
<1>1. s \in Byte /\ e \in Byte /\ s <= e /\ t \in Typ \cup {"U"}
  BY DEF LkInv, LkCall
<1>2. rows' = [rows EXCEPT ![o] = new] /\ want' = [want EXCEPT ![o] = w]
  BY DEF Put, LkInv, LkTypeOK
<1>3. \A b \in Byte : w[b] = IF s <= b /\ b <= e THEN t ELSE want[o][b]
  BY SMT, <1>1, LocksAssumption DEF Byte
<1>4. w \in [Byte -> Typ \cup {"U"}]
  BY <1>1, Held
<1>5. rows[o] \subseteq Rec /\ \A r \in rows[o] : r.s <= r.e
  BY DEF LkInv, LkTypeOK
<1> HIDE DEF t, s, e, w
<1>6. /\ new \subseteq Rec /\ \A r \in new : r.s <= r.e
      /\ \A b \in Byte : At(new, b) = IF s <= b /\ b <= e THEN IF t = "U" THEN {} ELSE {t}
                                                          ELSE At(rows[o], b)
  <2> DEFINE recs == rows[o]
  <2>1. recs \in SUBSET Rec /\ \A r \in recs : r.s <= r.e
    BY <1>5
  <2> HIDE DEF recs
  <2>2. SplitRange(recs, t, s, e) \subseteq Rec /\ \A r \in SplitRange(recs, t, s, e) : r.s <= r.e
    BY <1>1, <2>1, SplitExact
  <2>3. ASSUME NEW b \in Byte
        PROVE  At(SplitRange(recs, t, s, e), b) = IF s <= b /\ b <= e
                                                  THEN IF t = "U" THEN {} ELSE {t}
                                                  ELSE At(recs, b)
    BY SMT, <1>1, <2>1, SplitExact
  <2> QED
    BY <2>2, <2>3 DEF recs, new
<1> HIDE DEF new
<1>7. rows' \in [LkOwner -> SUBSET Rec] /\ rows'[o] = new /\ \A p \in LkOwner : p # o => rows'[p] = rows[p]
  BY <1>2, <1>6 DEF LkInv, LkTypeOK
<1>8. /\ want' \in [LkOwner -> [Byte -> Typ \cup {"U"}]] /\ want'[o] = w
      /\ \A p \in LkOwner : p # o => want'[p] = want[p]
  BY <1>2, <1>4 DEF LkInv, LkTypeOK
<1>9. ASSUME NEW p \in LkOwner, NEW b \in Byte
      PROVE  At(rows'[p], b) = IF want'[p][b] = "U" THEN {} ELSE {want'[p][b]}
  <2>0. At(rows[p], b) = IF want[p][b] = "U" THEN {} ELSE {want[p][b]}
    BY Held
  <2>1. CASE p = o
    <3>1. rows'[p] = new /\ want'[p][b] = IF s <= b /\ b <= e THEN t ELSE want[p][b]
      BY <1>3, <1>7, <1>8, <2>1
    <3>2. At(new, b) = IF s <= b /\ b <= e THEN IF t = "U" THEN {} ELSE {t} ELSE At(rows[p], b)
      BY <1>6, <2>1
    <3>3. CASE s <= b /\ b <= e
      BY <3>1, <3>2, <3>3
    <3>4. CASE ~(s <= b /\ b <= e)
      BY <2>0, <3>1, <3>2, <3>4
    <3> QED
      BY <3>3, <3>4
  <2>2. CASE p # o
    <3>1. rows'[p] = rows[p] /\ want'[p] = want[p]
      BY <1>7, <1>8, <2>2
    <3> QED
      BY <2>0, <3>1
  <2> QED
    BY <2>1, <2>2
<1>10. RecordsExact'
  BY <1>9 DEF RecordsExact, TypesAt, At, Covers
<1>11. \A p \in LkOwner : \A r \in rows'[p] : r.s <= r.e
  BY <1>6, <1>7 DEF LkInv
<1>12. \A b \in Byte : want'[o][b] = IF lk[o].s <= b /\ b <= lk[o].e THEN lk[o].t ELSE want[o][b]
  BY <1>3, <1>8 DEF t, s, e
<1> QED
  BY <1>7, <1>8, <1>10, <1>11, <1>12

\* No lock and no call: the first state satisfies LkInv.
LEMMA LkInitInv == LkInit => LkInv
<1> SUFFICES ASSUME LkInit
             PROVE  LkInv
  OBVIOUS
<1>1. Quiet \in LkCall /\ Quiet.pc = "idle" /\ Quiet.s = 0 /\ Quiet.e = 0 /\ Quiet.t = "R"
  BY SMT, LocksAssumption DEF Quiet, LkCall, Typ, Byte
<1>2. lk \in [LkOwner -> LkCall] /\ \A o \in LkOwner : lk[o] = Quiet
  BY <1>1 DEF LkInit
<1>3. LkTypeOK
  BY SMT, <1>1, <1>2, LocksAssumption DEF LkInit, LkTypeOK, Typ
<1>4. RecordsExact
  BY DEF LkInit, RecordsExact, TypesAt
<1>5. \A o \in LkOwner, b \in Byte : want[o][b] = "U"
  BY DEF LkInit
<1>6. \A o \in LkOwner : rows[o] = {}
  BY DEF LkInit
<1> QED
  BY SMT, <1>1, <1>2, <1>3, <1>4, <1>5, <1>6 DEF LkInv

(* A step that changes one owner's call and no lock. *)
LEMMA CallStep ==
    ASSUME LkInv, NEW o \in LkOwner, NEW c \in LkCall, c.s <= c.e,
           lk' = [lk EXCEPT ![o] = c], lk[o].pc # "wake", lkCalls' \in 0 .. MaxLkCalls,
           UNCHANGED <<table, rows, want, blind>>, eased' \in SUBSET LkOwner, eased \subseteq eased' \cup {o},
           c.pc \in {"insert", "eagain", "parked"} => c.t = lk[o].t /\ c.s = lk[o].s /\ c.e = lk[o].e,
           c.pc = "insert" => c.t # "U" /\ ~Blocked(o),
           c.pc \in {"eagain", "parked"} => c.wait /\ (c.woken \/ Awaited(o)) /\ eased' = eased
    PROVE  LkInv'
<1>1. /\ lk' \in [LkOwner -> LkCall] /\ lk'[o] = c
      /\ \A p \in LkOwner : p # o => lk'[p] = lk[p]
  BY DEF LkInv
<1>2. LkTypeOK'
  BY <1>1 DEF LkInv, LkTypeOK, LkCall
<1>3. RecordsExact'
  BY DEF LkInv, RecordsExact, TypesAt
<1>4. ASSUME NEW q \in LkOwner, q # o
      PROVE  /\ Awaited(q) => Awaited(q)'
             /\ \A p \in LkOwner : Unopposed(q, p) => Unopposed(q, p)'
  BY <1>1, <1>4 DEF Awaited, Blocked, Unopposed
<1>5. ASSUME c.pc = "insert", NEW p \in LkOwner \ {o}
      PROVE  Unopposed(o, p)'
  BY <1>1, <1>5 DEF Unopposed, Blocked
<1>6. ASSUME c.pc \in {"eagain", "parked"}, Awaited(o)
      PROVE  Awaited(o)'
  <2>1. Blocked(o) => Blocked(o)'
    BY <1>1, <1>6 DEF Blocked
  <2> QED
    BY <1>1, <1>6, <2>1 DEF Awaited
<1>7. ASSUME NEW q \in LkOwner
      PROVE  /\ lk'[q].s <= lk'[q].e
             /\ lk'[q].pc = "insert" => lk'[q].t # "U" /\ \A p \in LkOwner \ {q} : Unopposed(q, p)'
             /\ lk'[q].pc \in {"eagain", "parked"} => lk'[q].wait /\ (lk'[q].woken \/ Awaited(q)')
  <2>1. CASE q = o
    BY <1>1, <1>5, <1>6, <2>1
  <2>2. CASE q # o
    BY <1>1, <1>4, <2>2 DEF LkInv
  <2> QED
    BY <2>1, <2>2
<1> QED
  BY <1>1, <1>2, <1>3, <1>7 DEF LkInv

\* An owner without a call in progress.
LEMMA QuietCall == Quiet \in LkCall /\ Quiet.s <= Quiet.e /\ Quiet.pc = "idle"
  BY SMT, LocksAssumption DEF Quiet, LkCall, Typ, Byte

\* The steps of a call that write no record keep LkInv.
LEMMA WaitInv ==
    ASSUME LkInv, NEW o \in LkOwner,
           \/ SetLk(o) \/ LockWaitCh(o) \/ LockGranted(o) \/ Refused(o)
           \/ Park(o) \/ Retry(o) \/ Interrupted(o)
    PROVE  LkInv'
<1>0. /\ lk[o] \in LkCall /\ lk[o].s <= lk[o].e /\ lkCalls \in 0 .. MaxLkCalls /\ eased \in SUBSET LkOwner
      /\ lk[o].pc \in {"eagain", "parked"} => lk[o].wait /\ (lk[o].woken \/ Awaited(o))
  BY DEF LkInv, LkTypeOK
<1>1. CASE SetLk(o)
  <2>1. PICK t \in Typ \cup {"U"}, s \in Byte, e \in Byte, w \in BOOLEAN :
          /\ s <= e
          /\ lk' = [lk EXCEPT ![o] = [pc |-> "ready", t |-> t, s |-> s, e |-> e, wait |-> w, woken |-> FALSE]]
    BY <1>1 DEF SetLk
  <2> DEFINE c == [pc |-> "ready", t |-> t, s |-> s, e |-> e, wait |-> w, woken |-> FALSE]
  <2>2. c \in LkCall /\ c.s <= c.e /\ c.pc = "ready"
    BY <2>1 DEF LkCall
  <2>3. lkCalls' \in 0 .. MaxLkCalls /\ lk[o].pc = "idle" /\ UNCHANGED <<table, rows, want, blind, eased>>
    BY SMT, <1>0, <1>1, LocksAssumption DEF SetLk
  <2> HIDE DEF c
  <2> QED
    BY <1>0, <2>1, <2>2, <2>3, CallStep DEF c
<1>2. CASE LockWaitCh(o)
  <2> DEFINE c == [lk[o] EXCEPT !.pc = "trying", !.woken = FALSE]
  <2>1. c \in LkCall /\ c.s <= c.e /\ c.pc = "trying"
    BY <1>0 DEF LkCall
  <2>2. lk' = [lk EXCEPT ![o] = c] /\ lk[o].pc = "ready" /\ eased' = eased \ {o} /\ UNCHANGED <<table, rows, lkCalls, want, blind>>
    BY <1>2 DEF LockWaitCh, LkInv, LkCall
  <2> HIDE DEF c
  <2> QED
    BY <1>0, <2>1, <2>2, CallStep
<1>3. CASE LockGranted(o)
  <2> DEFINE c == [lk[o] EXCEPT !.pc = "insert"]
  <2>1. c \in LkCall /\ c.pc = "insert" /\ c.t = lk[o].t /\ c.s = lk[o].s /\ c.e = lk[o].e
    BY <1>0 DEF LkCall
  <2>2. /\ lk' = [lk EXCEPT ![o] = c] /\ lk[o].pc = "trying" /\ lk[o].t # "U" /\ ~Conflict(o)
        /\ UNCHANGED <<table, rows, lkCalls, want, blind, eased>>
    BY <1>3 DEF LockGranted, LkInv, LkCall
  <2>3. ~Blocked(o)
    BY <2>2, ConflictBytes
  <2> HIDE DEF c
  <2> QED
    BY <1>0, <2>1, <2>2, <2>3, CallStep
<1>4. CASE Refused(o)
  <2> DEFINE c == IF lk[o].wait THEN [lk[o] EXCEPT !.pc = "eagain"] ELSE Quiet
  <2>1. c \in LkCall /\ c.s <= c.e
    BY <1>0, QuietCall DEF LkCall
  <2>2. /\ lk' = [lk EXCEPT ![o] = c] /\ lk[o].pc = "trying" /\ Conflict(o)
        /\ UNCHANGED <<table, rows, lkCalls, want, blind, eased>>
    BY <1>4 DEF Refused, LkInv
  <2>3. c.pc = "idle" \/ (c.pc = "eagain" /\ c.wait /\ c.t = lk[o].t /\ c.s = lk[o].s /\ c.e = lk[o].e)
    BY <1>0, QuietCall DEF LkCall
  <2>4. Awaited(o)
    BY <2>2, ConflictBytes DEF Awaited
  <2> HIDE DEF c
  <2> QED
    BY <1>0, <2>1, <2>2, <2>3, <2>4, CallStep
<1>5. CASE Park(o)
  <2> DEFINE c == [lk[o] EXCEPT !.pc = "parked"]
  <2>1. /\ c \in LkCall /\ c.pc = "parked" /\ c.t = lk[o].t /\ c.s = lk[o].s /\ c.e = lk[o].e
        /\ c.wait = lk[o].wait /\ c.woken = lk[o].woken
    BY <1>0 DEF LkCall
  <2>2. /\ lk' = [lk EXCEPT ![o] = c] /\ lk[o].pc = "eagain"
        /\ UNCHANGED <<table, rows, lkCalls, want, blind, eased>>
    BY <1>5 DEF Park, LkInv, LkCall
  <2> HIDE DEF c
  <2> QED
    BY <1>0, <2>1, <2>2, CallStep
<1>6. CASE Retry(o)
  <2> DEFINE c == [lk[o] EXCEPT !.pc = "ready"]
  <2>1. c \in LkCall /\ c.s <= c.e /\ c.pc = "ready"
    BY <1>0 DEF LkCall
  <2>2. /\ lk' = [lk EXCEPT ![o] = c] /\ lk[o].pc = "parked"
        /\ UNCHANGED <<table, rows, lkCalls, want, blind, eased>>
    BY <1>6 DEF Retry, LkInv, LkCall
  <2> HIDE DEF c
  <2> QED
    BY <1>0, <2>1, <2>2, CallStep
<1>7. CASE Interrupted(o)
  <2>1. /\ lk' = [lk EXCEPT ![o] = Quiet] /\ lk[o].pc = "parked" /\ eased' = eased \ {o}
        /\ UNCHANGED <<table, rows, lkCalls, want, blind>>
    BY <1>7 DEF Interrupted
  <2> QED
    BY <1>0, <2>1, QuietCall, CallStep
<1> QED
  BY <1>1, <1>2, <1>3, <1>4, <1>5, <1>6, <1>7

(* A step that takes locks of o away, and leaves o about to broadcast. *)
LEMMA ReleaseStep ==
    ASSUME LkInv, NEW o \in LkOwner, NEW c \in LkCall, c.s <= c.e, c.pc = "wake",
           lk' = [lk EXCEPT ![o] = c], UNCHANGED <<table, lkCalls, blind>>,
           rows' \in [LkOwner -> SUBSET Rec], want' \in [LkOwner -> [Byte -> Typ \cup {"U"}]],
           RecordsExact', \A p \in LkOwner : \A r \in rows'[p] : r.s <= r.e,
           \A p \in LkOwner : p # o => want'[p] = want[p],
           \A b \in Byte : want'[o][b] \in {want[o][b], "U"},
           eased' \in SUBSET LkOwner, eased \subseteq eased',
           want' = want \/ Waiting \cap Elsewhere(o) \subseteq eased'
    PROVE  LkInv'
<1>1. /\ lk' \in [LkOwner -> LkCall] /\ lk'[o] = c
      /\ \A p \in LkOwner : p # o => lk'[p] = lk[p]
  BY DEF LkInv
<1>2. LkTypeOK'
  BY <1>1 DEF LkInv, LkTypeOK, LkCall
<1>3. \A p \in LkOwner, b \in Byte : want'[p][b] \in {want[p][b], "U"}
  OBVIOUS
<1>4. ASSUME NEW q \in LkOwner, NEW p \in LkOwner, q # o, Unopposed(q, p)
      PROVE  Unopposed(q, p)'
  BY <1>1, <1>3, <1>4 DEF Unopposed, Blocks
<1>5. ASSUME NEW q \in LkOwner, q # o, lk[q].pc \in {"eagain", "parked"}, lk[q].wait, Awaited(q)
      PROVE  Awaited(q)'
  <2>1. CASE MountOf[q] = MountOf[o]
    BY <1>1, <2>1 DEF Awaited
  <2>2. CASE q \in eased'
    BY <2>2 DEF Awaited
  <2>3. CASE MountOf[q] # MountOf[o] /\ q \notin eased'
    <3>1. want' = want /\ q \notin eased
      BY <1>5, <2>3 DEF Waiting, Elsewhere
    <3>2. Blocked(q) => Blocked(q)'
      BY <1>1, <1>5, <3>1 DEF Blocked
    <3> QED
      BY <1>1, <1>5, <3>1, <3>2 DEF Awaited
  <2> QED
    BY <2>1, <2>2, <2>3
<1>6. ASSUME NEW q \in LkOwner
      PROVE  /\ lk'[q].s <= lk'[q].e
             /\ lk'[q].pc = "insert" => lk'[q].t # "U" /\ \A p \in LkOwner \ {q} : Unopposed(q, p)'
             /\ lk'[q].pc \in {"eagain", "parked"} => lk'[q].wait /\ (lk'[q].woken \/ Awaited(q)')
  <2>1. CASE q = o
    BY <1>1, <2>1
  <2>2. CASE q # o
    BY <1>1, <1>4, <1>5, <2>2 DEF LkInv
  <2> QED
    BY <2>1, <2>2
<1>7. \A q, p \in LkOwner : q # p /\ (\E b \in Byte : want'[q][b] = "W" /\ want'[p][b] # "U")
                            => p \in blind'[q] \/ q \in blind'[p]
  BY SMT, <1>3 DEF LkInv
<1> QED
  BY <1>1, <1>2, <1>6, <1>7 DEF LkInv

\* An unlock keeps LkInv.
LEMMA UnlockInv == ASSUME LkInv, NEW o \in LkOwner, Unlock(o) PROVE LkInv'
<1> DEFINE c == [lk[o] EXCEPT !.pc = "wake"]
<1>1. c \in LkCall /\ c.s <= c.e /\ c.pc = "wake"
  BY SMT DEF LkInv, LkCall
<1>2. /\ lk' = [lk EXCEPT ![o] = c] /\ Put(o) /\ lk[o].t = "U"
      /\ eased' = eased \cup (Waiting \cap Elsewhere(o)) /\ UNCHANGED <<table, lkCalls, blind>>
  BY DEF Unlock, LkInv, LkCall
<1> HIDE DEF c
<1>3. eased' \in SUBSET LkOwner /\ eased \subseteq eased' /\ Waiting \cap Elsewhere(o) \subseteq eased'
  BY <1>2 DEF LkInv, LkTypeOK, Waiting
<1>4. /\ rows' \in [LkOwner -> SUBSET Rec] /\ want' \in [LkOwner -> [Byte -> Typ \cup {"U"}]]
      /\ RecordsExact' /\ \A p \in LkOwner : \A r \in rows'[p] : r.s <= r.e
      /\ \A p \in LkOwner : p # o => want'[p] = want[p]
  BY <1>2, PutExact
<1>5. \A b \in Byte : want'[o][b] \in {want[o][b], "U"}
  BY <1>2, PutExact
<1> QED
  BY <1>1, <1>2, <1>3, <1>4, <1>5, ReleaseStep

\* Closing a descriptor keeps LkInv.
LEMMA CloseInv == ASSUME LkInv, NEW o \in LkOwner, CloseFd(o) PROVE LkInv'
<1> DEFINE c == [Quiet EXCEPT !.pc = "wake"]
           u == [b \in Byte |-> "U"]
<1>1. c \in LkCall /\ c.s <= c.e /\ c.pc = "wake"
  BY QuietCall DEF LkCall
<1>2. /\ lk' = [lk EXCEPT ![o] = c] /\ rows' = [rows EXCEPT ![o] = {}] /\ want' = [want EXCEPT ![o] = u]
      /\ eased' = (IF rows[o] = {} THEN eased ELSE eased \cup (Waiting \cap Elsewhere(o)))
      /\ UNCHANGED <<table, lkCalls, blind>>
  BY DEF CloseFd
<1>3. u \in [Byte -> Typ \cup {"U"}] /\ \A b \in Byte : u[b] = "U"
  OBVIOUS
<1> HIDE DEF c, u
<1>4. eased' \in SUBSET LkOwner /\ eased \subseteq eased'
  BY <1>2 DEF LkInv, LkTypeOK, Waiting
<1>5. /\ rows' \in [LkOwner -> SUBSET Rec] /\ rows'[o] = {} /\ \A p \in LkOwner : p # o => rows'[p] = rows[p]
      /\ want' \in [LkOwner -> [Byte -> Typ \cup {"U"}]] /\ want'[o] = u
      /\ \A p \in LkOwner : p # o => want'[p] = want[p]
  BY SMT, <1>2, <1>3 DEF LkInv, LkTypeOK
<1>6. RecordsExact'
  <2> SUFFICES ASSUME NEW p \in LkOwner, NEW b \in Byte
               PROVE  TypesAt(p, b)' = IF want'[p][b] = "U" THEN {} ELSE {want'[p][b]}
    BY DEF RecordsExact
  <2>1. CASE p = o
    BY <1>3, <1>5, <2>1 DEF TypesAt
  <2>2. CASE p # o
    <3>1. TypesAt(p, b)' = TypesAt(p, b)
      BY <1>5, <2>2 DEF TypesAt
    <3>2. TypesAt(p, b) = IF want[p][b] = "U" THEN {} ELSE {want[p][b]}
      BY Held
    <3>3. want'[p] = want[p]
      BY <1>5, <2>2
    <3> QED
      BY <3>1, <3>2, <3>3
  <2> QED
    BY <2>1, <2>2
<1>7. want' = want \/ Waiting \cap Elsewhere(o) \subseteq eased'
  <2>1. CASE rows[o] = {}
    <3>1. \A b \in Byte : At(rows[o], b) = {}
      BY <2>1 DEF At
    <3>2. \A b \in Byte : want[o][b] = "U"
      BY <3>1, Held
    <3>3. want[o] = u
      BY SMT, <1>3, <3>2 DEF LkInv, LkTypeOK
    <3> QED
      BY <1>2, <3>3 DEF LkInv, LkTypeOK
  <2>2. CASE rows[o] # {}
    BY <1>2, <2>2
  <2> QED
    BY <2>1, <2>2
<1>8. \A p \in LkOwner : \A r \in rows'[p] : r.s <= r.e
  BY <1>5 DEF LkInv
<1>9. \A b \in Byte : want'[o][b] \in {want[o][b], "U"}
  BY <1>3, <1>5
<1> QED
  BY <1>1, <1>2, <1>4, <1>5, <1>6, <1>7, <1>8, <1>9, ReleaseStep

\* The broadcast wakes every waiter of its mount, so nobody still awaits it.
LEMMA WakeInv == ASSUME LkInv, NEW o \in LkOwner, WakeLockWaiters(o) PROVE LkInv'
<1>1. /\ lk' = [p \in LkOwner |-> IF p = o THEN Quiet
                                  ELSE IF p \in Waiting \ Elsewhere(o) THEN [lk[p] EXCEPT !.woken = TRUE]
                                  ELSE lk[p]]
      /\ UNCHANGED <<table, rows, lkCalls, want, blind, eased>>
  BY DEF WakeLockWaiters
<1>2. ASSUME NEW p \in LkOwner
      PROVE  LET w == [lk[p] EXCEPT !.woken = TRUE]
             IN  /\ w \in LkCall /\ w.pc = lk[p].pc /\ w.t = lk[p].t /\ w.s = lk[p].s /\ w.e = lk[p].e
                 /\ w.wait = lk[p].wait /\ w.woken = TRUE
  <2> DEFINE r == lk[p]
             w == [r EXCEPT !.woken = TRUE]
  <2>1. r \in LkCall
    BY DEF LkInv
  <2> HIDE DEF r
  <2>2. w \in LkCall
    BY <2>1 DEF LkCall
  <2>3. w.pc = r.pc /\ w.t = r.t /\ w.s = r.s /\ w.e = r.e /\ w.wait = r.wait
    BY <2>1 DEF LkCall
  <2>4. w.woken = TRUE
    BY <2>1 DEF LkCall
  <2> QED
    BY <2>2, <2>3, <2>4 DEF r
<1>3. lk' \in [LkOwner -> LkCall] /\ lk'[o] = Quiet
  BY <1>1, <1>2, QuietCall DEF LkInv
<1>4. \A p \in LkOwner : p # o =>
        /\ lk'[p].pc = lk[p].pc /\ lk'[p].t = lk[p].t /\ lk'[p].s = lk[p].s /\ lk'[p].e = lk[p].e
        /\ lk'[p].wait = lk[p].wait /\ (p \in Waiting \ Elsewhere(o) => lk'[p].woken = TRUE)
        /\ (p \notin Waiting \ Elsewhere(o) => lk'[p] = lk[p])
  BY <1>1, <1>2
<1>5. LkTypeOK'
  BY <1>1, <1>3 DEF LkInv, LkTypeOK, LkCall
<1>6. RecordsExact'
  BY <1>1 DEF LkInv, RecordsExact, TypesAt
<1>7. ASSUME NEW q \in LkOwner, NEW p \in LkOwner, q # o, Unopposed(q, p)
      PROVE  Unopposed(q, p)'
  BY <1>1, <1>4, <1>7 DEF Unopposed
<1>8. ASSUME NEW q \in LkOwner, q # o, lk[q].pc \in {"eagain", "parked"}, lk[q].wait, lk[q].woken \/ Awaited(q)
      PROVE  lk'[q].woken \/ Awaited(q)'
  <2>1. CASE q \in Waiting \ Elsewhere(o)
    BY <1>4, <1>8, <2>1
  <2>2. CASE q \notin Waiting \ Elsewhere(o)
    <3>1. MountOf[q] # MountOf[o] /\ lk'[q] = lk[q]
      BY <1>4, <1>8, <2>2 DEF Waiting, Elsewhere
    <3>2. Blocked(q) => Blocked(q)'
      BY <1>1, <3>1 DEF Blocked
    <3>3. \A p \in LkOwner : MountOf[p] = MountOf[q] /\ lk[p].pc = "wake" => lk'[p].pc = "wake"
      BY <1>4, <3>1
    <3> QED
      BY <1>1, <1>8, <3>1, <3>2, <3>3 DEF Awaited
  <2> QED
    BY <2>1, <2>2
<1>9. ASSUME NEW q \in LkOwner
      PROVE  /\ lk'[q].s <= lk'[q].e
             /\ lk'[q].pc = "insert" => lk'[q].t # "U" /\ \A p \in LkOwner \ {q} : Unopposed(q, p)'
             /\ lk'[q].pc \in {"eagain", "parked"} => lk'[q].wait /\ (lk'[q].woken \/ Awaited(q)')
  <2>1. CASE q = o
    BY <1>3, <2>1, QuietCall
  <2>2. CASE q # o
    BY <1>4, <1>7, <1>8, <2>2 DEF LkInv
  <2> QED
    BY <2>1, <2>2
<1> QED
  BY <1>1, <1>3, <1>5, <1>6, <1>9 DEF LkInv

\* Writing the granted lock keeps LkInv: only a downgrade eases waiters, and a
\* clash needs a commit between this owner's read and its insert.
LEMMA InsertInv == ASSUME LkInv, NEW o \in LkOwner, Insert(o) PROVE LkInv'
<1>1. /\ lk' = [lk EXCEPT ![o] = Quiet] /\ Put(o) /\ lk[o].pc = "insert" /\ lk[o].t # "U"
      /\ blind' = [p \in LkOwner |-> IF p # o /\ lk[p].pc = "insert" THEN blind[p] \cup {o} ELSE blind[p]]
      /\ UNCHANGED <<table, lkCalls>>
  BY DEF Insert, LkInv
<1>2. eased' = IF \E b \in Byte : want[o][b] = "W" /\ want'[o][b] # "W" THEN eased \cup Waiting ELSE eased
  BY DEF Insert
<1>3. /\ rows' \in [LkOwner -> SUBSET Rec] /\ want' \in [LkOwner -> [Byte -> Typ \cup {"U"}]]
      /\ RecordsExact' /\ \A p \in LkOwner : \A r \in rows'[p] : r.s <= r.e
      /\ \A p \in LkOwner : p # o => want'[p] = want[p]
  BY <1>1, PutExact
<1>4. \A b \in Byte : want'[o][b] = IF lk[o].s <= b /\ b <= lk[o].e THEN lk[o].t ELSE want[o][b]
  BY <1>1, PutExact
<1>5. /\ lk' \in [LkOwner -> LkCall] /\ lk'[o] = Quiet
      /\ \A p \in LkOwner : p # o => lk'[p] = lk[p]
  BY <1>1, QuietCall DEF LkInv
<1>6. eased' \in SUBSET LkOwner /\ eased \subseteq eased'
  BY <1>2 DEF LkInv, LkTypeOK, Waiting
<1>7. /\ blind' \in [LkOwner -> SUBSET LkOwner] /\ blind'[o] = blind[o]
      /\ \A p \in LkOwner : blind[p] \subseteq blind'[p]
      /\ \A p \in LkOwner : p # o /\ lk[p].pc = "insert" => o \in blind'[p]
  BY SMT, <1>1 DEF LkInv, LkTypeOK
<1>8. LkTypeOK'
  BY SMT, <1>1, <1>3, <1>5, <1>6, <1>7 DEF LkInv, LkTypeOK, LkCall
<1>9. ASSUME NEW q \in LkOwner, NEW p \in LkOwner, q # o, lk[q].pc = "insert", Unopposed(q, p)
      PROVE  Unopposed(q, p)'
  <2>1. CASE p = o
    BY <1>7, <1>9, <2>1 DEF Unopposed
  <2>2. CASE p # o
    BY <1>3, <1>5, <1>7, <1>9, <2>2 DEF Unopposed
  <2> QED
    BY <2>1, <2>2
<1>10. ASSUME NEW q \in LkOwner, q # o, lk[q].pc \in {"eagain", "parked"}, lk[q].wait, Awaited(q)
       PROVE  Awaited(q)'
  <2>1. CASE \E b \in Byte : want[o][b] = "W" /\ want'[o][b] # "W"
    BY <1>2, <1>10, <2>1 DEF Awaited, Waiting
  <2>2. CASE ~\E b \in Byte : want[o][b] = "W" /\ want'[o][b] # "W"
    <3>1. \A p \in LkOwner, b \in Byte : Blocks(lk[q].t, want[p][b]) => Blocks(lk[q].t, want'[p][b])
      BY <1>1, <1>3, <1>4, <2>2 DEF Blocks
    <3>2. Blocked(q) => Blocked(q)'
      BY <1>5, <1>10, <3>1 DEF Blocked
    <3>3. \A p \in LkOwner : lk[p].pc = "wake" => lk'[p].pc = "wake"
      BY <1>1, <1>5
    <3> QED
      BY <1>6, <1>10, <3>2, <3>3 DEF Awaited
  <2> QED
    BY <2>1, <2>2
<1>11. ASSUME NEW q \in LkOwner
       PROVE  /\ lk'[q].s <= lk'[q].e
              /\ lk'[q].pc = "insert" => lk'[q].t # "U" /\ \A p \in LkOwner \ {q} : Unopposed(q, p)'
              /\ lk'[q].pc \in {"eagain", "parked"} => lk'[q].wait /\ (lk'[q].woken \/ Awaited(q)')
  <2>1. CASE q = o
    BY <1>5, <2>1, QuietCall
  <2>2. CASE q # o
    BY <1>5, <1>9, <1>10, <2>2 DEF LkInv
  <2> QED
    BY <2>1, <2>2
<1>12. ASSUME NEW p \in LkOwner, p # o, NEW b \in Byte,
              \/ want'[o][b] = "W" /\ want'[p][b] # "U"
              \/ want'[p][b] = "W" /\ want'[o][b] # "U"
       PROVE  p \in blind'[o] \/ o \in blind'[p]
  <2>1. CASE lk[o].s <= b /\ b <= lk[o].e
    <3>1. Blocks(lk[o].t, want[p][b])
      BY <1>1, <1>3, <1>4, <1>12, <2>1 DEF Blocks
    <3>2. Unopposed(o, p)
      BY <1>1, <1>12 DEF LkInv
    <3> QED
      BY <1>7, <2>1, <3>1, <3>2 DEF Unopposed
  <2>2. CASE ~(lk[o].s <= b /\ b <= lk[o].e)
    <3>1. want'[o][b] = want[o][b] /\ want'[p][b] = want[p][b]
      BY <1>3, <1>4, <1>12, <2>2
    <3>2. p \in blind[o] \/ o \in blind[p]
      BY <1>12, <3>1 DEF LkInv
    <3> QED
      BY <1>7, <3>2
  <2> QED
    BY <2>1, <2>2
<1>13. ASSUME NEW q \in LkOwner, NEW p \in LkOwner, q # p, NEW b \in Byte, want'[q][b] = "W", want'[p][b] # "U"
       PROVE  p \in blind'[q] \/ q \in blind'[p]
  <2>1. CASE q = o \/ p = o
    BY <1>12, <1>13, <2>1
  <2>2. CASE q # o /\ p # o
    <3>1. want'[q] = want[q] /\ want'[p] = want[p]
      BY <1>3, <2>2
    <3>2. p \in blind[q] \/ q \in blind[p]
      BY <1>13, <3>1 DEF LkInv
    <3> QED
      BY <1>7, <3>2
  <2> QED
    BY <2>1, <2>2
<1> QED
  BY <1>3, <1>5, <1>8, <1>11, <1>13 DEF LkInv

\* For any owners, mounts and byte ranges: the stored records give each byte the
\* lock its owner last asked for (splitRange), two owners clash only when one
\* committed between the other's read and insert (Flock, Setlk), and no parked
\* SETLKW misses a release of its own mount (lockWaitCh, wakeLockWaiters).
THEOREM LocksStaySound == LkSpec => []LocksSound
<1>1. LkInv /\ [LkNext]_lkVars => LkInv'
  <2> SUFFICES ASSUME LkInv, [LkNext]_lkVars
               PROVE  LkInv'
    OBVIOUS
  <2>1. ASSUME NEW o \in LkOwner,
               \/ SetLk(o) \/ LockWaitCh(o) \/ Unlock(o) \/ LockGranted(o) \/ Refused(o) \/ Park(o)
               \/ Insert(o) \/ CloseFd(o) \/ WakeLockWaiters(o) \/ Retry(o) \/ Interrupted(o)
        PROVE  LkInv'
    BY <2>1, WaitInv, UnlockInv, InsertInv, CloseInv, WakeInv
  <2>2. CASE UNCHANGED lkVars
    <3>1. RecordsExact' /\ LkTypeOK'
      BY <2>2 DEF lkVars, LkInv, LkTypeOK, RecordsExact, TypesAt
    <3>2. \A o \in LkOwner : (Awaited(o) => Awaited(o)') /\ \A p \in LkOwner : Unopposed(o, p) => Unopposed(o, p)'
      BY <2>2 DEF lkVars, Unopposed, Awaited, Blocked
    <3> QED
      BY <2>2, <3>1, <3>2 DEF lkVars, LkInv
  <2> QED
    BY <2>1, <2>2 DEF LkNext
<1>2. LkInv => LocksSound
  <2> SUFFICES ASSUME LkInv
               PROVE  LocksSound
    OBVIOUS
  <2>1. ClashOnlyRaced
    <3> SUFFICES ASSUME NEW o \in LkOwner, NEW p \in LkOwner, o # p, Clash(o, p)
                 PROVE  p \in blind[o] \/ o \in blind[p]
      BY DEF ClashOnlyRaced
    <3>1. PICK b \in Byte : "W" \in TypesAt(o, b) /\ TypesAt(p, b) # {}
      BY DEF Clash
    <3>2. want[o][b] = "W" /\ want[p][b] # "U"
      BY SMT, <3>1 DEF LkInv, RecordsExact
    <3> QED
      BY <3>2 DEF LkInv
  <2>2. NoLostWakeup
    BY ConflictBytes DEF NoLostWakeup, LkInv, Awaited
  <2> QED
    BY <2>1, <2>2 DEF LocksSound, LkInv
<1> QED
  BY LkInitInv, <1>1, <1>2, PTL DEF LkSpec

=============================================================================
