---------------------------- MODULE MountManager ----------------------------
(***************************************************************************)
(* The CSI node plugin and one domain's mount (mountmanager.go, node.go):  *)
(* pods hold the mount, the last one to leave starts a grace period, and   *)
(* state.json lets a restarted plugin take a live mount back.  The manager *)
(* works under one lock; the daemon, the plugin and any call may fail.     *)
(***************************************************************************)
EXTENDS Naturals, FiniteSets

CONSTANTS
    Target,               \* pod target paths
    Grace,                \* lingering configurations to consider (booleans)
    MaxDaemon, MaxFault   \* bounds: daemons launched, failures of every kind

ASSUME MountAssumption == {MaxDaemon, MaxFault} \subseteq Nat

VARIABLES
    grace,    \* an idle mount lingers
    plugin,       \* the plugin runs
    entry,    \* the manager's record: [on, refs]
    timer,    \* a teardown is armed
    fired,    \* its callback waits for the lock
    saved,    \* state.json: [on, refs]
    mount,   \* the mlfs process: [no, live]; no = 0: none, not live: a stale endpoint
    pod,      \* where each target's publish stands
    bind,     \* the daemon each target is bind-mounted from; 0: none
    faults,
    \* History.
    launched, \* daemons launched so far
    forgotten,  \* holders a failed relaunch, or a restart over a dead mount, forgot
    died,     \* daemons that died by themselves
    strays    \* daemons whose launch was never recorded, or whose stop failed

mmVars == <<grace, plugin, entry, timer, fired, saved, mount, pod, bind, faults, launched, strays, forgotten, died>>

NoEntry == [on |-> FALSE, refs |-> {}]
Held(S) == [on |-> TRUE, refs |-> S]
NoDaemon == [no |-> 0, live |-> FALSE]
Bare == MaxDaemon + 1     \* bound to the directory under the mount
Fault == faults < MaxFault /\ faults' = faults + 1

MmTypeOK ==
    /\ \A e \in {entry, saved} : e.refs \subseteq Target /\ (e.refs # {} => e.on)
    /\ mount.no \in 0 .. launched /\ launched \in 0 .. MaxDaemon /\ faults \in 0 .. MaxFault
    /\ pod \in [Target -> {"absent", "acquired", "retry", "bound", "unbound"}]
    /\ bind \in [Target -> (0 .. launched) \cup {Bare}] /\ strays \subseteq 1 .. launched
    /\ {plugin, timer, fired} \subseteq BOOLEAN

MmInit ==
    /\ grace \in Grace /\ plugin = TRUE /\ entry = NoEntry /\ timer = FALSE /\ fired = FALSE
    /\ saved = NoEntry /\ mount = NoDaemon /\ pod = [t \in Target |-> "absent"]
    /\ bind = [t \in Target |-> 0] /\ faults = 0 /\ launched = 0 /\ strays = {} /\ forgotten = {} /\ died = {}

----------------------------------------------------------------------------
LaunchDaemon == launched < MaxDaemon /\ launched' = launched + 1
Fresh1 == [no |-> launched + 1, live |-> TRUE]

\* persistLocked replaces state.json, or fails and leaves it.
Persisted(e) == saved' = e /\ UNCHANGED faults
NotPersisted == Fault /\ UNCHANGED saved

\* The kubelet calls, and calls again after an error.
Wanted(t) == pod[t] \in {"absent", "acquired", "retry"}

\* Acquire on a mount that serves: one more holder, no teardown.
Acquire(t) ==
    /\ plugin /\ Wanted(t) /\ entry.on /\ mount.live
    /\ entry' = Held(entry.refs \cup {t}) /\ timer' = FALSE
    /\ \/ Persisted(entry') /\ pod' = [pod EXCEPT ![t] = "acquired"]
       \/ NotPersisted /\ pod' = [pod EXCEPT ![t] = "retry"]
    /\ UNCHANGED <<grace, plugin, fired, mount, bind, launched, strays, forgotten, died>>

\* A first launch, or one for a dead mount: the holders are carried over.
Carried_None(t) == {t}
Carried(t) == entry.refs \cup {t}

AcquireLaunch(t) ==
    /\ plugin /\ Wanted(t) /\ ~(entry.on /\ mount.live)
    /\ LaunchDaemon /\ mount' = Fresh1 /\ timer' = FALSE
    /\ entry' = Held(Carried(t)) /\ Persisted(entry')
    /\ pod' = [pod EXCEPT ![t] = "acquired"]
    /\ strays' = IF mount.live THEN strays \cup {mount.no} ELSE strays
    /\ UNCHANGED <<grace, plugin, fired, bind, forgotten, died>>

\* It does not come up, or state.json cannot be written: rolled back, holders
\* and all; the daemon may refuse to stop.
AcquireFails(t) ==
    /\ plugin /\ Wanted(t) /\ ~(entry.on /\ mount.live)
    /\ Fault /\ entry' = NoEntry /\ timer' = FALSE
    /\ \/ UNCHANGED launched /\ mount' = (IF entry.on THEN NoDaemon ELSE mount) /\ UNCHANGED strays
       \/ LaunchDaemon /\ mount' = NoDaemon /\ UNCHANGED strays
       \/ LaunchDaemon /\ mount' = Fresh1 /\ strays' = strays \cup {launched + 1}
    /\ pod' = [pod EXCEPT ![t] = "retry"] /\ forgotten' = forgotten \cup (entry.refs \ {t})
    /\ UNCHANGED <<grace, plugin, fired, saved, bind, died>>

\* The plugin ends, and with it the calls it was serving ...
Down == /\ plugin' = FALSE /\ entry' = NoEntry /\ timer' = FALSE /\ fired' = FALSE
        /\ pod' = [t \in Target |-> IF pod[t] = "acquired" THEN "retry" ELSE pod[t]]

\* ... between the launch and the record.
AcquireCrash(t) ==
    /\ plugin /\ Wanted(t) /\ ~(entry.on /\ mount.live)
    /\ Fault /\ LaunchDaemon /\ mount' = Fresh1 /\ strays' = strays \cup {launched + 1}
    /\ Down /\ UNCHANGED <<grace, saved, bind, forgotten, died>>

\* NodePublishVolume goes on to bind the target, unless it is bound already, to
\* a directory it makes if it is missing; a failure leaves the hold.
Publish(t) ==
    /\ plugin /\ pod[t] = "acquired"
    /\ pod' = [pod EXCEPT ![t] = "bound"]
    /\ bind' = [bind EXCEPT ![t] = IF @ # 0 THEN @ ELSE IF mount.no = 0 THEN Bare ELSE mount.no]
    /\ UNCHANGED <<grace, plugin, entry, timer, fired, saved, mount, faults, launched, strays, forgotten, died>>

\* NodeUnpublishVolume: the bind mount first, then the hold.
Unpublish(t) ==
    /\ plugin /\ pod[t] \in {"acquired", "retry", "bound"}
    /\ pod' = [pod EXCEPT ![t] = "unbound"] /\ bind' = [bind EXCEPT ![t] = 0]
    /\ UNCHANGED <<grace, plugin, entry, timer, fired, saved, mount, faults, launched, strays, forgotten, died>>

\* Release of one holder among several, or of none (already released).
Release(t) ==
    /\ plugin /\ pod[t] = "unbound" /\ (t \notin entry.refs \/ entry.refs # {t})
    /\ entry' = [entry EXCEPT !.refs = @ \ {t}]
    /\ \/ t \in entry.refs /\ NotPersisted /\ UNCHANGED pod
       \/ /\ pod' = [pod EXCEPT ![t] = "absent"]
          /\ IF t \in entry.refs THEN Persisted(entry') ELSE UNCHANGED <<saved, faults>>
    /\ UNCHANGED <<grace, plugin, timer, fired, mount, bind, launched, strays, forgotten, died>>

\* The last holder leaves: the grace period starts ...
ReleaseIdle(t) ==
    /\ plugin /\ pod[t] = "unbound" /\ entry.refs = {t} /\ grace
    /\ entry' = Held({}) /\ timer' = TRUE
    /\ \/ Persisted(entry') /\ pod' = [pod EXCEPT ![t] = "absent"]
       \/ NotPersisted /\ UNCHANGED pod
    /\ UNCHANGED <<grace, plugin, fired, mount, bind, launched, strays, forgotten, died>>

\* ... or the mount goes at once; a daemon that does not stop keeps its holder.
ReleaseDown(t) ==
    /\ plugin /\ pod[t] = "unbound" /\ entry.refs = {t} /\ ~grace
    /\ \/ /\ entry' = NoEntry /\ mount' = NoDaemon
          /\ \/ Persisted(entry') /\ pod' = [pod EXCEPT ![t] = "absent"]
             \/ NotPersisted /\ UNCHANGED pod
       \/ Fault /\ UNCHANGED <<entry, mount, saved, pod>>
    /\ UNCHANGED <<grace, plugin, timer, fired, bind, launched, strays, forgotten, died>>

GraceFires == /\ plugin /\ timer /\ ~fired /\ timer' = FALSE /\ fired' = TRUE
              /\ UNCHANGED <<grace, plugin, entry, saved, mount, pod, bind, faults, launched, strays, forgotten, died>>

\* graceTeardown looks again under the lock.
StillIdle == entry.on /\ entry.refs = {}

GraceTeardown_NoRetry ==
    /\ plugin /\ fired /\ fired' = FALSE
    /\ \/ ~StillIdle /\ UNCHANGED <<entry, timer, mount, saved, faults>>
       \/ /\ StillIdle /\ entry' = NoEntry /\ mount' = NoDaemon /\ UNCHANGED timer
          /\ Persisted(entry') \/ NotPersisted
       \/ StillIdle /\ Fault /\ UNCHANGED <<timer, entry, mount, saved>>
    /\ UNCHANGED <<grace, plugin, pod, bind, launched, strays, forgotten, died>>

GraceTeardown ==
    /\ plugin /\ fired /\ fired' = FALSE
    /\ \/ ~StillIdle /\ UNCHANGED <<entry, timer, mount, saved, faults>>
       \/ /\ StillIdle /\ entry' = NoEntry /\ mount' = NoDaemon /\ UNCHANGED timer
          /\ Persisted(entry') \/ NotPersisted
       \/ StillIdle /\ Fault /\ timer' = TRUE /\ UNCHANGED <<entry, mount, saved>>
    /\ UNCHANGED <<grace, plugin, pod, bind, launched, strays, forgotten, died>>

----------------------------------------------------------------------------
DaemonDies == /\ Fault /\ mount.live /\ mount' = [mount EXCEPT !.live = FALSE]
              /\ died' = died \cup {mount.no}
              /\ UNCHANGED <<grace, plugin, entry, timer, fired, saved, pod, bind, launched, strays, forgotten>>

PluginCrash ==
    /\ Fault /\ plugin /\ Down /\ UNCHANGED <<grace, saved, mount, bind, launched, strays, forgotten, died>>

\* Adopt: a recorded mount that serves is taken back, with its holders or its
\* countdown; one that does not is cleared away.
Adopt ==
    /\ ~plugin /\ plugin' = TRUE /\ UNCHANGED <<fired, faults>>
    /\ entry' = IF saved.on /\ mount.live /\ (saved.refs # {} \/ grace) THEN saved ELSE NoEntry
    /\ timer' = (entry'.on /\ entry'.refs = {})
    /\ mount' = IF saved.on /\ ~entry'.on THEN NoDaemon ELSE mount
    /\ saved' = entry' /\ forgotten' = forgotten \cup (saved.refs \ entry'.refs)
    /\ UNCHANGED <<grace, pod, bind, launched, strays, died>>

MmNext ==
    \/ \E t \in Target :
        \/ Acquire(t) \/ AcquireLaunch(t) \/ AcquireFails(t) \/ AcquireCrash(t) \/ Publish(t)
        \/ Unpublish(t) \/ Release(t) \/ ReleaseIdle(t) \/ ReleaseDown(t)
    \/ GraceFires \/ GraceTeardown \/ DaemonDies \/ PluginCrash \/ Adopt

MmSpec == MmInit /\ [][MmNext]_mmVars

----------------------------------------------------------------------------
\* No mount is taken from under a pod: a bound target's daemon is still the
\* domain's, unless it died by itself, was left over by a failed launch, or the
\* loss of a dead mount had lost the target's hold.
ServesBound == \A t \in Target \ forgotten :
    pod[t] = "bound" => bind[t] \in {mount.no, Bare} \cup died \cup strays

\* Every serving daemon is accounted for, but for the ones whose launch or stop
\* went wrong half way.
Accounted == mount.live /\ mount.no \notin strays => (IF plugin THEN entry ELSE saved).on

\* A mount without holders goes away in time, unless a pod takes it again:
\* across plugin restarts (Adopt's countdown) and stops that fail (the grace
\* timer is armed again).
Recorded == IF plugin THEN entry ELSE saved
IdleGoes == (Recorded.on /\ Recorded.refs = {}) ~> (~Recorded.on \/ Recorded.refs # {})

\* "Carrying existing holders forward so ref-counting stays correct": a target
\* that is publishing or published on a daemon started for the domain is held.
\* Refuted (no run checks it): a dead daemon is removed, the relaunch fails,
\* and the next launch starts with no holders.
HoldersCarried == \A t \in Target :
    pod[t] = "bound" /\ mount.live /\ bind[t] = mount.no /\ mount.no \notin strays /\ plugin
        => t \in entry.refs

\* The mounts of a domain: the one a pod is bound to stays, and every serving
\* daemon has a record (Acquire, Release, Adopt).
MountSound == MmTypeOK /\ ServesBound /\ Accounted

=============================================================================
