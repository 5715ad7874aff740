---------------------------- MODULE ReleaseStage ----------------------------
(***************************************************************************)
(* What `whoosh <stage> deploy` promises the operators of a stage, with    *)
(* the mechanism (a lock file on one host, fan-outs, phases) removed: at   *)
(* most one deploy is inside the stage, and a host's `current` moves only  *)
(* while a deploy is inside, and only to that deploy's own release.        *)
(***************************************************************************)
EXTENDS Naturals

CONSTANTS Deployers, Hosts, NoRelease

VARIABLES inside,   \* the deploys between acquiring the lock and giving it up
          name,     \* name[d]: the release d builds, NoRelease before d starts
          live      \* live[h]: the release `current` points at on host h

stageVars == <<inside, name, live>>

\* Every host's `current` is where it was or at d's release, or it is away: where a
\* link cannot be replaced it is removed and made anew.
Swapped(d) ==
    /\ DOMAIN live' = Hosts
    /\ \A h \in Hosts : live'[h] \in {live[h], name[d], NoRelease}

StageInit ==
    /\ inside = {}
    /\ name = [d \in Deployers |-> NoRelease]
    /\ DOMAIN live = Hosts

Announce(d) ==
    /\ name[d] = NoRelease
    /\ name'[d] \in Nat
    /\ name' = [name EXCEPT ![d] = name'[d]]
    /\ UNCHANGED <<inside, live>>

Enter(d) ==
    /\ inside = {}
    /\ inside' = {d}
    /\ UNCHANGED <<name, live>>

Publish(d) ==
    /\ inside = {d}
    /\ Swapped(d)
    /\ UNCHANGED <<inside, name>>

\* A deploy that dies while publishing leaves some hosts swapped and some not.
Leave(d) ==
    /\ inside = {d}
    /\ inside' = {}
    /\ Swapped(d)
    /\ UNCHANGED name

StageNext ==
    \E d \in Deployers : Announce(d) \/ Enter(d) \/ Publish(d) \/ Leave(d)

StageSpec == StageInit /\ [][StageNext]_stageVars

=============================================================================
