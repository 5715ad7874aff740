---------------------------- MODULE FanoutProofs ----------------------------
(***************************************************************************)
(* Proofs about Fanout for every set of hosts, number of slots and policy. *)
(***************************************************************************)
EXTENDS Fanout, FiniteSetTheorems, TLAPS

\* Without an interrupt nothing is done under a policy that does not fail fast.
Undisturbed ==
    policy # "abort" /\ ~interrupted =>
        /\ ~done
        /\ \A t \in Targets : goroutine[t] # "canceling"

Independence == Undisturbed /\ HostsIndependent

LEMMA IndependenceInit == Init => Independence
BY DEF Init, Independence, Undisturbed, HostsIndependent

\* What the end of a goroutine leaves behind.
LEMMA EndsIndependent ==
    ASSUME Independence, NEW t \in Targets, NEW e, Ends(t, e),
           e \in {"canceled", "skipped"} => done
    PROVE  Independence'
BY DEF Independence, Undisturbed, HostsIndependent, Ends, FailFast

LEMMA IndependenceStep == Independence /\ [Next]_vars => Independence'
<1> SUFFICES ASSUME Independence, [Next]_vars PROVE Independence'
  OBVIOUS
<1> USE DEF Independence, Undisturbed, HostsIndependent
<1>1. CASE UNCHANGED vars
  BY <1>1 DEF vars, judgement
<1>2. CASE Spawn
  BY <1>2 DEF Spawn, judgement
<1>3. CASE Judge
  BY <1>3 DEF Judge
<1>4. CASE Interrupt
  BY <1>4 DEF Interrupt
<1>5. ASSUME NEW t \in Targets, Work(t) PROVE Independence'
  <2>1. CASE Enter(t) \/ Connects(t) \/ Leave(t)
    <3>1. /\ UNCHANGED <<policy, interrupted, done, results>>
          /\ \E s \in {"dialing", "running", "gone"} : goroutine' = [goroutine EXCEPT ![t] = s]
      BY <2>1 DEF Enter, Connects, Leave
    <3> QED
      BY <3>1
  <2>2. CASE SkipTarget(t)
    BY <2>2, EndsIndependent DEF SkipTarget
  <2>3. CASE DialFails(t)
    BY <2>3, EndsIndependent DEF DialFails
  <2>4. CASE RunEnds(t)
    BY <2>4, EndsIndependent DEF RunEnds
  <2>5. CASE CancelRest(t)
    BY <2>5 DEF CancelRest, judgement
  <2> QED
    BY <1>5, <2>1, <2>2, <2>3, <2>4, <2>5 DEF Work
<1> QED
  BY <1>1, <1>2, <1>3, <1>4, <1>5 DEF Next

\* Under `skip` and continue_on_error no host is stopped or skipped for another,
\* however many hosts, slots and failures there are (run.go:146-149).
THEOREM HostsStayIndependent == Spec => []HostsIndependent
<1>1. Independence => HostsIndependent
  BY DEF Independence
<1> QED
  BY IndependenceInit, IndependenceStep, <1>1, PTL DEF Spec

-----------------------------------------------------------------------------
(* The host that is blamed.                                                *)

\* What the judgement says of the results it was made from.  It stays true because
\* nothing runs any more then, and the loop has nobody left to start.
Blame ==
    /\ results \in [Targets -> Errors \cup {"nil"}]
    /\ next \in Nat \ {0}
    /\ \A i \in DOMAIN Order : i >= next => goroutine[Order[i]] = "unborn"
    /\ DOMAIN goroutine = Targets
    /\ outcome # "none" => \A t \in Targets : goroutine[t] = "gone"
    /\ RootCauseSurfaces

\* FirstIndex is an index of the set.
LEMMA FirstIndexIn ==
    ASSUME NEW P \in SUBSET Nat, P # {}
    PROVE  FirstIndex(P) \in P
<1>1. IsWellFoundedOn(OpToRel(<, Nat), Nat)
  BY NatLessThanWellFounded
<1>2. PICK x \in P : \A y \in P : ~(<<y, x>> \in OpToRel(<, Nat))
  BY <1>1, WFMin
<1>3. \A y \in P : ~(y < x)
  BY <1>2, Zenon DEF OpToRel
<1>4. \A y \in P : x <= y
  BY <1>3
<1> QED BY <1>4 DEF FirstIndex

\* A host picked from a set of indices that is not empty is at one of them.
LEMMA HostPicked ==
    ASSUME NEW P \in SUBSET DOMAIN Order, P # {}
    PROVE  \E i \in P : HostAt(FirstIndex(P)) = Order[i]
<1>1. DOMAIN Order \subseteq Nat \ {0}
  BY FanoutAssumption
<1>2. FirstIndex(P) \in P
  BY <1>1, FirstIndexIn
<1> QED BY <1>1, <1>2 DEF HostAt

LEMMA BlameInit == Init => Blame
BY FanoutAssumption DEF Init, Blame, RootCauseSurfaces

\* The scans put a culprit's error before all others.
LEMMA JudgeBlames == ASSUME Blame, Judge PROVE RootCauseSurfaces'
<1> DEFINE own == {i \in Where(OwnErrors) : ~IsUnreachable(results[Order[i]]) \/ Order[i] \in Required}
<1> SUFFICES ASSUME outcome' = "failed", NEW t \in Targets, Culprit(t)' PROVE Culprit(surfaced)'
  BY DEF RootCauseSurfaces
<1>1. UNCHANGED <<policy, results>> /\ Culprit(t)
  BY DEF Judge, Culprit
<1>2. PICK i \in DOMAIN Order : Order[i] = t
  BY FanoutAssumption
<1>3. i \in Where(OwnErrors)
  BY <1>1, <1>2 DEF Culprit, Where
<1>4. CASE policy = "abort"
  <2>1. surfaced' = FirstError
    BY <1>4 DEF Judge
  <2>2. PICK j \in Where(OwnErrors) : HostAt(FirstIndex(Where(OwnErrors))) = Order[j]
    BY <1>3, HostPicked DEF Where
  <2>3. surfaced' = Order[j] /\ results[Order[j]] \in OwnErrors
    BY <1>3, <2>1, <2>2 DEF FirstError, Where
  <2> QED BY <1>1, <1>4, <2>3 DEF Culprit
<1>5. CASE policy = "skip"
  <2>1. surfaced' = FatalUnderSkip
    BY <1>5 DEF Judge
  <2>2. i \in own /\ own \subseteq DOMAIN Order
    BY <1>1, <1>2, <1>3, <1>5 DEF Culprit, Where
  <2>3. PICK j \in own : HostAt(FirstIndex(own)) = Order[j]
    BY <2>2, HostPicked
  <2>4. surfaced' = Order[j] /\ results[Order[j]] \in OwnErrors
        /\ (~IsUnreachable(results[Order[j]]) \/ Order[j] \in Required)
    BY <2>1, <2>2, <2>3 DEF FatalUnderSkip, Where
  <2> QED BY <1>1, <1>5, <2>4 DEF Culprit
<1>6. CASE policy \notin {"abort", "skip"}
  BY <1>6 DEF Judge
<1> QED BY <1>4, <1>5, <1>6

\* What the end of a goroutine leaves behind; nothing is judged yet then.
LEMMA EndsBlame ==
    ASSUME Blame, NEW t \in Targets, NEW e \in Errors \cup {"nil"}, Ends(t, e),
           goroutine[t] \notin {"unborn", "gone"}
    PROVE  Blame'
BY DEF Blame, Ends, RootCauseSurfaces, judgement

LEMMA BlameStep == Blame /\ [Next]_vars => Blame'
<1> SUFFICES ASSUME Blame, [Next]_vars PROVE Blame'
  OBVIOUS
<1>1. CASE UNCHANGED vars
  BY <1>1 DEF vars, judgement, Blame, RootCauseSurfaces, Culprit
<1>2. CASE Spawn
  <2>1. Order[next] \in Targets /\ next \in DOMAIN Order /\ goroutine[Order[next]] = "unborn"
    BY <1>2, FanoutAssumption DEF Spawn, Blame
  <2>2. \A i \in DOMAIN Order : i >= next' => Order[i] # Order[next]
    BY <1>2, <2>1, FanoutAssumption DEF Spawn, Blame
  <2>3. outcome = "none"
    BY <2>1 DEF Blame
  <2> QED BY <1>2, <2>1, <2>2, <2>3 DEF Spawn, judgement, Blame, RootCauseSurfaces
<1>3. CASE Judge
  <2>1. RootCauseSurfaces'
    BY <1>3, JudgeBlames
  <2> QED BY <1>3, <2>1 DEF Judge, Blame
<1>4. CASE Interrupt
  BY <1>4 DEF Interrupt, judgement, Blame, RootCauseSurfaces
<1>5. ASSUME NEW t \in Targets, Work(t) PROVE Blame'
  <2>1. CASE \E s \in {"dialing", "running", "leaving", "gone"} :
                 /\ goroutine' = [goroutine EXCEPT ![t] = s]
                 /\ goroutine[t] \notin {"unborn", "gone"}
                 /\ UNCHANGED <<policy, next, results, judgement>>
    BY <2>1 DEF Blame, RootCauseSurfaces, judgement
  <2>2. CASE Enter(t) \/ Connects(t) \/ CancelRest(t) \/ Leave(t)
    BY <2>1, <2>2 DEF Enter, Connects, CancelRest, Leave
  <2>3. CASE SkipTarget(t)
    BY <2>3, EndsBlame DEF SkipTarget, Errors
  <2>4. CASE DialFails(t)
    BY <2>4, EndsBlame DEF DialFails, Errors
  <2>5. CASE RunEnds(t)
    BY <2>5, EndsBlame DEF RunEnds, Errors
  <2> QED
    BY <1>5, <2>2, <2>3, <2>4, <2>5 DEF Work
<1> QED
  BY <1>1, <1>2, <1>3, <1>4, <1>5 DEF Next

\* A host that failed by itself is what the caller hears of, never one that was only
\* stopped because of it, for any hosts, order, slots and policy
\* (executor.go:324-329, targets.go:70-74).
THEOREM CulpritsSurface == Spec => []RootCauseSurfaces
<1>1. Blame => RootCauseSurfaces
  BY DEF Blame
<1> QED
  BY BlameInit, BlameStep, <1>1, PTL DEF Spec

-----------------------------------------------------------------------------
(* A step of hosts that answer, seen by its caller.                        *)

AnswerSeen == [t \in Targets |-> IF t \in settled THEN AnswerOf(results[t]) ELSE "waiting"]

Stages == {"unborn", "born", "dialing", "running", "canceling", "leaving", "gone"}

\* A target has answered once its goroutine is past its work; only a failure of a
\* fail-fast step makes a goroutine cancel the others; the fan-out's context is done only
\* for the caller or for such a failure.
StepInv ==
    /\ policy \in {"abort", "skip", "continue"}
    /\ goroutine \in [Targets -> Stages]
    /\ results \in [Targets -> Errors \cup {"nil"}]
    /\ settled = {t \in Targets : goroutine[t] \in {"canceling", "leaving", "gone"}}
    /\ \A t \in Targets : goroutine[t] = "canceling" => policy = "abort" /\ results[t] # "nil"
    /\ done => interrupted \/ (policy = "abort" /\ \E t \in settled : results[t] # "nil")

\* Nothing but an error is a bad answer.
LEMMA BadAnswers ==
    ASSUME StepInv
    PROVE  /\ Seen!Bad = {t \in settled : results[t] # "nil"}
           /\ \A t \in Targets : AnswerSeen[t] # "waiting" <=> t \in settled
           /\ \A e \in Errors \cup {"nil"} : AnswerOf(e) \in Seen!Answers
BY DEF StepInv, Seen!Bad, Seen!Answers, AnswerOf, AnswerSeen, Errors

LEMMA StepInvInit == Init => StepInv
BY FanoutAssumption DEF Init, StepInv, Stages

\* A goroutine ends: its target answers, cancelled only if the context is done.
LEMMA EndsStep ==
    ASSUME StepInv, NEW t \in Targets, NEW e \in Errors \cup {"nil"}, Ends(t, e),
           goroutine[t] \in {"born", "dialing", "running"},
           e \in {"canceled", "skipped"} => done
    PROVE  StepInv' /\ (Seen!Answered(t) \/ Seen!TimedOut(t))
<1>1. StepInv'
  BY DEF StepInv, Ends, FailFast, Stages, judgement
<1>2. t \notin settled /\ AnswerSeen[t] = "waiting"
  BY DEF StepInv, AnswerSeen
<1>3. AnswerSeen' = [AnswerSeen EXCEPT ![t] = AnswerOf(e)]
  BY <1>2 DEF StepInv, Ends, AnswerSeen
<1>4. UNCHANGED <<policy, interrupted, outcome, dropped>>
  BY DEF Ends, judgement
<1>5. AnswerOf(e) \in Seen!Answers
  BY BadAnswers
<1>6. CASE e \in {"canceled", "skipped"}
  <2>1. interrupted \/ (policy = "abort" /\ Seen!Bad # {})
    BY <1>6, BadAnswers DEF StepInv
  <2> QED
    BY <1>1, <1>2, <1>3, <1>4, <1>5, <2>1 DEF Seen!Answered, AnswerSeen
<1>7. CASE e = "timeout"
  BY <1>1, <1>2, <1>3, <1>4, <1>7 DEF Seen!TimedOut, AnswerSeen, AnswerOf
<1>8. CASE e \notin {"canceled", "skipped", "timeout"}
  <2>1. AnswerOf(e) # "canceled"
    BY <1>8 DEF AnswerOf, Errors
  <2> QED
    BY <1>1, <1>2, <1>3, <1>4, <1>5, <2>1 DEF Seen!Answered, AnswerSeen
<1> QED
  BY <1>6, <1>7, <1>8

\* A scan finds nobody exactly if no result is one of the errors it looks for.
LEMMA NobodyFound ==
    ASSUME NEW P \in SUBSET DOMAIN Order
    PROVE  HostAt(FirstIndex(P)) = NoHost <=> P = {}
<1>1. CASE P = {}
  BY <1>1 DEF FirstIndex, HostAt
<1>2. CASE P # {}
  <2>1. PICK i \in P : HostAt(FirstIndex(P)) = Order[i]
    BY <1>2, HostPicked
  <2>2. Order[i] \in Targets
    BY <2>1, FanoutAssumption
  <2> QED
    BY <1>2, <2>1, <2>2, FanoutAssumption
<1> QED
  BY <1>1, <1>2

\* The judgement scans in target order, and yet asks for the set of bad answers alone.
LEMMA JudgeStep == ASSUME StepInv, Judge PROVE Seen!Judged
<1> DEFINE own == {i \in Where(OwnErrors) : ~IsUnreachable(results[Order[i]]) \/ Order[i] \in Required}
<1>1. /\ settled = Targets /\ outcome = "none"
      /\ UNCHANGED <<policy, interrupted, results, settled>>
  BY DEF StepInv, Judge
<1>2. Seen!Bad = {t \in Targets : results[t] # "nil"}
  BY <1>1, BadAnswers
<1>3. Seen!Forgivable = {t \in Targets : results[t] = "unreachable"} \ Required
  BY <1>1 DEF Seen!Forgivable, AnswerOf, AnswerSeen, StepInv, Errors
<1>4. /\ \A errs : Where(errs) \in SUBSET DOMAIN Order
      /\ \A errs : Where(errs) = {} <=> \A t \in Targets : results[t] \notin errs
  BY FanoutAssumption DEF Where
<1>5. OwnErrors = {"exit", "unreachable"}
  BY DEF OwnErrors, Errors, IsContextError
<1>6. CASE policy = "abort"
  <2>1. surfaced' = FirstError /\ dropped' = {}
    BY <1>6 DEF Judge
  <2>2. Where(Errors) = {} => Where(OwnErrors) = {}
    BY <1>4 DEF OwnErrors
  <2>3. surfaced' = NoHost <=> Where(Errors) = {}
    BY <1>4, <2>1, <2>2, NobodyFound DEF FirstError
  <2>4. surfaced' = NoHost <=> Seen!Bad = {}
    BY <1>2, <1>4, <2>3 DEF StepInv, Errors
  <2> QED
    BY <1>1, <1>6, <2>1, <2>4, BadAnswers DEF Judge, Seen!Judged, AnswerSeen
<1>7. CASE policy = "skip"
  <2>1. surfaced' = FatalUnderSkip
    BY <1>7 DEF Judge
  <2>2. own \in SUBSET DOMAIN Order
    BY DEF Where
  <2>3. surfaced' = NoHost <=> own = {} /\ Where(Errors \ OwnErrors) = {}
    BY <1>4, <2>1, <2>2, NobodyFound DEF FatalUnderSkip
  <2>4. own = {} <=> \A t \in Targets : results[t] # "exit" /\ ~(results[t] = "unreachable" /\ t \in Required)
    BY <1>5, FanoutAssumption DEF Where, IsUnreachable
  <2>5. Where(Errors \ OwnErrors) = {} <=> \A t \in Targets : results[t] \notin {"timeout", "canceled", "skipped"}
    BY <1>4, <1>5 DEF Errors
  <2>6. surfaced' = NoHost <=> Seen!Bad \subseteq Seen!Forgivable
    BY <1>2, <1>3, <2>3, <2>4, <2>5 DEF StepInv, Errors
  <2>7. dropped' = IF Seen!Bad \subseteq Seen!Forgivable THEN Seen!Bad ELSE {}
    BY <1>2, <1>7, <2>6 DEF Judge
  <2>8. surfaced' = NoHost <=> Seen!Bad = dropped'
    BY <2>6, <2>7
  <2> QED
    BY <1>1, <1>7, <2>7, <2>8, BadAnswers DEF Judge, Seen!Judged, AnswerSeen
<1>8. CASE policy = "continue"
  <2>1. surfaced' = NoHost /\ dropped' = {}
    BY <1>8 DEF Judge
  <2> QED
    BY <1>1, <1>8, <2>1, BadAnswers DEF Judge, Seen!Judged, AnswerSeen
<1> QED
  BY <1>6, <1>7, <1>8 DEF StepInv

LEMMA StepMaps ==
    Blame /\ StepInv /\ [Next]_vars => StepInv' /\ [Seen!StepNext]_(Seen!stepVars)
<1> SUFFICES ASSUME Blame, StepInv, [Next]_vars
             PROVE  StepInv' /\ [Seen!StepNext]_(Seen!stepVars)
  OBVIOUS
<1>1. CASE UNCHANGED vars
  BY <1>1 DEF vars, judgement, StepInv, Seen!stepVars
<1>2. CASE Interrupt
  <2>1. StepInv' /\ Seen!Interrupted
    BY <1>2 DEF Interrupt, judgement, StepInv, Seen!Interrupted
  <2> QED
    BY <2>1 DEF Seen!StepNext
<1>3. CASE Judge
  <2>1. StepInv'
    BY <1>3 DEF Judge, StepInv
  <2> QED
    BY <1>3, <2>1, JudgeStep DEF Seen!StepNext
<1>4. ASSUME NEW t \in Targets, NEW s \in Stages, goroutine' = [goroutine EXCEPT ![t] = s],
             UNCHANGED <<policy, interrupted, results, settled, judgement>>,
             s = "canceling" => FALSE,
             goroutine[t] \in {"canceling", "leaving", "gone"} <=> s \in {"leaving", "gone"},
             done' => done \/ goroutine[t] = "canceling"
      PROVE  StepInv' /\ UNCHANGED Seen!stepVars
  <2>1. StepInv'
    BY <1>4 DEF StepInv
  <2> QED
    BY <1>4, <2>1 DEF judgement, Seen!stepVars
<1>5. CASE Spawn
  <2>1. Order[next] \in Targets /\ goroutine[Order[next]] = "unborn"
    BY <1>5, FanoutAssumption DEF Spawn, Blame
  <2> QED
    BY <1>4, <1>5, <2>1 DEF Spawn, Stages
<1>6. ASSUME NEW t \in Targets, Work(t)
      PROVE  StepInv' /\ [Seen!StepNext]_(Seen!stepVars)
  <2>1. CASE Enter(t)
    BY <1>4, <2>1 DEF Enter, Stages
  <2>2. CASE Connects(t)
    BY <1>4, <2>2 DEF Connects, Stages
  <2>3. CASE CancelRest(t)
    BY <1>4, <2>3 DEF CancelRest, Stages
  <2>4. CASE Leave(t)
    BY <1>4, <2>4 DEF Leave, Stages
  <2>5. CASE SkipTarget(t) \/ DialFails(t) \/ RunEnds(t)
    <3>1. PICK e \in Errors \cup {"nil"} : Ends(t, e) /\ (e \in {"canceled", "skipped"} => done)
      BY <2>5 DEF SkipTarget, DialFails, RunEnds, Errors
    <3>2. goroutine[t] \in {"born", "dialing", "running"}
      BY <2>5 DEF SkipTarget, DialFails, RunEnds
    <3> QED
      BY <3>1, <3>2, EndsStep DEF Seen!StepNext
  <2> QED
    BY <1>6, <2>1, <2>2, <2>3, <2>4, <2>5 DEF Work
<1> QED
  BY <1>1, <1>2, <1>3, <1>5, <1>6 DEF Next

\* The loop, the goroutines and their shared context keep the rules by which Deploy
\* and TaskRun send a command, for any hosts, order, slots, policy and faults
\* (runner.go:62-89, cluster.go:99-165, executor.go:318-344, targets.go:59-103).
THEOREM StepKept == Spec => ImplementsStep
<1>1. Init => Seen!StepInit
  BY FanoutAssumption DEF Init, Seen!StepInit, AnswerSeen
<1> QED
  BY <1>1, StepInvInit, StepMaps, BlameInit, BlameStep, PTL DEF Spec, ImplementsStep, Seen!StepSpec

-----------------------------------------------------------------------------
(* The semaphore.                                                          *)

\* Every slot is free or held by one goroutine between its two ends.
SlotsCounted ==
    /\ IsFiniteSet(Working)
    /\ free \in Nat
    /\ free + Cardinality(Working) = Slots

TypeInv == TypeOK /\ StepInv /\ Blame /\ SlotsCounted

LEMMA SlotsInNat == Slots \in Nat
BY FanoutAssumption DEF Slots

LEMMA TypeInvInit == Init => TypeInv
<1> SUFFICES ASSUME Init PROVE TypeInv
  OBVIOUS
<1>1. Working = {}
  BY DEF Init, Working
<1>2. SlotsCounted
  BY <1>1, SlotsInNat, FS_EmptySet DEF Init, SlotsCounted
<1>3. TypeOK
  <2>1. next \in 1..(Len(Order) + 1) /\ free \in 0..Slots
    BY FanoutAssumption, SlotsInNat DEF Init, Slots
  <2> QED
    BY <2>1, FanoutAssumption DEF Init, TypeOK
<1> QED
  BY <1>2, <1>3, StepInvInit, BlameInit DEF TypeInv

\* A goroutine goes on between its two ends.
LEMMA SlotKept ==
    ASSUME SlotsCounted, Working' = Working, free' = free
    PROVE  SlotsCounted' /\ free' \in 0..Slots
BY SlotsInNat, FS_CardinalityType DEF SlotsCounted, Slots

LEMMA SlotTaken == ASSUME TypeInv, Spawn PROVE SlotsCounted' /\ free' \in 0..Slots
<1>1. Order[next] \in Targets /\ goroutine[Order[next]] = "unborn"
  BY FanoutAssumption DEF Spawn, TypeInv, Blame
<1>2. Working' = Working \cup {Order[next]} /\ Order[next] \notin Working
  BY <1>1 DEF Spawn, TypeInv, StepInv, Working
<1>3. IsFiniteSet(Working)' /\ Cardinality(Working)' = Cardinality(Working) + 1
  BY <1>2, FS_AddElement DEF TypeInv, SlotsCounted
<1>4. Cardinality(Working) \in Nat
  BY FS_CardinalityType DEF TypeInv, SlotsCounted
<1> QED
  BY <1>3, <1>4, SlotsInNat DEF Spawn, TypeInv, SlotsCounted, Slots

LEMMA SlotGiven ==
    ASSUME TypeInv, NEW t \in Targets, Leave(t)
    PROVE  SlotsCounted' /\ free' \in 0..Slots
<1>1. Working' = Working \ {t} /\ t \in Working
  BY DEF Leave, TypeInv, StepInv, Working
<1>2. IsFiniteSet(Working)' /\ Cardinality(Working)' = Cardinality(Working) - 1
  BY <1>1, FS_RemoveElement DEF TypeInv, SlotsCounted
<1>3. Cardinality(Working)' \in Nat /\ Cardinality(Working) \in Nat
  BY <1>2, FS_CardinalityType DEF TypeInv, SlotsCounted
<1> QED
  BY <1>2, <1>3, SlotsInNat DEF Leave, TypeInv, SlotsCounted, Slots

LEMMA EndsKeepsSlot ==
    ASSUME TypeInv, NEW t \in Targets, NEW e \in Errors \cup {"nil"}, Ends(t, e),
           goroutine[t] \in {"born", "dialing", "running"}
    PROVE  TypeOK' /\ SlotsCounted'
<1>1. Working' = Working /\ free' = free
  BY DEF Ends, TypeInv, StepInv, Working
<1>2. SlotsCounted' /\ free' \in 0..Slots
  BY <1>1, SlotKept DEF TypeInv
<1> QED
  BY <1>2 DEF Ends, judgement, TypeInv, TypeOK, Slots

LEMMA JudgeTyped == ASSUME TypeInv, Judge PROVE TypeOK' /\ SlotsCounted'
<1>1. SlotsCounted' /\ free' \in 0..Slots
  BY SlotKept DEF TypeInv, Judge, Working
<1>2. \A P \in SUBSET DOMAIN Order : HostAt(FirstIndex(P)) \in Targets \cup {NoHost}
  <2> SUFFICES ASSUME NEW P \in SUBSET DOMAIN Order
               PROVE  HostAt(FirstIndex(P)) \in Targets \cup {NoHost}
    OBVIOUS
  <2>1. CASE P = {}
    BY <2>1, NobodyFound
  <2>2. CASE P # {}
    BY <2>2, HostPicked, FanoutAssumption
  <2> QED
    BY <2>1, <2>2
<1>3. FirstError \in Targets \cup {NoHost}
  BY <1>2 DEF FirstError, Where
<1>4. FatalUnderSkip \in Targets \cup {NoHost}
  BY <1>2 DEF FatalUnderSkip, Where
<1>5. surfaced' \in Targets \cup {NoHost}
  BY <1>3, <1>4 DEF Judge
<1>6. dropped' \subseteq Targets /\ outcome' \in {"passed", "failed"}
  BY DEF Judge
<1> QED
  BY <1>1, <1>5, <1>6 DEF Judge, TypeInv, TypeOK, Slots

LEMMA TypeInvStep == TypeInv /\ [Next]_vars => TypeInv'
<1> SUFFICES ASSUME TypeInv, [Next]_vars PROVE TypeOK' /\ SlotsCounted'
  BY StepMaps, BlameStep DEF TypeInv
<1>1. CASE UNCHANGED vars
  BY <1>1, SlotKept DEF vars, judgement, TypeInv, TypeOK, Working, Slots
<1>2. CASE Interrupt
  BY <1>2, SlotKept DEF Interrupt, judgement, TypeInv, TypeOK, Working, Slots
<1>3. CASE Judge
  BY <1>3, JudgeTyped
<1>4. CASE Spawn
  <2>1. SlotsCounted' /\ free' \in 0..Slots
    BY <1>4, SlotTaken
  <2>2. next' \in 1..(Len(Order) + 1) /\ Order[next] \in Targets
    BY <1>4, FanoutAssumption DEF Spawn, TypeInv, TypeOK
  <2> QED
    BY <1>4, <2>1, <2>2 DEF Spawn, judgement, TypeInv, TypeOK, Slots
<1>5. ASSUME NEW t \in Targets, Work(t) PROVE TypeOK' /\ SlotsCounted'
  <2>1. CASE Enter(t) \/ Connects(t) \/ CancelRest(t)
    <3>1. Working' = Working /\ free' = free
      BY <2>1 DEF Enter, Connects, CancelRest, TypeInv, StepInv, Working
    <3>2. SlotsCounted' /\ free' \in 0..Slots
      BY <3>1, SlotKept DEF TypeInv
    <3> QED
      BY <2>1, <3>2 DEF Enter, Connects, CancelRest, judgement, TypeInv, TypeOK, Slots
  <2>2. CASE Leave(t)
    <3>1. SlotsCounted' /\ free' \in 0..Slots
      BY <2>2, SlotGiven
    <3> QED
      BY <2>2, <3>1 DEF Leave, judgement, TypeInv, TypeOK, Slots
  <2>3. CASE SkipTarget(t) \/ DialFails(t) \/ RunEnds(t)
    <3>1. PICK e \in Errors \cup {"nil"} : Ends(t, e)
      BY <2>3 DEF SkipTarget, DialFails, RunEnds, Errors
    <3>2. goroutine[t] \in {"born", "dialing", "running"}
      BY <2>3 DEF SkipTarget, DialFails, RunEnds
    <3> QED
      BY <3>1, <3>2, EndsKeepsSlot
  <2> QED
    BY <1>5, <2>1, <2>2, <2>3 DEF Work
<1> QED
  BY <1>1, <1>2, <1>3, <1>4, <1>5 DEF Next

\* The variables keep their types.
THEOREM TypeCorrect == Spec => []TypeOK
<1>1. TypeInv => TypeOK
  BY DEF TypeInv
<1> QED
  BY TypeInvInit, TypeInvStep, <1>1, PTL DEF Spec

\* No more goroutines are at work than there are slots.
Bounded == IsFiniteSet(Working) /\ Cardinality(Working) <= Slots

\* However the goroutines end, and whether they did any work, no slot is lost or given
\* back twice: never do more than --concurrency of them work at once, and when the step
\* is judged all the slots are free again (runner.go:62-89).
THEOREM SlotsKept == Spec => [](Bounded /\ (outcome # "none" => free = Slots))
<1>1. ASSUME TypeInv PROVE Bounded
  BY <1>1, FS_CardinalityType, SlotsInNat DEF TypeInv, SlotsCounted, Bounded
<1>2. ASSUME TypeInv, outcome # "none" PROVE free = Slots
  <2>1. Working = {}
    BY <1>2 DEF TypeInv, Blame, Working
  <2> QED
    BY <1>2, <2>1, FS_EmptySet, SlotsInNat DEF TypeInv, SlotsCounted
<1> QED
  BY TypeInvInit, TypeInvStep, <1>1, <1>2, PTL DEF Spec

=============================================================================
