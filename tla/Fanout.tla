------------------------------- MODULE Fanout -------------------------------
(***************************************************************************)
(* One command on many hosts: runner.Fanout and Cluster.Run with their     *)
(* goroutines, semaphore and fail-fast context, and the judgement of the   *)
(* results by the caller (executor.firstError or SkipUnreachable).         *)
(*                                                                         *)
(* Abstracted: the command and its output; a connection already pooled is  *)
(* a dial that succeeds at once.                                           *)
(***************************************************************************)
EXTENDS Integers, FiniteSets, Sequences

CONSTANTS
    Targets,      \* the hosts of the step
    Order,        \* the same hosts as the slice the caller passed
    Concurrency,  \* --concurrency, 0 for no bound
    Required,     \* hosts whose loss is fatal under "skip"
    Policies,     \* policies the caller may be under: see policy
    NoHost,       \* no host
    Faults        \* what the environment may do: see FaultKinds

\* exit: a command exits non-zero.  drop: a connection dies under a command.
\* refuse: a dial fails.  timeout: a dial runs into its connect timeout and says so
\* with an error that matches context.DeadlineExceeded (always so through a
\* bastion).  interrupt: the caller's context is cancelled.
FaultKinds == {"exit", "drop", "refuse", "timeout", "interrupt"}

ASSUME FanoutAssumption ==
    /\ Order \in Seq(Targets)
    /\ \A t \in Targets : \E i \in DOMAIN Order : Order[i] = t
    /\ \A i, j \in DOMAIN Order : Order[i] = Order[j] => i = j
    /\ Concurrency \in Nat
    /\ Required \subseteq Targets
    /\ Policies \subseteq {"abort", "skip", "continue"}
    /\ NoHost \notin Targets
    /\ Faults \subseteq FaultKinds

\* CommandError, UnreachableError, an UnreachableError around a deadline, the
\* context's error from a dial or a run, and that of a target never started.
Errors == {"exit", "unreachable", "timeout", "canceled", "skipped"}

\* errors.Is(err, context.Canceled) || errors.Is(err, context.DeadlineExceeded)
IsContextError(e) == e \in {"timeout", "canceled", "skipped"}

IsUnreachable(e) == e \in {"unreachable", "timeout"}

VARIABLES
    policy,       \* abort: RunOn and tasks; skip: RunOnReport and tasks under
                  \* on_unreachable: skip; continue: tasks with continue_on_error
    interrupted,  \* the caller's context is done
    next,         \* the loop's index i
    goroutine,    \* goroutine[t]: how far the goroutine of t is
    free,         \* free slots of the semaphore channel
    done,         \* the fan-out's own context is done
    results,      \* results[t]: "nil" or an error once t has one
    settled,      \* the targets whose results entry is written
    surfaced,     \* the host whose error the caller returns, NoHost if none
    outcome,      \* "none" before the judgement
    dropped       \* the hosts the judgement marks unreachable

judgement == <<surfaced, outcome, dropped>>
vars == <<policy, interrupted, next, goroutine, free, done, results, settled, judgement>>

\* Slots of the semaphore channel.
Slots == IF Concurrency = 0 THEN Len(Order) ELSE Concurrency

\* Mutant: continue_on_error is forgotten.
FailFastOnError == policy # "skip"

\* Only RunOn and plain tasks ask for it.
FailFast == policy = "abort"

Init ==
    /\ policy \in Policies
    /\ interrupted = FALSE
    /\ next = 1
    /\ goroutine = [t \in Targets |-> "unborn"]
    /\ free = Slots
    /\ done = FALSE
    /\ results = [t \in Targets |-> "nil"]
    /\ settled = {}
    /\ surfaced = NoHost
    /\ outcome = "none"
    /\ dropped = {}

-----------------------------------------------------------------------------
(* The loop and the goroutines.                                            *)

\* The loop takes a slot and starts the next goroutine.
Spawn ==
    /\ next <= Len(Order)
    /\ free > 0
    /\ free' = free - 1
    /\ goroutine' = [goroutine EXCEPT ![Order[next]] = "born"]
    /\ next' = next + 1
    /\ UNCHANGED <<policy, interrupted, done, results, settled, judgement>>

\* The goroutine of t ends with error e ("nil" if none): the result is written
\* first, a fail-fast error cancels after it, the slot is freed last.
Ends(t, e) ==
    /\ results' = [results EXCEPT ![t] = e]
    /\ settled' = settled \cup {t}
    /\ goroutine' = [goroutine EXCEPT ![t] =
                        IF FailFast /\ e \notin {"nil", "skipped"} THEN "canceling" ELSE "leaving"]
    /\ UNCHANGED <<policy, interrupted, next, free, done, judgement>>

\* ctx.Err() is looked at once, before the work.
Enter(t) ==
    /\ goroutine[t] = "born"
    /\ ~done
    /\ goroutine' = [goroutine EXCEPT ![t] = "dialing"]
    /\ UNCHANGED <<policy, interrupted, next, free, done, results, settled, judgement>>

\* Mutant: the early return frees no slot.
SkipTargetKeeping(t) ==
    /\ goroutine[t] = "born"
    /\ done
    /\ results' = [results EXCEPT ![t] = "skipped"]
    /\ settled' = settled \cup {t}
    /\ goroutine' = [goroutine EXCEPT ![t] = "gone"]
    /\ UNCHANGED <<policy, interrupted, next, free, done, judgement>>

SkipTarget(t) ==
    /\ goroutine[t] = "born"
    /\ done
    /\ Ends(t, "skipped")

\* A pooled connection, or a dial that succeeds: neither looks at the context.
Connects(t) ==
    /\ goroutine[t] = "dialing"
    /\ goroutine' = [goroutine EXCEPT ![t] = "running"]
    /\ UNCHANGED <<policy, interrupted, next, free, done, results, settled, judgement>>

\* dialError: whatever the dial said, a done context wins.
DialFails(t) ==
    /\ goroutine[t] = "dialing"
    /\ \/ done /\ Ends(t, "canceled")
       \/ ~done /\ "refuse" \in Faults /\ Ends(t, "unreachable")
       \/ ~done /\ "timeout" \in Faults /\ Ends(t, "timeout")

\* conn.Run and classify; the context and the command's end race in its select.
RunEnds(t) ==
    /\ goroutine[t] = "running"
    /\ \/ Ends(t, "nil")
       \/ "exit" \in Faults /\ Ends(t, "exit")
       \/ "drop" \in Faults /\ Ends(t, "unreachable")
       \/ done /\ Ends(t, "canceled")

CancelRest(t) ==
    /\ goroutine[t] = "canceling"
    /\ done' = TRUE
    /\ goroutine' = [goroutine EXCEPT ![t] = "leaving"]
    /\ UNCHANGED <<policy, interrupted, next, free, results, settled, judgement>>

Leave(t) ==
    /\ goroutine[t] = "leaving"
    /\ free' = free + 1
    /\ goroutine' = [goroutine EXCEPT ![t] = "gone"]
    /\ UNCHANGED <<policy, interrupted, next, done, results, settled, judgement>>

\* Ctrl-C, or the caller's own deadline.
Interrupt ==
    /\ "interrupt" \in Faults
    /\ ~interrupted /\ outcome = "none"
    /\ interrupted' = TRUE
    /\ done' = TRUE
    /\ UNCHANGED <<policy, next, goroutine, free, results, settled, judgement>>

-----------------------------------------------------------------------------
(* The judgement: the callers scan the results in target order.            *)

\* The first index whose result satisfies P, 0 if there is none.
FirstIndex(P) ==
    IF P = {} THEN 0 ELSE CHOOSE i \in P : \A j \in P : i <= j

Where(errs) == {i \in DOMAIN Order : results[Order[i]] \in errs}

HostAt(i) == IF i = 0 THEN NoHost ELSE Order[i]

OwnErrors == {e \in Errors : ~IsContextError(e)}

\* Mutant: the first error of any kind.
FirstErrorAny == HostAt(FirstIndex(Where(Errors)))

\* A real failure is preferred to a cancelled bystander.
FirstError ==
    IF Where(OwnErrors) # {} THEN HostAt(FirstIndex(Where(OwnErrors)))
                             ELSE HostAt(FirstIndex(Where(Errors)))

\* Mutant: a context error is nobody's failure.
FatalUnderSkipOwn ==
    LET own == {i \in Where(OwnErrors) :
                   ~IsUnreachable(results[Order[i]]) \/ Order[i] \in Required}
    IN  HostAt(FirstIndex(own))

\* The first pass of SkipUnreachable: context errors are put aside BEFORE asking
\* whether the host is unreachable, and come up only if nothing else is fatal.
FatalUnderSkip ==
    LET own == {i \in Where(OwnErrors) :
                   ~IsUnreachable(results[Order[i]]) \/ Order[i] \in Required}
    IN  IF own # {} THEN HostAt(FirstIndex(own))
        ELSE HostAt(FirstIndex(Where(Errors \ OwnErrors)))

Judge ==
    /\ outcome = "none"
    /\ \A t \in Targets : goroutine[t] = "gone"
    /\ surfaced' = CASE policy = "abort" -> FirstError
                     [] policy = "skip" -> FatalUnderSkip
                     [] OTHER -> NoHost
    /\ dropped' = IF policy = "skip" /\ surfaced' = NoHost
                  THEN {t \in Targets : results[t] # "nil"} ELSE {}
    /\ outcome' = IF surfaced' = NoHost THEN "passed" ELSE "failed"
    /\ UNCHANGED <<policy, interrupted, next, goroutine, free, done, results, settled>>

Work(t) ==
    \/ Enter(t) \/ SkipTarget(t) \/ Connects(t) \/ DialFails(t) \/ RunEnds(t)
    \/ CancelRest(t) \/ Leave(t)

Next == Spawn \/ Judge \/ Interrupt \/ \E t \in Targets : Work(t)

Spec == Init /\ [][Next]_vars

\* The loop, the goroutines and the caller keep running; a dial ends by its
\* connect timeout, a command by itself, its connection's end or the context.
FairSpec == Spec /\ WF_vars(Spawn) /\ WF_vars(Judge) /\ \A t \in Targets : WF_vars(Work(t))

-----------------------------------------------------------------------------
(* What must be true.                                                      *)

Working == {t \in Targets : goroutine[t] \notin {"unborn", "gone"}}

\* Every variable keeps its type, and the semaphore counts the goroutines between
\* its two ends (runner.go:62-69).
TypeOK ==
    /\ policy \in {"abort", "skip", "continue"}
    /\ interrupted \in BOOLEAN
    /\ next \in 1..(Len(Order) + 1)
    /\ goroutine \in [Targets -> {"unborn", "born", "dialing", "running", "canceling",
                                  "leaving", "gone"}]
    /\ free \in 0..Slots
    /\ done \in BOOLEAN
    /\ results \in [Targets -> Errors \cup {"nil"}]
    /\ settled \subseteq Targets
    /\ surfaced \in Targets \cup {NoHost}
    /\ outcome \in {"none", "passed", "failed"}
    /\ dropped \subseteq Targets

\* t failed for a reason of its own that its policy does not forgive.
Culprit(t) ==
    /\ results[t] \in OwnErrors
    /\ policy = "skip" => ~IsUnreachable(results[t]) \/ t \in Required

\* A host that failed by itself is what the caller hears of, never a host that was
\* only stopped because of it, in whatever order the two finished
\* (executor.go:324-329, targets.go:70-74).
RootCauseSurfaces ==
    outcome = "failed" /\ (\E t \in Targets : Culprit(t)) => Culprit(surfaced)

\* Unless the caller is interrupted, no host pays for another under `skip` and
\* continue_on_error: whatever it answers is its own (run.go:146-149).
HostsIndependent ==
    policy # "abort" /\ ~interrupted =>
        \A t \in Targets : results[t] \notin {"canceled", "skipped"}

\* A step returns, whatever its hosts do and however few slots there are
\* (runner.go:62-89).
StepReturns == <>(outcome # "none")

\* A lost host that nobody requires is dropped, it does not fail the step: "a
\* connect timeout of its own is still an unreachable host" (cluster.go:109-110).
LostHostsSkipped ==
    policy = "skip" /\ ~interrupted /\ outcome # "none"
        /\ (\A t \in Targets : results[t] # "nil" =>
               IsUnreachable(results[t]) /\ t \notin Required) =>
        outcome = "passed"

AnswerOf(e) ==
    CASE e = "nil" -> "ok"
      [] e = "exit" -> "failed"
      [] e = "unreachable" -> "lost"
      [] OTHER -> "canceled"

\* The step as its caller sees it; see Step.
Seen == INSTANCE Step WITH
    answer <- [t \in Targets |-> IF t \in settled THEN AnswerOf(results[t]) ELSE "waiting"]

\* The pool of goroutines implements a step.
ImplementsStep == Seen!StepSpec

=============================================================================
