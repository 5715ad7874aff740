-------------------------------- MODULE Step --------------------------------
(***************************************************************************)
(* What one command sent to many hosts promises its caller, with the pool  *)
(* of goroutines and the shared context removed.  Every host gives one     *)
(* answer; an answer that is nobody's own ("canceled") comes only after an *)
(* interrupt or another host's bad answer; the step is judged when the     *)
(* last answer is in, by the set of bad answers alone.  Deploy sends its   *)
(* commands by these rules.                                                *)
(***************************************************************************)
CONSTANTS Targets, Required

VARIABLES policy,       \* "abort", "skip" or "continue"
          interrupted,  \* the caller's own context is done
          answer,       \* answer[t]: "waiting" or what t answered
          outcome,      \* "none" before the judgement
          dropped       \* the hosts the judgement gives up

stepVars == <<policy, interrupted, answer, outcome, dropped>>

Answers == {"ok", "failed", "lost", "canceled"}

Bad == {t \in Targets : answer[t] \in {"failed", "lost", "canceled"}}

Forgivable == {t \in Targets : answer[t] = "lost"} \ Required

StepInit ==
    /\ policy \in {"abort", "skip", "continue"}
    /\ interrupted = FALSE
    /\ answer = [t \in Targets |-> "waiting"]
    /\ outcome = "none"
    /\ dropped = {}

Interrupted ==
    /\ ~interrupted
    /\ interrupted' = TRUE
    /\ UNCHANGED <<policy, answer, outcome, dropped>>

Answered(t) ==
    /\ answer[t] = "waiting"
    /\ \E a \in Answers :
          /\ a = "canceled" => interrupted \/ (policy = "abort" /\ Bad # {})
          /\ answer' = [answer EXCEPT ![t] = a]
    /\ UNCHANGED <<policy, interrupted, outcome, dropped>>

\* A dial whose connect timeout is taken for a cancellation: see Fanout.
TimedOut(t) ==
    /\ answer[t] = "waiting"
    /\ answer' = [answer EXCEPT ![t] = "canceled"]
    /\ UNCHANGED <<policy, interrupted, outcome, dropped>>

Judged ==
    /\ outcome = "none"
    /\ \A t \in Targets : answer[t] # "waiting"
    /\ dropped' = IF policy = "skip" /\ Bad \subseteq Forgivable THEN Bad ELSE {}
    /\ outcome' = IF policy = "continue" \/ Bad = dropped' THEN "passed" ELSE "failed"
    /\ UNCHANGED <<policy, interrupted, answer>>

StepNext == Interrupted \/ Judged \/ \E t \in Targets : Answered(t) \/ TimedOut(t)

StepSpec == StepInit /\ [][StepNext]_stepVars

=============================================================================
