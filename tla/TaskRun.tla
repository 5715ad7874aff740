------------------------------- MODULE TaskRun -------------------------------
(***************************************************************************)
(* The executor running tasks: runTask with its hooks, dependencies and    *)
(* cycle check, the four kinds of task body, on_unreachable: skip inside a *)
(* body, the cached render contexts, and what must be put back on return.  *)
(* One process runs one task after another, from the command line or as    *)
(* the hooks of a deploy's phases; after a failure, as its deploy:failed   *)
(* hooks.                                                                  *)
(*                                                                         *)
(* Go's call stack is explicit: one frame per runTask that has passed its  *)
(* checks.  A command sent to several hosts is one send and one            *)
(* judgement, by the rules Fanout implements.  Abstracted: what is         *)
(* rendered (only from which context), dry-run, and how output is printed. *)
(***************************************************************************)
EXTENDS Integers, Sequences

CONSTANTS
    Tasks,
    Inventory,      \* the hosts left by the command line's filters, in order
    MarkedPrimary,  \* the hosts marked primary: true
    Deployfiles,    \* see Deployfile
    Cmds,           \* commands and scripts in a task
    Runs,           \* bound: how many tasks the process runs
    Operator,       \* the operator's machine, where local tasks run
    None

Hosts == {Inventory[i] : i \in DOMAIN Inventory}

FaultKinds == {"fail", "lose", "timeout", "render", "interrupt"}

\* A task: its hooks and dependencies; whether the stage and its plugin let it run; its
\* body, "action" (which runs commands on its hosts), "query" (an action that captures
\* one), "output" or "cmds"; the hosts its roles and flags give; its other flags.
Task == [before: Seq(Tasks), deps: Seq(Tasks), after: Seq(Tasks), active: BOOLEAN,
         body: {"action", "query", "output", "cmds"}, local: BOOLEAN, on: SUBSET Hosts,
         once: BOOLEAN, continueOnError: BOOLEAN, silentOutput: BOOLEAN]

\* ... the process that uses the file: a deploy (or rollback) running hooks, or one task;
\* its on_unreachable policy; and what the environment may do meanwhile.
Deployfile == [tasks: [Tasks -> Task], process: {"deploy", "task"}, skip: BOOLEAN,
               required: SUBSET Hosts, faults: SUBSET FaultKinds]

ASSUME TaskRunAssumption ==
    /\ Deployfiles \subseteq Deployfile
    \* Only a deploy has the policy, and its primary is always required.
    /\ \A f \in Deployfiles : f.skip => f.process = "deploy" /\ f.required # {}
    /\ MarkedPrimary \subseteq Hosts
    /\ Cmds \in Nat \ {0} /\ Runs \in Nat
    /\ Operator \notin Hosts
    /\ None \notin Tasks

VARIABLES
    file,         \* the Deployfile
    runs,         \* tasks run so far
    mode,         \* "normal", or "failed": running deploy:failed hooks
    root,         \* the task run last, and whether it was run in a phase
    stack,        \* Go's call stack: the frames of runTask
    onStack,      \* the map runTask passes down
    error,        \* the error on its way up, or the last run's
    flight,       \* the command under way
    logTask,      \* the task output is attributed to
    sink,         \* the task whose output is withheld (Executor.capture)
    base,         \* the base render context
    ctxCache,     \* the render context cached per host
    unreachable,  \* the hosts dropped
    interrupted,  \* Ctrl-C: the root context is done
    wrongs        \* the run's bad answers: <<task, host, answer>>

vars == <<file, runs, mode, root, stack, onStack, error, flight, logTask, sink, base,
          ctxCache, unreachable, interrupted, wrongs>>

Answers == {"ok", "failed", "lost", "timedOut", "canceled"}

Where == Hosts \cup {Operator}

\* What renders depend on: the phase, how often the deploy set a value of its own
\* (release, commit hashes, changelog, error), and the captured outputs.
Contexts == [phase: {"none", "hook", "failed"}, set: 0..Runs, tasks: [Tasks -> 0..2]]

NoContexts == [h \in Where |-> None]

NoFlight == [to |-> {}, late |-> FALSE]

Init ==
    /\ file \in Deployfiles
    /\ runs = 0
    /\ mode = "normal"
    /\ root = [task |-> None, inPhase |-> FALSE]
    /\ stack = <<>>
    /\ onStack = {}
    /\ error = "none"
    /\ flight = NoFlight
    /\ logTask = None
    /\ sink = None
    /\ base = [phase |-> "none", set |-> 0, tasks |-> [t \in Tasks |-> 0]]
    /\ ctxCache = NoContexts
    /\ unreachable = {}
    /\ interrupted = FALSE
    /\ wrongs = {}

-----------------------------------------------------------------------------
(* Frames.                                                                 *)

Top == stack[Len(stack)]

Own == file.tasks[Top.task]

WithTop(frame) == [stack EXCEPT ![Len(stack)] = frame]

Popped == SubSeq(stack, 1, Len(stack) - 1)

\* A task that is not active returns at once, its hooks and dependencies unrun.
Frame(t) ==
    [task |-> t, prevLogTask |-> logTask, hosts |-> {}, cmd |-> 1,
     at |-> IF file.tasks[t].active THEN "before" ELSE "after",
     calls |-> IF file.tasks[t].active THEN file.tasks[t].before \o file.tasks[t].deps
               ELSE <<>>]

\* deploy:failed hooks run on a context without the root's cancellation.
Done == interrupted /\ mode = "normal"

\* Mutant: the hosts dropped are not left out.
LiveAll(hosts) == hosts

Live(hosts) == hosts \ unreachable

\* Lists of hosts are in the order of the inventory: the first of some, alone.
Before(h, g) == \E i \in DOMAIN Inventory : Inventory[i] = h /\ \A j \in 1..i : Inventory[j] # g

First(hosts) == {h \in hosts : \A g \in hosts \ {h} : Before(h, g)}

PickPrimary(hosts) ==
    LET marked == hosts \cap MarkedPrimary
    IN  First(IF marked # {} THEN marked ELSE hosts)

TargetsForTask(task) ==
    LET hosts == Live(task.on)
    IN  IF task.once THEN PickPrimary(hosts) ELSE hosts

-----------------------------------------------------------------------------
(* RunTask, RunTaskInPhase and runTask.                                    *)

\* callers: the stack, its top having taken note of the call.
Enter(t, callers) ==
    IF t \in onStack
    THEN /\ stack' = callers
         /\ error' = "cycle"
         /\ UNCHANGED <<onStack, logTask>>
    ELSE /\ stack' = Append(callers, Frame(t))
         /\ onStack' = onStack \cup {t}
         /\ logTask' = t
         /\ UNCHANGED error

\* After a failed task (or a deploy that failed by itself) only deploy:failed hooks run,
\* until one of them fails.
StartRun(t, phase) ==
    /\ stack = <<>> /\ runs < Runs
    /\ phase = "none" => file.process = "task" /\ runs = 0
    /\ phase = "hook" => file.process = "deploy"
    /\ phase = "failed" => file.process = "deploy" \/ error # "none" \/ mode = "failed"
    /\ error # "none" \/ mode = "failed" => phase = "failed"
    /\ ~(error # "none" /\ mode = "failed")
    /\ runs' = runs + 1
    /\ mode' = IF phase = "failed" THEN "failed" ELSE "normal"
    /\ root' = [task |-> t, inPhase |-> phase # "none"]
    /\ base' = [base EXCEPT !.phase = phase,
                            !.set = IF phase = "failed" /\ mode # "failed"
                                    THEN @ + 1 ELSE @]
    /\ ctxCache' = IF phase = "none" THEN ctxCache ELSE NoContexts
    /\ stack' = <<Frame(t)>>
    /\ onStack' = {t}
    /\ error' = "none"
    /\ logTask' = t
    /\ wrongs' = {}
    /\ UNCHANGED <<file, flight, sink, unreachable, interrupted>>

\* The deploy sets a value between two hooks.
SetContext ==
    /\ file.process = "deploy"
    /\ stack = <<>> /\ mode = "normal" /\ error = "none"
    /\ base.set < runs
    /\ base' = [base EXCEPT !.set = @ + 1]
    /\ ctxCache' = NoContexts
    /\ UNCHANGED <<file, runs, mode, root, stack, onStack, error, flight, logTask, sink,
                   unreachable, interrupted, wrongs>>

CallNext ==
    /\ stack # <<>> /\ error = "none"
    /\ Top.at \in {"before", "after"} /\ Top.calls # <<>>
    /\ Enter(Head(Top.calls), WithTop([Top EXCEPT !.calls = Tail(@)]))
    /\ UNCHANGED <<file, runs, mode, root, flight, sink, base, ctxCache, unreachable,
                   interrupted, wrongs>>

\* Mutant: the map keeps a task that has returned.
ReturnKeeping ==
    /\ stack # <<>>
    /\ error # "none" \/ (Top.at = "after" /\ Top.calls = <<>>)
    /\ stack' = Popped
    /\ logTask' = Top.prevLogTask
    /\ base' = IF Popped = <<>> THEN [base EXCEPT !.phase = "none"] ELSE base
    /\ ctxCache' = IF Popped = <<>> /\ root.inPhase THEN NoContexts ELSE ctxCache
    /\ UNCHANGED <<file, runs, mode, root, onStack, error, flight, sink, unreachable,
                   interrupted, wrongs>>

\* runTask returns, after its last hook or with the error on its way up; the outermost
\* one to RunTaskInPhase, which restores the phase.
Return ==
    /\ stack # <<>>
    /\ error # "none" \/ (Top.at = "after" /\ Top.calls = <<>>)
    /\ stack' = Popped
    /\ onStack' = onStack \ {Top.task}
    /\ logTask' = Top.prevLogTask
    /\ base' = IF Popped = <<>> THEN [base EXCEPT !.phase = "none"] ELSE base
    /\ ctxCache' = IF Popped = <<>> /\ root.inPhase THEN NoContexts ELSE ctxCache
    /\ UNCHANGED <<file, runs, mode, root, error, flight, sink, unreachable, interrupted,
                   wrongs>>

-----------------------------------------------------------------------------
(* The body of a task.                                                     *)

\* Mutant: the output is put back on success only.
BodyEndsWithheld(err) ==
    /\ sink' = IF err = "none" THEN None ELSE sink
    /\ error' = err
    /\ stack' = IF err = "none"
                THEN WithTop([Top EXCEPT !.at = "after", !.calls = Own.after])
                ELSE stack

\* dispatchTask returns: its error goes up, or the after hooks run.  endCapture puts the
\* output back either way.
BodyEnds(err) ==
    /\ sink' = None
    /\ error' = err
    /\ stack' = IF err = "none"
                THEN WithTop([Top EXCEPT !.at = "after", !.calls = Own.after])
                ELSE stack

\* Mutant: cached contexts keep the value of the capture before.
SetTaskStateCached ==
    /\ \E v \in 1..2 : base' = [base EXCEPT !.tasks[Top.task] = v]
    /\ UNCHANGED ctxCache

\* setTaskState, with any value the output may have.
SetTaskState ==
    /\ \E v \in 1..2 : base' = [base EXCEPT !.tasks[Top.task] = v]
    /\ ctxCache' = NoContexts

\* An action takes place on the operator's machine, though its commands run on hosts.
Operatorside == Own.body \in {"action", "query"}

\* A render takes the cached context, else the one made now, which is then cached.
Rendered(places) ==
    [h \in Where |-> IF h \in places /\ ctxCache[h] = None THEN base ELSE ctxCache[h]]

OnOperator == Own.local /\ Own.body \in {"output", "cmds"}

\* The body starts: its hosts are resolved now, after the dependencies ran, and an
\* action's parameters rendered.
Dispatch ==
    /\ stack # <<>> /\ error = "none"
    /\ Top.at = "before" /\ Top.calls = <<>>
    /\ LET hosts == IF OnOperator THEN {Operator} ELSE TargetsForTask(Own)
       IN  IF hosts = {} /\ Own.body \in {"output", "cmds"}
           THEN /\ BodyEnds("none")
                /\ IF Own.body = "output" THEN SetTaskState ELSE UNCHANGED <<base, ctxCache>>
           ELSE /\ stack' = WithTop([Top EXCEPT !.at = "body", !.hosts = hosts])
                /\ sink' = IF Own.silentOutput THEN Top.task ELSE None
                /\ ctxCache' = IF Operatorside THEN Rendered({Operator}) ELSE ctxCache
                /\ UNCHANGED <<error, base>>
    /\ UNCHANGED <<file, runs, mode, root, onStack, flight, logTask, unreachable,
                   interrupted, wrongs>>

InBody == stack # <<>> /\ error = "none" /\ Top.at = "body" /\ flight = NoFlight

Range(seq) == {seq[i] : i \in DOMAIN seq}

\* Mutant: an action's commands go to the hosts it had when it started.
RecipientsStale ==
    IF Own.body \in {"output", "query"} THEN First(Top.hosts) ELSE Top.hosts

\* Where the next command goes: an output task's to its current target; an action's to
\* the hosts left of those it had when it started, a query's to the first of them.
Recipients ==
    CASE Own.body = "output" -> First(Top.hosts)
      [] Own.body = "cmds"   -> Top.hosts
      [] Own.body = "action" -> Live(Top.hosts)
      [] Own.body = "query"  -> First(Live(Top.hosts))

Send ==
    /\ InBody /\ Top.cmd <= Cmds
    /\ Recipients # {}
    /\ flight' = [to |-> Recipients, late |-> Done]
    /\ ctxCache' = IF Operatorside THEN ctxCache ELSE Rendered(Recipients)
    /\ UNCHANGED <<file, runs, mode, root, stack, onStack, error, logTask, sink, base,
                   unreachable, interrupted, wrongs>>

\* No host of an action is left: its commands run nowhere, a query fails.
SendNowhere ==
    /\ InBody /\ Top.cmd <= Cmds
    /\ Recipients = {}
    /\ IF Own.body = "query" THEN BodyEnds("failed")
       ELSE stack' = WithTop([Top EXCEPT !.cmd = @ + 1]) /\ UNCHANGED <<error, sink>>
    /\ UNCHANGED <<file, runs, mode, root, onStack, flight, logTask, base, ctxCache,
                   unreachable, interrupted, wrongs>>

\* A template that does not render fails the task.
RenderFails ==
    /\ "render" \in file.faults
    /\ InBody /\ Top.cmd <= Cmds
    /\ BodyEnds("failed")
    /\ UNCHANGED <<file, runs, mode, root, onStack, flight, logTask, base, ctxCache,
                   unreachable, interrupted, wrongs>>

Single == Own.body \in {"output", "query"}

FailFast == ~file.skip /\ ~(Own.body = "cmds" /\ Own.continueOnError)

\* A fan-out that starts on a done context, and a local shell, run nothing; a capture may
\* still win against the cancellation.
Outcomes ==
    {a \in [flight.to -> Answers] :
        /\ \A h \in flight.to :
              /\ a[h] = "failed" => "fail" \in file.faults
              /\ a[h] = "lost" => "lose" \in file.faults /\ h # Operator
              /\ a[h] = "timedOut" => "timeout" \in file.faults /\ h # Operator
              /\ a[h] = "canceled" =>
                    Done \/ (FailFast /\ \E g \in flight.to : a[g] \notin {"ok", "canceled"})
        /\ flight.late /\ ~Single => \A h \in flight.to : a[h] = "canceled"}

\* SkipUnreachable, of a fan-out: a timed-out dial counts as a cancellation.
DroppedTogether(bad, answer) ==
    IF file.skip /\ \A h \in bad : answer[h] = "lost" /\ h \notin file.required
    THEN bad ELSE {}

\* dropUnreachable, of one host: a timed-out dial counts as a loss.
DroppedAlone(bad, answer) ==
    IF file.skip /\ ~Done
       /\ \A h \in bad : answer[h] \in {"lost", "timedOut"} /\ h \notin file.required
    THEN bad ELSE {}

\* Mutant: a continue_on_error task in the run forgives every later one.
ForgivenByAny == Own.body \in {"output", "cmds"} /\ \E t \in onStack : file.tasks[t].continueOnError

\* continue_on_error means nothing to an action.
Forgiven == Own.body \in {"output", "cmds"} /\ Own.continueOnError

\* What the answers make of the body: the next command; without the hosts dropped, the
\* next command, an output task's first one on its next target, an action's query again;
\* or its end.  Commands stop when no host is left, an output task fails then.
Proceeds(bad, dropped) ==
    LET left == Top.hosts \ dropped
        Goes(cmd, hosts) == /\ stack' = WithTop([Top EXCEPT !.cmd = cmd, !.hosts = hosts])
                            /\ UNCHANGED <<error, sink>>
    IN  \/ (bad = {} \/ Forgiven) /\ Goes(Top.cmd + 1, Top.hosts)
        \/ ~(bad = {} \/ Forgiven) /\ dropped = {} /\ BodyEnds("failed")
        \/ dropped # {} /\ Own.body = "action" /\ Goes(Top.cmd + 1, Top.hosts)
        \/ dropped # {} /\ Own.body = "query" /\ Goes(Top.cmd, Top.hosts)
        \/ dropped # {} /\ Own.body = "cmds"
           /\ IF left = {} THEN BodyEnds("none") ELSE Goes(Top.cmd + 1, left)
        \/ dropped # {} /\ Own.body = "output"
           /\ IF left = {} THEN BodyEnds("failed") ELSE Goes(1, left)

Judge ==
    /\ flight # NoFlight
    /\ \E answer \in Outcomes :
        LET bad == {h \in flight.to : answer[h] # "ok"}
            dropped == IF Forgiven \/ OnOperator THEN {}
                       ELSE IF Single THEN DroppedAlone(bad, answer)
                       ELSE DroppedTogether(bad, answer)
        IN  /\ wrongs' = wrongs \cup {<<Top.task, h, answer[h]>> : h \in bad}
            /\ unreachable' = unreachable \cup dropped
            /\ Proceeds(bad, dropped)
    /\ flight' = NoFlight
    /\ UNCHANGED <<file, runs, mode, root, onStack, logTask, base, ctxCache, interrupted>>

\* Every command ran.  An output is parsed, which may fail, and stored; an action may
\* fail by itself.
Finish ==
    /\ InBody /\ Top.cmd > Cmds
    /\ \/ /\ BodyEnds("none")
          /\ IF Own.body = "output" THEN SetTaskState ELSE UNCHANGED <<base, ctxCache>>
       \/ /\ "fail" \in file.faults /\ Own.body # "cmds"
          /\ BodyEnds("failed")
          /\ UNCHANGED <<base, ctxCache>>
    /\ UNCHANGED <<file, runs, mode, root, onStack, flight, logTask, unreachable,
                   interrupted, wrongs>>

Interrupt ==
    /\ "interrupt" \in file.faults /\ ~interrupted
    /\ interrupted' = TRUE
    /\ UNCHANGED <<file, runs, mode, root, stack, onStack, error, flight, logTask, sink,
                   base, ctxCache, unreachable, wrongs>>

Run == CallNext \/ Return \/ Dispatch \/ Send \/ SendNowhere \/ RenderFails \/ Judge \/ Finish

Next ==
    \/ Run \/ SetContext \/ Interrupt
    \/ \E t \in Tasks, phase \in {"none", "hook", "failed"} : StartRun(t, phase)

Spec == Init /\ [][Next]_vars

\* Every command ends, by itself, by keepalive or by its context (Deploy), so the one
\* goroutine of the executor runs on.
FairSpec == Spec /\ WF_vars(Run)

-----------------------------------------------------------------------------
(* What must be true.                                                      *)

Frames == [task: Tasks, prevLogTask: Tasks \cup {None}, hosts: SUBSET Where, cmd: 1..Cmds + 1,
           at: {"before", "body", "after"}, calls: Seq(Tasks)]

\* Every variable keeps its type, and the map passed down holds the tasks of the call
\* stack, each on it once, so that the stack is bounded (deps.go:20-25).
TypeOK ==
    /\ file \in Deployfile
    /\ runs \in 0..Runs
    /\ mode \in {"normal", "failed"}
    /\ root \in [task: Tasks \cup {None}, inPhase: BOOLEAN]
    /\ stack \in Seq(Frames)
    /\ onStack = {stack[i].task : i \in DOMAIN stack}
    /\ \A i, j \in DOMAIN stack : stack[i].task = stack[j].task => i = j
    /\ error \in {"none", "failed", "cycle"}
    /\ flight \in [to: SUBSET Where, late: BOOLEAN]
    /\ logTask \in Tasks \cup {None}
    /\ sink \in Tasks \cup {None}
    /\ base \in Contexts
    /\ ctxCache \in [Where -> Contexts \cup {None}]
    /\ unreachable \subseteq Hosts
    /\ interrupted \in BOOLEAN
    /\ wrongs \subseteq Tasks \X Where \X Answers

Ended == stack = <<>> /\ runs > 0

\* The tasks that running t runs, t included, if nothing fails: ...
Callees(t) ==
    LET task == file.tasks[t]
    IN  IF task.active THEN Range(task.before) \cup Range(task.deps) \cup Range(task.after) ELSE {}

\* ... by itself or through others: the least set that has t and what its tasks call.
Reached(t) ==
    {u \in Tasks : \A S \in SUBSET Tasks :
                      t \in S /\ (\A v \in S : Callees(v) \subseteq S) => u \in S}

Cyclic(t) == \E u \in Reached(t) : \E v \in Callees(u) : u \in Reached(v)

\* A run ends with the cycle error only if the tasks it runs have a cycle, and never
\* well if they have one: sharing a task is none, one through a task that the stage
\* leaves out is none, one that goes through hooks is (deps.go:20-25, 35-56, 97-107).
CyclesFound ==
    Ended => /\ error = "cycle" => Cyclic(root.task)
             /\ error = "none" => ~Cyclic(root.task)

\* No command goes to a host that was dropped, in this task or one before, though hosts
\* were resolved before the drop; and only hosts that may be dropped are
\* (targets.go:15-16, 59-68, 145-170, run.go:115-116, action.go:94, 150).
DroppedStayOut ==
    /\ flight.to \cap unreachable = {}
    /\ unreachable # {} => file.skip
    /\ unreachable \cap file.required = {}

\* A run ends well only if every host that did not do as it was told was dropped, or
\* failed a task that forgives it: no failure of a hook, a dependency, a step before the
\* last or a host given up gets lost on the way (deps.go:51-80, run.go:150-163).
NothingSwallowed ==
    Ended /\ error = "none" =>
        \A w \in wrongs :
            \/ w[2] \in unreachable
            \/ LET task == file.tasks[w[1]]
               IN  task.continueOnError /\ task.body \in {"output", "cmds"}

\* No render sees an old phase, an old captured output or an old value of the deploy,
\* whatever ran, failed or returned in between (executor.go:42-46, 252-258, 306-316,
\* capture.go:129-135, render.go:204-206).
CacheFresh == \A h \in Where : ctxCache[h] \in {None, base}

\* Output is attributed to the task whose command runs and withheld only if that task
\* says so, though others run in between and fail; and when the last task has returned,
\* with or without an error, the phase and the output are as before
\* (deps.go:27-31, 66-74, capture_output.go:37-57, executor.go:306-316).
OutputAttributed ==
    /\ flight # NoFlight => /\ logTask = Top.task
                            /\ sink = IF Own.silentOutput THEN Top.task ELSE None
    /\ stack = <<>> => logTask = None /\ sink = None /\ base.phase = "none"

\* Every run ends, whatever its tasks call and its hosts do (deps.go:14-81,
\* capture.go:43-50, action.go:93-103).
RunReturns == stack # <<>> ~> stack = <<>>

\* Under on_unreachable: skip, a run that lost hosts it may lose, and nothing worse,
\* "completes on the rest" if any host is left (docs/content/en/configuration/hosts.md:226).
CompletesOnTheRest ==
    /\ Ended /\ mode = "normal" /\ error = "failed" /\ wrongs # {}
    /\ file.skip /\ Hosts \ unreachable # {}
    =>
        \E w \in wrongs : w[3] # "lost" \/ w[2] \in file.required

=============================================================================
