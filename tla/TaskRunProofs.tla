---------------------------- MODULE TaskRunProofs ----------------------------
(***************************************************************************)
(* The run of tasks, for any Deployfile, hosts and faults: the cached      *)
(* render contexts are never stale, no failure is swallowed, output is     *)
(* labelled with its own task, a host that was given up stays out, and a   *)
(* run ends with the cycle error just when the tasks it runs have a cycle. *)
(***************************************************************************)
EXTENDS TaskRun, TLAPS

\* What keeps the phase from outliving its run.
PhaseInv ==
    /\ base \in [phase: {"none", "hook", "failed"}, set: Int, tasks: [Tasks -> 0..2]]
    /\ base.phase = "none" \/ root.inPhase
    /\ stack = <<>> => base.phase = "none"

IsStack == \E S : stack \in Seq(S)

CacheInv == PhaseInv /\ CacheFresh /\ IsStack

LEMMA InitCacheInv == Init => CacheInv
<1> SUFFICES ASSUME Init PROVE CacheInv
  OBVIOUS
<1>1. base \in [phase: {"none", "hook", "failed"}, set: Int, tasks: [Tasks -> 0..2]]
  BY DEF Init
<1>2. PhaseInv
  BY <1>1 DEF Init, PhaseInv
<1>3. CacheFresh
  BY DEF Init, CacheFresh, NoContexts
<1>4. IsStack
  <2>1. stack \in Seq({})
    BY DEF Init
  <2> QED BY <2>1 DEF IsStack
<1> QED BY <1>2, <1>3, <1>4 DEF CacheInv

\* A stack whose top is rewritten is a stack, empty only if it was.
LEMMA WithTopStack ==
    ASSUME IsStack, NEW f
    PROVE  /\ \E S : WithTop(f) \in Seq(S)
           /\ WithTop(f) = <<>> => stack = <<>>
<1>1. PICK S : stack \in Seq(S)
  BY DEF IsStack
<1>2. stack \in Seq(S \cup {f})
  BY <1>1
<1>3. CASE stack = <<>>
  <2>1. DOMAIN stack = {}
    BY <1>3
  <2>2. WithTop(f) = [i \in DOMAIN stack |-> stack[i]]
    BY <2>1 DEF WithTop
  <2>3. stack = [i \in DOMAIN stack |-> stack[i]]
    BY <1>2
  <2> QED BY <1>1, <1>3, <2>2, <2>3
<1>4. CASE stack # <<>>
  <2>1. Len(stack) \in 1..Len(stack)
    BY <1>2, <1>4
  <2>2. WithTop(f) \in Seq(S \cup {f}) /\ Len(WithTop(f)) = Len(stack)
    BY <1>2, <2>1 DEF WithTop
  <2> QED BY <2>1, <2>2, <1>4
<1> QED BY <1>3, <1>4

\* So is one that grows by a frame.
LEMMA AppendStack ==
    ASSUME NEW s, NEW f, \E S : s \in Seq(S)
    PROVE  /\ \E S : Append(s, f) \in Seq(S)
           /\ Append(s, f) # <<>>
<1>1. PICK S : s \in Seq(S)
  OBVIOUS
<1>2. s \in Seq(S \cup {f})
  BY <1>1
<1> QED BY <1>2

\* And one that has lost its top, which may be empty.
LEMMA PoppedStack ==
    ASSUME IsStack, stack # <<>>
    PROVE  \E S : Popped \in Seq(S)
<1>1. PICK S : stack \in Seq(S)
  BY DEF IsStack
<1>2. Len(stack) \in Nat /\ Len(stack) >= 1
  BY <1>1
<1>3. Popped \in Seq(S)
  BY <1>1, <1>2 DEF Popped
<1> QED BY <1>3
LEMMA BodyEndsStack ==
    ASSUME IsStack, NEW err, BodyEnds(err)
    PROVE  IsStack' /\ (stack' = <<>> => stack = <<>>)
<1>1. CASE err = "none"
  BY <1>1, WithTopStack DEF BodyEnds, IsStack
<1>2. CASE err # "none"
  BY <1>2 DEF BodyEnds, IsStack
<1> QED BY <1>1, <1>2

-----------------------------------------------------------------------------
(* One lemma per kind of step.                                             *)

\* A step that leaves base and the cache, and ends no run.
LEMMA KeepsCache ==
    ASSUME CacheInv, base' = base, ctxCache' = ctxCache, root' = root,
           IsStack', stack' = <<>> => stack = <<>>
    PROVE  CacheInv'
BY DEF CacheInv, PhaseInv, CacheFresh

\* A step that renders.
LEMMA FillsCache ==
    ASSUME CacheInv, base' = base, NEW places, ctxCache' = Rendered(places), root' = root,
           IsStack', stack' = <<>> => stack = <<>>
    PROVE  CacheInv'
<1>1. \A h \in Where : ctxCache'[h] \in {base, ctxCache[h]}
  BY DEF Rendered
<1>2. CacheFresh'
  BY <1>1 DEF CacheInv, CacheFresh
<1> QED BY <1>2 DEF CacheInv, PhaseInv

\* A step that changes base but for its phase, and drops the cache.
LEMMA DropsCache ==
    ASSUME CacheInv, ctxCache' = NoContexts, root' = root,
           IsStack', stack' = <<>> => stack = <<>>,
           base' \in [phase: {"none", "hook", "failed"}, set: Int, tasks: [Tasks -> 0..2]],
           base'.phase = base.phase
    PROVE  CacheInv'
BY DEF CacheInv, PhaseInv, CacheFresh, NoContexts

LEMMA StateStored ==
    ASSUME CacheInv, SetTaskState, root' = root, IsStack', stack' = <<>> => stack = <<>>
    PROVE  CacheInv'
<1>1. PICK v \in 1..2 : base' = [base EXCEPT !.tasks[Top.task] = v]
  BY DEF SetTaskState
<1>2. base.tasks \in [Tasks -> 0..2]
  BY DEF CacheInv, PhaseInv
<1>3. [base.tasks EXCEPT ![Top.task] = v] \in [Tasks -> 0..2]
  <2> DEFINE task == Top.task
             tasks == [base.tasks EXCEPT ![task] = v]
  <2>1. v \in 0..2
    OBVIOUS
  <2>2. tasks = [t \in Tasks |-> IF t = task THEN v ELSE base.tasks[t]]
    <3> HIDE DEF task
    <3> QED BY <1>2
  <2>3. \A t \in Tasks : base.tasks[t] \in 0..2
    BY <1>2
  <2> QED BY <2>1, <2>2, <2>3
<1>4. base' = [base EXCEPT !.tasks = [base.tasks EXCEPT ![Top.task] = v]]
  BY <1>1
<1>5. /\ base' \in [phase: {"none", "hook", "failed"}, set: Int, tasks: [Tasks -> 0..2]]
      /\ base'.phase = base.phase
  BY <1>3, <1>4 DEF CacheInv, PhaseInv
<1> QED BY <1>5, DropsCache DEF SetTaskState

LEMMA StartRunStep ==
    ASSUME CacheInv, NEW t \in Tasks, NEW phase \in {"none", "hook", "failed"}, StartRun(t, phase)
    PROVE  CacheInv'
<1>1. IsStack'
  <2>1. <<Frame(t)>> \in Seq({Frame(t)})
    OBVIOUS
  <2> QED BY <2>1 DEF StartRun, IsStack
<1>2. stack' # <<>>
  BY DEF StartRun
<1> DEFINE set == IF phase = "failed" /\ mode # "failed" THEN base.set + 1 ELSE base.set
<1>a. base.set \in Int /\ base.tasks \in [Tasks -> 0..2]
  BY DEF CacheInv, PhaseInv
<1>b. set \in Int
  BY <1>a
<1>c. base = [phase |-> base.phase, set |-> base.set, tasks |-> base.tasks]
  BY DEF CacheInv, PhaseInv
<1>d. base' = [base EXCEPT !.phase = phase, !.set = set]
  BY DEF StartRun
<1>e. base' = [phase |-> phase, set |-> set, tasks |-> base.tasks]
  <2> HIDE DEF set
  <2> QED BY <1>c, <1>d
<1>3. base' \in [phase: {"none", "hook", "failed"}, set: Int, tasks: [Tasks -> 0..2]]
  <2> HIDE DEF set
  <2> QED BY <1>a, <1>b, <1>e
<1>4. base'.phase = phase /\ root'.inPhase = (phase # "none")
  BY <1>e DEF StartRun
<1>5. CacheFresh'
  <2>1. CASE phase = "none"
    <3>1. base.phase = "none"
      BY DEF StartRun, CacheInv, PhaseInv
    <3>2. base' = base
      BY <2>1, <3>1, <1>c, <1>e
    <3> QED BY <2>1, <3>2 DEF StartRun, CacheInv, CacheFresh
  <2>2. CASE phase # "none"
    BY <2>2 DEF StartRun, CacheFresh, NoContexts
  <2> QED BY <2>1, <2>2
<1> QED BY <1>1, <1>2, <1>3, <1>4, <1>5 DEF CacheInv, PhaseInv

LEMMA SetContextStep == CacheInv /\ SetContext => CacheInv'
<1> SUFFICES ASSUME CacheInv, SetContext PROVE CacheInv'
  OBVIOUS
<1>1. /\ base' \in [phase: {"none", "hook", "failed"}, set: Int, tasks: [Tasks -> 0..2]]
      /\ base'.phase = base.phase
  BY DEF SetContext, CacheInv, PhaseInv
<1>2. IsStack' /\ stack' = stack
  BY DEF SetContext, CacheInv, IsStack
<1> QED BY <1>1, <1>2, DropsCache DEF SetContext

LEMMA CallNextStep == CacheInv /\ CallNext => CacheInv'
<1> SUFFICES ASSUME CacheInv, CallNext PROVE CacheInv'
  OBVIOUS
<1> DEFINE callers == WithTop([Top EXCEPT !.calls = Tail(@)])
<1>1. (\E S : callers \in Seq(S)) /\ (callers = <<>> => stack = <<>>)
  BY WithTopStack DEF CacheInv
<1>2. stack' = callers \/ stack' = Append(callers, Frame(Head(Top.calls)))
  BY DEF CallNext, Enter
<1>3. IsStack' /\ (stack' = <<>> => stack = <<>>)
  <2> HIDE DEF callers
  <2>1. CASE stack' = callers
    BY <1>1, <2>1 DEF IsStack
  <2>2. CASE stack' = Append(callers, Frame(Head(Top.calls)))
    BY <1>1, <2>2, AppendStack DEF IsStack
  <2> QED BY <1>2, <2>1, <2>2
<1> QED BY <1>3, KeepsCache DEF CallNext

LEMMA ReturnStep == CacheInv /\ Return => CacheInv'
<1> SUFFICES ASSUME CacheInv, Return PROVE CacheInv'
  OBVIOUS
<1>1. IsStack'
  BY PoppedStack DEF Return, CacheInv, IsStack
<1>2. CASE Popped # <<>>
  BY <1>1, <1>2 DEF Return, CacheInv, PhaseInv, CacheFresh
<1>3. CASE Popped = <<>>
  <2>1. /\ base' \in [phase: {"none", "hook", "failed"}, set: Int, tasks: [Tasks -> 0..2]]
        /\ base'.phase = "none"
    BY <1>3 DEF Return, CacheInv, PhaseInv
  <2>2. CASE root.inPhase
    <3>1. ctxCache' = NoContexts
      BY <1>3, <2>2 DEF Return
    <3> QED BY <1>1, <2>1, <3>1 DEF CacheInv, PhaseInv, CacheFresh, NoContexts
  <2>3. CASE ~root.inPhase
    <3>1. base' = base
      BY <1>3, <2>3 DEF Return, CacheInv, PhaseInv
    <3>2. ctxCache' = ctxCache
      BY <1>3, <2>3 DEF Return
    <3> QED BY <1>1, <2>1, <3>1, <3>2 DEF CacheInv, PhaseInv, CacheFresh
  <2> QED BY <2>2, <2>3
<1> QED BY <1>2, <1>3

\* The steps of a body: what each does to the stack.
LEMMA BodySteps ==
    ASSUME CacheInv, Dispatch \/ SendNowhere \/ RenderFails \/ Judge \/ Finish
    PROVE  IsStack' /\ (stack' = <<>> => stack = <<>>)
<1>1. IsStack
  BY DEF CacheInv
<1>2. ASSUME NEW f, stack' = WithTop(f) PROVE IsStack' /\ (stack' = <<>> => stack = <<>>)
  BY <1>1, <1>2, WithTopStack DEF IsStack
<1>3. CASE Dispatch
  <2>1. CASE BodyEnds("none")
    BY <1>1, <2>1, BodyEndsStack
  <2>2. CASE ~BodyEnds("none")
    BY <1>2, <1>3, <2>2 DEF Dispatch
  <2> QED BY <2>1, <2>2
<1>4. CASE SendNowhere
  BY <1>1, <1>2, <1>4, BodyEndsStack DEF SendNowhere
<1>5. CASE RenderFails
  BY <1>1, <1>5, BodyEndsStack DEF RenderFails
<1>6. CASE Judge
  <2>1. PICK bad, dropped : Proceeds(bad, dropped)
    BY <1>6 DEF Judge
  <2>2. \/ BodyEnds("none") \/ BodyEnds("failed")
        \/ \E f : stack' = WithTop(f)
    BY <2>1 DEF Proceeds
  <2> QED BY <1>1, <1>2, <2>2, BodyEndsStack
<1>7. CASE Finish
  BY <1>1, <1>7, BodyEndsStack DEF Finish
<1> QED BY <1>3, <1>4, <1>5, <1>6, <1>7

LEMMA BodyStep ==
    ASSUME CacheInv, Dispatch \/ SendNowhere \/ RenderFails \/ Judge \/ Finish
    PROVE  CacheInv'
<1>1. IsStack' /\ (stack' = <<>> => stack = <<>>)
  BY BodySteps
<1>2. root' = root
  BY DEF Dispatch, SendNowhere, RenderFails, Judge, Finish
<1>3. \/ SetTaskState
      \/ base' = base /\ ctxCache' = ctxCache
      \/ base' = base /\ \E places : ctxCache' = Rendered(places)
  BY DEF Dispatch, SendNowhere, RenderFails, Judge, Finish
<1> QED BY <1>1, <1>2, <1>3, StateStored, KeepsCache, FillsCache

LEMMA SendStep == CacheInv /\ Send => CacheInv'
<1> SUFFICES ASSUME CacheInv, Send PROVE CacheInv'
  OBVIOUS
<1>1. \/ ctxCache' = ctxCache
      \/ \E places : ctxCache' = Rendered(places)
  BY DEF Send
<1>2. base' = base /\ root' = root /\ stack' = stack
  BY DEF Send
<1>3. IsStack'
  BY <1>2 DEF CacheInv, IsStack
<1> QED BY <1>1, <1>2, <1>3, KeepsCache, FillsCache

LEMMA StepCacheInv == CacheInv /\ [Next]_vars => CacheInv'
<1> SUFFICES ASSUME CacheInv, [Next]_vars PROVE CacheInv'
  OBVIOUS
<1>1. CASE UNCHANGED vars
  BY <1>1 DEF vars, CacheInv, PhaseInv, CacheFresh, IsStack
<1>2. CASE Interrupt
  BY <1>2 DEF Interrupt, CacheInv, PhaseInv, CacheFresh, IsStack
<1>3. CASE \E t \in Tasks, phase \in {"none", "hook", "failed"} : StartRun(t, phase)
  BY <1>3, StartRunStep
<1> QED BY <1>1, <1>2, <1>3, SetContextStep, CallNextStep, ReturnStep, BodyStep, SendStep
        DEF Next, Run

\* No render sees a value that has changed since: for any tasks, hosts, Deployfile and
\* faults, a cached context is the current one (executor.go:42-46, 252-258, 306-316).
THEOREM ContextsFresh == Spec => []CacheFresh
<1>1. CacheInv => CacheFresh
  BY DEF CacheInv
<1> QED BY <1>1, InitCacheInv, StepCacheInv, PTL DEF Spec

-----------------------------------------------------------------------------
(* No failure gets lost.                                                   *)

\* A command is under way only while a body runs and nothing has failed.
Outstanding == flight # NoFlight => stack # <<>> /\ Top.at = "body" /\ error = "none"

Excused(w) ==
    \/ w[2] \in unreachable
    \/ file.tasks[w[1]].continueOnError /\ file.tasks[w[1]].body \in {"output", "cmds"}

SurfaceInv == Outstanding /\ (error = "none" => \A w \in wrongs : Excused(w))

\* A step between commands that adds no bad answer and forgives no error.
LEMMA NothingWrong ==
    ASSUME SurfaceInv, flight' = NoFlight, file' = file, wrongs' = wrongs,
           unreachable' = unreachable, error' = "none" => error = "none"
    PROVE  SurfaceInv'
BY DEF SurfaceInv, Outstanding, Excused

\* The judgement: a bad answer is forgiven, its host is dropped, or the body fails.
LEMMA JudgeSurfaces == SurfaceInv /\ Judge => SurfaceInv'
<1> SUFFICES ASSUME SurfaceInv, Judge PROVE SurfaceInv'
  OBVIOUS
<1>1. error = "none" /\ flight' = NoFlight /\ file' = file
  BY DEF Judge, SurfaceInv, Outstanding
<1>2. PICK answer, bad, dropped :
        /\ dropped \in {{}, bad}
        /\ wrongs' = wrongs \cup {<<Top.task, h, answer[h]>> : h \in bad}
        /\ unreachable' = unreachable \cup dropped
        /\ Proceeds(bad, dropped)
  BY DEF Judge, DroppedAlone, DroppedTogether
<1>3. ASSUME error' = "none" PROVE bad = {} \/ Forgiven \/ dropped = bad
  BY <1>2, <1>3 DEF Proceeds, BodyEnds
<1>4. ASSUME error' = "none", NEW w \in wrongs' PROVE Excused(w)'
  <2>1. CASE w \in wrongs
    BY <1>1, <1>2, <2>1 DEF SurfaceInv, Excused
  <2>2. CASE w \notin wrongs
    <3>1. PICK h \in bad : w = <<Top.task, h, answer[h]>>
      BY <1>2, <1>4, <2>2
    <3>2. w[1] = Top.task /\ w[2] = h
      BY <3>1
    <3>3. CASE dropped = bad
      BY <1>2, <3>1, <3>2, <3>3 DEF Excused
    <3>4. CASE Forgiven
      BY <1>1, <3>2, <3>4 DEF Excused, Forgiven, Own
    <3> QED
      BY <1>3, <1>4, <3>1, <3>3, <3>4
  <2> QED
    BY <2>1, <2>2
<1> QED
  BY <1>1, <1>4 DEF SurfaceInv, Outstanding

LEMMA StepSurfaces == SurfaceInv /\ [Next]_vars => SurfaceInv'
<1> SUFFICES ASSUME SurfaceInv, [Next]_vars PROVE SurfaceInv'
  OBVIOUS
<1>1. CASE UNCHANGED vars
  BY <1>1 DEF vars, SurfaceInv, Outstanding, Excused, Top
<1>2. CASE Interrupt
  BY <1>2 DEF Interrupt, SurfaceInv, Outstanding, Excused, Top
<1>3. CASE \E t \in Tasks, phase \in {"none", "hook", "failed"} : StartRun(t, phase)
  <2>1. wrongs' = {} /\ flight' = NoFlight
    BY <1>3 DEF StartRun, SurfaceInv, Outstanding
  <2> QED
    BY <2>1 DEF SurfaceInv, Outstanding
<1>4. CASE Send
  <2>1. stack' = stack /\ error' = error /\ wrongs' = wrongs /\ unreachable' = unreachable
        /\ file' = file /\ stack # <<>> /\ error = "none" /\ Top.at = "body"
    BY <1>4 DEF Send, InBody
  <2> QED
    BY <2>1 DEF SurfaceInv, Outstanding, Excused, Top
<1>5. CASE Judge
  BY <1>5, JudgeSurfaces
<1>6. CASE SetContext \/ CallNext \/ Return \/ Dispatch \/ SendNowhere \/ RenderFails \/ Finish
  <2>1. flight = NoFlight
    BY <1>6 DEF SurfaceInv, Outstanding, SetContext, CallNext, Return, Dispatch, SendNowhere,
                RenderFails, Finish, InBody
  <2>2. flight' = flight /\ file' = file /\ wrongs' = wrongs /\ unreachable' = unreachable
    BY <1>6 DEF SetContext, CallNext, Return, Dispatch, SendNowhere, RenderFails, Finish
  <2>3. error' = "none" => error = "none"
    BY <1>6 DEF SetContext, CallNext, Enter, Return, Dispatch, SendNowhere, RenderFails, Finish,
                InBody, BodyEnds
  <2> QED
    BY <2>1, <2>2, <2>3, NothingWrong
<1> QED
  BY <1>1, <1>2, <1>3, <1>4, <1>5, <1>6 DEF Next, Run

\* A run ends well only if every host that failed in it was forgiven or given up, for
\* any tasks, however they call each other, hosts, Deployfile and faults
\* (deps.go:51-80, run.go:150-163).
THEOREM FailuresSurface == Spec => []NothingSwallowed
<1>1. Init => SurfaceInv
  BY DEF Init, SurfaceInv, Outstanding
<1>2. SurfaceInv => NothingSwallowed
  BY DEF SurfaceInv, NothingSwallowed, Excused
<1> QED
  BY <1>1, <1>2, StepSurfaces, PTL DEF Spec

-----------------------------------------------------------------------------
(* Whose output it is.                                                     *)

\* A frame is what Frame makes, with its fields set since.
Framed(f) ==
    f = [task |-> f.task, prevLogTask |-> f.prevLogTask, hosts |-> f.hosts, cmd |-> f.cmd,
         at |-> f.at, calls |-> f.calls]

\* A frame with fields set is a frame of the same task and caller.
SetPhase(f, x, y) == [f EXCEPT !.at = x, !.calls = y]

LEMMA PhaseSet ==
    ASSUME NEW f, Framed(f), NEW x, NEW y
    PROVE  LET g == SetPhase(f, x, y)
           IN  Framed(g) /\ g.task = f.task /\ g.prevLogTask = f.prevLogTask /\ g.at = x
<1> DEFINE e == [f EXCEPT !.at = x]
           g == SetPhase(f, x, y)
<1>1. e = [task |-> f.task, prevLogTask |-> f.prevLogTask, hosts |-> f.hosts,
           cmd |-> f.cmd, at |-> x, calls |-> f.calls]
  BY DEF Framed
<1>2. g = [e EXCEPT !.calls = y]
  BY DEF SetPhase
<1> HIDE DEF e, g
<1>3. g = [task |-> f.task, prevLogTask |-> f.prevLogTask, hosts |-> f.hosts,
           cmd |-> f.cmd, at |-> x, calls |-> y]
  BY <1>1, <1>2
<1>4. Framed(g) /\ g.task = f.task /\ g.prevLogTask = f.prevLogTask /\ g.at = x
  BY <1>3 DEF Framed
<1> QED
  BY <1>4 DEF g

SetBody(f, x, y) == [f EXCEPT !.at = x, !.hosts = y]

LEMMA BodySet ==
    ASSUME NEW f, Framed(f), NEW x, NEW y
    PROVE  LET g == SetBody(f, x, y)
           IN  Framed(g) /\ g.task = f.task /\ g.prevLogTask = f.prevLogTask /\ g.at = x
<1> DEFINE e == [f EXCEPT !.at = x]
           g == SetBody(f, x, y)
<1>1. e = [task |-> f.task, prevLogTask |-> f.prevLogTask, hosts |-> f.hosts,
           cmd |-> f.cmd, at |-> x, calls |-> f.calls]
  BY DEF Framed
<1>2. g = [e EXCEPT !.hosts = y]
  BY DEF SetBody
<1> HIDE DEF e, g
<1>3. g = [task |-> f.task, prevLogTask |-> f.prevLogTask, hosts |-> y,
           cmd |-> f.cmd, at |-> x, calls |-> f.calls]
  BY <1>1, <1>2
<1>4. Framed(g) /\ g.task = f.task /\ g.prevLogTask = f.prevLogTask /\ g.at = x
  BY <1>3 DEF Framed
<1> QED
  BY <1>4 DEF g

SetCommand(f, x, y) == [f EXCEPT !.cmd = x, !.hosts = y]

LEMMA CommandSet ==
    ASSUME NEW f, Framed(f), NEW x, NEW y
    PROVE  LET g == SetCommand(f, x, y)
           IN  Framed(g) /\ g.task = f.task /\ g.prevLogTask = f.prevLogTask /\ g.at = f.at
<1> DEFINE e == [f EXCEPT !.cmd = x]
           g == SetCommand(f, x, y)
<1>1. e = [task |-> f.task, prevLogTask |-> f.prevLogTask, hosts |-> f.hosts,
           cmd |-> x, at |-> f.at, calls |-> f.calls]
  BY DEF Framed
<1>2. g = [e EXCEPT !.hosts = y]
  BY DEF SetCommand
<1> HIDE DEF e, g
<1>3. g = [task |-> f.task, prevLogTask |-> f.prevLogTask, hosts |-> y,
           cmd |-> x, at |-> f.at, calls |-> f.calls]
  BY <1>1, <1>2
<1>4. Framed(g) /\ g.task = f.task /\ g.prevLogTask = f.prevLogTask /\ g.at = f.at
  BY <1>3 DEF Framed
<1> QED
  BY <1>4 DEF g

LEMMA CallsSet ==
    ASSUME NEW f, Framed(f), NEW x
    PROVE  LET g == [f EXCEPT !.calls = x]
           IN  Framed(g) /\ g.task = f.task /\ g.prevLogTask = f.prevLogTask /\ g.at = f.at
BY DEF Framed

\* Each frame remembers its caller's task, and only the last one may be in its body.
Chained(s) ==
    /\ \E S : s \in Seq(S)
    /\ \A i \in 1..Len(s) :
          /\ Framed(s[i])
          /\ s[i].prevLogTask = IF i = 1 THEN None ELSE s[i - 1].task
          /\ i < Len(s) => s[i].at # "body"

AtWork == stack # <<>> /\ Top.at = "body" /\ error = "none"

AttributeInv ==
    /\ Chained(stack)
    /\ logTask = IF stack = <<>> THEN None ELSE Top.task
    /\ sink = IF AtWork /\ Own.silentOutput THEN Top.task ELSE None

LEMMA RewriteChain ==
    ASSUME Chained(stack), stack # <<>>, NEW f, Framed(f), f.task = Top.task,
           f.prevLogTask = Top.prevLogTask
    PROVE  /\ Chained(WithTop(f)) /\ WithTop(f) # <<>> /\ Len(WithTop(f)) = Len(stack)
           /\ WithTop(f)[Len(stack)] = f
<1>1. PICK S : stack \in Seq(S)
  BY DEF Chained
<1>2. stack \in Seq(S \cup {f}) /\ Len(stack) \in Nat /\ Len(stack) >= 1
  BY <1>1
<1> DEFINE w == WithTop(f)
<1>3. w \in Seq(S \cup {f}) /\ Len(w) = Len(stack)
      /\ \A i \in 1..Len(stack) : w[i] = IF i = Len(stack) THEN f ELSE stack[i]
  BY <1>2 DEF WithTop
<1> HIDE DEF w
<1>4. ASSUME NEW i \in 1..Len(w)
      PROVE  /\ Framed(w[i])
             /\ w[i].prevLogTask = IF i = 1 THEN None ELSE w[i - 1].task
             /\ i < Len(w) => w[i].at # "body"
  <2>1. Framed(stack[i]) /\ stack[i].prevLogTask = (IF i = 1 THEN None ELSE stack[i - 1].task)
        /\ (i < Len(stack) => stack[i].at # "body")
    BY <1>3, <1>4 DEF Chained
  <2>2. i # 1 => w[i - 1] = stack[i - 1]
    BY <1>2, <1>3, <1>4
  <2>3. w[i].prevLogTask = stack[i].prevLogTask
    BY <1>2, <1>3, <1>4 DEF Top
  <2> QED
    BY <1>2, <1>3, <1>4, <2>1, <2>2, <2>3
<1>5. Chained(w) /\ w # <<>> /\ w[Len(stack)] = f
  BY <1>2, <1>3, <1>4 DEF Chained
<1> QED
  BY <1>3, <1>5 DEF w

LEMMA PushChain ==
    ASSUME NEW s, Chained(s), s # <<>>, s[Len(s)].at # "body", NEW g, Framed(g),
           g.prevLogTask = s[Len(s)].task
    PROVE  /\ Chained(Append(s, g)) /\ Append(s, g) # <<>>
           /\ Append(s, g)[Len(Append(s, g))] = g
<1>1. PICK S : s \in Seq(S)
  BY DEF Chained
<1>2. s \in Seq(S \cup {g}) /\ Len(s) \in Nat /\ Len(s) >= 1
  BY <1>1
<1> DEFINE a == Append(s, g)
<1>3. a \in Seq(S \cup {g}) /\ Len(a) = Len(s) + 1 /\ a[Len(s) + 1] = g
      /\ \A i \in 1..Len(s) : a[i] = s[i]
  BY <1>2
<1> HIDE DEF a
<1>4. ASSUME NEW i \in 1..Len(a)
      PROVE  /\ Framed(a[i])
             /\ a[i].prevLogTask = IF i = 1 THEN None ELSE a[i - 1].task
             /\ i < Len(a) => a[i].at # "body"
  <2>1. CASE i = Len(s) + 1
    <3>1. a[i] = g /\ i # 1 /\ i - 1 = Len(s) /\ a[i - 1] = s[Len(s)] /\ ~(i < Len(a))
      BY <1>2, <1>3, <2>1
    <3> QED
      BY <3>1
  <2>2. CASE i # Len(s) + 1
    <3>1. i \in 1..Len(s)
      BY <1>2, <1>3, <1>4, <2>2
    <3>2. Framed(s[i]) /\ s[i].prevLogTask = (IF i = 1 THEN None ELSE s[i - 1].task)
          /\ (i < Len(s) => s[i].at # "body")
      BY <3>1 DEF Chained
    <3>3. a[i] = s[i] /\ (i # 1 => a[i - 1] = s[i - 1])
      BY <1>2, <1>3, <3>1
    <3>4. s[i].at # "body"
      BY <1>2, <3>1, <3>2
    <3> QED
      BY <3>2, <3>3, <3>4
  <2> QED
    BY <2>1, <2>2
<1>5. Chained(a) /\ a # <<>> /\ a[Len(a)] = g
  BY <1>2, <1>3, <1>4 DEF Chained
<1> QED
  BY <1>5 DEF a

LEMMA PrefixLength ==
    ASSUME NEW S, NEW s \in Seq(S), NEW m \in Nat, m <= Len(s)
    PROVE  Len(SubSeq(s, 1, m)) = m
OBVIOUS

LEMMA PopChain ==
    ASSUME Chained(stack), stack # <<>>
    PROVE  /\ Chained(Popped)
           /\ Popped = <<>> => Top.prevLogTask = None
           /\ Popped # <<>> => /\ Popped[Len(Popped)].at # "body"
                               /\ Popped[Len(Popped)].task = Top.prevLogTask
<1>1. PICK S : stack \in Seq(S)
  BY DEF Chained
<1>2. Len(stack) \in Nat /\ Len(stack) >= 1
  BY <1>1
<1> DEFINE p == Popped
           n == Len(stack)
<1>3. p \in Seq(S) /\ Len(p) = n - 1 /\ \A i \in 1..(n - 1) : p[i] = stack[i]
  <2>1. p \in Seq(S)
    BY <1>1, <1>2 DEF Popped
  <2>2. Len(p) = n - 1
    <3>1. n - 1 \in Nat /\ n - 1 <= Len(stack)
      BY <1>2
    <3> QED
      BY <1>1, <3>1, PrefixLength DEF Popped
  <2>3. ASSUME NEW i \in 1..(n - 1) PROVE p[i] = stack[i]
    BY <1>1, <1>2, <2>3 DEF Popped
  <2> QED
    BY <2>1, <2>2, <2>3
<1>4. Top = stack[n] /\ n \in 1..n
  BY <1>2 DEF Top
<1> HIDE DEF p
<1>5. \A i \in 1..n : /\ Framed(stack[i])
                      /\ stack[i].prevLogTask = IF i = 1 THEN None ELSE stack[i - 1].task
                      /\ i < n => stack[i].at # "body"
  BY DEF Chained
<1> HIDE DEF n
<1>6. n \in Nat /\ n >= 1
  BY <1>2 DEF n
<1>7. ASSUME NEW i \in 1..Len(p)
      PROVE  /\ Framed(p[i])
             /\ p[i].prevLogTask = IF i = 1 THEN None ELSE p[i - 1].task
             /\ p[i].at # "body"
  <2>1. i \in 1..n /\ i \in 1..(n - 1) /\ i < n /\ p[i] = stack[i]
    BY <1>3, <1>6, <1>7
  <2>2. i # 1 => p[i - 1] = stack[i - 1]
    BY <1>3, <1>6, <2>1
  <2> QED
    BY <1>5, <2>1, <2>2
<1>8. Chained(p)
  BY <1>3, <1>7 DEF Chained
<1>9. CASE p = <<>>
  <2>1. n = 1
    BY <1>3, <1>6, <1>9
  <2> QED
    BY <1>4, <1>5, <1>8, <1>9, <2>1 DEF p
<1>10. CASE p # <<>>
  <2>1. n # 1 /\ Len(p) = n - 1 /\ n - 1 \in 1..Len(p) /\ p[n - 1] = stack[n - 1]
    BY <1>3, <1>6, <1>10
  <2>2. p[n - 1].at # "body" /\ stack[n].prevLogTask = stack[n - 1].task
    BY <1>4, <1>5, <1>7, <2>1
  <2> QED
    BY <1>4, <1>8, <1>10, <2>1, <2>2 DEF p
<1> QED
  BY <1>9, <1>10

LEMMA TopFramed == ASSUME Chained(stack), stack # <<>> PROVE Framed(Top)
<1>1. PICK S : stack \in Seq(S)
  BY DEF Chained
<1>2. Len(stack) \in 1..Len(stack)
  BY <1>1
<1> QED
  BY <1>2 DEF Chained, Top

\* The body ends: its output is put back, and the frame stays or goes on to its hooks.
LEMMA BodyEndsAttributed ==
    ASSUME AttributeInv, stack # <<>>, NEW err \in {"none", "failed"}, BodyEnds(err),
           logTask' = logTask
    PROVE  AttributeInv'
<1>1. CASE err = "none"
  <2> DEFINE f == [Top EXCEPT !.at = "after", !.calls = Own.after]
  <2>1. Framed(Top)
    BY TopFramed DEF AttributeInv
  <2>2. f = SetPhase(Top, "after", Own.after)
    BY DEF SetPhase
  <2>3. stack' = WithTop(f) /\ sink' = None
    BY <1>1 DEF BodyEnds
  <2> HIDE DEF f
  <2>4. Framed(f) /\ f.task = Top.task /\ f.prevLogTask = Top.prevLogTask /\ f.at = "after"
    BY <2>1, <2>2, PhaseSet
  <2>5. Chained(stack') /\ stack' # <<>> /\ Top' = f
    BY <2>3, <2>4, RewriteChain DEF AttributeInv, Top
  <2> QED
    BY <2>3, <2>4, <2>5 DEF AttributeInv, AtWork
<1>2. CASE err = "failed"
  BY <1>2 DEF BodyEnds, AttributeInv, AtWork, Top
<1> QED
  BY <1>1, <1>2

\* A frame's fields change, not its task, and it stays in its body or out of it.
LEMMA GoesAttributed ==
    ASSUME AttributeInv, stack # <<>>, NEW f, Framed(f), f.task = Top.task,
           f.prevLogTask = Top.prevLogTask, stack' = WithTop(f), logTask' = logTask,
           file' = file,
           sink' = IF f.at = "body" /\ error' = "none" /\ Own.silentOutput THEN Top.task ELSE None
    PROVE  AttributeInv'
<1>1. Chained(stack') /\ stack' # <<>> /\ Top' = f
  BY RewriteChain DEF AttributeInv, Top
<1>2. Own' = Own
  BY <1>1 DEF Own
<1> QED
  BY <1>1, <1>2 DEF AttributeInv, AtWork

LEMMA CallNextAttributed == AttributeInv /\ CallNext => AttributeInv'
<1> SUFFICES ASSUME AttributeInv, CallNext PROVE AttributeInv'
  OBVIOUS
<1> DEFINE f == [Top EXCEPT !.calls = Tail(@)]
           t == Head(Top.calls)
<1>1. stack # <<>> /\ Top.at # "body" /\ sink' = sink /\ file' = file
  BY DEF CallNext
<1>2. Framed(Top)
  BY <1>1, TopFramed DEF AttributeInv
<1>3. Framed(f) /\ f.task = Top.task /\ f.prevLogTask = Top.prevLogTask /\ f.at = Top.at
  BY <1>2, CallsSet
<1>4. Enter(t, WithTop(f))
  BY DEF CallNext
<1>5. sink = None /\ logTask = Top.task
  BY <1>1 DEF AttributeInv, AtWork
<1> HIDE DEF f, t
<1>6. Chained(WithTop(f)) /\ WithTop(f) # <<>> /\ WithTop(f)[Len(WithTop(f))] = f
  BY <1>1, <1>3, RewriteChain DEF AttributeInv
<1>7. CASE t \in onStack
  <2>1. stack' = WithTop(f) /\ logTask' = logTask
    BY <1>4, <1>7 DEF Enter
  <2>2. Top' = f /\ stack' # <<>>
    BY <1>6, <2>1 DEF Top
  <2> QED
    BY <1>1, <1>3, <1>5, <1>6, <2>1, <2>2 DEF AttributeInv, AtWork
<1>8. CASE t \notin onStack
  <2>1. stack' = Append(WithTop(f), Frame(t)) /\ logTask' = t
    BY <1>4, <1>8 DEF Enter
  <2>2. Framed(Frame(t)) /\ Frame(t).prevLogTask = f.task /\ Frame(t).task = t
        /\ Frame(t).at # "body"
    BY <1>3, <1>5 DEF Frame, Framed
  <2>3. Chained(stack') /\ stack' # <<>> /\ Top' = Frame(t)
    BY <1>1, <1>3, <1>6, <2>1, <2>2, PushChain DEF Top
  <2> QED
    BY <1>1, <1>5, <2>1, <2>2, <2>3 DEF AttributeInv, AtWork
<1> QED
  BY <1>7, <1>8

LEMMA ReturnAttributed == AttributeInv /\ Return => AttributeInv'
<1> SUFFICES ASSUME AttributeInv, Return PROVE AttributeInv'
  OBVIOUS
<1>1. stack # <<>> /\ stack' = Popped /\ logTask' = Top.prevLogTask /\ sink' = sink
      /\ ~AtWork
  BY DEF Return, AtWork
<1>2. sink = None
  BY <1>1 DEF AttributeInv
<1>3. /\ Chained(stack')
      /\ stack' = <<>> => logTask' = None
      /\ stack' # <<>> => stack'[Len(stack')].at # "body" /\ stack'[Len(stack')].task = logTask'
  BY <1>1, PopChain DEF AttributeInv
<1> QED
  BY <1>1, <1>2, <1>3 DEF AttributeInv, AtWork, Top

LEMMA DispatchAttributed == AttributeInv /\ Dispatch => AttributeInv'
<1> SUFFICES ASSUME AttributeInv, Dispatch PROVE AttributeInv'
  OBVIOUS
<1>1. stack # <<>> /\ logTask' = logTask /\ file' = file /\ error = "none"
  BY DEF Dispatch
<1>2. CASE BodyEnds("none")
  BY <1>1, <1>2, BodyEndsAttributed
<1>3. CASE ~BodyEnds("none")
  <2>1. PICK hosts : /\ stack' = WithTop([Top EXCEPT !.at = "body", !.hosts = hosts])
                     /\ sink' = IF Own.silentOutput THEN Top.task ELSE None
                     /\ error' = error
    BY <1>3 DEF Dispatch
  <2> DEFINE f == [Top EXCEPT !.at = "body", !.hosts = hosts]
  <2>2. Framed(Top)
    BY <1>1, TopFramed DEF AttributeInv
  <2>3. f = SetBody(Top, "body", hosts)
    BY DEF SetBody
  <2> HIDE DEF f
  <2>4. Framed(f) /\ f.task = Top.task /\ f.prevLogTask = Top.prevLogTask /\ f.at = "body"
    BY <2>2, <2>3, BodySet
  <2> QED
    BY <1>1, <2>1, <2>4, GoesAttributed DEF f
<1> QED
  BY <1>2, <1>3

\* A step inside a body: it ends, or goes on.
LEMMA WorkAttributed ==
    ASSUME AttributeInv, Outstanding, SendNowhere \/ RenderFails \/ Judge \/ Finish
    PROVE  AttributeInv'
<1>1. AtWork /\ logTask' = logTask /\ file' = file
  BY DEF SendNowhere, RenderFails, Judge, Finish, InBody, Outstanding, AtWork
<1>2. \/ \E err \in {"none", "failed"} : BodyEnds(err)
      \/ \E cmd : /\ stack' = WithTop([Top EXCEPT !.cmd = cmd]) /\ UNCHANGED <<error, sink>>
      \/ \E cmd, hosts : /\ stack' = WithTop([Top EXCEPT !.cmd = cmd, !.hosts = hosts])
                         /\ UNCHANGED <<error, sink>>
  <2>1. CASE SendNowhere
    BY <2>1 DEF SendNowhere
  <2>2. CASE RenderFails \/ Finish
    BY <2>2 DEF RenderFails, Finish
  <2>3. CASE Judge
    <3>1. PICK bad, dropped : Proceeds(bad, dropped)
      BY <2>3 DEF Judge
    <3> QED
      BY <3>1 DEF Proceeds
  <2> QED
    BY <2>1, <2>2, <2>3
<1>3. CASE \E err \in {"none", "failed"} : BodyEnds(err)
  BY <1>1, <1>3, BodyEndsAttributed DEF AtWork
<1>4. Framed(Top)
  BY <1>1, TopFramed DEF AttributeInv, AtWork
<1>5. ASSUME NEW f, Framed(f), f.task = Top.task, f.prevLogTask = Top.prevLogTask,
             f.at = Top.at, stack' = WithTop(f), UNCHANGED <<error, sink>>
      PROVE  AttributeInv'
  BY <1>1, <1>5, GoesAttributed DEF AtWork, AttributeInv
<1>6. ASSUME NEW cmd, stack' = WithTop([Top EXCEPT !.cmd = cmd]), UNCHANGED <<error, sink>>
      PROVE  AttributeInv'
  <2> DEFINE f == [Top EXCEPT !.cmd = cmd]
  <2>1. Framed(f) /\ f.task = Top.task /\ f.prevLogTask = Top.prevLogTask /\ f.at = Top.at
    BY <1>4 DEF Framed
  <2> HIDE DEF f
  <2> QED
    BY <1>5, <1>6, <2>1 DEF f
<1>7. ASSUME NEW cmd, NEW hosts, stack' = WithTop([Top EXCEPT !.cmd = cmd, !.hosts = hosts]),
             UNCHANGED <<error, sink>>
      PROVE  AttributeInv'
  <2> DEFINE f == [Top EXCEPT !.cmd = cmd, !.hosts = hosts]
  <2>1. f = SetCommand(Top, cmd, hosts)
    BY DEF SetCommand
  <2> HIDE DEF f
  <2>2. Framed(f) /\ f.task = Top.task /\ f.prevLogTask = Top.prevLogTask /\ f.at = Top.at
    BY <1>4, <2>1, CommandSet
  <2> QED
    BY <1>5, <1>7, <2>2 DEF f
<1> QED
  BY <1>2, <1>3, <1>6, <1>7

LEMMA StartAttributed ==
    ASSUME AttributeInv, NEW t \in Tasks, NEW phase, StartRun(t, phase)
    PROVE  AttributeInv'
<1>1. stack = <<>> /\ stack' = <<Frame(t)>> /\ logTask' = t /\ sink' = sink
  BY DEF StartRun
<1>2. logTask = None /\ sink = None
  BY <1>1 DEF AttributeInv, AtWork
<1>3. Framed(Frame(t)) /\ Frame(t).prevLogTask = None /\ Frame(t).task = t /\ Frame(t).at # "body"
  BY <1>2 DEF Frame, Framed
<1> DEFINE f == Frame(t)
<1> HIDE DEF f
<1>4. stack' = <<f>> /\ Framed(f) /\ f.prevLogTask = None /\ f.task = t /\ f.at # "body"
  BY <1>1, <1>3 DEF f
<1>5. stack' \in Seq({f}) /\ Len(stack') = 1 /\ stack'[1] = f /\ stack' # <<>>
  BY <1>4
<1>6. ASSUME NEW i \in 1..Len(stack')
      PROVE  Framed(stack'[i]) /\ i = 1 /\ stack'[i].prevLogTask = None /\ ~(i < Len(stack'))
  BY <1>4, <1>5
<1>7. Chained(stack') /\ Top' = f
  BY <1>5, <1>6 DEF Chained, Top
<1> QED
  BY <1>1, <1>2, <1>4, <1>5, <1>7 DEF AttributeInv, AtWork

LEMMA StepAttributed == AttributeInv /\ Outstanding /\ [Next]_vars => AttributeInv'
<1> SUFFICES ASSUME AttributeInv, Outstanding, [Next]_vars PROVE AttributeInv'
  OBVIOUS
<1>1. CASE UNCHANGED vars \/ Interrupt \/ SetContext \/ Send
  <2>1. stack' = stack /\ error' = error /\ sink' = sink /\ logTask' = logTask /\ file' = file
    BY <1>1 DEF vars, Interrupt, SetContext, Send
  <2> QED
    BY <2>1 DEF AttributeInv, AtWork, Top, Own
<1>2. CASE \E t \in Tasks, phase \in {"none", "hook", "failed"} : StartRun(t, phase)
  BY <1>2, StartAttributed
<1> QED
  BY <1>1, <1>2, CallNextAttributed, ReturnAttributed, DispatchAttributed, WorkAttributed
     DEF Next, Run

LEMMA InitAttributed == Init => AttributeInv /\ Outstanding
<1> SUFFICES ASSUME Init PROVE AttributeInv /\ Outstanding
  OBVIOUS
<1>1. stack = <<>> /\ stack \in Seq({}) /\ Len(stack) = 0
  BY DEF Init
<1>2. Chained(stack)
  BY <1>1 DEF Chained
<1> QED
  BY <1>1, <1>2 DEF Init, AttributeInv, AtWork, Outstanding

\* Output is labelled with the task whose command runs and withheld only if that task
\* says so, and afterwards all is as before, for any tasks, however they call each
\* other, and any faults (deps.go:27-31, 66-74, capture_output.go:37-57).
THEOREM OutputIsOwn == Spec => []OutputAttributed
<1> DEFINE Inv == CacheInv /\ SurfaceInv /\ AttributeInv
<1>1. Init => Inv
  BY InitCacheInv, InitAttributed DEF Init, SurfaceInv
<1>2. Inv /\ [Next]_vars => Inv'
  BY StepCacheInv, StepSurfaces, StepAttributed DEF SurfaceInv
<1>3. Inv => OutputAttributed
  BY DEF CacheInv, PhaseInv, SurfaceInv, Outstanding, AttributeInv, AtWork, OutputAttributed
<1> QED
  BY <1>1, <1>2, <1>3, PTL DEF Spec

-----------------------------------------------------------------------------
(* The types, and what the call stack holds.                               *)

LEMMA Rewritten ==
    ASSUME stack \in Seq(Frames), stack # <<>>, NEW f \in Frames
    PROVE  /\ WithTop(f) \in Seq(Frames) /\ WithTop(f) # <<>> /\ Len(WithTop(f)) = Len(stack)
           /\ WithTop(f)[Len(stack)] = f
           /\ \A i \in 1..Len(stack) : i # Len(stack) => WithTop(f)[i] = stack[i]
           /\ Len(stack) \in Nat /\ Len(stack) >= 1 /\ Top \in Frames
<1> DEFINE F == Frames
<1> HIDE DEF F
<1>1. stack \in Seq(F) /\ f \in F
  BY DEF F
<1>2. Len(stack) \in Nat /\ Len(stack) >= 1
  BY <1>1
<1>3. Len(stack) \in 1..Len(stack) /\ Top \in F
  BY <1>1, <1>2 DEF Top
<1>4. /\ WithTop(f) \in Seq(F) /\ Len(WithTop(f)) = Len(stack)
      /\ WithTop(f)[Len(stack)] = f
      /\ \A i \in 1..Len(stack) : i # Len(stack) => WithTop(f)[i] = stack[i]
  BY <1>1, <1>2, <1>3 DEF WithTop
<1>5. WithTop(f) # <<>>
  BY <1>2, <1>4
<1> QED
  BY <1>2, <1>3, <1>4, <1>5 DEF F

LEMMA Pushed ==
    ASSUME NEW s \in Seq(Frames), NEW g \in Frames
    PROVE  /\ Append(s, g) \in Seq(Frames) /\ Append(s, g) # <<>>
           /\ Len(Append(s, g)) = Len(s) + 1 /\ Append(s, g)[Len(s) + 1] = g
           /\ \A i \in 1..Len(s) : Append(s, g)[i] = s[i]
           /\ Len(s) \in Nat
<1> DEFINE F == Frames
<1> HIDE DEF F
<1>1. s \in Seq(F) /\ g \in F
  BY DEF F
<1>2. /\ Append(s, g) \in Seq(F) /\ Len(Append(s, g)) = Len(s) + 1
      /\ Append(s, g)[Len(s) + 1] = g /\ Len(s) \in Nat
      /\ \A i \in 1..Len(s) : Append(s, g)[i] = s[i]
  BY <1>1
<1>3. Append(s, g) # <<>>
  BY <1>1, <1>2
<1> QED
  BY <1>2, <1>3 DEF F

LEMMA Shortened ==
    ASSUME stack \in Seq(Frames), stack # <<>>
    PROVE  /\ Popped \in Seq(Frames) /\ Len(Popped) = Len(stack) - 1
           /\ \A i \in 1..(Len(stack) - 1) : Popped[i] = stack[i]
           /\ Len(stack) \in Nat /\ Len(stack) >= 1 /\ Top \in Frames
           /\ Popped = <<>> <=> Len(stack) = 1
<1> DEFINE F == Frames
<1> HIDE DEF F
<1>1. stack \in Seq(F)
  BY DEF F
<1>2. Len(stack) \in Nat /\ Len(stack) >= 1
  BY <1>1
<1>3. Top \in F
  BY <1>1, <1>2 DEF Top
<1>a. Popped \in Seq(F)
  BY <1>1, <1>2 DEF Popped
<1>b. Len(Popped) = Len(stack) - 1
  <2>1. Len(stack) - 1 \in Nat /\ Len(stack) - 1 <= Len(stack)
    BY <1>2
  <2> QED
    BY <1>1, <2>1, PrefixLength DEF Popped
<1>c. ASSUME NEW i \in 1..(Len(stack) - 1) PROVE Popped[i] = stack[i]
  BY <1>1, <1>2, <1>c DEF Popped
<1>4. /\ Popped \in Seq(F) /\ Len(Popped) = Len(stack) - 1
      /\ \A i \in 1..(Len(stack) - 1) : Popped[i] = stack[i]
  BY <1>a, <1>b, <1>c
<1>5. Popped = <<>> <=> Len(stack) = 1
  BY <1>2, <1>4
<1> QED
  BY <1>2, <1>3, <1>4, <1>5 DEF F

StackOK ==
    /\ stack \in Seq(Frames)
    /\ onStack = {stack[i].task : i \in 1..Len(stack)}
    /\ \A i, j \in 1..Len(stack) : stack[i].task = stack[j].task => i = j

\* Where the frame at work may send commands.
Reach(f) ==
    IF file.tasks[f.task].local /\ file.tasks[f.task].body \in {"output", "cmds"}
    THEN {Operator} ELSE Hosts

CommandOK ==
    /\ AtWork => Top.hosts \subseteq Reach(Top)
    /\ flight # NoFlight => Top.cmd <= Cmds /\ flight.to \subseteq Top.hosts

\* The stack is rewritten at its top.
LEMMA RewriteOK ==
    ASSUME StackOK, stack # <<>>, NEW f \in Frames, f.task = Top.task, stack' = WithTop(f),
           onStack' = onStack
    PROVE  StackOK' /\ Top' = f /\ stack' # <<>> /\ Len(stack') = Len(stack)
<1>1. /\ stack' \in Seq(Frames) /\ stack' # <<>> /\ Len(stack') = Len(stack)
      /\ stack'[Len(stack)] = f
      /\ \A i \in 1..Len(stack) : i # Len(stack) => stack'[i] = stack[i]
      /\ Len(stack) \in Nat /\ Len(stack) >= 1
  BY Rewritten DEF StackOK
<1>2. \A i \in 1..Len(stack) : stack'[i].task = stack[i].task
  BY <1>1 DEF Top
<1>3. onStack' = {stack'[i].task : i \in 1..Len(stack')}
  BY <1>1, <1>2 DEF StackOK
<1>4. \A i, j \in 1..Len(stack') : stack'[i].task = stack'[j].task => i = j
  BY <1>1, <1>2 DEF StackOK
<1> QED
  BY <1>1, <1>3, <1>4 DEF StackOK, Top

FieldsOK ==
    /\ file \in Deployfile
    /\ runs \in 0..Runs
    /\ mode \in {"normal", "failed"}
    /\ root \in [task: Tasks \cup {None}, inPhase: BOOLEAN]
    /\ error \in {"none", "failed", "cycle"}
    /\ logTask \in Tasks \cup {None}
    /\ sink \in Tasks \cup {None}
    /\ interrupted \in BOOLEAN

ContextOK ==
    /\ base \in Contexts
    /\ base.set <= runs
    /\ ctxCache \in [Where -> Contexts \cup {None}]

HostsOK ==
    /\ flight \in [to: SUBSET Where, late: BOOLEAN]
    /\ unreachable \subseteq Hosts
    /\ wrongs \subseteq Tasks \X Where \X Answers

TypeInv == StackOK /\ FieldsOK /\ ContextOK /\ HostsOK /\ CommandOK

LEMMA TypeInvTypes == TypeInv => TypeOK
<1> SUFFICES ASSUME TypeInv PROVE TypeOK
  OBVIOUS
<1> DEFINE F == Frames
<1> HIDE DEF F
<1>1. stack \in Seq(F)
  BY DEF TypeInv, StackOK, F
<1>2. DOMAIN stack = 1..Len(stack)
  BY <1>1
<1> QED
  BY <1>1, <1>2 DEF TypeInv, StackOK, FieldsOK, ContextOK, HostsOK, TypeOK, F

LEMMA OwnTask == ASSUME file \in Deployfile, NEW t \in Tasks PROVE file.tasks[t] \in Task
BY DEF Deployfile

LEMMA TopFrame ==
    ASSUME TypeInv, stack # <<>>
    PROVE  Top \in Frames /\ Top.task \in Tasks /\ Own \in Task
<1>1. Top \in Frames
  BY Shortened DEF TypeInv, StackOK
<1>2. Top.task \in Tasks
  BY <1>1 DEF Frames
<1> QED
  BY <1>1, <1>2, OwnTask DEF TypeInv, FieldsOK, Own

LEMMA NewFrame ==
    ASSUME TypeInv, NEW t \in Tasks
    PROVE  Frame(t) \in Frames /\ Frame(t).task = t /\ Frame(t).at # "body"
<1>1. file.tasks[t] \in Task
  BY OwnTask DEF TypeInv, FieldsOK
<1>2. file.tasks[t].before \in Seq(Tasks) /\ file.tasks[t].deps \in Seq(Tasks)
  BY <1>1 DEF Task
<1> DEFINE before == file.tasks[t].before
           deps == file.tasks[t].deps
           calls == IF file.tasks[t].active THEN before \o deps ELSE <<>>
           at == IF file.tasks[t].active THEN "before" ELSE "after"
<1>3. before \o deps \in Seq(Tasks)
  <2> HIDE DEF before, deps
  <2>1. before \in Seq(Tasks) /\ deps \in Seq(Tasks)
    BY <1>2 DEF before, deps
  <2> QED
    BY <2>1
<1>4. <<>> \in Seq(Tasks)
  OBVIOUS
<1>5. calls \in Seq(Tasks) /\ at \in {"before", "body", "after"}
  BY <1>3, <1>4
<1>6. 1 \in 1..Cmds + 1 /\ logTask \in Tasks \cup {None}
  BY TaskRunAssumption DEF TypeInv, FieldsOK
<1>7. Frame(t) = [task |-> t, prevLogTask |-> logTask, hosts |-> {}, cmd |-> 1, at |-> at,
                  calls |-> calls]
  BY DEF Frame
<1>8. at # "body"
  OBVIOUS
<1> HIDE DEF calls, at
<1> QED
  BY <1>5, <1>6, <1>7, <1>8 DEF Frames

LEMMA CallsType ==
    ASSUME NEW f \in Frames, f.calls # <<>>
    PROVE  LET g == [f EXCEPT !.calls = Tail(@)]
           IN  g \in Frames /\ g.task = f.task /\ g.at = f.at /\ g.calls = Tail(f.calls)
               /\ Head(f.calls) \in Tasks
<1>1. f.calls \in Seq(Tasks)
  BY DEF Frames
<1> DEFINE rest == Tail(f.calls)
<1>2. rest \in Seq(Tasks) /\ Head(f.calls) \in Tasks
  BY <1>1
<1>3. [f EXCEPT !.calls = Tail(@)] = [f EXCEPT !.calls = rest]
  OBVIOUS
<1> HIDE DEF rest
<1>4. LET g == [f EXCEPT !.calls = rest]
      IN  g \in Frames /\ g.task = f.task /\ g.at = f.at /\ g.calls = rest
  BY <1>2 DEF Frames
<1> QED
  BY <1>2, <1>3, <1>4 DEF rest

LEMMA PhaseType ==
    ASSUME NEW f \in Frames, NEW y \in Seq(Tasks)
    PROVE  LET g == [f EXCEPT !.at = "after", !.calls = y]
           IN  g \in Frames /\ g.task = f.task /\ g.at = "after" /\ g.calls = y
BY DEF Frames

LEMMA BodyType ==
    ASSUME NEW f \in Frames, NEW y \in SUBSET Where
    PROVE  LET g == [f EXCEPT !.at = "body", !.hosts = y]
           IN  g \in Frames /\ g.task = f.task /\ g.at = "body" /\ g.calls = f.calls
               /\ g.hosts = y
BY DEF Frames

LEMMA CommandType ==
    ASSUME NEW f \in Frames, NEW x \in 1..Cmds + 1, NEW y \in SUBSET Where
    PROVE  LET g == SetCommand(f, x, y)
           IN  g \in Frames /\ g.task = f.task /\ g.at = f.at /\ g.calls = f.calls
               /\ g.hosts = y /\ g.cmd = x
BY DEF Frames, SetCommand

\* The body ends: no command is under way.
LEMMA BodyEndsOK ==
    ASSUME TypeInv, stack # <<>>, NEW err \in {"none", "failed"}, BodyEnds(err),
           onStack' = onStack, flight' = NoFlight
    PROVE  StackOK' /\ CommandOK' /\ sink' = None /\ error' = err
<1>1. Top \in Frames /\ Own \in Task
  BY TopFrame
<1>2. CASE err = "none"
  <2> DEFINE f == [Top EXCEPT !.at = "after", !.calls = Own.after]
  <2>1. Own.after \in Seq(Tasks)
    BY <1>1 DEF Task
  <2>2. f \in Frames /\ f.task = Top.task /\ f.at = "after"
    BY <1>1, <2>1, PhaseType
  <2>3. stack' = WithTop(f)
    BY <1>2 DEF BodyEnds
  <2> HIDE DEF f
  <2>4. StackOK' /\ Top' = f
    BY <2>2, <2>3, RewriteOK DEF TypeInv
  <2> QED
    BY <2>2, <2>4 DEF BodyEnds, CommandOK, AtWork
<1>3. CASE err = "failed"
  BY <1>3 DEF BodyEnds, TypeInv, StackOK, CommandOK, AtWork
<1> QED
  BY <1>2, <1>3

\* The body goes on with some of its hosts.
LEMMA GoesOK ==
    ASSUME TypeInv, AtWork, NEW x \in 1..Cmds + 1, NEW y, y \subseteq Top.hosts,
           stack' = WithTop([Top EXCEPT !.cmd = x, !.hosts = y]),
           onStack' = onStack, flight' = NoFlight, file' = file
    PROVE  StackOK' /\ CommandOK'
<1> DEFINE f == [Top EXCEPT !.cmd = x, !.hosts = y]
<1>1. Top \in Frames /\ stack # <<>>
  BY TopFrame DEF AtWork
<1>2. y \in SUBSET Where
  BY <1>1 DEF Frames
<1>a. f = SetCommand(Top, x, y)
  BY DEF SetCommand
<1>4. stack' = WithTop(f)
  OBVIOUS
<1> HIDE DEF f
<1>3. f \in Frames /\ f.task = Top.task /\ f.hosts = y /\ f.cmd = x
  BY <1>1, <1>2, <1>a, CommandType
<1>5. StackOK' /\ Top' = f
  BY <1>1, <1>3, <1>4, RewriteOK DEF TypeInv
<1>6. Top.hosts \subseteq Reach(Top)
  BY DEF TypeInv, CommandOK
<1>7. Reach(Top)' = Reach(Top)
  BY <1>3, <1>5 DEF Reach
<1> QED
  BY <1>3, <1>5, <1>6, <1>7 DEF CommandOK

LEMMA StartOK ==
    ASSUME TypeInv, Outstanding, NEW t \in Tasks, NEW phase, StartRun(t, phase)
    PROVE  StackOK' /\ CommandOK'
<1> DEFINE f == Frame(t)
<1>1. f \in Frames /\ f.task = t /\ f.at # "body"
  BY NewFrame
<1>2. stack = <<>> /\ stack' = <<f>> /\ onStack' = {t} /\ flight' = flight
  BY DEF StartRun
<1> DEFINE F == Frames
<1> HIDE DEF f, F
<1>3. <<f>> \in Seq(F) /\ Len(<<f>>) = 1 /\ <<f>>[1] = f
  BY <1>1 DEF F
<1>4. StackOK'
  BY <1>1, <1>2, <1>3 DEF StackOK, F
<1>5. Top' = f
  BY <1>2, <1>3 DEF Top
<1> QED
  BY <1>1, <1>2, <1>4, <1>5 DEF CommandOK, AtWork, Outstanding

LEMMA CallOK ==
    ASSUME TypeInv, Outstanding, CallNext
    PROVE  StackOK' /\ CommandOK'
<1> DEFINE f == [Top EXCEPT !.calls = Tail(@)]
           t == Head(Top.calls)
           callers == WithTop(f)
<1>1. stack # <<>> /\ Top.at # "body" /\ Top.calls # <<>> /\ flight' = flight
  BY DEF CallNext
<1>2. flight = NoFlight
  BY <1>1 DEF Outstanding
<1>3. Top \in Frames
  BY <1>1, TopFrame
<1>4. f \in Frames /\ f.task = Top.task /\ f.at = Top.at /\ t \in Tasks
  BY <1>1, <1>3, CallsType
<1>5. Enter(t, callers)
  BY DEF CallNext
<1> HIDE DEF f, t
<1>6. /\ callers \in Seq(Frames) /\ Len(callers) = Len(stack)
      /\ callers[Len(stack)] = f
      /\ \A i \in 1..Len(stack) : i # Len(stack) => callers[i] = stack[i]
      /\ Len(stack) \in Nat /\ Len(stack) >= 1
  BY <1>1, <1>4, Rewritten DEF TypeInv, StackOK
<1>7. \A i \in 1..Len(stack) : callers[i].task = stack[i].task
  BY <1>4, <1>6 DEF Top
<1>8. CASE t \in onStack
  <2>1. stack' = callers /\ onStack' = onStack /\ error' = "cycle"
    BY <1>5, <1>8 DEF Enter
  <2>2. StackOK'
    BY <1>1, <1>4, <2>1, RewriteOK DEF TypeInv
  <2> QED
    BY <1>1, <1>2, <2>1, <2>2 DEF CommandOK, AtWork
<1>9. CASE t \notin onStack
  <2> DEFINE g == Frame(t)
             n == Len(stack)
             s == Append(callers, g)
  <2>1. g \in Frames /\ g.task = t /\ g.at # "body"
    BY <1>4, NewFrame
  <2>2. stack' = s /\ onStack' = onStack \cup {t}
    BY <1>5, <1>9 DEF Enter
  <2> HIDE DEF g, callers
  <2>3. /\ s \in Seq(Frames) /\ Len(s) = n + 1 /\ s[n + 1] = g
        /\ \A i \in 1..n : s[i] = callers[i]
    BY <1>6, <2>1, Pushed
  <2> HIDE DEF n, s
  <2>4. n \in Nat /\ n >= 1
    BY <1>6 DEF n
  <2>5. \A i \in 1..n : s[i].task = stack[i].task
    BY <1>7, <2>3 DEF n
  <2>6. \A i \in 1..n : s[i].task # t
    BY <1>9, <2>5 DEF TypeInv, StackOK, n
  <2>7. \A i, j \in 1..n + 1 : s[i].task = s[j].task => i = j
    <3> SUFFICES ASSUME NEW i \in 1..n + 1, NEW j \in 1..n + 1, s[i].task = s[j].task
                 PROVE  i = j
      OBVIOUS
    <3>1. i \in 1..n \/ i = n + 1
      BY <2>4
    <3>2. j \in 1..n \/ j = n + 1
      BY <2>4
    <3> QED
      BY <2>1, <2>3, <2>5, <2>6, <3>1, <3>2 DEF TypeInv, StackOK, n
  <2>8. onStack = {s[i].task : i \in 1..n}
    BY <2>5 DEF TypeInv, StackOK, n
  <2>9. onStack' = {s[i].task : i \in 1..n + 1}
    BY <2>1, <2>2, <2>3, <2>4, <2>8
  <2>10. StackOK'
    BY <2>2, <2>3, <2>7, <2>9 DEF StackOK
  <2>11. Top' = g
    BY <2>2, <2>3 DEF Top
  <2> QED
    BY <1>1, <1>2, <2>1, <2>10, <2>11 DEF CommandOK, AtWork
<1> QED
  BY <1>8, <1>9

LEMMA ReturnOK ==
    ASSUME TypeInv, Outstanding, AttributeInv, Return
    PROVE  StackOK' /\ CommandOK' /\ ~AtWork'
<1> DEFINE n == Len(stack)
<1>1. stack # <<>> /\ stack' = Popped /\ onStack' = onStack \ {Top.task} /\ flight' = flight
      /\ error' = error /\ ~AtWork
  BY DEF Return, AtWork
<1>2. flight = NoFlight
  BY <1>1 DEF Outstanding, AtWork
<1>3. /\ stack' \in Seq(Frames) /\ Len(stack') = n - 1
      /\ \A i \in 1..(n - 1) : stack'[i] = stack[i]
      /\ n \in Nat /\ n >= 1
  BY <1>1, Shortened DEF TypeInv, StackOK
<1>4. onStack = {stack[i].task : i \in 1..n}
      /\ \A i, j \in 1..n : stack[i].task = stack[j].task => i = j
  BY DEF TypeInv, StackOK
<1>5. Top = stack[n]
  BY DEF Top
<1> HIDE DEF n
<1>6. onStack' = {stack'[i].task : i \in 1..(n - 1)}
  <2>1. \A i \in 1..(n - 1) : stack[i].task # Top.task
    BY <1>3, <1>4, <1>5
  <2>2. \A i \in 1..n : i \in 1..(n - 1) \/ stack[i].task = Top.task
    BY <1>3, <1>5
  <2> QED
    BY <1>1, <1>3, <1>4, <2>1, <2>2
<1>7. \A i, j \in 1..(n - 1) : stack'[i].task = stack'[j].task => i = j
  BY <1>3, <1>4
<1>8. StackOK'
  BY <1>3, <1>6, <1>7 DEF StackOK
<1>9. stack' # <<>> => Top'.at # "body"
  BY <1>1, PopChain DEF AttributeInv, Top
<1> QED
  BY <1>1, <1>2, <1>8, <1>9 DEF CommandOK, AtWork

\* The hosts a body starts with are where it may send commands, and none was dropped.
LEMMA TargetsReach ==
    ASSUME TypeInv, stack # <<>>
    PROVE  LET hosts == IF OnOperator THEN {Operator} ELSE TargetsForTask(Own)
           IN  hosts \subseteq Reach(Top) /\ hosts \cap unreachable = {} /\ hosts \subseteq Where
<1>1. Own.on \subseteq Hosts
  BY TopFrame DEF Task
<1>2. TargetsForTask(Own) \subseteq Live(Own.on)
  BY DEF TargetsForTask, PickPrimary, First
<1>3. CASE OnOperator
  <2>1. unreachable \subseteq Hosts
    BY DEF TypeInv, HostsOK
  <2>2. Reach(Top) = {Operator}
    BY <1>3 DEF Reach, OnOperator, Own
  <2> QED
    BY <1>3, <2>1, <2>2, TaskRunAssumption DEF Where
<1>4. CASE ~OnOperator
  <2>1. Reach(Top) = Hosts
    BY <1>4 DEF Reach, OnOperator, Own
  <2> QED
    BY <1>1, <1>2, <1>4, <2>1 DEF Live, Where
<1> QED
  BY <1>3, <1>4

LEMMA DispatchOK ==
    ASSUME TypeInv, Outstanding, Dispatch
    PROVE  StackOK' /\ CommandOK' /\ sink' \in Tasks \cup {None}
           /\ error' \in {"none", "failed"}
           /\ (AtWork' => Top'.hosts \cap unreachable = {})
<1> DEFINE hosts == IF OnOperator THEN {Operator} ELSE TargetsForTask(Own)
<1>1. stack # <<>> /\ onStack' = onStack /\ flight' = flight /\ file' = file
      /\ error = "none" /\ flight = NoFlight
  BY DEF Dispatch, Outstanding
<1>2. CASE BodyEnds("none")
  <2>1. StackOK' /\ CommandOK' /\ sink' = None /\ error' = "none"
    BY <1>1, <1>2, BodyEndsOK
  <2>2. ~AtWork'
    <3> DEFINE f == [Top EXCEPT !.at = "after", !.calls = Own.after]
    <3>1. Top \in Frames /\ Own.after \in Seq(Tasks)
      BY <1>1, TopFrame DEF Task
    <3>2. f \in Frames /\ f.at = "after" /\ f.task = Top.task
      BY <3>1, PhaseType
    <3>3. stack' = WithTop(f)
      BY <1>2 DEF BodyEnds
    <3> HIDE DEF f
    <3>4. Top' = f
      BY <1>1, <3>2, <3>3, RewriteOK DEF TypeInv
    <3> QED
      BY <3>2, <3>4 DEF AtWork
  <2> QED
    BY <2>1, <2>2
<1>3. CASE ~BodyEnds("none")
  <2> DEFINE f == [Top EXCEPT !.at = "body", !.hosts = hosts]
  <2>1. /\ stack' = WithTop(f)
        /\ sink' = IF Own.silentOutput THEN Top.task ELSE None
        /\ error' = error
    BY <1>3 DEF Dispatch
  <2>2. /\ hosts \subseteq Reach(Top) /\ hosts \cap unreachable = {}
        /\ hosts \in SUBSET Where
    BY <1>1, TargetsReach
  <2>3. Top \in Frames /\ Top.task \in Tasks
    BY <1>1, TopFrame
  <2> HIDE DEF hosts
  <2>4. f \in Frames /\ f.task = Top.task /\ f.hosts = hosts /\ f.at = "body"
    BY <2>2, <2>3, BodyType
  <2> HIDE DEF f
  <2>5. StackOK' /\ Top' = f
    BY <1>1, <2>1, <2>4, RewriteOK DEF TypeInv
  <2>6. Reach(Top)' = Reach(Top)
    BY <1>1, <2>4, <2>5 DEF Reach
  <2> QED
    BY <1>1, <2>1, <2>2, <2>3, <2>4, <2>5, <2>6 DEF CommandOK
<1> QED
  BY <1>2, <1>3

\* What is sent goes to hosts of the body.
LEMMA RecipientsReach ==
    ASSUME TypeInv, stack # <<>>
    PROVE  /\ Recipients \subseteq Top.hosts
           /\ Own.body \in {"action", "query"} => Recipients \cap unreachable = {}
<1>1. Own.body \in {"action", "query", "output", "cmds"}
  BY TopFrame DEF Task
<1>2. CASE Own.body = "output"
  BY <1>2 DEF Recipients, First
<1>3. CASE Own.body = "cmds"
  BY <1>3 DEF Recipients
<1>4. CASE Own.body = "action"
  BY <1>4 DEF Recipients, Live
<1>5. CASE Own.body = "query"
  <2>1. Recipients = First(Live(Top.hosts))
    BY <1>5 DEF Recipients
  <2>2. First(Live(Top.hosts)) \subseteq Live(Top.hosts)
    BY DEF First
  <2> QED
    BY <2>1, <2>2 DEF Live
<1> QED
  BY <1>1, <1>2, <1>3, <1>4, <1>5

LEMMA SendOK ==
    ASSUME TypeInv, Send
    PROVE  StackOK' /\ CommandOK' /\ flight' \in [to: SUBSET Where, late: BOOLEAN]
<1>1. /\ stack' = stack /\ onStack' = onStack /\ error' = error /\ file' = file
      /\ AtWork /\ Top.cmd <= Cmds /\ flight' = [to |-> Recipients, late |-> Done]
  BY DEF Send, InBody, AtWork
<1>2. Recipients \subseteq Top.hosts /\ Top.hosts \subseteq Where
  BY <1>1, RecipientsReach, TopFrame DEF AtWork, Frames
<1>3. Done \in BOOLEAN
  BY DEF Done
<1>4. flight'.to = Recipients
  BY <1>1
<1>5. Top' = Top /\ Reach(Top)' = Reach(Top)
  BY <1>1 DEF Top, Reach
<1>6. StackOK'
  BY <1>1 DEF TypeInv, StackOK
<1>7. CommandOK'
  BY <1>1, <1>2, <1>4, <1>5 DEF TypeInv, CommandOK
<1> QED
  BY <1>1, <1>2, <1>3, <1>6, <1>7

\* The judgement, taken apart.
LEMMA JudgeTaken ==
    ASSUME TypeInv, Outstanding, Judge
    PROVE  \E answer, bad, dropped :
              /\ wrongs' = wrongs \cup {<<Top.task, h, answer[h]>> : h \in bad}
              /\ \A h \in bad : answer[h] \in Answers
              /\ bad \subseteq Top.hosts
              /\ unreachable' = unreachable \cup dropped
              /\ dropped \subseteq bad
              /\ dropped # {} => file.skip /\ dropped \subseteq Hosts \ file.required
              /\ Proceeds(bad, dropped)
              /\ bad = {} \/ Forgiven => dropped = {}
<1>1. flight.to \subseteq Top.hosts /\ AtWork
  BY DEF Judge, TypeInv, CommandOK, Outstanding, AtWork
<1>2. PICK answer \in Outcomes :
        LET bad == {h \in flight.to : answer[h] # "ok"}
            dropped == IF Forgiven \/ OnOperator THEN {}
                       ELSE IF Single THEN DroppedAlone(bad, answer)
                       ELSE DroppedTogether(bad, answer)
        IN  /\ wrongs' = wrongs \cup {<<Top.task, h, answer[h]>> : h \in bad}
            /\ unreachable' = unreachable \cup dropped
            /\ Proceeds(bad, dropped)
  BY DEF Judge
<1> DEFINE bad == {h \in flight.to : answer[h] # "ok"}
           dropped == IF Forgiven \/ OnOperator THEN {}
                      ELSE IF Single THEN DroppedAlone(bad, answer)
                      ELSE DroppedTogether(bad, answer)
<1>3. \A h \in bad : answer[h] \in Answers
  BY DEF Outcomes
<1>4. bad \subseteq Top.hosts
  BY <1>1
<1>5. /\ wrongs' = wrongs \cup {<<Top.task, h, answer[h]>> : h \in bad}
      /\ unreachable' = unreachable \cup dropped
      /\ Proceeds(bad, dropped)
  BY <1>2
<1> HIDE DEF bad
<1>6. DroppedAlone(bad, answer) \in {{}, bad} /\ DroppedTogether(bad, answer) \in {{}, bad}
  BY DEF DroppedAlone, DroppedTogether
<1>7. dropped \in {{}, bad}
  BY <1>6
<1>8. dropped # {} => file.skip /\ ~OnOperator /\ \A h \in bad : h \notin file.required
  BY DEF DroppedAlone, DroppedTogether
<1>9. bad = {} \/ Forgiven => dropped = {}
  BY <1>7
<1> HIDE DEF dropped
<1>10. ASSUME dropped # {} PROVE file.skip /\ dropped \subseteq Hosts \ file.required
  <2>1. Top.hosts \subseteq Reach(Top)
    BY <1>1 DEF TypeInv, CommandOK
  <2>2. Reach(Top) = Hosts
    BY <1>8, <1>10 DEF Reach, OnOperator, Own
  <2> QED
    BY <1>4, <1>7, <1>8, <1>10, <2>1, <2>2
<1>11. dropped \subseteq bad
  BY <1>7
<1> QED
  BY <1>3, <1>4, <1>5, <1>9, <1>10, <1>11

\* A step inside a body: it ends, or goes on with the hosts it has left.
LEMMA WorkTaken ==
    ASSUME TypeInv, Outstanding, SendNowhere \/ RenderFails \/ Judge \/ Finish
    PROVE  /\ AtWork /\ onStack' = onStack /\ file' = file /\ flight' = NoFlight
           /\ \/ \E err \in {"none", "failed"} : BodyEnds(err)
              \/ /\ UNCHANGED <<error, sink>>
                 /\ \E x \in 1..Cmds + 1, y \in SUBSET Top.hosts :
                       /\ stack' = WithTop([Top EXCEPT !.cmd = x, !.hosts = y])
                       /\ Own.body \in {"output", "cmds"} =>
                             y \cap unreachable' \subseteq Top.hosts \cap unreachable
<1>1. AtWork /\ onStack' = onStack /\ file' = file /\ flight' = NoFlight
  BY DEF SendNowhere, RenderFails, Judge, Finish, InBody, Outstanding, AtWork
<1>2. Top \in Frames /\ Top.cmd \in 1..Cmds + 1 /\ Top.hosts \in SUBSET Where /\ Cmds \in Nat
  BY <1>1, TopFrame, TaskRunAssumption DEF AtWork, Frames
<1>3. CASE SendNowhere
  <2>1. CASE Own.body = "query"
    BY <1>1, <1>3, <2>1 DEF SendNowhere
  <2>2. CASE Own.body # "query"
    <3> DEFINE x == Top.cmd + 1
    <3>1. stack' = WithTop([Top EXCEPT !.cmd = @ + 1]) /\ UNCHANGED <<error, sink, unreachable>>
          /\ Top.cmd <= Cmds
      BY <1>3, <2>2 DEF SendNowhere
    <3>2. x \in 1..Cmds + 1
      BY <1>2, <3>1
    <3>3. [Top EXCEPT !.cmd = @ + 1] = [Top EXCEPT !.cmd = x]
      OBVIOUS
    <3> HIDE DEF x
    <3>4. [Top EXCEPT !.cmd = x] = [Top EXCEPT !.cmd = x, !.hosts = Top.hosts]
      BY <1>2 DEF Frames
    <3> QED
      BY <1>1, <3>1, <3>2, <3>3, <3>4
  <2> QED
    BY <2>1, <2>2
<1>4. CASE RenderFails \/ Finish
  BY <1>1, <1>4 DEF RenderFails, Finish
<1>5. CASE Judge
  <2>1. PICK answer, bad, dropped :
              /\ bad \subseteq Top.hosts
              /\ unreachable' = unreachable \cup dropped
              /\ dropped \subseteq bad
              /\ Proceeds(bad, dropped)
              /\ bad = {} \/ Forgiven => dropped = {}
    BY <1>5, JudgeTaken
  <2> DEFINE left == Top.hosts \ dropped
  <2>2. Top.cmd \in 1..Cmds
    BY <1>2, <1>5 DEF Judge, TypeInv, CommandOK
  <2>3. Top.cmd + 1 \in 1..Cmds + 1 /\ Top.cmd \in 1..Cmds + 1 /\ 1 \in 1..Cmds + 1
    BY <1>2, <2>2
  <2>4. CASE \E err \in {"none", "failed"} : BodyEnds(err)
    BY <1>1, <2>4
  <2>5. CASE ~\E err \in {"none", "failed"} : BodyEnds(err)
    <3>1. PICK x, y : /\ stack' = WithTop([Top EXCEPT !.cmd = x, !.hosts = y])
                      /\ UNCHANGED <<error, sink>>
                      /\ x \in {1, Top.cmd, Top.cmd + 1}
                      /\ \/ y = Top.hosts /\ (dropped = {} \/ Own.body \in {"action", "query"})
                         \/ y = left
      BY <2>1, <2>5 DEF Proceeds
    <3>2. x \in 1..Cmds + 1 /\ y \in SUBSET Top.hosts
      BY <2>3, <3>1
    <3>3. Own.body \in {"output", "cmds"} =>
             y \cap unreachable' \subseteq Top.hosts \cap unreachable
      BY <2>1, <3>1
    <3> QED
      BY <1>1, <3>1, <3>2, <3>3
  <2> QED
    BY <2>4, <2>5
<1> QED
  BY <1>3, <1>4, <1>5

LEMMA WorkOK ==
    ASSUME TypeInv, Outstanding, SendNowhere \/ RenderFails \/ Judge \/ Finish
    PROVE  StackOK' /\ CommandOK' /\ sink' \in Tasks \cup {None}
           /\ error' \in {"none", "failed", "cycle"}
<1>1. AtWork /\ stack # <<>>
  BY WorkTaken DEF AtWork
<1>2. CASE \E err \in {"none", "failed"} : BodyEnds(err)
  BY <1>1, <1>2, WorkTaken, BodyEndsOK
<1>3. CASE ~\E err \in {"none", "failed"} : BodyEnds(err)
  BY <1>1, <1>3, WorkTaken, GoesOK DEF TypeInv, FieldsOK
<1> QED
  BY <1>2, <1>3

LEMMA StepStack ==
    ASSUME TypeInv, Outstanding, AttributeInv, [Next]_vars
    PROVE  StackOK' /\ CommandOK'
<1>1. CASE UNCHANGED vars \/ Interrupt \/ SetContext
  <2>1. stack' = stack /\ onStack' = onStack /\ error' = error /\ file' = file /\ flight' = flight
    BY <1>1 DEF vars, Interrupt, SetContext
  <2> QED
    BY <2>1 DEF TypeInv, StackOK, CommandOK, AtWork, Top, Reach
<1>2. CASE \E t \in Tasks, phase \in {"none", "hook", "failed"} : StartRun(t, phase)
  BY <1>2, StartOK
<1> QED
  BY <1>1, <1>2, CallOK, ReturnOK, DispatchOK, SendOK, WorkOK DEF Next, Run

LEMMA StepFields ==
    ASSUME TypeInv, Outstanding, [Next]_vars
    PROVE  FieldsOK'
<1>1. FieldsOK
  BY DEF TypeInv
<1>2. CASE UNCHANGED vars \/ SetContext \/ Send
  BY <1>1, <1>2 DEF FieldsOK, vars, SetContext, Send
<1>3. CASE Interrupt
  BY <1>1, <1>3 DEF FieldsOK, Interrupt
<1>4. ASSUME NEW t \in Tasks, NEW phase \in {"none", "hook", "failed"}, StartRun(t, phase)
      PROVE  FieldsOK'
  <2>1. runs + 1 \in 0..Runs
    BY <1>1, <1>4, TaskRunAssumption DEF FieldsOK, StartRun
  <2> QED
    BY <1>1, <1>4, <2>1 DEF FieldsOK, StartRun
<1>5. CASE CallNext
  <2>1. Head(Top.calls) \in Tasks
    BY <1>5, TopFrame, CallsType DEF CallNext
  <2> QED
    BY <1>1, <1>5, <2>1 DEF FieldsOK, CallNext, Enter
<1>6. CASE Return
  <2>1. Top.prevLogTask \in Tasks \cup {None}
    BY <1>6, TopFrame DEF Return, Frames
  <2> QED
    BY <1>1, <1>6, <2>1 DEF FieldsOK, Return
<1>7. CASE Dispatch
  BY <1>1, <1>7, DispatchOK DEF FieldsOK, Dispatch
<1>8. CASE SendNowhere \/ RenderFails \/ Judge \/ Finish
  <2>1. UNCHANGED <<file, runs, mode, root, logTask, interrupted>>
    BY <1>8 DEF SendNowhere, RenderFails, Judge, Finish
  <2> QED
    BY <1>1, <1>8, <2>1, WorkOK DEF FieldsOK
<1> QED
  BY <1>2, <1>3, <1>4, <1>5, <1>6, <1>7, <1>8 DEF Next, Run

\* Every step leaves the base context, or changes it to another.
LEMMA StepContext ==
    ASSUME TypeInv, [Next]_vars
    PROVE  ContextOK'
<1>1. /\ base \in Contexts /\ base.set <= runs /\ runs \in 0..Runs /\ Runs \in Nat
      /\ ctxCache \in [Where -> Contexts \cup {None}]
  BY TaskRunAssumption DEF TypeInv, ContextOK, FieldsOK
<1>2. NoContexts \in [Where -> Contexts \cup {None}]
  BY DEF NoContexts
<1>3. \A places : Rendered(places) \in [Where -> Contexts \cup {None}]
  BY <1>1 DEF Rendered
<1>4. base.set \in 0..Runs /\ base.tasks \in [Tasks -> 0..2]
      /\ base = [phase |-> base.phase, set |-> base.set, tasks |-> base.tasks]
      /\ base.phase \in {"none", "hook", "failed"}
  BY <1>1 DEF Contexts
<1>5. ASSUME base' = base, runs' = runs,
             ctxCache' = ctxCache \/ ctxCache' = NoContexts \/ \E places : ctxCache' = Rendered(places)
      PROVE  ContextOK'
  BY <1>1, <1>2, <1>3, <1>5 DEF ContextOK
<1>6. ASSUME SetTaskState, runs' = runs PROVE ContextOK'
  <2>1. PICK v \in 1..2 : base' = [base EXCEPT !.tasks[Top.task] = v]
    BY <1>6 DEF SetTaskState
  <2> DEFINE task == Top.task
             tasks == [base.tasks EXCEPT ![task] = v]
  <2>2. base' = [base EXCEPT !.tasks = tasks]
    BY <2>1
  <2>3. tasks \in [Tasks -> 0..2]
    <3> HIDE DEF task
    <3>1. v \in 0..2
      OBVIOUS
    <3> QED
      BY <1>4, <3>1
  <2> HIDE DEF tasks
  <2>4. base' \in Contexts /\ base'.set = base.set
    BY <1>1, <2>2, <2>3 DEF Contexts
  <2> QED
    BY <1>1, <1>2, <1>6, <2>4 DEF SetTaskState, ContextOK
<1>7. ASSUME NEW t \in Tasks, NEW phase \in {"none", "hook", "failed"}, StartRun(t, phase)
      PROVE  ContextOK'
  <2> DEFINE set == IF phase = "failed" /\ mode # "failed" THEN base.set + 1 ELSE base.set
  <2>1. runs' = runs + 1 /\ runs < Runs
    BY <1>7 DEF StartRun
  <2>2. set \in 0..Runs /\ set <= runs'
    BY <1>1, <1>4, <2>1
  <2>3. base' = [base EXCEPT !.phase = phase, !.set = set]
    BY <1>7 DEF StartRun
  <2> HIDE DEF set
  <2>4. base' = [phase |-> phase, set |-> set, tasks |-> base.tasks]
    BY <1>4, <2>3
  <2>5. base' \in Contexts /\ base'.set <= runs'
    BY <1>4, <2>2, <2>4 DEF Contexts
  <2>6. ctxCache' \in [Where -> Contexts \cup {None}]
    BY <1>1, <1>2, <1>7 DEF StartRun
  <2> QED
    BY <2>5, <2>6 DEF ContextOK
<1>8. CASE SetContext
  <2> DEFINE set == base.set + 1
  <2>1. set \in 0..Runs /\ set <= runs
    BY <1>1, <1>4, <1>8 DEF SetContext
  <2>2. base' = [base EXCEPT !.set = set] /\ runs' = runs /\ ctxCache' = NoContexts
    BY <1>8 DEF SetContext
  <2> HIDE DEF set
  <2>3. base' \in Contexts /\ base'.set = set
    BY <1>1, <2>1, <2>2 DEF Contexts
  <2> QED
    BY <1>2, <2>1, <2>2, <2>3 DEF ContextOK
<1>9. CASE Return
  <2>1. runs' = runs /\ ctxCache' \in {ctxCache, NoContexts}
        /\ base' \in {base, [base EXCEPT !.phase = "none"]}
    BY <1>9 DEF Return
  <2>2. base' \in Contexts /\ base'.set = base.set
    BY <1>1, <2>1 DEF Contexts
  <2> QED
    BY <1>1, <1>2, <2>1, <2>2 DEF ContextOK
<1>10. CASE UNCHANGED vars \/ Interrupt \/ CallNext \/ SendNowhere \/ RenderFails \/ Judge
  BY <1>5, <1>10 DEF vars, Interrupt, CallNext, SendNowhere, RenderFails, Judge
<1>11. CASE Send
  BY <1>5, <1>11 DEF Send
<1>12. CASE Dispatch \/ Finish
  <2>1. runs' = runs
    BY <1>12 DEF Dispatch, Finish
  <2>2. \/ SetTaskState
        \/ base' = base /\ (ctxCache' = ctxCache \/ \E places : ctxCache' = Rendered(places))
    BY <1>12 DEF Dispatch, Finish
  <2> QED
    BY <1>5, <1>6, <2>1, <2>2
<1> QED
  BY <1>7, <1>8, <1>9, <1>10, <1>11, <1>12 DEF Next, Run

LEMMA StepHosts ==
    ASSUME TypeInv, Outstanding, [Next]_vars
    PROVE  HostsOK'
<1>1. HostsOK
  BY DEF TypeInv
<1>2. NoFlight \in [to: SUBSET Where, late: BOOLEAN]
  BY DEF NoFlight
<1>3. CASE UNCHANGED vars \/ SetContext \/ Interrupt \/ CallNext \/ Return \/ Dispatch
           \/ SendNowhere \/ RenderFails \/ Finish
  <2>1. flight' = flight /\ unreachable' = unreachable /\ wrongs' = wrongs
    BY <1>3 DEF vars, SetContext, Interrupt, CallNext, Return, Dispatch, SendNowhere,
                RenderFails, Finish
  <2> QED
    BY <1>1, <2>1 DEF HostsOK
<1>4. CASE \E t \in Tasks, phase \in {"none", "hook", "failed"} : StartRun(t, phase)
  BY <1>1, <1>4 DEF HostsOK, StartRun
<1>5. CASE Send
  <2>1. unreachable' = unreachable /\ wrongs' = wrongs
    BY <1>5 DEF Send
  <2> QED
    BY <1>1, <1>5, <2>1, SendOK DEF HostsOK
<1>6. CASE Judge
  <2>1. flight' = NoFlight
    BY <1>6 DEF Judge
  <2>2. PICK answer, bad, dropped :
              /\ wrongs' = wrongs \cup {<<Top.task, h, answer[h]>> : h \in bad}
              /\ \A h \in bad : answer[h] \in Answers
              /\ bad \subseteq Top.hosts
              /\ unreachable' = unreachable \cup dropped
              /\ dropped # {} => dropped \subseteq Hosts \ file.required
    BY <1>6, JudgeTaken
  <2>3. Top.task \in Tasks /\ Top.hosts \subseteq Where
    BY <1>6, TopFrame DEF Judge, Outstanding, Frames
  <2>4. \A h \in bad : <<Top.task, h, answer[h]>> \in Tasks \X Where \X Answers
    BY <2>2, <2>3
  <2> QED
    BY <1>1, <1>2, <2>1, <2>2, <2>4 DEF HostsOK
<1> QED
  BY <1>3, <1>4, <1>5, <1>6 DEF Next, Run

LEMMA InitTypes == Init => TypeInv
<1> SUFFICES ASSUME Init PROVE TypeInv
  OBVIOUS
<1> DEFINE F == Frames
<1>1. stack = <<>> /\ stack \in Seq(F) /\ Len(stack) = 0
  <2> HIDE DEF F
  <2> QED
    BY DEF Init
<1>2. StackOK
  BY <1>1 DEF Init, StackOK
<1>3. FieldsOK
  <2>1. file \in Deployfile /\ runs \in 0..Runs
    BY TaskRunAssumption DEF Init
  <2>2. root \in [task: Tasks \cup {None}, inPhase: BOOLEAN]
    BY DEF Init
  <2> QED
    BY <2>1, <2>2 DEF Init, FieldsOK
<1>4. base \in Contexts /\ base.set = 0
  <2>1. 0 \in 0..Runs
    BY TaskRunAssumption
  <2>2. [t \in Tasks |-> 0] \in [Tasks -> 0..2]
    OBVIOUS
  <2> QED
    BY <2>1, <2>2 DEF Init, Contexts
<1>5. ContextOK
  BY <1>4 DEF Init, ContextOK, NoContexts
<1>6. HostsOK
  BY DEF Init, HostsOK, NoFlight
<1>7. CommandOK
  BY <1>1 DEF Init, CommandOK, AtWork
<1> QED
  BY <1>2, <1>3, <1>5, <1>6, <1>7 DEF TypeInv

LEMMA StepTypes == TypeInv /\ Outstanding /\ AttributeInv /\ [Next]_vars => TypeInv'
<1> SUFFICES ASSUME TypeInv, Outstanding, AttributeInv, [Next]_vars PROVE TypeInv'
  OBVIOUS
<1> QED
  BY StepStack, StepFields, StepContext, StepHosts DEF TypeInv

\* What the steps need of each other: a command is out only in a body, frames are chained.
Sound == SurfaceInv /\ AttributeInv /\ TypeInv

LEMMA SoundAlways == Spec => []Sound
<1>1. Init => Sound
  BY InitTypes, InitAttributed DEF Init, SurfaceInv, Sound
<1>2. Sound /\ [Next]_vars => Sound'
  BY StepSurfaces, StepAttributed, StepTypes DEF SurfaceInv, Sound
<1> QED
  BY <1>1, <1>2, PTL DEF Spec

\* Every variable keeps its type, and no task is on the stack twice, for any tasks, call
\* graph and faults (deps.go:20-31).
THEOREM TypeCorrect == Spec => []TypeOK
<1>1. Sound => TypeOK
  BY TypeInvTypes DEF Sound
<1> QED
  BY <1>1, SoundAlways, PTL

-----------------------------------------------------------------------------
(* Which hosts commands go to.                                             *)

DropInv ==
    /\ AtWork /\ Own.body \in {"output", "cmds"} => Top.hosts \cap unreachable = {}
    /\ DroppedStayOut

\* A step that leaves the hosts dropped, the command and the work under way alone.
LEMMA NothingDropped ==
    ASSUME DropInv, file' = file, unreachable' = unreachable,
           flight' = flight \/ flight' = NoFlight,
           AtWork' /\ Own'.body \in {"output", "cmds"} => Top'.hosts \cap unreachable = {}
    PROVE  DropInv'
<1>1. flight'.to \cap unreachable = {}
  BY DEF DropInv, DroppedStayOut, NoFlight
<1> QED
  BY <1>1 DEF DropInv, DroppedStayOut

LEMMA WorkDrops ==
    ASSUME Sound, DropInv, SendNowhere \/ RenderFails \/ Judge \/ Finish
    PROVE  DropInv'
<1> USE DEF Sound
<1>1. TypeInv /\ Outstanding /\ AttributeInv
  BY DEF SurfaceInv
<1>2. AtWork /\ onStack' = onStack /\ file' = file /\ flight' = NoFlight /\ stack # <<>>
  BY <1>1, WorkTaken DEF AtWork
<1>3. AtWork' /\ Own'.body \in {"output", "cmds"} => Top'.hosts \cap unreachable' = {}
  <2>1. CASE \E err \in {"none", "failed"} : BodyEnds(err)
    <3>1. PICK err \in {"none", "failed"} : BodyEnds(err)
      BY <2>1
    <3>2. CASE err = "failed"
      BY <3>1, <3>2 DEF BodyEnds, AtWork
    <3>3. CASE err = "none"
      <4> DEFINE f == [Top EXCEPT !.at = "after", !.calls = Own.after]
      <4>1. Top \in Frames /\ Own.after \in Seq(Tasks)
        BY <1>1, <1>2, TopFrame DEF Task
      <4>2. f \in Frames /\ f.at = "after" /\ f.task = Top.task
        BY <4>1, PhaseType
      <4>3. stack' = WithTop(f)
        BY <3>1, <3>3 DEF BodyEnds
      <4> HIDE DEF f
      <4>4. Top' = f
        BY <1>1, <1>2, <4>2, <4>3, RewriteOK DEF TypeInv
      <4> QED
        BY <4>2, <4>4 DEF AtWork
    <3> QED
      BY <3>1, <3>2, <3>3
  <2>2. CASE ~\E err \in {"none", "failed"} : BodyEnds(err)
    <3>1. PICK x \in 1..Cmds + 1, y \in SUBSET Top.hosts :
             /\ stack' = WithTop([Top EXCEPT !.cmd = x, !.hosts = y])
             /\ Own.body \in {"output", "cmds"} =>
                   y \cap unreachable' \subseteq Top.hosts \cap unreachable
      BY <1>1, <2>2, WorkTaken
    <3> DEFINE f == SetCommand(Top, x, y)
    <3>2. Top \in Frames /\ y \in SUBSET Where
      BY <1>1, <1>2, TopFrame DEF Frames
    <3>3. f \in Frames /\ f.task = Top.task /\ f.hosts = y
      BY <3>2, CommandType
    <3>4. stack' = WithTop(f)
      BY <3>1 DEF SetCommand
    <3> HIDE DEF f
    <3>5. Top' = f
      BY <1>1, <1>2, <3>3, <3>4, RewriteOK DEF TypeInv
    <3>6. Own' = Own
      BY <1>2, <3>3, <3>5 DEF Own
    <3> QED
      BY <1>2, <3>1, <3>3, <3>5, <3>6 DEF DropInv
  <2> QED
    BY <2>1, <2>2
<1>4. CASE Judge
  <2>1. PICK dropped :
              /\ unreachable' = unreachable \cup dropped
              /\ dropped # {} => file.skip /\ dropped \subseteq Hosts \ file.required
    BY <1>1, <1>4, JudgeTaken
  <2>2. flight'.to = {}
    BY <1>2 DEF NoFlight
  <2> QED
    BY <1>2, <1>3, <2>1, <2>2 DEF DropInv, DroppedStayOut
<1>5. CASE SendNowhere \/ RenderFails \/ Finish
  <2>1. unreachable' = unreachable
    BY <1>5 DEF SendNowhere, RenderFails, Finish
  <2> QED
    BY <1>2, <1>3, <2>1, NothingDropped
<1> QED
  BY <1>4, <1>5

LEMMA SendDrops ==
    ASSUME Sound, DropInv, Send
    PROVE  DropInv'
<1>1. TypeInv /\ stack # <<>> /\ AtWork /\ flight'.to = Recipients
      /\ stack' = stack /\ error' = error /\ file' = file /\ unreachable' = unreachable
  BY DEF Sound, Send, InBody, AtWork
<1>2. Own.body \in {"action", "query", "output", "cmds"}
  BY <1>1, TopFrame DEF Task
<1>3. Recipients \cap unreachable = {}
  BY <1>1, <1>2, RecipientsReach DEF DropInv
<1>4. AtWork' <=> AtWork
  BY <1>1 DEF AtWork, Top
<1>5. Own' = Own /\ Top' = Top
  BY <1>1 DEF Own, Top
<1> QED
  BY <1>1, <1>3, <1>4, <1>5 DEF DropInv, DroppedStayOut

\* Between bodies no frame is at work afterwards; a body starts with live hosts.
LEMMA OtherDrops ==
    ASSUME Sound, DropInv, CallNext \/ Return \/ Dispatch
    PROVE  DropInv'
<1>1. TypeInv /\ Outstanding /\ AttributeInv
  BY DEF Sound, SurfaceInv
<1>2. flight' = flight /\ file' = file /\ unreachable' = unreachable
  BY DEF CallNext, Return, Dispatch
<1>3. CASE Return
  BY <1>1, <1>2, <1>3, ReturnOK, NothingDropped
<1>4. CASE Dispatch
  BY <1>1, <1>2, <1>4, DispatchOK, NothingDropped
<1>5. CASE CallNext
  <2> DEFINE f == [Top EXCEPT !.calls = Tail(@)]
             t == Head(Top.calls)
             callers == WithTop(f)
             n == Len(stack)
  <2>1. stack # <<>> /\ Top.calls # <<>> /\ Enter(t, callers)
    BY <1>5 DEF CallNext
  <2>2. f \in Frames /\ t \in Tasks
    BY <1>1, <2>1, TopFrame, CallsType
  <2> HIDE DEF f, t
  <2>3. CASE t \in onStack
    BY <1>2, <2>1, <2>3, NothingDropped DEF Enter, AtWork
  <2>4. CASE t \notin onStack
    <3>1. callers \in Seq(Frames)
      BY <1>1, <2>1, <2>2, Rewritten DEF TypeInv, StackOK
    <3> DEFINE g == Frame(t)
    <3>2. g \in Frames /\ g.at # "body"
      BY <1>1, <2>2, NewFrame
    <3>3. stack' = Append(callers, g)
      BY <2>1, <2>4 DEF Enter
    <3> HIDE DEF g, callers
    <3>4. Top' = g
      BY <3>1, <3>2, <3>3, Pushed DEF Top
    <3> QED
      BY <1>2, <3>2, <3>4, NothingDropped DEF AtWork
  <2> QED
    BY <2>3, <2>4
<1> QED
  BY <1>3, <1>4, <1>5

LEMMA StepDrops == Sound /\ DropInv /\ [Next]_vars => DropInv'
<1> SUFFICES ASSUME Sound, DropInv, [Next]_vars PROVE DropInv'
  OBVIOUS
<1>1. CASE UNCHANGED vars \/ SetContext \/ Interrupt
  <2>1. stack' = stack /\ error' = error /\ file' = file /\ unreachable' = unreachable
        /\ flight' = flight
    BY <1>1 DEF vars, SetContext, Interrupt
  <2>2. (AtWork' <=> AtWork) /\ Own' = Own /\ Top' = Top
    BY <2>1 DEF AtWork, Own, Top
  <2> QED
    BY <2>1, <2>2, NothingDropped DEF DropInv
<1>2. ASSUME NEW t \in Tasks, NEW phase, StartRun(t, phase) PROVE DropInv'
  <2> DEFINE g == Frame(t)
  <2>1. g \in Frames /\ g.at # "body"
    BY NewFrame DEF Sound
  <2>2. stack' = <<g>> /\ file' = file /\ unreachable' = unreachable /\ flight' = flight
    BY <1>2 DEF StartRun
  <2> HIDE DEF g
  <2>3. Top' = g
    BY <2>2 DEF Top
  <2> QED
    BY <2>1, <2>2, <2>3, NothingDropped DEF AtWork
<1> QED
  BY <1>1, <1>2, WorkDrops, SendDrops, OtherDrops DEF Next, Run

\* A host given up is not spoken to again, whichever task resolved its hosts when, and
\* only hosts the policy may give up are, for any tasks, hosts, Deployfile and faults
\* (targets.go:59-68, 145-170, run.go:115-116, action.go:94, 150).
THEOREM DroppedForGood == Spec => []DroppedStayOut
<1>1. Init => DropInv
  <2> SUFFICES ASSUME Init PROVE DropInv
    OBVIOUS
  <2>1. flight.to = {} /\ unreachable = {} /\ stack = <<>>
    BY DEF Init, NoFlight
  <2> QED
    BY <2>1 DEF DropInv, DroppedStayOut, AtWork
<1>2. DropInv => DroppedStayOut
  BY DEF DropInv
<1> QED
  BY <1>1, <1>2, StepDrops, SoundAlways, PTL DEF Spec

-----------------------------------------------------------------------------
(* Cycles.  What a task reaches is a closure, so every fact about it is    *)
(* that some set is closed.                                                *)

Closed(S) == \A v \in S : Callees(v) \subseteq S

LEMMA CalleesAreTasks ==
    ASSUME file \in Deployfile, NEW t \in Tasks
    PROVE  Callees(t) \in SUBSET Tasks
<1>1. file.tasks[t] \in Task
  BY OwnTask
<1>2. /\ file.tasks[t].before \in Seq(Tasks) /\ file.tasks[t].deps \in Seq(Tasks)
      /\ file.tasks[t].after \in Seq(Tasks)
  BY <1>1 DEF Task
<1>3. \A s \in Seq(Tasks) : Range(s) \subseteq Tasks
  BY DEF Range
<1> QED
  BY <1>2, <1>3 DEF Callees

LEMMA ReachedIs ==
    ASSUME NEW t, NEW u
    PROVE  u \in Reached(t) <=>
              u \in Tasks /\ \A S \in SUBSET Tasks : t \in S /\ Closed(S) => u \in S
BY DEF Reached, Closed

LEMMA ReachedSelf == ASSUME NEW t \in Tasks PROVE t \in Reached(t)
BY ReachedIs

LEMMA ReachedStep ==
    ASSUME file \in Deployfile, NEW t, NEW u \in Reached(t), NEW v \in Callees(u)
    PROVE  v \in Reached(t)
<1>1. u \in Tasks
  BY ReachedIs
<1>2. v \in Tasks
  BY <1>1, CalleesAreTasks
<1>3. ASSUME NEW S \in SUBSET Tasks, t \in S, Closed(S) PROVE v \in S
  <2>1. u \in S
    BY <1>3, ReachedIs
  <2> QED
    BY <1>3, <2>1 DEF Closed
<1> QED
  BY <1>2, <1>3, ReachedIs

LEMMA ReachedOn ==
    ASSUME NEW t, NEW u \in Reached(t), NEW v \in Reached(u)
    PROVE  v \in Reached(t)
<1>1. v \in Tasks
  BY ReachedIs
<1>2. ASSUME NEW S \in SUBSET Tasks, t \in S, Closed(S) PROVE v \in S
  <2>1. u \in S
    BY <1>2, ReachedIs
  <2> QED
    BY <1>2, <2>1, ReachedIs
<1> QED
  BY <1>1, <1>2, ReachedIs

\* What a task reaches is itself, or one of its calls reaches it.
LEMMA ReachedFirst ==
    ASSUME file \in Deployfile, NEW t \in Tasks, NEW u \in Reached(t), u # t
    PROVE  \E c \in Callees(t) : u \in Reached(c)
<1> DEFINE S == {t} \cup {x \in Tasks : \E c \in Callees(t) : x \in Reached(c)}
<1>1. S \in SUBSET Tasks /\ t \in S
  OBVIOUS
<1>2. ASSUME NEW x \in S, NEW v \in Callees(x) PROVE v \in S
  <2>1. v \in Tasks
    BY <1>1, <1>2, CalleesAreTasks
  <2>2. CASE x = t
    BY <1>2, <2>1, <2>2, ReachedSelf
  <2>3. CASE x # t
    <3>1. PICK c \in Callees(t) : x \in Reached(c)
      BY <2>3
    <3>2. v \in Reached(c)
      BY <1>2, <3>1, ReachedStep
    <3> QED
      BY <2>1, <3>1, <3>2
  <2> QED
    BY <2>2, <2>3
<1>3. Closed(S)
  BY <1>2 DEF Closed
<1> HIDE DEF S
<1>4. u \in S
  BY <1>1, <1>3, ReachedIs
<1> QED
  BY <1>4 DEF S

\* A task is on no cycle and leads to none if that is so of the tasks it calls, and none
\* of them leads back to it.
LEMMA NoCycle ==
    ASSUME file \in Deployfile, NEW t \in Tasks,
           \A c \in Callees(t) : ~Cyclic(c) /\ t \notin Reached(c)
    PROVE  ~Cyclic(t)
<1> SUFFICES ASSUME NEW u \in Reached(t), NEW v \in Callees(u), u \in Reached(v) PROVE FALSE
  BY DEF Cyclic
<1>1. CASE u = t
  BY <1>1
<1>2. CASE u # t
  <2>1. PICK c \in Callees(t) : u \in Reached(c)
    BY <1>2, ReachedFirst
  <2>2. Cyclic(c)
    BY <2>1 DEF Cyclic
  <2> QED
    BY <2>1, <2>2
<1> QED
  BY <1>1, <1>2

LEMMA SameGraph ==
    ASSUME file' = file
    PROVE  /\ \A t : Callees(t)' = Callees(t) /\ Reached(t)' = Reached(t)
           /\ \A t : Cyclic(t)' <=> Cyclic(t)
<1>1. ASSUME NEW t PROVE Callees(t)' = Callees(t) /\ Reached(t)' = Reached(t)
  BY DEF Callees, Reached
<1>2. ASSUME NEW t PROVE Cyclic(t)' <=> Cyclic(t)
  BY DEF Cyclic, Callees, Reached
<1> QED
  BY <1>1, <1>2

\* What a frame has still to call.
Ahead(f) ==
    Range(f.calls) \cup IF f.at = "after" THEN {} ELSE Range(file.tasks[f.task].after)

\* Each frame was called by the one before, hence is reached from all before.
Linked(s) ==
    /\ \A i \in 1..Len(s) : /\ Ahead(s[i]) \subseteq Callees(s[i].task)
                            /\ s[i].at = "body" => s[i].calls = <<>>
    /\ \A i, j \in 1..Len(s) : i <= j => s[j].task \in Reached(s[i].task)

\* The call of c by the i-th frame was over without error: no cycle was there to find.
Clear(s, i, c) == ~Cyclic(c) /\ \A j \in 1..i : s[j].task \notin Reached(c)

Settled(s) ==
    \A i \in 1..Len(s) : \A c \in Callees(s[i].task) :
        \/ c \in Ahead(s[i])
        \/ i < Len(s) /\ c = s[i + 1].task
        \/ Clear(s, i, c)

CallInv ==
    /\ stack # <<>> => Linked(stack) /\ root.task = stack[1].task
    /\ stack # <<>> /\ error = "none" => Settled(stack)
    /\ error = "cycle" => Cyclic(root.task)
    /\ Ended /\ error = "none" => ~Cyclic(root.task)

\* The same, of the next state's stack, in terms of the graph, which stays.
LEMMA NextCalls ==
    ASSUME file' = file, root' = root,
           stack' # <<>> => Linked(stack') /\ root.task = stack'[1].task,
           stack' # <<>> /\ error' = "none" => Settled(stack'),
           error' = "cycle" => Cyclic(root.task),
           stack' = <<>> /\ error' = "none" => ~Cyclic(root.task)
    PROVE  CallInv'
<1>1. /\ \A t : Callees(t)' = Callees(t) /\ Reached(t)' = Reached(t)
      /\ \A t : Cyclic(t)' <=> Cyclic(t)
  BY SameGraph
<1>2. \A f : Ahead(f)' = Ahead(f)
  BY DEF Ahead
<1>3. stack' # <<>> => Linked(stack)'
  BY <1>1, <1>2 DEF Linked
<1>4. stack' # <<>> /\ error' = "none" => Settled(stack)'
  BY <1>1, <1>2 DEF Settled, Clear
<1>5. Cyclic(root.task)' <=> Cyclic(root.task)
  BY <1>1
<1> QED
  BY <1>3, <1>4, <1>5 DEF CallInv, Ended

\* The top frame is rewritten, and has the same left to call, or less by a call that is
\* made now or has not to be accounted for.
LEMMA RewriteLinked ==
    ASSUME TypeInv, CallInv, stack # <<>>, NEW f \in Frames, f.task = Top.task,
           Ahead(f) \subseteq Ahead(Top), f.at = "body" => f.calls = <<>>
    PROVE  LET w == WithTop(f)
           IN  /\ Linked(w) /\ root.task = w[1].task
               /\ \A i \in 1..Len(stack) : w[i].task = stack[i].task
               /\ Ahead(f) = Ahead(Top) /\ error = "none" => Settled(w)
<1> DEFINE w == WithTop(f)
           n == Len(stack)
<1>1. /\ w \in Seq(Frames) /\ w # <<>> /\ Len(w) = n
      /\ w[n] = f /\ \A i \in 1..n : i # n => w[i] = stack[i]
      /\ n \in Nat /\ n >= 1
  BY Rewritten DEF TypeInv, StackOK
<1>2. Top = stack[n]
  BY DEF Top
<1>3. Linked(stack) /\ root.task = stack[1].task /\ (error = "none" => Settled(stack))
  BY DEF CallInv
<1> HIDE DEF w, n
<1>4. \A i \in 1..n : w[i].task = stack[i].task
  BY <1>1, <1>2
<1>5. ASSUME NEW i \in 1..n
      PROVE  Ahead(w[i]) \subseteq Callees(w[i].task) /\ (w[i].at = "body" => w[i].calls = <<>>)
  <2>1. Ahead(stack[i]) \subseteq Callees(stack[i].task)
        /\ (stack[i].at = "body" => stack[i].calls = <<>>)
    BY <1>3 DEF Linked, n
  <2> QED
    BY <1>1, <1>2, <1>4, <2>1
<1>6. \A i, j \in 1..n : i <= j => w[j].task \in Reached(w[i].task)
  BY <1>3, <1>4 DEF Linked, n
<1>7. Linked(w)
  BY <1>1, <1>5, <1>6 DEF Linked
<1>8. root.task = w[1].task
  BY <1>1, <1>3, <1>4
<1>9. ASSUME Ahead(f) = Ahead(Top), error = "none" PROVE Settled(w)
  <2> SUFFICES ASSUME NEW i \in 1..n, NEW c \in Callees(w[i].task),
                      c \notin Ahead(w[i]), ~(i < n /\ c = w[i + 1].task)
               PROVE  Clear(w, i, c)
    BY <1>1 DEF Settled
  <2>1. c \in Callees(stack[i].task) /\ c \notin Ahead(stack[i])
    BY <1>1, <1>2, <1>4, <1>9
  <2>2. i < n => w[i + 1].task = stack[i + 1].task
    BY <1>1, <1>4
  <2>3. Clear(stack, i, c)
    BY <1>3, <1>9, <2>1, <2>2 DEF Settled, n
  <2>4. \A j \in 1..i : j \in 1..n
    BY <1>1
  <2> QED
    BY <1>4, <2>3, <2>4 DEF Clear
<1> QED
  BY <1>4, <1>7, <1>8, <1>9 DEF w, n

\* A step that leaves the stack, or rewrites its top without a call, and may fail.
LEMMA KeepsCalls ==
    ASSUME TypeInv, CallInv, stack # <<>>, error = "none", file' = file, root' = root,
           error' \in {"none", "failed"},
           \/ stack' = stack
           \/ \E f \in Frames : /\ f.task = Top.task /\ Ahead(f) = Ahead(Top)
                                /\ f.at = "body" => f.calls = <<>>
                                /\ stack' = WithTop(f)
    PROVE  CallInv'
<1>1. CASE stack' = stack
  BY <1>1, NextCalls DEF CallInv
<1>2. CASE stack' # stack
  <2>1. PICK f \in Frames : /\ f.task = Top.task /\ Ahead(f) = Ahead(Top)
                            /\ f.at = "body" => f.calls = <<>>
                            /\ stack' = WithTop(f)
    BY <1>2
  <2>2. /\ Linked(stack') /\ root.task = stack'[1].task
        /\ Settled(stack')
    BY <2>1, RewriteLinked
  <2>3. stack' # <<>>
    BY <2>1, Rewritten DEF TypeInv, StackOK
  <2> QED
    BY <2>2, <2>3, NextCalls
<1> QED
  BY <1>1, <1>2

LEMMA NoneAhead == Range(<<>>) = {}
BY DEF Range

LEMMA BodyEndsCalls ==
    ASSUME TypeInv, CallInv, stack # <<>>, error = "none", Top.at # "after", Top.calls = <<>>,
           NEW err \in {"none", "failed"}, BodyEnds(err), file' = file, root' = root
    PROVE  CallInv'
<1> DEFINE f == [Top EXCEPT !.at = "after", !.calls = Own.after]
<1>1. Top \in Frames /\ Own.after \in Seq(Tasks)
  BY TopFrame DEF Task
<1>2. f \in Frames /\ f.at = "after" /\ f.task = Top.task /\ f.calls = Own.after
  BY <1>1, PhaseType
<1>3. (err = "none" => stack' = WithTop(f)) /\ (err = "failed" => stack' = stack) /\ error' = err
  BY DEF BodyEnds
<1> HIDE DEF f
<1>4. Ahead(f) = Ahead(Top)
  BY <1>2, NoneAhead DEF Ahead, Own
<1> QED
  BY <1>2, <1>3, <1>4, KeepsCalls

LEMMA WorkCalls ==
    ASSUME TypeInv, Outstanding, CallInv, SendNowhere \/ RenderFails \/ Judge \/ Finish
    PROVE  CallInv'
<1>1. AtWork /\ stack # <<>> /\ error = "none" /\ file' = file /\ Top.at = "body"
  BY WorkTaken DEF AtWork
<1>2. root' = root
  BY DEF SendNowhere, RenderFails, Judge, Finish
<1>3. Top.calls = <<>> /\ Top \in Frames
  <2>1. Len(stack) \in 1..Len(stack) /\ Top = stack[Len(stack)] /\ Top \in Frames
    BY <1>1, Shortened DEF TypeInv, StackOK, Top
  <2> QED
    BY <1>1, <2>1 DEF CallInv, Linked
<1>4. CASE \E err \in {"none", "failed"} : BodyEnds(err)
  BY <1>1, <1>2, <1>3, <1>4, BodyEndsCalls
<1>5. CASE ~\E err \in {"none", "failed"} : BodyEnds(err)
  <2>1. PICK x \in 1..Cmds + 1, y \in SUBSET Top.hosts :
           stack' = WithTop([Top EXCEPT !.cmd = x, !.hosts = y]) /\ error' = error
    BY <1>5, WorkTaken
  <2> DEFINE f == SetCommand(Top, x, y)
  <2>2. y \in SUBSET Where
    BY <1>3 DEF Frames
  <2>3. f \in Frames /\ f.task = Top.task /\ f.at = Top.at /\ f.calls = Top.calls
    BY <1>3, <2>2, CommandType
  <2>4. stack' = WithTop(f)
    BY <2>1 DEF SetCommand
  <2> HIDE DEF f
  <2>5. Ahead(f) = Ahead(Top)
    BY <2>3 DEF Ahead
  <2> QED
    BY <1>1, <1>2, <1>3, <2>1, <2>3, <2>4, <2>5, KeepsCalls
<1> QED
  BY <1>4, <1>5

LEMMA DispatchCalls ==
    ASSUME TypeInv, CallInv, Dispatch
    PROVE  CallInv'
<1>1. stack # <<>> /\ error = "none" /\ file' = file /\ root' = root /\ Top.at = "before"
      /\ Top.calls = <<>>
  BY DEF Dispatch
<1>2. CASE BodyEnds("none")
  BY <1>1, <1>2, BodyEndsCalls
<1>3. CASE ~BodyEnds("none")
  <2> DEFINE hosts == IF OnOperator THEN {Operator} ELSE TargetsForTask(Own)
             f == [Top EXCEPT !.at = "body", !.hosts = hosts]
  <2>1. stack' = WithTop(f) /\ error' = error
    BY <1>3 DEF Dispatch
  <2>2. hosts \in SUBSET Where /\ Top \in Frames
    BY <1>1, TargetsReach, TopFrame
  <2> HIDE DEF hosts
  <2>3. f \in Frames /\ f.task = Top.task /\ f.at = "body" /\ f.calls = Top.calls
    BY <2>2, BodyType
  <2> HIDE DEF f
  <2>4. Ahead(f) = Ahead(Top)
    BY <1>1, <2>3 DEF Ahead
  <2> QED
    BY <1>1, <2>1, <2>3, <2>4, KeepsCalls
<1> QED
  BY <1>2, <1>3

\* The calls of a new frame are all ahead of it.
LEMMA NewFrameAhead ==
    ASSUME TypeInv, NEW t \in Tasks
    PROVE  Ahead(Frame(t)) = Callees(t)
<1> DEFINE task == file.tasks[t]
           g == Frame(t)
<1>1. task.before \in Seq(Tasks) /\ task.deps \in Seq(Tasks) /\ task.after \in Seq(Tasks)
  BY OwnTask DEF TypeInv, FieldsOK, Task
<1>2. \A p, q \in Seq(Tasks) : Range(p \o q) = Range(p) \cup Range(q)
  <2> SUFFICES ASSUME NEW p \in Seq(Tasks), NEW q \in Seq(Tasks)
               PROVE  Range(p \o q) = Range(p) \cup Range(q)
    OBVIOUS
  <2>1. /\ DOMAIN p = 1..Len(p) /\ DOMAIN q = 1..Len(q)
        /\ DOMAIN (p \o q) = 1..(Len(p) + Len(q)) /\ Len(p) \in Nat /\ Len(q) \in Nat
    OBVIOUS
  <2>2. \A i \in 1..Len(p) : (p \o q)[i] = p[i] /\ i \in DOMAIN (p \o q)
    BY <2>1
  <2>3. \A i \in 1..Len(q) : (p \o q)[Len(p) + i] = q[i] /\ Len(p) + i \in DOMAIN (p \o q)
    BY <2>1
  <2>4. \A i \in 1..(Len(p) + Len(q)) : i \in 1..Len(p) \/ (i - Len(p) \in 1..Len(q)
                                        /\ i = Len(p) + (i - Len(p)))
    BY <2>1
  <2>5. \A x \in Range(p \o q) : x \in Range(p) \cup Range(q)
    BY <2>1, <2>2, <2>3, <2>4 DEF Range
  <2>6. \A x \in Range(p) \cup Range(q) : x \in Range(p \o q)
    BY <2>1, <2>2, <2>3 DEF Range
  <2> QED
    BY <2>5, <2>6
<1>3. g.task = t /\ g.at = (IF task.active THEN "before" ELSE "after")
      /\ g.calls = IF task.active THEN task.before \o task.deps ELSE <<>>
  BY DEF Frame
<1>4. CASE task.active
  <2>1. Range(g.calls) = Range(task.before) \cup Range(task.deps)
    BY <1>1, <1>2, <1>3, <1>4
  <2>2. g.at # "after"
    BY <1>3, <1>4
  <2> HIDE DEF g
  <2>3. Ahead(g) = Range(g.calls) \cup Range(task.after)
    BY <1>3, <2>2 DEF Ahead
  <2> QED
    BY <1>4, <2>1, <2>3 DEF Callees, g
<1>5. CASE ~task.active
  <2>1. g.calls = <<>> /\ g.at = "after"
    BY <1>3, <1>5
  <2> HIDE DEF g
  <2>2. Ahead(g) = {}
    BY <2>1, NoneAhead DEF Ahead
  <2> QED
    BY <1>5, <2>2 DEF Callees, g
<1> QED
  BY <1>4, <1>5

LEMMA StartCalls ==
    ASSUME TypeInv, NEW t \in Tasks, NEW phase, StartRun(t, phase)
    PROVE  CallInv'
<1> DEFINE g == Frame(t)
<1>1. g \in Frames /\ g.task = t /\ g.at # "body" /\ Ahead(g) = Callees(t)
  BY NewFrame, NewFrameAhead
<1>2. stack' = <<g>> /\ file' = file /\ error' = "none" /\ root'.task = t
  BY DEF StartRun
<1> HIDE DEF g
<1>3. Len(stack') = 1 /\ stack'[1] = g /\ stack' # <<>>
  BY <1>2
<1>4. Linked(stack')
  BY <1>1, <1>3, ReachedSelf DEF Linked
<1>5. Settled(stack')
  BY <1>1, <1>3 DEF Settled
<1>6. /\ \A u : Callees(u)' = Callees(u) /\ Reached(u)' = Reached(u)
      /\ \A u : Cyclic(u)' <=> Cyclic(u)
  BY <1>2, SameGraph
<1>7. \A f : Ahead(f)' = Ahead(f)
  BY <1>2 DEF Ahead
<1>8. Linked(stack)'
  BY <1>4, <1>6, <1>7 DEF Linked
<1>9. Settled(stack)'
  BY <1>5, <1>6, <1>7 DEF Settled, Clear
<1> QED
  BY <1>1, <1>2, <1>3, <1>8, <1>9 DEF CallInv, Ended

\* The next call is taken off what is ahead.
LEMMA CallTaken ==
    ASSUME TypeInv, stack # <<>>, Top.calls # <<>>
    PROVE  LET f == [Top EXCEPT !.calls = Tail(@)]
               t == Head(Top.calls)
           IN  /\ f \in Frames /\ f.task = Top.task /\ f.at = Top.at /\ t \in Tasks
               /\ t \in Ahead(Top) /\ Ahead(f) \subseteq Ahead(Top)
               /\ Ahead(Top) \subseteq Ahead(f) \cup {t}
<1> DEFINE f == [Top EXCEPT !.calls = Tail(@)]
           t == Head(Top.calls)
           calls == Top.calls
<1>1. f \in Frames /\ f.task = Top.task /\ f.at = Top.at /\ t \in Tasks /\ f.calls = Tail(calls)
  BY TopFrame, CallsType
<1>2. calls \in Seq(Tasks) /\ calls # <<>>
  BY TopFrame DEF Frames
<1> HIDE DEF f, calls
<1>3. Len(calls) \in Nat /\ Len(calls) >= 1 /\ Head(calls) = calls[1]
      /\ DOMAIN calls = 1..Len(calls)
      /\ Tail(calls) \in Seq(Tasks) /\ Len(Tail(calls)) = Len(calls) - 1
      /\ \A i \in 1..(Len(calls) - 1) : Tail(calls)[i] = calls[i + 1]
  BY <1>2
<1>4. DOMAIN Tail(calls) = 1..(Len(calls) - 1)
  BY <1>3
<1>5. Range(Tail(calls)) \subseteq Range(calls)
  <2>1. \A i \in 1..(Len(calls) - 1) : i + 1 \in 1..Len(calls)
    BY <1>3
  <2> QED
    BY <1>3, <1>4, <2>1 DEF Range
<1>6. Range(calls) \subseteq Range(Tail(calls)) \cup {Head(calls)}
  <2>1. ASSUME NEW i \in 1..Len(calls) PROVE calls[i] \in Range(Tail(calls)) \cup {Head(calls)}
    <3>1. CASE i = 1
      BY <1>3, <3>1
    <3>2. CASE i # 1
      <4>1. i - 1 \in 1..(Len(calls) - 1) /\ (i - 1) + 1 = i
        BY <1>3, <3>2
      <4>2. Tail(calls)[i - 1] = calls[i]
        BY <1>3, <4>1
      <4> QED
        BY <1>4, <4>1, <4>2 DEF Range
    <3> QED
      BY <3>1, <3>2
  <2> QED
    BY <1>3, <2>1 DEF Range
<1>7. Head(calls) \in Range(calls)
  BY <1>3 DEF Range
<1> QED
  BY <1>1, <1>5, <1>6, <1>7 DEF Ahead, calls, f

LEMMA CallNextCalls ==
    ASSUME TypeInv, CallInv, CallNext
    PROVE  CallInv'
<1> DEFINE f == [Top EXCEPT !.calls = Tail(@)]
           t == Head(Top.calls)
           w == WithTop(f)
           n == Len(stack)
<1>1. stack # <<>> /\ error = "none" /\ Top.calls # <<>> /\ Top.at # "body"
      /\ file' = file /\ root' = root
  BY DEF CallNext
<1>2. Enter(t, w)
  BY DEF CallNext
<1>3. /\ f \in Frames /\ f.task = Top.task /\ f.at = Top.at /\ t \in Tasks
      /\ t \in Ahead(Top) /\ Ahead(f) \subseteq Ahead(Top)
      /\ Ahead(Top) \subseteq Ahead(f) \cup {t}
  BY <1>1, CallTaken
<1> HIDE DEF f, t
<1>4. /\ w \in Seq(Frames) /\ w # <<>> /\ Len(w) = n
      /\ w[n] = f /\ \A i \in 1..n : i # n => w[i] = stack[i]
      /\ n \in Nat /\ n >= 1
  BY <1>1, <1>3, Rewritten DEF TypeInv, StackOK
<1>5. /\ Linked(w) /\ root.task = w[1].task
      /\ \A i \in 1..n : w[i].task = stack[i].task
  BY <1>1, <1>3, RewriteLinked
<1>6. Top = stack[n] /\ Linked(stack) /\ Settled(stack) /\ root.task = stack[1].task
  BY <1>1 DEF Top, CallInv
<1>7. file \in Deployfile
  BY DEF TypeInv, FieldsOK
<1> HIDE DEF w, n
<1>8. t \in Callees(stack[n].task)
  BY <1>3, <1>4, <1>6 DEF Linked, n
<1>9. CASE t \in onStack
  <2>1. stack' = w /\ error' = "cycle"
    BY <1>2, <1>9 DEF Enter
  <2>2. PICK k \in 1..n : t = stack[k].task
    BY <1>9 DEF TypeInv, StackOK, n
  <2>3. stack[n].task \in Reached(root.task) /\ stack[n].task \in Reached(t)
    BY <1>4, <1>6, <2>2 DEF Linked, n
  <2>4. Cyclic(root.task)
    BY <1>8, <2>3 DEF Cyclic
  <2> QED
    BY <1>1, <1>4, <1>5, <2>1, <2>4, NextCalls
<1>10. CASE t \notin onStack
  <2> DEFINE g == Frame(t)
             s == Append(w, g)
  <2>1. g \in Frames /\ g.task = t /\ g.at # "body" /\ Ahead(g) = Callees(t)
    BY <1>3, NewFrame, NewFrameAhead
  <2>2. stack' = s /\ error' = error
    BY <1>2, <1>10 DEF Enter
  <2> HIDE DEF g
  <2>3. /\ s # <<>> /\ Len(s) = n + 1 /\ s[n + 1] = g
        /\ \A i \in 1..n : s[i] = w[i]
    BY <1>4, <2>1, Pushed
  <2> HIDE DEF s
  <2>4. \A i \in 1..n + 1 : i \in 1..n \/ i = n + 1
    BY <1>4
  <2>5. \A i \in 1..n + 1 : /\ Ahead(s[i]) \subseteq Callees(s[i].task)
                            /\ s[i].at = "body" => s[i].calls = <<>>
    BY <1>4, <1>5, <2>1, <2>3, <2>4 DEF Linked
  <2>6. ASSUME NEW i \in 1..n + 1, NEW j \in 1..n + 1, i <= j
        PROVE  s[j].task \in Reached(s[i].task)
    <3>1. CASE j \in 1..n
      <4>1. i \in 1..n
        BY <1>4, <2>6, <3>1
      <4> QED
        BY <1>4, <1>5, <2>3, <2>6, <3>1, <4>1 DEF Linked
    <3>2. CASE i \in 1..n /\ j = n + 1
      <4>1. stack[n].task \in Reached(stack[i].task)
        BY <1>4, <1>6, <3>2 DEF Linked, n
      <4>2. t \in Reached(stack[i].task)
        BY <1>7, <1>8, <4>1, ReachedStep
      <4> QED
        BY <1>5, <2>1, <2>3, <3>2, <4>2
    <3>3. CASE i = n + 1 /\ j = n + 1
      BY <1>3, <2>1, <2>3, <3>3, ReachedSelf
    <3> QED
      BY <2>4, <3>1, <3>2, <3>3
  <2>7. Linked(s)
    BY <2>3, <2>5, <2>6 DEF Linked
  <2>8. ASSUME NEW i \in 1..n + 1, NEW c \in Callees(s[i].task)
        PROVE  \/ c \in Ahead(s[i])
               \/ i < n + 1 /\ c = s[i + 1].task
               \/ Clear(s, i, c)
    <3>1. CASE i = n + 1
      BY <2>1, <2>3, <2>8, <3>1
    <3>2. CASE i \in 1..n
      <4>1. c \in Callees(stack[i].task)
        BY <1>5, <2>3, <2>8, <3>2
      <4>2. \/ c \in Ahead(stack[i])
            \/ i < n /\ c = stack[i + 1].task
            \/ Clear(stack, i, c)
        BY <1>6, <3>2, <4>1 DEF Settled, n
      <4>3. CASE Clear(stack, i, c)
        <5>1. \A j \in 1..i : j \in 1..n /\ s[j].task = stack[j].task
          BY <1>4, <1>5, <2>3, <3>2
        <5> QED
          BY <4>3, <5>1 DEF Clear
      <4>4. CASE i < n /\ c = stack[i + 1].task
        <5>1. i + 1 \in 1..n
          BY <1>4, <3>2, <4>4
        <5> QED
          BY <1>4, <1>5, <2>3, <3>2, <4>4, <5>1
      <4>5. CASE c \in Ahead(stack[i]) /\ i # n
        BY <1>4, <2>3, <3>2, <4>5
      <4>6. CASE c \in Ahead(stack[i]) /\ i = n
        <5>1. c \in Ahead(s[i]) \/ c = t
          BY <1>3, <1>4, <1>6, <2>3, <3>2, <4>6
        <5> QED
          BY <1>4, <2>1, <2>3, <4>6, <5>1
      <4> QED
        BY <4>2, <4>3, <4>4, <4>5, <4>6
    <3> QED
      BY <2>4, <3>1, <3>2
  <2>9. Settled(s)
    BY <2>3, <2>8 DEF Settled
  <2>10. 1 \in 1..n
    BY <1>4
  <2>11. root.task = s[1].task
    BY <1>5, <2>3, <2>10
  <2> QED
    BY <1>1, <2>2, <2>3, <2>7, <2>9, <2>11, NextCalls
<1> QED
  BY <1>9, <1>10

LEMMA ReturnCalls ==
    ASSUME TypeInv, CallInv, Return
    PROVE  CallInv'
<1> DEFINE n == Len(stack)
           p == Popped
<1>1. stack # <<>> /\ stack' = p /\ error' = error /\ file' = file /\ root' = root
      /\ (error # "none" \/ (Top.at = "after" /\ Top.calls = <<>>))
  BY DEF Return
<1>2. /\ Len(p) = n - 1
      /\ \A i \in 1..(n - 1) : p[i] = stack[i]
      /\ n \in Nat /\ n >= 1
      /\ p = <<>> <=> n = 1
  BY <1>1, Shortened DEF TypeInv, StackOK
<1>3. Top = stack[n] /\ Linked(stack) /\ (error = "none" => Settled(stack))
      /\ root.task = stack[1].task /\ (error = "cycle" => Cyclic(root.task))
  BY <1>1 DEF Top, CallInv
<1>4. file \in Deployfile /\ \A i, j \in 1..n : stack[i].task = stack[j].task => i = j
  BY DEF TypeInv, FieldsOK, StackOK
<1>t. Top.task \in Tasks
  BY <1>1, TopFrame
<1> DEFINE t == Top.task
<1> HIDE DEF p
<1>5. p # <<>> => Linked(p) /\ root.task = p[1].task
  <2>1. \A i \in 1..(n - 1) : i \in 1..n
    BY <1>2
  <2>2. Linked(p)
    BY <1>2, <1>3, <2>1 DEF Linked
  <2>3. p # <<>> => 1 \in 1..(n - 1)
    BY <1>2
  <2> QED
    BY <1>2, <1>3, <2>2, <2>3
<1>6. CASE error # "none"
  BY <1>1, <1>3, <1>5, <1>6, NextCalls
<1>7. CASE error = "none"
  <2>1. Ahead(Top) = {}
    BY <1>1, <1>7, NoneAhead DEF Ahead
  <2>2. n \in 1..n /\ ~(n < n)
    BY <1>2
  <2>3. \A c \in Callees(t) : Clear(stack, n, c)
    BY <1>3, <1>7, <2>1, <2>2 DEF Settled
  <2>4. ~Cyclic(t)
    BY <1>3, <1>4, <1>t, <2>2, <2>3, NoCycle DEF Clear
  <2>5. ASSUME NEW j \in 1..(n - 1) PROVE stack[j].task \notin Reached(t)
    <3> SUFFICES ASSUME stack[j].task \in Reached(t) PROVE FALSE
      OBVIOUS
    <3>1. j \in 1..n /\ j # n
      BY <1>2
    <3>2. stack[j].task # t
      BY <1>3, <1>4, <2>2, <3>1
    <3>3. PICK c \in Callees(t) : stack[j].task \in Reached(c)
      BY <1>4, <1>t, <3>2, ReachedFirst
    <3> QED
      BY <2>3, <3>1, <3>3 DEF Clear
  <2>6. n = 1 => ~Cyclic(root.task)
    BY <1>3, <2>4
  <2> HIDE DEF n
  <2>7. ASSUME NEW i \in 1..(n - 1), NEW c \in Callees(p[i].task)
        PROVE  \/ c \in Ahead(p[i])
               \/ i < n - 1 /\ c = p[i + 1].task
               \/ Clear(p, i, c)
    <3>1. i \in 1..n /\ p[i] = stack[i] /\ i # n
      BY <1>2
    <3>2. \/ c \in Ahead(stack[i])
          \/ i < n /\ c = stack[i + 1].task
          \/ Clear(stack, i, c)
      BY <1>3, <1>7, <3>1 DEF Settled, n
    <3>3. \A j \in 1..i : j \in 1..(n - 1) /\ p[j] = stack[j]
      BY <1>2, <2>7
    <3>4. CASE c = stack[i + 1].task
      <4>1. CASE i = n - 1
        <5>1. c = t
          BY <1>2, <1>3, <3>4, <4>1
        <5>2. Clear(p, i, t)
          BY <2>4, <2>5, <3>3 DEF Clear
        <5> QED
          BY <5>1, <5>2
      <4>2. CASE i # n - 1
        <5>1. i + 1 \in 1..(n - 1) /\ i < n - 1
          BY <1>2, <4>2
        <5> QED
          BY <1>2, <3>4, <5>1
      <4> QED
        BY <4>1, <4>2
    <3>5. CASE Clear(stack, i, c)
      BY <3>3, <3>5 DEF Clear
    <3> QED
      BY <3>1, <3>2, <3>4, <3>5
  <2>8. Settled(p)
    BY <1>2, <2>7 DEF Settled
  <2> QED
    BY <1>1, <1>2, <1>5, <1>7, <2>6, <2>8, NextCalls
<1> QED
  BY <1>6, <1>7

LEMMA StepCalls == Sound /\ CallInv /\ [Next]_vars => CallInv'
<1> SUFFICES ASSUME Sound, CallInv, [Next]_vars PROVE CallInv'
  OBVIOUS
<1>1. CASE UNCHANGED vars \/ SetContext \/ Interrupt \/ Send
  <2>1. stack' = stack /\ error' = error /\ file' = file /\ root' = root /\ runs' = runs
    BY <1>1 DEF vars, SetContext, Interrupt, Send
  <2>2. /\ \A u : Callees(u)' = Callees(u) /\ Reached(u)' = Reached(u)
        /\ \A u : Cyclic(u)' <=> Cyclic(u)
    BY <2>1, SameGraph
  <2>3. \A f : Ahead(f)' = Ahead(f)
    BY <2>1 DEF Ahead
  <2>4. (Linked(stack)' <=> Linked(stack)) /\ (Settled(stack)' <=> Settled(stack))
    BY <2>1, <2>2, <2>3 DEF Linked, Settled, Clear
  <2> QED
    BY <2>1, <2>2, <2>4 DEF CallInv, Ended
<1>2. TypeInv /\ Outstanding
  BY DEF Sound, SurfaceInv
<1> QED
  BY <1>1, <1>2, StartCalls, CallNextCalls, ReturnCalls, DispatchCalls, WorkCalls DEF Next, Run

\* A run ends with the cycle error only if its tasks have a cycle, and never well if they
\* have one, for any graph of hooks and dependencies: what is left out of the stage and
\* what is shared counts for none (deps.go:20-25, 35-56, 97-107).
THEOREM CyclesExact == Spec => []CyclesFound
<1>1. Init => CallInv
  <2> SUFFICES ASSUME Init PROVE CallInv
    OBVIOUS
  <2>1. stack = <<>> /\ runs = 0 /\ error = "none"
    BY DEF Init
  <2>2. ~Ended
    BY <2>1 DEF Ended
  <2> QED
    BY <2>1, <2>2 DEF CallInv
<1>2. CallInv => CyclesFound
  BY DEF CallInv, CyclesFound
<1> QED
  BY <1>1, <1>2, StepCalls, SoundAlways, PTL DEF Spec
=============================================================================
