------------------------------ MODULE MCTaskRun ------------------------------
(***************************************************************************)
(* Instances of TaskRun for TLC: every small graph of dependencies and     *)
(* after hooks over three tasks, with nothing going wrong; and a few       *)
(* Deployfiles whose tasks run on hosts while everything goes wrong.       *)
(***************************************************************************)
EXTENDS TaskRun

CONSTANTS a, b, c, h1, h2, h3

\* h1 is marked, so the primary, which a deploy requires.
ThreeHosts == <<h2, h1, h3>>

Plain == [before |-> <<>>, deps |-> <<>>, after |-> <<>>, active |-> TRUE, body |-> "cmds",
          local |-> FALSE, on |-> {h2, h3}, once |-> FALSE, continueOnError |-> FALSE,
          silentOutput |-> FALSE]

\* Tasks may call themselves and each other; c may be left out of the stage.
Slots == {<<>>} \cup {<<t>> : t \in Tasks} \cup {<<b, c>>}

Graph(deps, after, active, process) ==
    [tasks |-> [t \in Tasks |-> [Plain EXCEPT !.on = {}, !.deps = deps[t], !.after = after[t],
                                              !.active = t # c \/ active]],
     process |-> process, skip |-> FALSE, required |-> {}, faults |-> {}]

Graphs == {Graph(deps, after, active, process) :
              deps \in [Tasks -> Slots], after \in [Tasks -> {<<>>, <<a>>}],
              active \in BOOLEAN, process \in {"deploy", "task"}}

\* a runs c before itself, depends on b and runs c after itself.
Bodied(first, second, third) ==
    [t \in Tasks |->
        CASE t = a -> [first EXCEPT !.before = <<c>>, !.deps = <<b>>, !.after = <<c>>]
          [] t = b -> second
          [] t = c -> third]

Skipping(tasks, required) ==
    [tasks |-> tasks, process |-> "deploy", skip |-> TRUE, required |-> required \cup {h1},
     faults |-> FaultKinds]

Aborting(tasks, process) ==
    [tasks |-> tasks, process |-> process, skip |-> FALSE, required |-> {}, faults |-> FaultKinds]

Query == [Plain EXCEPT !.body = "query"]
Acts == [Plain EXCEPT !.body = "action"]
Reads == [Plain EXCEPT !.body = "output"]
Quiet == [Plain EXCEPT !.silentOutput = TRUE]
Sweeps == [Plain EXCEPT !.continueOnError = TRUE]
Local == [Plain EXCEPT !.local = TRUE]

Bodies == {Skipping(Bodied(Quiet, Acts, [Reads EXCEPT !.on = {h2}]), {}),
           Skipping(Bodied(Query, [Sweeps EXCEPT !.on = {h1, h2}], Reads), {h2}),
           Skipping(Bodied([Quiet EXCEPT !.body = "query"], [Sweeps EXCEPT !.body = "output"],
                           Local), {}),
           Skipping(Bodied([Acts EXCEPT !.once = TRUE], [Reads EXCEPT !.on = Hosts],
                           [Quiet EXCEPT !.on = Hosts, !.once = TRUE]), {}),
           Aborting(Bodied(Sweeps, [Quiet EXCEPT !.local = TRUE], [Acts EXCEPT !.on = {h2}]),
                    "deploy"),
           Aborting(Bodied([Local EXCEPT !.body = "output"], [Sweeps EXCEPT !.silentOutput = TRUE],
                           [Reads EXCEPT !.on = {}]), "task")}

Everywhere == Graphs \cup Bodies

\* An output task of a role that one host has, not the primary.
Once == {[tasks |-> [t \in Tasks |-> [Reads EXCEPT !.on = {h2}]],
          process |-> "deploy", skip |-> TRUE, required |-> {h1}, faults |-> {"lose"}]}

=============================================================================
