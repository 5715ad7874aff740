----------------------------- MODULE Deployfile -----------------------------
(***************************************************************************)
(* Reading the configuration (internal/deployfile/load.go, tasks.go and    *)
(* deployfile.go, ast/merge.go): the include tree of the shared            *)
(* Deployfile, the one of the stage file, their merge, and the discovery   *)
(* of tasks that registers the subcommands before the command runs         *)
(* (cli/root.go).                                                          *)
(*                                                                         *)
(* The recursion of resolveIncludes is a stack of frames, so that a bug in *)
(* what is shared between the calls (seen) and what is not (chain) shows.  *)
(* A file is read once the program asks for it: what it holds is chosen    *)
(* then, and a second pass over the same files finds the same.             *)
(*                                                                         *)
(* The fields of a file are abstracted to who declares them: a field is    *)
(* the set of the files that set it.  Scalars, lists that replace          *)
(* (linked_files) and keys of maps (tasks, hooks, vars) all follow one     *)
(* rule, the override wins when it sets the field; hosts, plugins,         *)
(* env_files and custom_phases follow the other, base first.               *)
(***************************************************************************)
EXTENDS Integers, FiniteSets, Sequences, SequencesExt

CONSTANTS
    Root,         \* the shared Deployfile
    StagePaths,   \* where the stage file may be, in the order it is looked for
    Fragments,    \* the files that only an include: reaches
    MaxIncludes,  \* a bound on the entries of the include: of each file
    Fields,       \* the fields: each is the set of the files that set it
    None          \* a field nobody sets, a resolution that gives nil

Files == {Root} \cup Range(StagePaths) \cup Fragments

\* A configuration: the files its lists were concatenated from, and for each
\* field the file whose value it holds.
Configurations == [listed : Seq(Files), from : [Fields -> Files \cup {None}]]

ASSUME FilesAssumption ==
    /\ StagePaths \in Seq(Files) /\ StagePaths # << >> /\ IsInjective(StagePaths)
    /\ Root \notin Range(StagePaths) \cup Fragments
    /\ Fields \subseteq SUBSET Files
    /\ MaxIncludes \in [Files -> Nat]
    /\ None \notin Files \cup Configurations

VARIABLES
    disk,       \* what each file is found to be: "unread", "missing", "broken" or "read"
    include,    \* the include: of each file, once it is read
    caller,     \* who resolves: "load" (Load) or "tasks" (TasksForStage)
    progress,   \* "base" and "stage" resolved, "check", "ready" or "failed"
    stack,      \* the calls of resolveIncludes: the file, its position in include:, the merge so far
    calling,    \* the file resolveIncludes is about to be called with, or None
    seen,       \* the files already merged into this load
    base,       \* what the Deployfile resolved to
    cfg,        \* what the load merged, None before
    failure,    \* why the load failed, "" when it did not
    registered  \* the configuration whose tasks were registered, None before

vars == <<disk, include, caller, progress, stack, calling, seen, base, cfg, failure, registered>>

-----------------------------------------------------------------------------
Empty == [listed |-> << >>, from |-> [p \in Fields |-> None]]

Own(f) == [listed |-> <<f>>,
           from   |-> [p \in Fields |-> IF f \in p THEN f ELSE None]]

Merge(under, over) ==
    [listed |-> under.listed \o over.listed,
     from   |-> [p \in Fields |-> IF over.from[p] # None THEN over.from[p] ELSE under.from[p]]]

-----------------------------------------------------------------------------
\* readConfig: what a file holds is found out when it is first read.
ReadConfig(f) ==
    \/ disk[f] # "unread" /\ UNCHANGED <<disk, include>>
    \/ /\ disk[f] = "unread"
       /\ \/ /\ \E kind \in {"missing", "broken"} : disk' = [disk EXCEPT ![f] = kind]
             /\ include' = include
          \/ /\ disk' = [disk EXCEPT ![f] = "read"]
             /\ \E n \in 0..MaxIncludes[f] : \E s \in [1..n -> Files] :
                   include' = [include EXCEPT ![f] = s]

LoadInit ==
    /\ disk = [f \in Files |-> "unread"] /\ include = [f \in Files |-> << >>]
    /\ caller = "load" /\ progress = "base" /\ failure = ""
    /\ stack = << >> /\ calling = Root /\ seen = {}
    /\ base = None /\ cfg = None /\ registered = None

\* A resolution fails, and with it Load.  TasksForStage fails without the
\* Deployfile, and makes do with the Deployfile alone without the stage.
LoadFails(why) ==
    /\ stack' = << >> /\ calling' = None /\ progress' = "failed"
    /\ failure' = IF caller = "load" THEN why ELSE failure
    /\ registered' = IF caller = "tasks" /\ progress = "stage" THEN base ELSE registered
    /\ UNCHANGED <<caller, seen, base, cfg>>

\* A resolution returns config (None for nil): to the frame that called it, or
\* to Load and TasksForStage, which merge the stage over the Deployfile.
Return(config, frames) ==
    /\ calling' = None /\ UNCHANGED <<caller, failure>>
    /\ \/ /\ frames # << >>
          /\ stack' = [frames EXCEPT ![1].merged =
                           IF config = None THEN @ ELSE Merge(@, config)]
          /\ UNCHANGED <<progress, base, cfg, registered>>
       \/ /\ frames = << >> /\ progress = "base"
          /\ base' = config /\ progress' = "stage" /\ stack' = << >>
          /\ UNCHANGED <<cfg, registered>>
       \/ /\ frames = << >> /\ progress = "stage" /\ stack' = << >>
          /\ LET merged == Merge(base, IF config = None THEN Empty ELSE config) IN
             IF caller = "load" THEN cfg' = merged /\ progress' = "check" /\ registered' = registered
                                ELSE registered' = merged /\ progress' = "ready" /\ cfg' = cfg
          /\ UNCHANGED base

Ancestors == {stack[i].file : i \in DOMAIN stack}

\* Mutant: the file already merged is looked up before the circle.
CircularAfterSeen(f) == f \in Ancestors /\ f \notin seen

Circular(f) == f \in Ancestors

\* resolveIncludes, down to the loop over its includes: a circle, a file
\* already merged, a file that cannot be read, a file without includes.
ResolveIncludes ==
    /\ calling # None
    /\ LET f == calling IN
       \/ Circular(f) /\ LoadFails("circular") /\ UNCHANGED <<disk, include>>
       \/ /\ ~Circular(f) /\ f \in seen
          /\ Return(None, stack) /\ UNCHANGED <<disk, include, seen>>
       \/ /\ ~Circular(f) /\ f \notin seen
          /\ ReadConfig(f)
          /\ \/ /\ disk'[f] \in {"missing", "broken"}
                /\ stack # << >> \/ disk'[f] = "broken" \* Discover and stagePath found it
                /\ LoadFails("unreadable")
             \/ /\ disk'[f] = "read" /\ include'[f] = << >>
                /\ seen' = seen \cup {f} /\ Return(Own(f), stack)
             \/ /\ disk'[f] = "read" /\ include'[f] # << >>
                /\ seen' = seen \cup {f} /\ calling' = include'[f][1]
                /\ stack' = <<[file |-> f, next |-> 2, merged |-> Empty]>> \o stack
                /\ UNCHANGED <<caller, progress, base, cfg, failure, registered>>

\* The loop over the includes: the next one, or the file itself over them all.
Iterate ==
    /\ calling = None /\ stack # << >>
    /\ LET top == Head(stack) IN
       \/ /\ top.next <= Len(include[top.file])
          /\ calling' = include[top.file][top.next]
          /\ stack' = [stack EXCEPT ![1].next = @ + 1]
          /\ UNCHANGED <<caller, progress, base, cfg, failure, registered>>
       \/ /\ top.next > Len(include[top.file])
          /\ Return(Merge(top.merged, Own(top.file)), Tail(stack))
    /\ UNCHANGED <<disk, include, seen>>

\* Mutant: each resolution of the discovery has a seen of its own.
StageSeenFresh == IF caller = "tasks" THEN {} ELSE seen

\* The files the resolution of the stage starts with: those of the Deployfile.
StageSeen == seen

\* stagePath: the first path of the stage file that exists.
FindStage ==
    /\ progress = "stage" /\ calling = None /\ stack = << >> /\ include' = include
    /\ \/ \E i \in DOMAIN StagePaths :
            /\ disk[StagePaths[i]] # "missing"
            /\ \A j \in 1..(i - 1) : disk[StagePaths[j]] \in {"unread", "missing"}
            /\ disk' = [f \in Files |-> IF \E j \in 1..(i - 1) : f = StagePaths[j]
                                        THEN "missing" ELSE disk[f]]
            /\ calling' = StagePaths[i] /\ seen' = StageSeen
            /\ UNCHANGED <<caller, progress, stack, base, cfg, failure, registered>>
       \/ /\ \A i \in DOMAIN StagePaths : disk[StagePaths[i]] \in {"unread", "missing"}
          /\ disk' = [f \in Files |-> IF f \in Range(StagePaths) THEN "missing" ELSE disk[f]]
          /\ LoadFails("no stage")

\* Load goes on: loadEnvFiles skips the env files that do not exist and fails
\* on one that does not parse, Validate rejects what a deploy could not use.
Check ==
    /\ progress = "check"
    /\ \/ \E why \in {"env file", "invalid"} : failure' = why /\ progress' = "failed" /\ registered' = registered
       \/ progress' = "ready" /\ registered' = cfg /\ failure' = failure
    /\ UNCHANGED <<disk, include, caller, stack, calling, seen, base, cfg>>

\* The discovery of newStageCmd falls back to TasksForStage.
Discover ==
    /\ progress = "failed" /\ caller = "load"
    /\ caller' = "tasks" /\ progress' = "base"
    /\ stack' = << >> /\ calling' = Root /\ seen' = {} /\ base' = None
    /\ UNCHANGED <<disk, include, cfg, failure, registered>>

LoadNext == ResolveIncludes \/ Iterate \/ FindStage \/ Check \/ Discover

LoadSpec == LoadInit /\ [][LoadNext]_vars

-----------------------------------------------------------------------------
Includes(f) == Range(include[f])

StageFile == CHOOSE f \in Files : \E i \in DOMAIN StagePaths :
    f = StagePaths[i] /\ disk[f] # "missing" /\ \A j \in 1..(i - 1) : disk[StagePaths[j]] = "missing"

Before(f, g, s) == \E i, j \in DOMAIN s : i < j /\ s[i] = f /\ s[j] = g

\* f sets the field p, and no file after it in s does.
SetsLast(f, p, s) == \E i \in DOMAIN s : s[i] = f /\ f \in p /\ \A j \in DOMAIN s : s[j] \in p => j <= i

\* What a load merges (load.go:19-62, 116-122): the files the Deployfile and
\* the stage file reach, each once, whatever the paths that lead to it; a file
\* over those it includes; the stage over the Deployfile, unless the
\* Deployfile is what includes it; and the lists are in the order in which the
\* fields override one another.  A circular include is refused, and nothing
\* else is: not a diamond, not a stage file that the Deployfile includes too
\* (load.go:129-135).
MergedOnce ==
    /\ failure = "circular" =>
           \E ring \in SUBSET Files : ring # {} /\ \A f \in ring : Includes(f) \cap ring # {}
    /\ cfg # None =>
        LET s == cfg.listed  merged == Range(s) IN
        /\ IsInjective(s)
        /\ {Root, StageFile} \subseteq merged
        /\ \A f \in merged : \A g \in Includes(f) : Before(g, f, s)
        /\ \A f \in merged \ {Root, StageFile} : \E g \in merged : f \in Includes(g)
        /\ Before(StageFile, Root, s) =>
               \E f \in merged : StageFile \in Includes(f) /\ (f = Root \/ Before(f, Root, s))
        /\ \A p \in Fields : IF merged \cap p = {} THEN cfg.from[p] = None ELSE SetsLast(cfg.from[p], p, s)

\* The subcommands registered before the command runs are the tasks of the
\* configuration it would run with, even when that configuration does not
\* pass its checks (tasks.go:9-17, root.go:254-266).
DiscoveryAgrees == registered # None /\ cfg # None => registered.from = cfg.from
=============================================================================
