------------------------------- MODULE Deploy -------------------------------
(***************************************************************************)
(* The release lifecycle of whoosh (internal/deploy): any number of        *)
(* `deploy`, `deploy:rollback` and `deploy:unlock` commands, each its own  *)
(* process on its own machine, sharing nothing but the file systems of the *)
(* hosts.  A process sends one command at a time to a set of hosts, waits  *)
(* for every host's result, judges the results and goes on or fails.  On   *)
(* each host the command is a shell script, and every line of it that      *)
(* reads or writes the host's files is a step of its own: the scripts of   *)
(* different processes interleave, and a script stops wherever it dies.    *)
(*                                                                         *)
(* Abstracted: what a release contains (only which parts of it exist),     *)
(* task output, dry-run, custom phases (hook points like any other), the   *)
(* previous-revision read before the lock and the changelog (both best     *)
(* effort, neither changes a host or the outcome).                         *)
(***************************************************************************)
EXTENDS Integers, FiniteSets, Sequences

CONSTANTS
    Hosts,              \* addresses of the stage's deploy-enabled hosts
    Inventory,          \* the same hosts in Deployfile order
    MarkedPrimary,      \* hosts with `primary: true`
    Required,           \* hosts with `required: true`
    Deployers,          \* invocations of `deploy`
    Rollbackers,        \* invocations of `deploy:rollback`
    CleaningRollbacks,  \* those of them with --cleanup
    Unlockers,          \* invocations of `deploy:unlock`
    Targets,            \* Targets[o]: hosts left by the --roles/--host filters of o
    Skip,               \* TRUE: on_unreachable: skip, FALSE: abort
    KeepReleases,       \* app.keep_releases
    InitialReleases,    \* how many (complete) releases every host has at the start
    Seconds,            \* what the clocks of the operators' machines may show
    NoOwner, NoRelease, \* an absent lock file, an absent link
    Faults              \* what the environment may do: see FaultKinds

\* fail: a command or hook exits non-zero.  lost: a dial fails, or a connection
\* dies under a command.  timeout: a dial runs into its connect timeout and is taken
\* for a cancellation (see Fanout).  cancel: the first Ctrl-C or SIGTERM.  crash: the second
\* one, or the death of the operator's machine.
FaultKinds == {"fail", "lost", "timeout", "cancel", "crash"}

Operators == Deployers \cup Rollbackers \cup Unlockers

-----------------------------------------------------------------------------
(* Choosing hosts.                                                         *)

Position(h) == CHOOSE i \in DOMAIN Inventory : Inventory[i] = h

\* The first host of T in Deployfile order.
FirstOf(T) == CHOOSE h \in T : \A g \in T : Position(h) <= Position(g)

\* One-host work goes to the first host marked primary, else to the first host.
PickPrimary(T) ==
    IF T \cap MarkedPrimary # {} THEN FirstOf(T \cap MarkedPrimary) ELSE FirstOf(T)

\* The lock lives on the primary of the FILTERED host list of the invocation.
Primary(o) == PickPrimary(Targets[o])

\* Hosts whose loss is fatal under `skip`.
MustReach(d) == Required \cup {Primary(d)}

\* What a usable instance gives: distinct hosts, and every invocation keeps one.
ASSUME DeployAssumption ==
    /\ Inventory \in Seq(Hosts)
    /\ \A h \in Hosts : \E i \in DOMAIN Inventory : Inventory[i] = h
    /\ Required \subseteq Hosts /\ MarkedPrimary \subseteq Hosts
    /\ Deployers \cap Rollbackers = {}
    /\ (Deployers \cup Rollbackers) \cap Unlockers = {}
    /\ CleaningRollbacks \subseteq Rollbackers
    /\ \A o \in Operators : Targets[o] \subseteq Hosts /\ Targets[o] # {}
    /\ Skip \in BOOLEAN
    /\ KeepReleases \in Nat \ {0}
    /\ InitialReleases \in Nat
    /\ Seconds \subseteq Nat
    /\ NoOwner \notin Operators /\ NoRelease \notin Nat
    /\ Faults \subseteq FaultKinds

-----------------------------------------------------------------------------
(* One host: the lock file, the parts of each release directory, and the   *)
(* targets of the links `current` and `current.tmp`.                       *)

\* "dir" the directory itself, "tree" the archive unpacked into it, "revision"
\* its REVISION files, "links" its links into shared/.
Parts == {"dir", "tree", "revision", "links"}

Link == Nat \cup {NoRelease}

HostState == [lock    : Deployers \cup {NoOwner},
              content : SUBSET (Nat \X Parts),
              current : Link,
              tmp     : Link]

Dirs(s) == {x[1] : x \in s.content}

Complete(s, r) == \A p \in Parts : <<r, p>> \in s.content

With(s, r, parts) == [s EXCEPT !.content = @ \cup {<<r, p>> : p \in parts}]

\* `rm -rf` of release r: it is gone, or only what is in it so far.
Removals(s, r) ==
    {[s EXCEPT !.content = {x \in @ : x[1] # r}],
     [s EXCEPT !.content = {x \in @ : x[1] # r \/ x[2] = "dir"}]}

\* ls | sort | head -n "$n"
Oldest(s, n) == {r \in Dirs(s) : Cardinality({q \in Dirs(s) : q < r}) < n}

\* The names the loop of rollback.sh passes before it meets `cur`: all of them
\* when that directory is gone by then.
Earlier(s, cur) == IF cur \in Dirs(s) THEN {r \in Dirs(s) : r < cur} ELSE Dirs(s)

Newest(S) == CHOOSE r \in S : \A q \in S : q <= r

VARIABLES
    host,      \* host[h]: the state of host h
    pc,        \* pc[o]: the command o is at
    res,       \* res[o][h]: what o knows of that command on h
    script,    \* script[o][h]: where that command is on h, and its shell variables
    locked,    \* locked[o]: Deploy's local variable `locked`
    dropped,   \* dropped[o]: the executor's unreachable set
    canceled,  \* canceled[o]: the command's context is done
    rel,       \* rel[d]: the release d names and builds
    verdict    \* verdict[o]: the error (or not) o returned

local == <<locked, dropped, canceled, rel, verdict>>
vars == <<host, pc, res, script, local>>

\* Mutant: hosts are swapped before the shared links are there.
FollowingSwapped ==
    [lock |-> "check", check |-> "mirror", mirror |-> "sha", sha |-> "create",
     create |-> "revision", revision |-> "publish", publish |-> "link",
     link |-> "log", log |-> "cleanup", cleanup |-> "finished",
     rollback |-> "finished", clear |-> "ended", unlock |-> "ended"]

\* The remote commands of a deploy in order, and what follows each.
Following ==
    [lock |-> "check", check |-> "mirror", mirror |-> "sha", sha |-> "create",
     create |-> "revision", revision |-> "link", link |-> "publish",
     publish |-> "log", log |-> "cleanup", cleanup |-> "finished",
     rollback |-> "finished", clear |-> "ended", unlock |-> "ended"]

Commands == DOMAIN Following

Results == {"idle", "sent", "ok", "failed", "lost", "canceled"}

NoResults == [h \in Hosts |-> "idle"]

\* The first line of each command's script; the commands not listed change none
\* of a host's state kept here.
Begin(cmd) ==
    CASE cmd = "lock"     -> "open"
      [] cmd = "create"   -> "test"
      [] cmd = "revision" -> "revision"
      [] cmd = "link"     -> "links"
      [] cmd = "publish"  -> "untmp"
      [] cmd = "cleanup"  -> "count"
      [] cmd = "rollback" -> "readlink"
      [] cmd \in {"unlock", "clear"} -> "rm"
      [] OTHER -> "done"

Places == {"none", "open", "write", "test", "mkdir", "unpack", "revision", "links", "untmp", "ln",
           "mv", "unlink", "move", "readlink", "grep", "search", "forget", "count", "list",
           "prune", "rm", "done"}

\* from, to: $curbase and $prev of rollback.sh; n, gone: $remove and the names the
\* loop of cleanup.sh has still to read.
Scripts == [at : Places, from : Link, to : Link, n : Nat, gone : SUBSET Nat]

NoScript == [at |-> "none", from |-> NoRelease, to |-> NoRelease, n |-> 0, gone |-> {}]

NoScripts == [h \in Hosts |-> NoScript]

-----------------------------------------------------------------------------
(* The scripts, step by step.  o is the process that sent the command, h   *)
(* the host it runs on.                                                    *)

At(o, h, place) == res[o][h] = "sent" /\ script[o][h].at = place

Run(o, h, next, after) ==
    /\ script' = [script EXCEPT ![o][h] = next]
    /\ host' = [host EXCEPT ![h] = after]
    /\ UNCHANGED <<pc, res, local>>

Goto(o, h, place) == [script[o][h] EXCEPT !.at = place]

\* Mutant: the lock file is written without noclobber.
OpenOver(o, h) ==
    /\ At(o, h, "open")
    /\ Run(o, h, Goto(o, h, "write"), [host[h] EXCEPT !.lock = o])

\* Mutant: the lock file names the release and not who holds it.
OpenAnonymous(o, h) ==
    /\ At(o, h, "open")
    /\ host[h].lock = NoOwner
    /\ Run(o, h, Goto(o, h, "write"), [host[h] EXCEPT !.lock = rel[o]])

\* set -C: the redirect creates the lock file, or fails because there is one ...
Open(o, h) ==
    /\ At(o, h, "open")
    /\ host[h].lock = NoOwner
    /\ Run(o, h, Goto(o, h, "write"), [host[h] EXCEPT !.lock = o])

\* ... and then printf writes into it who holds the lock.
WriteInfo(o, h) == At(o, h, "write") /\ Run(o, h, Goto(o, h, "done"), host[h])

TestRelease(o, h) ==
    /\ At(o, h, "test")
    /\ rel[o] \notin Dirs(host[h])
    /\ Run(o, h, Goto(o, h, "mkdir"), host[h])

MakeRelease(o, h) ==
    /\ At(o, h, "mkdir")
    /\ Run(o, h, Goto(o, h, "unpack"), With(host[h], rel[o], {"dir"}))

Unpack(o, h) ==
    /\ At(o, h, "unpack")
    /\ rel[o] \in Dirs(host[h])
    /\ Run(o, h, Goto(o, h, "done"), With(host[h], rel[o], {"tree"}))

WriteRevision(o, h) ==
    /\ At(o, h, "revision")
    /\ rel[o] \in Dirs(host[h])
    /\ Run(o, h, Goto(o, h, "done"), With(host[h], rel[o], {"revision"}))

\* Line by line: mkdir -p of the parents first, which makes a removed release anew.
LinkShared(o, h) ==
    /\ At(o, h, "links")
    /\ \/ Run(o, h, Goto(o, h, "links"), With(host[h], rel[o], {"dir"}))
       \/ Run(o, h, Goto(o, h, "done"), With(host[h], rel[o], {"dir", "links"}))

ReadCurrent(o, h) ==
    /\ At(o, h, "readlink")
    /\ Run(o, h, [Goto(o, h, "grep") EXCEPT !.from = host[h].current], host[h])

FindCurrent(o, h) ==
    /\ At(o, h, "grep")
    /\ script[o][h].from \in Dirs(host[h])
    /\ Run(o, h, Goto(o, h, "search"), host[h])

FindPrevious(o, h) ==
    /\ At(o, h, "search")
    /\ Earlier(host[h], script[o][h].from) # {}
    /\ Run(o, h, [Goto(o, h, "untmp") EXCEPT !.to = Newest(Earlier(host[h], script[o][h].from))],
           host[h])

\* The swap, the same in publish.sh and rollback.sh.  What it links to:
Target(o, h) == IF o \in Deployers THEN rel[o] ELSE script[o][h].to

Swapped(o) == IF o \in CleaningRollbacks THEN "forget" ELSE "done"

RemoveTmp(o, h) ==
    /\ At(o, h, "untmp")
    /\ Run(o, h, Goto(o, h, "ln"), [host[h] EXCEPT !.tmp = NoRelease])

\* Somebody else's current.tmp that links to a directory gets the new link INTO
\* that directory.  publish.sh has no `set -e`: when ln fails it goes on.
LinkTmp(o, h) ==
    /\ At(o, h, "ln")
    /\ \/ /\ host[h].tmp = NoRelease
          /\ Run(o, h, Goto(o, h, "mv"), [host[h] EXCEPT !.tmp = Target(o, h)])
       \/ /\ \/ host[h].tmp \in Dirs(host[h])
             \/ o \in Deployers /\ host[h].tmp # NoRelease
             \/ o \in Deployers /\ "fail" \in Faults
          /\ Run(o, h, Goto(o, h, "mv"), host[h])

RenameTmp(o, h) ==
    /\ At(o, h, "mv")
    /\ \/ /\ host[h].tmp # NoRelease
          /\ Run(o, h, Goto(o, h, Swapped(o)),
                 [host[h] EXCEPT !.current = host[h].tmp, !.tmp = NoRelease])
       \/ /\ host[h].tmp = NoRelease \/ "fail" \in Faults
          /\ Run(o, h, Goto(o, h, "unlink"), host[h])

\* The fallback where `mv -T` failed.
Unlink(o, h) ==
    /\ At(o, h, "unlink")
    /\ Run(o, h, Goto(o, h, "move"), [host[h] EXCEPT !.current = NoRelease])

\* Without -T a `current` made meanwhile gets the link INTO its directory.
MoveTmp(o, h) ==
    /\ At(o, h, "move")
    /\ host[h].tmp # NoRelease
    /\ Run(o, h, Goto(o, h, Swapped(o)),
           [host[h] EXCEPT !.current = IF @ \in Dirs(host[h]) THEN @ ELSE host[h].tmp,
                           !.tmp = NoRelease])

\* deploy:rollback --cleanup removes the release it read as the current one.
RemoveFrom(o, h) ==
    /\ At(o, h, "forget")
    /\ \E after \in Removals(host[h], script[o][h].from) :
          Run(o, h, IF script[o][h].from \in Dirs(after) THEN script[o][h] ELSE Goto(o, h, "done"),
              after)

CountReleases(o, h) ==
    /\ At(o, h, "count")
    /\ LET n == Cardinality(Dirs(host[h])) - KeepReleases
       IN  Run(o, h, IF n > 0 THEN [Goto(o, h, "list") EXCEPT !.n = n] ELSE Goto(o, h, "done"),
               host[h])

Listed(o, h, gone) ==
    Run(o, h, [Goto(o, h, IF gone = {} THEN "done" ELSE "prune") EXCEPT !.gone = gone], host[h])

\* Mutant: one release too many is listed.
ListOneMore(o, h) ==
    /\ At(o, h, "list")
    /\ Listed(o, h, Oldest(host[h], script[o][h].n + 1))

\* The oldest names, whatever `current` says and whoever listed meanwhile.
ListOldest(o, h) ==
    /\ At(o, h, "list")
    /\ Listed(o, h, Oldest(host[h], script[o][h].n))

\* One listed release goes; if its rm fails and it is not the last one, the loop
\* goes on (the exit status of the loop is that of its last rm).
Prune(o, h) ==
    /\ At(o, h, "prune")
    /\ LET gone == script[o][h].gone
           r == CHOOSE q \in gone : \A p \in gone : q <= p
           rest == [Goto(o, h, IF gone = {r} THEN "done" ELSE "prune") EXCEPT !.gone = gone \ {r}]
       IN  \/ \E after \in Removals(host[h], r) :
                Run(o, h, IF r \in Dirs(after) THEN script[o][h] ELSE rest, after)
           \/ "fail" \in Faults /\ gone # {r} /\ Run(o, h, rest, host[h])

RemoveLock(o, h) ==
    /\ At(o, h, "rm")
    /\ Run(o, h, Goto(o, h, "done"), [host[h] EXCEPT !.lock = NoOwner])

\* One step of o's command on h.
Works(o, h) ==
    \/ Open(o, h) \/ WriteInfo(o, h) \/ RemoveLock(o, h)
    \/ TestRelease(o, h) \/ MakeRelease(o, h) \/ Unpack(o, h)
    \/ WriteRevision(o, h) \/ LinkShared(o, h)
    \/ ReadCurrent(o, h) \/ FindCurrent(o, h) \/ FindPrevious(o, h)
    \/ RemoveTmp(o, h) \/ LinkTmp(o, h) \/ RenameTmp(o, h) \/ Unlink(o, h) \/ MoveTmp(o, h)
    \/ RemoveFrom(o, h)
    \/ CountReleases(o, h) \/ ListOldest(o, h) \/ Prune(o, h)

\* The script cannot take its next step: it exits non-zero.
Blocked(o, h) ==
    \/ At(o, h, "open") /\ host[h].lock # NoOwner
    \/ At(o, h, "test") /\ rel[o] \in Dirs(host[h])
    \/ (At(o, h, "unpack") \/ At(o, h, "revision")) /\ rel[o] \notin Dirs(host[h])
    \/ At(o, h, "grep") /\ script[o][h].from \notin Dirs(host[h])
    \/ At(o, h, "search") /\ Earlier(host[h], script[o][h].from) = {}
    \/ At(o, h, "ln") /\ o \notin Deployers /\ host[h].tmp \notin Dirs(host[h]) \cup {NoRelease}
    \/ At(o, h, "move") /\ host[h].tmp = NoRelease

-----------------------------------------------------------------------------
(* The process: which hosts it talks to and how it judges their answers.   *)

Running(o) == pc[o] \notin {"idle", "ended", "crashed"}

Live(o) == Targets[o] \ dropped[o]

StepHosts(o) ==
    IF pc[o] \in {"lock", "unlock", "clear"} THEN {Primary(o)}
    ELSE IF pc[o] = "sha" THEN {FirstOf(Live(o))} ELSE Live(o)

\* Built-in steps under `skip` wait for every host, anything else fails fast.
Tolerant(o) == Skip /\ o \in Deployers /\ pc[o] \notin {"lock", "unlock"}

SiblingFailed(o) == ~Tolerant(o) /\ \E g \in Hosts : res[o][g] \in {"failed", "lost", "canceled"}

\* Mutant: the wait counts hosts nothing was sent to.
ReturnedFromAll(o) == res[o] # NoResults /\ \A h \in Hosts : res[o][h] \notin {"idle", "sent"}

Returned(o) == res[o] # NoResults /\ \A h \in Hosts : res[o][h] # "sent"

Bad(o) == {h \in Hosts : res[o][h] \in {"failed", "lost", "canceled"}}

\* Mutant: required hosts and the primary may be dropped too.
DroppableAny(o) == {h \in Hosts : res[o][h] = "lost"}

Droppable(o) == {h \in Hosts : res[o][h] = "lost"} \ MustReach(o)

\* runStep and captureLive under `skip`: only lost, unrequired hosts are
\* forgiven, and not all of them.
Passed(o) ==
    IF Tolerant(o) THEN Bad(o) \subseteq Droppable(o) /\ Live(o) # Bad(o)
                   ELSE Bad(o) = {}

-----------------------------------------------------------------------------
Init ==
    /\ host = [h \in Hosts |->
                  [lock    |-> NoOwner,
                   content |-> (1..InitialReleases) \X Parts,
                   current |-> IF InitialReleases = 0 THEN NoRelease ELSE InitialReleases,
                   tmp     |-> NoRelease]]
    /\ pc = [o \in Operators |-> "idle"]
    /\ res = [o \in Operators |-> NoResults]
    /\ script = [o \in Operators |-> NoScripts]
    /\ locked = [o \in Operators |-> FALSE]
    /\ dropped = [o \in Operators |-> {}]
    /\ canceled = [o \in Operators |-> FALSE]
    /\ rel = [d \in Deployers |-> NoRelease]
    /\ verdict = [o \in Operators |-> "none"]

\* Mutant: the lock step is left out.
StartDeployLockless(d) ==
    /\ pc[d] = "idle"
    /\ \E now \in Seconds : rel' = [rel EXCEPT ![d] = now]
    /\ pc' = [pc EXCEPT ![d] = "check"]
    /\ UNCHANGED <<host, res, script, locked, dropped, canceled, verdict>>

\* Deploy names its release after the second its own machine's clock shows, BEFORE
\* it tries the lock: names of different deploys come in any order, or agree.
StartDeploy(d) ==
    /\ pc[d] = "idle"
    /\ \E now \in Seconds : rel' = [rel EXCEPT ![d] = now]
    /\ pc' = [pc EXCEPT ![d] = "lock"]
    /\ UNCHANGED <<host, res, script, locked, dropped, canceled, verdict>>

\* Rollback looks at no lock.
StartRollback(r) ==
    /\ pc[r] = "idle"
    /\ pc' = [pc EXCEPT ![r] = "rollback"]
    /\ UNCHANGED <<host, res, script, local>>

\* The person, not the code: `deploy:unlock` is documented for stale locks, so
\* it is started only when the lock's owner is gone.  It removes whatever lock
\* it finds later.
LooksStale(h) ==
    /\ host[h].lock # NoOwner
    /\ ~Running(host[h].lock)

StartUnlock(u) ==
    /\ pc[u] = "idle"
    /\ LooksStale(Primary(u))
    /\ pc' = [pc EXCEPT ![u] = "clear"]
    /\ UNCHANGED <<host, res, script, local>>

\* Send the command at pc[o]; a done context sends nothing.  The deferred unlock
\* runs on a context detached from the cancellation.
Send(o) ==
    /\ pc[o] \in Commands
    /\ res[o] = NoResults
    /\ LET sent == IF canceled[o] /\ pc[o] # "unlock" THEN {} ELSE StepHosts(o)
       IN  /\ res' = [res EXCEPT ![o] = [h \in Hosts |->
                     IF h \in sent THEN "sent" ELSE IF h \in StepHosts(o) THEN "canceled" ELSE "idle"]]
           /\ script' = [script EXCEPT ![o] = [h \in Hosts |->
                     IF h \in sent THEN [NoScript EXCEPT !.at = Begin(pc[o])] ELSE NoScript]]
    /\ UNCHANGED <<host, pc, local>>

\* What o learns of its command on h; by then the command is over there.
Reply(o, h, result) ==
    /\ res[o][h] = "sent"
    /\ res' = [res EXCEPT ![o][h] = result]
    /\ script' = [script EXCEPT ![o][h] = NoScript]
    /\ UNCHANGED <<host, pc, local>>

Succeeds(o, h) == At(o, h, "done") /\ Reply(o, h, "ok")

\* A step of the script exits non-zero: its own condition is not met, or the host
\* is out of disk, of memory, of luck.  `rm -f` of a lock does not fail.
Fails(o, h) ==
    /\ Blocked(o, h) \/ ("fail" \in Faults /\ pc[o] \notin {"unlock", "clear"})
    /\ Reply(o, h, "failed")

\* No connection, or it died under the command: nobody knows how far it came.
Loses(o, h) == "lost" \in Faults /\ Reply(o, h, "lost")

\* The context is done (a signal, or a fail-fast sibling): the client kills the
\* session and returns at once, wherever the script is.  A dial that timed out is
\* reported the same way, and the deferred unlock has 30 seconds for all of it.
Abandons(o, h) ==
    /\ \/ canceled[o] /\ pc[o] # "unlock"
       \/ SiblingFailed(o)
       \/ "timeout" \in Faults /\ (script[o][h].at = Begin(pc[o]) \/ pc[o] = "unlock")
    /\ Reply(o, h, "canceled")

Answers(o, h) == Succeeds(o, h) \/ Fails(o, h) \/ Loses(o, h) \/ Abandons(o, h)

\* Every host answered and the step passed.
Advance(o) ==
    /\ pc[o] \in Commands \ {"unlock"}
    /\ Returned(o)
    /\ Passed(o)
    /\ dropped' = [dropped EXCEPT ![o] = @ \cup Bad(o)]
    /\ locked' = [locked EXCEPT ![o] = @ \/ pc[o] = "lock"]
    \* captureLive asks the next host when it dropped the one it asked
    /\ pc' = [pc EXCEPT ![o] = IF pc[o] = "sha" /\ Bad(o) # {} THEN "sha" ELSE Following[@]]
    /\ verdict' = [verdict EXCEPT ![o] = IF Following[pc[o]] = "ended" THEN "ok" ELSE @]
    /\ res' = [res EXCEPT ![o] = NoResults]
    /\ UNCHANGED <<host, script, canceled, rel>>

\* A failed deploy still notifies and unlocks; a failed rollback or unlock is over.
Failed(o) ==
    /\ verdict' = [verdict EXCEPT ![o] = "failed"]
    /\ pc' = [pc EXCEPT ![o] = IF o \in Deployers THEN "notify" ELSE "ended"]
    /\ res' = [res EXCEPT ![o] = NoResults]
    /\ UNCHANGED <<host, script, locked, dropped, canceled, rel>>

StopStep(o) ==
    /\ pc[o] \in Commands \ {"unlock"}
    /\ Returned(o)
    /\ ~Passed(o)
    /\ Failed(o)

\* Between two phases run the hooks of both and the marker phases.
AtHooks(o) ==
    /\ pc[o] \in {"lock", "check", "mirror", "link", "publish", "log", "finished", "rollback"}
    /\ res[o] = NoResults

HookFails(o) ==
    /\ "fail" \in Faults \/ canceled[o]
    /\ AtHooks(o)
    /\ Failed(o)

\* A hook task drops a lost host for the rest of the deploy.
HookDrops(d, h) ==
    /\ Skip /\ "lost" \in Faults
    /\ AtHooks(d)
    /\ h \notin MustReach(d) \cup dropped[d]
    /\ dropped' = [dropped EXCEPT ![d] = @ \cup {h}]
    /\ UNCHANGED <<host, pc, res, script, locked, canceled, rel, verdict>>

\* Mutant: only a failed deploy unlocks.
FinishLocked(o) ==
    /\ pc[o] = "finished"
    /\ verdict' = [verdict EXCEPT ![o] = IF dropped[o] = {} THEN "ok" ELSE "skipped"]
    /\ pc' = [pc EXCEPT ![o] = "ended"]
    /\ UNCHANGED <<host, res, script, locked, dropped, canceled, rel>>

\* The end of the lifecycle (and of a rollback): skipped hosts make a non-zero
\* exit, not a failure.
Finish(o) ==
    /\ pc[o] = "finished"
    /\ verdict' = [verdict EXCEPT ![o] = IF dropped[o] = {} THEN "ok" ELSE "skipped"]
    /\ pc' = [pc EXCEPT ![o] = IF locked[o] THEN "unlock" ELSE "ended"]
    /\ UNCHANGED <<host, res, script, locked, dropped, canceled, rel>>

\* Mutant: a deploy that never had the lock gives it up too.
NotifiedUnlocking(d) ==
    /\ pc[d] = "notify"
    /\ pc' = [pc EXCEPT ![d] = "unlock"]
    /\ UNCHANGED <<host, res, script, local>>

\* The deploy:failed hooks ran; only an acquired lock is given up.
Notified(d) ==
    /\ pc[d] = "notify"
    /\ pc' = [pc EXCEPT ![d] = IF locked[d] THEN "unlock" ELSE "ended"]
    /\ UNCHANGED <<host, res, script, local>>

\* A failed unlock is only warned about.
Unlocked(d) ==
    /\ pc[d] = "unlock"
    /\ Returned(d)
    /\ pc' = [pc EXCEPT ![d] = "ended"]
    /\ res' = [res EXCEPT ![d] = NoResults]
    /\ UNCHANGED <<host, script, local>>

Cancel(o) ==
    /\ "cancel" \in Faults
    /\ Running(o) /\ ~canceled[o]
    /\ canceled' = [canceled EXCEPT ![o] = TRUE]
    /\ UNCHANGED <<host, pc, res, script, locked, dropped, rel, verdict>>

\* The process is gone, and every script it had sent stops where it is.
Crash(o) ==
    /\ "crash" \in Faults
    /\ Running(o)
    /\ pc' = [pc EXCEPT ![o] = "crashed"]
    /\ res' = [res EXCEPT ![o] = NoResults]
    /\ script' = [script EXCEPT ![o] = NoScripts]
    /\ UNCHANGED <<host, local>>

Proceed(o) ==
    \/ Send(o) \/ Advance(o) \/ StopStep(o)
    \/ \E h \in Hosts : Works(o, h) \/ Answers(o, h)
    \/ Finish(o) \/ Notified(o) \/ Unlocked(o)

Next ==
    \/ \E d \in Deployers : StartDeploy(d)
    \/ \E d \in Deployers, h \in Hosts : HookDrops(d, h)
    \/ \E r \in Rollbackers : StartRollback(r)
    \/ \E u \in Unlockers : StartUnlock(u)
    \/ \E o \in Operators : Proceed(o) \/ HookFails(o) \/ Cancel(o) \/ Crash(o)

Spec == Init /\ [][Next]_vars

\* A started command is driven on by its own goroutines, and every remote command
\* ends or loses its connection (keepalive).  Nothing makes a person start one.
FairSpec == Spec /\ \A o \in Operators : WF_vars(Proceed(o))

-----------------------------------------------------------------------------
(* What must be true.                                                      *)

\* Every variable keeps its type (deploy.go:40-52, 171; targets.go:15-29).
TypeOK ==
    /\ host \in [Hosts -> HostState]
    /\ pc \in [Operators -> Commands \cup {"idle", "finished", "notify", "ended", "crashed"}]
    /\ res \in [Operators -> [Hosts -> Results]]
    /\ script \in [Operators -> [Hosts -> Scripts]]
    /\ locked \in [Operators -> BOOLEAN]
    /\ dropped \in [Operators -> SUBSET Hosts]
    /\ canceled \in [Operators -> BOOLEAN]
    /\ rel \in [Deployers -> Nat \cup {NoRelease}]
    /\ verdict \in [Operators -> {"none", "ok", "skipped", "failed"}]

\* d has the lock and has not begun to give it up.
Inside(d) == locked[d] /\ pc[d] \notin {"unlock", "ended", "crashed"}

\* Two deploys whose filters leave them the same primary are never inside at the
\* same time (deploy.go:169-191, lock.sh.tmpl), whoever crashes or clears a
\* stale lock.
MutualExclusion ==
    \A d, e \in Deployers :
        Inside(d) /\ Inside(e) /\ Primary(d) = Primary(e) => d = e

\* The lock file names a deploy for as long as that deploy is inside: nobody's
\* deferred unlock or `deploy:unlock` takes it away (deploy.go:172-181, 459-474).
LockHeld == \A d \in Deployers : Inside(d) => host[Primary(d)].lock = d

\* o's lock command has created the lock file, and goes on.
Opened(o) == res[o][Primary(o)] = "ok" \/ \E p \in {"write", "done"} : At(o, Primary(o), p)

\* o's command that removes the lock has yet to do it.
Removing(o) == res[o][Primary(o)] = "idle" \/ At(o, Primary(o), "rm")

\* d's lock file is on its primary: from the redirect that created it until the
\* command that removes it has run.
Owns(d) ==
    \/ pc[d] = "lock" /\ Opened(d)
    \/ Inside(d)
    \/ pc[d] = "unlock" /\ Removing(d)

\* u's removal of the lock may still come.
Clearing(u) == pc[u] = "clear" /\ Removing(u)

\* Why LockHeld and MutualExclusion hold, as an inductive invariant: a lock file
\* that must not go belongs to a running deploy, one that is about to be cleared
\* does not, and it stays so until the removal, because no deploy takes a lock
\* that exists and none that is over comes back (deploy.go:169-191, 459-474).
LockInv ==
    /\ \A d \in Deployers : Owns(d) => host[Primary(d)].lock = d
    /\ \A u \in Unlockers : Clearing(u) => LooksStale(Primary(u))
    /\ \A h \in Hosts, d \in Deployers : host[h].lock = d => pc[d] # "idle"

\* Two deploys that share a host are never inside at the same time
\* (docs/content/en/usage/_index.md:226).
OneDeployPerHost ==
    \A d, e \in Deployers :
        Inside(d) /\ Inside(e) /\ Targets[d] \cap Targets[e] # {} => d = e

\* A deploy that was told it has the lock leaves none behind when it returns,
\* whatever failed in between (deploy.go:170-189).  One whose lock command made the
\* file and did not report it does leave it: see NoLockStranded.
NoLockLeft ==
    \A d \in Deployers : pc[d] = "ended" /\ locked[d] => host[Primary(d)].lock # d

\* A deploy that returned left no lock of its own behind (deploy.go:172-181).
NoLockStranded ==
    \A d \in Deployers : pc[d] = "ended" => host[Primary(d)].lock # d

\* `current` names a directory that exists and was built to its end, on every
\* host, at every moment: while hosts fail, releases are pruned, deploys queue and
\* the clocks that name them disagree, so that a later deploy has an earlier name.
\* (Where there is no `current` at all, between the two halves of the fallback and
\* after one that died there, there is nothing to be complete: see LinkKept.)
LiveReleaseComplete ==
    \A h \in Hosts : host[h].current # NoRelease => Complete(host[h], host[h].current)

\* `current` names a directory that exists, also while rollbacks, which take no
\* lock, run across a deploy and its pruning (deploy.go:424-446, cleanup.sh.tmpl).
LiveReleaseExists ==
    \A h \in Hosts : host[h].current # NoRelease => host[h].current \in Dirs(host[h])

\* A host that has a `current` never goes without: the swap is atomic
\* (docs/content/en/overview/_index.md:60).
LinkKept ==
    InitialReleases > 0 => \A h \in Hosts : host[h].current # NoRelease

\* No host is swapped before every live host's release is complete: the phases
\* are barriers (docs/content/en/usage/_index.md:165, deploy.go:234-241).
PublishBarrier ==
    \A d \in Deployers :
        pc[d] = "publish" => \A h \in Live(d) : Complete(host[h], rel[d])

\* A deploy that reports success runs on all its hosts; one that reports skipped
\* hosts runs on all the others, the required ones and the primary among them
\* (deploy.go:279-289, 364-368).
SuccessMeansLive ==
    [][\A d \in Deployers :
          verdict[d] = "none" /\ verdict'[d] \in {"ok", "skipped"} =>
              \A h \in IF verdict'[d] = "ok" THEN Targets[d]
                       ELSE Live(d) \cup (MustReach(d) \cap Targets[d]) :
                  host[h].current = rel[d]]_vars

\* A started command returns, whatever fails under it (deploy.go:254-289).
CommandsEnd == \A o \in Operators : Running(o) ~> ~Running(o)

\* The stage as its operators see it; see ReleaseStage.
Stage == INSTANCE ReleaseStage WITH
    inside <- {d \in Deployers : Inside(d)},
    name   <- rel,
    live   <- [h \in Hosts |-> host[h].current]

\* Deploys that share a primary, with no rollback among them, implement a stage.
ImplementsStage == Stage!StageSpec

=============================================================================
