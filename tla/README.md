# whoosh: verification project

whoosh is a deployment tool: one process on the operator's machine connects to the hosts of a
stage over SSH, builds a release directory on each and swaps the `current` link. This directory
holds TLA+ models of it, translated from the Go code and the shell templates, the TLC
configurations that check them on small instances, and TLAPS proofs for every value of the
constants. Paths below are relative to the repository (`internal/...`, `transport/...`).

To check a run: `tlc -workers 2 -config DeployAbort.cfg MCDeploy.tla`; to check the proofs of a
module: `tlapm DeployProofs.tla`. `PROJECT.json` lists the runs, what each checks, the mutants that
show every property can fail, the lines every definition stands for, and the hazards.

## 1. Inventory

| Component | State | Operations | What is hard, and what makes it correct |
|---|---|---|---|
| Deploy lifecycle (`internal/deploy`) | a lock file on the primary host, `locked`, the release named, the phase; per host: release directories, `current`, `current.tmp` | `deploy`, `deploy:rollback`, `deploy:unlock`, `deploy:check`, `releases` | several processes at once, crashes, Ctrl-C, half-done scripts: the lock excludes and is given up; what is live is whole; the verdict tells the truth |
| Host scripts (`deploy/templates`, `deploy/scm/templates`) | the host's file system | lock, unlock, create release, link, publish, log, cleanup, rollback | stop on any line, on a full disk too; interleave with another process's scripts, line by line |
| Deploy hooks (`deploy/hooks`) | the registered hooks | Before, After, NotifyFailed | a failing hook stops the deploy, deploy:failed hooks run once and on a live context |
| Runner fan-out (`internal/runner/runner.go`) | results, a semaphore, a fail-fast context | Fanout | goroutines, slots, cancellation: it returns, and the failure reported is a host's own |
| Connection pool (`runner/cluster.go`) | entries by key, each with its `sync.Once` | Run, Capture, conn, Close | two goroutines dial or wait for one entry, aborted dials are forgotten: nothing leaks, no fan-out inherits an abort |
| Bastion (`transport/ssh/bastion.go`) | the jump host's connection per host-key mode, a mutex | connect, dialThrough, Close | every dial waits for the mutex; failures are cached, aborts are not; verification is never weakened |
| SSH client (`transport/ssh/client.go`) | one connection, its keepalive misses, its goroutines | Dial, Run, keepalive, Close | a watchdog races the handshake, a context a command's end; the peer dies silently: a dial leaves nothing behind, a Run returns |
| Keyring, known_hosts (`transport/ssh/keyring.go`, `client.go:488-645`) | keys, the known_hosts file, what this process recorded | NewAgent, accept-new | snapshots of the file grow old while several first contacts append, and an append may fail half way: one key is trusted |
| Local transport (`internal/transport/local`) | none | Run | none |
| Task executor (`internal/executor`) | the base context, the cached contexts, log task, output sink | RunTask, RunTaskInPhase, the four bodies, setters | recursion through hooks and dependencies, cycles, state to put back, stale caches |
| Unreachable policy (`executor/targets.go`) | the dropped hosts, required hosts | SkipUnreachable, dropUnreachable, targetsForTask | which failures are forgiven, and that a dropped host stays dropped |
| Output, echo (`runner/output.go`, `executor/logging.go`) | partial lines per stream and host, a mutex | Write, Flush, the sink of silent tasks | lines from many goroutines, two streams per command, and from commands nobody waits for any more; a line longer than the buffer: every line whole, once, under its label |
| Masking (`internal/masking`) | the secret values, a held-back line | Add, Writer | a secret cut in two by chunking, one secret inside another |
| Logger (`internal/logger`) | the log file | records | layout only; its files are replaced during the load |
| Deployfile (`internal/deployfile`) | the merged configuration | load, merge, defaults, validate, task discovery | includes that meet again, circles, fallbacks: merged once, in order, and discovery agrees with the run |
| Host filters (`deployfile/ast/filters.go`) | none | by role, address, flag; PickPrimary | the primary depends on the filters |
| Paths, operator, shell templates | none | layouts, quoting | wording |
| Typed errors (`internal/errors`) | none | categories, exit codes | which category wins |
| CLI (`internal/cli`) | the configuration being resolved, the open log files, the root context | loadConfig, commands, signals | the order of defaults, rendering, plugins and checks; first signal cancels, second kills |
| Plugin registry (`internal/plugins`) | registered actions and hooks | setup, lookup, startup hooks | order of setup, what is contributed after a check |
| Builder (`internal/builder`) | none | generate, compile | I/O |
| AWS EC2 (`plugins/aws/ec2`) | images, launch template versions, refreshes, all at AWS | create, cleanup, refresh, rollback, inventory | nothing locks them, every call may be lost: what a version holds can be launched, the live image stays |
| AWS credentials, secrets (`plugins/aws`) | cached credentials, the set being fetched | resolve, fetch, import, dotenv | expiry, bounded parallel fetches, a first failure: sets are whole or refused |
| Slack, rbenv, systemd, host table, variable templates, SDK | little | messages, generated tasks, printing | order at startup |

How they interact: the CLI resolves the configuration (Deployfile, plugins, secrets), then builds
an Executor and a Deployer; the Deployer sends every built-in command through
`Executor.RunOn`/`RunOnReport` and every hook through `RunTaskInPhase`; the Executor sends commands
through `Cluster.Run`/`Capture`; the Cluster fans out over goroutines, each asking the pool for a
connection, which dials through the Bastion and writes its output through the line writers and the
masker. Results travel back as one list; a policy (`firstError` or `SkipUnreachable`) turns them
into an error and a set of dropped hosts. The processes of several operators share nothing but the
hosts' file systems and the resources at AWS.

## 2. Modules

    ReleaseStage  <--implements-- Deploy          MCDeploy,      DeployProofs
    Step          <--implements-- Fanout          MCFanout,      FanoutProofs
                                  Connections     MCConnections, ConnectionsProofs
                                  SSHClient       MCSSHClient,   SSHClientProofs
                                  TaskRun         MCTaskRun,     TaskRunProofs
                                  Output          MCOutput,      OutputProofs
                                  Deployfile      MCDeployfile,  StartupProofs
    Secrets       <---EXTENDS---- Startup         MCStartup,     StartupProofs
                                  EC2             MCEC2,         EC2Proofs

Two abstract specifications say what a component promises: **ReleaseStage** (at most one deploy is
inside a stage; `current` moves only then and only to that deploy's release) and **Step** (one
command on many hosts: an answer per host, a judgement by the set of bad answers alone). The process
models sit at levels, each using the promise of the one below: Deploy and TaskRun send commands by
the rules of Step, Fanout shows the goroutines keep them, Connections shows what the dials of a
fan-out share, SSHClient opens one of these dials up. Deployfile ends with the merged file Startup
begins with; Startup composes the load with the fetches of Secrets, which are its steps when the aws
plugin is configured, when its startup hook runs and when a task asks for an env file. EC2 has one
process per operator.

### Deploy (`internal/deploy`, its templates, `cli/root.go`)

State: `host[h]` (lock file, the parts of each release directory that exist, the targets of `current`
and `current.tmp`), and per process `pc`, `res` (what it knows of the command under way on each host),
`script` (the line that command is at on each host, and its shell variables), `locked`, `dropped`,
`canceled`, `rel`, `verdict`. One action starts each command (`StartDeploy`, `StartRollback`,
`StartUnlock`); `Send` sends a script to the hosts; then every line of it that reads or writes the
host's files is an action: `Open`, `WriteInfo` (lock.sh), `TestRelease`, `MakeRelease`, `Unpack`
(create_release.sh), `WriteRevision`, `LinkShared`, `RemoveTmp`, `LinkTmp`, `RenameTmp`, `Unlink`,
`MoveTmp` (the swap, in publish.sh and rollback.sh), `ReadCurrent`, `FindCurrent`, `FindPrevious`,
`RemoveFrom` (rollback.sh), `CountReleases`, `ListOldest`, `Prune` (cleanup.sh), `RemoveLock`
(unlock.sh). Between any two of them another process's script may take a step. `Succeeds`, `Fails`,
`Loses`, `Abandons` are how a command ends for the process that sent it, on whatever line the script
is by then; `Advance`, `Failed`, `StopStep` are the caller's judgement (`runStep`, `captureLive`);
`AtHooks`, `HookFails`, `HookDrops` stand between phases; `Finish`, `Notified`, `Unlocked` are the
verdict, the deploy:failed hooks and the deferred unlock; `Cancel` and `Crash` are the two signals.

A lock file is there from the redirect on, also when printf, the answer or the signal after it goes
wrong. A release is named by `Seconds`, whatever the clock of that machine shows: names come in any
order, may agree, and may be older than what the hosts hold. `ln -s` onto another's `current.tmp` that
points to a directory links into that directory; publish.sh, which has no `set -e`, goes on after a
failed `ln`, rollback.sh does not; `mv -T` fails when `current.tmp` is gone (or, with fault "fail", where
mv has no -T), and then comes the fallback in its two halves.

Abstractions. A script is not ahead of its sender: when the process has an answer, or has given up
waiting, the script takes no further step (one that outlives the wait is listed as a hazard and
planned). A line is one step but for `rm -rf` and symlink_shared.sh, which may be seen half done; a single
`mv`, `ln`, `rm -f` is atomic. `rm -f` of the lock does not fail on a host that answers. The
operator decides that a lock looks stale only when its owner is over (`LooksStale`, external). A dial
that times out is answered "canceled", as Fanout shows the policy takes it.

### Fanout and Step (`runner.go`, `cluster.go`, `targets.go`)

State: the loop index, a state per goroutine, free slots, the two contexts, results, and the
judgement. Actions follow `Fanout` statement by statement where order matters: `Spawn` takes a slot,
`Enter` looks at the context, `Connects`/`DialFails`/`RunEnds` write the result, `CancelRest` comes
after the result, `Leave` frees the slot; `Judge` runs when all are gone. The mapping to Step hides
the pool: a host has answered when its result is written.

### Connections (`cluster.go`, `bastion.go`, `client.go`)

State: the pool and every entry and client ever made (so that a leak is visible), the jump host's
two slots and mutex, where each worker is. In each round (a fan-out) every worker asks for one
connection: `Lookup`, `Once` (dial or wait), `TakeBastion`, `Jump`, `Through`, `Connect`,
`Handshake`, `EndDial`, `Check` (drop an aborted entry). `ClientEnds`, `JumpEnds` are connections
dying; `CloseAll` runs when all workers are back. Authentication and agent forwarding are a failed
handshake; a local target dials nothing. A pooled connection that has ended is reused, as in the code.

### SSHClient (`transport/ssh/client.go`, `keyring.go`)

State: the options of the run, the lines known_hosts has for the address (any number, also of keys
the machines no longer have) and the key this process recorded (`acceptNewMu.recorded`), who holds that mutex, and per dial its place, its snapshot of the
file, the key it saw, what it has open, its keepalive loop with the goroutines `ping` left waiting,
and one Run. `BeginDial` is `authMethods` and `hostKeyCallback` (which identities give a key, which
are refused, which socket is opened; the file is read once, here); `Connect`; `Present`, `Lock`,
`AppendLine`, `Record` are the host-key callback; `HandshakeEnds`, `DialEnds` the rest of Dial with
its watchdog (`WatchdogFires`) and `setupForwarding`; `Tick`, `PingAnswered`, `PingMissed`,
`PingCalledOff`, `LoopStops`, `EndSpreads` keepalive; `BeginRun` to `RunAbandons` one command; `Close`.
A failed write of a first contact's line leaves nothing, the line or a part of it (`Torn`); a dial that reads a
part of a line is refused by the parser, and what is appended to a part is a part too (a line that only
lacks its newline counts as a part: the next line would join it). Nothing of a failed write is recorded.
x/crypto is external: requests with a reply are sent one at a time and answered in order. The
machines behind the address may differ, and may vanish without a word (`Vanish`). A machine
presents one key of each type, as sshd does.

### TaskRun (`internal/executor`)

State: Go's call stack of `runTask` frames and the map passed down it, the error on its way up, the
command under way, and the Executor's fields `logTask`, `capture`, `base`, `ctxCache`,
`unreachable`. `StartRun` is `RunTask` or `RunTaskInPhase`; `CallNext` calls the next hook or
dependency; `Dispatch` starts the body and resolves its hosts; `Send`/`Judge` are one command and
its verdict by kind of body; `SendNowhere`, `RenderFails`, `Finish` are the other ways on; `Return`
is every `return` with its deferred calls. The hosts a body is sent to are a set, kept in the order
of the inventory: `First` is the one a query goes to. `Reached`, the tasks a run comes to, is the
least set closed under hooks and dependencies. A process is a task command (one run, then deploy:failed
hooks) or a deploy (hooks, with values set between them). Left out: what a template renders to,
dry-run, echo; `only`/`except` and skipped plugins are one flag; the tasks named exist (the
validation of the Deployfile sees to it). An action "runs commands" or "queries one host"; the
directory it may render per host when it writes a file is not modelled.

### Output (`runner/output.go`, `runner/cluster.go`, `executor/logging.go`, `masking`)

State: the two line writers of a command per host, stdout's and stderr's under one label (`Writers`), with
their partial lines, the console and what the
masker holds back, the sink of a silent task. Bytes are members of a small alphabet that can form a
secret, a secret inside another, and a line end. Commands write in chunks of any size on either stream, also after
they were abandoned (`RunReturns` while a copy is still in `Write`); stderr's writer is flushed before
stdout's, as the deferred calls run; a writer emits whole lines, cuts one at its buffer's limit and flushes the
rest at the end; a log record takes the line instead when one is configured. The buffer limit and
the shortest secret that is masked are constants (the code: 64 KiB and 4 bytes). `AddSecret` registers
a value and its long enough lines, `Masked` is the replacer: value by value, the longest first,
without overlap. `Promised` says what may never be shown: every value and every line of one.

### Deployfile (`deployfile`, `deployfile/ast/merge.go`, `deployfile/tasks.go`)

State: the call stack of `resolveIncludes`, the files visited on the way (the circle check) and
merged so far, and the result. `ResolveIncludes` is a call up to its loop: it reads the file, and fails,
returns or goes into the first include; `Iterate` goes to the next one or merges the file over
what came back; a stage file is looked for at its places in order (`FindStage`); task discovery
resolves again without validation, with its own fallback (`Discover`). A file is which of two fields it sets and which
files it includes, missing or broken. Every graph of includes within the bounds is enumerated.

### Secrets and Startup (`cli/root.go`, `plugins`, `plugins/aws`, `logging.go`)

Startup is `loadConfig`, one action per step of `Order`: logging from the flags, `Load` (defaults and
validation), logging again from the file, `Render` (passphrases become values the masker knows),
`Select` (the plugins of the stage), `Configure` (each plugin, with its actions and startup hooks),
the startup hooks in the order of registration (`AppendHosts`, `ImportSecrets`, `AddTask`,
`PrintInstalled`), `DefaultsAgain`, `ValidateHooks`. Plugins are known by their places in the
list; `Fresh` picks what a listing adds, which is
appended in any order: with `resolve_config_hosts` it leaves out what declared names resolve to, but for
lookups that fail, which only warn (`warned`). `AddTask` adds each hook that the actions of a
systemd or rbenv entry ask for (`HooksOf`): before or after, none for a systemd action without a phase,
rbenv's own phase if it names none. The
configurations it starts from are constants; that a discovered host's address is an IP address, which
resolves to nothing (`inventory.go` refuses others), is an assumption on them.
Secrets is what the aws plugin fetches: `Resolve` and `AskMetadata` for credentials, `List`, `Acquire`,
`GetValue`, `Gather` for a set of secrets with bounded concurrency, `Import` key by key, `RunDotenv`
and `WriteFile` for an env file. Time is a number of periods; credentials expire, and the SDK's cache
(external) asks the provider again then. What a secret's value is is left out: the property is which
secret is behind which key. The names of a path are given in the order they are imported in, which for ssm
is that of the names (`ssm/store.go:215`). A failed write of the env file leaves no file in the model; what the
code's may leave is covered by no property. A secret is known by its place, the prefix and where the listing has it,
which decides who wins when two have one key.

### EC2 (`plugins/aws/ec2`)

State: every image with its snapshots, every version of the launch template with its default, every
instance refresh, and the place of each operator's process. `CreateImage`, `PollImage`, `WaitStops`,
`PatchTemplate`, `SetDefault` are `ami:create`; `ListImages`, `Deregister`, `DeleteSnapshots` are
`ami:cleanup`; `ListVersions`, `CopyPrevious`, `StartRefresh`, `CancelRefresh`, `Settle`, `Await` are
`asg:rollback` and `asg:refresh`. AWS is the environment: it bakes images and ends refreshes
(`Bake`, `RefreshEnds`). Every call may fail without effect, or take effect and lose its answer.

## 3. Runs

| Run | Instance | Question |
|---|---|---|
| `deploys_abort` | 2 hosts, 2 deploys (one with `--host h2`, both on the primary h2), 1 `deploy:unlock`; commands fail on any line, processes die; clocks that agree, or name the second deploy's release before the first's | does the lock exclude, is it held while inside and given up after; is what is live whole; is this a ReleaseStage |
| `deploy_skip` | 3 hosts (a primary, a required one, one that may go), 1 deploy, every fault but a crash | are phases barriers for the hosts left, and is the verdict true after drops, does every command return |
| `rollback_race` | 1 host, 3 releases, 3 kept, a deploy, a rollback `--cleanup` (no lock), every fault | can `current` dangle |
| `fanout` | 3 hosts, 2 slots, all three policies, every fault | does the pool implement Step, return, and blame the right host |
| `connections` | 2 workers, 1 host with and without verification, a jump host, 2 fan-outs, every fault | leaks, inherited aborts, lost verification, a stuck mutex |
| `task_runs` | 3 tasks; every graph of at most two dependencies and one after hook per task, gated or not; six Deployfiles with every kind of body on 3 hosts, skip and abort, 2 commands per task, every fault; 2 runs | are cycles found and only cycles; do failures surface; do dropped hosts stay out; are contexts fresh; is everything put back; do runs return |
| `ssh_client` | 2 dials of one address, 2 machines behind it (one with two key types), 9 configurations of keys, verification and forwarding, 5 contents of known_hosts (none, one, two keys, a stale one), 2 misses of keepalive, one client followed with one command | do dials leave anything behind; is one key trusted on first use; is a known machine refused; does a Run return from a dead host |
| `output` | 2 hosts (symmetric) with two streams each; 1 round of 4 writes, or 2 rounds of 2 writes in all; 2 texts that split lines and a secret and return the carriage, lines of at most 6 bytes, secrets of at least 2, raw and as records, silent or not | is every line whole, once and under its label, also beside late writes, replays and full buffers; does a secret show |
| `deployfile` | a root file, 2 places for the stage file, 2 fragments (symmetric); 2 includes in the root and stage files, 1 in a fragment; files missing or broken | is each file merged once and in order, are only circles refused, does discovery agree |
| `startup` | 11 configurations with all plugins, host table and systemd by default, hooks before and after, at several phases or none, lookups on or off and failing, credentials static or of a host that last 1 of 2 periods, 2 places for fetchers, up to 2 listed instances, every failure and Ctrl-C | are hosts ready and hooks alive after the load; are sets whole; do fetches end |
| `ec2` | a creator that patches with `wait: false`, a cleanup with `keep_last: 0` (3), a refresh and a rollback with `set_default`, 3 images, every fault | can a version hold an unfinished image; is the live image kept; is a rollback's refresh its own; do actions end |
| `fanout_timeout` | 2 hosts, one required, no limit on goroutines, connect timeouts only, under skip | a comment the code does not keep: see section 5 |

The bounds. Two deploys and one unlocker are enough for the lock because a violation needs a holder,
a contender and somebody who clears; the theorems of section 4 remove this bound. Three hosts give a
bystander, a culprit and one that matters to the policy; two slots for three hosts make the
semaphore block. Two fan-outs let the second meet what the first left in the pool. Three tasks and
depth three let a cycle close over a hook, a dependency and both, and a task be shared without
one; two commands tell the last from the others; two runs show what one leaves to the next.
Two dials are enough for a first contact to meet another's; two misses tell the first from the last.
Four writes on four streams put another host's or the other stream's text between two halves of a line;
two rounds of output let what a command printed late meet the next command. `MaxWrites` bounds the
writes up to each round, `<<4, 2>>` here, and a round starts only when the bound leaves a write for it:
four writes over two rounds do not fit. Two fragments make the
shortest circle and the shortest include that is met twice (a diamond over root and stage). Three
secrets for two places block a fetcher; one period of life in two lets credentials expire between
any two calls. Each EC2 action once is every pair of operators at once. Three releases are kept
in `rollback_race`: rollback.sh reads `current` and the listing before it swaps, so with two kept a deploy's
publish and cleanup in between remove what it then links to, and TLC finds `current` dangling whatever
was there at the start. Two deploys and a rollback, too large for this run,
hold with four. One host is enough there, as the scripts of different hosts share nothing.
`deploy_skip` names one clock value and the two deploys of `deploys_abort` two: earlier than the initial releases is
`DeployClock.cfg`. `output` and `deployfile` use symmetry, of
hosts and of fragments, which nothing in them tells apart; they check invariants only.
`CHECK_DEADLOCK FALSE` stands where commands are finite in number and the system stops when all are
over.

Fairness. Deploy: weak fairness of each process's own steps; every remote command ends, by itself,
by keepalive (`client.go:216`) or by its context, and nothing is assumed of signals, failures or
crashes. Fanout: weak fairness of the loop, of each goroutine and of the judgement (the Go
scheduler). Connections: weak fairness of each worker: dials and handshakes end by `ConnectTimeout`,
a mutex waiter gets its turn (Go's mutex does not starve waiters). TaskRun: weak fairness of the one
goroutine. SSHClient: timers fire and goroutines run (weak fairness of dialing, ticks, pings and
the command); a `select` with two ready cases takes each in the end (strong fairness of `LoopStops`,
which a tick may beat any number of times); nobody has to run or close. EC2: polls go on (weak fairness of each
process) and AWS takes a refresh to an end; an image may stay pending for ever. Startup: weak fairness
of the one goroutine and of the fetchers, whose calls are answered or fail by the timeouts of the SDK,
curl and the credentials URL.

## 4. Proofs

All from the named assumptions on the constants (`DeployAssumption`, `FanoutAssumption`,
`TaskRunAssumption`, `ConnectionsAssumption`, `SSHClientAssumption`, `EC2Assumption`,
`SecretsAssumption`, `DeployfileAssumption`, `StartupAssumption`, `AddressAssumption`,
`FilesAssumption`, `OutputAssumption`): the shapes of the constants, with no bound on their size. These go beyond
types. `DeployAssumption`: every deploy-enabled host is in the inventory, once at least, and every
invocation's filters leave a host. `FanoutAssumption`, `TaskRunAssumption`, `ConnectionsAssumption`: as they read.
`EC2Assumption`: an operator who rolls back does nothing else in that process.
`SSHClientAssumption`: a machine has one key of a type, and a part of a line is no key; known_hosts may hold any
number of keys at the start, but no part of a line. `AddressAssumption`: what EC2 lists is addresses, not
names. `FilesAssumption`: the places of a stage file are different files, none of them the Deployfile
(`stagePath` builds their names). `OutputAssumption`: as it reads. What a theorem assumes in addition it names in its
`ASSUME`, and it is explained here: `LoneUnlocker`, `OnePrimary`, no rollback, `AnswersArrive`,
`FewOvertake`, `ClocksAhead` (DeployProofs), `FewCreators` (EC2Proofs), `ClearNames` (StartupProofs) and
`ApartFromOutput` (OutputProofs).

* **DeployProofs**
  * `TypeCorrect`: `Spec => []TypeOK`. `TypeInv` adds which commands an operator of each kind may be at
    (`Roles`) and which lines a command's script has (`Scripted`).
  * `LockKept`, `DeploysExclude`: `LockHeld` and `MutualExclusion`, for any hosts, deploys,
    rollbacks, filters and faults, crashes included, when no two unlockers work on the same primary
    (`LoneUnlocker`; two of them are a real hole: the second `rm -f` removes a lock taken in
    between). Neither property is inductive. `LockInv` adds why they hold: the lock file names its
    owner from the redirect that creates it until the removal has run; a removal by an unlocker
    under way only meets a lock whose owner is over; no deploy that has not started owns a lock. It
    needs `Shape`: replies exist only while a command is out, a lock or unlock command is out on
    the primary alone, `locked` is set by the answer only. The argument is in two layers: each
    action is shown to fulfil a `Contract` (what it may do to lock files, `pc` and its own
    replies); the invariant is preserved by any step that fulfils it.
  * `LocksGivenUp`: `NoLockLeft`, where every command sent gets its answer (`AnswersArrive`: no
    connection is lost, no time runs out; commands fail on any line, signals arrive, processes die, and
    anybody may unlock). It speaks of the deploys that were told they have the lock: a lock file
    whose own command was interrupted, or failed on a full disk after its redirect, stays, as
    `DeployStranded.cfg` shows (section 5). `AccountInv`: the lock file of a deploy that was told and
    whose process lives is one that deploy `Owns`, so its deferred unlock is still to come; the step
    that needs care is the answer of the unlock command, which nothing may call off (`NoSibling`: it
    runs on one host, so no other host's failure ends it).
* **DeployProofs, the stage** (for deploys that lock one primary, `OnePrimary`, with
  `LoneUnlocker`, and without rollbacks, which by design move `current` without the lock)
  * `StageKept`: `Spec => ImplementsStage`. Each action maps to `Announce`, `Enter`, `Publish`,
    `Leave` or a stutter of ReleaseStage. That a publish is one of the deploy inside, and that the stage
    is empty when one enters, is `MutualExclusion`, hence `LockSafe`; `LockedWhileWorking` adds that only a
    deploy with the lock sends anything but the lock and unlock commands.
  * `PhasesAreBarriers`: `PublishBarrier` for any number of hosts. `BarrierInv` says phase by phase
    what is there on every host not dropped (`Built`) and that a command under way went to all of
    them (`Answered`): the phase can only be left when each answered, so what the answers built is
    there. Others cannot take it away: a cleanup is of a deploy with the lock, which this one has.
  * `SuccessRuns`: `SuccessMeansLive`, an action property. `SwapInv` is `BarrierInv` with `SentLive`:
    from the publish on, `current` is the deploy's own release on every host left to it.
  * `LiveReleaseKept`: `LiveReleaseComplete`, on behaviours where `FewOvertake` always holds: while a deploy d is
    inside, fewer than `keep_releases` names newer than d's own can be on its hosts, of the initial
    releases and of deploys that have had the lock. The condition is not a convenience: a release is
    named before the lock is asked for and by the operator's own clock (`deploy.go:143`), so a deploy
    that waited while that many others passed, or whose machine is that far behind, publishes what is then
    the oldest directory, and its cleanup, which goes by name, prunes the release it has just made current
    (`DeployClock.cfg`). `KeepInv` adds to `SwapInv` where directories come from (`BuiltByOne`), that
    a deploy under way publishes its own (`RunsOwn`) and that its cleanup, from the listing to the last
    removal, has not listed it (`Pruning`). `OwnIsKept` is the counting step: the directories newer than
    d's are among the names counted, so d's own is not surplus.
  * `FewDeploysKeep`: the same with nothing assumed of behaviours, when there are no more deploys
    than `keep_releases` and no machine's clock is behind the initial releases (`ClocksAhead`; clocks
    may disagree, and go back): then a deploy has too few others to be overtaken by.
* **FanoutProofs**
  * `HostsStayIndependent`: under skip and continue_on_error no host is cancelled because of
    another, for any hosts and slots. The invariant: there the fan-out's context is done only if
    the caller was interrupted, and so no goroutine is stopped on its account.
  * `CulpritsSurface`: `RootCauseSurfaces` for any order of the hosts, slots, policy and faults. The
    failure a step reports is picked when it is judged; `Blame` states that pick and adds what keeps
    it true afterwards: the loop has nobody left to start and no goroutine is in its way, so results
    no longer change. That the pick is a host at all rests on `FirstIndex` being an index (the
    least element of a set of naturals that is not empty, by well-foundedness).
  * `StepKept`: `Spec => ImplementsStep`, for any hosts, slots, policy and faults. A result written is
    an answer of Step, the judgement is its judgement by the set of bad answers, all else stutters.
  * `SlotsKept`: never more goroutines in their callback than slots, and all slots are back when the
    step has returned; by cardinality, as the free slots and those held add up. `TypeCorrect`.
* **ConnectionsProofs**
  * `VerifiedForAll`: `VerifiedThroughout` for any workers, keys and fan-outs.
    `VerifiedInv` follows the references a connection is reached by: the pool leads to an entry made
    for that key, a slot of the bastion to a jump client of its mode, an entry to a jump client of its
    key's mode; and nobody refers to what a worker has yet to make in this round (`Unmade`), which is
    why a new entry or client never changes what an older reference means. Most steps are `Calm`: they
    add no reference, and one lemma deals with all of them.
  * `NothingLeaksEver`, `NoAbortInherited`: `NothingLeaks` and `AbortsForgotten`, from `LeakInv`:
    `VerifiedInv`, `PoolInv` (an open client's entry is the pool's for its key; one worker at most dials
    an entry, and an entry with an aborted dial has a worker on its way to drop it) and `HopInv` (an open
    jump client is the one in its mode's slot, which changes under the mutex and only when it holds none).
* **SSHClientProofs**
  * `FirstContactsAgree`: `FirstContact` for any machines, keys, configurations
    and number of dials. A dial decides with the snapshot of known_hosts it read before it connected,
    so an empty snapshot may be old. `KnownInv` says why it does not deceive: a line in the file that
    the snapshot lacks is recorded by this process too, or will be by the dial that holds the mutex, or
    was left by a dial whose write failed, which trusts nothing (`Explained`); and the record is looked at under
    the mutex.
  * `DialsLeaveNothing`, `KnownMachinesPass`: `DialsClean` and `KnownHostsPass`. `CleanInv` is `KnownInv`
    and, place by place, what a dial has open, that only the one writing the file holds the mutex, and
    that a dial refused for its key reached a machine that has no key of a recorded type, or one that is not
    recorded (`Refusable`). `KnownHostsPass` says no more, and the code does no more: with a right key
    and a stale one of another type in known_hosts both types are asked for (`client.go:550-564`),
    the machine shows its first key of these, and may be refused although it still has its recorded one.
* **TaskRunProofs**
  * `TypeCorrect`: `TypeOK`. Frames name tasks of the Deployfile, and no task is on the stack twice: the map
    passed down holds all of them, so the stack is bounded for any call graph.
  * `ContextsFresh`: `CacheFresh` for any tasks, hosts and Deployfiles. A cached context is the
    current one because every change of the base context drops the cache; the case that needs care
    is `Return`, which clears the phase and drops the cache only in `RunTaskInPhase`: the invariant
    carries that a phase is set only in such a run, and only while a task runs (`PhaseInv`).
  * `FailuresSurface`: `NothingSwallowed` for any tasks and call graph. `SurfaceInv` says at every
    moment, not only at the end, that without an error on its way up each bad answer so far is
    excused, and that a command is out only while there is no error (`Outstanding`), so an answer
    never overwrites one.
  * `OutputIsOwn`: `OutputAttributed`. A frame restores the name it found, so what matters is the
    chain of them: each frame remembers its caller's task and only the innermost may be in its body
    (`Chained`), the name shown is the innermost task's and output is withheld exactly while that
    one, silent, is at work (`AttributeInv`). Three lemmas carry the chain through a change of the
    top frame, a call and a return.
  * `DroppedForGood`: `DroppedStayOut`. A frame's hosts are resolved once, when its body starts, and a
    hook may drop one before the next command: `DropInv` says who may be dropped at all and that what
    is still to be sent leaves the dropped out.
  * `CyclesExact`: `CyclesFound`. That a cycle error is right needs that the stack is a path
    (`Linked`): the task called again closes it. That a run without the error had no cycle
    needs that whatever a task that is done reaches is done without coming back to itself (`Settled`,
    `Clear`), and what a frame has still to call is what it has not called (`Ahead`). `Reached` is
    the least closed set, so an induction over paths is not needed: the set of tasks done is closed.
* **EC2Proofs**
  * `TypeCorrect`: `TypeOK`: the default is always a version there is.
  * `PatchesAvailable`: `NeverPending` for any operators and faults. The promise is
    split in two halves every action fulfils: `Grows` (images are only added and stay finished once
    they are, versions are only added and only with finished images) and `Moves` (a process goes to a
    place where what it carries is sound: an image to patch in is finished, a version to copy exists).
  * `RollbacksRefresh`: `RollbackRefreshed`: the refresh a rollback awaits is the one it started
    and nobody else's, since refreshes are only added and an end is for good.
  * `LiveImageStays`: `LiveImageKept`, when `keep_last` exceeds the number of creators by two
    (`FewCreators`). The images no cleanup may take are the one that was live at the start, the
    one before it, to which a rollback goes, and all later ones (`Recent`); `LiveInv`: the default and
    whatever may become it is recent, what a cleanup has listed to be pruned is not, and there are no
    more images than creators have begun to make. It is tight: with two creators and `keep_last` 3 TLC
    finds the live image deregistered.
* **StartupProofs**
  * `SecretsWhole`: `WholeSet`, for any prefixes, secrets, number of fetchers, faults and order in
    which they end. `FetchInv`: a fetcher that is over without an error has brought its value, the
    first failure is remembered before anybody gathers, so what is gathered is the whole (`Complete`);
    and an import or an env file half written is so many keys of that whole (`Importing`, `FileWhole`).
  * `LoadReady`: `Ready`, for any Deployfile and listing. `HostsInv` says by step of the load
    what is already true of a host (`Declared`, `Keyed`, `Bare`, `Known`): discovered hosts join after the
    defaults were applied, and are `Bare` until they are applied again. `ApartInv`: discovery
    lists no address twice, and no machine behind a declared name whose lookup was asked for and did not
    fail; `LogInv`: which log files are open when.
  * `LoadedHooksFire`: `HooksFire`, when nothing but the phase is called deploy:failed
    (`ClearNames`: no task, a plugin's included, and no custom phase; a task of that name is a legal hook
    point for `after`, and the code refuses `before` it). `HooksInv` says of each active systemd or rbenv plugin that it is still to be
    configured, or its startup hook to run, or its tasks and hooks are there, each that was asked for (`Coming`): the check of
    the hooks comes after all of these.
  * `MergedOnceHolds`: `MergedOnce`, whatever the files include and set. The merge of a call is done
    when the call returns, but where its files end up in the whole is decided at once: the lists
    of all open calls, one after the other from the outermost, are the beginning of the final list, in
    its final order (`Lists`). So the invariant (`WalkInv`) can speak of that one list: each file on it is
    there once and after all it includes (`Ordered`), and is the Deployfile, the stage file or included by
    another (`Reached`); a step appends one file or nothing, and it appends a file when its include list
    is gone through. `FrameInv`: what an open call has gone through is on the list or is
    the call it waits for. Hence `seen` minus the open calls is the list, a file that is called while
    it is open closes a circle of includes (`CircleIsFound`), and the stage comes after the Deployfile
    unless it was reached from it (`StageOver`). `Overriding`, that a field has the value of the last file of the
    list that sets it, is kept by every merge (`MergeOverrides`).
  * `DiscoveryAgreesHolds`: `DiscoveryAgrees`. The discovery walks the files a second time, and two walks
    agree because a place of a walk (`Place`) and what the files hold determine the next one (`After`). The
    invariant keeps the set of the places the load went through, each followed by another of the set
    until the last (`Traced`, `Completed`), with everything read that decides the way (`Moves`), so that
    nothing read later changes it (`MovesKeeps`). The discovery stays in that set, cannot fail in it, and
    ends where the load ended (`DiscoveryFollows`). A load that fails before it has merged leaves no
    configuration to agree with.
* **OutputProofs**
  * `NoSecretShownHolds`: `NoSecretShown` for any values, texts, hosts, buffer and rounds, when no value
    has a symbol of a label or of the placeholder in it (`ApartFromOutput`: a host called like a part
    of a password shows it in every label, whatever is masked; likewise `[FILTERED]`). Three things
    have to be right at once. First, replacing one value leaves it nowhere and brings back none that was
    replaced before, although it changes the text around it: a value that occurs in the result
    lies in a stretch without a placeholder, and such a stretch stood in the text
    before (`ReplaceHides`, `EachHides`). Second, text reaches the console in pieces, and a value could be in
    no piece but across two: not here, because every piece ends in a stop, a symbol no promised line contains
    (a line end, a label, a placeholder), so that `Clean` texts stay clean side by side
    (`CleanConcat`). The writer that holds text back until its line ends sees to it: in raw mode the
    masker only ever holds a label (`OutputInv`). Third, a value of several lines is printed line by line:
    whatever the order they are added in, every line long enough is registered (`RegisteredHas`).
    The recursive functions of the text (cutting, replacing, registering) each get
    their equations and an induction of their own, over the least counterexample.

Checked by TLC only. `LiveReleaseExists`, with rollbacks beside a deploy: it rests on how many releases
there are and are kept, as the bounds say. Liveness (`CommandsEnd`, `StepReturns`, `RequestsAnswered`, the two
`RunReturns`, `FetchesEnd`, `ActionsEnd`) is out of the prover's reach. `OutputWhole` is stated by
positions (what is shown of a line is what no promised value covers) while the code replaces without
overlap, so with values that overlap themselves (`aba` in `ababa`) they differ, and the
property holds of the values of the run, not of all. Every other invariant of a run has its theorem.

## 5. Where the code differs from what is said of it

One such statement is a run of its own, with its finding in `PROJECT.json`:

* `fanout_timeout`: a connect timeout matches `context.DeadlineExceeded`; under skip it fails the
  step instead of dropping the host, against `cluster.go:109-110`.

The others are configurations kept here to be run by hand; each ends in a violation of the property
it names.

* `DeploySwap.cfg` (MCDeploy, `LinkKept`): `publish.sh.tmpl` and `rollback.sh.tmpl` make their link
  under one name, `current.tmp`. When one removes or renames the other's after its `ln`, the other's
  `mv -T` fails and its fallback removes `current` with nothing to put there: the host has none,
  against "atomically repoint `current`" (`docs/content/en/overview/_index.md:60`,
  `commands.go:72-74`). No fault is needed.
* `DeployStranded.cfg` (MCDeploy, `NoLockStranded`): Ctrl-C while the lock command is out: the client
  returns at once (`client.go:395`), the lock file may be there, `locked` is not set, and the
  deferred unlock is skipped. The documentation says the lock is released. With `Faults = {"fail"}` the
  same is found of a full disk: the redirect has made the file, printf fails, the command exits 1.
* `DeployClock.cfg` (MCDeploy, `LiveReleaseComplete`): one deploy, by a clock behind the names on the host:
  its own cleanup removes the release it has just published and `current` dangles, against
  "a lexical sort is chronological" (`commands.go:136`).
* `DeployFilters.cfg` (MCDeploy, `OneDeployPerHost`): the lock's host is picked after
  `--host`/`--roles`, so two deploys of one stage may hold two locks and work on one host.
* `DeployLeftover.cfg` (MCDeploy, `LiveReleaseComplete`): `deploy:rollback` goes to the previous
  directory by name, which may be what a failed deploy left.
* `BastionTimeout.cfg` (MCConnections, `BastionFailureCached`): a jump host that timed out is dialed
  again by each host, for the same reason as in `fanout_timeout`, against `bastion.go:37-38`.
* `TaskOnce.cfg` (MCTaskRun, `CompletesOnTheRest`): an output task whose one target is lost under
  skip drops it and fails the run, though the deploy is said to complete on the rest.
* `StartupSkipped.cfg` (MCStartup, `ActiveNotSkipped`): merging concatenates plugin lists, so a
  plugin may be inactive for the stage in one entry and active in another. It is loaded, and also
  put into the skipped plugins (`root.go:481-494`), whose tasks the executor leaves out
  (`executor/deps.go:44`), while `model.go:124-126` and `docs/content/en/plugins/overview.md:116` speak of
  inactive plugins only.

Seen while modelling, without a statement they contradict: the first credentials are handed out
whatever their age (`credentials.go:287`); the aws plugin's configuration does not end on Ctrl-C
(`aws.go:70`); keys of hooks with function values are not checked (`model.go:231`); the cleanup of
images goes by the prefix `app-`, which `app-worker-...` has too (`ami.go:458`); an abandoned command
may still print, under its own label, while the next one runs (`client.go:391`); two
`deploy:unlock` may remove a lock taken between them; the deferred unlock gives up after 30 seconds; a stale
key of another type in known_hosts may have a trusted machine refused (`client.go:550-564`); with
`keep_releases` 2 a rollback beside one deploy can leave `current` dangling, without any fault.

## 6. Not modelled, and why

* The local transport, the builder, the SDK and the logger's layout are I/O, compilation or
  formatting, with no state that survives a call. Host table printing and what templates render to
  are text; that rendering happens, in which order and with which context, is modelled (Startup,
  TaskRun). The text rbenv and systemd generate is data; when they add their tasks is in Startup.
* Slack edits one message through hooks whose order Startup and TaskRun have; what the message says
  is text.
* Parsing keys: an identity gives a key or is refused (SSHClient). YAML decoding and the field
  checks of `Validate`: a file is good or broken (Deployfile), the merged file valid or not (Startup).
* Masking's built-in patterns are regular expressions over text; the values marked as secret, and
  the order in which one hides another, are in Output. The quoting of env files is text.
* Dry-run changes nothing on a host. `deploy:check` and `releases` only read, or repeat a step of the
  deploy. Custom phases are hook points like any other.
* What a release contains and which commit it is: no property here depends on it. Each host updates
  its own mirror, so hosts may release different commits of a branch (listed as a hazard).

## 7. Plan

Done: 1 Deploy with ReleaseStage, 2 Fanout with Step, 3 Connections, 4 TaskRun, 5 SSHClient,
6 Output, 7 Deployfile, 8 Secrets and Startup, 9 EC2. What is left, in order:

1. Extensions of Deploy: a command that outlives the wait for it (the deferred unlock above), a condition under
   which `current` never dangles beside rollbacks, commits seen by different mirrors.
2. The field checks of `Validate` and the precedence of host filters, as operators against a
   reference definition; Slack's message.

Theorems to prove next, most important first: `StageKept` with rollbacks, once the abstract stage has
them; `OutputWhole` for values that do not overlap; the type correctness of Connections, SSHClient,
Startup and Output as theorems of their own.
