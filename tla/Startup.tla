------------------------------ MODULE Startup -------------------------------
(***************************************************************************)
(* From the command line to a configuration a command can run with         *)
(* (internal/cli/root.go): logging twice, defaults, templates and secrets, *)
(* the plugins of the stage, their configuration and startup hooks, the    *)
(* defaults again, the check of the hooks; then a task may ask the aws     *)
(* plugin for an env file.  The aws plugin's own steps are Secrets': its   *)
(* credentials when it is configured, its secrets in a startup hook.       *)
(*                                                                         *)
(* A Deployfile is what Deployfile.tla ends with, the merged file:         *)
(*   key, pass  the global SSH key and its passphrase, "none" or "global"  *)
(*   hosts      each [addr, local, key, pass, source], key and pass "none" *)
(*              or "own", the source "" (not discovered)                   *)
(*   plugins    each [name, active, features, hooks]: active in this stage,*)
(*              the features aws lists, the hooks that the actions of      *)
(*              systemd and rbenv itself ask for, the key "" if not said   *)
(*   resolve    resolve_config_hosts of the inventory                      *)
(*   tasks, custom, hooks   the names of its tasks and custom phases, and  *)
(*              <<"before" or "after", key, task>> for each hook           *)
(*   log        the log files the flags and the file ask for               *)
(* A passphrase is known by whose it is; it is a template until rendered.  *)
(***************************************************************************)
EXTENDS Secrets

CONSTANTS
    Deployfiles,  \* the merged configurations
    Compiled,     \* the plugins compiled into the binary
    Defaults,     \* those of them that load without being listed, in order
    Instances,    \* the machines EC2 may list, by their addresses
    Resolves,     \* what the name of a declared host resolves to
    MaxListed     \* a bound on the instances of one listing

Phases == {"deploy:updated", "deploy:published"}  \* two of the lifecycle's eleven

ASSUME StartupAssumption ==
    /\ Range(Defaults) \subseteq Compiled
    /\ Compiled \subseteq {"aws", "systemd", "rbenv", "print"}
    /\ Defaults \in Seq(STRING)
    /\ MaxListed \in Nat

\* An address is not resolved: it is nothing but itself.
ASSUME AddressAssumption ==
    Instances \subseteq STRING /\ (\A a \in Instances : Resolves[a] = {})

\* When, at which phase or task, the task to run.
Hooks == {"before", "after"} \X STRING \X STRING

ASSUME DeployfileAssumption ==
    \A d \in Deployfiles :
        /\ d.key \in {"none", "global"} /\ d.pass \in {"none", "global"}
        /\ d.hosts \in Seq([addr : STRING, local : BOOLEAN, key : {"none", "own"},
                            pass : {"none", "own"}, source : {""}])
        /\ d.plugins \in Seq([name : STRING, active : BOOLEAN,
                              features : SUBSET {"inventory", "secrets"}, hooks : SUBSET Hooks])
        /\ d.resolve \in BOOLEAN
        /\ d.hooks \subseteq Hooks

VARIABLES
    step,      \* the next step of the load, "run" once it is over
    df,        \* the Deployfile
    open,      \* the log files that are open: <<which setup, "output" or "file">>
    held,      \* those logState knows
    sinks,     \* those the logger and the command output are written to
    hosts,     \* cfg.Hosts
    global,    \* the global passphrase
    masked,    \* whose passphrases the masker knows
    warned,    \* the declared names whose lookup failed, as the log says
    specs,     \* from "configure" on the plugins still to be configured, by their places
    skipped,   \* cfg.SkippedPlugins
    actions,   \* the plugins whose actions are registered
    startups,  \* the startup hooks still to run: [name, hooks]
    tasks,     \* the names of cfg.Tasks
    hooks      \* cfg.Hooks

logging  == <<open, held, sinks>>
secrecy  == <<hosts, global, masked, warned>>
plugins  == <<specs, skipped, actions, startups>>
contents == <<tasks, hooks>>
cli      == <<step, df, logging, secrecy, plugins, contents>>
lent     == <<now, source, service, pc, job, file, interrupted, lending, fetching>>
allVars  == <<cli, secretVars>>

Template(whose) == [of |-> whose, rendered |-> whose = "none"]

Init ==
    /\ SecretsInit
    /\ step = "flags" /\ df \in Deployfiles
    /\ open = {} /\ held = {} /\ sinks = {}
    /\ hosts = [i \in DOMAIN df.hosts |-> [df.hosts[i] EXCEPT !.pass = Template(@)]]
    /\ global = Template(df.pass) /\ masked = {} /\ warned = {}
    /\ specs = {} /\ skipped = {} /\ actions = {} /\ startups = << >>
    /\ tasks = df.tasks /\ hooks = df.hooks

\* Mutants: the defaults, or the check of the hooks, before the plugins have
\* contributed theirs.
OrderDefaultsOnce  == <<"flags", "load", "log", "render", "select", "configure", "startup", "hooks", "run">>
OrderHooksFirst    == <<"flags", "load", "log", "render", "select", "configure", "hooks", "startup", "defaults", "run">>

\* loadConfig, with resolveOffline in it.
Order == <<"flags", "load", "log", "render", "select", "configure", "startup", "defaults", "hooks", "run">>

Turn(s)  == step = s /\ error = ""
Done     == /\ step' = Order[1 + CHOOSE i \in DOMAIN Order : Order[i] = step]
            /\ error' = error
Stop(why) == error' = why /\ step' = step

-----------------------------------------------------------------------------
\* setupLogging: the new files are opened and the logger is built, then it is
\* installed and the files of the previous one are closed.  If a file does not
\* open or the level is not one, those opened so far are closed again.
SetupLogging(wanted) ==
    LET files == {<<step, f>> : f \in wanted} IN
    \/ /\ open' = (open \cup files) \ held /\ held' = files /\ sinks' = files
       /\ Done
    \/ UNCHANGED logging /\ Stop("logging")

\* The flags, before anything is read; then the flags over the log: of the file
\* (applyLogConfig).
ApplyLogConfig ==
    /\ \/ Turn("flags") /\ SetupLogging(df.log.flags)
       \/ Turn("log") /\ SetupLogging(df.log.flags \cup df.log.file)
    /\ UNCHANGED <<df, secrecy, plugins, contents, lent>>

\* ApplyDefaults: where a host is from, and, unless it is local, its key; the
\* passphrase is inherited only together with the key it belongs to.
Defaulted(h) ==
    [h EXCEPT
        !.source = IF @ = "" THEN "config" ELSE @,
        !.key    = IF h.local \/ @ # "none" THEN @ ELSE df.key,
        !.pass   = IF h.local \/ h.key # "none" \/ @.of # "none" THEN @ ELSE global]

ApplyDefaults == hosts' = [i \in DOMAIN hosts |-> Defaulted(hosts[i])]

\* Validate: a passphrase comes with a key; the rest of it may fail as well.
Valid ==
    /\ df.pass # "none" => df.key # "none"
    /\ \A i \in DOMAIN hosts : LET h == Defaulted(hosts[i]) IN
           h.pass.of # "none" /\ ~h.local => h.key # "none"

Load ==
    /\ Turn("load")
    /\ \/ ApplyDefaults /\ Valid /\ Done
       \/ UNCHANGED hosts /\ Stop("config")
    /\ UNCHANGED <<df, logging, global, masked, warned, plugins, contents, lent>>

\* renderSSHSecrets: the global passphrase, then each host's, which may be its
\* own or already the copy of the global template.
RenderSSHSecrets ==
    /\ global' = [global EXCEPT !.rendered = TRUE]
    /\ hosts' = [i \in DOMAIN hosts |-> [hosts[i] EXCEPT !.pass.rendered = TRUE]]
    /\ masked' = {global.of} \cup {hosts[i].pass.of : i \in DOMAIN hosts}

\* renderVars, renderAppBranch, renderSSHSecrets: each may fail.
Render ==
    /\ Turn("render")
    /\ \/ RenderSSHSecrets /\ Done
       \/ UNCHANGED <<hosts, global, masked>> /\ Stop("config")
    /\ UNCHANGED <<df, logging, warned, plugins, contents, lent>>

\* DefaultSpecs: the always-on plugins nobody listed come last.
\* What is not active in this stage is left out of both.
DefaultSpecs(listed) ==
    listed \o [i \in DOMAIN Defaults |->
                  [name |-> Defaults[i], active |-> \A s \in Range(listed) : s.name # Defaults[i],
                   features |-> {}, hooks |-> {}]]

Plugin(i) == DefaultSpecs(df.plugins)[i]

\* selectPluginsForStage, then the params of those kept and the templates of
\* the tasks are rendered.
Select ==
    /\ Turn("select")
    /\ specs' = {i \in DOMAIN DefaultSpecs(df.plugins) : Plugin(i).active}
    /\ skipped' = {s.name : s \in {t \in Range(df.plugins) : ~t.active}}
    /\ Done \/ Stop("config")
    /\ UNCHANGED <<df, logging, secrecy, actions, startups, contents, lent>>

-----------------------------------------------------------------------------
\* plugins.Load.  The aws plugin resolves its credentials first.
Resolving ==
    /\ Turn("configure") /\ (\E i \in First(specs) : Plugin(i).name = "aws")
    /\ Resolve \/ AskMetadata
    /\ UNCHANGED cli

\* What a plugin registers: actions, and hooks to run at startup, in the order
\* of their registration; ec2 before ssm and secretsmanager.
WithActions == {"aws", "systemd"}

\* Without a phase an action of systemd is for tasks to use; rbenv has a phase of its own.
HooksOf(s) ==
    CASE s.name = "systemd" -> {h \in s.hooks : h[2] # ""}
      [] s.name = "rbenv"   -> {<<h[1], IF h[2] = "" THEN "deploy:updated" ELSE h[2], h[3]>> : h \in s.hooks}
      [] OTHER -> {}

StartupsOf(s) ==
    CASE s.name = "aws" -> (IF "inventory" \in s.features THEN <<[name |-> "inventory", hooks |-> {}]>> ELSE << >>)
                        \o (IF "secrets" \in s.features THEN <<[name |-> "secrets", hooks |-> {}]>> ELSE << >>)
      [] s.name \in {"systemd", "rbenv", "print"} -> <<[name |-> s.name, hooks |-> HooksOf(s)]>>

\* A name that is not compiled in is a mistake of the Deployfile; its own
\* params, an unknown feature, or an action somebody registered before end a
\* plugin's configuration.
Configure ==
    /\ Turn("configure")
    /\ \/ /\ specs = {}
          /\ Done /\ UNCHANGED plugins
       \/ \E i \in First(specs) : LET s == Plugin(i) IN
             \/ /\ s.name \notin Compiled
                /\ Stop("config") /\ UNCHANGED plugins
             \/ /\ s.name \in Compiled /\ (s.name = "aws" => pc # "imds")
                /\ Stop("plugin") /\ UNCHANGED plugins
             \/ /\ s.name \in Compiled \ actions /\ (s.name = "aws" => pc = "prefix")
                /\ actions' = actions \cup ({s.name} \cap WithActions)
                /\ startups' = startups \o StartupsOf(s)
                /\ specs' = specs \ {i} /\ UNCHANGED <<skipped, step, error>>
    /\ UNCHANGED <<df, logging, secrecy, contents, lent>>

\* RunStartup, in the order of the registration.
Starting(name) == Turn("startup") /\ startups # << >> /\ Head(startups).name = name

StartupsOver ==
    /\ Turn("startup") /\ startups = << >> /\ Done
    /\ UNCHANGED <<df, logging, secrecy, plugins, contents, lent>>

Addresses == {hosts[i].addr : i \in DOMAIN hosts}

\* appendHosts: what EC2 lists, without the addresses declared already and, with
\* resolve_config_hosts, those the declared names resolve to, but for lost lookups.
Fresh(listing, lost) ==
    LET blocked == IF df.resolve THEN UNION {Resolves[a] : a \in Addresses \ lost} ELSE {}
    IN  Range(listing) \ (Addresses \cup blocked)

\* Each once, in an order that depends on the listing, which may have any.
Orders(set) ==
    {f \in [1..Cardinality(set) -> set] : \A i, j \in DOMAIN f : f[i] = f[j] => i = j}

Discovered(addr) == [addr |-> addr, local |-> FALSE, key |-> "none", pass |-> Template("none"),
                     source |-> "inventory"]

AppendHosts ==
    /\ Starting("inventory")
    /\ \E lost \in IF df.resolve THEN SUBSET Addresses ELSE {{}} :
         /\ warned' = warned \cup lost
         /\ LET Listed(o) ==
                  IF o = "ok"
                  THEN /\ \E listing \in UNION {[1..n -> Instances] : n \in 0..MaxListed} :
                              \E new \in Orders(Fresh(listing, lost)) :
                                  hosts' = hosts \o [i \in DOMAIN new |-> Discovered(new[i])]
                       /\ startups' = Tail(startups) /\ error' = error
                  ELSE error' = o /\ UNCHANGED <<hosts, startups>>
            IN \E call \in Call({"ok"} \cup Failures) : Answered(call) /\ Listed(call.ends)
    /\ UNCHANGED <<step, df, logging, global, masked, specs, skipped, actions, contents,
                   now, source, service, pc, job, asked, first, file, interrupted, fetching>>

\* The secrets of the configured prefixes, and the hook's end.
ImportSecrets ==
    /\ step = "startup" /\ startups # << >> /\ Head(startups).name = "secrets"
    /\ Fetching /\ UNCHANGED cli

SecretsImported ==
    /\ Starting("secrets") /\ pc = "idle" /\ startups' = Tail(startups)
    /\ UNCHANGED <<step, df, logging, secrecy, specs, skipped, actions, contents, error, lent>>

\* The startup hooks of systemd, which contributes a hidden task for each of its
\* hooks, and of rbenv, which does the same for one, unless a ruby version is not
\* one.
AddTask ==
    /\ Starting("systemd") \/ Starting("rbenv")
    /\ LET h == Head(startups) IN
       \/ /\ tasks' = tasks \cup {k[3] : k \in h.hooks} /\ hooks' = hooks \cup h.hooks
          /\ startups' = Tail(startups) /\ error' = error
       \/ /\ h.name = "rbenv"
          /\ error' = "plugin" /\ UNCHANGED <<tasks, hooks, startups>>
    /\ UNCHANGED <<step, df, logging, secrecy, specs, skipped, actions, lent>>

\* print-hosts-table: a function to call, which is no task and needs no check.
PrintInstalled ==
    /\ Starting("print") /\ startups' = Tail(startups)
    /\ UNCHANGED <<step, df, logging, secrecy, specs, skipped, actions, contents, error, lent>>

\* The defaults again, for the hosts that were appended.
DefaultsAgain ==
    /\ Turn("defaults") /\ ApplyDefaults /\ Done
    /\ UNCHANGED <<df, logging, global, masked, warned, plugins, contents, lent>>

\* ValidateHooks: every key is a phase that fires or a task, every task exists,
\* and nothing is to run before deploy:failed.
HooksValid ==
    /\ \A h \in hooks : /\ h[2] \in Phases \cup {"deploy:failed", "deploy:rollback"} \cup df.custom \cup tasks
                        /\ h[3] \in tasks
                        /\ ~(h[1] = "before" /\ h[2] = "deploy:failed")

ValidateHooks ==
    /\ Turn("hooks")
    /\ IF HooksValid THEN Done ELSE Stop("config")
    /\ UNCHANGED <<df, logging, secrecy, plugins, contents, lent>>

-----------------------------------------------------------------------------
\* A task asks for the env file.
AskForDotenv == step = "run" /\ RunDotenv /\ UNCHANGED cli

Dotenv == step = "run" /\ (Fetching \/ WriteFile) /\ UNCHANGED cli

Work == \/ ApplyLogConfig \/ Load \/ Render \/ Select \/ Resolving \/ Configure
        \/ AppendHosts \/ ImportSecrets \/ SecretsImported \/ AddTask \/ PrintInstalled
        \/ StartupsOver \/ DefaultsAgain \/ ValidateHooks \/ Dotenv

Next == Work \/ AskForDotenv \/ ((Tick \/ Interrupt) /\ UNCHANGED cli)

Spec == Init /\ [][Next]_allVars

\* Calls are answered or fail: the SDK, curl and the credentials url have timeouts.
FairSpec == Spec /\ WF_allVars(Work)

-----------------------------------------------------------------------------
\* Once the load is over every host a command may connect to, discovered ones
\* included, has the key it should have and no passphrase but that key's, as a
\* value and known to the masker; discovery lists no address twice and, with
\* resolve_config_hosts, no machine that is declared by its name, unless the log
\* warns of it; and the log files in use are those that are open
\* (root.go:374-441, 560-583, defaults.go:22-73, inventory.go:39-42, 121-172,
\* logging.go:42-108).
Ready ==
    step = "run" =>
        /\ \A i \in DOMAIN hosts : LET h == hosts[i] IN
               /\ h.source # ""
               /\ ~h.local => /\ h.key = "none" => df.key = "none"
                              /\ h.pass.of = "global" => h.key = "global"
                              /\ h.key = "global" /\ df.pass = "global" => h.pass.of # "none"
               /\ h.pass.of # "none" => h.pass.rendered /\ h.pass.of \in masked
        /\ \A i, j \in DOMAIN hosts :
               i # j /\ hosts[j].source = "inventory" =>
                   /\ hosts[j].addr # hosts[i].addr
                   /\ df.resolve /\ hosts[i].addr \notin warned =>
                          hosts[j].addr \notin Resolves[hosts[i].addr]
        /\ open = held /\ sinks = open

Fires(h) == \/ h[2] \in Phases \cup {"deploy:rollback"} \cup df.custom \cup tasks
            \/ <<h[1], h[2]>> = <<"after", "deploy:failed">>

\* What the plugins of the stage contribute: the hooks, and the tasks these run.
Contributed == UNION {HooksOf(s) : s \in {t \in Range(df.plugins) : t.active}}
TheirTasks  == {h[3] : h \in Contributed}

\* No hook is silently dead: once the load is over each of them can fire and has its
\* task, and they are those of the file and each one the plugins of the stage were asked
\* for, no more; and the load is not refused for a hook that a plugin makes good
\* (root.go:574-580, validate.go:139-180, systemd.go:176-220, rbenv.go:262-272).
HooksFire ==
    /\ step = "run" => /\ \A h \in hooks : Fires(h) /\ h[3] \in tasks
                       /\ hooks = df.hooks \cup Contributed
    /\ step = "hooks" /\ error # "" =>
           \E h \in hooks : h[3] \notin tasks \cup TheirTasks \/ (~Fires(h) /\ h[2] \notin TheirTasks)

\* An action of a plugin that was configured for this stage is not skipped as if
\* its plugin were inactive (ast/model.go:124-127).
ActiveNotSkipped == actions \cap skipped = {}
=============================================================================
