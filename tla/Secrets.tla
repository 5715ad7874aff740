------------------------------ MODULE Secrets -------------------------------
(***************************************************************************)
(* What the aws plugin fetches before and during a deploy: credentials,    *)
(* once from their source and again when they expire (plugins/aws/         *)
(* credentials.go); the secrets and parameters of the configured prefixes, *)
(* a set of secrets with bounded concurrency (secretstore/store.go), a     *)
(* path of parameters page by page (ssm/store.go); and what is made of     *)
(* them, imports at startup or an env file when a task asks for one.       *)
(* Startup.tla is the load of the configuration these steps are part of.   *)
(*                                                                         *)
(* AWS and the host that lends its role are external: a call succeeds,     *)
(* finds nothing, or fails, and one signed with expired credentials fails. *)
(* The SDK's credentials cache asks the provider again once what it holds  *)
(* has expired (credentials.go:271-275).  The values a secret holds are    *)
(* not modelled, only the keys they land on and which secret is behind     *)
(* each; time is a number of periods.                                      *)
(***************************************************************************)
EXTENDS Naturals, FiniteSets, Sequences, SequencesExt

CONSTANTS
    Sources,     \* where the credentials may come from: "static", "host" or "default"
    Wanted,      \* of each service, its prefixes: [kind |-> "set", "path" or "one", names |-> what is under it],
                 \* a set's as they are listed, a path's by name: so they are imported
    KeysOf,      \* the keys each name gives: its last segment, or those of its JSON object
    RequireJSON, \* json: true, which rejects a secret that is not an object
    Limit,       \* secretFetchConcurrency
    MaxLife,     \* how many periods the role's credentials are good for, at most
    MaxTime,     \* a bound on time
    Nothing      \* no file, no credentials

Kinds == [ssm |-> {"path", "one"}, secrets |-> {"set", "one"}]
Names == UNION {UNION {Range(Wanted[s][i].names) : i \in DOMAIN Wanted[s]} : s \in DOMAIN Wanted}
Keys  == UNION {Range(KeysOf[n]) : n \in Names}
Never == MaxTime + 1

ASSUME SecretsAssumption ==
    /\ Sources \subseteq {"static", "host", "default"} /\ Sources # {}
    /\ DOMAIN Wanted \subseteq DOMAIN Kinds
    /\ \A s \in DOMAIN Wanted :
           Wanted[s] \in Seq([kind : Kinds[s], names : Seq(DOMAIN KeysOf)])
    /\ Limit \in Nat \ {0} /\ MaxLife \in Nat \ {0} /\ MaxTime \in Nat
    /\ RequireJSON \in BOOLEAN

VARIABLES
    now,         \* the period
    source,      \* where the credentials come from
    service,     \* which of the two services the Deployfile lists
    pc,          \* "resolve", "imds", "prefix", "fetch", "import", "idle", "write", "done", "failed"
    job,         \* "startup" (the hook) or "dotenv" (the action)
    asked,       \* how many of the four metadata requests were answered
    first,       \* when the credentials of the first fetch expire, Nothing before
    used,        \* the provider handed them out
    cached,      \* when the credentials in the cache expire, Nothing before
    at,          \* the prefix being fetched
    fetcher,     \* of each place: "no", "waiting", "running", "got", "none", "failed" or "gone"
    sem,         \* how many fetchers hold the semaphore
    cancelled,   \* the first failure cancelled the fetches of this prefix
    error,       \* the first error, "" before
    todo,        \* the fetched secrets of this prefix not imported yet, by their places in it
    env,         \* the place of the secret behind each key of this job
    file,        \* what was written to the env file, Nothing before
    interrupted  \* Ctrl-C

secretVars == <<now, source, service, pc, job, asked, first, used, cached, at, fetcher, sem,
          cancelled, error, todo, env, file, interrupted>>

fetching == <<at, fetcher, sem, cancelled, todo, env>>
lending  == <<asked, first, used, cached>>

Configured == Wanted[service]
Prefix == Configured[at]

\* A secret is known by its prefix and its place in the listing under it.
Places == UNION {{<<i, j>> : j \in DOMAIN Configured[i].names} : i \in DOMAIN Configured}

\* The smallest of some numbers, alone: lists are gone through in order.
First(numbers) == {i \in numbers : \A j \in numbers : i <= j}

SecretsInit ==
    /\ now = 0 /\ source \in Sources /\ service \in DOMAIN Wanted /\ pc = "resolve" /\ job = "startup"
    /\ asked = 0 /\ first = Nothing /\ used = FALSE /\ cached = Nothing
    /\ at = 1 /\ fetcher = [p \in Places |-> "no"] /\ sem = 0 /\ cancelled = FALSE
    /\ error = "" /\ todo = {} /\ env = << >> /\ file = Nothing
    /\ interrupted = FALSE

Fail(why) == error' = why /\ pc' = "failed"

-----------------------------------------------------------------------------
\* The credentials.

\* resolveCredentials: static keys, a file or a url that may be incomplete or
\* unreadable; the SDK's own chain; or a host, over SSH.  The plugin is
\* configured without the command's context: Ctrl-C does not end this.
Resolve ==
    /\ pc = "resolve"
    /\ \/ source = "static" /\ Fail("credentials") /\ UNCHANGED <<first, asked>>
       \/ /\ source # "host"
          /\ first' = Never /\ pc' = "prefix" /\ UNCHANGED <<error, asked>>
       \/ /\ source = "host" /\ asked' = 0
          /\ \/ Fail("host") /\ UNCHANGED first
             \/ pc' = "imds" /\ UNCHANGED <<error, first>>
    /\ UNCHANGED <<now, source, service, job, used, cached, file, interrupted, fetching>>

\* fetchIMDS: a token, the region, the role, its credentials; each may fail or
\* come back empty, and then nothing is used of what came before.
AskMetadata ==
    /\ pc = "imds"
    /\ \/ Fail("host") /\ UNCHANGED <<asked, first>>
       \/ /\ asked < 3 /\ asked' = asked + 1 /\ UNCHANGED <<pc, error, first>>
       \/ /\ asked = 3 /\ asked' = 4
          /\ \E life \in 1..MaxLife : first' = now + life
          /\ pc' = "prefix" /\ error' = error
    /\ UNCHANGED <<now, source, service, job, used, cached, file, interrupted, fetching>>

\* What a call finds in the cache: credentials, with the period they expire
\* in, or a provider that fails.  The provider hands out those of the first
\* fetch once, whatever their age, and fetches new ones after that.
Provided ==
    IF ~used THEN {first}
    ELSE IF source # "host" THEN {Never}
    ELSE {Nothing} \cup {now + life : life \in 1..MaxLife}

Cached == cached # Nothing /\ (cached = Never \/ now < cached)

\* What may come of a call signed with the credentials of the cache: when those
\* it used expire, and how it ended.
Call(outcomes) ==
    UNION {[expires : {e}, ends : IF e = Nothing THEN {"host"}
                                  ELSE IF e # Never /\ now >= e THEN {"expired"}
                                  ELSE outcomes]
           : e \in IF Cached THEN {cached} ELSE Provided}

\* The cache keeps what the provider handed out for it.
Answered(call) ==
    /\ cached' = IF call.expires = Nothing THEN cached ELSE call.expires
    /\ used' = (used \/ ~Cached)

Failures == {"api"} \cup IF interrupted THEN {"canceled"} ELSE {}

-----------------------------------------------------------------------------
\* The prefixes.

\* The next prefix, or what the job does in the end: the hook returns, the
\* action writes its file.
NextPrefix ==
    /\ pc = "prefix" /\ at > Len(Configured)
    /\ pc' = IF job = "startup" THEN "idle" ELSE "write"
    /\ UNCHANGED <<now, source, service, job, error, file, interrupted, lending, fetching>>

\* fetchPrefix lists the names under a set (all pages, or an error), reads a
\* path of parameters the same way, or asks for a single value, which may not
\* exist.
List ==
    /\ pc = "prefix" /\ at <= Len(Configured)
    /\ LET Listed(o) ==
             CASE o = "ok" /\ Prefix.kind = "set" ->
                    /\ fetcher' = [p \in Places |-> IF p[1] = at THEN "waiting" ELSE fetcher[p]]
                    /\ cancelled' = FALSE /\ pc' = "fetch" /\ UNCHANGED <<error, todo>>
               [] o = "ok" /\ Prefix.kind # "set" ->
                    /\ fetcher' = [p \in Places |-> IF p[1] = at THEN "got" ELSE fetcher[p]]
                    /\ todo' = DOMAIN Prefix.names /\ pc' = "import" /\ UNCHANGED <<error, cancelled>>
               [] o = "none" ->
                    /\ fetcher' = [p \in Places |-> IF p[1] = at THEN "none" ELSE fetcher[p]]
                    /\ todo' = {} /\ pc' = "import" /\ UNCHANGED <<error, cancelled>>
               [] OTHER -> Fail(o) /\ UNCHANGED <<fetcher, cancelled, todo>>
       IN \E call \in Call({"ok"} \cup Failures \cup IF Prefix.kind = "one" THEN {"none"} ELSE {}) :
              Answered(call) /\ Listed(call.ends)
    /\ UNCHANGED <<now, source, service, job, asked, first, at, sem, env, file, interrupted>>

\* A fetcher takes its place in the semaphore, or leaves when the fetches are
\* cancelled; it may do either when both are possible.
Acquire(p) ==
    /\ pc = "fetch" /\ fetcher[p] = "waiting"
    /\ \/ /\ sem < Limit /\ sem' = sem + 1
          /\ fetcher' = [fetcher EXCEPT ![p] = "running"]
       \/ /\ cancelled \/ interrupted
          /\ fetcher' = [fetcher EXCEPT ![p] = "gone"] /\ sem' = sem
    /\ UNCHANGED <<now, source, service, pc, job, at, cancelled, error, todo, env, file, interrupted, lending>>

\* Mutant: the place is given back with a value only.
ReleaseWithValue(o) == sem' = IF o = "got" THEN sem - 1 ELSE sem

Release(o) == sem' = sem - 1

\* getValue, and what its goroutine does with it: a value, a secret that does
\* not exist, or an error; the first error cancels the others.
GetValue(p) ==
    /\ pc = "fetch" /\ fetcher[p] = "running"
    /\ LET Got(o) ==
             /\ Release(o)
             /\ fetcher' = [fetcher EXCEPT ![p] = IF o \in {"got", "none"} THEN o ELSE "failed"]
             /\ error' = IF o \in {"got", "none"} \/ error # "" THEN error ELSE o
             /\ cancelled' = (cancelled \/ o \notin {"got", "none"})
       IN \E call \in Call({"got", "none"} \cup Failures \cup IF cancelled THEN {"canceled"} ELSE {}) :
              Answered(call) /\ Got(call.ends)
    /\ UNCHANGED <<now, source, service, pc, job, asked, first, at, todo, env, file, interrupted>>

\* Mutant: nobody asks whether the fetches were cancelled.
GatheredBlind == error = ""

\* The set is complete: no fetch failed, and none was given up.
Gathered == error = "" /\ ~interrupted

\* All fetchers are done: the values found, in the order of the listing.
Gather ==
    /\ pc = "fetch" /\ \A p \in Places : fetcher[p] \notin {"waiting", "running"}
    /\ IF Gathered
       THEN /\ todo' = {j \in DOMAIN Prefix.names : fetcher[<<at, j>>] = "got"}
            /\ pc' = "import" /\ error' = error
       ELSE Fail(IF error = "" THEN "canceled" ELSE error) /\ todo' = todo
    /\ UNCHANGED <<now, source, service, job, at, fetcher, sem, cancelled, env, file, interrupted, lending>>

\* One secret is imported (or put into the file): under every key it gives, a
\* later secret over an earlier one.
\* With json: true a secret may turn out not to be an object.
Import ==
    /\ pc = "import"
    /\ \E j \in First(todo) : LET given == Range(KeysOf[Prefix.names[j]]) IN
       \/ /\ env' = [k \in DOMAIN env \cup given |-> IF k \in given THEN <<at, j>> ELSE env[k]]
          /\ todo' = todo \ {j} /\ UNCHANGED <<pc, error>>
       \/ RequireJSON /\ Fail("json") /\ UNCHANGED <<env, todo>>
    /\ UNCHANGED <<now, source, service, job, at, fetcher, sem, cancelled, file, interrupted, lending>>

Imported ==
    /\ pc = "import" /\ todo = {}
    /\ at' = at + 1 /\ pc' = "prefix"
    /\ UNCHANGED <<now, source, service, job, fetcher, sem, cancelled, error, todo, env, file, interrupted, lending>>

\* A task runs the to-dotenv action (runEnvironmentFile): it fetches everything again.
RunDotenv ==
    /\ pc = "idle" /\ job = "startup"
    /\ job' = "dotenv" /\ pc' = "prefix" /\ at' = 1 /\ env' = << >>
    /\ fetcher' = [p \in Places |-> "no"]
    /\ UNCHANGED <<now, source, service, sem, cancelled, error, todo, file, interrupted, lending>>

\* envfile.Write: on the hosts of the task, or here.  What a failed write leaves of
\* the file is not modelled: the task fails.
WriteFile ==
    /\ pc = "write"
    /\ \/ file' = env /\ pc' = "done" /\ error' = error
       \/ Fail("write") /\ file' = file
    /\ UNCHANGED <<now, source, service, job, interrupted, lending, fetching>>

-----------------------------------------------------------------------------
Tick == /\ now < MaxTime /\ now' = now + 1
        /\ UNCHANGED <<source, service, pc, job, error, file, interrupted, lending, fetching>>

Interrupt == /\ ~interrupted /\ pc \notin {"done", "failed"} /\ interrupted' = TRUE
             /\ UNCHANGED <<now, source, service, pc, job, error, file, lending, fetching>>

\* What goes on once the first list was asked for, without a further decision.
Fetching == \/ NextPrefix \/ List \/ Gather \/ Import \/ Imported
            \/ \E p \in Places : Acquire(p) \/ GetValue(p)

-----------------------------------------------------------------------------
Fetched == {p \in Places : p[1] < at /\ fetcher[p] = "got"}

Gives(p, k) == k \in Range(KeysOf[Configured[p[1]].names[p[2]]])

Later(q, p) == q[1] > p[1] \/ (q[1] = p[1] /\ q[2] > p[2])

\* What is imported or written is the whole of every prefix: each secret was
\* fetched or does not exist, and under a key that several give is the last of
\* them in the order of the listing, which for parameters is that of their names,
\* whatever the order in which the fetches ended, failed or were cancelled
\* (secretstore/store.go:288-347, ssm/store.go:215).
WholeSet ==
    /\ pc \in {"prefix", "idle", "write", "done"} =>
           /\ \A p \in Places : p[1] < at => fetcher[p] \in {"got", "none"}
           /\ \A k \in Keys : k \in DOMAIN env <=> \E p \in Fetched : Gives(p, k)
           /\ \A k \in DOMAIN env : /\ env[k] \in Fetched /\ Gives(env[k], k)
                                   /\ \A q \in Fetched : Gives(q, k) => ~Later(q, env[k])
    /\ file # Nothing => pc = "done" /\ at > Len(Configured) /\ file = env

\* A hook or an action that fetches ends, whatever the fetches find and however
\* many there are for the places of the semaphore (store.go:295-330).
FetchesEnd == pc \in {"fetch", "import"} ~> pc \in {"idle", "done", "failed"}
=============================================================================
