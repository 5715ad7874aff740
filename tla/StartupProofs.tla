---------------------------- MODULE StartupProofs ----------------------------
(***************************************************************************)
(* What a load leaves a command with, for every Deployfile and every set   *)
(* of secrets: the imports and the env file are whole (WholeSet), the      *)
(* hosts are ready to be connected to (Ready), and every hook fires        *)
(* (HooksFire).  Then the load itself, whatever the files include: what it *)
(* merges (MergedOnce), and that the discovery of tasks merges the same    *)
(* (DiscoveryAgrees).                                                      *)
(***************************************************************************)
EXTENDS Startup, Deployfile, FiniteSetTheorems, SequenceTheorems, TLAPS

\* deploy:failed is a phase and nothing else: no task, a plugin's included, and
\* no custom phase has its name.
ClearNames ==
    \A d \in Deployfiles : /\ "deploy:failed" \notin d.custom \cup d.tasks
                           /\ \A s \in Range(d.plugins) : \A h \in s.hooks : h[3] # "deploy:failed"

-----------------------------------------------------------------------------
\* The secrets.  What they are fetched under does not change.

FetchTypes ==
    /\ service \in DOMAIN Wanted
    /\ at \in Nat \ {0}
    /\ fetcher \in [Places -> {"no", "waiting", "running", "got", "none", "failed", "gone"}]
    /\ todo \in SUBSET (Nat \ {0})

LEMMA ConfiguredTypes ==
    ASSUME service \in DOMAIN Wanted
    PROVE  Configured \in Seq([kind : Kinds[service], names : Seq(DOMAIN KeysOf)])
BY SecretsAssumption DEF Configured

LEMMA ElementOf ==
    ASSUME NEW S, NEW s \in Seq(S)
    PROVE  DOMAIN s = 1..Len(s) /\ Len(s) \in Nat /\ (\A i \in 1..Len(s) : s[i] \in S)
OBVIOUS

LEMMA PlacesTypes ==
    ASSUME service \in DOMAIN Wanted
    PROVE  /\ \A p \in Places : /\ p = <<p[1], p[2]>>
                                /\ p[1] \in 1..Len(Configured)
                                /\ p[2] \in DOMAIN Configured[p[1]].names
                                /\ p[2] \in Nat \ {0}
           /\ \A i \in 1..Len(Configured) : \A j \in DOMAIN Configured[i].names :
                  <<i, j>> \in Places /\ j \in Nat \ {0}
<1>1. Configured \in Seq([kind : Kinds[service], names : Seq(DOMAIN KeysOf)])
  BY ConfiguredTypes
<1>2. DOMAIN Configured = 1..Len(Configured)
  BY <1>1
<1>3. ASSUME NEW i \in 1..Len(Configured)
      PROVE  Configured[i].names \in Seq(DOMAIN KeysOf)
  <2>1. Configured[i] \in [kind : Kinds[service], names : Seq(DOMAIN KeysOf)]
    BY <1>1, ElementOf
  <2> QED
    BY <2>1
<1>4. \A i \in 1..Len(Configured) : \A j \in DOMAIN Configured[i].names : j \in Nat \ {0}
  BY <1>3, ElementOf
<1>5. Places = UNION {{<<i, j>> : j \in DOMAIN Configured[i].names} : i \in 1..Len(Configured)}
  BY <1>2 DEF Places
<1> HIDE DEF Configured
<1>6. ASSUME NEW i \in 1..Len(Configured), NEW j \in DOMAIN Configured[i].names
      PROVE  <<i, j>> \in Places /\ j \in Nat \ {0}
  BY <1>4, <1>5
<1>7. ASSUME NEW p \in Places
      PROVE  \E i \in 1..Len(Configured) : \E j \in DOMAIN Configured[i].names : p = <<i, j>>
  BY <1>5
<1> QED
  BY <1>4, <1>6, <1>7

LEMMA SameWanted ==
    ASSUME service' = service
    PROVE  /\ Configured' = Configured /\ Places' = Places
           /\ \A p, k : Gives(p, k)' <=> Gives(p, k)
<1>1. Configured' = Configured
  BY DEF Configured
<1>2. Places' = Places
  BY <1>1 DEF Places
<1>3. ASSUME NEW p, NEW k
      PROVE  Gives(p, k)' <=> Gives(p, k)
  BY <1>1 DEF Gives
<1> QED
  BY <1>1, <1>2, <1>3

\* Which secrets are behind the keys: those of the prefixes gone through, and
\* of the present one those imported already.
Landed == {p \in Places : /\ fetcher[p] = "got"
                          /\ p[1] < at \/ (pc = "import" /\ p[1] = at /\ p[2] \notin todo)}

WholeOf(landed) ==
    /\ \A k \in Keys : k \in DOMAIN env <=> \E p \in landed : Gives(p, k)
    /\ \A k \in DOMAIN env : /\ env[k] \in landed /\ Gives(env[k], k)
                             /\ \A q \in landed : Gives(q, k) => ~Later(q, env[k])

Complete == \A p \in Places : p[1] < at => fetcher[p] \in {"got", "none"}

\* A fetch that ended without a value has left its mark.
Watched ==
    /\ at <= Len(Configured)
    /\ cancelled => error # ""
    /\ \A p \in Places : p[1] = at => /\ fetcher[p] # "no"
                                      /\ fetcher[p] = "failed" => error # ""
                                      /\ fetcher[p] = "gone" => error # "" \/ interrupted

\* What is still to be imported of the present prefix comes after all the rest of it.
Importing ==
    /\ at <= Len(Configured)
    /\ \A p \in Places : p[1] = at => fetcher[p] \in {"got", "none"}
    /\ \A j \in todo : j \in DOMAIN Prefix.names /\ fetcher[<<at, j>>] = "got"
    /\ \A p \in Places : p[1] = at /\ fetcher[p] = "got" /\ p[2] \notin todo =>
           \A j \in todo : p[2] < j

FileWhole == file # Nothing => pc = "done" /\ at > Len(Configured) /\ file = env

FetchInv ==
    /\ FetchTypes
    /\ pc \in {"resolve", "imds"} => at = 1
    /\ pc # "failed" => Complete /\ WholeOf(Landed)
    /\ pc = "fetch" => Watched
    /\ pc = "import" => Importing
    /\ pc \in {"write", "done"} => at > Len(Configured)
    /\ FileWhole

\* An error stays, and so does the interrupt.
Marked == (error # "" => error' # "") /\ (interrupted => interrupted')

LEMMA SameLanded ==
    ASSUME service' = service, fetcher' = fetcher, at' = at, todo' = todo,
           pc' = pc \/ (pc # "import" /\ pc' # "import")
    PROVE  Landed' = Landed
<1>1. Places' = Places
  BY SameWanted
<1> QED
  BY <1>1 DEF Landed

LEMMA SameWhole ==
    ASSUME NEW landed, service' = service, env' = env, WholeOf(Landed), Landed' = Landed
    PROVE  WholeOf(Landed)'
<1>1. \A p, k : Gives(p, k)' <=> Gives(p, k)
  BY SameWanted
<1> DEFINE L == Landed
<1>2. WholeOf(Landed)' <=>
          /\ \A k \in Keys : k \in DOMAIN env' <=> \E p \in Landed' : Gives(p, k)'
          /\ \A k \in DOMAIN env' : /\ env'[k] \in Landed' /\ Gives(env[k], k)'
                                    /\ \A q \in Landed' : Gives(q, k)' => ~Later(q, env'[k])
  BY DEF WholeOf, Later
<1>3. \A k \in DOMAIN env : Gives(env[k], k)' <=> Gives(env[k], k)
  BY SameWanted DEF Gives
<1> QED
  BY <1>1, <1>2, <1>3 DEF WholeOf

\* What the fetches do not touch is kept.
LEMMA SameFetch ==
    ASSUME FetchInv, UNCHANGED <<service, fetching>>, Marked
    PROVE  /\ FetchTypes' /\ Configured' = Configured
           /\ Complete => Complete'
           /\ Watched => Watched'
           /\ Importing => Importing'
           /\ pc' = pc \/ (pc # "import" /\ pc' # "import") => (WholeOf(Landed) => WholeOf(Landed)')
<1>1. service' = service /\ at' = at /\ fetcher' = fetcher /\ cancelled' = cancelled /\ todo' = todo
          /\ env' = env
  BY DEF fetching
<1>2. Configured' = Configured /\ Places' = Places
  BY <1>1, SameWanted
<1>3. Prefix' = Prefix
  BY <1>1, <1>2 DEF Prefix
<1>4. FetchTypes'
  BY <1>1, <1>2 DEF FetchInv, FetchTypes
<1>5. Complete => Complete'
  BY <1>1, <1>2 DEF Complete
<1>6. Watched => Watched'
  BY <1>1, <1>2 DEF Watched, Marked
<1>7. Importing => Importing'
  BY <1>1, <1>2, <1>3 DEF Importing
<1>8. ASSUME pc' = pc \/ (pc # "import" /\ pc' # "import"), WholeOf(Landed)
      PROVE  WholeOf(Landed)'
  BY <1>1, <1>8, SameLanded, SameWhole
<1> QED
  BY <1>2, <1>4, <1>5, <1>6, <1>7, <1>8

LEMMA FetchQuiet ==
    ASSUME FetchInv, UNCHANGED <<service, pc, file, fetching>>, Marked
    PROVE  FetchInv'
<1>1. pc' = pc /\ file' = file /\ at' = at /\ env' = env
  BY DEF fetching
<1>2. UNCHANGED <<service, fetching>>
  OBVIOUS
<1>3. FileWhole'
  BY <1>1, <1>2, SameFetch DEF FetchInv, FileWhole
<1> QED
  BY <1>1, <1>2, <1>3, SameFetch DEF FetchInv

LEMMA FetchFails ==
    ASSUME FetchInv, UNCHANGED <<service, file, fetching>>, Marked, pc' = "failed", pc # "done"
    PROVE  FetchInv'
<1>1. file' = file /\ at' = at /\ file = Nothing
  BY DEF fetching, FetchInv, FileWhole
<1>2. UNCHANGED <<service, fetching>>
  OBVIOUS
<1>3. FileWhole'
  BY <1>1 DEF FileWhole
<1> QED
  BY <1>1, <1>2, <1>3, SameFetch DEF FetchInv

LEMMA FetchResolve ==
    ASSUME FetchInv, Resolve \/ AskMetadata, Marked
    PROVE  FetchInv'
<1>1. UNCHANGED <<service, fetching>> /\ file' = file /\ at' = at
  BY DEF Resolve, AskMetadata, fetching
<1>2. pc \in {"resolve", "imds"} /\ pc' \in {"resolve", "imds", "prefix", "failed"}
  BY DEF Resolve, AskMetadata, Fail
<1>3. FileWhole'
  BY <1>1, <1>2 DEF FetchInv, FileWhole
<1> QED
  BY <1>1, <1>2, <1>3, SameFetch DEF FetchInv

LEMMA FetchNextPrefix ==
    ASSUME FetchInv, NextPrefix
    PROVE  FetchInv'
<1>1. UNCHANGED <<service, fetching>> /\ file' = file /\ at' = at /\ Marked
  BY DEF NextPrefix, fetching, Marked
<1>2. pc = "prefix" /\ at > Len(Configured) /\ pc' \in {"idle", "write"}
  BY DEF NextPrefix
<1>3. FileWhole'
  BY <1>1, <1>2 DEF FetchInv, FileWhole
<1> QED
  BY <1>1, <1>2, <1>3, SameFetch DEF FetchInv

LEMMA FetchWriteFile ==
    ASSUME FetchInv, WriteFile
    PROVE  FetchInv'
<1>1. UNCHANGED <<service, fetching>> /\ at' = at /\ env' = env /\ Marked
  BY DEF WriteFile, fetching, Marked, Fail
<1>2. pc = "write" /\ at > Len(Configured) /\ file = Nothing
  BY DEF WriteFile, FetchInv, FileWhole
<1>3. CASE pc' = "done" /\ file' = env
  <2>1. FileWhole'
    BY <1>1, <1>2, <1>3, SameFetch DEF FileWhole
  <2> QED
    BY <1>1, <1>2, <1>3, <2>1, SameFetch DEF FetchInv
<1>4. CASE pc' = "failed" /\ file' = file
  BY <1>1, <1>2, <1>4, FetchFails
<1> QED
  BY <1>3, <1>4 DEF WriteFile, Fail

LEMMA NothingLanded ==
    ASSUME Landed = {}, DOMAIN env = {}
    PROVE  WholeOf(Landed)
BY DEF WholeOf

LEMMA FetchRunDotenv ==
    ASSUME FetchInv, RunDotenv
    PROVE  FetchInv'
<1>1. /\ service' = service /\ pc = "idle" /\ pc' = "prefix" /\ at' = 1 /\ env' = << >>
      /\ fetcher' = [p \in Places |-> "no"] /\ file' = file /\ todo' = todo
  BY DEF RunDotenv
<1>2. Configured' = Configured /\ Places' = Places
  BY <1>1, SameWanted
<1>3. FetchTypes'
  BY <1>1, <1>2 DEF FetchInv, FetchTypes
<1>4. Complete'
  BY <1>1, <1>2, PlacesTypes DEF Complete, FetchInv, FetchTypes
<1>5. Landed' = {} /\ DOMAIN env' = {}
  BY <1>1, <1>2 DEF Landed
<1>6. WholeOf(Landed)'
  BY <1>5 DEF WholeOf
<1>7. FileWhole'
  BY <1>1 DEF FetchInv, FileWhole
<1> QED
  BY <1>1, <1>3, <1>4, <1>6, <1>7 DEF FetchInv

\* How a call ends.
LEMMA CallEnds ==
    ASSUME NEW S, NEW call \in Call(S)
    PROVE  call.ends \in S \cup {"host", "expired"}
<1>1. PICK e \in IF Cached THEN {cached} ELSE Provided :
          call \in [expires : {e}, ends : IF e = Nothing THEN {"host"}
                                          ELSE IF e # Never /\ now >= e THEN {"expired"}
                                          ELSE S]
  BY DEF Call
<1> QED
  BY <1>1

LEMMA FetchList ==
    ASSUME FetchInv, List
    PROVE  FetchInv'
<1> USE DEF FetchInv
<1>1. /\ service' = service /\ pc = "prefix" /\ at' = at /\ env' = env
      /\ at \in 1..Len(Configured) /\ at <= Len(Configured)
      /\ file' = file /\ interrupted' = interrupted /\ sem' = sem
  BY ConfiguredTypes, ElementOf DEF List, FetchTypes
<1>2. Configured' = Configured /\ Places' = Places
  BY <1>1, SameWanted
<1>3. Prefix' = Prefix
  BY <1>1, <1>2 DEF Prefix
<1>4. FileWhole'
  BY <1>1 DEF FileWhole
<1>5. \A p \in Places : p[1] \in Nat
  BY PlacesTypes DEF FetchTypes
<1>6. CASE \E v \in {"waiting", "got", "none"} :
              /\ fetcher' = [p \in Places |-> IF p[1] = at THEN v ELSE fetcher[p]]
              /\ \/ v = "waiting" /\ cancelled' = FALSE /\ pc' = "fetch" /\ error' = error /\ todo' = todo
                 \/ v = "got" /\ todo' = DOMAIN Prefix.names /\ pc' = "import"
                 \/ v = "none" /\ todo' = {} /\ pc' = "import"
  <2>1. PICK v \in {"waiting", "got", "none"} :
              /\ fetcher' = [p \in Places |-> IF p[1] = at THEN v ELSE fetcher[p]]
              /\ \/ v = "waiting" /\ cancelled' = FALSE /\ pc' = "fetch" /\ error' = error /\ todo' = todo
                 \/ v = "got" /\ todo' = DOMAIN Prefix.names /\ pc' = "import"
                 \/ v = "none" /\ todo' = {} /\ pc' = "import"
    BY <1>6
  <2>2. \A p \in Places : fetcher'[p] = IF p[1] = at THEN v ELSE fetcher[p]
    BY <2>1
  <2>3. \A j \in DOMAIN Prefix.names : <<at, j>> \in Places /\ j \in Nat \ {0}
    BY <1>1, PlacesTypes DEF Prefix, FetchTypes
  <2>4. FetchTypes'
    BY <1>1, <1>2, <2>1, <2>3 DEF FetchTypes
  <2>5. Complete'
    BY <1>1, <1>2, <1>5, <2>2 DEF Complete, FetchTypes
  <2>6. \A p \in Places : p \in Landed' <=> p \in Landed
    <3>1. ASSUME NEW p \in Places, p[1] = at
          PROVE  p \notin Landed /\ p \notin Landed'
      <4>1. p \notin Landed
        BY <1>1, <3>1 DEF Landed, FetchTypes
      <4>2. pc' = "import" => (fetcher'[p] = "got" => p[2] \in todo')
        <5>1. p[2] \in DOMAIN Prefix.names
          BY <3>1, PlacesTypes DEF Prefix, FetchTypes
        <5> QED
          BY <2>1, <2>2, <3>1, <5>1
      <4> QED
        BY <1>1, <3>1, <4>1, <4>2 DEF Landed, FetchTypes
    <3>2. ASSUME NEW p \in Places, p[1] # at
          PROVE  p \in Landed' <=> p \in Landed
      BY <1>1, <1>2, <2>2, <3>2 DEF Landed
    <3> QED
      BY <3>1, <3>2
  <2>7. Landed' = Landed
    BY <1>2, <2>6 DEF Landed
  <2>8. WholeOf(Landed)'
    BY <1>1, <2>7, SameWhole
  <2>9. ASSUME pc' = "fetch" PROVE Watched'
    <3>1. v = "waiting" /\ cancelled' = FALSE
      BY <2>1, <2>9
    <3>2. \A p \in Places : p[1] = at => fetcher'[p] = "waiting"
      BY <2>2, <3>1
    <3>3. at' <= Len(Configured')
      BY <1>1, <1>2
    <3>4. ASSUME NEW p \in Places', p[1] = at'
          PROVE  fetcher'[p] = "waiting"
      BY <1>1, <1>2, <3>2, <3>4
    <3> QED
      BY <3>1, <3>3, <3>4 DEF Watched
  <2>10. ASSUME pc' = "import" PROVE Importing'
    <3>1. v \in {"got", "none"} /\ (v = "none" => todo' = {}) /\ (v = "got" => todo' = DOMAIN Prefix.names)
      BY <2>1, <2>10
    <3>2. \A p \in Places : p[1] = at' => fetcher'[p] \in {"got", "none"}
      BY <1>1, <2>2, <3>1
    <3>3. \A j \in todo' : j \in DOMAIN Prefix.names /\ fetcher'[<<at, j>>] = "got"
      BY <2>2, <2>3, <3>1
    <3>4. \A p \in Places : p[1] = at /\ fetcher'[p] = "got" => p[2] \in todo'
      BY <2>2, <3>1, PlacesTypes DEF Prefix, FetchTypes
    <3> QED
      BY <1>1, <1>2, <1>3, <3>2, <3>3, <3>4 DEF Importing
  <2> QED
    BY <1>4, <2>1, <2>4, <2>5, <2>8, <2>9, <2>10
<1>7. CASE UNCHANGED <<fetcher, cancelled, todo>> /\ error' # "" /\ pc' = "failed"
  <2>1. UNCHANGED <<service, file, fetching>> /\ Marked
    BY <1>1, <1>7 DEF fetching, Marked
  <2> QED
    BY <1>1, <1>7, <2>1, FetchFails
<1>8. PICK call \in Call({"ok"} \cup Failures \cup IF Prefix.kind = "one" THEN {"none"} ELSE {}) :
          CASE call.ends = "ok" /\ Prefix.kind = "set" ->
                    /\ fetcher' = [p \in Places |-> IF p[1] = at THEN "waiting" ELSE fetcher[p]]
                    /\ cancelled' = FALSE /\ pc' = "fetch" /\ UNCHANGED <<error, todo>>
            [] call.ends = "ok" /\ Prefix.kind # "set" ->
                    /\ fetcher' = [p \in Places |-> IF p[1] = at THEN "got" ELSE fetcher[p]]
                    /\ todo' = DOMAIN Prefix.names /\ pc' = "import" /\ UNCHANGED <<error, cancelled>>
            [] call.ends = "none" ->
                    /\ fetcher' = [p \in Places |-> IF p[1] = at THEN "none" ELSE fetcher[p]]
                    /\ todo' = {} /\ pc' = "import" /\ UNCHANGED <<error, cancelled>>
            [] OTHER -> Fail(call.ends) /\ UNCHANGED <<fetcher, cancelled, todo>>
  BY Zenon DEF List
<1>9. call.ends # ""
  <2> DEFINE S == {"ok"} \cup Failures \cup IF Prefix.kind = "one" THEN {"none"} ELSE {}
  <2>1. \A o \in S : o # ""
    BY DEF Failures
  <2>2. call \in Call(S)
    BY <1>8
  <2> HIDE DEF S
  <2> QED
    BY <2>1, <2>2, CallEnds
<1>10. CASE call.ends = "ok" /\ Prefix.kind = "set"
  BY <1>6, <1>8, <1>10
<1>11. CASE call.ends = "ok" /\ Prefix.kind # "set"
  BY <1>6, <1>8, <1>11
<1>12. CASE call.ends = "none"
  BY <1>6, <1>8, <1>12
<1>13. CASE call.ends \notin {"ok", "none"}
  BY <1>7, <1>8, <1>9, <1>13 DEF Fail
<1> QED
  BY <1>10, <1>11, <1>12, <1>13

\* One place of the fetchers moves while they are at work.
LEMMA FetchMoves ==
    ASSUME FetchInv, pc = "fetch", UNCHANGED <<service, pc, at, todo, env, file>>, Marked,
           cancelled' => error' # "",
           NEW p \in Places, fetcher[p] \in {"waiting", "running"},
           NEW v \in {"running", "got", "none", "failed", "gone"},
           fetcher' = [fetcher EXCEPT ![p] = v],
           v = "failed" => error' # "",
           v = "gone" => error' # "" \/ interrupted'
    PROVE  FetchInv'
<1> USE DEF FetchInv
<1>1. Configured' = Configured /\ Places' = Places
  BY SameWanted
<1>2. \A q \in Places : fetcher'[q] = IF q = p THEN v ELSE fetcher[q]
  BY DEF FetchTypes
<1>3. FetchTypes'
  BY <1>1 DEF FetchTypes
<1>5. ~(p[1] < at)
  BY DEF Complete
<1>6. Complete'
  BY <1>1, <1>2, <1>5 DEF Complete
<1>7. Landed' = Landed
  BY <1>1, <1>2, <1>5 DEF Landed
<1>8. WholeOf(Landed)'
  BY <1>7, SameWhole
<1>9. Watched'
  BY <1>1, <1>2 DEF Watched, Marked
<1>10. FileWhole'
  BY DEF FileWhole
<1> QED
  BY <1>3, <1>6, <1>8, <1>9, <1>10

LEMMA FetchAcquire ==
    ASSUME FetchInv, NEW p \in Places, Acquire(p)
    PROVE  FetchInv'
<1>1. /\ pc = "fetch" /\ UNCHANGED <<service, pc, at, todo, env, file>> /\ Marked
      /\ cancelled' = cancelled /\ error' = error /\ interrupted' = interrupted
      /\ fetcher[p] = "waiting"
  BY DEF Acquire, Marked
<1>2. cancelled => error # ""
  BY <1>1 DEF FetchInv, Watched
<1>3. CASE fetcher' = [fetcher EXCEPT ![p] = "running"]
  BY <1>1, <1>2, <1>3, FetchMoves
<1>4. CASE fetcher' = [fetcher EXCEPT ![p] = "gone"] /\ (cancelled \/ interrupted)
  BY <1>1, <1>2, <1>4, FetchMoves
<1> QED
  BY <1>3, <1>4 DEF Acquire

LEMMA FetchGetValue ==
    ASSUME FetchInv, NEW p \in Places, GetValue(p)
    PROVE  FetchInv'
<1> DEFINE S == {"got", "none"} \cup Failures \cup IF cancelled THEN {"canceled"} ELSE {}
<1>1. /\ pc = "fetch" /\ UNCHANGED <<service, pc, at, todo, env, file>> /\ interrupted' = interrupted
      /\ fetcher[p] = "running"
  BY DEF GetValue
<1>2. PICK call \in Call(S) :
         LET o == call.ends IN
             /\ fetcher' = [fetcher EXCEPT ![p] = IF o \in {"got", "none"} THEN o ELSE "failed"]
             /\ error' = IF o \in {"got", "none"} \/ error # "" THEN error ELSE o
             /\ cancelled' = (cancelled \/ o \notin {"got", "none"})
  BY DEF GetValue
<1>3. call.ends # ""
  <2>1. \A o \in S : o # ""
    BY DEF Failures
  <2> HIDE DEF S
  <2> QED
    BY <1>2, <2>1, CallEnds
<1>4. cancelled => error # ""
  BY <1>1 DEF FetchInv, Watched
<1>5. Marked
  BY <1>1, <1>2, <1>3 DEF Marked
<1>6. cancelled' => error' # ""
  BY <1>2, <1>3, <1>4
<1> HIDE DEF S
<1>7. CASE call.ends \in {"got", "none"}
  <2>1. fetcher' = [fetcher EXCEPT ![p] = call.ends]
    BY <1>2, <1>7
  <2> QED
    BY <1>1, <1>5, <1>6, <1>7, <2>1, FetchMoves
<1>8. CASE call.ends \notin {"got", "none"}
  <2>1. fetcher' = [fetcher EXCEPT ![p] = "failed"] /\ error' # ""
    BY <1>2, <1>3, <1>8
  <2> QED
    BY <1>1, <1>5, <1>6, <2>1, FetchMoves
<1> QED
  BY <1>7, <1>8

LEMMA FetchGather ==
    ASSUME FetchInv, Gather
    PROVE  FetchInv'
<1> USE DEF FetchInv
<1>1. /\ pc = "fetch" /\ service' = service /\ at' = at /\ fetcher' = fetcher /\ env' = env
      /\ file' = file /\ interrupted' = interrupted /\ sem' = sem /\ cancelled' = cancelled
  BY DEF Gather
<1>2. CASE ~Gathered
  <2>1. pc' = "failed" /\ todo' = todo /\ error' = IF error = "" THEN "canceled" ELSE error
    BY <1>2 DEF Gather, Fail
  <2>2. UNCHANGED <<service, file, fetching>> /\ Marked
    BY <1>1, <2>1 DEF fetching, Marked
  <2> QED
    BY <1>1, <2>1, <2>2, FetchFails
<1>3. CASE Gathered
  <2>1. /\ error = "" /\ ~interrupted /\ pc' = "import"
        /\ todo' = {j \in DOMAIN Prefix.names : fetcher[<<at, j>>] = "got"}
    BY <1>3 DEF Gather, Gathered
  <2>2. Configured' = Configured /\ Places' = Places
    BY <1>1, SameWanted
  <2>3. Prefix' = Prefix
    BY <1>1, <2>2 DEF Prefix
  <2>4. at \in 1..Len(Configured)
    <3>1. Len(Configured) \in Nat
      BY ConfiguredTypes, ElementOf DEF FetchTypes
    <3>2. at <= Len(Configured)
      BY <1>1 DEF Watched
    <3>3. at \in Nat \ {0}
      BY DEF FetchTypes
    <3> QED
      BY <3>1, <3>2, <3>3
  <2>5. \A j \in DOMAIN Prefix.names : <<at, j>> \in Places /\ j \in Nat \ {0}
    BY <2>4, PlacesTypes DEF Prefix, FetchTypes
  <2>6. \A p \in Places : p[1] = at => /\ p = <<at, p[2]>> /\ p[2] \in DOMAIN Prefix.names
                                       /\ fetcher[p] \in {"got", "none"}
    <3>1. ASSUME NEW p \in Places, p[1] = at
          PROVE  p = <<at, p[2]>> /\ p[2] \in DOMAIN Prefix.names
      BY <3>1, PlacesTypes DEF Prefix, FetchTypes
    <3>2. ASSUME NEW p \in Places, p[1] = at
          PROVE  fetcher[p] \in {"got", "none"}
      BY <1>1, <2>1, <3>2 DEF Gather, Watched, FetchTypes
    <3> QED
      BY <3>1, <3>2
  <2>7. FetchTypes'
    BY <1>1, <2>1, <2>2, <2>5 DEF FetchTypes
  <2>8. Complete'
    BY <1>1, <2>2 DEF Complete
  <2>9. Landed' = Landed
    BY <1>1, <2>1, <2>2, <2>6 DEF Landed
  <2>10. WholeOf(Landed)'
    BY <1>1, <2>9, SameWhole
  <2>11. Importing'
    <3>1. \A p \in Places : p[1] = at /\ fetcher[p] = "got" => p[2] \in todo'
      BY <2>1, <2>6
    <3>2. at <= Len(Configured)
      BY <1>1 DEF Watched
    <3> QED
      BY <1>1, <2>1, <2>2, <2>3, <2>6, <3>1, <3>2 DEF Importing
  <2>12. FileWhole'
    BY <1>1 DEF FileWhole
  <2> QED
    BY <2>1, <2>7, <2>8, <2>10, <2>11, <2>12
<1> QED
  BY <1>2, <1>3

LEMMA FetchImported ==
    ASSUME FetchInv, Imported
    PROVE  FetchInv'
<1> USE DEF FetchInv
<1>1. /\ pc = "import" /\ todo = {} /\ at' = at + 1 /\ pc' = "prefix"
      /\ UNCHANGED <<service, fetcher, todo, env, file>>
  BY DEF Imported
<1>2. Configured' = Configured /\ Places' = Places
  BY <1>1, SameWanted
<1>3. at \in Nat \ {0}
  BY DEF FetchTypes
<1>4. \A p \in Places : p[1] \in Nat
  BY PlacesTypes DEF FetchTypes
<1>5. FetchTypes'
  BY <1>1, <1>2 DEF FetchTypes
<1>6. \A p \in Places : p[1] < at' <=> p[1] < at \/ p[1] = at
  BY <1>1, <1>3, <1>4
<1>7. Complete'
  BY <1>1, <1>2, <1>6 DEF Complete, Importing
<1>8. Landed' = Landed
  BY <1>1, <1>2, <1>6 DEF Landed
<1>9. WholeOf(Landed)'
  BY <1>1, <1>8, SameWhole
<1>10. FileWhole'
  BY <1>1 DEF FileWhole
<1> QED
  BY <1>1, <1>5, <1>7, <1>9, <1>10

LEMMA FetchImport ==
    ASSUME FetchInv, Import
    PROVE  FetchInv'
<1> USE DEF FetchInv
<1>1. PICK j \in First(todo) :
         \/ /\ env' = [k \in DOMAIN env \cup Range(KeysOf[Prefix.names[j]]) |->
                          IF k \in Range(KeysOf[Prefix.names[j]]) THEN <<at, j>> ELSE env[k]]
            /\ todo' = todo \ {j} /\ UNCHANGED <<pc, error>>
         \/ RequireJSON /\ Fail("json") /\ UNCHANGED <<env, todo>>
  BY DEF Import
<1>2. /\ pc = "import" /\ service' = service /\ at' = at /\ fetcher' = fetcher /\ file' = file
      /\ interrupted' = interrupted /\ sem' = sem /\ cancelled' = cancelled
  BY DEF Import
<1>3. CASE Fail("json") /\ UNCHANGED <<env, todo>>
  <2>1. pc' = "failed" /\ error' # "" /\ UNCHANGED <<service, file, fetching>>
    BY <1>2, <1>3 DEF Fail, fetching
  <2>2. Marked
    BY <1>2, <2>1 DEF Marked
  <2> QED
    BY <1>2, <2>1, <2>2, FetchFails
<1>4. CASE /\ env' = [k \in DOMAIN env \cup Range(KeysOf[Prefix.names[j]]) |->
                          IF k \in Range(KeysOf[Prefix.names[j]]) THEN <<at, j>> ELSE env[k]]
           /\ todo' = todo \ {j} /\ UNCHANGED <<pc, error>>
  <2> DEFINE given == Range(KeysOf[Prefix.names[j]])
             p == <<at, j>>
  <2>1. Configured' = Configured /\ Places' = Places
    BY <1>2, SameWanted
  <2>2. Prefix' = Prefix
    BY <1>2, <2>1 DEF Prefix
  <2>3. j \in todo /\ \A i \in todo : j <= i
    BY DEF First
  <2>4. Importing
    BY <1>2
  <2>5. at \in 1..Len(Configured)
    <3>1. Len(Configured) \in Nat
      BY ConfiguredTypes, ElementOf DEF FetchTypes
    <3>2. at <= Len(Configured)
      BY <2>4 DEF Importing
    <3>3. at \in Nat \ {0}
      BY DEF FetchTypes
    <3> QED
      BY <3>1, <3>2, <3>3
  <2>6. j \in DOMAIN Prefix.names /\ fetcher[p] = "got"
    BY <2>3, <2>4 DEF Importing
  <2>7. p \in Places /\ j \in Nat \ {0}
    BY <2>5, <2>6, PlacesTypes DEF Prefix, FetchTypes
  <2>8. \A q \in Places : q = <<q[1], q[2]>> /\ q[1] \in Nat /\ q[2] \in Nat
    BY PlacesTypes DEF FetchTypes
  <2>9. Landed' = Landed \cup {p}
    <3>1. ASSUME NEW q \in Places
          PROVE  q \in Landed' <=> q \in Landed \/ q = p
      <4>1. q = p <=> q[1] = at /\ q[2] = j
        BY <2>8
      <4>2. q \in Landed <=> fetcher[q] = "got" /\ (q[1] < at \/ (q[1] = at /\ q[2] \notin todo))
        BY <1>2 DEF Landed
      <4>3. q \in Landed' <=> fetcher[q] = "got" /\ (q[1] < at \/ (q[1] = at /\ q[2] \notin todo \ {j}))
        BY <1>2, <1>4, <2>1 DEF Landed
      <4> QED
        BY <2>6, <4>1, <4>2, <4>3
    <3>2. Landed' \subseteq Places /\ Landed \subseteq Places
      BY <2>1 DEF Landed
    <3> QED
      BY <2>7, <3>1, <3>2
  <2>10. \A q \in Landed : ~Later(q, p)
    <3>1. ASSUME NEW q \in Landed PROVE ~Later(q, p)
      <4>1. q \in Places /\ fetcher[q] = "got" /\ (q[1] < at \/ (q[1] = at /\ q[2] \notin todo))
        BY <1>2 DEF Landed
      <4>2. CASE q[1] < at
        BY <2>7, <2>8, <4>1, <4>2 DEF Later, FetchTypes
      <4>3. CASE q[1] = at /\ q[2] \notin todo
        <5>1. q[2] < j
          BY <2>3, <2>4, <4>1, <4>3 DEF Importing
        <5> QED
          BY <2>7, <2>8, <4>1, <4>3, <5>1 DEF Later, FetchTypes
      <4> QED
        BY <4>1, <4>2, <4>3
    <3> QED
      BY <3>1
  <2>11. ~Later(p, p)
    BY <2>7 DEF Later, FetchTypes
  <2>12. \A k : k \in given <=> Gives(p, k)
    BY DEF Gives, Prefix
  <2>13. env' = [k \in DOMAIN env \cup given |-> IF k \in given THEN p ELSE env[k]]
    BY <1>4
  <2>14. WholeOf(Landed)
    BY <1>2
  <2>15. WholeOf(Landed)'
    <3> HIDE DEF given, p
    <3>1. \A q, k : Gives(q, k)' <=> Gives(q, k)
      BY <1>2, SameWanted
    <3>2. /\ \A k \in Keys : k \in DOMAIN env' <=> \E q \in Landed \cup {p} : Gives(q, k)
          /\ \A k \in DOMAIN env' : /\ env'[k] \in Landed \cup {p} /\ Gives(env'[k], k)
                                    /\ \A q \in Landed \cup {p} : Gives(q, k) => ~Later(q, env'[k])
      <4> USE DEF WholeOf
      <4>1. ASSUME NEW k \in Keys
            PROVE  k \in DOMAIN env' <=> \E q \in Landed \cup {p} : Gives(q, k)
        BY <2>12, <2>13, <2>14
      <4>2. ASSUME NEW k \in DOMAIN env', k \in given
            PROVE  /\ env'[k] \in Landed \cup {p} /\ Gives(env'[k], k)
                   /\ \A q \in Landed \cup {p} : Gives(q, k) => ~Later(q, env'[k])
        BY <2>10, <2>11, <2>12, <2>13, <4>2
      <4>3. ASSUME NEW k \in DOMAIN env', k \notin given
            PROVE  /\ env'[k] \in Landed \cup {p} /\ Gives(env'[k], k)
                   /\ \A q \in Landed \cup {p} : Gives(q, k) => ~Later(q, env'[k])
        <5>1. k \in DOMAIN env /\ env'[k] = env[k] /\ ~Gives(p, k)
          BY <2>12, <2>13, <4>3
        <5> QED
          BY <2>14, <5>1
      <4> QED
        BY <4>1, <4>2, <4>3
    <3>3. \A k \in DOMAIN env' : Gives(env[k], k)' <=> Gives(env'[k], k)
      BY <1>2, SameWanted DEF Gives
    <3> QED
      BY <2>9, <3>1, <3>2, <3>3 DEF WholeOf, Later
  <2>16. FetchTypes'
    BY <1>2, <1>4, <2>1 DEF FetchTypes
  <2>17. Complete'
    BY <1>2, <2>1 DEF Complete
  <2>18. Importing'
    <3>1. todo' \subseteq todo /\ todo' = todo \ {j}
      BY <1>4
    <3>2. \A i \in todo' : j < i
      BY <2>3, <2>7, <3>1 DEF FetchTypes
    <3>3. ASSUME NEW q \in Places, q[1] = at, fetcher[q] = "got", q[2] \notin todo', NEW i \in todo'
          PROVE  q[2] < i
      <4>1. CASE q[2] = j
        BY <3>2, <4>1
      <4>2. CASE q[2] # j
        BY <2>4, <3>1, <3>3, <4>2 DEF Importing
      <4> QED
        BY <4>1, <4>2
    <3>4. at <= Len(Configured) /\ (\A q \in Places : q[1] = at => fetcher[q] \in {"got", "none"})
      BY <2>4 DEF Importing
    <3>5. \A i \in todo' : i \in DOMAIN Prefix.names /\ fetcher[<<at, i>>] = "got"
      BY <2>4, <3>1 DEF Importing
    <3> QED
      BY <1>2, <2>1, <2>2, <3>3, <3>4, <3>5 DEF Importing
  <2>19. FileWhole'
    BY <1>2, <1>4 DEF FileWhole
  <2> QED
    BY <1>2, <1>4, <2>15, <2>16, <2>17, <2>18, <2>19
<1> QED
  BY <1>1, <1>3, <1>4

LEMMA FetchWorks ==
    ASSUME FetchInv, Fetching \/ WriteFile
    PROVE  FetchInv'
BY FetchNextPrefix, FetchList, FetchGather, FetchImport, FetchImported, FetchAcquire, FetchGetValue,
   FetchWriteFile DEF Fetching

\* The load's own steps only tell that something went wrong.
LEMMA FetchLent ==
    ASSUME FetchInv, UNCHANGED lent, error = "" \/ error' = error
    PROVE  FetchInv'
<1>1. UNCHANGED <<service, pc, file, fetching>>
  BY DEF lent
<1>2. Marked
  BY DEF lent, Marked
<1> QED
  BY <1>1, <1>2, FetchQuiet

LEMMA FetchInit == Init => FetchInv
<1> SUFFICES ASSUME Init PROVE FetchInv
  OBVIOUS
<1>1. /\ service \in DOMAIN Wanted /\ pc = "resolve" /\ at = 1 /\ fetcher = [p \in Places |-> "no"]
      /\ todo = {} /\ env = << >> /\ file = Nothing
  BY DEF Init, SecretsInit
<1>2. FetchTypes
  BY <1>1 DEF FetchTypes
<1>3. Complete
  BY <1>1, PlacesTypes DEF Complete
<1>4. WholeOf(Landed)
  BY <1>1 DEF WholeOf, Landed
<1>5. FileWhole
  BY <1>1 DEF FileWhole
<1> QED
  BY <1>1, <1>2, <1>3, <1>4, <1>5 DEF FetchInv

LEMMA FetchStep == FetchInv /\ [Next]_allVars => FetchInv'
<1> SUFFICES ASSUME FetchInv, [Next]_allVars PROVE FetchInv'
  OBVIOUS
<1>1. CASE ApplyLogConfig \/ Load \/ Render \/ Select \/ Configure \/ StartupsOver \/ DefaultsAgain \/ ValidateHooks
  <2>1. UNCHANGED lent
    BY <1>1 DEF ApplyLogConfig, Load, Render, Select, Configure, StartupsOver, DefaultsAgain, ValidateHooks
  <2>2. error = ""
    BY <1>1 DEF ApplyLogConfig, Load, Render, Select, Configure, StartupsOver, DefaultsAgain, ValidateHooks, Turn
  <2> QED
    BY <2>1, <2>2, FetchLent
<1>2. CASE AddTask \/ SecretsImported \/ PrintInstalled
  <2>1. UNCHANGED lent /\ error = ""
    BY <1>2 DEF AddTask, SecretsImported, PrintInstalled, Starting, Turn
  <2> QED
    BY <2>1, FetchLent
<1>3. CASE AppendHosts
  <2>1. UNCHANGED <<service, pc, file, fetching>> /\ interrupted' = interrupted /\ error = ""
    BY <1>3 DEF AppendHosts, Starting, Turn
  <2>2. Marked
    BY <2>1 DEF Marked
  <2> QED
    BY <2>1, <2>2, FetchQuiet
<1>4. CASE Resolving
  <2>1. error = "" /\ interrupted' = interrupted
    BY <1>4 DEF Resolving, Turn, Resolve, AskMetadata
  <2>2. Marked
    BY <2>1 DEF Marked
  <2> QED
    BY <1>4, <2>2, FetchResolve DEF Resolving
<1>5. CASE ImportSecrets \/ Dotenv
  BY <1>5, FetchWorks DEF ImportSecrets, Dotenv
<1>6. CASE AskForDotenv
  BY <1>6, FetchRunDotenv DEF AskForDotenv
<1>7. CASE Tick \/ Interrupt
  <2>1. UNCHANGED <<service, pc, file, fetching>>
    BY <1>7 DEF Tick, Interrupt
  <2>2. error' = error /\ (interrupted' = interrupted \/ interrupted' = TRUE)
    BY <1>7 DEF Tick, Interrupt
  <2>3. interrupted => interrupted'
    BY <2>2, Zenon
  <2>4. Marked
    BY <2>2, <2>3 DEF Marked
  <2> QED
    BY <2>1, <2>4, FetchQuiet
<1>8. CASE UNCHANGED allVars
  <2>1. UNCHANGED <<service, pc, file, fetching>>
    BY <1>8 DEF allVars, secretVars, fetching
  <2>2. Marked
    BY <1>8 DEF allVars, secretVars, Marked
  <2> QED
    BY <2>1, <2>2, FetchQuiet
<1> QED
  BY <1>1, <1>2, <1>3, <1>4, <1>5, <1>6, <1>7, <1>8 DEF Next, Work

\* What a hook imports or the action writes is the whole of every prefix, the
\* last secret of the listing under each key, whatever the order in which the
\* fetches end, fail or are cancelled, for any number of secrets and fetchers
\* (store.go:288-347).
THEOREM SecretsWhole == Spec => []WholeSet
<1>1. FetchInv => WholeSet
  <2> SUFFICES ASSUME FetchInv PROVE WholeSet
    OBVIOUS
  <2>1. ASSUME pc \in {"prefix", "idle", "write", "done"}
        PROVE  Complete /\ WholeOf(Landed) /\ Landed = Fetched
    BY <2>1 DEF FetchInv, Landed, Fetched
  <2> QED
    BY <2>1 DEF WholeSet, Complete, WholeOf, FetchInv, FileWhole
<1> QED
  BY <1>1, FetchInit, FetchStep, PTL DEF Spec

-----------------------------------------------------------------------------
\* The load goes through its steps in their order.

Steps == {"flags", "load", "log", "render", "select", "configure", "startup", "defaults", "hooks", "run"}

LEMMA Advance ==
    ASSUME Done
    PROVE  /\ error' = error
           /\ step = "flags" => step' = "load"
           /\ step = "load" => step' = "log"
           /\ step = "log" => step' = "render"
           /\ step = "render" => step' = "select"
           /\ step = "select" => step' = "configure"
           /\ step = "configure" => step' = "startup"
           /\ step = "startup" => step' = "defaults"
           /\ step = "defaults" => step' = "hooks"
           /\ step = "hooks" => step' = "run"
<1>1. step' = Order[1 + CHOOSE i \in DOMAIN Order : Order[i] = step] /\ error' = error
  BY DEF Done
<1>2. /\ DOMAIN Order = 1..10
      /\ Order[1] = "flags" /\ Order[2] = "load" /\ Order[3] = "log" /\ Order[4] = "render"
      /\ Order[5] = "select" /\ Order[6] = "configure" /\ Order[7] = "startup"
      /\ Order[8] = "defaults" /\ Order[9] = "hooks" /\ Order[10] = "run"
  BY DEF Order
<1> HIDE DEF Order
<1> DEFINE c == CHOOSE i \in DOMAIN Order : Order[i] = step
<1>3. (\E i \in DOMAIN Order : Order[i] = step) => c \in DOMAIN Order /\ Order[c] = step
  OBVIOUS
<1>4. step' = Order[1 + c]
  BY <1>1
<1> HIDE DEF c
<1>5. step \in Steps => c \in 1..10 /\ Order[c] = step
  BY <1>2, <1>3 DEF Steps
<1>6. ASSUME NEW i \in 1..9, step = Order[i]
      PROVE  step' = Order[i + 1]
  <2>1. c \in 1..10 /\ Order[c] = Order[i]
    BY <1>2, <1>3, <1>6
  <2>2. c = i
    BY <1>2, <2>1
  <2> QED
    BY <1>4, <2>2
<1> QED
  BY <1>1, <1>2, <1>6

-----------------------------------------------------------------------------
\* The hosts.

Owners == {"none", "own", "global"}
Pass   == [of : Owners, rendered : BOOLEAN]
Host   == [addr : STRING, local : BOOLEAN, key : Owners, pass : Pass, source : {"", "config", "inventory"}]

HostTypes ==
    /\ step \in Steps /\ df \in Deployfiles
    /\ hosts \in Seq(Host)
    /\ global \in Pass /\ global.of = df.pass

\* As the file has them.
Declared(h) == h.source = "" /\ h.key # "global" /\ h.pass.of # "global"

\* The key a host should have, and no passphrase but that key's.
Keyed(h) == ~h.local => /\ h.key = "none" => df.key = "none"
                        /\ h.pass.of = "global" => h.key = "global"
                        /\ h.key = "global" /\ df.pass = "global" => h.pass.of # "none"

\* Just discovered: the defaults are still to be applied.
Bare(h) == h.source = "inventory" /\ ~h.local /\ h.key = "none" /\ h.pass.of = "none"

\* A passphrase is a value the masker knows.
Known(p) == p.of # "none" => p.rendered /\ p.of \in masked

Late == Steps \ {"flags", "load"}

HostsInv ==
    /\ HostTypes
    /\ step \in {"flags", "load"} => \A i \in DOMAIN hosts : Declared(hosts[i])
    /\ step \in Late =>
           /\ df.pass # "none" => df.key # "none"
           /\ \A i \in DOMAIN hosts :
                  /\ hosts[i].source # ""
                  /\ Keyed(hosts[i]) \/ (step \in {"startup", "defaults"} /\ Bare(hosts[i]))
    /\ step \in Late \ {"log", "render"} => Known(global) /\ (\A i \in DOMAIN hosts : Known(hosts[i].pass))

\* A discovered machine is not listed again, under a name that was to be looked
\* up either, unless that failed.
Apart ==
    \A i, j \in DOMAIN hosts : i # j /\ hosts[j].source = "inventory" =>
        /\ hosts[j].addr # hosts[i].addr
        /\ df.resolve /\ hosts[i].addr \notin warned => hosts[j].addr \notin Resolves[hosts[i].addr]

ApartInv == Apart /\ (\A i \in DOMAIN hosts : hosts[i].source = "inventory" => hosts[i].addr \in Instances)

\* The log files in use are those that are open; each setup opens its own.
LogInv ==
    /\ open = held /\ sinks = open
    /\ step = "flags" => open = {}
    /\ step \in {"load", "log"} => \A f \in open : f[1] = "flags"

ReadyInv == HostsInv /\ ApartInv /\ LogInv

LEMMA ReadyInit == Init => ReadyInv
<1> SUFFICES ASSUME Init PROVE ReadyInv
  OBVIOUS
<1>1. /\ step = "flags" /\ df \in Deployfiles /\ open = {} /\ held = {} /\ sinks = {}
      /\ hosts = [i \in DOMAIN df.hosts |-> [df.hosts[i] EXCEPT !.pass = Template(@)]]
      /\ global = Template(df.pass)
  BY DEF Init
<1>2. df.pass \in {"none", "global"} /\ df.hosts \in Seq([addr : STRING, local : BOOLEAN, key : {"none", "own"},
                            pass : {"none", "own"}, source : {""}])
  BY <1>1, DeployfileAssumption
<1>3. \A o \in Owners : Template(o) \in Pass /\ Template(o).of = o
  BY DEF Template, Pass, Owners
<1>4. DOMAIN df.hosts = 1..Len(df.hosts) /\ Len(df.hosts) \in Nat
  BY <1>2, ElementOf
<1>5. ASSUME NEW i \in DOMAIN df.hosts
      PROVE  hosts[i] \in Host /\ Declared(hosts[i])
  <2> DEFINE h == df.hosts[i]
  <2>1. h \in [addr : STRING, local : BOOLEAN, key : {"none", "own"}, pass : {"none", "own"}, source : {""}]
    BY <1>2, <1>4, ElementOf
  <2>2. hosts[i] = [h EXCEPT !.pass = Template(h.pass)]
    BY <1>1
  <2> HIDE DEF h
  <2>3. Template(h.pass) \in Pass /\ Template(h.pass).of = h.pass /\ h.pass # "global"
    BY <1>3, <2>1 DEF Owners
  <2>4. /\ hosts[i] \in Host /\ hosts[i].source = "" /\ hosts[i].key # "global"
        /\ hosts[i].pass = Template(h.pass)
    BY <2>1, <2>2, <2>3 DEF Host, Owners
  <2> QED
    BY <2>3, <2>4 DEF Declared
<1>6. DOMAIN hosts = DOMAIN df.hosts
  BY <1>1
<1>7. hosts \in Seq(Host)
  <2>1. hosts \in [1..Len(df.hosts) -> Host]
    BY <1>1, <1>4, <1>5
  <2> QED
    BY <1>4, <2>1
<1>8. HostsInv
  BY <1>1, <1>2, <1>3, <1>5, <1>6, <1>7 DEF HostsInv, HostTypes, Steps, Late, Owners
<1>9. ApartInv
  BY <1>5, <1>6 DEF ApartInv, Apart, Declared
<1> QED
  BY <1>1, <1>8, <1>9 DEF ReadyInv, LogInv

LEMMA HostsSame ==
    ASSUME HostsInv, ApartInv, UNCHANGED <<df, hosts, global, masked>>, warned \subseteq warned',
           step' \in Steps,
           step' \in {"flags", "load"} => step \in {"flags", "load"},
           step' \in Late => step \in Late,
           step' \in Late \ {"log", "render"} => step \in Late \ {"log", "render"},
           step \in {"startup", "defaults"} => step' \in {"startup", "defaults"}
    PROVE  HostsInv' /\ ApartInv'
<1>1. df' = df /\ hosts' = hosts /\ global' = global /\ masked' = masked
  OBVIOUS
<1>2. HostTypes'
  BY <1>1 DEF HostsInv, HostTypes
<1>3. ApartInv'
  BY <1>1 DEF ApartInv, Apart
<1>4. \A h : (Keyed(h) <=> Keyed(h)') /\ (Known(h) <=> Known(h)') /\ Declared(h)' = Declared(h) /\ Bare(h)' = Bare(h)
  BY <1>1 DEF Keyed, Known, Declared, Bare
<1>5. step' \in {"flags", "load"} => \A i \in DOMAIN hosts' : Declared(hosts'[i])
  BY <1>1 DEF HostsInv
<1>6. step' \in Late =>
           /\ df'.pass # "none" => df'.key # "none"
           /\ \A i \in DOMAIN hosts' :
                  /\ hosts'[i].source # ""
                  /\ Keyed(hosts[i])' \/ (step' \in {"startup", "defaults"} /\ Bare(hosts'[i]))
  BY <1>1, <1>4 DEF HostsInv, Late, Steps
<1>7. step' \in Late \ {"log", "render"} => Known(global)' /\ (\A i \in DOMAIN hosts' : Known(hosts[i].pass)')
  BY <1>1, <1>4 DEF HostsInv
<1> QED
  BY <1>1, <1>2, <1>3, <1>5, <1>6, <1>7 DEF HostsInv, Declared, Bare, Keyed, Known

LEMMA HostRecord ==
    ASSUME NEW a \in STRING, NEW l \in BOOLEAN, NEW k \in Owners, NEW p \in Pass,
           NEW s \in {"", "config", "inventory"}
    PROVE  [addr |-> a, local |-> l, key |-> k, pass |-> p, source |-> s] \in Host
BY DEF Host

LEMMA DefaultedFields ==
    ASSUME HostTypes, NEW h \in Host
    PROVE  LET d == Defaulted(h) IN
           /\ d \in Host
           /\ d.addr = h.addr /\ d.local = h.local
           /\ d.source = IF h.source = "" THEN "config" ELSE h.source
           /\ d.key = IF h.local \/ h.key # "none" THEN h.key ELSE df.key
           /\ d.pass = IF h.local \/ h.key # "none" \/ h.pass.of # "none" THEN h.pass ELSE global
<1> DEFINE s == IF h.source = "" THEN "config" ELSE h.source
           k == IF h.local \/ h.key # "none" THEN h.key ELSE df.key
           p == IF h.local \/ h.key # "none" \/ h.pass.of # "none" THEN h.pass ELSE global
<1>1. Defaulted(h) = [h EXCEPT !.source = s, !.key = k, !.pass = p]
  BY DEF Defaulted, Host
<1>2. df.key \in {"none", "global"}
  BY DeployfileAssumption DEF HostTypes
<1>3. s \in {"config", "inventory"} /\ k \in Owners /\ p \in Pass
  BY <1>2 DEF Host, HostTypes, Owners
<1> HIDE DEF s, k, p
<1>4. Defaulted(h) = [addr |-> h.addr, local |-> h.local, key |-> k, pass |-> p, source |-> s]
  BY <1>1 DEF Host
<1>5. h.addr \in STRING /\ h.local \in BOOLEAN
  BY DEF Host
<1>6. Defaulted(h) \in Host
  BY <1>3, <1>4, <1>5, HostRecord
<1>7. /\ Defaulted(h).addr = h.addr /\ Defaulted(h).local = h.local
      /\ Defaulted(h).source = s /\ Defaulted(h).key = k /\ Defaulted(h).pass = p
  BY <1>4
<1> QED
  BY <1>6, <1>7 DEF s, k, p

LEMMA HostsDefaulted ==
    ASSUME HostTypes, ApplyDefaults
    PROVE  /\ hosts' \in Seq(Host) /\ DOMAIN hosts' = DOMAIN hosts
           /\ \A i \in DOMAIN hosts : hosts[i] \in Host /\ hosts'[i] = Defaulted(hosts[i])
<1>1. DOMAIN hosts = 1..Len(hosts) /\ Len(hosts) \in Nat /\ (\A i \in 1..Len(hosts) : hosts[i] \in Host)
  BY ElementOf DEF HostTypes
<1>2. hosts' = [i \in 1..Len(hosts) |-> Defaulted(hosts[i])]
  BY <1>1 DEF ApplyDefaults
<1>3. \A i \in 1..Len(hosts) : Defaulted(hosts[i]) \in Host
  BY <1>1, DefaultedFields
<1>4. hosts' \in [1..Len(hosts) -> Host]
  BY <1>2, <1>3
<1> QED
  BY <1>1, <1>2, <1>4

LEMMA DefaultedRight ==
    ASSUME HostTypes, NEW h \in Host, df.pass # "none" => df.key # "none",
           \/ Declared(h) /\ (Defaulted(h).pass.of # "none" /\ ~h.local => Defaulted(h).key # "none")
           \/ Keyed(h) \/ Bare(h)
    PROVE  Defaulted(h).source # "" /\ Keyed(Defaulted(h))
<1>1. /\ Defaulted(h).local = h.local
      /\ Defaulted(h).source = IF h.source = "" THEN "config" ELSE h.source
      /\ Defaulted(h).key = IF h.local \/ h.key # "none" THEN h.key ELSE df.key
      /\ Defaulted(h).pass = IF h.local \/ h.key # "none" \/ h.pass.of # "none" THEN h.pass ELSE global
  BY DefaultedFields
<1>2. df.key \in {"none", "global"} /\ df.pass \in {"none", "global"} /\ global.of = df.pass
  BY DeployfileAssumption DEF HostTypes
<1>3. h.key \in Owners /\ h.pass.of \in Owners
  BY DEF Host, Pass
<1>4. Defaulted(h).source # ""
  BY <1>1
<1>5. ASSUME ~h.local PROVE Keyed(Defaulted(h))
  <2>1. CASE h.key # "none"
    <3>1. Defaulted(h).key = h.key /\ Defaulted(h).pass = h.pass
      BY <1>1, <2>1
    <3> QED
      BY <1>1, <1>3, <1>5, <2>1, <3>1 DEF Keyed, Declared, Bare
  <2>2. CASE h.key = "none" /\ h.pass.of # "none"
    <3>1. Defaulted(h).key = df.key /\ Defaulted(h).pass = h.pass
      BY <1>1, <1>5, <2>2
    <3> QED
      BY <1>1, <1>2, <1>3, <1>5, <2>2, <3>1 DEF Keyed, Declared, Bare, Owners
  <2>3. CASE h.key = "none" /\ h.pass.of = "none"
    <3>1. Defaulted(h).key = df.key /\ Defaulted(h).pass = global
      BY <1>1, <1>5, <2>3
    <3> QED
      BY <1>1, <1>2, <1>5, <3>1 DEF Keyed
  <2> QED
    BY <2>1, <2>2, <2>3
<1>6. h.local => Keyed(Defaulted(h))
  BY <1>1 DEF Keyed
<1> QED
  BY <1>4, <1>5, <1>6

LEMMA ReadyLoad ==
    ASSUME HostsInv, ApartInv, Load
    PROVE  HostsInv' /\ ApartInv'
<1>1. step = "load" /\ UNCHANGED <<df, global, masked, warned>>
  BY DEF Load, Turn
<1>2. CASE UNCHANGED hosts /\ Stop("config")
  <2>1. step' = step /\ UNCHANGED <<df, hosts, global, masked, warned>>
    BY <1>1, <1>2 DEF Stop
  <2> QED
    BY <1>1, <2>1, HostsSame DEF Steps, Late
<1>3. CASE ApplyDefaults /\ Valid /\ Done
  <2>1. step' = "log"
    BY <1>1, <1>3, Advance
  <2>2. /\ hosts' \in Seq(Host) /\ DOMAIN hosts' = DOMAIN hosts
        /\ \A i \in DOMAIN hosts : hosts[i] \in Host /\ hosts'[i] = Defaulted(hosts[i])
    BY <1>3, HostsDefaulted DEF HostsInv
  <2>3. HostTypes'
    BY <1>1, <2>1, <2>2 DEF HostsInv, HostTypes, Steps
  <2>4. df.pass # "none" => df.key # "none"
    BY <1>3 DEF Valid
  <2>5. ASSUME NEW i \in DOMAIN hosts
        PROVE  hosts'[i].source = "config" /\ Keyed(hosts[i])'
    <3>1. Declared(hosts[i]) /\ hosts[i] \in Host
      BY <1>1, <2>2 DEF HostsInv
    <3>2. Defaulted(hosts[i]).pass.of # "none" /\ ~hosts[i].local => Defaulted(hosts[i]).key # "none"
      <4>1. Defaulted(hosts[i]).local = hosts[i].local
        BY <3>1, DefaultedFields DEF HostsInv
      <4> QED
        BY <1>3, <4>1 DEF Valid
    <3>3. Keyed(Defaulted(hosts[i]))
      BY <2>4, <3>1, <3>2, DefaultedRight DEF HostsInv
    <3>4. Defaulted(hosts[i]).source = "config"
      BY <3>1, DefaultedFields DEF HostsInv, Declared
    <3> QED
      BY <1>1, <2>2, <3>3, <3>4 DEF Keyed
  <2>6. HostsInv'
    BY <1>1, <2>1, <2>2, <2>3, <2>4, <2>5 DEF HostsInv, Keyed, Late
  <2>7. ApartInv'
    BY <2>2, <2>5 DEF ApartInv, Apart
  <2> QED
    BY <2>6, <2>7
<1> QED
  BY <1>2, <1>3 DEF Load

LEMMA ReadyRender ==
    ASSUME HostsInv, ApartInv, Render
    PROVE  HostsInv' /\ ApartInv'
<1>1. step = "render" /\ df' = df /\ warned' = warned
  BY DEF Render, Turn
<1>2. CASE UNCHANGED <<hosts, global, masked>> /\ Stop("config")
  <2>1. step' = step /\ UNCHANGED <<df, hosts, global, masked, warned>>
    BY <1>1, <1>2 DEF Stop
  <2> QED
    BY <1>1, <2>1, HostsSame DEF Steps, Late
<1>3. CASE RenderSSHSecrets /\ Done
  <2>1. step' = "select"
    BY <1>1, <1>3, Advance
  <2>2. DOMAIN hosts = 1..Len(hosts) /\ Len(hosts) \in Nat /\ (\A i \in 1..Len(hosts) : hosts[i] \in Host)
    BY ElementOf DEF HostsInv, HostTypes
  <2>3. /\ global' = [global EXCEPT !.rendered = TRUE]
        /\ hosts' = [i \in DOMAIN hosts |-> [hosts[i] EXCEPT !.pass.rendered = TRUE]]
        /\ masked' = {global.of} \cup {hosts[i].pass.of : i \in DOMAIN hosts}
    BY <1>3 DEF RenderSSHSecrets
  <2>4. global' \in Pass /\ global'.of = df.pass /\ Known(global)'
    BY <2>3 DEF HostsInv, HostTypes, Pass, Known
  <2>5. ASSUME NEW i \in DOMAIN hosts
        PROVE  /\ hosts'[i] \in Host
               /\ hosts'[i].addr = hosts[i].addr /\ hosts'[i].local = hosts[i].local
               /\ hosts'[i].source = hosts[i].source /\ hosts'[i].key = hosts[i].key
               /\ hosts'[i].pass.of = hosts[i].pass.of /\ hosts'[i].pass.rendered
               /\ hosts'[i].pass.of \in masked'
    <3> DEFINE h == hosts[i]
               p == [h.pass EXCEPT !.rendered = TRUE]
    <3>1. h \in Host
      BY <2>2
    <3>2. hosts'[i] = [h EXCEPT !.pass.rendered = TRUE]
      BY <2>3
    <3>3. h.pass.of \in masked'
      BY <2>3
    <3> HIDE DEF h
    <3>4. p \in Pass /\ p.of = h.pass.of /\ p.rendered
      BY <3>1 DEF Host, Pass
    <3>5. hosts'[i] = [h EXCEPT !.pass = p]
      BY <3>1, <3>2 DEF Host
    <3> HIDE DEF p
    <3>6. /\ hosts'[i] \in Host
          /\ hosts'[i].addr = h.addr /\ hosts'[i].local = h.local
          /\ hosts'[i].source = h.source /\ hosts'[i].key = h.key /\ hosts'[i].pass = p
      BY <3>1, <3>4, <3>5 DEF Host
    <3> QED
      BY <3>3, <3>4, <3>6 DEF h
  <2>6. hosts' \in Seq(Host) /\ DOMAIN hosts' = DOMAIN hosts
    <3>1. hosts' \in [1..Len(hosts) -> Host]
      BY <2>2, <2>3, <2>5
    <3> QED
      BY <2>2, <3>1
  <2>7. HostTypes'
    BY <1>1, <2>1, <2>4, <2>6 DEF HostsInv, HostTypes, Steps
  <2>8. ASSUME NEW i \in DOMAIN hosts
        PROVE  hosts'[i].source # "" /\ Keyed(hosts[i])' /\ Known(hosts[i].pass)'
    BY <1>1, <2>5 DEF HostsInv, Late, Steps, Keyed, Known
  <2>9. HostsInv'
    BY <1>1, <2>1, <2>4, <2>6, <2>7, <2>8 DEF HostsInv, Keyed, Known, Late, Steps
  <2>10. ApartInv'
    BY <1>1, <2>5, <2>6 DEF ApartInv, Apart
  <2> QED
    BY <2>9, <2>10
<1> QED
  BY <1>2, <1>3 DEF Render

LEMMA ReadyDefaultsAgain ==
    ASSUME HostsInv, ApartInv, DefaultsAgain
    PROVE  HostsInv' /\ ApartInv'
<1>1. step = "defaults" /\ UNCHANGED <<df, global, masked, warned>> /\ ApplyDefaults /\ step' = "hooks"
  BY Advance DEF DefaultsAgain, Turn
<1>2. /\ hosts' \in Seq(Host) /\ DOMAIN hosts' = DOMAIN hosts
      /\ \A i \in DOMAIN hosts : hosts[i] \in Host /\ hosts'[i] = Defaulted(hosts[i])
  BY <1>1, HostsDefaulted DEF HostsInv
<1>3. HostTypes'
  BY <1>1, <1>2 DEF HostsInv, HostTypes, Steps
<1>4. /\ df.pass # "none" => df.key # "none"
      /\ Known(global)
      /\ \A i \in DOMAIN hosts : /\ hosts[i].source # ""
                                 /\ Keyed(hosts[i]) \/ Bare(hosts[i])
                                 /\ Known(hosts[i].pass)
  BY <1>1 DEF HostsInv, Late, Steps
<1>5. ASSUME NEW i \in DOMAIN hosts
      PROVE  /\ hosts'[i].source = hosts[i].source /\ hosts'[i].addr = hosts[i].addr
             /\ Keyed(hosts[i])' /\ Known(hosts[i].pass)'
  <2>1. hosts[i] \in Host /\ hosts'[i] = Defaulted(hosts[i])
    BY <1>2
  <2>2. Keyed(Defaulted(hosts[i]))
    BY <1>4, <2>1, DefaultedRight DEF HostsInv
  <2>3. /\ Defaulted(hosts[i]).source = hosts[i].source /\ Defaulted(hosts[i]).addr = hosts[i].addr
        /\ Defaulted(hosts[i]).pass \in {hosts[i].pass, global}
    BY <1>4, <2>1, DefaultedFields DEF HostsInv
  <2>4. Known(Defaulted(hosts[i]).pass)
    BY <1>4, <2>3
  <2> QED
    BY <1>1, <2>1, <2>2, <2>3, <2>4 DEF Keyed, Known
<1>6. HostsInv'
  BY <1>1, <1>2, <1>3, <1>4, <1>5 DEF HostsInv, Keyed, Known, Late
<1>7. ApartInv'
  BY <1>1, <1>2, <1>5 DEF ApartInv, Apart
<1> QED
  BY <1>6, <1>7

\* What is new in a listing is finite: it can be put in an order.
LEMMA FreshFinite ==
    ASSUME NEW n \in Nat, NEW listing \in [1..n -> Instances], NEW lost
    PROVE  /\ Fresh(listing, lost) \subseteq Instances
           /\ Cardinality(Fresh(listing, lost)) \in Nat
<1>1. listing \in Surjection(1..n, Range(listing))
  BY DEF Surjection, Range
<1>2. IsFiniteSet(1..n)
  BY FS_Interval
<1>3. IsFiniteSet(Range(listing))
  BY <1>1, <1>2, FS_Surjection
<1>4. Fresh(listing, lost) \in SUBSET Range(listing)
  BY DEF Fresh
<1>5. IsFiniteSet(Fresh(listing, lost))
  BY <1>3, <1>4, FS_Subset
<1> QED
  BY <1>4, <1>5, FS_CardinalityType DEF Range

LEMMA Appending ==
    ASSUME NEW S, NEW s \in Seq(S), NEW t \in Seq(S)
    PROVE  /\ s \o t \in Seq(S)
           /\ DOMAIN (s \o t) = 1..(Len(s) + Len(t))
           /\ \A i \in 1..Len(s) : (s \o t)[i] = s[i]
           /\ \A i \in 1..(Len(s) + Len(t)) : i > Len(s) => /\ i - Len(s) \in 1..Len(t)
                                                           /\ (s \o t)[i] = t[i - Len(s)]
<1>1. Len(s) \in Nat /\ Len(t) \in Nat
  BY ElementOf
<1>2. s \o t \in Seq(S) /\ Len(s \o t) = Len(s) + Len(t)
  OBVIOUS
<1> QED
  BY <1>1, <1>2

LEMMA ReadyAppend ==
    ASSUME HostsInv, ApartInv, AppendHosts
    PROVE  HostsInv' /\ ApartInv'
<1>1. step = "startup" /\ step' = step /\ UNCHANGED <<df, global, masked>>
  BY DEF AppendHosts, Starting, Turn
<1>5. PICK lost \in IF df.resolve THEN SUBSET Addresses ELSE {{}} :
          /\ warned' = warned \cup lost
          /\ \/ hosts' = hosts
             \/ \E n \in 0..MaxListed : \E listing \in [1..n -> Instances] : \E new \in Orders(Fresh(listing, lost)) :
                    hosts' = hosts \o [i \in DOMAIN new |-> Discovered(new[i])]
  BY DEF AppendHosts
<1>2. CASE hosts' = hosts
  BY <1>1, <1>2, <1>5, HostsSame DEF Late, Steps
<1>3. CASE \E n \in 0..MaxListed : \E listing \in [1..n -> Instances] : \E new \in Orders(Fresh(listing, lost)) :
               hosts' = hosts \o [i \in DOMAIN new |-> Discovered(new[i])]
  <2>17. PICK n \in 0..MaxListed : \E listing \in [1..n -> Instances] : \E new \in Orders(Fresh(listing, lost)) :
               hosts' = hosts \o [i \in DOMAIN new |-> Discovered(new[i])]
    BY <1>3
  <2>16. PICK listing \in [1..n -> Instances] : \E new \in Orders(Fresh(listing, lost)) :
               hosts' = hosts \o [i \in DOMAIN new |-> Discovered(new[i])]
    BY <2>17
  <2>1. PICK new \in Orders(Fresh(listing, lost)) :
               hosts' = hosts \o [i \in DOMAIN new |-> Discovered(new[i])]
    BY <2>16
  <2>2. Fresh(listing, lost) \subseteq Instances /\ Cardinality(Fresh(listing, lost)) \in Nat
    <3>1. n \in Nat
      BY StartupAssumption
    <3> QED
      BY <3>1, FreshFinite
  <2> DEFINE c == Cardinality(Fresh(listing, lost))
             more == [i \in DOMAIN new |-> Discovered(new[i])]
  <2>3. new \in [1..c -> Fresh(listing, lost)] /\ (\A i, j \in 1..c : new[i] = new[j] => i = j)
    BY <2>2 DEF Orders
  <2>4. /\ DOMAIN more = 1..c
        /\ \A i \in 1..c : /\ more[i] = Discovered(new[i])
                           /\ new[i] \in Fresh(listing, lost) /\ new[i] \in Instances
    BY <2>2, <2>3
  <2> HIDE DEF c, more
  <2>5. \A i \in 1..c : /\ more[i] \in Host /\ Bare(more[i]) /\ more[i].pass.of = "none"
                        /\ more[i].addr = new[i] /\ more[i].source = "inventory"
    <3>1. Template("none") \in Pass /\ Template("none").of = "none" /\ "none" \in Owners
      BY DEF Template, Pass, Owners
    <3>2. ASSUME NEW a \in Instances
          PROVE  /\ Discovered(a) \in Host /\ Bare(Discovered(a)) /\ Discovered(a).pass.of = "none"
                 /\ Discovered(a).addr = a /\ Discovered(a).source = "inventory"
      <4>1. a \in STRING
        BY AddressAssumption
      <4>2. Discovered(a) \in Host
        BY <3>1, <4>1, HostRecord DEF Discovered
      <4> QED
        BY <3>1, <4>2 DEF Discovered, Bare
    <3> QED
      BY <2>4, <3>2
  <2>6. more \in Seq(Host) /\ Len(more) = c
    <3>1. c \in Nat
      BY <2>2 DEF c
    <3>2. more = [i \in DOMAIN more |-> more[i]]
      BY DEF more
    <3>3. more \in [1..c -> Host]
      BY <2>4, <2>5, <3>2
    <3> QED
      BY <2>4, <3>1, <3>3
  <2> DEFINE m == Len(hosts)
  <2>7. /\ hosts \in Seq(Host) /\ m \in Nat /\ DOMAIN hosts = 1..m
        /\ c \in Nat
    BY <2>2, ElementOf DEF HostsInv, HostTypes, c
  <2>8. /\ hosts' \in Seq(Host) /\ DOMAIN hosts' = 1..(m + c)
        /\ \A i \in 1..m : hosts'[i] = hosts[i]
        /\ \A i \in 1..(m + c) : i > m => i - m \in 1..c /\ hosts'[i] = more[i - m]
    <3>1. hosts' = hosts \o more
      BY <2>1 DEF more
    <3>2. DOMAIN hosts' = 1..(m + Len(more)) /\ hosts' \in Seq(Host)
      BY <2>6, <2>7, <3>1, Appending
    <3>3. /\ \A i \in 1..m : hosts'[i] = hosts[i]
          /\ \A i \in 1..(m + Len(more)) : i > m => i - m \in 1..Len(more) /\ hosts'[i] = more[i - m]
      BY <2>6, <2>7, <3>1, Appending
    <3> QED
      BY <2>6, <3>2, <3>3
  <2> HIDE DEF m
  <2>9. \A i \in DOMAIN hosts' : i \in 1..m \/ (i > m /\ i - m \in 1..c)
    BY <2>7, <2>8
  <2>10. HostTypes'
    BY <1>1, <2>8 DEF HostsInv, HostTypes
  <2>11. ASSUME NEW i \in DOMAIN hosts'
         PROVE  /\ hosts'[i].source # ""
                /\ Keyed(hosts[i])' \/ Bare(hosts[i])'
                /\ Known(hosts[i].pass)'
    <3>1. CASE i \in 1..m
      <4>1. /\ hosts[i].source # "" /\ (Keyed(hosts[i]) \/ Bare(hosts[i])) /\ Known(hosts[i].pass)
        BY <1>1, <2>7, <3>1 DEF HostsInv, Late, Steps
      <4> QED
        BY <1>1, <2>8, <3>1, <4>1 DEF Keyed, Bare, Known
    <3>2. CASE i > m /\ i - m \in 1..c
      <4>1. hosts'[i] = more[i - m]
        BY <2>8, <2>9, <3>2
      <4> QED
        BY <2>5, <3>2, <4>1 DEF Bare, Known
    <3> QED
      BY <2>9, <3>1, <3>2
  <2>12. HostsInv'
    <3>1. df'.pass # "none" => df'.key # "none"
      BY <1>1 DEF HostsInv, Late, Steps
    <3>2. Known(global)'
      BY <1>1 DEF HostsInv, Late, Steps, Known
    <3> QED
      BY <1>1, <2>10, <2>11, <3>1, <3>2 DEF HostsInv, Keyed, Bare, Known, Late
  <2>13. \A i \in DOMAIN hosts' : hosts'[i].source = "inventory" => hosts'[i].addr \in Instances
    <3>1. ASSUME NEW i \in 1..m, hosts'[i].source = "inventory"
          PROVE  hosts'[i].addr \in Instances
      BY <2>7, <2>8, <3>1 DEF ApartInv
    <3>2. ASSUME NEW i \in DOMAIN hosts', i > m, i - m \in 1..c
          PROVE  hosts'[i].addr \in Instances
      BY <2>4, <2>5, <2>8, <3>2
    <3> QED
      BY <2>9, <3>1, <3>2
  <2>14. ASSUME NEW i \in DOMAIN hosts', NEW j \in DOMAIN hosts', i # j, hosts'[j].source = "inventory"
         PROVE  /\ hosts'[j].addr # hosts'[i].addr
                /\ df.resolve /\ hosts'[i].addr \notin warned' => hosts'[j].addr \notin Resolves[hosts'[i].addr]
    <3>1. CASE i \in 1..m /\ j \in 1..m
      BY <1>5, <2>7, <2>8, <2>14, <3>1 DEF ApartInv, Apart
    <3>2. CASE i \in 1..m /\ j > m /\ j - m \in 1..c
      <4>1. hosts'[j].addr \in Fresh(listing, lost)
        BY <2>4, <2>5, <2>8, <3>2
      <4>2. hosts'[i].addr \in Addresses
        BY <2>7, <2>8, <3>2 DEF Addresses
      <4> QED
        BY <1>5, <4>1, <4>2 DEF Fresh
    <3>3. CASE i > m /\ i - m \in 1..c /\ j \in 1..m
      <4>1. hosts'[i].addr \in Fresh(listing, lost) /\ hosts'[i].addr \in Instances
        BY <2>4, <2>5, <2>8, <3>3
      <4>2. hosts'[i].addr # hosts'[j].addr
        BY <2>7, <2>8, <3>3, <4>1 DEF Fresh, Addresses
      <4> QED
        BY <4>1, <4>2, AddressAssumption
    <3>4. CASE i > m /\ i - m \in 1..c /\ j > m /\ j - m \in 1..c
      <4>1. /\ hosts'[i].addr = new[i - m] /\ hosts'[j].addr = new[j - m] /\ new[i - m] \in Instances
        BY <2>4, <2>5, <2>8, <3>4
      <4>2. i - m # j - m
        BY <2>7, <2>8, <2>14
      <4>3. new[i - m] # new[j - m]
        BY <2>3, <3>4, <4>2
      <4> QED
        BY <4>1, <4>3, AddressAssumption
    <3> QED
      BY <2>9, <3>1, <3>2, <3>3, <3>4
  <2>15. ApartInv'
    BY <1>1, <2>13, <2>14 DEF ApartInv, Apart
  <2> QED
    BY <2>12, <2>15
<1> QED
  BY <1>2, <1>3, <1>5

LEMMA ReadyLog ==
    ASSUME ReadyInv, ApplyLogConfig
    PROVE  ReadyInv'
<1> USE DEF ReadyInv
<1>1. UNCHANGED <<df, secrecy>> /\ step \in {"flags", "log"}
  BY DEF ApplyLogConfig, Turn
<1>2. PICK wanted : SetupLogging(wanted)
  BY DEF ApplyLogConfig
<1>3. \/ step' = step
      \/ step = "flags" /\ step' = "load"
      \/ step = "log" /\ step' = "render"
  BY <1>1, <1>2, Advance DEF SetupLogging, Stop
<1>4. HostsInv' /\ ApartInv'
  BY <1>1, <1>3, HostsSame DEF Steps, Late, secrecy
<1>5. CASE UNCHANGED logging /\ Stop("logging")
  BY <1>4, <1>5 DEF LogInv, logging, Stop
<1>6. CASE /\ open' = (open \cup {<<step, f>> : f \in wanted}) \ held
           /\ held' = {<<step, f>> : f \in wanted} /\ sinks' = {<<step, f>> : f \in wanted}
           /\ Done
  <2> DEFINE files == {<<step, f>> : f \in wanted}
  <2>1. open = held
    BY DEF LogInv
  <2>2. \/ step = "flags" /\ step' = "load"
        \/ step = "log" /\ step' = "render"
    BY <1>1, <1>6, Advance
  <2>3. \A f \in files : f[1] = step /\ f \notin held
    BY <1>1, <2>1 DEF LogInv
  <2>4. open' = files
    BY <1>6, <2>1, <2>3
  <2> QED
    BY <1>4, <1>6, <2>2, <2>3, <2>4 DEF LogInv
<1> QED
  BY <1>2, <1>4, <1>5, <1>6 DEF SetupLogging

\* A step of the load that touches neither the hosts nor the logging.
LEMMA ReadyQuiet ==
    ASSUME ReadyInv, UNCHANGED <<df, logging, secrecy>>,
           \/ step' = step
           \/ step = "select" /\ step' = "configure"
           \/ step = "configure" /\ step' = "startup"
           \/ step = "startup" /\ step' = "defaults"
           \/ step = "hooks" /\ step' = "run"
    PROVE  ReadyInv'
<1>1. HostsInv' /\ ApartInv'
  <2>1. step \in Steps
    BY DEF ReadyInv, HostsInv, HostTypes
  <2> QED
    BY <2>1, HostsSame DEF ReadyInv, Steps, Late, secrecy
<1>2. LogInv'
  BY DEF ReadyInv, LogInv, logging
<1> QED
  BY <1>1, <1>2 DEF ReadyInv

LEMMA LogSame ==
    ASSUME LogInv, UNCHANGED logging, step # "flags", step' # "flags",
           step' \in {"load", "log"} => step \in {"load", "log"}
    PROVE  LogInv'
BY DEF LogInv, logging

LEMMA ReadyStep == ReadyInv /\ [Next]_allVars => ReadyInv'
<1> SUFFICES ASSUME ReadyInv, [Next]_allVars PROVE ReadyInv'
  OBVIOUS
<1>0. HostsInv /\ ApartInv /\ LogInv /\ step \in Steps
  BY DEF ReadyInv, HostsInv, HostTypes
<1>1. CASE ApplyLogConfig
  BY <1>1, ReadyLog
<1>2. CASE Load
  <2>1. step = "load" /\ step' \in {"load", "log"} /\ UNCHANGED logging
    BY <1>2, Advance DEF Load, Turn, Stop
  <2> QED
    BY <1>0, <1>2, <2>1, ReadyLoad, LogSame DEF ReadyInv
<1>3. CASE Render
  <2>1. step = "render" /\ step' \in {"render", "select"} /\ UNCHANGED logging
    BY <1>3, Advance DEF Render, Turn, Stop
  <2> QED
    BY <1>0, <1>3, <2>1, ReadyRender, LogSame DEF ReadyInv
<1>4. CASE AppendHosts
  <2>1. step = "startup" /\ step' = step /\ UNCHANGED logging
    BY <1>4 DEF AppendHosts, Starting, Turn
  <2> QED
    BY <1>0, <1>4, <2>1, ReadyAppend, LogSame DEF ReadyInv
<1>5. CASE DefaultsAgain
  <2>1. step = "defaults" /\ step' = "hooks" /\ UNCHANGED logging
    BY <1>5, Advance DEF DefaultsAgain, Turn
  <2> QED
    BY <1>0, <1>5, <2>1, ReadyDefaultsAgain, LogSame DEF ReadyInv
<1>6. CASE Select
  <2>1. UNCHANGED <<df, logging, secrecy>> /\ step = "select" /\ step' \in {"select", "configure"}
    BY <1>6, Advance DEF Select, Turn, Stop
  <2> QED
    BY <2>1, ReadyQuiet
<1>7. CASE Configure
  <2>1. UNCHANGED <<df, logging, secrecy>> /\ step = "configure"
    BY <1>7 DEF Configure, Turn
  <2>2. step' \in {"configure", "startup"}
    BY <1>7, <2>1, Advance DEF Configure, Stop
  <2> QED
    BY <2>1, <2>2, ReadyQuiet
<1>8. CASE StartupsOver
  <2>1. UNCHANGED <<df, logging, secrecy>> /\ step = "startup" /\ step' = "defaults"
    BY <1>8, Advance DEF StartupsOver, Turn
  <2> QED
    BY <2>1, ReadyQuiet
<1>9. CASE ValidateHooks
  <2>1. UNCHANGED <<df, logging, secrecy>> /\ step = "hooks" /\ step' \in {"hooks", "run"}
    BY <1>9, Advance DEF ValidateHooks, Turn, Stop
  <2> QED
    BY <2>1, ReadyQuiet
<1>10. CASE SecretsImported \/ AddTask \/ PrintInstalled
  <2>1. UNCHANGED <<df, logging, secrecy, step>>
    BY <1>10 DEF SecretsImported, AddTask, PrintInstalled
  <2> QED
    BY <2>1, ReadyQuiet
<1>11. CASE UNCHANGED cli
  <2>1. UNCHANGED <<df, logging, secrecy, step>>
    BY <1>11 DEF cli
  <2> QED
    BY <2>1, ReadyQuiet
<1>12. CASE Resolving \/ ImportSecrets \/ Dotenv \/ AskForDotenv \/ UNCHANGED allVars
  BY <1>11, <1>12 DEF Resolving, ImportSecrets, Dotenv, AskForDotenv, allVars
<1> QED
  BY <1>1, <1>2, <1>3, <1>4, <1>5, <1>6, <1>7, <1>8, <1>9, <1>10, <1>11, <1>12 DEF Next, Work

\* Once the load is over every host, discovered ones included, has the key it
\* should have, no passphrase but that key's, as a value the masker knows;
\* discovery lists no address twice and, with resolve_config_hosts, no machine
\* that is declared by its name, but for a lookup the log warns of; and the log
\* files in use are those that are open; for every Deployfile and every listing
\* (root.go:374-441, 560-583, defaults.go:22-73, inventory.go:39-42, 121-172,
\* logging.go:42-108).
THEOREM LoadReady == Spec => []Ready
<1>1. ReadyInv => Ready
  <2> SUFFICES ASSUME ReadyInv, step = "run" PROVE Ready
    BY DEF Ready
  <2>1. \A i \in DOMAIN hosts : hosts[i].source # "" /\ Keyed(hosts[i]) /\ Known(hosts[i].pass)
    BY DEF ReadyInv, HostsInv, Late, Steps
  <2>2. Apart /\ open = held /\ sinks = open
    BY DEF ReadyInv, ApartInv, LogInv
  <2> QED
    BY <2>1, <2>2 DEF Ready, Keyed, Known, Apart
<1> QED
  BY <1>1, ReadyInit, ReadyStep, PTL DEF Spec

-----------------------------------------------------------------------------
\* The hooks.

\* Names and phases.
Words       == STRING \cup {"", "inventory", "secrets"}
PluginSpec  == [name : STRING, active : BOOLEAN, features : SUBSET {"inventory", "secrets"}, hooks : SUBSET Hooks]
Anchored    == {"before", "after"} \X (STRING \cup {"deploy:updated"}) \X STRING
StartupHook == [name : Words, hooks : SUBSET Anchored]

\* What an active plugin contributes is on its way: the plugin is still to be
\* configured, its hook is still to be run, or it is there and so is its task.
Coming(h) ==
    \/ step \in {"flags", "load", "log", "render", "select"}
    \/ step = "configure" /\ (\E i \in specs : h \in HooksOf(Plugin(i)))
    \/ step \in {"configure", "startup"} /\ (\E k \in DOMAIN startups : h \in startups[k].hooks)
    \/ h \in hooks /\ h[3] \in tasks

\* A startup hook adds what an active plugin contributes, and only systemd's and
\* rbenv's add anything.
Promised(s) == s.hooks \subseteq Contributed /\ (s.name \notin {"systemd", "rbenv"} => s.hooks = {})

\* Refused for a hook nothing makes good.
Rightly == \E h \in hooks : h[3] \notin tasks \cup TheirTasks \/ (~Fires(h) /\ h[2] \notin TheirTasks)

HooksInv ==
    /\ step \in Steps /\ df \in Deployfiles
    /\ startups \in Seq(StartupHook) /\ (\A k \in DOMAIN startups : Promised(startups[k]))
    /\ specs \subseteq DOMAIN DefaultSpecs(df.plugins) /\ (\A i \in specs : Plugin(i).active)
    /\ df.hooks \subseteq hooks /\ hooks \subseteq df.hooks \cup Contributed
    /\ "deploy:failed" \notin df.custom \cup tasks \cup TheirTasks
    /\ \A h \in Contributed : Coming(h)
    /\ step = "run" => \A h \in hooks : Fires(h) /\ h[3] \in tasks
    /\ step = "hooks" /\ error # "" => Rightly

\* What plugins ask for are hooks, and their tasks those of the listing.
LEMMA HooksOfTypes ==
    ASSUME NEW s \in PluginSpec
    PROVE  /\ HooksOf(s) \subseteq Anchored
           /\ \A h \in HooksOf(s) : \E k \in s.hooks : k[3] = h[3]
           /\ s.name \notin {"systemd", "rbenv"} => HooksOf(s) = {}
<1>1. s.hooks \subseteq Hooks
  BY DEF PluginSpec
<1>5. Hooks \subseteq Anchored
  BY DEF Hooks, Anchored
<1>2. CASE s.name = "systemd"
  <2>1. HooksOf(s) = {h \in s.hooks : h[2] # ""}
    BY <1>2 DEF HooksOf
  <2> QED
    BY <1>1, <1>2, <1>5, <2>1
<1>3. CASE s.name = "rbenv"
  <2>1. HooksOf(s) = {<<h[1], IF h[2] = "" THEN "deploy:updated" ELSE h[2], h[3]>> : h \in s.hooks}
    BY <1>3 DEF HooksOf
  <2>2. ASSUME NEW h \in s.hooks
        PROVE  /\ <<h[1], IF h[2] = "" THEN "deploy:updated" ELSE h[2], h[3]>> \in Anchored
               /\ <<h[1], IF h[2] = "" THEN "deploy:updated" ELSE h[2], h[3]>>[3] = h[3]
    <3> DEFINE key == IF h[2] = "" THEN "deploy:updated" ELSE h[2]
    <3>1. h \in {"before", "after"} \X STRING \X STRING
      BY <1>1 DEF Hooks
    <3>2. h[1] \in {"before", "after"} /\ h[2] \in STRING /\ h[3] \in STRING
      BY <3>1
    <3>3. key \in STRING \cup {"deploy:updated"}
      BY <3>2
    <3> HIDE DEF key
    <3>4. <<h[1], key, h[3]>> \in Anchored /\ <<h[1], key, h[3]>>[3] = h[3]
      BY <3>2, <3>3 DEF Anchored
    <3> QED
      BY <3>4 DEF key
  <2>3. HooksOf(s) \subseteq Anchored
    BY <2>1, <2>2
  <2>4. ASSUME NEW h \in HooksOf(s)
        PROVE  \E k \in s.hooks : k[3] = h[3]
    <3>1. PICK k \in s.hooks : h = <<k[1], IF k[2] = "" THEN "deploy:updated" ELSE k[2], k[3]>>
      BY <2>1
    <3> QED
      BY <2>2, <3>1
  <2> QED
    BY <1>3, <2>3, <2>4
<1>4. CASE s.name \notin {"systemd", "rbenv"}
  <2>1. HooksOf(s) = {}
    BY <1>4 DEF HooksOf
  <2> QED
    BY <2>1
<1> QED
  BY <1>2, <1>3, <1>4

LEMMA PluginTypes ==
    ASSUME df \in Deployfiles
    PROVE  df.plugins \in Seq(PluginSpec) /\ (\A s \in Range(df.plugins) : s \in PluginSpec)
<1>1. df.plugins \in Seq(PluginSpec)
  BY DeployfileAssumption DEF PluginSpec
<1> QED
  BY <1>1, ElementOf DEF Range

\* The Deployfile decides what is contributed.
LEMMA SameContributed ==
    ASSUME df' = df
    PROVE  /\ Contributed' = Contributed /\ TheirTasks' = TheirTasks
           /\ DefaultSpecs(df.plugins)' = DefaultSpecs(df.plugins)
           /\ \A i : Plugin(i)' = Plugin(i)
           /\ \A s : HooksOf(s)' = HooksOf(s) /\ Promised(s)' = Promised(s)
<1>1. Contributed' = Contributed
  BY DEF Contributed
<1> QED
  BY <1>1 DEF TheirTasks, DefaultSpecs, Plugin, HooksOf, Promised

LEMMA HooksInit == ASSUME ClearNames PROVE Init => HooksInv
<1> SUFFICES ASSUME Init PROVE HooksInv
  OBVIOUS
<1>1. /\ step = "flags" /\ df \in Deployfiles /\ specs = {} /\ startups = << >>
      /\ tasks = df.tasks /\ hooks = df.hooks
  BY DEF Init
<1>2. "deploy:failed" \notin df.custom \cup tasks
  BY <1>1 DEF ClearNames
<1>3. ASSUME NEW h \in Contributed
      PROVE  h[3] # "deploy:failed"
  <2>1. PICK s \in Range(df.plugins) : h \in HooksOf(s)
    BY DEF Contributed
  <2>2. \E k \in s.hooks : k[3] = h[3]
    BY <1>1, <2>1, PluginTypes, HooksOfTypes
  <2> QED
    BY <1>1, <2>2 DEF ClearNames
<1>4. startups \in Seq(StartupHook)
  BY <1>1
<1>5. \A h \in Contributed : Coming(h)
  BY <1>1 DEF Coming
<1> QED
  BY <1>1, <1>2, <1>3, <1>4, <1>5 DEF HooksInv, Steps, TheirTasks

\* What is on its way stays so.
LEMMA StillComing ==
    ASSUME UNCHANGED <<df, specs, startups, tasks, hooks>>, NEW h, Coming(h),
           \/ step' = step
           \/ step \in Steps /\ step' \in {"flags", "load", "log", "render", "select"}
           \/ h \in hooks /\ h[3] \in tasks
    PROVE  Coming(h)'
<1>1. \A i : Plugin(i)' = Plugin(i)
  BY SameContributed
<1>2. CASE step' = step /\ step = "configure" /\ (\E i \in specs : h \in HooksOf(Plugin(i)))
  <2>1. PICK i \in specs : h \in HooksOf(Plugin(i))
    BY <1>2
  <2>2. h \in HooksOf(Plugin(i))'
    BY <1>1, <2>1, SameContributed DEF HooksOf
  <2> QED
    BY <1>2, <2>2 DEF Coming
<1>3. CASE ~(step' = step /\ step = "configure" /\ (\E i \in specs : h \in HooksOf(Plugin(i))))
  BY <1>3 DEF Coming
<1> QED
  BY <1>2, <1>3

LEMMA HooksQuiet ==
    ASSUME HooksInv, UNCHANGED <<df, specs, startups, contents>>,
           \/ step' = step /\ (error' = error \/ step # "hooks")
           \/ step = "flags" /\ step' = "load"
           \/ step = "load" /\ step' = "log"
           \/ step = "log" /\ step' = "render"
           \/ step = "render" /\ step' = "select"
           \/ step = "defaults" /\ step' = "hooks" /\ error' = ""
    PROVE  HooksInv'
<1>1. UNCHANGED <<df, specs, startups, tasks, hooks>>
  BY DEF contents
<1>2. /\ Contributed' = Contributed /\ TheirTasks' = TheirTasks
      /\ DefaultSpecs(df.plugins)' = DefaultSpecs(df.plugins)
      /\ \A i : Plugin(i)' = Plugin(i)
      /\ \A s : Promised(s)' = Promised(s)
      /\ \A h : Fires(h)' <=> Fires(h)
  BY <1>1, SameContributed DEF Fires
<1>3. Rightly' <=> Rightly
  BY <1>1, <1>2 DEF Rightly, Fires
<1>4. ASSUME NEW h \in Contributed
      PROVE  Coming(h)'
  <2>1. Coming(h)
    BY DEF HooksInv
  <2>2. \/ step' = step
        \/ step \in Steps /\ step' \in {"flags", "load", "log", "render", "select"}
        \/ h \in hooks /\ h[3] \in tasks
    BY <2>1 DEF Coming, Steps
  <2> QED
    BY <1>1, <2>1, <2>2, StillComing
<1>5. step' = "run" => \A h \in hooks : Fires(h) /\ h[3] \in tasks
  BY DEF HooksInv
<1>6. step' = "run" => (\A h \in hooks : Fires(h) /\ h[3] \in tasks)'
  BY <1>1, <1>5 DEF Fires
<1>7. step' = "hooks" /\ error' # "" => Rightly'
  BY <1>3 DEF HooksInv
<1>8. /\ step' \in Steps /\ df' \in Deployfiles
      /\ startups' \in Seq(StartupHook)
      /\ specs' \subseteq DOMAIN DefaultSpecs(df.plugins)'
      /\ df'.hooks \subseteq hooks' /\ hooks' \subseteq df'.hooks \cup Contributed'
      /\ "deploy:failed" \notin df'.custom \cup tasks' \cup TheirTasks'
  BY <1>1, <1>2 DEF HooksInv, Steps
<1>9. \A h \in Contributed' : Coming(h)'
  BY <1>2, <1>4 DEF Coming
<1>10. /\ \A k \in DOMAIN startups' : Promised(startups[k])'
       /\ \A i \in specs' : Plugin(i)'.active
  BY <1>1, <1>2 DEF HooksInv, Promised
<1> QED
  BY <1>6, <1>7, <1>8, <1>9, <1>10 DEF HooksInv

LEMMA SpecRecord ==
    ASSUME NEW n \in STRING, NEW a \in BOOLEAN
    PROVE  [name |-> n, active |-> a, features |-> {}, hooks |-> {}] \in PluginSpec
BY DEF PluginSpec

\* The listed plugins come first, as they are; the others have no hooks.
LEMMA Listed ==
    ASSUME df \in Deployfiles
    PROVE  /\ DefaultSpecs(df.plugins) \in Seq(PluginSpec)
           /\ \A i \in DOMAIN df.plugins : i \in DOMAIN DefaultSpecs(df.plugins) /\ Plugin(i) = df.plugins[i]
           /\ \A i \in DOMAIN DefaultSpecs(df.plugins) :
                  i \in DOMAIN df.plugins \/ Plugin(i).hooks = {}
<1> DEFINE more == [i \in DOMAIN Defaults |->
                  [name |-> Defaults[i], active |-> \A s \in Range(df.plugins) : s.name # Defaults[i],
                   features |-> {}, hooks |-> {}]]
<1>1. df.plugins \in Seq(PluginSpec) /\ Defaults \in Seq(STRING)
  BY PluginTypes, StartupAssumption
<1>2. more \in Seq(PluginSpec) /\ (\A i \in DOMAIN more : more[i].hooks = {})
  <2>1. /\ DOMAIN Defaults = 1..Len(Defaults) /\ Len(Defaults) \in Nat
        /\ \A i \in 1..Len(Defaults) : Defaults[i] \in STRING
    BY <1>1, ElementOf
  <2>2. ASSUME NEW i \in 1..Len(Defaults)
        PROVE  more[i] \in PluginSpec /\ more[i].hooks = {}
    <3> DEFINE a == \A s \in Range(df.plugins) : s.name # Defaults[i]
    <3>1. Defaults[i] \in STRING /\ a \in BOOLEAN
      BY <2>1
    <3> DEFINE r == [name |-> Defaults[i], active |-> a, features |-> {}, hooks |-> {}]
    <3>2. more[i] = r
      BY <2>1
    <3>3. r.hooks = {}
      OBVIOUS
    <3> HIDE DEF a, more
    <3>4. r \in PluginSpec
      BY <3>1, SpecRecord
    <3> HIDE DEF r
    <3> QED
      BY <3>2, <3>3, <3>4
  <2>3. more = [i \in 1..Len(Defaults) |-> more[i]]
    BY <2>1
  <2> HIDE DEF more
  <2>4. more \in [1..Len(Defaults) -> PluginSpec]
    BY <2>2, <2>3
  <2> QED
    BY <2>1, <2>2, <2>4
<1>3. DefaultSpecs(df.plugins) = df.plugins \o more
  BY DEF DefaultSpecs
<1> HIDE DEF more
<1>4. DOMAIN df.plugins = 1..Len(df.plugins) /\ Len(df.plugins) \in Nat /\ Len(more) \in Nat
  BY <1>1, <1>2, ElementOf
<1>5. DOMAIN more = 1..Len(more)
  BY <1>2, ElementOf
<1> QED
  BY <1>1, <1>2, <1>3, <1>4, <1>5, Appending DEF Plugin

\* An active plugin's hooks are contributed, listed or not.
LEMMA ActiveContributes ==
    ASSUME df \in Deployfiles, NEW i \in DOMAIN DefaultSpecs(df.plugins), Plugin(i).active
    PROVE  HooksOf(Plugin(i)) \subseteq Contributed
<1>1. Plugin(i) \in PluginSpec
  BY Listed, ElementOf DEF Plugin
<1>2. CASE i \in DOMAIN df.plugins
  <2>1. Plugin(i) \in Range(df.plugins)
    BY <1>2, Listed DEF Range
  <2> QED
    BY <2>1 DEF Contributed
<1>3. CASE Plugin(i).hooks = {}
  BY <1>1, <1>3, HooksOfTypes
<1> QED
  BY <1>2, <1>3, Listed

LEMMA HooksSelect ==
    ASSUME HooksInv, Select
    PROVE  HooksInv'
<1>1. /\ step = "select" /\ UNCHANGED <<df, startups, tasks, hooks>> /\ step' \in {"select", "configure"}
      /\ specs' = {i \in DOMAIN DefaultSpecs(df.plugins) : Plugin(i).active}
  BY Advance DEF Select, Turn, Stop, contents
<1>2. /\ Contributed' = Contributed /\ TheirTasks' = TheirTasks
      /\ DefaultSpecs(df.plugins)' = DefaultSpecs(df.plugins)
      /\ \A i : Plugin(i)' = Plugin(i)
      /\ \A s : HooksOf(s)' = HooksOf(s) /\ Promised(s)' = Promised(s)
  BY <1>1, SameContributed
<1>3. ASSUME NEW h \in Contributed
      PROVE  Coming(h)'
  <2>1. PICK s \in Range(df.plugins) : s.active /\ h \in HooksOf(s)
    BY DEF Contributed
  <2>2. PICK i \in DOMAIN df.plugins : df.plugins[i] = s
    BY DEF Range
  <2>3. i \in specs' /\ h \in HooksOf(Plugin(i))
    BY <1>1, <2>1, <2>2, Listed DEF HooksInv
  <2>4. h \in HooksOf(Plugin(i))'
    BY <1>2, <2>3 DEF HooksOf
  <2>5. step' = "configure" => Coming(h)'
    BY <2>3, <2>4 DEF Coming
  <2> QED
    BY <1>1, <2>5 DEF Coming
<1>4. /\ \A k \in DOMAIN startups' : Promised(startups[k])'
      /\ \A i \in specs' : Plugin(i)'.active
  BY <1>1, <1>2 DEF HooksInv, Promised
<1> QED
  BY <1>1, <1>2, <1>3, <1>4 DEF HooksInv, Steps, Coming

LEMMA OneOrNone ==
    ASSUME NEW S, NEW x \in S, NEW test
    PROVE  (IF test THEN <<x>> ELSE << >>) \in Seq(S)
OBVIOUS

\* What a plugin has run at startup: hooks that add what it asks for.
LEMMA StartupsOfTypes ==
    ASSUME NEW s \in PluginSpec, s.name \in Compiled
    PROVE  /\ StartupsOf(s) \in Seq(StartupHook)
           /\ \A k \in DOMAIN StartupsOf(s) :
                  /\ StartupsOf(s)[k].hooks \subseteq HooksOf(s)
                  /\ StartupsOf(s)[k].name \notin {"systemd", "rbenv"} => StartupsOf(s)[k].hooks = {}
           /\ \A h \in HooksOf(s) : \E k \in DOMAIN StartupsOf(s) : h \in StartupsOf(s)[k].hooks
<1>1. s.name \in {"aws", "systemd", "rbenv", "print"} /\ s.name \in Words
  BY StartupAssumption DEF PluginSpec, Words
<1>2. CASE s.name = "aws"
  <2> DEFINE i == [name |-> "inventory", hooks |-> {}]
             c == [name |-> "secrets", hooks |-> {}]
             a == IF "inventory" \in s.features THEN <<i>> ELSE << >>
             b == IF "secrets" \in s.features THEN <<c>> ELSE << >>
  <2>1. StartupsOf(s) = a \o b
    BY <1>2 DEF StartupsOf
  <2>2. i \in StartupHook /\ c \in StartupHook /\ i.hooks = {} /\ c.hooks = {}
    BY DEF StartupHook, Words
  <2>3. HooksOf(s) = {}
    BY <1>2, HooksOfTypes
  <2> DEFINE T == {i, c}
  <2>4. i \in T /\ c \in T /\ T \subseteq StartupHook /\ (\A x \in T : x.hooks = {})
    BY <2>2
  <2> HIDE DEF i, c, T
  <2>5. a \in Seq(T) /\ b \in Seq(T)
    BY <2>4, OneOrNone
  <2> HIDE DEF a, b
  <2>6. StartupsOf(s) \in Seq(T)
    BY <2>1, <2>5, Appending
  <2>7. \A k \in DOMAIN StartupsOf(s) : StartupsOf(s)[k] \in T
    BY <2>6, ElementOf
  <2>8. StartupsOf(s) \in Seq(StartupHook)
    BY <2>4, <2>6
  <2> QED
    BY <2>3, <2>4, <2>7, <2>8
<1>3. CASE s.name \in {"systemd", "rbenv", "print"}
  <2> DEFINE x == [name |-> s.name, hooks |-> HooksOf(s)]
  <2>1. StartupsOf(s) = <<x>>
    BY <1>3 DEF StartupsOf
  <2>2. HooksOf(s) \subseteq Anchored /\ (s.name \notin {"systemd", "rbenv"} => HooksOf(s) = {})
    BY HooksOfTypes
  <2>3. x \in StartupHook /\ x.name = s.name /\ x.hooks = HooksOf(s)
    BY <1>1, <2>2 DEF StartupHook
  <2> HIDE DEF x
  <2>4. StartupsOf(s) \in Seq(StartupHook) /\ DOMAIN StartupsOf(s) = {1} /\ StartupsOf(s)[1] = x
    BY <2>1, <2>3
  <2> QED
    BY <2>2, <2>3, <2>4
<1> QED
  BY <1>1, <1>2, <1>3

LEMMA HooksConfigure ==
    ASSUME HooksInv, Configure
    PROVE  HooksInv'
<1>1. step = "configure" /\ UNCHANGED <<df, tasks, hooks>>
  BY DEF Configure, Turn, contents
<1>6. /\ Contributed' = Contributed /\ TheirTasks' = TheirTasks
      /\ DefaultSpecs(df.plugins)' = DefaultSpecs(df.plugins)
      /\ \A i : Plugin(i)' = Plugin(i)
      /\ \A s : HooksOf(s)' = HooksOf(s) /\ Promised(s)' = Promised(s)
  BY <1>1, SameContributed
<1>2. CASE UNCHANGED plugins /\ step' = step
  BY <1>1, <1>2, HooksQuiet DEF plugins, contents
<1>3. CASE specs = {} /\ Done /\ UNCHANGED plugins
  <2>1. step' = "startup" /\ specs' = specs /\ startups' = startups
    BY <1>1, <1>3, Advance DEF plugins
  <2>2. ASSUME NEW h \in Contributed
        PROVE  Coming(h)'
    <3>1. Coming(h)
      BY DEF HooksInv
    <3> QED
      BY <1>1, <1>3, <2>1, <3>1 DEF Coming
  <2>3. /\ \A k \in DOMAIN startups' : Promised(startups[k])'
        /\ \A i \in specs' : Plugin(i)'.active
    BY <1>3, <1>6, <2>1 DEF HooksInv, Promised
  <2> QED
    BY <1>1, <1>6, <2>1, <2>2, <2>3 DEF HooksInv, Steps, Coming
<1>4. CASE \E i \in First(specs) : /\ Plugin(i).name \in Compiled
                                   /\ startups' = startups \o StartupsOf(Plugin(i))
                                   /\ specs' = specs \ {i} /\ step' = step
  <2>1. PICK i \in First(specs) : /\ Plugin(i).name \in Compiled
                                  /\ startups' = startups \o StartupsOf(Plugin(i))
                                  /\ specs' = specs \ {i} /\ step' = step
    BY <1>4
  <2>2. i \in specs /\ i \in DOMAIN DefaultSpecs(df.plugins)
    BY DEF First, HooksInv
  <2>3. Plugin(i) \in PluginSpec
    <3>1. DefaultSpecs(df.plugins) \in Seq(PluginSpec)
      BY Listed DEF HooksInv
    <3> QED
      BY <2>2, <3>1, ElementOf DEF Plugin
  <2>11. HooksOf(Plugin(i)) \subseteq Contributed
    BY <2>2, ActiveContributes DEF HooksInv
  <2> DEFINE t == StartupsOf(Plugin(i))
  <2>4. /\ t \in Seq(StartupHook)
        /\ \A k \in DOMAIN t : /\ t[k].hooks \subseteq HooksOf(Plugin(i))
                               /\ t[k].name \notin {"systemd", "rbenv"} => t[k].hooks = {}
        /\ \A h \in HooksOf(Plugin(i)) : \E k \in DOMAIN t : h \in t[k].hooks
    BY <2>1, <2>3, StartupsOfTypes
  <2>5. startups \in Seq(StartupHook) /\ startups' = startups \o t
    BY <2>1 DEF HooksInv
  <2> HIDE DEF t
  <2>6. /\ DOMAIN startups = 1..Len(startups) /\ Len(startups) \in Nat
        /\ DOMAIN t = 1..Len(t) /\ Len(t) \in Nat
    BY <2>4, <2>5, ElementOf
  <2>7. /\ startups' \in Seq(StartupHook) /\ DOMAIN startups' = 1..(Len(startups) + Len(t))
        /\ \A k \in 1..Len(startups) : startups'[k] = startups[k]
        /\ \A k \in 1..(Len(startups) + Len(t)) :
               k > Len(startups) => k - Len(startups) \in 1..Len(t) /\ startups'[k] = t[k - Len(startups)]
    BY <2>4, <2>5, Appending
  <2>12. \A k \in 1..Len(t) : Len(startups) + k \in DOMAIN startups' /\ startups'[Len(startups) + k] = t[k]
    <3> DEFINE n == Len(startups)
               m == Len(t)
    <3>1. n \in Nat /\ m \in Nat /\ DOMAIN startups' = 1..(n + m)
          /\ \A k \in 1..(n + m) : k > n => startups'[k] = t[k - n]
      BY <2>6, <2>7
    <3> HIDE DEF n, m
    <3>2. ASSUME NEW k \in 1..m
          PROVE  n + k \in 1..(n + m) /\ n + k > n /\ (n + k) - n = k
      BY <3>1
    <3>3. \A k \in 1..m : n + k \in DOMAIN startups' /\ startups'[n + k] = t[k]
      BY <3>1, <3>2
    <3> QED
      BY <3>3 DEF n, m
  <2>9. ASSUME NEW h \in Contributed
        PROVE  Coming(h)'
    <3>1. Coming(h)
      BY DEF HooksInv
    <3>2. CASE h \in HooksOf(Plugin(i))
      <4>1. PICK k \in DOMAIN t : h \in t[k].hooks
        BY <2>4, <3>2
      <4>2. Len(startups) + k \in DOMAIN startups' /\ h \in startups'[Len(startups) + k].hooks
        BY <2>6, <2>12, <4>1
      <4> QED
        BY <1>1, <2>1, <4>2 DEF Coming
    <3>3. CASE \E k \in specs : h \in HooksOf(Plugin(k)) /\ k # i
      <4>1. PICK k \in specs : h \in HooksOf(Plugin(k)) /\ k # i
        BY <3>3
      <4>2. k \in specs' /\ h \in HooksOf(Plugin(k))'
        BY <1>6, <2>1, <4>1 DEF HooksOf
      <4> QED
        BY <1>1, <2>1, <4>2 DEF Coming
    <3>4. CASE \E k \in DOMAIN startups : h \in startups[k].hooks
      <4>1. PICK k \in DOMAIN startups : h \in startups[k].hooks
        BY <3>4
      <4>2. k \in DOMAIN startups' /\ h \in startups'[k].hooks
        BY <2>6, <2>7, <4>1
      <4> QED
        BY <1>1, <2>1, <4>2 DEF Coming
    <3>5. CASE h \in hooks /\ h[3] \in tasks
      BY <1>1, <3>5 DEF Coming
    <3> QED
      BY <1>1, <3>1, <3>2, <3>3, <3>4, <3>5 DEF Coming
  <2>10. specs' \subseteq DOMAIN DefaultSpecs(df.plugins) /\ (\A k \in specs' : Plugin(k)'.active)
    BY <1>6, <2>1 DEF HooksInv
  <2>13. ASSUME NEW k \in DOMAIN startups'
         PROVE  Promised(startups[k])'
    <3>1. CASE k \in 1..Len(startups)
      <4>1. Promised(startups[k])
        BY <2>6, <3>1 DEF HooksInv
      <4> QED
        BY <1>6, <2>7, <3>1, <4>1 DEF Promised
    <3>2. CASE k > Len(startups)
      <4>1. k - Len(startups) \in DOMAIN t /\ startups'[k] = t[k - Len(startups)]
        BY <2>6, <2>7, <3>2
      <4> QED
        BY <1>6, <2>4, <2>11, <4>1 DEF Promised
    <3> QED
      BY <2>6, <2>7, <3>1, <3>2
  <2> QED
    BY <1>1, <1>6, <2>1, <2>7, <2>9, <2>10, <2>13 DEF HooksInv, Coming
<1>5. \/ UNCHANGED plugins /\ step' = step
      \/ specs = {} /\ Done /\ UNCHANGED plugins
      \/ \E i \in First(specs) : /\ Plugin(i).name \in Compiled
                                 /\ startups' = startups \o StartupsOf(Plugin(i))
                                 /\ specs' = specs \ {i} /\ step' = step
  BY DEF Configure, Stop
<1> QED
  BY <1>2, <1>3, <1>4, <1>5

LEMMA TailKeeps ==
    ASSUME NEW S, NEW s \in Seq(S), s # << >>
    PROVE  /\ Tail(s) \in Seq(S) /\ Head(s) = s[1] /\ 1 \in DOMAIN s
           /\ \A k \in DOMAIN s : k # 1 => k - 1 \in DOMAIN Tail(s) /\ Tail(s)[k - 1] = s[k]
           /\ \A k \in DOMAIN Tail(s) : k + 1 \in DOMAIN s /\ Tail(s)[k] = s[k + 1]
<1>1. DOMAIN s = 1..Len(s) /\ Len(s) \in Nat /\ Len(s) > 0
  OBVIOUS
<1>2. Tail(s) \in Seq(S) /\ Len(Tail(s)) = Len(s) - 1 /\ DOMAIN Tail(s) = 1..(Len(s) - 1)
  OBVIOUS
<1>3. \A k \in 1..(Len(s) - 1) : Tail(s)[k] = s[k + 1]
  OBVIOUS
<1> QED
  BY <1>1, <1>2, <1>3

\* A startup hook is run: what it contributes is there, and nothing else.
LEMMA HooksPop ==
    ASSUME HooksInv, step = "startup", step' = step, UNCHANGED <<df, specs>>,
           startups # << >>, startups' = Tail(startups),
           hooks' = hooks \cup Head(startups).hooks,
           tasks' = tasks \cup {h[3] : h \in Head(startups).hooks}
    PROVE  HooksInv'
<1>1. /\ startups' \in Seq(StartupHook) /\ Head(startups) = startups[1] /\ 1 \in DOMAIN startups
      /\ \A k \in DOMAIN startups : k # 1 => k - 1 \in DOMAIN startups' /\ startups'[k - 1] = startups[k]
      /\ \A k \in DOMAIN startups' : k + 1 \in DOMAIN startups /\ startups'[k] = startups[k + 1]
  BY TailKeeps DEF HooksInv
<1>2. /\ Contributed' = Contributed /\ TheirTasks' = TheirTasks
      /\ DefaultSpecs(df.plugins)' = DefaultSpecs(df.plugins)
      /\ \A i : Plugin(i)' = Plugin(i)
      /\ \A s : Promised(s)' = Promised(s)
  BY SameContributed
<1>3. ASSUME NEW h \in Contributed
      PROVE  Coming(h)'
  <2>1. Coming(h)
    BY DEF HooksInv
  <2>2. CASE h \in hooks /\ h[3] \in tasks
    BY <2>2 DEF Coming
  <2>3. CASE h \in Head(startups).hooks
    BY <2>3 DEF Coming
  <2>4. CASE (\E k \in DOMAIN startups : h \in startups[k].hooks) /\ h \notin Head(startups).hooks
    <3>1. PICK k \in DOMAIN startups : h \in startups[k].hooks
      BY <2>4
    <3>2. k - 1 \in DOMAIN startups' /\ h \in startups'[k - 1].hooks
      BY <1>1, <2>4, <3>1
    <3> QED
      BY <3>2 DEF Coming
  <2> QED
    BY <2>1, <2>2, <2>3, <2>4 DEF Coming
<1>4. Head(startups).hooks \subseteq Contributed
  BY <1>1 DEF HooksInv, Promised
<1>5. "deploy:failed" \notin df'.custom \cup tasks' \cup TheirTasks'
  BY <1>2, <1>4 DEF HooksInv, TheirTasks
<1>6. df'.hooks \subseteq hooks' /\ hooks' \subseteq df'.hooks \cup Contributed'
  BY <1>2, <1>4 DEF HooksInv
<1>7. /\ \A k \in DOMAIN startups' : Promised(startups[k])'
      /\ \A i \in specs' : Plugin(i)'.active
  BY <1>1, <1>2 DEF HooksInv, Promised
<1> QED
  BY <1>1, <1>2, <1>3, <1>5, <1>6, <1>7 DEF HooksInv, Coming

\* One that contributes nothing.
LEMMA HooksPopNothing ==
    ASSUME HooksInv, step = "startup", step' = step, UNCHANGED <<df, specs, tasks, hooks>>,
           startups # << >>, startups' = Tail(startups),
           Head(startups).name \notin {"systemd", "rbenv"}
    PROVE  HooksInv'
<1>1. Head(startups) = startups[1] /\ 1 \in DOMAIN startups
  BY TailKeeps DEF HooksInv
<1>2. Head(startups).hooks = {}
  BY <1>1 DEF HooksInv, Promised
<1> QED
  BY <1>2, HooksPop

LEMMA HooksAddTask ==
    ASSUME HooksInv, AddTask
    PROVE  HooksInv'
<1>1. /\ step = "startup" /\ step' = step /\ UNCHANGED <<df, specs>> /\ startups # << >>
  BY DEF AddTask, Starting, Turn
<1>2. CASE UNCHANGED <<tasks, hooks, startups>>
  BY <1>1, <1>2, HooksQuiet DEF contents
<1>3. CASE /\ tasks' = tasks \cup {k[3] : k \in Head(startups).hooks}
           /\ hooks' = hooks \cup Head(startups).hooks
           /\ startups' = Tail(startups)
  BY <1>1, <1>3, HooksPop
<1> QED
  BY <1>2, <1>3 DEF AddTask

LEMMA HooksValidated ==
    ASSUME HooksInv, ValidateHooks
    PROVE  HooksInv'
<1>1. step = "hooks" /\ error = "" /\ UNCHANGED <<df, specs, startups, tasks, hooks>>
  BY DEF ValidateHooks, Turn, plugins, contents
<1>2. /\ Contributed' = Contributed /\ TheirTasks' = TheirTasks
      /\ DefaultSpecs(df.plugins)' = DefaultSpecs(df.plugins)
      /\ \A i : Plugin(i)' = Plugin(i)
      /\ \A s : Promised(s)' = Promised(s)
  BY <1>1, SameContributed
<1>3. \A h \in Contributed : h \in hooks /\ h[3] \in tasks
  BY <1>1 DEF HooksInv, Coming
<1>4. \A h : Fires(h)' <=> Fires(h)
  BY <1>1 DEF Fires
<1>5. \A h \in Contributed' : Coming(h)'
  BY <1>1, <1>2, <1>3 DEF Coming
<1>8. /\ \A k \in DOMAIN startups' : Promised(startups[k])'
      /\ \A i \in specs' : Plugin(i)'.active
  BY <1>1, <1>2 DEF HooksInv, Promised
<1>6. CASE HooksValid /\ Done
  <2>1. step' = "run"
    BY <1>1, <1>6, Advance
  <2>2. ASSUME NEW h \in hooks
        PROVE  Fires(h) /\ h[3] \in tasks
    <3>1. /\ h[2] \in Phases \cup {"deploy:failed", "deploy:rollback"} \cup df.custom \cup tasks
          /\ h[3] \in tasks
          /\ ~(h[1] = "before" /\ h[2] = "deploy:failed")
      BY <1>6 DEF HooksValid
    <3>2. h[1] \in {"before", "after"}
      <4>1. df.hooks \subseteq Hooks
        BY DeployfileAssumption DEF HooksInv
      <4>2. Contributed \subseteq Anchored
        <5>1. ASSUME NEW s \in Range(df.plugins)
              PROVE  HooksOf(s) \subseteq Anchored
          BY PluginTypes, HooksOfTypes DEF HooksInv
        <5> QED
          BY <5>1 DEF Contributed
      <4>3. h \in Hooks \/ h \in Anchored
        BY <4>1, <4>2 DEF HooksInv
      <4> QED
        BY <4>3 DEF Hooks, Anchored
    <3> QED
      BY <3>1, <3>2 DEF Fires
  <2>3. step' = "run" => \A h \in hooks' : Fires(h)' /\ h[3] \in tasks'
    BY <1>1, <1>4, <2>2
  <2> QED
    BY <1>1, <1>2, <1>5, <1>8, <2>1, <2>3 DEF HooksInv, Steps, Fires
<1>7. CASE ~HooksValid /\ Stop("config")
  <2>1. step' = "hooks"
    BY <1>1, <1>7 DEF Stop
  <2>2. TheirTasks \subseteq tasks /\ "deploy:failed" \notin df.custom \cup tasks
    BY <1>3 DEF HooksInv, TheirTasks
  <2>3. ASSUME NEW h \in hooks, h[3] \notin tasks
        PROVE  Rightly
    BY <2>2, <2>3 DEF Rightly
  <2>4. ASSUME NEW h \in hooks, h[2] \notin Phases \cup {"deploy:failed", "deploy:rollback"} \cup df.custom \cup tasks
        PROVE  Rightly
    <3>1. ~Fires(h)
      BY <2>4 DEF Fires
    <3> QED
      BY <2>2, <2>4, <3>1 DEF Rightly
  <2>5. ASSUME NEW h \in hooks, h[1] = "before", h[2] = "deploy:failed"
        PROVE  Rightly
    <3>1. ~Fires(h)
      BY <2>2, <2>5 DEF Fires, Phases
    <3> QED
      BY <2>2, <2>5, <3>1 DEF Rightly
  <2>7. Rightly
    BY <1>7, <2>3, <2>4, <2>5 DEF HooksValid
  <2>8. Rightly'
    BY <1>1, <1>2, <2>7 DEF Rightly, Fires
  <2> QED
    BY <1>1, <1>2, <1>5, <1>8, <2>1, <2>8 DEF HooksInv, Steps, Rightly
<1> QED
  BY <1>6, <1>7 DEF ValidateHooks

LEMMA HooksStep == HooksInv /\ [Next]_allVars => HooksInv'
<1> SUFFICES ASSUME HooksInv, [Next]_allVars PROVE HooksInv'
  OBVIOUS
<1>1. CASE ApplyLogConfig
  <2>1. UNCHANGED <<df, specs, startups, contents>> /\ step \in {"flags", "log"}
    BY <1>1 DEF ApplyLogConfig, plugins, Turn
  <2>2. \/ step' = step
        \/ step = "flags" /\ step' = "load"
        \/ step = "log" /\ step' = "render"
    BY <1>1, <2>1, Advance DEF ApplyLogConfig, SetupLogging, Stop
  <2> QED
    BY <2>1, <2>2, HooksQuiet
<1>2. CASE Load
  <2>1. UNCHANGED <<df, specs, startups, contents>> /\ step = "load" /\ step' \in {"load", "log"}
    BY <1>2, Advance DEF Load, plugins, Turn, Stop
  <2> QED
    BY <2>1, HooksQuiet
<1>3. CASE Render
  <2>1. UNCHANGED <<df, specs, startups, contents>> /\ step = "render" /\ step' \in {"render", "select"}
    BY <1>3, Advance DEF Render, plugins, Turn, Stop
  <2> QED
    BY <2>1, HooksQuiet
<1>4. CASE Select
  BY <1>4, HooksSelect
<1>5. CASE Configure
  BY <1>5, HooksConfigure
<1>6. CASE AppendHosts
  <2>1. /\ step = "startup" /\ step' = step /\ UNCHANGED <<df, specs, contents>> /\ startups # << >>
        /\ Head(startups).name = "inventory"
        /\ startups' = startups \/ startups' = Tail(startups)
    BY <1>6 DEF AppendHosts, Starting, Turn
  <2>2. CASE startups' = startups
    BY <2>1, <2>2, HooksQuiet
  <2>3. CASE startups' = Tail(startups)
    BY <2>1, <2>3, HooksPopNothing DEF contents
  <2> QED
    BY <2>1, <2>2, <2>3
<1>7. CASE SecretsImported \/ PrintInstalled
  <2>1. /\ step = "startup" /\ step' = step /\ UNCHANGED <<df, specs, contents>> /\ startups # << >>
        /\ Head(startups).name \in {"secrets", "print"}
        /\ startups' = Tail(startups)
    BY <1>7 DEF SecretsImported, PrintInstalled, Starting, Turn
  <2> QED
    BY <2>1, HooksPopNothing DEF contents
<1>8. CASE AddTask
  BY <1>8, HooksAddTask
<1>9. CASE StartupsOver
  <2>1. /\ step = "startup" /\ step' = "defaults" /\ startups = << >>
        /\ UNCHANGED <<df, specs, startups, tasks, hooks>>
    BY <1>9, Advance DEF StartupsOver, Turn, plugins, contents
  <2>2. /\ Contributed' = Contributed /\ TheirTasks' = TheirTasks
        /\ DefaultSpecs(df.plugins)' = DefaultSpecs(df.plugins)
        /\ \A i : Plugin(i)' = Plugin(i)
        /\ \A s : Promised(s)' = Promised(s)
    BY <2>1, SameContributed
  <2>3. \A h \in Contributed : h \in hooks /\ h[3] \in tasks
    BY <2>1 DEF HooksInv, Coming
  <2>4. /\ \A k \in DOMAIN startups' : Promised(startups[k])'
        /\ \A i \in specs' : Plugin(i)'.active
    BY <2>1, <2>2 DEF HooksInv, Promised
  <2> QED
    BY <2>1, <2>2, <2>3, <2>4 DEF HooksInv, Steps, Coming
<1>10. CASE DefaultsAgain
  <2>1. /\ UNCHANGED <<df, specs, startups, contents>> /\ step = "defaults" /\ step' = "hooks"
        /\ error' = ""
    BY <1>10, Advance DEF DefaultsAgain, plugins, Turn
  <2> QED
    BY <2>1, HooksQuiet
<1>11. CASE ValidateHooks
  BY <1>11, HooksValidated
<1>12. CASE UNCHANGED cli /\ (error' = error \/ step # "hooks")
  BY <1>12, HooksQuiet DEF cli, plugins
<1>13. CASE Resolving \/ ImportSecrets \/ Dotenv \/ AskForDotenv
  <2>1. UNCHANGED cli /\ step # "hooks"
    BY <1>13 DEF Resolving, ImportSecrets, Dotenv, AskForDotenv, Turn
  <2> QED
    BY <1>12, <2>1
<1>14. CASE (Tick \/ Interrupt) /\ UNCHANGED cli
  <2>1. error' = error
    BY <1>14 DEF Tick, Interrupt
  <2> QED
    BY <1>12, <1>14, <2>1
<1>15. CASE UNCHANGED allVars
  BY <1>12, <1>15 DEF allVars, secretVars
<1> QED
  BY <1>1, <1>2, <1>3, <1>4, <1>5, <1>6, <1>7, <1>8, <1>9, <1>10, <1>11, <1>13, <1>14, <1>15 DEF Next, Work

\* No hook is silently dead: once the load is over each hook can fire and has
\* its task; the hooks are those of the file and each one the active plugins
\* were asked for, at whatever phases, before or after, and no others; and no
\* Deployfile is refused for a hook that a plugin makes good (root.go:574-580,
\* validate.go:139-180, systemd.go:176-220, rbenv.go:262-272).
THEOREM LoadedHooksFire ==
    ASSUME ClearNames
    PROVE  Spec => []HooksFire
<1>1. HooksInv => HooksFire
  <2> SUFFICES ASSUME HooksInv PROVE HooksFire
    OBVIOUS
  <2>1. step = "run" => hooks = df.hooks \cup Contributed
    BY DEF HooksInv, Coming
  <2> QED
    BY <2>1 DEF HooksInv, HooksFire, Rightly
<1>2. Init => HooksInv
  BY HooksInit
<1> QED
  BY <1>1, <1>2, HooksStep, PTL DEF Spec

-----------------------------------------------------------------------------
\* What a load merges (MergedOnce).

Frames == [file : Files, next : Nat \ {0}, merged : Configurations]

FileTypes ==
    /\ disk \in [Files -> {"unread", "missing", "broken", "read"}]
    /\ include \in [Files -> Seq(Files)]
    /\ stack \in Seq(Frames)
    /\ calling \in Files \cup {None}
    /\ seen \in SUBSET Files
    /\ base \in Configurations \cup {None}
    /\ cfg \in Configurations \cup {None}

\* f is the stage file: where it is looked for, every place before is empty.
FirstOn(found, f) ==
    \E i \in DOMAIN StagePaths :
        f = StagePaths[i] /\ found[f] # "missing" /\ \A j \in 1..(i - 1) : found[StagePaths[j]] = "missing"

IsStage(f) == FirstOn(disk, f)

\* Every field of c has the value of the last file that sets it.
Overriding(c) ==
    \A p \in Fields : IF Range(c.listed) \cap p = {} THEN c.from[p] = None ELSE SetsLast(c.from[p], p, c.listed)

\* The files of s are read, each once, and come after those they include.
Ordered(s) ==
    /\ \A i, j \in DOMAIN s : s[i] = s[j] => i = j
    /\ \A i \in DOMAIN s : disk[s[i]] = "read" /\ \A g \in Includes(s[i]) : \E j \in 1..(i - 1) : s[j] = g

\* Every file of S is included by one of S, or is the Deployfile, or is the stage file.
Reached(S, late) == \A f \in S : f = Root \/ (late /\ IsStage(f)) \/ \E g \in S : f \in Includes(g)

\* The Deployfile and what it includes, the Deployfile last.
BaseMerged ==
    /\ base # None
    /\ Overriding(base) /\ Ordered(base.listed)
    /\ base.listed # << >> /\ base.listed[Len(base.listed)] = Root
    /\ Reached(Range(base.listed), FALSE)

\* What the load merged.
CfgMerged ==
    LET s == cfg.listed IN
    /\ Overriding(cfg) /\ Ordered(s)
    /\ Root \in Range(s) /\ Reached(Range(s), TRUE)
    /\ \E st \in Range(s) :
        /\ IsStage(st)
        /\ Before(st, Root, s) =>
               \E f \in Range(s) : st \in Includes(f) /\ (f = Root \/ Before(f, Root, s))

\* The circle that was refused.
CircleFound ==
    \E ring \in SUBSET Files : ring # {} /\ \A f \in ring : disk[f] = "read" /\ Includes(f) \cap ring # {}

\* What the resolution that runs begins with.
Begins(f) == IF progress = "base" THEN f = Root ELSE IsStage(f)

\* A call of resolveIncludes: what it has gone through of its include: is merged, but for
\* the entry it waits for.
FrameInv(k, done) ==
    LET f == stack[k].file  n == stack[k].next - 1 IN
    /\ disk[f] = "read" /\ f \notin Range(done)
    /\ n \in 1..Len(include[f])
    /\ \A q \in 1..n : include[f][q] \in Range(done) \/ (q = n /\ (k # 1 \/ calling # None))
    /\ k # 1 => include[f][n] = stack[k - 1].file
    /\ k = 1 /\ calling # None => include[f][n] = calling
    /\ Overriding(stack[k].merged)

\* The lists of all calls one after the other, from the outermost: w[k] is what stands
\* before the list of call k.  The files merged so far, w[0], are in their final order.
Lists(w) ==
    /\ w \in [0..Len(stack) -> Seq(Files)]
    /\ w[Len(stack)] = IF progress = "base" THEN << >> ELSE base.listed
    /\ \A k \in 1..Len(stack) : w[k - 1] = w[k] \o stack[k].merged.listed

WalkInv(done) ==
    /\ Ordered(done)
    /\ seen = Range(done) \cup Ancestors
    /\ \A j, k \in 1..Len(stack) : stack[j].file = stack[k].file => j = k
    /\ \A k \in 1..Len(stack) : FrameInv(k, done)
    /\ Reached(seen, progress = "stage")
    /\ stack # << >> => Begins(stack[Len(stack)].file)
    /\ stack = << >> /\ calling # None => Begins(calling)
    /\ stack = << >> /\ progress = "base" => calling = Root /\ seen = {}
    /\ progress = "stage" => BaseMerged

Walks == \E w : Lists(w) /\ WalkInv(w[0])

LoadInv ==
    /\ FileTypes
    /\ progress \in {"base", "stage"} \/ (stack = << >> /\ calling = None)
    /\ failure = "circular" => CircleFound
    /\ cfg # None => CfgMerged
    /\ caller = "load" /\ progress \in {"base", "stage"} => Walks

-----------------------------------------------------------------------------
\* Sequences and configurations.

LEMMA JoinFacts ==
    ASSUME NEW S, NEW x \in Seq(S), NEW y \in Seq(S)
    PROVE  /\ x \o y \in Seq(S) /\ Len(x) \in Nat /\ Len(y) \in Nat /\ Len(x \o y) = Len(x) + Len(y)
           /\ DOMAIN x = 1..Len(x) /\ DOMAIN y = 1..Len(y) /\ DOMAIN (x \o y) = 1..(Len(x) + Len(y))
           /\ \A m \in 1..Len(x) : (x \o y)[m] = x[m]
           /\ \A m \in 1..Len(y) : (x \o y)[Len(x) + m] = y[m]
  OBVIOUS

LEMMA EndFacts ==
    ASSUME NEW S, NEW x \in Seq(S), NEW c \in S
    PROVE  /\ Append(x, c) \in Seq(S) /\ Len(x) \in Nat /\ Len(Append(x, c)) = Len(x) + 1
           /\ DOMAIN x = 1..Len(x) /\ DOMAIN Append(x, c) = 1..(Len(x) + 1)
           /\ \A m \in 1..Len(x) : Append(x, c)[m] = x[m]
           /\ Append(x, c)[Len(x) + 1] = c
  OBVIOUS

LEMMA EndRange ==
    ASSUME NEW S, NEW x \in Seq(S), NEW c \in S
    PROVE  Range(Append(x, c)) = Range(x) \cup {c}
<1> DEFINE y == Append(x, c)
<1>1. /\ DOMAIN x = 1..Len(x) /\ DOMAIN y = 1..(Len(x) + 1) /\ Len(x) \in Nat
      /\ \A m \in 1..Len(x) : y[m] = x[m]
      /\ y[Len(x) + 1] = c
  BY EndFacts
<1> HIDE DEF y
<1>2. Range(y) = Range(x) \cup {c}
  <2>1. ASSUME NEW f \in Range(y)
        PROVE  f \in Range(x) \cup {c}
    <3>1. PICK i \in 1..(Len(x) + 1) : y[i] = f
      BY <1>1 DEF Range
    <3>2. i \in 1..Len(x) \/ i = Len(x) + 1
      BY <1>1
    <3> QED
      BY <1>1, <3>1, <3>2 DEF Range
  <2>2. ASSUME NEW f \in Range(x)
        PROVE  f \in Range(y)
    <3>1. PICK i \in 1..Len(x) : x[i] = f
      BY <1>1 DEF Range
    <3>2. i \in 1..(Len(x) + 1) /\ y[i] = f
      BY <1>1, <3>1
    <3> QED
      BY <1>1, <3>2 DEF Range
  <2>3. c \in Range(y)
    <3>1. Len(x) + 1 \in 1..(Len(x) + 1)
      BY <1>1
    <3> QED
      BY <1>1, <3>1 DEF Range
  <2> QED
    BY <2>1, <2>2, <2>3
<1> QED
  BY <1>2 DEF y

LEMMA JoinRange ==
    ASSUME NEW S, NEW x \in Seq(S), NEW y \in Seq(S)
    PROVE  Range(x) \subseteq Range(x \o y) /\ Range(y) \subseteq Range(x \o y)
           /\ Range(x \o y) \subseteq Range(x) \cup Range(y)
<1> DEFINE z == x \o y
<1>1. /\ Len(x) \in Nat /\ Len(y) \in Nat
      /\ DOMAIN x = 1..Len(x) /\ DOMAIN y = 1..Len(y) /\ DOMAIN z = 1..(Len(x) + Len(y))
      /\ \A m \in 1..Len(x) : z[m] = x[m]
      /\ \A m \in 1..Len(y) : z[Len(x) + m] = y[m]
  BY JoinFacts
<1> HIDE DEF z
<1>2. ASSUME NEW f \in Range(x)
      PROVE  f \in Range(z)
  <2>1. PICK i \in 1..Len(x) : x[i] = f
    BY <1>1 DEF Range
  <2>2. i \in 1..(Len(x) + Len(y)) /\ z[i] = f
    BY <1>1, <2>1
  <2> QED
    BY <1>1, <2>2 DEF Range
<1>3. ASSUME NEW f \in Range(y)
      PROVE  f \in Range(z)
  <2>1. PICK i \in 1..Len(y) : y[i] = f
    BY <1>1 DEF Range
  <2>2. Len(x) + i \in 1..(Len(x) + Len(y)) /\ z[Len(x) + i] = f
    BY <1>1, <2>1
  <2> QED
    BY <1>1, <2>2 DEF Range
<1>4. ASSUME NEW f \in Range(z)
      PROVE  f \in Range(x) \cup Range(y)
  <2>1. PICK i \in 1..(Len(x) + Len(y)) : z[i] = f
    BY <1>1 DEF Range
  <2>2. CASE i \in 1..Len(x)
    BY <1>1, <2>1, <2>2 DEF Range
  <2>3. CASE i \notin 1..Len(x)
    <3>1. PICK m \in 1..Len(y) : i = Len(x) + m
      <4>1. i - Len(x) \in 1..Len(y) /\ i = Len(x) + (i - Len(x))
        BY <1>1, <2>3
      <4> QED
        BY <4>1
    <3> QED
      BY <1>1, <2>1, <3>1 DEF Range
  <2> QED
    BY <2>2, <2>3
<1> QED
  BY <1>2, <1>3, <1>4 DEF z

\* The last file of two lists together that sets a field.
LEMMA LastOfBoth ==
    ASSUME NEW S, NEW x \in Seq(S), NEW y \in Seq(S), NEW p, NEW f
    PROVE  /\ SetsLast(f, p, y) => SetsLast(f, p, x \o y)
           /\ SetsLast(f, p, x) /\ Range(y) \cap p = {} => SetsLast(f, p, x \o y)
<1> DEFINE z == x \o y
<1>1. /\ Len(x) \in Nat /\ Len(y) \in Nat
      /\ DOMAIN x = 1..Len(x) /\ DOMAIN y = 1..Len(y) /\ DOMAIN z = 1..(Len(x) + Len(y))
      /\ \A m \in 1..Len(x) : z[m] = x[m]
      /\ \A m \in 1..Len(y) : z[Len(x) + m] = y[m]
  BY JoinFacts
<1> HIDE DEF z
<1>2. ASSUME NEW j \in 1..(Len(x) + Len(y)), j \notin 1..Len(x)
      PROVE  \E m \in 1..Len(y) : j = Len(x) + m
  <2>1. j - Len(x) \in 1..Len(y) /\ j = Len(x) + (j - Len(x))
    BY <1>1, <1>2
  <2> QED
    BY <2>1
<1>3. ASSUME SetsLast(f, p, y)
      PROVE  SetsLast(f, p, z)
  <2>1. PICK i \in 1..Len(y) : y[i] = f /\ f \in p /\ \A j \in 1..Len(y) : y[j] \in p => j <= i
    BY <1>1, <1>3 DEF SetsLast
  <2>2. Len(x) + i \in 1..(Len(x) + Len(y)) /\ z[Len(x) + i] = f
    BY <1>1, <2>1
  <2>3. ASSUME NEW j \in 1..(Len(x) + Len(y)), z[j] \in p
        PROVE  j <= Len(x) + i
    <3>1. CASE j \in 1..Len(x)
      BY <1>1, <3>1
    <3>2. CASE j \notin 1..Len(x)
      <4>1. PICK m \in 1..Len(y) : j = Len(x) + m
        BY <1>2, <3>2
      <4>2. y[m] \in p
        BY <1>1, <2>3, <4>1
      <4>3. m <= i
        BY <2>1, <4>2
      <4> QED
        BY <1>1, <4>1, <4>3
    <3> QED
      BY <3>1, <3>2
  <2> QED
    BY <1>1, <2>1, <2>2, <2>3 DEF SetsLast
<1>4. ASSUME SetsLast(f, p, x), Range(y) \cap p = {}
      PROVE  SetsLast(f, p, z)
  <2>1. PICK i \in 1..Len(x) : x[i] = f /\ f \in p /\ \A j \in 1..Len(x) : x[j] \in p => j <= i
    BY <1>1, <1>4 DEF SetsLast
  <2>2. i \in 1..(Len(x) + Len(y)) /\ z[i] = f
    BY <1>1, <2>1
  <2>3. ASSUME NEW j \in 1..(Len(x) + Len(y)), z[j] \in p
        PROVE  j <= i
    <3>1. CASE j \in 1..Len(x)
      BY <1>1, <2>1, <2>3, <3>1
    <3>2. CASE j \notin 1..Len(x)
      <4>1. PICK m \in 1..Len(y) : j = Len(x) + m
        BY <1>2, <3>2
      <4>2. y[m] \in Range(y) /\ y[m] \in p
        BY <1>1, <2>3, <4>1 DEF Range
      <4> QED
        BY <1>4, <4>2
    <3> QED
      BY <3>1, <3>2
  <2> QED
    BY <1>1, <2>1, <2>2, <2>3 DEF SetsLast
<1> QED
  BY <1>3, <1>4 DEF z

\* What one file over another sets follows the order of their lists.
LEMMA MergeOverrides ==
    ASSUME NEW a \in Configurations, NEW b \in Configurations, Overriding(a), Overriding(b)
    PROVE  /\ Merge(a, b) \in Configurations
           /\ Merge(a, b).listed = a.listed \o b.listed
           /\ Overriding(Merge(a, b))
<1> DEFINE x == a.listed
           y == b.listed
           z == x \o y
           m == Merge(a, b)
<1>1. x \in Seq(Files) /\ y \in Seq(Files) /\ z \in Seq(Files)
      /\ a.from \in [Fields -> Files \cup {None}] /\ b.from \in [Fields -> Files \cup {None}]
  <2>1. x \in Seq(Files) /\ y \in Seq(Files)
      /\ a.from \in [Fields -> Files \cup {None}] /\ b.from \in [Fields -> Files \cup {None}]
    BY DEF Configurations
  <2> QED
    BY <2>1, JoinFacts
<1>2. /\ m.listed = z
      /\ m.from = [p \in Fields |-> IF b.from[p] # None THEN b.from[p] ELSE a.from[p]]
  BY DEF Merge
<1>3. m \in Configurations
  <2>1. m.from \in [Fields -> Files \cup {None}]
    BY <1>1, <1>2
  <2>2. m = [listed |-> m.listed, from |-> m.from]
    BY DEF Merge
  <2> HIDE DEF m
  <2> QED
    BY <1>1, <1>2, <2>1, <2>2 DEF Configurations
<1>4. Range(x) \subseteq Range(z) /\ Range(y) \subseteq Range(z) /\ Range(z) \subseteq Range(x) \cup Range(y)
  BY <1>1, JoinRange
<1>5. \A p, f : /\ SetsLast(f, p, y) => SetsLast(f, p, z)
                /\ SetsLast(f, p, x) /\ Range(y) \cap p = {} => SetsLast(f, p, z)
  BY <1>1, LastOfBoth
<1>6. \A p, f : SetsLast(f, p, y) => f \in Files
  BY <1>1 DEF SetsLast
<1>7. None \notin Files
  BY FilesAssumption
<1>8. ASSUME NEW p \in Fields
      PROVE  IF Range(z) \cap p = {} THEN m.from[p] = None ELSE SetsLast(m.from[p], p, z)
  <2>1. /\ IF Range(x) \cap p = {} THEN a.from[p] = None ELSE SetsLast(a.from[p], p, x)
        /\ IF Range(y) \cap p = {} THEN b.from[p] = None ELSE SetsLast(b.from[p], p, y)
    BY DEF Overriding
  <2>2. m.from[p] = IF b.from[p] # None THEN b.from[p] ELSE a.from[p]
    BY <1>2
  <2> HIDE DEF m, x, y, z
  <2>3. CASE Range(y) \cap p # {}
    BY <1>4, <1>5, <1>6, <1>7, <2>1, <2>2, <2>3
  <2>4. CASE Range(y) \cap p = {} /\ Range(x) \cap p # {}
    BY <1>4, <1>5, <2>1, <2>2, <2>4
  <2>5. CASE Range(y) \cap p = {} /\ Range(x) \cap p = {}
    BY <1>4, <2>1, <2>2, <2>5
  <2> QED
    BY <2>3, <2>4, <2>5
<1>9. Overriding(m)
  BY <1>2, <1>8 DEF Overriding
<1> QED
  BY <1>2, <1>3, <1>9

LEMMA EmptyOverrides ==
    Empty \in Configurations /\ Empty.listed = << >> /\ Overriding(Empty)
<1>1. Empty \in Configurations /\ Empty.listed = << >> /\ Empty.from = [p \in Fields |-> None]
  BY DEF Empty, Configurations
<1>2. Range(<< >>) = {}
  BY DEF Range
<1> QED
  BY <1>1, <1>2 DEF Overriding

LEMMA OwnOverrides ==
    ASSUME NEW f \in Files
    PROVE  Own(f) \in Configurations /\ Own(f).listed = <<f>> /\ Overriding(Own(f))
<1>1. Own(f) \in Configurations /\ Own(f).listed = <<f>>
      /\ Own(f).from = [p \in Fields |-> IF f \in p THEN f ELSE None]
  BY DEF Own, Configurations
<1> DEFINE s == <<f>>
<1>2. DOMAIN s = {1} /\ s[1] = f
  OBVIOUS
<1>3. Range(s) = {f}
  BY <1>2 DEF Range
<1> HIDE DEF s
<1>4. ASSUME NEW p \in Fields
      PROVE  IF {f} \cap p = {} THEN Own(f).from[p] = None ELSE SetsLast(Own(f).from[p], p, s)
  BY <1>1, <1>2 DEF SetsLast
<1>5. Own(f).listed = s
  BY <1>1 DEF s
<1> QED
  BY <1>1, <1>3, <1>4, <1>5 DEF Overriding

-----------------------------------------------------------------------------
\* What was found out stays: files are read once.

Grows == \A f \in Files : disk[f] # "unread" => disk'[f] = disk[f] /\ include'[f] = include[f]

LEMMA StageUnique ==
    ASSUME NEW found, NEW f, NEW g, FirstOn(found, f), FirstOn(found, g)
    PROVE  f = g
<1>1. DOMAIN StagePaths = 1..Len(StagePaths) /\ Len(StagePaths) \in Nat
  BY FilesAssumption
<1>2. PICK i \in 1..Len(StagePaths) :
          f = StagePaths[i] /\ found[f] # "missing" /\ \A j \in 1..(i - 1) : found[StagePaths[j]] = "missing"
  BY <1>1 DEF FirstOn
<1>3. PICK k \in 1..Len(StagePaths) :
          g = StagePaths[k] /\ found[g] # "missing" /\ \A j \in 1..(k - 1) : found[StagePaths[j]] = "missing"
  BY <1>1 DEF FirstOn
<1>4. ~ (i < k)
  <2> SUFFICES ASSUME i < k PROVE FALSE
    OBVIOUS
  <2>1. i \in 1..(k - 1)
    BY <1>1
  <2> QED
    BY <1>2, <1>3, <2>1
<1>5. ~ (k < i)
  <2> SUFFICES ASSUME k < i PROVE FALSE
    OBVIOUS
  <2>1. k \in 1..(i - 1)
    BY <1>1
  <2> QED
    BY <1>2, <1>3, <2>1
<1>6. i = k
  BY <1>1, <1>4, <1>5
<1> QED
  BY <1>2, <1>3, <1>6

LEMMA StageIsFile ==
    ASSUME NEW found, NEW f, FirstOn(found, f)
    PROVE  f \in Files /\ f # Root
<1>1. DOMAIN StagePaths = 1..Len(StagePaths) /\ StagePaths \in Seq(Files)
  BY FilesAssumption
<1>2. f \in Range(StagePaths)
  BY DEF FirstOn, Range
<1> QED
  BY <1>1, <1>2, FilesAssumption DEF Files

LEMMA StageKeeps ==
    ASSUME Grows, NEW f, IsStage(f), disk'[f] # "missing"
    PROVE  IsStage(f)'
<1>1. DOMAIN StagePaths = 1..Len(StagePaths) /\ Len(StagePaths) \in Nat /\ StagePaths \in Seq(Files)
  BY FilesAssumption
<1>2. PICK i \in 1..Len(StagePaths) :
          f = StagePaths[i] /\ disk[f] # "missing" /\ \A j \in 1..(i - 1) : disk[StagePaths[j]] = "missing"
  BY <1>1 DEF IsStage, FirstOn
<1>3. ASSUME NEW j \in 1..(i - 1)
      PROVE  disk'[StagePaths[j]] = "missing"
  <2>1. StagePaths[j] \in Files
    BY <1>1
  <2>2. disk[StagePaths[j]] = "missing"
    BY <1>2
  <2> QED
    BY <2>1, <2>2 DEF Grows
<1> QED
  BY <1>1, <1>2, <1>3 DEF IsStage, FirstOn

LEMMA OrderedKeeps ==
    ASSUME Grows, NEW s \in Seq(Files), Ordered(s)
    PROVE  Ordered(s)'
<1>1. ASSUME NEW i \in DOMAIN s
      PROVE  disk'[s[i]] = "read" /\ include'[s[i]] = include[s[i]]
  <2>1. s[i] \in Files
    OBVIOUS
  <2>2. disk[s[i]] = "read"
    BY DEF Ordered
  <2> QED
    BY <2>1, <2>2 DEF Grows
<1>2. \A i \in DOMAIN s : \A g \in Includes(s[i]) : \E j \in 1..(i - 1) : s[j] = g
  BY DEF Ordered
<1>3. \A i, j \in DOMAIN s : s[i] = s[j] => i = j
  BY DEF Ordered
<1> QED
  BY <1>1, <1>2, <1>3 DEF Ordered, Includes

LEMMA OrderedGrows ==
    ASSUME Grows, NEW s \in Seq(Files), Ordered(s), NEW g \in Files, g \notin Range(s),
           disk'[g] = "read", Range(include'[g]) \subseteq Range(s)
    PROVE  Ordered(Append(s, g))'
<1> DEFINE t == Append(s, g)
<1>1. /\ Len(s) \in Nat /\ DOMAIN s = 1..Len(s) /\ DOMAIN t = 1..(Len(s) + 1)
      /\ \A m \in 1..Len(s) : t[m] = s[m]
      /\ t[Len(s) + 1] = g
  BY EndFacts
<1> HIDE DEF t
<1>2. Ordered(s)'
  BY OrderedKeeps
<1>3. \A i \in 1..(Len(s) + 1) : i \in 1..Len(s) \/ i = Len(s) + 1
  BY <1>1
<1>4. \A m \in 1..Len(s) : t[m] # g
  BY <1>1 DEF Range
<1>5. \A i, j \in 1..(Len(s) + 1) : t[i] = t[j] => i = j
  <2>1. \A i, j \in 1..Len(s) : s[i] = s[j] => i = j
    BY <1>1, <1>2 DEF Ordered
  <2> TAKE i, j \in 1..(Len(s) + 1)
  <2> HAVE t[i] = t[j]
  <2>2. CASE i \in 1..Len(s) /\ j \in 1..Len(s)
    BY <1>1, <2>1, <2>2
  <2> QED
    BY <1>1, <1>3, <1>4, <2>2
<1>6. ASSUME NEW i \in 1..(Len(s) + 1)
      PROVE  disk'[t[i]] = "read" /\ \A h \in Includes(t[i])' : \E j \in 1..(i - 1) : t[j] = h
  <2>1. CASE i \in 1..Len(s)
    <3>1. disk'[s[i]] = "read" /\ \A h \in Includes(s[i])' : \E j \in 1..(i - 1) : s[j] = h
      BY <1>1, <1>2, <2>1 DEF Ordered
    <3>2. \A j \in 1..(i - 1) : j \in 1..Len(s)
      BY <1>1, <2>1
    <3>3. t[i] = s[i] /\ \A j \in 1..(i - 1) : t[j] = s[j]
      BY <1>1, <2>1, <3>2
    <3> QED
      BY <3>1, <3>3
  <2>2. CASE i = Len(s) + 1
    <3>1. t[i] = g /\ i - 1 = Len(s)
      BY <1>1, <2>2
    <3>2. \A h \in Range(s) : \E j \in 1..Len(s) : t[j] = h
      BY <1>1 DEF Range
    <3> QED
      BY <3>1, <3>2 DEF Includes
  <2> QED
    BY <1>3, <2>1, <2>2
<1>7. Ordered(t)'
  BY <1>1, <1>5, <1>6 DEF Ordered
<1> QED
  BY <1>7 DEF t

LEMMA ReachedKeeps ==
    ASSUME Grows, NEW S \in SUBSET Files, NEW late \in BOOLEAN,
           \A f \in S : disk[f] = "read", Reached(S, late)
    PROVE  Reached(S, late)'
<1>1. \A f \in S : disk'[f] = "read" /\ include'[f] = include[f]
  BY DEF Grows
<1>2. \A f \in S : IsStage(f) => IsStage(f)'
  <2> TAKE f \in S
  <2> HAVE IsStage(f)
  <2>1. disk'[f] # "missing"
    BY <1>1
  <2> QED
    BY <2>1, StageKeeps
<1> QED
  BY <1>1, <1>2 DEF Reached, Includes

\* The files of an ordered list have been read.
LEMMA OrderedRead ==
    ASSUME NEW s \in Seq(Files), Ordered(s)
    PROVE  Range(s) \subseteq Files /\ \A f \in Range(s) : disk[f] = "read"
<1>1. DOMAIN s = 1..Len(s) /\ \A i \in DOMAIN s : s[i] \in Files
  OBVIOUS
<1> QED
  BY <1>1 DEF Ordered, Range

LEMMA CircleKeeps ==
    ASSUME Grows, CircleFound
    PROVE  CircleFound'
<1>1. PICK ring \in SUBSET Files :
        ring # {} /\ \A f \in ring : disk[f] = "read" /\ Includes(f) \cap ring # {}
  BY DEF CircleFound
<1>2. \A f \in ring : disk'[f] = "read" /\ include'[f] = include[f]
  BY <1>1 DEF Grows
<1> QED
  BY <1>1, <1>2 DEF CircleFound, Includes

LEMMA BaseKeeps ==
    ASSUME Grows, base \in Configurations \cup {None}, BaseMerged, base' = base
    PROVE  BaseMerged'
<1>1. PICK b \in Configurations : base = b
  BY DEF BaseMerged
<1>2. /\ Overriding(b) /\ Ordered(b.listed)
      /\ b.listed # << >> /\ b.listed[Len(b.listed)] = Root
      /\ Reached(Range(b.listed), FALSE)
  BY <1>1 DEF BaseMerged
<1>3. b.listed \in Seq(Files)
  BY DEF Configurations
<1>4. Ordered(b.listed)'
  BY <1>2, <1>3, OrderedKeeps
<1>5. Range(b.listed) \in SUBSET Files /\ \A f \in Range(b.listed) : disk[f] = "read"
  BY <1>2, <1>3, OrderedRead
<1>6. Reached(Range(b.listed), FALSE)'
  BY <1>2, <1>5, ReachedKeeps
<1>7. base' = b /\ b # None
  BY <1>1 DEF BaseMerged
<1> QED
  BY <1>2, <1>4, <1>6, <1>7 DEF BaseMerged, Overriding

LEMMA CfgKeeps ==
    ASSUME Grows, cfg \in Configurations, CfgMerged, cfg' = cfg
    PROVE  CfgMerged'
<1>1. PICK c \in Configurations : cfg = c
  OBVIOUS
<1> DEFINE s == c.listed
<1>2. s \in Seq(Files)
  BY DEF Configurations
<1>3. /\ Overriding(c) /\ Ordered(s)
      /\ Root \in Range(s) /\ Reached(Range(s), TRUE)
  BY <1>1 DEF CfgMerged
<1>4. PICK st \in Range(s) :
        /\ IsStage(st)
        /\ Before(st, Root, s) =>
               \E f \in Range(s) : st \in Includes(f) /\ (f = Root \/ Before(f, Root, s))
  BY <1>1 DEF CfgMerged
<1>5. Ordered(s)'
  BY <1>2, <1>3, OrderedKeeps
<1>6. Range(s) \in SUBSET Files /\ \A f \in Range(s) : disk[f] = "read"
  BY <1>2, <1>3, OrderedRead
<1>7. \A f \in Range(s) : disk'[f] = "read" /\ include'[f] = include[f]
  BY <1>6 DEF Grows
<1>8. Reached(Range(s), TRUE)'
  BY <1>3, <1>6, ReachedKeeps
<1>9. IsStage(st)'
  BY <1>4, <1>7, StageKeeps
<1>10. cfg' = c
  BY <1>1
<1> HIDE DEF s
<1>11. Before(st, Root, s) =>
               \E f \in Range(s) : st \in Includes(f)' /\ (f = Root \/ Before(f, Root, s))
  BY <1>4, <1>7 DEF Includes
<1>12. Overriding(cfg')
  BY <1>3, <1>10
<1>13. cfg'.listed = s
  BY <1>10 DEF s
<1> QED
  BY <1>3, <1>5, <1>8, <1>9, <1>11, <1>12, <1>13 DEF CfgMerged

-----------------------------------------------------------------------------
\* The resolutions and what they return.

LEMMA FrameChanged ==
    ASSUME NEW frames \in Seq(Frames), frames # << >>, NEW M \in Configurations
    PROVE  LET s == [frames EXCEPT ![1].merged = M]
           IN  /\ s \in Seq(Frames) /\ s # << >> /\ Len(s) = Len(frames)
               /\ \A k \in 1..Len(s) : s[k].file = frames[k].file /\ s[k].next = frames[k].next
               /\ \A k \in 2..Len(s) : s[k].merged = frames[k].merged
               /\ s[1].merged = M
<1> DEFINE one == [frames[1] EXCEPT !.merged = M]
           s == [frames EXCEPT ![1] = one]
<1>1. 1 \in 1..Len(frames) /\ Len(frames) \in Nat /\ frames[1] \in Frames
  BY EmptySeq
<1>2. one \in Frames /\ one.file = frames[1].file /\ one.next = frames[1].next /\ one.merged = M
  BY <1>1 DEF Frames
<1>3. [frames EXCEPT ![1].merged = M] = s
  OBVIOUS
<1> HIDE DEF one
<1>4. /\ s \in Seq(Frames) /\ Len(s) = Len(frames)
      /\ \A k \in 1..Len(frames) : s[k] = IF k = 1 THEN one ELSE frames[k]
  BY <1>1, <1>2, ExceptSeq
<1>5. s # << >>
  BY <1>1, <1>4, EmptySeq
<1> HIDE DEF s
<1> QED
  BY <1>1, <1>2, <1>3, <1>4, <1>5

\* What a call that is not the innermost has gone through, once the files of order are merged.
Waits(frames, k, order) ==
    LET f == frames[k].file  n == frames[k].next - 1 IN
    /\ disk'[f] = "read" /\ f \notin Range(order)
    /\ n \in 1..Len(include'[f])
    /\ \A q \in 1..n : include'[f][q] \in Range(order) \/ (q = n /\ k # 1)
    /\ k # 1 => include'[f][n] = frames[k - 1].file
    /\ Overriding(frames[k].merged)

Starts(f) == IF progress = "base" THEN f = Root ELSE FirstOn(disk', f)

\* config is about to be returned to frames, and with it the files merged are those of order; u[k] are
\* those that stand before the list of call k.
Hands(frames, u, order, config) ==
    /\ frames \in Seq(Frames) /\ order \in Seq(Files) /\ order # << >>
    /\ config \in Configurations /\ Overriding(config)
    /\ u \in [0..Len(frames) -> Seq(Files)]
    /\ u[Len(frames)] = IF progress = "base" THEN << >> ELSE base.listed
    /\ \A k \in 1..Len(frames) : u[k - 1] = u[k] \o frames[k].merged.listed
    /\ u[0] \o config.listed = order
    /\ Ordered(order)'
    /\ seen' = Range(order) \cup {frames[k].file : k \in 1..Len(frames)}
    /\ \A j, k \in 1..Len(frames) : frames[j].file = frames[k].file => j = k
    /\ \A f \in seen' : f = Root \/ (progress = "stage" /\ IsStage(f)') \/ \E h \in seen' : f \in Includes(h)'
    /\ \A k \in 1..Len(frames) : Waits(frames, k, order)
    /\ Starts(IF frames = << >> THEN order[Len(order)] ELSE frames[Len(frames)].file)
    /\ progress = "stage" => BaseMerged

LEMMA NoneIsNoConfiguration ==
    ASSUME NEW c \in Configurations
    PROVE  c # None
  BY FilesAssumption

\* To the call that waits for it.
LEMMA ReturnsToCall ==
    ASSUME FileTypes, Grows, progress \in {"base", "stage"},
           NEW frames, NEW u, NEW order, NEW config, Hands(frames, u, order, config),
           frames # << >>, Return(config, frames)
    PROVE  Walks' /\ progress' = progress /\ cfg' = cfg /\ base' = base
           /\ stack' \in Seq(Frames) /\ calling' = None
<1>1. /\ frames \in Seq(Frames) /\ order \in Seq(Files)
      /\ config \in Configurations /\ Overriding(config)
      /\ u \in [0..Len(frames) -> Seq(Files)] /\ Len(frames) \in Nat /\ 1 \in 1..Len(frames)
      /\ frames[1] \in Frames
  BY EmptySeq DEF Hands
<1> DEFINE M == Merge(frames[1].merged, config)
           s == [frames EXCEPT ![1].merged = M]
           n == Len(frames)
<1>2. /\ stack' = s /\ calling' = None
      /\ progress' = progress /\ base' = base /\ cfg' = cfg
  BY <1>1, NoneIsNoConfiguration DEF Return
<1>3. frames[1].merged \in Configurations /\ Overriding(frames[1].merged)
      /\ frames[1].merged.listed \in Seq(Files) /\ config.listed \in Seq(Files)
  BY <1>1 DEF Hands, Waits, Frames, Configurations
<1>4. M \in Configurations /\ M.listed = frames[1].merged.listed \o config.listed /\ Overriding(M)
  BY <1>1, <1>3, MergeOverrides
<1> HIDE DEF M
<1>5. /\ s \in Seq(Frames) /\ s # << >> /\ Len(s) = n
      /\ \A k \in 1..n : s[k].file = frames[k].file /\ s[k].next = frames[k].next
      /\ \A k \in 2..n : s[k].merged = frames[k].merged
      /\ s[1].merged = M
  BY <1>1, <1>4, FrameChanged
<1> HIDE DEF s
<1> DEFINE v == [k \in 0..n |-> IF k = 0 THEN order ELSE u[k]]
<1>6. /\ v \in [0..n -> Seq(Files)] /\ v[0] = order /\ \A k \in 1..n : v[k] = u[k]
  <2>1. \A k \in 1..n : k \in 0..n /\ k # 0
    BY <1>1
  <2>2. 0 \in 0..n
    BY <1>1
  <2> QED
    BY <1>1, <2>1, <2>2
<1> HIDE DEF v
<1>7. u[0] = u[1] \o frames[1].merged.listed /\ u[1] \in Seq(Files) /\ u[0] \o config.listed = order
  <2>1. 1 - 1 = 0 /\ 1 \in 0..n
    BY <1>1
  <2>2. \A k \in 1..n : u[k - 1] = u[k] \o frames[k].merged.listed
    BY DEF Hands
  <2>3. u[1 - 1] = u[1] \o frames[1].merged.listed
    BY <1>1, <2>2
  <2> QED
    BY <1>1, <2>1, <2>3 DEF Hands
<1>8. order = u[1] \o M.listed
  <2> DEFINE a == u[1]
             b == frames[1].merged.listed
             c == config.listed
  <2>1. a \in Seq(Files) /\ b \in Seq(Files) /\ c \in Seq(Files)
    BY <1>3, <1>7
  <2>2. order = (a \o b) \o c /\ M.listed = b \o c
    BY <1>4, <1>7
  <2> HIDE DEF a, b, c
  <2>3. (a \o b) \o c = a \o (b \o c)
    BY <2>1, ConcatAssociative, SMTT(30)
  <2>4. order = a \o M.listed
    BY <2>2, <2>3
  <2> QED
    BY <2>4 DEF a
<1>9. Lists(v)'
  <2>1. v[n] = IF progress = "base" THEN << >> ELSE base.listed
    <3>1. n \in 1..n
      BY <1>1
    <3> QED
      BY <1>6, <3>1 DEF Hands
  <2>2. ASSUME NEW k \in 1..n
        PROVE  v[k - 1] = v[k] \o s[k].merged.listed
    <3>1. CASE k = 1
      <4>1. k - 1 = 0
        BY <3>1
      <4> QED
        BY <1>1, <1>5, <1>6, <1>8, <3>1, <4>1
    <3>2. CASE k # 1
      <4>1. k \in 2..n /\ k - 1 \in 1..n
        BY <1>1, <3>2
      <4>2. u[k - 1] = u[k] \o frames[k].merged.listed
        BY DEF Hands
      <4> QED
        BY <1>5, <1>6, <4>1, <4>2
    <3> QED
      BY <3>1, <3>2
  <2> QED
    BY <1>2, <1>5, <1>6, <2>1, <2>2 DEF Lists
<1>10. WalkInv(order)'
  <2>1. Ancestors' = {frames[k].file : k \in 1..n}
    <3>1. DOMAIN s = 1..n
      BY <1>5
    <3>2. Ancestors' = {s[k].file : k \in 1..n}
      BY <1>2, <3>1 DEF Ancestors
    <3> QED
      BY <1>5, <3>2
  <2>2. seen' = Range(order) \cup Ancestors'
    BY <2>1 DEF Hands
  <2>3. \A j, k \in 1..n : s[j].file = s[k].file => j = k
    BY <1>5 DEF Hands
  <2>4. ASSUME NEW k \in 1..n
        PROVE  FrameInv(k, order)'
    <3>1. stack'[k].file = frames[k].file /\ stack'[k].next = frames[k].next
      BY <1>2, <1>5
    <3>2. k # 1 => stack'[k - 1].file = frames[k - 1].file
      <4>1. k # 1 => k - 1 \in 1..n
        BY <1>1
      <4> QED
        BY <1>2, <1>5, <4>1
    <3>3. Waits(frames, k, order)
      BY DEF Hands
    <3>4. Overriding(stack'[k].merged)
      <4>1. k = 1 \/ k \in 2..n
        BY <1>1
      <4> QED
        BY <1>2, <1>4, <1>5, <3>3, <4>1 DEF Waits
    <3>5. Overriding(stack[k].merged)'
      BY <3>4 DEF Overriding
    <3> QED
      BY <1>2, <3>1, <3>2, <3>3, <3>5 DEF FrameInv, Waits
  <2>5. Reached(seen, progress = "stage")'
    BY <1>2 DEF Reached, Hands
  <2>6. Begins(stack[Len(stack)].file)'
    <3>1. n \in 1..n
      BY <1>1
    <3>2. stack'[Len(stack')].file = frames[n].file
      BY <1>2, <1>5, <3>1
    <3>3. Starts(frames[n].file)
      BY DEF Hands
    <3> QED
      BY <1>2, <3>2, <3>3 DEF Starts, Begins, IsStage
  <2>7. progress = "stage" => BaseMerged'
    BY <1>2, BaseKeeps DEF Hands, FileTypes
  <2>8. Ordered(order)'
    BY DEF Hands
  <2> QED
    BY <1>2, <1>5, <2>2, <2>3, <2>4, <2>5, <2>6, <2>7, <2>8 DEF WalkInv
<1>11. Walks'
  BY <1>6, <1>9, <1>10 DEF Walks
<1> QED
  BY <1>2, <1>5, <1>11

\* To Load, with the Deployfile resolved.
LEMMA ReturnsDeployfile ==
    ASSUME FileTypes, Grows, progress = "base",
           NEW frames, NEW u, NEW order, NEW config, Hands(frames, u, order, config),
           frames = << >>, Return(config, frames)
    PROVE  Walks' /\ progress' = "stage" /\ cfg' = cfg /\ base' \in Configurations
           /\ stack' \in Seq(Frames) /\ calling' = None
<1>1. /\ base' = config /\ progress' = "stage" /\ stack' = << >> /\ cfg' = cfg /\ calling' = None
  BY DEF Return
<1>2. /\ order \in Seq(Files) /\ order # << >>
      /\ config \in Configurations /\ Overriding(config) /\ config.listed \in Seq(Files)
  BY DEF Hands, Configurations
<1>3. Len(frames) = 0 /\ \A k \in 1..0 : FALSE
  OBVIOUS
<1>4. config.listed = order
  <2>1. u[0] = << >>
    BY <1>3 DEF Hands
  <2>2. << >> \o config.listed = config.listed
    BY <1>2, ConcatEmptySeq
  <2> QED
    BY <2>1, <2>2 DEF Hands
<1>5. order[Len(order)] = Root
  BY DEF Hands, Starts
<1>6. seen' = Range(order)
  BY <1>3 DEF Hands
<1>7. \A f \in Range(order) : f = Root \/ \E h \in Range(order) : f \in Includes(h)'
  BY <1>6 DEF Hands
<1>8. config # None
  BY <1>2, NoneIsNoConfiguration
<1>9. Ordered(order)'
  BY DEF Hands
<1>10. Reached(Range(order), FALSE)'
  BY <1>7 DEF Reached
<1>11. BaseMerged'
  <2>1. /\ Overriding(base') /\ base'.listed = order /\ base' # None
    BY <1>1, <1>2, <1>4, <1>8
  <2> QED
    BY <1>2, <1>5, <1>9, <1>10, <2>1 DEF BaseMerged
<1> DEFINE v == [k \in 0..0 |-> order]
<1>12. v \in [0..0 -> Seq(Files)] /\ v[0] = order
  BY <1>2
<1> HIDE DEF v
<1>13. Lists(v)'
  <2>1. Len(stack') = 0
    BY <1>1
  <2> QED
    BY <1>1, <1>3, <1>4, <1>12, <2>1 DEF Lists
<1>14. WalkInv(order)'
  <2>1. Len(stack') = 0 /\ DOMAIN stack' = {}
    BY <1>1
  <2>2. Ancestors' = {}
    BY <2>1 DEF Ancestors
  <2>3. Reached(seen, progress = "stage")'
    BY <1>1, <1>6, <1>7 DEF Reached
  <2> QED
    BY <1>1, <1>3, <1>6, <1>9, <1>11, <2>1, <2>2, <2>3 DEF WalkInv
<1>15. stack' \in Seq(Frames)
  BY <1>1
<1> QED
  BY <1>1, <1>2, <1>12, <1>13, <1>14, <1>15 DEF Walks

LEMMA NotTheLast ==
    ASSUME NEW n \in Nat, NEW k \in 1..n, k # n
    PROVE  k < n
  OBVIOUS

\* The stage over the Deployfile.
LEMMA StageOver ==
    ASSUME NEW b \in Configurations, base' = b, BaseMerged',
           NEW c \in Configurations, cfg' = c, Overriding(c), Ordered(c.listed)',
           NEW t \in Seq(Files), c.listed = b.listed \o t,
           NEW st \in Range(c.listed), IsStage(st)',
           \A f \in Range(c.listed) : f = Root \/ IsStage(f)' \/ \E h \in Range(c.listed) : f \in Includes(h)'
    PROVE  CfgMerged'
<1> DEFINE x == b.listed
           s == c.listed
<1>1. x \in Seq(Files) /\ s = x \o t
  BY DEF Configurations
<1>2. /\ x # << >> /\ x[Len(x)] = Root /\ Reached(Range(x), FALSE)'
  BY DEF BaseMerged
<1> HIDE DEF x
<1>3. Len(x) \in 1..Len(x) /\ DOMAIN x = 1..Len(x) /\ Len(x) \in Nat
  BY <1>1, <1>2, EmptySeq
<1>4. /\ Len(t) \in Nat /\ DOMAIN s = 1..(Len(x) + Len(t))
      /\ \A m \in 1..Len(x) : s[m] = x[m]
  BY <1>1, JoinFacts
<1>5. \A i, j \in DOMAIN s : s[i] = s[j] => i = j
  BY DEF Ordered
<1> HIDE DEF s
<1>6. Len(x) \in DOMAIN s /\ s[Len(x)] = Root
  BY <1>2, <1>3, <1>4
<1>7. Root \in Range(s)
  BY <1>6 DEF Range
<1>8. ASSUME Before(st, Root, s)
      PROVE  \E f \in Range(s) : st \in Includes(f)' /\ (f = Root \/ Before(f, Root, s))
  <2>1. PICK i \in DOMAIN s, j \in DOMAIN s : i < j /\ s[i] = st /\ s[j] = Root
    BY <1>8 DEF Before
  <2>2. j = Len(x)
    BY <1>5, <1>6, <2>1
  <2>3. i \in 1..Len(x)
    BY <1>3, <1>4, <2>1, <2>2
  <2>4. st \in Range(x)
    BY <1>3, <1>4, <2>1, <2>3 DEF Range
  <2>5. st # Root
    BY StageIsFile DEF IsStage
  <2>6. PICK h \in Range(x) : st \in Includes(h)'
    BY <1>2, <2>4, <2>5 DEF Reached
  <2>7. PICK k \in 1..Len(x) : x[k] = h
    BY <1>3 DEF Range
  <2>8. k \in DOMAIN s /\ s[k] = h
    BY <1>3, <1>4, <2>7
  <2>9. h = Root \/ Before(h, Root, s)
    <3>1. CASE k = Len(x)
      BY <1>2, <2>7, <3>1
    <3>2. CASE k # Len(x)
      <4>1. k < Len(x)
        BY <1>3, <3>2, NotTheLast
      <4> QED
        BY <1>6, <2>8, <4>1 DEF Before
    <3> QED
      BY <3>1, <3>2
  <2>10. h \in Range(s)
    BY <2>8 DEF Range
  <2> QED
    BY <2>6, <2>9, <2>10
<1>9. Reached(Range(s), TRUE)'
  BY DEF Reached, s
<1>10. st \in Range(s) /\ Ordered(s)' /\ cfg'.listed = s /\ Overriding(cfg')
  BY DEF s
<1> QED
  BY <1>7, <1>8, <1>9, <1>10 DEF CfgMerged

\* To Load, with the stage file resolved.
LEMMA ReturnsStage ==
    ASSUME FileTypes, Grows, progress = "stage", caller = "load",
           NEW frames, NEW u, NEW order, NEW config, Hands(frames, u, order, config),
           frames = << >>, Return(config, frames)
    PROVE  CfgMerged' /\ progress' = "check" /\ cfg' \in Configurations /\ base' = base
           /\ stack' \in Seq(Frames) /\ calling' = None
<1>1. /\ order \in Seq(Files) /\ order # << >>
      /\ config \in Configurations /\ Overriding(config) /\ config.listed \in Seq(Files)
  BY DEF Hands, Configurations
<1>2. config # None
  BY <1>1, NoneIsNoConfiguration
<1>3. /\ cfg' = Merge(base, config) /\ progress' = "check" /\ base' = base /\ stack' = << >> /\ calling' = None
  BY <1>2 DEF Return
<1>4. BaseMerged
  BY DEF Hands
<1>5. PICK b \in Configurations : base = b
  BY <1>4 DEF FileTypes, BaseMerged
<1>6. base' = b /\ Overriding(b)
  BY <1>3, <1>4, <1>5 DEF BaseMerged
<1> DEFINE c == Merge(b, config)
<1>7. c \in Configurations /\ c.listed = b.listed \o config.listed /\ Overriding(c)
  BY <1>1, <1>6, MergeOverrides
<1>8. cfg' = c
  BY <1>3, <1>5
<1> HIDE DEF c
<1>9. Len(frames) = 0 /\ \A k \in 1..0 : FALSE
  OBVIOUS
<1>10. c.listed = order
  BY <1>5, <1>7, <1>9 DEF Hands
<1>11. BaseMerged'
  BY <1>3, <1>4, BaseKeeps DEF FileTypes
<1>12. seen' = Range(order) /\ Ordered(order)'
  BY <1>9 DEF Hands
<1> DEFINE st == order[Len(order)]
<1>13. st \in Range(order)
  <2>1. Len(order) \in DOMAIN order
    BY <1>1, EmptySeq, LenProperties
  <2> QED
    BY <2>1 DEF Range
<1>14. Starts(st)
  BY DEF Hands
<1> HIDE DEF st
<1>15. IsStage(st)'
  BY <1>14 DEF Starts, IsStage
<1>16. \A f \in Range(order) : f = Root \/ IsStage(f)' \/ \E h \in Range(order) : f \in Includes(h)'
  BY <1>12 DEF Hands
<1>17. CfgMerged'
  BY <1>1, <1>6, <1>7, <1>8, <1>10, <1>11, <1>12, <1>13, <1>15, <1>16, StageOver
<1> QED
  BY <1>3, <1>7, <1>8, <1>17

-----------------------------------------------------------------------------
\* The steps.

LEMMA LoadInvKeeps ==
    ASSUME LoadInv, Grows, FileTypes',
           progress' \in {"base", "stage"} \/ (stack' = << >> /\ calling' = None),
           failure' = "circular" => failure = "circular" \/ CircleFound',
           cfg' = cfg \/ CfgMerged',
           caller' = "load" /\ progress' \in {"base", "stage"} => Walks'
    PROVE  LoadInv'
<1>1. failure' = "circular" => CircleFound'
  BY CircleKeeps DEF LoadInv
<1>2. cfg' # None => CfgMerged'
  BY CfgKeeps DEF LoadInv, FileTypes
<1> QED
  BY <1>1, <1>2 DEF LoadInv

LEMMA ReadConfigTypes ==
    ASSUME FileTypes, NEW f \in Files, ReadConfig(f)
    PROVE  /\ disk' \in [Files -> {"unread", "missing", "broken", "read"}]
           /\ include' \in [Files -> Seq(Files)]
           /\ Grows
<1>1. disk \in [Files -> {"unread", "missing", "broken", "read"}] /\ include \in [Files -> Seq(Files)]
  BY DEF FileTypes
<1>2. CASE disk[f] # "unread" /\ UNCHANGED <<disk, include>>
  BY <1>1, <1>2 DEF Grows
<1>3. CASE /\ disk[f] = "unread"
           /\ \E kind \in {"missing", "broken"} : disk' = [disk EXCEPT ![f] = kind]
           /\ include' = include
  BY <1>1, <1>3 DEF Grows
<1>4. CASE /\ disk[f] = "unread"
           /\ disk' = [disk EXCEPT ![f] = "read"]
           /\ \E n \in 0..MaxIncludes[f] : \E s \in [1..n -> Files] : include' = [include EXCEPT ![f] = s]
  <2>1. PICK n \in 0..MaxIncludes[f] : \E s \in [1..n -> Files] : include' = [include EXCEPT ![f] = s]
    BY <1>4
  <2>2. PICK s \in [1..n -> Files] : include' = [include EXCEPT ![f] = s]
    BY <2>1
  <2>3. n \in Nat
    BY FilesAssumption
  <2>4. s \in Seq(Files)
    BY <2>3, SeqDef
  <2> QED
    BY <1>1, <1>4, <2>2, <2>4 DEF Grows
<1> QED
  BY <1>2, <1>3, <1>4 DEF ReadConfig

LEMMA SameFrames ==
    ASSUME NEW frames \in Seq(Frames), frames # << >>
    PROVE  [frames EXCEPT ![1].merged = frames[1].merged] = frames
<1>1. 1 \in 1..Len(frames) /\ frames[1] \in Frames
  BY EmptySeq
<1>2. [frames[1] EXCEPT !.merged = frames[1].merged] = frames[1]
  BY <1>1 DEF Frames
<1>3. frames \in [1..Len(frames) -> Frames]
  OBVIOUS
<1> QED
  BY <1>1, <1>2, <1>3

\* A return as far as the types go, and of the discovery.
LEMMA ReturnTypes ==
    ASSUME FileTypes, NEW frames \in Seq(Frames), NEW config \in Configurations \cup {None},
           Return(config, frames)
    PROVE  /\ calling' = None /\ caller' = caller /\ failure' = failure
           /\ stack' \in Seq(Frames) /\ base' \in Configurations \cup {None}
           /\ ~(caller = "load" /\ progress = "stage" /\ frames = << >>) => cfg' = cfg
           /\ progress' \in {"base", "stage"} => progress \in {"base", "stage"}
           /\ (progress' = progress /\ stack' # << >>) \/ (stack' = << >> /\ frames = << >>)
<1>1. calling' = None /\ caller' = caller /\ failure' = failure
  BY DEF Return
<1>2. CASE frames # << >>
  <2>1. 1 \in 1..Len(frames) /\ frames[1] \in Frames
    BY <1>2, EmptySeq
  <2>2. progress' = progress /\ cfg' = cfg /\ base' = base
    BY <1>2 DEF Return
  <2>3. CASE config = None
    <3>1. stack' = [frames EXCEPT ![1].merged = frames[1].merged]
      BY <1>2, <2>3 DEF Return
    <3>2. stack' = frames
      BY <1>2, <3>1, SameFrames
    <3> QED
      BY <1>1, <1>2, <2>2, <3>2 DEF FileTypes
  <2>4. CASE config # None
    <3> DEFINE M == Merge(frames[1].merged, config)
    <3>1. stack' = [frames EXCEPT ![1].merged = M]
      BY <1>2, <2>4 DEF Return
    <3>2. M \in Configurations
      <4>1. frames[1].merged \in Configurations /\ config \in Configurations
        BY <2>1, <2>4 DEF Frames
      <4>2. M = [listed |-> frames[1].merged.listed \o config.listed,
                 from |-> [p \in Fields |-> IF config.from[p] # None THEN config.from[p]
                                                                      ELSE frames[1].merged.from[p]]]
        BY DEF Merge
      <4>3. frames[1].merged.listed \o config.listed \in Seq(Files)
        <5>1. frames[1].merged.listed \in Seq(Files) /\ config.listed \in Seq(Files)
          BY <4>1 DEF Configurations
        <5> QED
          BY <5>1, JoinFacts
      <4>4. /\ frames[1].merged.from \in [Fields -> Files \cup {None}]
            /\ config.from \in [Fields -> Files \cup {None}]
        BY <4>1 DEF Configurations
      <4> QED
        BY <4>2, <4>3, <4>4 DEF Configurations
    <3> HIDE DEF M
    <3>3. stack' \in Seq(Frames) /\ stack' # << >>
      BY <1>2, <3>1, <3>2, FrameChanged
    <3> QED
      BY <1>1, <1>2, <2>2, <3>3 DEF FileTypes
  <2> QED
    BY <2>3, <2>4
<1>3. CASE frames = << >>
  <2>1. stack' = << >>
    BY <1>3 DEF Return
  <2>2. progress \in {"base", "stage"}
    BY <1>3 DEF Return
  <2>3. base' \in Configurations \cup {None}
    BY <1>3 DEF Return, FileTypes
  <2>4. ~(caller = "load" /\ progress = "stage") => cfg' = cfg
    BY <1>3 DEF Return
  <2>5. stack' \in Seq(Frames)
    BY <2>1
  <2> QED
    BY <1>1, <1>3, <2>1, <2>2, <2>3, <2>4, <2>5
<1> QED
  BY <1>2, <1>3

\* A return that carries a configuration.
LEMMA ReturnKeeps ==
    ASSUME LoadInv, Grows, progress \in {"base", "stage"},
           NEW frames \in Seq(Frames), NEW config \in Configurations, Return(config, frames),
           disk' \in [Files -> {"unread", "missing", "broken", "read"}],
           include' \in [Files -> Seq(Files)], seen' \in SUBSET Files,
           caller = "load" => \E u, order : Hands(frames, u, order, config)
    PROVE  LoadInv'
<1>1. FileTypes
  BY DEF LoadInv
<1>2. /\ calling' = None /\ caller' = caller /\ failure' = failure
      /\ stack' \in Seq(Frames) /\ base' \in Configurations \cup {None}
      /\ ~(caller = "load" /\ progress = "stage" /\ frames = << >>) => cfg' = cfg
      /\ (progress' = progress /\ stack' # << >>) \/ (stack' = << >> /\ frames = << >>)
  BY <1>1, ReturnTypes
<1>3. progress' \in {"base", "stage"} \/ (stack' = << >> /\ calling' = None)
  BY <1>2
<1>4. caller = "load" =>
          /\ cfg' = cfg \/ (cfg' \in Configurations /\ CfgMerged')
          /\ progress' \in {"base", "stage"} => Walks'
  <2> HAVE caller = "load"
  <2>1. PICK u, order : Hands(frames, u, order, config)
    OBVIOUS
  <2>2. CASE frames # << >>
    BY <1>1, <2>1, <2>2, ReturnsToCall
  <2>3. CASE frames = << >> /\ progress = "base"
    BY <1>1, <2>1, <2>3, ReturnsDeployfile
  <2>4. CASE frames = << >> /\ progress = "stage"
    BY <1>1, <2>1, <2>4, ReturnsStage
  <2> QED
    BY <2>2, <2>3, <2>4
<1>5. cfg' = cfg \/ (cfg' \in Configurations /\ CfgMerged')
  BY <1>2, <1>4
<1>6. FileTypes'
  BY <1>1, <1>2, <1>5 DEF FileTypes
<1>7. /\ failure' = "circular" => failure = "circular" \/ CircleFound'
      /\ caller' = "load" /\ progress' \in {"base", "stage"} => Walks'
  BY <1>2, <1>4
<1> QED
  BY <1>3, <1>5, <1>6, <1>7, LoadInvKeeps

\* A resolution that fails.
LEMMA FailKeeps ==
    ASSUME LoadInv, Grows, NEW why, LoadFails(why),
           disk' \in [Files -> {"unread", "missing", "broken", "read"}],
           include' \in [Files -> Seq(Files)],
           why = "circular" /\ caller = "load" => CircleFound'
    PROVE  LoadInv'
<1>1. FileTypes
  BY DEF LoadInv
<1>2. /\ stack' = << >> /\ calling' = None /\ progress' = "failed" /\ cfg' = cfg
      /\ failure' = IF caller = "load" THEN why ELSE failure
      /\ seen' = seen /\ base' = base
  BY DEF LoadFails
<1>3. FileTypes'
  BY <1>1, <1>2 DEF FileTypes
<1>4. failure' = "circular" => failure = "circular" \/ CircleFound'
  BY <1>2
<1> QED
  BY <1>2, <1>3, <1>4, LoadInvKeeps

-----------------------------------------------------------------------------
\* What resolveIncludes and its loop return.

LEMMA EndIsJoin ==
    ASSUME NEW S, NEW x \in Seq(S), NEW c \in S
    PROVE  x \o <<c>> = Append(x, c)
<1> DEFINE one == <<c>>
           y == Append(x, c)
           z == x \o one
<1>1. one \in Seq(S) /\ Len(one) = 1 /\ one[1] = c
  OBVIOUS
<1>2. /\ y \in Seq(S) /\ Len(x) \in Nat /\ Len(y) = Len(x) + 1
      /\ \A m \in 1..Len(x) : y[m] = x[m]
      /\ y[Len(x) + 1] = c
  BY EndFacts
<1> HIDE DEF one, y
<1>3. /\ z \in Seq(S) /\ Len(z) = Len(x) + Len(one)
      /\ \A m \in 1..Len(x) : z[m] = x[m]
      /\ \A m \in 1..Len(one) : z[Len(x) + m] = one[m]
  <2>1. x \in Seq(S) /\ one \in Seq(S)
    BY <1>1
  <2> QED
    BY <2>1, JoinFacts
<1> HIDE DEF z
<1>4. Len(z) = Len(y) /\ z[Len(x) + 1] = c
  BY <1>1, <1>2, <1>3
<1>5. \A i \in 1..Len(z) : z[i] = y[i]
  <2> TAKE i \in 1..Len(z)
  <2>1. i \in 1..Len(x) \/ i = Len(x) + 1
    BY <1>1, <1>2, <1>3
  <2> QED
    BY <1>2, <1>3, <1>4, <2>1
<1>6. z = y
  BY <1>2, <1>3, <1>4, <1>5, SeqEqual
<1> QED
  BY <1>6 DEF one, y, z

LEMMA StackFacts ==
    ASSUME FileTypes
    PROVE  /\ Len(stack) \in Nat /\ DOMAIN stack = 1..Len(stack)
           /\ \A k \in 1..Len(stack) : stack[k] \in Frames /\ stack[k].file \in Files /\ stack[k].next \in Nat \ {0}
                                       /\ stack[k].merged \in Configurations
           /\ Ancestors = {stack[k].file : k \in 1..Len(stack)}
           /\ stack # << >> => 1 \in 1..Len(stack) /\ Len(stack) \in 1..Len(stack)
<1>1. stack \in Seq(Frames)
  BY DEF FileTypes
<1>2. Len(stack) \in Nat /\ DOMAIN stack = 1..Len(stack) /\ \A k \in 1..Len(stack) : stack[k] \in Frames
  BY <1>1
<1>3. stack # << >> => 1 \in 1..Len(stack) /\ Len(stack) \in 1..Len(stack)
  BY <1>1, EmptySeq
<1> QED
  BY <1>2, <1>3 DEF Ancestors, Frames

LEMMA SeenRead ==
    ASSUME FileTypes, NEW done \in Seq(Files), WalkInv(done)
    PROVE  seen \subseteq Files /\ \A f \in seen : disk[f] = "read"
<1>1. Range(done) \subseteq Files /\ \A f \in Range(done) : disk[f] = "read"
  BY OrderedRead DEF WalkInv
<1>2. \A k \in 1..Len(stack) : disk[stack[k].file] = "read" /\ stack[k].file \in Files
  BY StackFacts DEF WalkInv, FrameInv
<1>3. seen = Range(done) \cup {stack[k].file : k \in 1..Len(stack)}
  BY StackFacts DEF WalkInv
<1> QED
  BY <1>1, <1>2, <1>3

\* A file that is called and read is one that should be.
LEMMA CalledReached ==
    ASSUME FileTypes, Grows, progress \in {"base", "stage"},
           NEW done \in Seq(Files), WalkInv(done), NEW f \in Files, calling = f,
           disk'[f] = "read", seen' = seen \cup {f}
    PROVE  \A g \in seen' : g = Root \/ (progress = "stage" /\ IsStage(g)') \/ \E h \in seen' : g \in Includes(h)'
<1>1. PICK S \in SUBSET Files : seen = S
  BY SeenRead
<1>2. PICK late \in BOOLEAN : late = (progress = "stage")
  OBVIOUS
<1>3. \A g \in S : disk[g] = "read"
  BY <1>1, SeenRead
<1>4. Reached(S, late)
  BY <1>1, <1>2 DEF WalkInv
<1>5. Reached(S, late)'
  BY <1>3, <1>4, ReachedKeeps
<1>6. \A g \in S : g = Root \/ (progress = "stage" /\ IsStage(g)') \/ \E h \in S : g \in Includes(h)'
  BY <1>2, <1>5 DEF Reached
<1>7. f = Root \/ (progress = "stage" /\ IsStage(f)') \/ \E h \in S : f \in Includes(h)'
  <2>1. CASE stack = << >>
    <3>1. Begins(f)
      BY <2>1, FilesAssumption DEF WalkInv
    <3>2. IsStage(f) => IsStage(f)'
      BY StageKeeps
    <3> QED
      BY <3>1, <3>2 DEF Begins
  <2>2. CASE stack # << >>
    <3>1. 1 \in 1..Len(stack)
      BY <2>2, StackFacts
    <3>2. PICK h \in Files : h = stack[1].file
      BY <3>1, StackFacts
    <3>3. FrameInv(1, done)
      BY <3>1 DEF WalkInv
    <3>4. disk[h] = "read" /\ f \in Includes(h)
      <4>1. include[h] \in Seq(Files)
        BY DEF FileTypes
      <4>2. DOMAIN include[h] = 1..Len(include[h])
        BY <4>1
      <4>3. calling # None
        BY FilesAssumption
      <4> QED
        BY <3>2, <3>3, <4>2, <4>3 DEF FrameInv, Includes, Range
    <3>5. f \in Includes(h)'
      BY <3>4 DEF Grows, Includes
    <3>6. h \in S
      BY <1>1, <3>1, <3>2, StackFacts DEF WalkInv
    <3> QED
      BY <3>5, <3>6
  <2> QED
    BY <2>1, <2>2
<1>8. seen' = S \cup {f}
  BY <1>1
<1> QED
  BY <1>6, <1>7, <1>8

LEMMA StillStarts ==
    ASSUME Grows, NEW f, Begins(f), disk'[f] # "missing"
    PROVE  Starts(f)
<1>1. IsStage(f) => FirstOn(disk', f)
  BY StageKeeps DEF IsStage
<1> QED
  BY <1>1 DEF Begins, Starts

\* A file without includes.
LEMMA LeafHands ==
    ASSUME LoadInv, Grows, caller = "load", progress \in {"base", "stage"},
           NEW f \in Files, calling = f, f \notin Ancestors, f \notin seen,
           disk'[f] = "read", include'[f] = << >>, seen' = seen \cup {f}
    PROVE  \E u, order : Hands(stack, u, order, Own(f))
<1>1. FileTypes
  BY DEF LoadInv
<1>2. PICK w : Lists(w) /\ WalkInv(w[0])
  BY DEF LoadInv, Walks
<1> DEFINE n == Len(stack)
<1>3. n \in Nat /\ w \in [0..n -> Seq(Files)] /\ w[0] \in Seq(Files)
  BY <1>1, <1>2, StackFacts DEF Lists
<1>4. PICK done \in Seq(Files) : w[0] = done
  BY <1>3
<1>5. WalkInv(done)
  BY <1>2, <1>4
<1> DEFINE order == Append(done, f)
<1>6. order \in Seq(Files) /\ order # << >> /\ Range(order) = Range(done) \cup {f} /\ order[Len(order)] = f
  <2>1. order \in Seq(Files) /\ Len(order) = Len(done) + 1 /\ Len(done) \in Nat /\ order[Len(done) + 1] = f
    BY EndFacts
  <2>2. Range(order) = Range(done) \cup {f}
    BY EndRange
  <2> HIDE DEF order
  <2>3. order # << >>
    BY <2>1, EmptySeq
  <2> QED
    BY <2>1, <2>2, <2>3
<1>7. w[0] \o Own(f).listed = order
  BY <1>4, OwnOverrides, EndIsJoin
<1>8. Ordered(order)'
  <2>1. f \notin Range(done)
    BY <1>5 DEF WalkInv
  <2>2. Range(include'[f]) \subseteq Range(done)
    BY DEF Range
  <2>3. Ordered(done)
    BY <1>5 DEF WalkInv
  <2> QED
    BY <2>1, <2>2, <2>3, OrderedGrows
<1> HIDE DEF order
<1>9. seen' = Range(order) \cup {stack[k].file : k \in 1..n}
  BY <1>1, <1>5, <1>6, StackFacts DEF WalkInv
<1>10. \A g \in seen' : g = Root \/ (progress = "stage" /\ IsStage(g)') \/ \E h \in seen' : g \in Includes(h)'
  BY <1>1, <1>5, CalledReached
<1>11. ASSUME NEW k \in 1..n
       PROVE  Waits(stack, k, order)
  <2>1. FrameInv(k, done)
    BY <1>5 DEF WalkInv
  <2>2. stack[k].file \in Files /\ stack[k].file # f
    BY <1>1, StackFacts
  <2>3. disk'[stack[k].file] = "read" /\ include'[stack[k].file] = include[stack[k].file]
    BY <2>1, <2>2 DEF FrameInv, Grows
  <2> QED
    BY <1>6, <2>1, <2>2, <2>3 DEF FrameInv, Waits
<1>12. Starts(IF stack = << >> THEN order[Len(order)] ELSE stack[Len(stack)].file)
  <2>1. CASE stack = << >>
    <3>1. Begins(f)
      BY <1>5, <2>1, FilesAssumption DEF WalkInv
    <3> QED
      BY <1>6, <2>1, <3>1, StillStarts
  <2>2. CASE stack # << >>
    <3>1. n \in 1..n
      BY <1>1, <2>2, StackFacts
    <3>2. Begins(stack[n].file)
      BY <1>5, <2>2 DEF WalkInv
    <3>3. disk'[stack[n].file] = "read"
      BY <1>11, <3>1 DEF Waits
    <3> QED
      BY <2>2, <3>2, <3>3, StillStarts
  <2> QED
    BY <2>1, <2>2
<1>13. Own(f) \in Configurations /\ Overriding(Own(f))
  BY OwnOverrides
<1>14. /\ w[n] = IF progress = "base" THEN << >> ELSE base.listed
       /\ \A k \in 1..n : w[k - 1] = w[k] \o stack[k].merged.listed
  BY <1>2 DEF Lists
<1>15. /\ \A j, k \in 1..n : stack[j].file = stack[k].file => j = k
       /\ progress = "stage" => BaseMerged
  BY <1>5 DEF WalkInv
<1>16. Hands(stack, w, order, Own(f))
  BY <1>1, <1>3, <1>6, <1>7, <1>8, <1>9, <1>10, <1>11, <1>12, <1>13, <1>14, <1>15 DEF Hands, FileTypes
<1> QED
  BY <1>16

\* A file over all it includes.
LEMMA FileHands ==
    ASSUME LoadInv, caller = "load", progress \in {"base", "stage"}, calling = None, stack # << >>,
           Head(stack).next > Len(include[Head(stack).file]),
           UNCHANGED <<disk, include, seen>>
    PROVE  \E u, order : Hands(Tail(stack), u, order, Merge(Head(stack).merged, Own(Head(stack).file)))
<1>1. FileTypes
  BY DEF LoadInv
<1>2. PICK w : Lists(w) /\ WalkInv(w[0])
  BY DEF LoadInv, Walks
<1> DEFINE n == Len(stack)
<1>3. /\ n \in Nat \ {0} /\ w \in [0..n -> Seq(Files)] /\ w[0] \in Seq(Files)
      /\ 1 \in 1..n /\ n \in 1..n
  BY <1>1, <1>2, StackFacts DEF Lists
<1>4. PICK done \in Seq(Files) : w[0] = done
  BY <1>3
<1>5. WalkInv(done)
  BY <1>2, <1>4
<1>6. PICK g \in Files : g = stack[1].file
  BY <1>1, <1>3, StackFacts
<1>7. PICK tm \in Configurations : tm = stack[1].merged
  BY <1>1, <1>3, StackFacts
<1>8. Head(stack) = stack[1] /\ stack \in Seq(Frames)
  BY <1>1, <1>3 DEF FileTypes
<1>9. /\ Tail(stack) \in Seq(Frames) /\ Len(Tail(stack)) = n - 1
      /\ \A k \in 1..(n - 1) : Tail(stack)[k] = stack[k + 1]
  BY <1>8, HeadTailProperties
<1> DEFINE config == Merge(tm, Own(g))
           order == Append(done, g)
           u == [k \in 0..(n - 1) |-> w[k + 1]]
           rest == Tail(stack)
<1>10. FrameInv(1, done)
  BY <1>3, <1>5 DEF WalkInv
<1>11. /\ config \in Configurations /\ Overriding(config)
       /\ config.listed = tm.listed \o <<g>>
  <2>1. PICK own \in Configurations : own = Own(g) /\ Overriding(own) /\ own.listed = <<g>>
    BY OwnOverrides
  <2>2. Overriding(tm)
    BY <1>7, <1>10 DEF FrameInv
  <2>3. Merge(tm, own) \in Configurations /\ Overriding(Merge(tm, own))
        /\ Merge(tm, own).listed = tm.listed \o own.listed
    BY <2>1, <2>2, MergeOverrides
  <2> QED
    BY <2>1, <2>3
<1>12. order \in Seq(Files) /\ order # << >> /\ Range(order) = Range(done) \cup {g} /\ order[Len(order)] = g
  <2>1. order \in Seq(Files) /\ Len(order) = Len(done) + 1 /\ Len(done) \in Nat /\ order[Len(done) + 1] = g
    BY EndFacts
  <2>2. Range(order) = Range(done) \cup {g}
    BY EndRange
  <2> HIDE DEF order
  <2>3. order # << >>
    BY <2>1, EmptySeq
  <2> QED
    BY <2>1, <2>2, <2>3
<1>13. /\ u \in [0..(n - 1) -> Seq(Files)] /\ u[0] = w[1] /\ u[n - 1] = w[n]
       /\ \A k \in 1..(n - 1) : u[k] = w[k + 1] /\ u[k - 1] = w[k]
  <2>1. 0 \in 0..(n - 1) /\ n - 1 \in 0..(n - 1) /\ \A k \in 0..(n - 1) : k + 1 \in 0..n
    BY <1>3
  <2>2. \A k \in 1..(n - 1) : k \in 0..(n - 1) /\ k - 1 \in 0..(n - 1) /\ (k - 1) + 1 = k
    BY <1>3
  <2>3. 0 + 1 = 1 /\ (n - 1) + 1 = n
    BY <1>3
  <2> QED
    BY <1>3, <2>1, <2>2, <2>3
<1>14. u[0] \o config.listed = order
  <2> DEFINE a == w[1]
             b == tm.listed
             c == <<g>>
  <2>1. a \in Seq(Files) /\ b \in Seq(Files) /\ c \in Seq(Files)
    <3>1. 1 \in 0..n
      BY <1>3
    <3> QED
      BY <1>3, <3>1 DEF Configurations
  <2>2. done = a \o b
    <3>1. 1 - 1 = 0
      OBVIOUS
    <3>2. \A k \in 1..n : w[k - 1] = w[k] \o stack[k].merged.listed
      BY <1>2 DEF Lists
    <3>3. w[1 - 1] = w[1] \o stack[1].merged.listed
      BY <1>3, <3>2
    <3> QED
      BY <1>4, <1>7, <3>1, <3>3
  <2>3. order = done \o c
    BY EndIsJoin
  <2>4. config.listed = b \o c
    BY <1>11
  <2> HIDE DEF a, b, c, order, config
  <2>5. (a \o b) \o c = a \o (b \o c)
    BY <2>1, ConcatAssociative, SMTT(30)
  <2>6. order = a \o config.listed
    BY <2>2, <2>3, <2>4, <2>5
  <2> QED
    BY <1>13, <2>6 DEF a
<1>15. Grows
  BY DEF Grows
<1>16. Ordered(order)'
  <2>1. g \notin Range(done) /\ disk'[g] = "read"
    BY <1>6, <1>10 DEF FrameInv
  <2>2. Range(include'[g]) \subseteq Range(done)
    <3>1. include[g] \in Seq(Files)
      BY <1>1 DEF FileTypes
    <3>2. Len(include[g]) \in Nat /\ DOMAIN include[g] = 1..Len(include[g])
      BY <3>1
    <3>3. stack[1].next \in Nat \ {0}
      BY <1>1, <1>3, StackFacts
    <3>4. stack[1].next - 1 = Len(include[g])
      <4>1. stack[1].next > Len(include[g])
        BY <1>6, <1>8
      <4>2. stack[1].next - 1 \in 1..Len(include[g])
        BY <1>6, <1>10 DEF FrameInv
      <4> QED
        BY <3>2, <3>3, <4>1, <4>2
    <3>5. \A q \in 1..Len(include[g]) : include[g][q] \in Range(done)
      BY <1>6, <1>10, <3>4 DEF FrameInv
    <3>6. Range(include[g]) \subseteq Range(done)
      BY <3>2, <3>5 DEF Range
    <3> QED
      BY <3>6
  <2>3. Ordered(done)
    BY <1>5 DEF WalkInv
  <2> QED
    BY <1>15, <2>1, <2>2, <2>3, OrderedGrows
<1> HIDE DEF order, u, config
<1>17. seen' = Range(order) \cup {rest[k].file : k \in 1..(n - 1)}
  <2>1. seen = Range(done) \cup {stack[k].file : k \in 1..n}
    BY <1>1, <1>5, StackFacts DEF WalkInv
  <2>2. \A k \in 1..n : k = 1 \/ k - 1 \in 1..(n - 1)
    BY <1>3
  <2>3. \A k \in 1..n : stack[k].file = g \/ \E j \in 1..(n - 1) : stack[k].file = rest[j].file
    <3> TAKE k \in 1..n
    <3>1. CASE k = 1
      BY <1>6, <3>1
    <3>2. CASE k # 1
      <4>1. k - 1 \in 1..(n - 1) /\ (k - 1) + 1 = k
        BY <1>3, <3>2
      <4>2. rest[k - 1] = stack[k]
        BY <1>9, <4>1
      <4> QED
        BY <4>1, <4>2
    <3> QED
      BY <3>1, <3>2
  <2>4. \A k \in 1..(n - 1) : k + 1 \in 1..n /\ rest[k].file = stack[k + 1].file
    BY <1>3, <1>9
  <2>5. {stack[k].file : k \in 1..n} = {g} \cup {rest[k].file : k \in 1..(n - 1)}
    <3> HIDE DEF rest
    <3>1. ASSUME NEW x \in {stack[k].file : k \in 1..n}
          PROVE  x \in {g} \cup {rest[k].file : k \in 1..(n - 1)}
      BY <2>3
    <3>2. ASSUME NEW x \in {rest[k].file : k \in 1..(n - 1)}
          PROVE  x \in {stack[k].file : k \in 1..n}
      <4>1. PICK k \in 1..(n - 1) : x = rest[k].file
        OBVIOUS
      <4>2. k + 1 \in 1..n /\ x = stack[k + 1].file
        BY <2>4, <4>1
      <4> QED
        BY <4>2
    <3>3. g \in {stack[k].file : k \in 1..n}
      BY <1>3, <1>6
    <3> QED
      BY <3>1, <3>2, <3>3
  <2> QED
    BY <1>12, <2>1, <2>5
<1>18. \A f \in seen' : f = Root \/ (progress = "stage" /\ IsStage(f)') \/ \E h \in seen' : f \in Includes(h)'
  <2>1. Reached(seen, progress = "stage")
    BY <1>5 DEF WalkInv
  <2> QED
    BY <2>1 DEF Reached, IsStage, Includes
<1>19. ASSUME NEW k \in 1..(n - 1)
       PROVE  Waits(rest, k, order)
  <2>1. k + 1 \in 1..n /\ (k + 1) - 1 = k /\ k + 1 # 1 /\ rest[k] = stack[k + 1]
    BY <1>3, <1>9
  <2>2. FrameInv(k + 1, done)
    BY <1>5, <2>1 DEF WalkInv
  <2>3. stack[k + 1].file # g
    BY <1>3, <1>5, <1>6, <2>1 DEF WalkInv
  <2> DEFINE f == rest[k].file
             m == rest[k].next - 1
  <2>4. /\ disk[f] = "read" /\ f \notin Range(done) /\ f # g
        /\ m \in 1..Len(include[f])
        /\ \A q \in 1..m : include[f][q] \in Range(done) \/ q = m
        /\ include[f][m] = stack[k].file
        /\ Overriding(rest[k].merged)
    BY <2>1, <2>2, <2>3 DEF FrameInv
  <2>5. k = 1 => include[f][m] = g
    BY <1>6, <2>4
  <2>6. k # 1 => include[f][m] = rest[k - 1].file
    <3>1. k # 1 => k - 1 \in 1..(n - 1) /\ (k - 1) + 1 = k
      BY <1>3
    <3> QED
      BY <1>9, <2>4, <3>1
  <2> HIDE DEF rest
  <2> QED
    BY <1>12, <2>4, <2>5, <2>6 DEF Waits
<1>20. Starts(IF rest = << >> THEN order[Len(order)] ELSE rest[Len(rest)].file)
  <2>1. Begins(stack[n].file)
    BY <1>5 DEF WalkInv
  <2>2. Starts(stack[n].file)
    <3>1. disk' = disk
      OBVIOUS
    <3> QED
      BY <2>1, <3>1 DEF Begins, Starts, IsStage
  <2>3. CASE rest = << >>
    <3>1. n = 1
      <4>1. Len(rest) = n - 1
        BY <1>9
      <4> HIDE DEF rest
      <4>2. Len(rest) = 0
        BY <2>3
      <4>3. n \in Nat
        BY <1>3
      <4> HIDE DEF n
      <4> QED
        BY <4>1, <4>2, <4>3
    <3> QED
      BY <1>6, <1>12, <2>2, <2>3, <3>1
  <2>4. CASE rest # << >>
    <3>1. Len(rest) \in 1..(n - 1)
      BY <1>9, <2>4, EmptySeq
    <3>2. rest[Len(rest)] = stack[n]
      BY <1>3, <1>9, <3>1
    <3> QED
      BY <2>2, <2>4, <3>2
  <2> QED
    BY <2>3, <2>4
<1>21. \A j, k \in 1..(n - 1) : rest[j].file = rest[k].file => j = k
  <2> TAKE j, k \in 1..(n - 1)
  <2>1. /\ j + 1 \in 1..n /\ k + 1 \in 1..n /\ (j + 1 = k + 1 => j = k)
        /\ rest[j] = stack[j + 1] /\ rest[k] = stack[k + 1]
    BY <1>3, <1>9
  <2> QED
    BY <1>5, <2>1 DEF WalkInv
<1>22. /\ u[n - 1] = IF progress = "base" THEN << >> ELSE base.listed
       /\ \A k \in 1..(n - 1) : u[k - 1] = u[k] \o rest[k].merged.listed
  <2>1. /\ w[n] = IF progress = "base" THEN << >> ELSE base.listed
        /\ \A k \in 1..n : w[k - 1] = w[k] \o stack[k].merged.listed
    BY <1>2 DEF Lists
  <2>2. ASSUME NEW k \in 1..(n - 1)
        PROVE  u[k - 1] = u[k] \o rest[k].merged.listed
    <3>1. k + 1 \in 1..n /\ (k + 1) - 1 = k
      BY <1>3
    <3>2. w[(k + 1) - 1] = w[k + 1] \o stack[k + 1].merged.listed
      BY <2>1, <3>1
    <3>3. w[k] = w[k + 1] \o rest[k].merged.listed
      BY <1>9, <3>1, <3>2
    <3> QED
      BY <1>13, <3>3
  <2> QED
    BY <1>13, <2>1, <2>2
<1>23. progress = "stage" => BaseMerged
  BY <1>5 DEF WalkInv
<1>24. Hands(rest, u, order, config)
  <2> HIDE DEF rest
  <2>1. rest \in Seq(Frames) /\ Len(rest) = n - 1
    BY <1>9 DEF rest
  <2> QED
    BY <1>11, <1>12, <1>13, <1>14, <1>16, <1>17, <1>18, <1>19, <1>20, <1>21, <1>22, <1>23, <2>1 DEF Hands
<1>25. config = Merge(Head(stack).merged, Own(Head(stack).file))
  BY <1>6, <1>7, <1>8 DEF config
<1> QED
  BY <1>24, <1>25

\* What a call leaves as it was.
LEMMA FrameStays ==
    ASSUME NEW done, NEW k, FrameInv(k, done), k # 1,
           UNCHANGED <<disk, include>>,
           stack'[k].file = stack[k].file, stack'[k].next = stack[k].next,
           stack'[k].merged = stack[k].merged, stack'[k - 1].file = stack[k - 1].file
    PROVE  FrameInv(k, done)'
<1>1. Overriding(stack[k].merged)'
  BY DEF FrameInv, Overriding
<1> QED
  BY <1>1 DEF FrameInv

\* A file already merged, by a call that waits for it: the call goes on.
LEMMA SkipsInCall ==
    ASSUME LoadInv, caller = "load", progress \in {"base", "stage"},
           NEW f \in Files, calling = f, f \notin Ancestors, f \in seen,
           stack # << >>, Return(None, stack), UNCHANGED <<disk, include, seen>>
    PROVE  Walks'
<1>1. FileTypes
  BY DEF LoadInv
<1>2. PICK w : Lists(w) /\ WalkInv(w[0])
  BY DEF LoadInv, Walks
<1>3. PICK done : done = w[0]
  OBVIOUS
<1>4. WalkInv(done)
  BY <1>2, <1>3
<1>5. stack \in Seq(Frames)
  BY <1>1 DEF FileTypes
<1>6. stack' = stack /\ calling' = None /\ progress' = progress /\ base' = base
  <2>1. stack' = [stack EXCEPT ![1].merged = stack[1].merged]
    BY DEF Return
  <2> QED
    BY <1>5, <2>1, SameFrames DEF Return
<1>7. f \in Range(done)
  BY <1>4 DEF WalkInv
<1>8. ASSUME NEW k \in 1..Len(stack)
      PROVE  FrameInv(k, done)'
  <2>1. FrameInv(k, done)
    BY <1>4 DEF WalkInv
  <2>2. CASE k # 1
    BY <1>6, <2>1, <2>2, FrameStays
  <2>3. CASE k = 1
    <3>1. Overriding(stack[1].merged)'
      BY <1>6, <2>1, <2>3 DEF FrameInv, Overriding
    <3>2. f # None
      BY FilesAssumption
    <3> QED
      BY <1>6, <1>7, <2>1, <2>3, <3>1, <3>2 DEF FrameInv
  <2> QED
    BY <2>2, <2>3
<1>9. Ordered(done)'
  BY <1>4 DEF WalkInv, Ordered, Includes
<1>10. Reached(seen, progress = "stage")'
  BY <1>4, <1>6 DEF WalkInv, Reached, IsStage, Includes
<1>11. Begins(stack[Len(stack)].file)'
  BY <1>4, <1>6 DEF WalkInv, Begins, IsStage
<1>12. progress' = "stage" => BaseMerged'
  <2>1. Grows
    BY DEF Grows
  <2>2. progress = "stage" => BaseMerged
    BY <1>4 DEF WalkInv
  <2> QED
    BY <1>1, <1>6, <2>1, <2>2, BaseKeeps DEF FileTypes
<1>13. Ancestors' = Ancestors
  BY <1>6 DEF Ancestors
<1>14. \A j, k \in 1..Len(stack) : stack[j].file = stack[k].file => j = k
  BY <1>4 DEF WalkInv
<1>15. seen = Range(done) \cup Ancestors
  BY <1>4 DEF WalkInv
<1>16. WalkInv(done)'
  BY <1>6, <1>8, <1>9, <1>10, <1>11, <1>12, <1>13, <1>14, <1>15 DEF WalkInv
<1>17. Lists(w)'
  BY <1>2, <1>6 DEF Lists
<1>18. Lists(w)' /\ WalkInv(w[0])'
  BY <1>3, <1>16, <1>17
<1> QED
  BY <1>18 DEF Walks

\* A stage file the Deployfile has merged: the load is what the Deployfile resolved to.
LEMMA SkipsStage ==
    ASSUME LoadInv, caller = "load", progress = "stage",
           NEW f \in Files, calling = f, f \in seen,
           stack = << >>, Return(None, stack), UNCHANGED <<disk, include, seen>>
    PROVE  CfgMerged' /\ cfg' \in Configurations /\ progress' = "check"
<1>1. FileTypes
  BY DEF LoadInv
<1>2. PICK w : Lists(w) /\ WalkInv(w[0])
  BY DEF LoadInv, Walks
<1>3. BaseMerged /\ IsStage(f)
  BY <1>2, FilesAssumption DEF WalkInv, Begins
<1>4. PICK b \in Configurations : base = b
  BY <1>1, <1>3 DEF FileTypes, BaseMerged
<1>5. base' = b /\ cfg' = Merge(b, Empty) /\ progress' = "check"
  BY <1>4 DEF Return
<1>6. Len(stack) = 0 /\ DOMAIN stack = {}
  OBVIOUS
<1>7. w[0] = b.listed
  BY <1>2, <1>4, <1>6 DEF Lists
<1>8. seen = Range(b.listed)
  BY <1>2, <1>6, <1>7 DEF WalkInv, Ancestors
<1>9. b.listed \in Seq(Files) /\ Overriding(b) /\ Ordered(b.listed)
  BY <1>3, <1>4 DEF Configurations, BaseMerged
<1>10. PICK c \in Configurations : c = Merge(b, Empty) /\ c.listed = b.listed \o << >> /\ Overriding(c)
  BY <1>9, EmptyOverrides, MergeOverrides
<1>11. << >> \in Seq(Files) /\ b.listed \o << >> = b.listed
  BY <1>9, ConcatEmptySeq
<1>12. cfg' = c
  BY <1>5, <1>10
<1>13. Grows
  BY DEF Grows
<1>14. BaseMerged'
  BY <1>1, <1>3, <1>4, <1>5, <1>13, BaseKeeps DEF FileTypes
<1>15. Ordered(c.listed)'
  <2>1. PICK s \in Seq(Files) : s = c.listed /\ Ordered(s)
    BY <1>9, <1>10, <1>11
  <2>2. Ordered(s)'
    BY <1>13, <2>1, OrderedKeeps
  <2> QED
    BY <2>1, <2>2
<1>16. IsStage(f)'
  BY <1>3 DEF IsStage
<1>17. \A g \in Range(c.listed) : g = Root \/ IsStage(g)' \/ \E h \in Range(c.listed) : g \in Includes(h)'
  <2>1. Reached(seen, progress = "stage")
    BY <1>2 DEF WalkInv
  <2>2. Range(c.listed) = seen
    BY <1>8, <1>10, <1>11
  <2> QED
    BY <2>1, <2>2 DEF Reached, IsStage, Includes
<1>18. f \in Range(c.listed)
  BY <1>8, <1>10, <1>11
<1>19. CfgMerged'
  BY <1>5, <1>10, <1>11, <1>12, <1>14, <1>15, <1>16, <1>17, <1>18, StageOver
<1> QED
  BY <1>5, <1>10, <1>12, <1>19

\* A return of nil.
LEMMA SkipKeeps ==
    ASSUME LoadInv, progress \in {"base", "stage"},
           NEW f \in Files, calling = f, f \notin Ancestors, f \in seen,
           Return(None, stack), UNCHANGED <<disk, include, seen>>
    PROVE  LoadInv'
<1>1. FileTypes
  BY DEF LoadInv
<1>2. stack \in Seq(Frames)
  BY <1>1 DEF FileTypes
<1>3. /\ calling' = None /\ caller' = caller /\ failure' = failure
      /\ stack' \in Seq(Frames) /\ base' \in Configurations \cup {None}
      /\ ~(caller = "load" /\ progress = "stage" /\ stack = << >>) => cfg' = cfg
      /\ (progress' = progress /\ stack' # << >>) \/ (stack' = << >> /\ stack = << >>)
  BY <1>1, <1>2, ReturnTypes
<1>4. caller = "load" =>
          /\ cfg' = cfg \/ (cfg' \in Configurations /\ CfgMerged')
          /\ progress' \in {"base", "stage"} => Walks'
  <2> HAVE caller = "load"
  <2>1. CASE stack # << >>
    BY <1>3, <2>1, SkipsInCall
  <2>2. CASE stack = << >> /\ progress = "base"
    <3>1. PICK w : WalkInv(w[0])
      BY DEF LoadInv, Walks
    <3>2. seen = {}
      BY <2>2, <3>1 DEF WalkInv
    <3> QED
      BY <3>2
  <2>3. CASE stack = << >> /\ progress = "stage"
    BY <2>3, SkipsStage
  <2> QED
    BY <2>1, <2>2, <2>3
<1>5. cfg' = cfg \/ (cfg' \in Configurations /\ CfgMerged')
  BY <1>3, <1>4
<1>6. FileTypes'
  BY <1>1, <1>3, <1>5 DEF FileTypes
<1>7. progress' \in {"base", "stage"} \/ (stack' = << >> /\ calling' = None)
  BY <1>3
<1>8. Grows
  BY DEF Grows
<1>9. /\ failure' = "circular" => failure = "circular" \/ CircleFound'
      /\ caller' = "load" /\ progress' \in {"base", "stage"} => Walks'
  BY <1>3, <1>4
<1> QED
  BY <1>5, <1>6, <1>7, <1>8, <1>9, LoadInvKeeps

\* A call is added to the stack.
LEMMA Pushed ==
    ASSUME NEW frames \in Seq(Frames), NEW top \in Frames, NEW s, s = <<top>> \o frames
    PROVE  /\ s \in Seq(Frames) /\ s # << >> /\ Len(s) = Len(frames) + 1 /\ Len(frames) \in Nat
           /\ s[1] = top
           /\ \A k \in 1..Len(frames) : s[k + 1] = frames[k]
<1> DEFINE one == <<top>>
<1>1. one \in Seq(Frames) /\ Len(one) = 1 /\ one[1] = top
  OBVIOUS
<1> HIDE DEF one
<1>2. s = one \o frames
  BY DEF one
<1>3. /\ s \in Seq(Frames) /\ Len(frames) \in Nat /\ Len(s) = 1 + Len(frames)
      /\ \A m \in 1..1 : s[m] = one[m]
      /\ \A m \in 1..Len(frames) : s[1 + m] = frames[m]
  BY <1>1, <1>2, JoinFacts
<1>4. s # << >>
  BY <1>3, EmptySeq
<1> QED
  BY <1>1, <1>3, <1>4

\* A file with includes, called for the first time.
LEMMA DescendWalks ==
    ASSUME LoadInv, Grows, caller = "load", progress \in {"base", "stage"},
           NEW f \in Files, calling = f, f \notin Ancestors, f \notin seen,
           disk'[f] = "read", include' \in [Files -> Seq(Files)], include'[f] # << >>,
           seen' = seen \cup {f}, calling' = include'[f][1],
           stack' = <<[file |-> f, next |-> 2, merged |-> Empty]>> \o stack,
           UNCHANGED <<progress, base>>
    PROVE  Walks'
<1>1. FileTypes
  BY DEF LoadInv
<1>2. PICK w : Lists(w) /\ WalkInv(w[0])
  BY DEF LoadInv, Walks
<1>3. PICK n \in Nat : n = Len(stack)
  BY <1>1, StackFacts
<1>4. w \in [0..n -> Seq(Files)] /\ w[0] \in Seq(Files)
  <2>1. 0 \in 0..n
    BY <1>3
  <2> QED
    BY <1>2, <1>3, <2>1 DEF Lists
<1>5. PICK done \in Seq(Files) : w[0] = done
  BY <1>4
<1>6. WalkInv(done)
  BY <1>2, <1>5
<1> DEFINE top == [file |-> f, next |-> 2, merged |-> Empty]
<1>7. top \in Frames /\ top.file = f /\ top.next = 2 /\ top.merged = Empty
  BY EmptyOverrides DEF Frames
<1> HIDE DEF top
<1>8. PICK s : s = stack' /\ s = <<top>> \o stack
  BY DEF top
<1>9. /\ s \in Seq(Frames) /\ s # << >> /\ Len(s) = n + 1
      /\ s[1] = top
      /\ \A k \in 1..n : s[k + 1] = stack[k]
  BY <1>1, <1>3, <1>7, <1>8, Pushed DEF FileTypes
<1>10. \A k \in 1..(n + 1) : k # 1 => k - 1 \in 1..n /\ k - 1 \in 0..n /\ (k - 1) + 1 = k /\ s[k] = stack[k - 1]
  <2> TAKE k \in 1..(n + 1)
  <2> HAVE k # 1
  <2>1. k - 1 \in 1..n /\ k - 1 \in 0..n /\ (k - 1) + 1 = k
    BY <1>3
  <2> QED
    BY <1>9, <2>1
<1> DEFINE v == [k \in 0..(n + 1) |-> IF k = 0 THEN done ELSE w[k - 1]]
<1>11. /\ v \in [0..(n + 1) -> Seq(Files)] /\ v[0] = done
       /\ \A k \in 1..(n + 1) : v[k] = w[k - 1]
  <2>1. \A k \in 0..(n + 1) : k # 0 => k - 1 \in 0..n
    BY <1>3
  <2>2. \A k \in 1..(n + 1) : k \in 0..(n + 1) /\ k # 0
    BY <1>3
  <2>3. 0 \in 0..(n + 1)
    BY <1>3
  <2> QED
    BY <1>4, <1>5, <2>1, <2>2, <2>3
<1> HIDE DEF v
<1>12. Lists(v)'
  <2>1. /\ w[n] = IF progress = "base" THEN << >> ELSE base.listed
        /\ \A k \in 1..n : w[k - 1] = w[k] \o stack[k].merged.listed
    BY <1>2, <1>3 DEF Lists
  <2>2. v[n + 1] = w[n]
    <3>1. n + 1 \in 1..(n + 1) /\ (n + 1) - 1 = n
      BY <1>3
    <3> QED
      BY <1>11, <3>1
  <2>3. ASSUME NEW k \in 1..(n + 1)
        PROVE  v[k - 1] = v[k] \o s[k].merged.listed
    <3>1. CASE k = 1
      <4>1. v[k - 1] = done /\ v[k] = done
        <5>1. 1 - 1 = 0
          OBVIOUS
        <5> QED
          BY <1>5, <1>11, <3>1, <5>1
      <4>2. s[k].merged.listed = << >>
        BY <1>7, <1>9, <3>1, EmptyOverrides
      <4>3. done \o << >> = done
        BY ConcatEmptySeq
      <4> QED
        BY <4>1, <4>2, <4>3
    <3>2. CASE k # 1
      <4>1. k - 1 \in 1..n /\ k - 1 \in 1..(n + 1) /\ s[k] = stack[k - 1]
        BY <1>3, <1>10, <3>2
      <4>2. v[k - 1] = w[(k - 1) - 1] /\ v[k] = w[k - 1]
        BY <1>11, <4>1
      <4>3. w[(k - 1) - 1] = w[k - 1] \o stack[k - 1].merged.listed
        BY <2>1, <4>1
      <4> QED
        BY <4>1, <4>2, <4>3
    <3> QED
      BY <3>1, <3>2
  <2>4. stack' = s /\ Len(stack') = n + 1
    BY <1>8, <1>9
  <2>5. v[n + 1] = IF progress' = "base" THEN << >> ELSE base'.listed
    BY <2>1, <2>2
  <2> QED
    BY <1>11, <2>3, <2>4, <2>5 DEF Lists
<1>13. Ancestors' = Ancestors \cup {f}
  <2>1. DOMAIN s = 1..(n + 1)
    BY <1>9
  <2>2. Ancestors' = {s[k].file : k \in 1..(n + 1)}
    BY <1>8, <2>1 DEF Ancestors
  <2>3. Ancestors = {stack[k].file : k \in 1..n}
    BY <1>1, <1>3, StackFacts
  <2>4. 1 \in 1..(n + 1) /\ \A k \in 1..n : k + 1 \in 1..(n + 1)
    BY <1>3
  <2>5. f \in Ancestors'
    BY <1>7, <1>9, <2>2, <2>4
  <2>6. \A g \in Ancestors : g \in Ancestors'
    BY <1>9, <2>2, <2>3, <2>4
  <2>7. \A g \in Ancestors' : g = f \/ g \in Ancestors
    <3> TAKE g \in Ancestors'
    <3>1. PICK k \in 1..(n + 1) : g = s[k].file
      BY <2>2
    <3>2. CASE k = 1
      BY <1>7, <1>9, <3>1, <3>2
    <3>3. CASE k # 1
      BY <1>10, <2>3, <3>1, <3>3
    <3> QED
      BY <3>2, <3>3
  <2> QED
    BY <2>5, <2>6, <2>7
<1>14. seen' = Range(done) \cup Ancestors'
  BY <1>6, <1>13 DEF WalkInv
<1>15. \A j, k \in 1..(n + 1) : s[j].file = s[k].file => j = k
  <2>1. \A k \in 1..n : stack[k].file # f
    BY <1>1, <1>3, StackFacts
  <2>2. \A j, k \in 1..n : stack[j].file = stack[k].file => j = k
    BY <1>3, <1>6 DEF WalkInv
  <2> TAKE j, k \in 1..(n + 1)
  <2> HAVE s[j].file = s[k].file
  <2>3. CASE j = 1 /\ k = 1
    BY <2>3
  <2>4. CASE j = 1 /\ k # 1
    BY <1>7, <1>9, <1>10, <2>1, <2>4
  <2>5. CASE j # 1 /\ k = 1
    BY <1>7, <1>9, <1>10, <2>1, <2>5
  <2>6. CASE j # 1 /\ k # 1
    <3>1. /\ j - 1 \in 1..n /\ (j - 1) + 1 = j /\ s[j] = stack[j - 1]
          /\ k - 1 \in 1..n /\ (k - 1) + 1 = k /\ s[k] = stack[k - 1]
      BY <1>10, <2>6
    <3>2. stack[j - 1].file = stack[k - 1].file
      BY <3>1
    <3>3. j - 1 = k - 1
      BY <2>2, <3>1, <3>2
    <3> QED
      BY <3>1, <3>3
  <2> QED
    BY <2>3, <2>4, <2>5, <2>6
<1>16. ASSUME NEW k \in 1..(n + 1)
       PROVE  FrameInv(k, done)'
  <2>1. CASE k = 1
    <3>1. stack'[1].file = f /\ stack'[1].next = 2 /\ stack'[1].merged = Empty
      BY <1>7, <1>8, <1>9
    <3>2. include'[f] \in Seq(Files) /\ Len(include'[f]) \in Nat /\ Len(include'[f]) # 0
      BY EmptySeq
    <3>3. 2 - 1 = 1 /\ 1 \in 1..Len(include'[f]) /\ 1..1 = {1}
      BY <3>2
    <3>4. calling' \in Files /\ calling' # None
      BY <3>2, <3>3, FilesAssumption
    <3>5. f \notin Range(done)
      BY <1>6 DEF WalkInv
    <3>6. Overriding(stack[1].merged)'
      BY <3>1, EmptyOverrides DEF Overriding
    <3> QED
      BY <2>1, <3>1, <3>3, <3>4, <3>5, <3>6 DEF FrameInv
  <2>2. CASE k # 1
    <3>1. PICK j \in 1..n : j = k - 1 /\ k = j + 1
      BY <1>10, <2>2
    <3>2. stack'[k] = stack[j]
      BY <1>8, <1>9, <3>1
    <3>3. FrameInv(j, done)
      BY <1>3, <1>6 DEF WalkInv
    <3>4. stack[j].file \in Files
      BY <1>1, <1>3, StackFacts
    <3>5. disk'[stack[j].file] = "read" /\ include'[stack[j].file] = include[stack[j].file]
      BY <3>3, <3>4 DEF FrameInv, Grows
    <3>6. include[stack[j].file][stack[j].next - 1] = stack'[k - 1].file
      <4>1. CASE j = 1
        <5>1. calling # None
          BY FilesAssumption
        <5>2. k - 1 = 1 /\ stack'[1].file = f
          BY <1>7, <1>8, <1>9, <3>1, <4>1
        <5> QED
          BY <3>3, <4>1, <5>1, <5>2 DEF FrameInv
      <4>2. CASE j # 1
        <5>1. j - 1 \in 1..n /\ (j - 1) + 1 = k - 1
          BY <1>3, <3>1, <4>2
        <5>2. stack'[k - 1] = stack[j - 1]
          BY <1>8, <1>9, <5>1
        <5> QED
          BY <3>3, <4>2, <5>2 DEF FrameInv
      <4> QED
        BY <4>1, <4>2
    <3>7. Overriding(stack[k].merged)'
      BY <3>2, <3>3 DEF FrameInv, Overriding
    <3>8. \A q \in 1..(stack[j].next - 1) : include[stack[j].file][q] \in Range(done) \/ q = stack[j].next - 1
      BY <3>3 DEF FrameInv
    <3>9. stack[j].file \notin Range(done) /\ stack[j].next - 1 \in 1..Len(include[stack[j].file])
      BY <3>3 DEF FrameInv
    <3> QED
      BY <2>2, <3>2, <3>5, <3>6, <3>7, <3>8, <3>9 DEF FrameInv
  <2> QED
    BY <2>1, <2>2
<1>17. Ordered(done)'
  BY <1>6, OrderedKeeps DEF WalkInv
<1>18. Reached(seen, progress = "stage")'
  <2>1. \A g \in seen' : g = Root \/ (progress = "stage" /\ IsStage(g)') \/ \E h \in seen' : g \in Includes(h)'
    BY <1>1, <1>6, CalledReached
  <2> QED
    BY <2>1 DEF Reached
<1>19. Begins(stack[Len(stack)].file)'
  <2>1. stack'[Len(stack')].file = IF n = 0 THEN f ELSE stack[n].file
    <3>1. n # 0 => n \in 1..n
      BY <1>3
    <3>2. n = 0 => s[n + 1] = top
      BY <1>9
    <3>3. n # 0 => s[n + 1] = stack[n]
      BY <1>9, <3>1
    <3>4. stack'[Len(stack')] = s[n + 1]
      BY <1>8, <1>9
    <3> QED
      BY <1>7, <3>2, <3>3, <3>4
  <2>2. Starts(IF n = 0 THEN f ELSE stack[n].file)
    <3>1. CASE n = 0
      <4>1. stack = << >>
        BY <1>1, <1>3, <3>1, EmptySeq DEF FileTypes
      <4>2. Begins(f)
        BY <1>6, <4>1, FilesAssumption DEF WalkInv
      <4> QED
        BY <3>1, <4>2, StillStarts
    <3>2. CASE n # 0
      <4>1. stack # << >> /\ n \in 1..n
        BY <1>3, <3>2, EmptySeq
      <4>2. Begins(stack[n].file) /\ disk[stack[n].file] = "read" /\ stack[n].file \in Files
        BY <1>1, <1>3, <1>6, <4>1, StackFacts DEF WalkInv, FrameInv
      <4>3. disk'[stack[n].file] # "missing"
        BY <4>2 DEF Grows
      <4> QED
        BY <3>2, <4>2, <4>3, StillStarts
    <3> QED
      BY <3>1, <3>2
  <2> QED
    BY <2>1, <2>2 DEF Starts, Begins, IsStage
<1>20. progress' = "stage" => BaseMerged'
  BY <1>1, <1>6, BaseKeeps DEF FileTypes, WalkInv
<1>21. WalkInv(done)'
  <2>1. stack' = s /\ Len(stack') = n + 1 /\ stack' # << >>
    BY <1>8, <1>9
  <2> QED
    BY <1>14, <1>15, <1>16, <1>17, <1>18, <1>19, <1>20, <2>1 DEF WalkInv
<1>22. Lists(v)' /\ WalkInv(v[0])'
  BY <1>11, <1>12, <1>21
<1> QED
  BY <1>22 DEF Walks

\* The loop goes on to the next entry of include:.
LEMMA NextWalks ==
    ASSUME LoadInv, caller = "load", progress \in {"base", "stage"}, calling = None, stack # << >>,
           stack[1].next <= Len(include[stack[1].file]),
           calling' = include[stack[1].file][stack[1].next],
           stack' = [stack EXCEPT ![1].next = @ + 1],
           UNCHANGED <<disk, include, seen, progress, base>>
    PROVE  Walks'
<1>1. FileTypes
  BY DEF LoadInv
<1>2. PICK w : Lists(w) /\ WalkInv(w[0])
  BY DEF LoadInv, Walks
<1>3. PICK done : done = w[0]
  OBVIOUS
<1>4. WalkInv(done)
  BY <1>2, <1>3
<1>5. 1 \in 1..Len(stack) /\ stack[1] \in Frames /\ stack[1].next \in Nat \ {0} /\ stack[1].file \in Files
  BY <1>1, StackFacts
<1>6. PICK s : s = stack' /\ s = [stack EXCEPT ![1] = [stack[1] EXCEPT !.next = stack[1].next + 1]]
  OBVIOUS
<1>7. /\ Len(s) = Len(stack) /\ s # << >> /\ DOMAIN s = DOMAIN stack
      /\ \A k \in 1..Len(stack) : s[k].file = stack[k].file /\ s[k].merged = stack[k].merged
      /\ s[1].next = stack[1].next + 1
      /\ \A k \in 1..Len(stack) : k # 1 => s[k].next = stack[k].next
  <2> DEFINE one == [stack[1] EXCEPT !.next = stack[1].next + 1]
  <2>1. /\ one \in Frames /\ one.next = stack[1].next + 1
        /\ one.file = stack[1].file /\ one.merged = stack[1].merged
    BY <1>5 DEF Frames
  <2> HIDE DEF one
  <2>2. stack \in Seq(Frames) /\ s = [stack EXCEPT ![1] = one]
    BY <1>1, <1>6 DEF FileTypes, one
  <2>3. /\ s \in Seq(Frames) /\ Len(s) = Len(stack)
        /\ \A k \in 1..Len(stack) : s[k] = IF k = 1 THEN one ELSE stack[k]
    BY <1>5, <2>1, <2>2, ExceptSeq
  <2>4. DOMAIN s = DOMAIN stack
    BY <2>2, <2>3
  <2>5. s # << >>
    BY <1>5, <2>3, EmptySeq
  <2> QED
    BY <1>5, <2>1, <2>3, <2>4, <2>5
<1>8. ASSUME NEW k \in 1..Len(stack)
      PROVE  FrameInv(k, done)'
  <2>1. FrameInv(k, done)
    BY <1>4 DEF WalkInv
  <2>2. CASE k # 1
    <3>1. k - 1 \in 1..Len(stack)
      BY <1>1, <2>2, StackFacts
    <3>2. stack'[k].file = stack[k].file /\ stack'[k].next = stack[k].next
          /\ stack'[k].merged = stack[k].merged /\ stack'[k - 1].file = stack[k - 1].file
      BY <1>6, <1>7, <2>2, <3>1
    <3> QED
      BY <2>1, <2>2, <3>2, FrameStays
  <2>3. CASE k = 1
    <3> DEFINE f == stack[1].file
               n == stack[1].next
    <3>1. include[f] \in Seq(Files) /\ Len(include[f]) \in Nat /\ n \in Nat \ {0} /\ n \in 1..Len(include[f])
      BY <1>1, <1>5 DEF FileTypes
    <3>2. calling' \in Files /\ calling' # None
      <4>1. calling' = include[f][n]
        OBVIOUS
      <4> HIDE DEF f, n
      <4>2. include[f][n] \in Files
        BY <3>1
      <4> QED
        BY <4>1, <4>2, FilesAssumption
    <3>3. /\ disk[f] = "read" /\ f \notin Range(done)
          /\ \A q \in 1..(n - 1) : include[f][q] \in Range(done)
      BY <2>1, <2>3 DEF FrameInv
    <3>4. /\ stack'[1].file = f /\ stack'[1].next - 1 = n
      BY <1>6, <1>7, <1>5, <3>1
    <3>5. Overriding(stack[1].merged)'
      BY <1>5, <1>6, <1>7, <2>1, <2>3 DEF FrameInv, Overriding
    <3>6. \A q \in 1..n : q \in 1..(n - 1) \/ q = n
      BY <3>1
    <3>7. calling' = include[f][n]
      OBVIOUS
    <3> HIDE DEF f, n
    <3> QED
      BY <2>3, <3>1, <3>2, <3>3, <3>4, <3>5, <3>6, <3>7 DEF FrameInv
  <2> QED
    BY <2>2, <2>3
<1>9. Ordered(done)'
  BY <1>4 DEF WalkInv, Ordered, Includes
<1>10. Reached(seen, progress = "stage")'
  BY <1>4 DEF WalkInv, Reached, IsStage, Includes
<1>11. Begins(stack[Len(stack)].file)'
  <2>1. Len(stack) \in 1..Len(stack)
    BY <1>1, StackFacts
  <2>2. stack'[Len(stack')].file = stack[Len(stack)].file
    BY <1>6, <1>7, <2>1
  <2> QED
    BY <1>4, <2>2 DEF WalkInv, Begins, IsStage
<1>12. progress' = "stage" => BaseMerged'
  <2>1. Grows
    BY DEF Grows
  <2>2. progress = "stage" => BaseMerged
    BY <1>4 DEF WalkInv
  <2> QED
    BY <1>1, <2>1, <2>2, BaseKeeps DEF FileTypes
<1>13. Ancestors' = Ancestors
  <2>1. DOMAIN s = 1..Len(stack) /\ DOMAIN stack = 1..Len(stack)
    BY <1>1, <1>7, StackFacts
  <2>2. Ancestors' = {s[k].file : k \in 1..Len(stack)}
    BY <1>6, <2>1 DEF Ancestors
  <2>3. Ancestors = {stack[k].file : k \in 1..Len(stack)}
    BY <2>1 DEF Ancestors
  <2> QED
    BY <1>7, <2>2, <2>3
<1>14. \A j, k \in 1..Len(stack) : s[j].file = s[k].file => j = k
  BY <1>4, <1>7 DEF WalkInv
<1>15. seen = Range(done) \cup Ancestors
  BY <1>4 DEF WalkInv
<1>16. WalkInv(done)'
  <2>1. stack' = s /\ Len(stack') = Len(stack) /\ stack' # << >>
    BY <1>6, <1>7
  <2> QED
    BY <1>8, <1>9, <1>10, <1>11, <1>12, <1>13, <1>14, <1>15, <2>1 DEF WalkInv
<1>17. Lists(w)'
  <2>1. stack' = s /\ Len(stack') = Len(stack)
    BY <1>6, <1>7
  <2> QED
    BY <1>2, <1>7, <2>1 DEF Lists
<1>18. Lists(w)' /\ WalkInv(w[0])'
  BY <1>3, <1>16, <1>17
<1> QED
  BY <1>18 DEF Walks

\* The calls that wait for one another, when the innermost is to call one of them.
LEMMA CircleIsFound ==
    ASSUME LoadInv, caller = "load", progress \in {"base", "stage"},
           NEW f \in Files, calling = f, f \in Ancestors, UNCHANGED <<disk, include>>
    PROVE  CircleFound'
<1>1. FileTypes
  BY DEF LoadInv
<1>2. PICK done : WalkInv(done)
  BY DEF LoadInv, Walks
<1>3. PICK ring \in SUBSET Files : ring = Ancestors /\ ring = {stack[k].file : k \in 1..Len(stack)}
  BY <1>1, StackFacts
<1>4. ASSUME NEW k \in 1..Len(stack)
      PROVE  disk[stack[k].file] = "read" /\ Includes(stack[k].file) \cap ring # {}
  <2>1. FrameInv(k, done)
    BY <1>2 DEF WalkInv
  <2> DEFINE g == stack[k].file
             n == stack[k].next - 1
  <2>2. include[g] \in Seq(Files)
    BY <1>1, StackFacts DEF FileTypes
  <2>3. n \in 1..Len(include[g]) /\ disk[g] = "read"
    BY <2>1 DEF FrameInv
  <2>4. include[g][n] \in Includes(g)
    BY <2>2, <2>3 DEF Includes, Range
  <2>5. include[g][n] \in ring
    <3>1. CASE k = 1
      <4>1. calling # None
        BY FilesAssumption
      <4> QED
        BY <1>3, <2>1, <3>1, <4>1 DEF FrameInv
    <3>2. CASE k # 1
      <4>1. k - 1 \in 1..Len(stack)
        BY <1>1, <3>2, StackFacts
      <4> QED
        BY <1>3, <2>1, <3>2, <4>1 DEF FrameInv
    <3> QED
      BY <3>1, <3>2
  <2> QED
    BY <2>3, <2>4, <2>5
<1>5. \A g \in ring : disk[g] = "read" /\ Includes(g) \cap ring # {}
  BY <1>3, <1>4
<1>6. ring # {}
  BY <1>3
<1>7. \A g \in ring : disk'[g] = "read" /\ Includes(g)' \cap ring # {}
  BY <1>5 DEF Includes
<1> QED
  BY <1>6, <1>7 DEF CircleFound

LEMMA ResolveIncludesKeeps ==
    ASSUME LoadInv, ResolveIncludes
    PROVE  LoadInv'
<1>1. FileTypes
  BY DEF LoadInv
<1>2. PICK f \in Files : calling = f
  BY <1>1 DEF FileTypes, ResolveIncludes
<1>3. progress \in {"base", "stage"}
  BY DEF LoadInv, ResolveIncludes
<1>4. /\ disk \in [Files -> {"unread", "missing", "broken", "read"}]
      /\ include \in [Files -> Seq(Files)] /\ seen \in SUBSET Files /\ stack \in Seq(Frames)
      /\ cfg \in Configurations \cup {None} /\ base \in Configurations \cup {None}
  BY <1>1 DEF FileTypes
<1>5. CASE Circular(f) /\ LoadFails("circular") /\ UNCHANGED <<disk, include>>
  <2>1. caller = "load" => CircleFound'
    BY <1>2, <1>3, <1>5, CircleIsFound DEF Circular
  <2>2. Grows
    BY <1>5 DEF Grows
  <2>3. /\ disk' \in [Files -> {"unread", "missing", "broken", "read"}]
        /\ include' \in [Files -> Seq(Files)]
    BY <1>4, <1>5
  <2> QED
    BY <1>5, <2>1, <2>2, <2>3, FailKeeps
<1>6. CASE ~Circular(f) /\ f \in seen /\ Return(None, stack) /\ UNCHANGED <<disk, include, seen>>
  BY <1>2, <1>3, <1>6, SkipKeeps DEF Circular
<1>7. CASE ~Circular(f) /\ f \notin seen /\ ReadConfig(f)
  <2>1. /\ disk' \in [Files -> {"unread", "missing", "broken", "read"}]
        /\ include' \in [Files -> Seq(Files)]
        /\ Grows
    BY <1>1, <1>7, ReadConfigTypes
  <2>2. f \notin Ancestors /\ f \notin seen
    BY <1>7 DEF Circular
  <2>3. CASE LoadFails("unreadable")
    BY <2>1, <2>3, FailKeeps
  <2>4. CASE disk'[f] = "read" /\ include'[f] = << >> /\ seen' = seen \cup {f} /\ Return(Own(f), stack)
    <3>1. caller = "load" => \E u, order : Hands(stack, u, order, Own(f))
      BY <1>2, <1>3, <2>1, <2>2, <2>4, LeafHands
    <3>2. Own(f) \in Configurations
      BY OwnOverrides
    <3>3. seen' \in SUBSET Files
      BY <1>4, <2>4
    <3> QED
      BY <1>3, <1>4, <2>1, <2>4, <3>1, <3>2, <3>3, ReturnKeeps
  <2>5. CASE /\ disk'[f] = "read" /\ include'[f] # << >>
             /\ seen' = seen \cup {f} /\ calling' = include'[f][1]
             /\ stack' = <<[file |-> f, next |-> 2, merged |-> Empty]>> \o stack
             /\ UNCHANGED <<caller, progress, base, cfg, failure, registered>>
    <3>1. include'[f] \in Seq(Files) /\ include'[f] # << >>
      BY <2>1, <2>5
    <3>2. include'[f][1] \in Files
      BY <3>1, EmptySeq
    <3>3. [file |-> f, next |-> 2, merged |-> Empty] \in Frames
      BY EmptyOverrides DEF Frames
    <3>4. stack' \in Seq(Frames)
      BY <1>4, <2>5, <3>3, Pushed
    <3>5. FileTypes'
      BY <1>4, <2>1, <2>5, <3>2, <3>4 DEF FileTypes
    <3>6. caller = "load" => Walks'
      BY <1>2, <1>3, <2>1, <2>2, <2>5, DescendWalks
    <3>7. progress' = progress /\ caller' = caller /\ failure' = failure /\ cfg' = cfg
      BY <2>5
    <3> QED
      BY <1>3, <2>1, <3>5, <3>6, <3>7, LoadInvKeeps
  <2> QED
    BY <1>2, <1>7, <2>3, <2>4, <2>5 DEF ResolveIncludes
<1> QED
  BY <1>2, <1>5, <1>6, <1>7 DEF ResolveIncludes

LEMMA IterateKeeps ==
    ASSUME LoadInv, Iterate
    PROVE  LoadInv'
<1>1. FileTypes
  BY DEF LoadInv
<1>2. calling = None /\ stack # << >> /\ UNCHANGED <<disk, include, seen>>
  BY DEF Iterate
<1>3. progress \in {"base", "stage"}
  BY <1>2 DEF LoadInv
<1>4. /\ disk \in [Files -> {"unread", "missing", "broken", "read"}]
      /\ include \in [Files -> Seq(Files)] /\ seen \in SUBSET Files /\ stack \in Seq(Frames)
      /\ cfg \in Configurations \cup {None} /\ base \in Configurations \cup {None}
  BY <1>1 DEF FileTypes
<1>5. Head(stack) = stack[1] /\ Tail(stack) \in Seq(Frames)
  BY <1>2, <1>4, HeadTailProperties
<1>6. Grows
  BY <1>2 DEF Grows
<1>7. 1 \in 1..Len(stack) /\ stack[1] \in Frames
  BY <1>1, <1>2, StackFacts
<1>8. CASE /\ Head(stack).next <= Len(include[Head(stack).file])
           /\ calling' = include[Head(stack).file][Head(stack).next]
           /\ stack' = [stack EXCEPT ![1].next = @ + 1]
           /\ UNCHANGED <<caller, progress, base, cfg, failure, registered>>
  <2>1. caller = "load" => Walks'
    BY <1>2, <1>3, <1>5, <1>8, NextWalks
  <2>2. calling' \in Files
    <3>1. include[stack[1].file] \in Seq(Files) /\ stack[1].next \in Nat \ {0}
      BY <1>4, <1>7 DEF Frames
    <3> QED
      BY <1>5, <1>8, <3>1
  <2>3. stack' \in Seq(Frames)
    <3> DEFINE one == [stack[1] EXCEPT !.next = stack[1].next + 1]
    <3>1. one \in Frames
      BY <1>7 DEF Frames
    <3>2. stack' = [stack EXCEPT ![1] = one]
      BY <1>8
    <3> HIDE DEF one
    <3> QED
      BY <1>4, <1>7, <3>1, <3>2, ExceptSeq
  <2>4. FileTypes'
    BY <1>2, <1>4, <1>8, <2>2, <2>3 DEF FileTypes
  <2>5. progress' = progress /\ caller' = caller /\ failure' = failure /\ cfg' = cfg
    BY <1>8
  <2> QED
    BY <1>3, <1>6, <2>1, <2>4, <2>5, LoadInvKeeps
<1>9. CASE /\ Head(stack).next > Len(include[Head(stack).file])
           /\ Return(Merge(Head(stack).merged, Own(Head(stack).file)), Tail(stack))
  <2> DEFINE config == Merge(Head(stack).merged, Own(Head(stack).file))
  <2>1. caller = "load" => \E u, order : Hands(Tail(stack), u, order, config)
    BY <1>2, <1>3, <1>9, FileHands
  <2>2. config \in Configurations
    <3>1. PICK a \in Configurations : a = Head(stack).merged
      BY <1>5, <1>7 DEF Frames
    <3>2. PICK b \in Configurations : b = Own(Head(stack).file)
      BY <1>5, <1>7, OwnOverrides DEF Frames
    <3>3. a.listed \in Seq(Files) /\ b.listed \in Seq(Files)
          /\ a.from \in [Fields -> Files \cup {None}] /\ b.from \in [Fields -> Files \cup {None}]
      BY DEF Configurations
    <3>4. a.listed \o b.listed \in Seq(Files)
      BY <3>3, JoinFacts
    <3>5. Merge(a, b) \in Configurations
      BY <3>3, <3>4 DEF Merge, Configurations
    <3> QED
      BY <3>1, <3>2, <3>5
  <2>3. PICK c \in Configurations : c = config
    BY <2>2
  <2>4. /\ disk' \in [Files -> {"unread", "missing", "broken", "read"}]
        /\ include' \in [Files -> Seq(Files)] /\ seen' \in SUBSET Files
    BY <1>2, <1>4
  <2>5. Return(c, Tail(stack))
    BY <1>9, <2>3
  <2>6. caller = "load" => \E u, order : Hands(Tail(stack), u, order, c)
    BY <2>1, <2>3
  <2> HIDE DEF config
  <2> QED
    BY <1>3, <1>5, <1>6, <2>4, <2>5, <2>6, ReturnKeeps
<1> QED
  BY <1>8, <1>9 DEF Iterate

\* The stage file is found where the program looks first.
LEMMA StageFound ==
    ASSUME LoadInv, caller = "load", progress = "stage", stack = << >>, calling = None,
           NEW i \in DOMAIN StagePaths, disk[StagePaths[i]] # "missing",
           disk' = [f \in Files |-> IF \E j \in 1..(i - 1) : f = StagePaths[j] THEN "missing" ELSE disk[f]],
           Grows, calling' = StagePaths[i], UNCHANGED <<include, seen, stack, progress, base>>
    PROVE  Walks'
<1>1. FileTypes
  BY DEF LoadInv
<1>2. PICK w : Lists(w) /\ WalkInv(w[0])
  BY DEF LoadInv, Walks
<1>3. Len(stack) = 0 /\ DOMAIN stack = {} /\ 0 \in 0..0
  OBVIOUS
<1>4. PICK done \in Seq(Files) : done = w[0]
  BY <1>2, <1>3 DEF Lists
<1>5. WalkInv(done)
  BY <1>2, <1>4
<1>6. Ordered(done)'
  BY <1>5, OrderedKeeps DEF WalkInv
<1>7. seen = Range(done) \cup Ancestors
  BY <1>5 DEF WalkInv
<1>8. Reached(seen, progress = "stage")'
  <2>1. PICK S \in SUBSET Files : seen = S
    BY <1>1 DEF FileTypes
  <2>2. Reached(S, TRUE) /\ \A f \in S : disk[f] = "read"
    BY <1>1, <1>5, <2>1, SeenRead DEF WalkInv
  <2>3. Reached(S, TRUE)'
    BY <2>2, ReachedKeeps
  <2> QED
    BY <2>1, <2>3 DEF Reached
<1>9. Begins(calling)'
  <2>1. StagePaths \in Seq(Files) /\ \A a, b \in DOMAIN StagePaths : StagePaths[a] = StagePaths[b] => a = b
    BY FilesAssumption DEF IsInjective
  <2>2. DOMAIN StagePaths = 1..Len(StagePaths) /\ Len(StagePaths) \in Nat
    BY <2>1
  <2>3. \A j \in 1..(i - 1) : j \in DOMAIN StagePaths /\ j # i /\ StagePaths[j] \in Files
    BY <2>1, <2>2
  <2>4. StagePaths[i] \in Files
    BY <2>1, <2>2
  <2>5. disk'[StagePaths[i]] # "missing"
    <3>1. \A j \in 1..(i - 1) : StagePaths[i] # StagePaths[j]
      BY <2>1, <2>3
    <3>2. disk'[StagePaths[i]] = disk[StagePaths[i]]
      BY <2>4, <3>1
    <3> QED
      BY <3>2
  <2>6. \A j \in 1..(i - 1) : disk'[StagePaths[j]] = "missing"
    BY <2>3
  <2>7. IsStage(calling)'
    BY <2>5, <2>6 DEF IsStage, FirstOn
  <2> QED
    BY <2>7 DEF Begins
<1>10. BaseMerged'
  BY <1>1, <1>5, BaseKeeps DEF FileTypes, WalkInv
<1>11. WalkInv(done)'
  BY <1>3, <1>6, <1>7, <1>8, <1>9, <1>10 DEF WalkInv, Ancestors
<1>12. Lists(w)'
  BY <1>2 DEF Lists
<1>13. Lists(w)' /\ WalkInv(w[0])'
  BY <1>4, <1>11, <1>12
<1> QED
  BY <1>13 DEF Walks

LEMMA FindStageKeeps ==
    ASSUME LoadInv, FindStage
    PROVE  LoadInv'
<1>1. FileTypes
  BY DEF LoadInv
<1>2. /\ disk \in [Files -> {"unread", "missing", "broken", "read"}]
      /\ include \in [Files -> Seq(Files)] /\ seen \in SUBSET Files /\ stack \in Seq(Frames)
      /\ cfg \in Configurations \cup {None} /\ base \in Configurations \cup {None}
  BY <1>1 DEF FileTypes
<1>3. progress = "stage" /\ calling = None /\ stack = << >> /\ include' = include
  BY DEF FindStage
<1>4. StagePaths \in Seq(Files) /\ DOMAIN StagePaths = 1..Len(StagePaths) /\ Len(StagePaths) \in Nat
  BY FilesAssumption
<1>5. ASSUME NEW i \in DOMAIN StagePaths,
             disk[StagePaths[i]] # "missing",
             \A j \in 1..(i - 1) : disk[StagePaths[j]] \in {"unread", "missing"},
             disk' = [f \in Files |-> IF \E j \in 1..(i - 1) : f = StagePaths[j] THEN "missing" ELSE disk[f]],
             calling' = StagePaths[i], seen' = seen,
             UNCHANGED <<caller, progress, stack, base, cfg, failure, registered>>
      PROVE  LoadInv'
  <2>1. Grows
    BY <1>3, <1>5 DEF Grows
  <2>2. disk' \in [Files -> {"unread", "missing", "broken", "read"}]
    BY <1>2, <1>5
  <2>3. calling' \in Files
    BY <1>4, <1>5
  <2>4. FileTypes'
    BY <1>2, <1>3, <1>5, <2>2, <2>3 DEF FileTypes
  <2>5. caller = "load" => Walks'
    BY <1>3, <1>5, <2>1, StageFound
  <2>6. progress' = progress /\ caller' = caller /\ failure' = failure /\ cfg' = cfg
    BY <1>5
  <2> QED
    BY <1>3, <2>1, <2>4, <2>5, <2>6, LoadInvKeeps
<1>6. CASE /\ \A i \in DOMAIN StagePaths : disk[StagePaths[i]] \in {"unread", "missing"}
           /\ disk' = [f \in Files |-> IF f \in Range(StagePaths) THEN "missing" ELSE disk[f]]
           /\ LoadFails("no stage")
  <2>1. Grows
    <3>1. \A f \in Range(StagePaths) : disk[f] \in {"unread", "missing"}
      BY <1>6 DEF Range
    <3> QED
      BY <1>3, <1>6, <3>1 DEF Grows
  <2>2. disk' \in [Files -> {"unread", "missing", "broken", "read"}]
    BY <1>2, <1>6
  <2>3. include' \in [Files -> Seq(Files)]
    BY <1>2, <1>3
  <2> QED
    BY <1>6, <2>1, <2>2, <2>3, FailKeeps
<1> QED
  BY <1>5, <1>6 DEF FindStage, StageSeen

LEMMA WalksStay ==
    ASSUME LoadInv, caller = "load", progress \in {"base", "stage"},
           UNCHANGED <<disk, include, caller, progress, stack, calling, seen, base, cfg, failure>>
    PROVE  Walks'
<1>1. FileTypes
  BY DEF LoadInv
<1>2. PICK w : Lists(w) /\ WalkInv(w[0])
  BY DEF LoadInv, Walks
<1>3. PICK done : done = w[0]
  OBVIOUS
<1>4. WalkInv(done)
  BY <1>2, <1>3
<1>5. ASSUME NEW k \in 1..Len(stack)
      PROVE  FrameInv(k, done)'
  <2>1. FrameInv(k, done)
    BY <1>4 DEF WalkInv
  <2>2. Overriding(stack[k].merged)'
    BY <2>1 DEF FrameInv, Overriding
  <2> QED
    BY <2>1, <2>2 DEF FrameInv
<1>6. Ordered(done)'
  BY <1>4 DEF WalkInv, Ordered, Includes
<1>7. Reached(seen, progress = "stage")'
  BY <1>4 DEF WalkInv, Reached, IsStage, Includes
<1>8. /\ stack # << >> => Begins(stack[Len(stack)].file)'
      /\ stack = << >> /\ calling # None => Begins(calling)'
  BY <1>4 DEF WalkInv, Begins, IsStage
<1>9. progress' = "stage" => BaseMerged'
  <2>1. Grows
    BY DEF Grows
  <2>2. progress = "stage" => BaseMerged
    BY <1>4 DEF WalkInv
  <2> QED
    BY <1>1, <2>1, <2>2, BaseKeeps DEF FileTypes
<1>10. Ancestors' = Ancestors
  BY DEF Ancestors
<1>11. /\ \A j, k \in 1..Len(stack) : stack[j].file = stack[k].file => j = k
       /\ seen = Range(done) \cup Ancestors
       /\ stack = << >> /\ progress = "base" => calling = Root /\ seen = {}
  BY <1>4 DEF WalkInv
<1>12. WalkInv(done)'
  BY <1>5, <1>6, <1>7, <1>8, <1>9, <1>10, <1>11 DEF WalkInv
<1>13. Lists(w)'
  BY <1>2 DEF Lists
<1>14. Lists(w)' /\ WalkInv(w[0])'
  BY <1>3, <1>12, <1>13
<1> QED
  BY <1>14 DEF Walks

LEMMA LoadStep ==
    ASSUME LoadInv, [LoadNext]_vars
    PROVE  LoadInv'
<1>1. FileTypes
  BY DEF LoadInv
<1>2. ASSUME Check
      PROVE  LoadInv'
  <2>1. /\ disk' = disk /\ include' = include /\ stack' = stack /\ calling' = calling
        /\ seen' = seen /\ base' = base /\ cfg' = cfg
        /\ progress = "check" /\ progress' \in {"failed", "ready"}
        /\ failure' = failure \/ failure' \in {"env file", "invalid"}
    BY <1>2 DEF Check
  <2>2. FileTypes'
    BY <1>1, <2>1 DEF FileTypes
  <2>3. Grows
    BY <2>1 DEF Grows
  <2>4. stack = << >> /\ calling = None
    BY <2>1 DEF LoadInv
  <2> QED
    BY <2>1, <2>2, <2>3, <2>4, LoadInvKeeps
<1>3. ASSUME Discover
      PROVE  LoadInv'
  <2>1. /\ disk' = disk /\ include' = include /\ stack' = << >> /\ calling' = Root
        /\ seen' = {} /\ base' = None /\ cfg' = cfg
        /\ caller' = "tasks" /\ progress' = "base" /\ failure' = failure
    BY <1>3 DEF Discover
  <2>2. FileTypes'
    BY <1>1, <2>1 DEF FileTypes, Files
  <2>3. Grows
    BY <2>1 DEF Grows
  <2> QED
    BY <2>1, <2>2, <2>3, LoadInvKeeps
<1>4. ASSUME UNCHANGED vars
      PROVE  LoadInv'
  <2>1. UNCHANGED <<disk, include, caller, progress, stack, calling, seen, base, cfg, failure>>
    BY <1>4 DEF vars
  <2>2. FileTypes'
    BY <1>1, <2>1 DEF FileTypes
  <2>3. Grows
    BY <2>1 DEF Grows
  <2>4. progress' \in {"base", "stage"} \/ (stack' = << >> /\ calling' = None)
    BY <2>1 DEF LoadInv
  <2>5. ASSUME caller = "load", progress \in {"base", "stage"}
        PROVE  Walks'
    BY <2>1, <2>5, WalksStay
  <2> QED
    BY <2>1, <2>2, <2>3, <2>4, <2>5, LoadInvKeeps
<1> QED
  BY <1>2, <1>3, <1>4, ResolveIncludesKeeps, IterateKeeps, FindStageKeeps DEF LoadNext

LEMMA LoadInitially ==
    ASSUME LoadInit
    PROVE  LoadInv
<1>1. stack = << >> /\ << >> \in Seq(Frames) /\ << >> \in Seq(Files)
  <2>1. stack = << >>
    BY DEF LoadInit
  <2>2. << >> \in Seq(Frames)
    BY EmptySeq
  <2>3. << >> \in Seq(Files)
    BY EmptySeq
  <2> QED
    BY <2>1, <2>2, <2>3
<1>2. Len(stack) = 0 /\ DOMAIN stack = {} /\ \A k \in 1..0 : FALSE
  BY <1>1
<1>3. FileTypes
  <2>1. Root \in Files
    BY DEF Files
  <2> QED
    BY <1>1, <2>1 DEF LoadInit, FileTypes
<1> DEFINE w == [k \in 0..0 |-> << >>]
<1>4. w \in [0..0 -> Seq(Files)] /\ w[0] = << >>
  OBVIOUS
<1> HIDE DEF w
<1>5. Lists(w)
  BY <1>1, <1>2, <1>4 DEF Lists, LoadInit
<1>6. WalkInv(<< >>)
  <2>1. Range(<< >>) = {} /\ Ordered(<< >>)
    BY DEF Range, Ordered
  <2>2. Ancestors = {}
    BY <1>2 DEF Ancestors
  <2>3. Reached(seen, progress = "stage")
    BY DEF Reached, LoadInit
  <2> QED
    BY <1>1, <1>2, <2>1, <2>2, <2>3 DEF WalkInv, LoadInit, Begins
<1>7. Walks
  BY <1>4, <1>5, <1>6 DEF Walks
<1> QED
  BY <1>3, <1>7 DEF LoadInv, LoadInit

\* The stage file the program finds is the one the load begins the stage with.
LEMMA StageFileIs ==
    ASSUME NEW f, IsStage(f)
    PROVE  StageFile = f
<1>1. f \in Files
  BY StageIsFile DEF IsStage
<1>2. \E g \in Files : FirstOn(disk, g)
  BY <1>1 DEF IsStage
<1>3. StageFile = CHOOSE g \in Files : FirstOn(disk, g)
  BY DEF StageFile, FirstOn
<1>4. FirstOn(disk, StageFile)
  BY <1>2, <1>3
<1> QED
  BY <1>4, StageUnique DEF IsStage

LEMMA LoadInvMerges ==
    ASSUME LoadInv
    PROVE  MergedOnce
<1>1. failure = "circular" =>
           \E ring \in SUBSET Files : ring # {} /\ \A f \in ring : Includes(f) \cap ring # {}
  BY DEF LoadInv, CircleFound
<1>2. ASSUME cfg # None
      PROVE  LET s == cfg.listed  merged == Range(s) IN
        /\ IsInjective(s)
        /\ {Root, StageFile} \subseteq merged
        /\ \A f \in merged : \A g \in Includes(f) : Before(g, f, s)
        /\ \A f \in merged \ {Root, StageFile} : \E g \in merged : f \in Includes(g)
        /\ Before(StageFile, Root, s) =>
               \E f \in merged : StageFile \in Includes(f) /\ (f = Root \/ Before(f, Root, s))
        /\ \A p \in Fields : IF merged \cap p = {} THEN cfg.from[p] = None ELSE SetsLast(cfg.from[p], p, s)
  <2>1. CfgMerged
    BY <1>2 DEF LoadInv
  <2>2. PICK s \in Seq(Files) : s = cfg.listed
    BY <1>2 DEF LoadInv, FileTypes, Configurations
  <2>3. /\ Overriding(cfg) /\ Ordered(s)
        /\ Root \in Range(s) /\ Reached(Range(s), TRUE)
    BY <2>1, <2>2 DEF CfgMerged
  <2>4. PICK st \in Range(s) :
        /\ IsStage(st)
        /\ Before(st, Root, s) =>
               \E f \in Range(s) : st \in Includes(f) /\ (f = Root \/ Before(f, Root, s))
    BY <2>1, <2>2 DEF CfgMerged
  <2>5. StageFile = st
    BY <2>4, StageFileIs
  <2>6. IsInjective(s)
    BY <2>3 DEF Ordered, IsInjective
  <2>7. \A f \in Range(s) : \A g \in Includes(f) : Before(g, f, s)
    <3> TAKE f \in Range(s)
    <3> TAKE g \in Includes(f)
    <3>1. DOMAIN s = 1..Len(s) /\ Len(s) \in Nat
      OBVIOUS
    <3>2. PICK i \in 1..Len(s) : s[i] = f
      BY <3>1 DEF Range
    <3>3. PICK j \in 1..(i - 1) : s[j] = g
      BY <2>3, <3>1, <3>2 DEF Ordered
    <3>4. j \in 1..Len(s) /\ j < i
      BY <3>1
    <3> QED
      BY <3>1, <3>2, <3>3, <3>4 DEF Before
  <2>8. \A f \in Range(s) \ {Root, st} : \E g \in Range(s) : f \in Includes(g)
    BY <2>3, <2>4, StageUnique DEF Reached, IsStage
  <2>9. \A p \in Fields : IF Range(s) \cap p = {} THEN cfg.from[p] = None ELSE SetsLast(cfg.from[p], p, s)
    BY <2>2, <2>3 DEF Overriding
  <2> QED
    BY <2>2, <2>3, <2>4, <2>5, <2>6, <2>7, <2>8, <2>9
<1> QED
  BY <1>1, <1>2 DEF MergedOnce

\* The load and the discovery of tasks keep the invariant.
THEOREM LoadInvHolds == LoadSpec => []LoadInv
<1>1. LoadInit => LoadInv
  BY LoadInitially
<1>2. LoadInv /\ [LoadNext]_vars => LoadInv'
  BY LoadStep
<1> QED
  BY <1>1, <1>2, PTL DEF LoadSpec

\* Whatever the files include, one another several times or in a circle: a load merges the
\* files the Deployfile and the stage file reach, each once, a file over those it includes and
\* the stage over the Deployfile, and a field has the value of the last file that sets it; and
\* an include refused as circular is part of a circle (resolveIncludes of load.go, ast/merge.go).
THEOREM MergedOnceHolds == LoadSpec => []MergedOnce
<1>1. LoadInv => MergedOnce
  BY LoadInvMerges
<1> QED
  BY <1>1, LoadInvHolds, PTL

-----------------------------------------------------------------------------
\* The discovery of tasks goes the way the load went (DiscoveryAgrees).

\* Where a resolution stands: what it resolves, its calls, the file it is about to call, the
\* files it has merged, what the Deployfile resolved to and, at its end, what it merged.
Place ==
    IF progress \in {"base", "stage"}
    THEN <<progress, stack, calling, seen, base, None>>
    ELSE <<"end", << >>, None, seen, base, IF caller = "load" THEN cfg ELSE registered>>

Begin == <<"base", << >>, Root, {}, None, None>>

Returned(p, b, sn, config, frames) ==
    IF frames # << >>
    THEN <<p, [frames EXCEPT ![1].merged = IF config = None THEN @ ELSE Merge(@, config)], None, sn, b, None>>
    ELSE IF p = "base" THEN <<"stage", << >>, None, sn, config, None>>
    ELSE <<"end", << >>, None, sn, b, Merge(b, IF config = None THEN Empty ELSE config)>>

\* The place after x, which what was found on the disk determines.
After(found, entries, x) ==
    LET p == x[1]  frames == x[2]  f == x[3]  sn == x[4]  b == x[5] IN
    IF f # None THEN
        IF f \in sn THEN Returned(p, b, sn, None, frames)
        ELSE IF entries[f] = << >> THEN Returned(p, b, sn \cup {f}, Own(f), frames)
        ELSE <<p, <<[file |-> f, next |-> 2, merged |-> Empty]>> \o frames, entries[f][1], sn \cup {f}, b, None>>
    ELSE IF frames # << >> THEN
        LET top == Head(frames) IN
        IF top.next <= Len(entries[top.file])
        THEN <<p, [frames EXCEPT ![1].next = @ + 1], entries[top.file][top.next], sn, b, None>>
        ELSE Returned(p, b, sn, Merge(top.merged, Own(top.file)), Tail(frames))
    ELSE <<p, << >>, CHOOSE g \in Files : FirstOn(found, g), sn, b, None>>

\* x has a place after it, and all that determines it has been read.
Moves(found, x) ==
    /\ x[1] \in {"base", "stage"}
    /\ x[3] # None => /\ x[3] \in Files /\ found[x[3]] = "read"
                      /\ \A i \in DOMAIN x[2] : x[2][i].file # x[3]
    /\ x[3] = None /\ x[2] # << >> => Head(x[2]).file \in Files /\ found[Head(x[2]).file] = "read"
    /\ x[3] = None /\ x[2] = << >> => x[1] = "stage" /\ \E g \in Files : FirstOn(found, g) /\ found[g] = "read"

\* The stage file has been found and not yet read.
Awaited(x) ==
    /\ progress = "stage" /\ stack = << >> /\ calling \in Files /\ FirstOn(disk, calling)
    /\ x = <<"stage", << >>, None, seen, base, None>>

\* R holds the places of a resolution from its beginning to here.
Traced(R) ==
    /\ Begin \in R /\ Place \in R
    /\ \A x \in R : x = Place \/ Awaited(x) \/ (Moves(disk, x) /\ After(disk, include, x) \in R)

\* R holds the places of a resolution from its beginning to its end, where it merged c.
Completed(R, c) ==
    /\ Begin \in R
    /\ \E e \in R : /\ e[1] = "end" /\ e[6] = c
                    /\ \A x \in R : x = e \/ (Moves(disk, x) /\ After(disk, include, x) \in R)

DiscoveryInv ==
    /\ caller \in {"load", "tasks"}
    /\ caller = "load" /\ progress \in {"base", "stage"} =>
           cfg = None /\ registered = None /\ \E R : Traced(R)
    /\ cfg # None => \E R : Completed(R, cfg) /\ (caller = "tasks" /\ progress \in {"base", "stage"} => Place \in R)
    /\ cfg # None /\ registered # None => registered = cfg

\* What was read once leads the same way again.
LEMMA MovesKeeps ==
    ASSUME Grows, NEW x, Moves(disk, x)
    PROVE  Moves(disk', x) /\ After(disk', include', x) = After(disk, include, x)
<1>1. x[1] \in {"base", "stage"}
  BY DEF Moves
<1>2. CASE x[3] # None
  <2>1. x[3] \in Files /\ disk[x[3]] = "read" /\ \A i \in DOMAIN x[2] : x[2][i].file # x[3]
    BY <1>2 DEF Moves
  <2>2. disk'[x[3]] = "read" /\ include'[x[3]] = include[x[3]]
    BY <2>1 DEF Grows
  <2> QED
    BY <1>1, <1>2, <2>1, <2>2 DEF Moves, After
<1>3. CASE x[3] = None /\ x[2] # << >>
  <2>1. Head(x[2]).file \in Files /\ disk[Head(x[2]).file] = "read"
    BY <1>3 DEF Moves
  <2>2. disk'[Head(x[2]).file] = "read" /\ include'[Head(x[2]).file] = include[Head(x[2]).file]
    BY <2>1 DEF Grows
  <2> QED
    BY <1>1, <1>3, <2>1, <2>2 DEF Moves, After
<1>4. CASE x[3] = None /\ x[2] = << >>
  <2>1. x[1] = "stage"
    BY <1>4 DEF Moves
  <2>2. PICK g \in Files : FirstOn(disk, g) /\ disk[g] = "read"
    BY <1>4 DEF Moves
  <2>3. disk'[g] = "read"
    BY <2>2 DEF Grows
  <2>4. FirstOn(disk', g)
    BY <2>2, <2>3, StageKeeps DEF IsStage
  <2>5. (CHOOSE h \in Files : FirstOn(disk, h)) = g
    BY <2>2, StageUnique
  <2>6. (CHOOSE h \in Files : FirstOn(disk', h)) = g
    BY <2>4, StageUnique
  <2>7. Moves(disk', x)
    BY <1>4, <2>1, <2>3, <2>4 DEF Moves
  <2>8. After(disk', include', x) = <<x[1], << >>, CHOOSE h \in Files : FirstOn(disk', h), x[4], x[5], None>>
    BY <1>4 DEF After
  <2>9. After(disk, include, x) = <<x[1], << >>, CHOOSE h \in Files : FirstOn(disk, h), x[4], x[5], None>>
    BY <1>4 DEF After
  <2> QED
    BY <2>5, <2>6, <2>7, <2>8, <2>9
<1> QED
  BY <1>2, <1>3, <1>4

LEMMA ReturnLeads ==
    ASSUME progress \in {"base", "stage"}, NEW frames, NEW config, Return(config, frames)
    PROVE  Place' = Returned(progress, base, seen', config, frames)
<1>1. calling' = None
  BY DEF Return
<1>2. CASE frames # << >>
  <2>1. /\ stack' = [frames EXCEPT ![1].merged = IF config = None THEN @ ELSE Merge(@, config)]
        /\ progress' = progress /\ base' = base
    BY <1>2 DEF Return
  <2> QED
    BY <1>1, <1>2, <2>1 DEF Place, Returned
<1>3. CASE frames = << >> /\ progress = "base"
  <2>1. base' = config /\ progress' = "stage" /\ stack' = << >>
    BY <1>3 DEF Return
  <2> QED
    BY <1>1, <1>3, <2>1 DEF Place, Returned
<1>4. CASE frames = << >> /\ progress = "stage"
  <2> DEFINE merged == Merge(base, IF config = None THEN Empty ELSE config)
  <2>1. /\ caller' = caller /\ base' = base
        /\ IF caller = "load" THEN cfg' = merged /\ progress' = "check"
                              ELSE registered' = merged /\ progress' = "ready"
    BY <1>4 DEF Return
  <2> HIDE DEF merged
  <2>2. Place' = <<"end", << >>, None, seen', base', merged>>
    BY <2>1 DEF Place
  <2>3. Returned(progress, base, seen', config, frames) = <<"end", << >>, None, seen', base, merged>>
    BY <1>4 DEF Returned, merged
  <2> QED
    BY <2>1, <2>2, <2>3
<1> QED
  BY <1>2, <1>3, <1>4

LEMMA HerePlace ==
    ASSUME progress \in {"base", "stage"}
    PROVE  /\ Place = <<progress, stack, calling, seen, base, None>>
           /\ Place[1] = progress /\ Place[2] = stack /\ Place[3] = calling
           /\ Place[4] = seen /\ Place[5] = base
<1>1. Place = <<progress, stack, calling, seen, base, None>>
  BY DEF Place
<1>2. \A p, st, f, sn, b :
          LET x == <<p, st, f, sn, b, None>>
          IN  x[1] = p /\ x[2] = st /\ x[3] = f /\ x[4] = sn /\ x[5] = b
  OBVIOUS
<1> QED
  BY <1>1, <1>2

\* A step that does not fail goes to the place after.
LEMMA ResolveLeads ==
    ASSUME FileTypes, progress \in {"base", "stage"}, ResolveIncludes, progress' # "failed"
    PROVE  /\ Place' = After(disk', include', Place)
           /\ calling \in Files /\ calling \notin Ancestors
           /\ (calling \in seen /\ UNCHANGED <<disk, include>>) \/ (ReadConfig(calling) /\ disk'[calling] = "read")
<1>1. PICK f \in Files : calling = f /\ f # None
  BY DEF FileTypes, ResolveIncludes
<1>2. PICK x : x = Place /\ x[1] = progress /\ x[2] = stack /\ x[3] = f /\ x[4] = seen /\ x[5] = base
  BY <1>1, HerePlace
<1>3. ~ LoadFails("circular") /\ ~ LoadFails("unreadable")
  BY DEF LoadFails
<1>4. CASE f \notin Ancestors /\ f \in seen /\ Return(None, stack) /\ UNCHANGED <<disk, include, seen>>
  <2>1. Place' = Returned(progress, base, seen, None, stack)
    BY <1>4, ReturnLeads
  <2>2. After(disk', include', x) = Returned(progress, base, seen, None, stack)
    BY <1>1, <1>2, <1>4 DEF After
  <2> QED
    BY <1>1, <1>2, <1>4, <2>1, <2>2
<1>5. CASE /\ f \notin Ancestors /\ f \notin seen /\ ReadConfig(f) /\ disk'[f] = "read" /\ include'[f] = << >>
           /\ seen' = seen \cup {f} /\ Return(Own(f), stack)
  <2>1. Place' = Returned(progress, base, seen \cup {f}, Own(f), stack)
    BY <1>5, ReturnLeads
  <2>2. After(disk', include', x) = Returned(progress, base, seen \cup {f}, Own(f), stack)
    BY <1>1, <1>2, <1>5 DEF After
  <2> QED
    BY <1>1, <1>2, <1>5, <2>1, <2>2
<1>6. CASE /\ f \notin Ancestors /\ f \notin seen /\ ReadConfig(f) /\ disk'[f] = "read" /\ include'[f] # << >>
           /\ seen' = seen \cup {f} /\ calling' = include'[f][1]
           /\ stack' = <<[file |-> f, next |-> 2, merged |-> Empty]>> \o stack
           /\ UNCHANGED <<caller, progress, base, cfg, failure, registered>>
  <2>1. Place' = <<progress, <<[file |-> f, next |-> 2, merged |-> Empty]>> \o stack, include'[f][1],
                   seen \cup {f}, base, None>>
    BY <1>6 DEF Place
  <2>2. After(disk', include', x) = <<progress, <<[file |-> f, next |-> 2, merged |-> Empty]>> \o stack,
                                      include'[f][1], seen \cup {f}, base, None>>
    BY <1>1, <1>2, <1>6 DEF After
  <2> QED
    BY <1>1, <1>2, <1>6, <2>1, <2>2
<1> QED
  BY <1>1, <1>3, <1>4, <1>5, <1>6 DEF ResolveIncludes, Circular

LEMMA IterateLeads ==
    ASSUME FileTypes, progress \in {"base", "stage"}, Iterate
    PROVE  Place' = After(disk', include', Place)
<1>1. calling = None /\ stack # << >> /\ UNCHANGED <<disk, include, seen>>
  BY DEF Iterate
<1>2. PICK x : x = Place /\ x[1] = progress /\ x[2] = stack /\ x[3] = None /\ x[4] = seen /\ x[5] = base
  BY <1>1, HerePlace
<1>3. PICK top : top = Head(stack)
  OBVIOUS
<1>4. CASE /\ top.next <= Len(include[top.file])
           /\ calling' = include[top.file][top.next]
           /\ stack' = [stack EXCEPT ![1].next = @ + 1]
           /\ UNCHANGED <<caller, progress, base, cfg, failure, registered>>
  <2>1. Place' = <<progress, [stack EXCEPT ![1].next = @ + 1], include[top.file][top.next], seen, base, None>>
    BY <1>1, <1>4 DEF Place
  <2>2. After(disk', include', x) =
            <<progress, [stack EXCEPT ![1].next = @ + 1], include[top.file][top.next], seen, base, None>>
    BY <1>1, <1>2, <1>3, <1>4 DEF After
  <2> QED
    BY <1>2, <2>1, <2>2
<1>5. CASE /\ top.next > Len(include[top.file])
           /\ ~ (top.next <= Len(include[top.file]))
           /\ Return(Merge(top.merged, Own(top.file)), Tail(stack))
  <2>1. Place' = Returned(progress, base, seen, Merge(top.merged, Own(top.file)), Tail(stack))
    BY <1>1, <1>5, ReturnLeads
  <2>2. After(disk', include', x) = Returned(progress, base, seen, Merge(top.merged, Own(top.file)), Tail(stack))
    BY <1>1, <1>2, <1>3, <1>5 DEF After
  <2> QED
    BY <1>2, <2>1, <2>2
<1>6. top.next > Len(include[top.file]) => ~ (top.next <= Len(include[top.file]))
  <2>1. stack[1] \in Frames /\ stack \in Seq(Frames)
    BY <1>1, StackFacts DEF FileTypes
  <2>2. top = stack[1]
    BY <1>1, <1>3, <2>1
  <2>3. top.next \in Nat /\ top.file \in Files
    BY <2>1, <2>2 DEF Frames
  <2>4. include[top.file] \in Seq(Files)
    BY <2>3 DEF FileTypes
  <2> QED
    BY <2>3, <2>4
<1> QED
  BY <1>3, <1>4, <1>5, <1>6 DEF Iterate

LEMMA ReturnGoesOn ==
    ASSUME progress \in {"base", "stage"}, NEW frames, NEW config, Return(config, frames)
    PROVE  /\ progress' # "failed" /\ caller' = caller
           /\ caller = "load" => registered' = registered /\ progress' \in {"base", "stage", "check"}
           /\ caller # "load" => cfg' = cfg
           /\ progress' \in {"base", "stage"} => cfg' = cfg
<1>1. CASE frames # << >>
  BY <1>1 DEF Return
<1>2. CASE frames = << >> /\ progress = "base"
  BY <1>2 DEF Return
<1>3. CASE frames = << >> /\ progress = "stage"
  BY <1>3 DEF Return
<1> QED
  BY <1>1, <1>2, <1>3

\* What a step of a resolution changes besides its place.
LEMMA ResolveGoesOn ==
    ASSUME progress \in {"base", "stage"}, ResolveIncludes \/ Iterate
    PROVE  /\ caller' = caller
           /\ progress' # "failed" =>
                  /\ caller = "load" => registered' = registered /\ progress' \in {"base", "stage", "check"}
                  /\ caller # "load" => cfg' = cfg
                  /\ progress' \in {"base", "stage"} => cfg' = cfg
           /\ progress' = "failed" => cfg' = cfg /\ (caller = "load" => registered' = registered)
<1>1. ASSUME NEW why, LoadFails(why)
      PROVE  /\ caller' = caller /\ progress' = "failed" /\ cfg' = cfg
             /\ caller = "load" => registered' = registered
  BY <1>1 DEF LoadFails
<1>2. ASSUME UNCHANGED <<caller, progress, base, cfg, failure, registered>>
      PROVE  caller' = caller /\ progress' = progress /\ cfg' = cfg /\ registered' = registered
  BY <1>2
<1>3. CASE ResolveIncludes
  BY <1>1, <1>2, <1>3, ReturnGoesOn DEF ResolveIncludes
<1>4. CASE Iterate
  BY <1>2, <1>4, ReturnGoesOn DEF Iterate
<1> QED
  BY <1>3, <1>4

LEMMA CompletedKeeps ==
    ASSUME Grows, NEW R, NEW c, Completed(R, c)
    PROVE  Completed(R, c)'
<1>1. PICK e \in R : /\ e[1] = "end" /\ e[6] = c
                     /\ \A x \in R : x = e \/ (Moves(disk, x) /\ After(disk, include, x) \in R)
  BY DEF Completed
<1>2. \A x \in R : x = e \/ (Moves(disk', x) /\ After(disk', include', x) \in R)
  BY <1>1, MovesKeeps
<1> QED
  BY <1>1, <1>2 DEF Completed

\* A place is added to those of a resolution.
LEMMA TraceGrows ==
    ASSUME Grows, NEW R, Traced(R), NEW y,
           Moves(disk', Place), After(disk', include', Place) = y,
           \A x \in R : Awaited(x) => Moves(disk', x) /\ After(disk', include', x) \in R
    PROVE  \A x \in R \cup {y} : x = y \/ (Moves(disk', x) /\ After(disk', include', x) \in R \cup {y})
<1> TAKE x \in R \cup {y}
<1>1. CASE x = y
  BY <1>1
<1>2. CASE x \in R /\ x = Place
  BY <1>2
<1>3. CASE x \in R /\ Awaited(x)
  BY <1>3
<1>4. CASE x \in R /\ Moves(disk, x) /\ After(disk, include, x) \in R
  BY <1>4, MovesKeeps
<1> QED
  BY <1>1, <1>2, <1>3, <1>4 DEF Traced

\* A place is the last of those of a resolution, at its end or not.
LEMMA TraceEnds ==
    ASSUME caller = "load", progress \in {"base", "stage"}, ResolveIncludes \/ Iterate, progress' # "failed",
           NEW R, Begin \in R, NEW y, y = Place',
           \A x \in R \cup {y} : x = y \/ (Moves(disk', x) /\ After(disk', include', x) \in R \cup {y})
    PROVE  \E S : (progress' \in {"base", "stage"} => Traced(S)')
                  /\ (progress' = "check" => Completed(S, cfg)')
<1> DEFINE S == R \cup {y}
<1>1. Begin \in S /\ y \in S
  OBVIOUS
<1>2. \A x \in S : x = y \/ (Moves(disk', x) /\ After(disk', include', x) \in S)
  OBVIOUS
<1> HIDE DEF S
<1>3. progress' \in {"base", "stage"} => Traced(S)'
  BY <1>1, <1>2 DEF Traced
<1>4. ASSUME progress' = "check"
      PROVE  Completed(S, cfg)'
  <2>1. caller' = "load"
    BY ResolveGoesOn
  <2>2. y = <<"end", << >>, None, seen', base', cfg'>>
    BY <1>4, <2>1 DEF Place
  <2>3. y[1] = "end" /\ y[6] = cfg'
    BY <2>2
  <2> QED
    BY <1>1, <1>2, <2>3 DEF Completed
<1> QED
  BY <1>3, <1>4

\* The load goes on.
LEMMA LoadTraces ==
    ASSUME LoadInv, caller = "load", progress \in {"base", "stage"}, NEW R, Traced(R),
           ResolveIncludes \/ Iterate, progress' # "failed", cfg = None
    PROVE  \E S : (progress' \in {"base", "stage"} => Traced(S)')
                  /\ (progress' = "check" => Completed(S, cfg)')
<1>1. FileTypes
  BY DEF LoadInv
<1>2. PICK w : Lists(w) /\ WalkInv(w[0])
  BY DEF LoadInv, Walks
<1>3. PICK done \in Seq(Files) : done = w[0]
  <2>1. 0 \in 0..Len(stack)
    BY <1>1, StackFacts
  <2> QED
    BY <1>2, <2>1 DEF Lists
<1>4. WalkInv(done)
  BY <1>2, <1>3
<1>5. PICK p : p = Place /\ p[1] = progress /\ p[2] = stack /\ p[3] = calling /\ p[4] = seen /\ p[5] = base
  BY HerePlace
<1>6. PICK y : y = Place'
  OBVIOUS
<1>7. CASE ResolveIncludes
  <2>1. /\ y = After(disk', include', Place)
        /\ calling \in Files /\ calling \notin Ancestors
        /\ (calling \in seen /\ UNCHANGED <<disk, include>>) \/ (ReadConfig(calling) /\ disk'[calling] = "read")
    BY <1>1, <1>6, <1>7, ResolveLeads
  <2>2. Grows
    <3>1. CASE UNCHANGED <<disk, include>>
      BY <3>1 DEF Grows
    <3>2. CASE ReadConfig(calling)
      BY <1>1, <2>1, <3>2, ReadConfigTypes
    <3> QED
      BY <2>1, <3>1, <3>2
  <2>3. disk'[calling] = "read"
    <3>1. calling \in seen => disk[calling] = "read"
      BY <1>1, <1>4, SeenRead
    <3> QED
      BY <2>1, <3>1
  <2>4. calling # None /\ \A i \in DOMAIN stack : stack[i].file # calling
    BY <2>1, FilesAssumption DEF Ancestors
  <2>5. Moves(disk', p)
    BY <1>5, <2>1, <2>3, <2>4 DEF Moves
  <2>6. ASSUME NEW x \in R, Awaited(x)
        PROVE  Moves(disk', x) /\ After(disk', include', x) \in R
    <3>1. /\ progress = "stage" /\ stack = << >> /\ FirstOn(disk, calling)
          /\ x = <<"stage", << >>, None, seen, base, None>>
      BY <2>6 DEF Awaited
    <3>2. FirstOn(disk', calling)
      BY <2>2, <2>3, <3>1, StageKeeps DEF IsStage
    <3>3. (CHOOSE g \in Files : FirstOn(disk', g)) = calling
      BY <2>1, <3>2, StageUnique
    <3>4. x[1] = "stage" /\ x[2] = << >> /\ x[3] = None /\ x[4] = seen /\ x[5] = base
      BY <3>1
    <3>5. After(disk', include', x) = <<"stage", << >>, calling, seen, base, None>>
      BY <3>3, <3>4 DEF After
    <3>6. Place = <<"stage", << >>, calling, seen, base, None>>
      BY <3>1, HerePlace
    <3>7. After(disk', include', x) \in R
      BY <3>5, <3>6 DEF Traced
    <3>8. Moves(disk', x)
      BY <2>1, <2>3, <3>2, <3>4 DEF Moves
    <3> QED
      BY <3>7, <3>8
  <2> QED
    <3>1. \A x \in R \cup {y} : x = y \/ (Moves(disk', x) /\ After(disk', include', x) \in R \cup {y})
      BY <1>5, <2>1, <2>2, <2>5, <2>6, TraceGrows
    <3> QED
      BY <1>6, <3>1, TraceEnds DEF Traced
<1>8. CASE Iterate
  <2>1. y = After(disk', include', Place)
    BY <1>1, <1>6, <1>8, IterateLeads
  <2>2. calling = None /\ stack # << >> /\ UNCHANGED <<disk, include>>
    BY <1>8 DEF Iterate
  <2>3. Grows
    BY <2>2 DEF Grows
  <2>4. Head(stack).file \in Files /\ disk'[Head(stack).file] = "read"
    <3>1. stack \in Seq(Frames) /\ 1 \in 1..Len(stack) /\ stack[1].file \in Files
      BY <1>1, <2>2, StackFacts DEF FileTypes
    <3>2. Head(stack) = stack[1]
      BY <2>2, <3>1
    <3>3. FrameInv(1, done)
      BY <1>4, <3>1 DEF WalkInv
    <3> QED
      BY <2>2, <3>1, <3>2, <3>3 DEF FrameInv
  <2>5. Moves(disk', p)
    BY <1>5, <2>2, <2>4 DEF Moves
  <2>6. \A x \in R : ~ Awaited(x)
    BY <2>2 DEF Awaited
  <2> QED
    <3>1. \A x \in R \cup {y} : x = y \/ (Moves(disk', x) /\ After(disk', include', x) \in R \cup {y})
      BY <1>5, <2>1, <2>3, <2>5, <2>6, TraceGrows
    <3> QED
      BY <1>6, <3>1, TraceEnds DEF Traced
<1> QED
  BY <1>7, <1>8

\* The load finds the stage file.
LEMMA StageTraced ==
    ASSUME LoadInv, LoadInv', caller = "load", NEW R, Traced(R), FindStage, progress' # "failed"
    PROVE  \E S : Traced(S)'
<1>1. FileTypes /\ FileTypes'
  BY DEF LoadInv
<1>2. /\ progress = "stage" /\ calling = None /\ stack = << >> /\ include' = include
      /\ ~ LoadFails("no stage")
  BY DEF FindStage, LoadFails
<1>3. PICK i \in DOMAIN StagePaths :
          /\ disk[StagePaths[i]] # "missing"
          /\ \A j \in 1..(i - 1) : disk[StagePaths[j]] \in {"unread", "missing"}
          /\ disk' = [f \in Files |-> IF \E j \in 1..(i - 1) : f = StagePaths[j] THEN "missing" ELSE disk[f]]
          /\ calling' = StagePaths[i] /\ seen' = seen
          /\ UNCHANGED <<caller, progress, stack, base>>
  BY <1>2 DEF FindStage, StageSeen
<1>4. Grows
  BY <1>2, <1>3 DEF Grows
<1>5. calling' \in Files
  <2>1. StagePaths \in Seq(Files)
    BY FilesAssumption
  <2> QED
    BY <1>3, <2>1
<1>6. FirstOn(disk', calling')
  <2>1. Begins(calling)'
    <3>1. calling' # None
      BY <1>5, FilesAssumption
    <3> QED
      BY <1>2, <1>3, <3>1 DEF LoadInv, Walks, WalkInv
  <2> QED
    BY <1>2, <1>3, <2>1 DEF Begins, IsStage
<1>7. PICK p : p = Place
  OBVIOUS
<1>8. p = <<"stage", << >>, None, seen, base, None>>
  BY <1>2, <1>7, HerePlace
<1>9. Awaited(p)'
  BY <1>2, <1>3, <1>5, <1>6, <1>8 DEF Awaited
<1>10. \A x \in R : ~ Awaited(x)
  BY <1>2, FilesAssumption DEF Awaited
<1>11. \A x \in R : x = p \/ (Moves(disk', x) /\ After(disk', include', x) \in R)
  BY <1>4, <1>7, <1>10, MovesKeeps DEF Traced
<1>12. PICK y : y = Place'
  OBVIOUS
<1> DEFINE S == R \cup {y}
<1>13. Begin \in S /\ y \in S
  BY DEF Traced
<1>14. \A x \in S : x = y \/ Awaited(x)' \/ (Moves(disk', x) /\ After(disk', include', x) \in S)
  BY <1>9, <1>11
<1> HIDE DEF S
<1>15. Traced(S)'
  BY <1>12, <1>13, <1>14 DEF Traced
<1> QED
  BY <1>15

\* At its end the discovery registers what it merged.
LEMMA EndRegisters ==
    ASSUME caller' = "tasks", NEW R, NEW e \in R, NEW c, e[1] = "end", e[6] = c, Place' \in R,
           \A x \in R : x = e \/ x[1] \in {"base", "stage"}
    PROVE  progress' \notin {"base", "stage"} => registered' = c
<1> HAVE progress' \notin {"base", "stage"}
<1>1. PICK y \in R : y = Place'
  OBVIOUS
<1>2. y = <<"end", << >>, None, seen', base', registered'>>
  BY <1>1 DEF Place
<1>3. y[1] = "end" /\ y[6] = registered'
  BY <1>2
<1> QED
  BY <1>3

\* A step of the discovery, when the load has been the same way to its end.
LEMMA DiscoveryFollows ==
    ASSUME FileTypes, caller = "tasks", progress \in {"base", "stage"}, NEW R, NEW c,
           Completed(R, c), Place \in R, LoadNext
    PROVE  /\ Place' \in R /\ progress' # "failed" /\ UNCHANGED <<disk, include, caller, cfg>>
           /\ progress' \notin {"base", "stage"} => registered' = c
<1>1. PICK e \in R : /\ e[1] = "end" /\ e[6] = c
                     /\ \A x \in R : x = e \/ (Moves(disk, x) /\ After(disk, include, x) \in R)
  BY DEF Completed
<1>2. PICK p : p = Place /\ p[1] = progress /\ p[2] = stack /\ p[3] = calling /\ p[4] = seen /\ p[5] = base
  BY HerePlace
<1>3. Moves(disk, p) /\ After(disk, include, p) \in R
  <2>1. p # e
    BY <1>1, <1>2
  <2> QED
    BY <1>1, <1>2, <2>1
<1>4. ~ Check /\ ~ Discover
  BY DEF Check, Discover
<1>5. \A x \in R : x = e \/ x[1] \in {"base", "stage"}
  BY <1>1 DEF Moves
<1>6. CASE ResolveIncludes
  <2>1. PICK f \in Files : calling = f /\ f # None
    BY <1>6 DEF FileTypes, ResolveIncludes
  <2>2. disk[f] = "read" /\ f \notin Ancestors
    BY <1>2, <1>3, <2>1 DEF Moves, Ancestors
  <2>3. ReadConfig(f) => UNCHANGED <<disk, include>>
    BY <2>2 DEF ReadConfig
  <2>4. ~ Circular(f) /\ (ReadConfig(f) => disk'[f] = "read")
    BY <2>2, <2>3 DEF Circular
  <2>5. progress' # "failed"
    <3>1. \A frames, config : Return(config, frames) => progress' # "failed"
      BY ReturnGoesOn
    <3>2. UNCHANGED <<caller, progress, base, cfg, failure, registered>> => progress' # "failed"
      OBVIOUS
    <3> QED
      BY <1>6, <2>1, <2>4, <3>1, <3>2 DEF ResolveIncludes
  <2>6. UNCHANGED <<disk, include>>
    BY <1>6, <2>1, <2>3, <2>4 DEF ResolveIncludes
  <2>7. Place' = After(disk', include', Place)
    BY <1>6, <2>5, ResolveLeads
  <2>8. Place' \in R
    BY <1>2, <1>3, <2>6, <2>7
  <2>9. caller' = caller /\ cfg' = cfg
    BY <1>6, <2>5, ResolveGoesOn
  <2> QED
    BY <1>1, <1>5, <2>5, <2>6, <2>8, <2>9, EndRegisters
<1>7. CASE Iterate
  <2>1. Place' = After(disk', include', Place)
    BY <1>7, IterateLeads
  <2>2. UNCHANGED <<disk, include>>
    BY <1>7 DEF Iterate
  <2>3. Place' \in R
    BY <1>2, <1>3, <2>1, <2>2
  <2>4. progress' # "failed"
    <3>1. \A frames, config : Return(config, frames) => progress' # "failed"
      BY ReturnGoesOn
    <3>2. UNCHANGED <<caller, progress, base, cfg, failure, registered>> => progress' # "failed"
      OBVIOUS
    <3> QED
      BY <1>7, <3>1, <3>2 DEF Iterate
  <2>5. caller' = caller /\ cfg' = cfg
    BY <1>7, <2>4, ResolveGoesOn
  <2> QED
    BY <1>1, <1>5, <2>2, <2>3, <2>4, <2>5, EndRegisters
<1>8. CASE FindStage
  <2>1. progress = "stage" /\ calling = None /\ stack = << >> /\ include' = include
    BY <1>8 DEF FindStage
  <2>2. PICK g \in Files : FirstOn(disk, g) /\ disk[g] = "read"
    BY <1>2, <1>3, <2>1 DEF Moves
  <2>3. StagePaths \in Seq(Files) /\ DOMAIN StagePaths = 1..Len(StagePaths) /\ Len(StagePaths) \in Nat
    BY FilesAssumption
  <2>4. PICK k \in 1..Len(StagePaths) :
            g = StagePaths[k] /\ \A j \in 1..(k - 1) : disk[StagePaths[j]] = "missing"
    BY <2>2, <2>3 DEF FirstOn
  <2>5. ~ \A i \in DOMAIN StagePaths : disk[StagePaths[i]] \in {"unread", "missing"}
    BY <2>2, <2>3, <2>4
  <2>6. PICK i \in DOMAIN StagePaths :
            /\ disk[StagePaths[i]] # "missing"
            /\ \A j \in 1..(i - 1) : disk[StagePaths[j]] \in {"unread", "missing"}
            /\ disk' = [f \in Files |-> IF \E j \in 1..(i - 1) : f = StagePaths[j] THEN "missing" ELSE disk[f]]
            /\ calling' = StagePaths[i] /\ seen' = seen
            /\ UNCHANGED <<caller, progress, stack, base, cfg, failure, registered>>
    BY <1>8, <2>5 DEF FindStage, StageSeen
  <2>7. i = k
    <3>1. i \in Nat /\ k \in Nat /\ i \in 1..Len(StagePaths)
      BY <2>3
    <3>2. ~ (i < k)
      <4> SUFFICES ASSUME i < k PROVE FALSE
        OBVIOUS
      <4>1. i \in 1..(k - 1)
        BY <3>1
      <4> QED
        BY <2>4, <2>6, <4>1
    <3>3. ~ (k < i)
      <4> SUFFICES ASSUME k < i PROVE FALSE
        OBVIOUS
      <4>1. k \in 1..(i - 1)
        BY <3>1
      <4> QED
        BY <2>2, <2>4, <2>6, <4>1
    <3> QED
      BY <3>1, <3>2, <3>3
  <2>8. disk' = disk
    <3>1. disk = [f \in Files |-> disk[f]]
      BY DEF FileTypes
    <3>2. \A f \in Files : (\E j \in 1..(i - 1) : f = StagePaths[j]) => disk[f] = "missing"
      BY <2>4, <2>7
    <3> QED
      BY <2>6, <3>1, <3>2
  <2>9. (CHOOSE h \in Files : FirstOn(disk, h)) = g
    BY <2>2, StageUnique
  <2>10. After(disk, include, p) = <<"stage", << >>, g, seen, base, None>>
    BY <1>2, <2>1, <2>9 DEF After
  <2>11. Place' = <<"stage", << >>, g, seen, base, None>>
    BY <2>1, <2>4, <2>6, <2>7 DEF Place
  <2> QED
    BY <1>3, <2>1, <2>6, <2>8, <2>10, <2>11
<1> QED
  BY <1>4, <1>6, <1>7, <1>8 DEF LoadNext

\* What was found stays found, unless the load fails.
LEMMA StepGrows ==
    ASSUME FileTypes, LoadNext
    PROVE  Grows
<1>1. ASSUME UNCHANGED <<disk, include>>
      PROVE  Grows
  BY <1>1 DEF Grows
<1>2. ASSUME NEW f \in Files, ReadConfig(f)
      PROVE  Grows
  BY <1>2, ReadConfigTypes
<1>3. CASE ResolveIncludes
  <2>1. calling \in Files
    BY <1>3 DEF FileTypes, ResolveIncludes
  <2>2. UNCHANGED <<disk, include>> \/ ReadConfig(calling)
    BY <1>3 DEF ResolveIncludes
  <2> QED
    BY <1>1, <1>2, <2>1, <2>2
<1>4. CASE Iterate \/ Check \/ Discover
  BY <1>1, <1>4 DEF Iterate, Check, Discover
<1>5. CASE FindStage
  <2>1. include' = include
    BY <1>5 DEF FindStage
  <2>2. CASE \E i \in DOMAIN StagePaths :
                /\ \A j \in 1..(i - 1) : disk[StagePaths[j]] \in {"unread", "missing"}
                /\ disk' = [f \in Files |-> IF \E j \in 1..(i - 1) : f = StagePaths[j] THEN "missing" ELSE disk[f]]
    BY <2>1, <2>2 DEF Grows
  <2>3. CASE /\ \A i \in DOMAIN StagePaths : disk[StagePaths[i]] \in {"unread", "missing"}
             /\ disk' = [f \in Files |-> IF f \in Range(StagePaths) THEN "missing" ELSE disk[f]]
    <3>1. \A f \in Range(StagePaths) : disk[f] \in {"unread", "missing"}
      BY <2>3 DEF Range
    <3> QED
      BY <2>1, <2>3, <3>1 DEF Grows
  <2> QED
    BY <1>5, <2>2, <2>3 DEF FindStage
<1> QED
  BY <1>3, <1>4, <1>5 DEF LoadNext

\* A step of the load while it resolves.
LEMMA LoadStepTraced ==
    ASSUME LoadInv, LoadInv', DiscoveryInv, caller = "load", progress \in {"base", "stage"}, LoadNext
    PROVE  DiscoveryInv'
<1>1. PICK R : Traced(R)
  BY DEF DiscoveryInv
<1>2. cfg = None /\ registered = None
  BY DEF DiscoveryInv
<1>3. CASE (ResolveIncludes \/ Iterate) /\ progress' # "failed"
  <2>1. /\ caller' = "load" /\ registered' = None
        /\ progress' \in {"base", "stage", "check"}
        /\ progress' \in {"base", "stage"} => cfg' = None
    BY <1>2, <1>3, ResolveGoesOn
  <2>2. PICK S : (progress' \in {"base", "stage"} => Traced(S)') /\ (progress' = "check" => Completed(S, cfg)')
    BY <1>1, <1>2, <1>3, LoadTraces
  <2> QED
    BY <2>1, <2>2 DEF DiscoveryInv
<1>4. CASE (ResolveIncludes \/ Iterate) /\ progress' = "failed"
  <2>1. caller' = "load" /\ registered' = None /\ cfg' = None
    BY <1>2, <1>4, ResolveGoesOn
  <2> QED
    BY <1>4, <2>1 DEF DiscoveryInv
<1>5. CASE FindStage /\ progress' # "failed"
  <2>1. ~ LoadFails("no stage")
    BY <1>5 DEF LoadFails
  <2>2. UNCHANGED <<caller, progress, cfg, registered>>
    BY <1>5, <2>1 DEF FindStage
  <2>3. PICK S : Traced(S)'
    BY <1>1, <1>5, StageTraced
  <2> QED
    BY <1>2, <2>2, <2>3 DEF DiscoveryInv
<1>6. CASE FindStage /\ progress' = "failed"
  <2>1. caller' = "load" /\ registered' = None /\ cfg' = None
    <3>1. progress # "failed"
      OBVIOUS
    <3>2. LoadFails("no stage") \/ UNCHANGED <<caller, progress, cfg, registered>>
      BY <1>6 DEF FindStage
    <3> QED
      BY <1>2, <1>6, <3>1, <3>2 DEF LoadFails
  <2> QED
    BY <1>6, <2>1 DEF DiscoveryInv
<1>7. ~ Check /\ ~ Discover
  BY DEF Check, Discover
<1> QED
  BY <1>3, <1>4, <1>5, <1>6, <1>7 DEF LoadNext

\* Nothing is registered before the end.
LEMMA RegisteredStays ==
    ASSUME progress \in {"base", "stage"}, LoadNext, progress' \in {"base", "stage"}
    PROVE  registered' = registered
<1>1. ~ Check /\ ~ Discover
  BY DEF Check, Discover
<1>2. \A why : ~ LoadFails(why)
  BY DEF LoadFails
<1>3. ASSUME NEW frames, NEW config, Return(config, frames)
      PROVE  registered' = registered
  <2>1. CASE frames # << >>
    BY <1>3, <2>1 DEF Return
  <2>2. CASE frames = << >> /\ progress = "base"
    BY <1>3, <2>2 DEF Return
  <2>3. CASE frames = << >> /\ progress = "stage"
    BY <1>3, <2>3 DEF Return
  <2> QED
    BY <2>1, <2>2, <2>3
<1>4. ASSUME UNCHANGED <<caller, progress, base, cfg, failure, registered>>
      PROVE  registered' = registered
  BY <1>4
<1>5. CASE ResolveIncludes
  BY <1>2, <1>3, <1>4, <1>5 DEF ResolveIncludes
<1>6. CASE Iterate
  BY <1>3, <1>4, <1>6 DEF Iterate
<1>7. CASE FindStage
  BY <1>2, <1>7 DEF FindStage
<1> QED
  BY <1>1, <1>5, <1>6, <1>7 DEF LoadNext

\* A step of the discovery while it resolves.
LEMMA DiscoveryStepFollows ==
    ASSUME LoadInv, DiscoveryInv, caller = "tasks", progress \in {"base", "stage"}, LoadNext
    PROVE  DiscoveryInv'
<1>1. FileTypes
  BY DEF LoadInv
<1>2. Grows
  BY <1>1, StepGrows
<1>3. CASE cfg # None
  <2>1. PICK R : Completed(R, cfg) /\ Place \in R
    BY <1>3 DEF DiscoveryInv
  <2>2. PICK c : c = cfg
    OBVIOUS
  <2>3. Completed(R, c)
    BY <2>1, <2>2
  <2>4. /\ Place' \in R /\ UNCHANGED <<caller, cfg>>
        /\ progress' \notin {"base", "stage"} => registered' = c
    BY <1>1, <2>1, <2>3, DiscoveryFollows
  <2>5. Completed(R, c)'
    BY <1>2, <2>3, CompletedKeeps
  <2>6. Completed(R, cfg)'
    BY <2>2, <2>4, <2>5 DEF Completed
  <2>7. registered # None => registered = c
    BY <1>3, <2>2 DEF DiscoveryInv
  <2>8. progress' \in {"base", "stage"} => registered' = registered
    BY RegisteredStays
  <2> QED
    BY <2>2, <2>4, <2>6, <2>7, <2>8 DEF DiscoveryInv
<1>4. CASE cfg = None
  <2>1. caller' = "tasks" /\ cfg' = None
    <3>1. ~ Check /\ ~ Discover
      BY DEF Check, Discover
    <3>2. CASE ResolveIncludes \/ Iterate
      BY <1>4, <3>2, ResolveGoesOn
    <3>3. CASE FindStage
      BY <1>4, <3>3 DEF FindStage, LoadFails
    <3> QED
      BY <3>1, <3>2, <3>3 DEF LoadNext
  <2> QED
    BY <2>1 DEF DiscoveryInv
<1> QED
  BY <1>3, <1>4

LEMMA DiscoveryStep ==
    ASSUME LoadInv, LoadInv', DiscoveryInv, [LoadNext]_vars
    PROVE  DiscoveryInv'
<1>1. FileTypes
  BY DEF LoadInv
<1>2. CASE LoadNext /\ progress \in {"base", "stage"}
  <2>1. caller = "load" \/ caller = "tasks"
    BY DEF DiscoveryInv
  <2> QED
    BY <1>2, <2>1, LoadStepTraced, DiscoveryStepFollows
<1>3. CASE LoadNext /\ progress \notin {"base", "stage"}
  <2>1. Check \/ Discover
    <3>1. stack = << >> /\ calling = None
      BY <1>3 DEF LoadInv
    <3> QED
      BY <1>3, <3>1 DEF LoadNext, ResolveIncludes, Iterate, FindStage
  <2>2. Grows /\ cfg' = cfg
    BY <1>1, <1>3, <2>1, StepGrows DEF Check, Discover
  <2>3. CASE cfg = None
    <3>1. caller' \in {"load", "tasks"} /\ (caller' = "load" => progress' \notin {"base", "stage"})
      BY <2>1 DEF DiscoveryInv, Check, Discover
    <3> QED
      BY <2>2, <2>3, <3>1 DEF DiscoveryInv
  <2>4. CASE cfg # None
    <3>1. PICK R : Completed(R, cfg)
      BY <2>4 DEF DiscoveryInv
    <3>2. PICK c : c = cfg
      OBVIOUS
    <3>3. Completed(R, c)'
      <4>1. Completed(R, c)
        BY <3>1, <3>2
      <4> QED
        BY <2>2, <4>1, CompletedKeeps
    <3>4. Completed(R, cfg)'
      BY <2>2, <3>2, <3>3 DEF Completed
    <3>5. CASE Check
      <4>1. /\ caller' = caller /\ progress' \in {"failed", "ready"}
            /\ registered' = registered \/ registered' = cfg
        BY <3>5 DEF Check
      <4> QED
        BY <2>2, <2>4, <3>4, <4>1 DEF DiscoveryInv
    <3>6. CASE Discover
      <4>1. /\ caller' = "tasks" /\ progress' = "base" /\ registered' = registered
            /\ stack' = << >> /\ calling' = Root /\ seen' = {} /\ base' = None
        BY <3>6 DEF Discover
      <4>2. Place' = Begin
        BY <4>1 DEF Place, Begin
      <4>3. Place' \in R
        BY <3>1, <4>2 DEF Completed
      <4> QED
        BY <2>2, <2>4, <3>4, <4>1, <4>3 DEF DiscoveryInv
    <3> QED
      BY <2>1, <3>5, <3>6
  <2> QED
    BY <2>3, <2>4
<1>4. CASE UNCHANGED vars
  <2>1. /\ UNCHANGED <<disk, include, caller, progress, stack, calling, seen, base, cfg, registered>>
    BY <1>4 DEF vars
  <2>2. Place' = Place
    BY <2>1 DEF Place
  <2>3. \A R : Traced(R) => Traced(R)'
    BY <2>1, <2>2 DEF Traced, Awaited
  <2>4. \A R : Completed(R, cfg) => Completed(R, cfg)'
    BY <2>1 DEF Completed
  <2> QED
    BY <2>1, <2>2, <2>3, <2>4 DEF DiscoveryInv
<1> QED
  BY <1>2, <1>3, <1>4

LEMMA DiscoveryInitially ==
    ASSUME LoadInit
    PROVE  DiscoveryInv
<1>1. Place = Begin
  BY DEF LoadInit, Place, Begin
<1> DEFINE S == {Begin}
<1>2. Traced(S)
  BY <1>1 DEF Traced
<1> HIDE DEF S
<1> QED
  BY <1>2 DEF DiscoveryInv, LoadInit

\* The tasks registered as subcommands are those of the configuration the load merged, whether
\* it passed its checks or the discovery resolved the same files once more (TasksForStage of
\* tasks.go, the subcommands of root.go): nothing but what the files hold decides what they merge.
THEOREM DiscoveryAgreesHolds == LoadSpec => []DiscoveryAgrees
<1>1. LoadInit => DiscoveryInv
  BY DiscoveryInitially
<1>2. LoadInv /\ LoadInv' /\ DiscoveryInv /\ [LoadNext]_vars => DiscoveryInv'
  BY DiscoveryStep
<1>3. DiscoveryInv => DiscoveryAgrees
  BY DEF DiscoveryInv, DiscoveryAgrees
<1> QED
  BY <1>1, <1>2, <1>3, LoadInvHolds, PTL DEF LoadSpec
=============================================================================
