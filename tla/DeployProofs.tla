---------------------------- MODULE DeployProofs ----------------------------
(***************************************************************************)
(* Proofs about Deploy for every set of hosts, operators and faults: its   *)
(* type invariant, that the lock file keeps deploys of one stage apart,    *)
(* and that Deploy implements ReleaseStage: commands, hooks, crashes and   *)
(* interrupts seen as deploys that enter a stage, move `current` to their  *)
(* own release and leave. On the way: phases are barriers, success means   *)
(* live, and what the cleanups and the rollbacks leave of the live release.*)
(***************************************************************************)
EXTENDS Deploy, WellFoundedInduction, FiniteSetTheorems, TLAPS

-----------------------------------------------------------------------------
(* Choosing hosts and releases.                                            *)

\* A nonempty set of naturals has a least member: what every "first" and
\* "newest" in the code rests on.
LEMMA LeastNat ==
    ASSUME NEW T \in SUBSET Nat, T # {}
    PROVE  \E x \in T : \A y \in T : x <= y
<1>1. \E x \in T : \A y \in T : ~ (<<y, x>> \in OpToRel(<, Nat))
  BY NatLessThanWellFounded, WFMin
<1>2. PICK x \in T : \A y \in T : ~ (<<y, x>> \in OpToRel(<, Nat))
  BY <1>1
<1>3. ASSUME NEW y \in T PROVE x <= y
  <2>1. x \in Nat /\ y \in Nat
    OBVIOUS
  <2>2. y < x => <<y, x>> \in OpToRel(<, Nat)
    BY <2>1 DEF OpToRel
  <2>3. ~ (<<y, x>> \in OpToRel(<, Nat))
    BY <1>2
  <2>4. ~ (y < x)
    BY <2>2, <2>3
  <2> QED
    BY <2>1, <2>4
<1> QED
  BY <1>3

\* The first host of a nonempty host list is one of its hosts (filters.go:52-64).
LEMMA FirstOfMember ==
    ASSUME NEW T \in SUBSET Hosts, T # {}
    PROVE  FirstOf(T) \in T
<1> DEFINE P == {Position(h) : h \in T}
<1>1. \A h \in Hosts : Position(h) \in Nat
  BY DeployAssumption DEF Position
<1>2. P \in SUBSET Nat /\ P # {}
  BY <1>1
<1> HIDE DEF P
<1>3. PICK x \in P : \A y \in P : x <= y
  BY <1>2, LeastNat
<1>4. PICK h \in T : Position(h) = x
  BY <1>3 DEF P
<1>5. \A g \in T : Position(h) <= Position(g)
  BY <1>3, <1>4 DEF P
<1> QED
  BY <1>4, <1>5 DEF FirstOf

\* The lock host of an invocation is one of the hosts it targets (deploy.go:134).
LEMMA PrimaryIsTarget ==
    ASSUME NEW o \in Operators
    PROVE  Primary(o) \in Targets[o] /\ Primary(o) \in Hosts
<1>1. Targets[o] \in SUBSET Hosts /\ Targets[o] # {}
  BY DeployAssumption
<1>2. CASE Targets[o] \cap MarkedPrimary # {}
  <2>1. FirstOf(Targets[o] \cap MarkedPrimary) \in Targets[o] \cap MarkedPrimary
    BY <1>1, <1>2, FirstOfMember
  <2> QED
    BY <1>1, <1>2, <2>1 DEF Primary, PickPrimary
<1>3. CASE Targets[o] \cap MarkedPrimary = {}
  BY <1>1, <1>3, FirstOfMember DEF Primary, PickPrimary
<1> QED
  BY <1>2, <1>3

\* A rollback that runs finds an older release directory (rollback.sh.tmpl:6-11).
\* A nonempty finite set of releases has a newest one: the release that the loop of
\* the rollback script ends with (rollback.sh.tmpl:6-11).
LEMMA NewestOf ==
    ASSUME NEW S \in SUBSET Nat, S # {}, IsFiniteSet(S)
    PROVE  /\ Newest(S) \in S
           /\ \A q \in S : q <= Newest(S)
<1> DEFINE Above(r) == {q \in S : q > r}
           T == {Cardinality(Above(r)) : r \in S}
<1>1. \A r \in S : IsFiniteSet(Above(r)) /\ Cardinality(Above(r)) \in Nat
  BY FS_Subset, FS_CardinalityType
<1>2. T \in SUBSET Nat /\ T # {}
  BY <1>1
<1> HIDE DEF T
<1>3. PICK x \in T : \A y \in T : x <= y
  BY <1>2, LeastNat
<1>4. PICK r \in S : Cardinality(Above(r)) = x
  BY <1>3 DEF T
<1>5. ASSUME NEW q \in S, q > r PROVE FALSE
  <2>1. Above(q) \subseteq Above(r) /\ q \in Above(r) /\ q \notin Above(q)
    <3>1. q \in Nat /\ r \in Nat /\ \A y \in S : y \in Nat
      OBVIOUS
    <3>2. \A y \in S : y > q => y > r
      BY <1>5, <3>1
    <3>3. ~ (q > q)
      BY <3>1
    <3> QED
      BY <1>5, <3>2, <3>3
  <2>2. Cardinality(Above(q)) < Cardinality(Above(r))
    <3>1. Above(q) # Above(r)
      BY <2>1
    <3> HIDE DEF Above
    <3> QED
      BY <1>1, <2>1, <3>1, FS_Subset, FS_CardinalityType
  <2>3. x <= Cardinality(Above(q))
    BY <1>3 DEF T
  <2> QED
    BY <1>1, <1>4, <2>2, <2>3
<1>6. \A q \in S : q <= r
  BY <1>5
<1> QED
  BY <1>6 DEF Newest

\* The loop of the cleanup script takes the oldest name of its list first.
LEMMA FirstName ==
    ASSUME NEW S \in SUBSET Nat, S # {}
    PROVE  LET r == CHOOSE q \in S : \A p \in S : q <= p IN r \in S /\ \A p \in S : r <= p
  BY LeastNat

-----------------------------------------------------------------------------
(* Types.                                                                  *)

DeployCommands == {"lock", "check", "mirror", "sha", "create", "revision", "link",
                   "publish", "log", "cleanup", "unlock"}

\* The command table, flattened: what can follow what.
LEMMA CommandTable ==
    /\ Commands = DeployCommands \cup {"rollback", "clear"}
    /\ \A c \in Commands : Following[c] \in Commands \cup {"finished", "ended"}
    /\ \A c \in DeployCommands : Following[c] \in DeployCommands \cup {"finished", "ended"}
    /\ \A c \in DeployCommands \ {"unlock"} : Following[c] # "ended" /\ Following[c] # "unlock"
    /\ Following["rollback"] = "finished" /\ Following["clear"] = "ended"
    /\ Following["unlock"] = "ended"
  BY DEF Commands, Following, DeployCommands

\* Only a deploy sends a deploy's commands, and it has named its release by then.
Roles ==
    /\ \A o \in Operators : pc[o] \in DeployCommands \cup {"notify"} => o \in Deployers
    /\ \A o \in Operators : pc[o] = "rollback" => o \in Rollbackers
    /\ \A o \in Operators : pc[o] = "clear" => o \in Unlockers
    /\ \A d \in Deployers : pc[d] # "idle" => rel[d] \in Nat
    /\ \A o \in Operators : locked[o] => o \in Deployers

\* Line p is one of the script of cmd.
Line(p, cmd) ==
    /\ p \in {"open", "write"} => cmd = "lock"
    /\ p \in {"test", "mkdir", "unpack"} => cmd = "create"
    /\ p = "revision" => cmd = "revision"
    /\ p = "links" => cmd = "link"
    /\ p \in {"untmp", "ln", "mv", "unlink", "move"} => cmd \in {"publish", "rollback"}
    /\ p \in {"readlink", "grep", "search", "forget"} => cmd = "rollback"
    /\ p \in {"count", "list", "prune"} => cmd = "cleanup"
    /\ p = "rm" => cmd \in {"unlock", "clear"}

\* A script that runs is one of the command its process is at, and no host has
\* infinitely many releases.
Scripted ==
    /\ \A o \in Operators : \A h \in Hosts :
          res[o][h] = "sent" => Line(script[o][h].at, pc[o])
    /\ \A o \in Operators : pc[o] \notin Commands => res[o] = NoResults
    /\ \A h \in Hosts : IsFiniteSet(Dirs(host[h]))

TypeInv == TypeOK /\ Roles /\ Scripted

\* A record update of a well-formed host is well-formed.
LEMMA HostUpdate ==
    ASSUME NEW s \in HostState
    PROVE  /\ \A l \in Deployers \cup {NoOwner} : [s EXCEPT !.lock = l] \in HostState
           /\ \A r \in Link : [s EXCEPT !.current = r] \in HostState
           /\ \A r \in Link : [s EXCEPT !.tmp = r] \in HostState
           /\ \A r, q \in Link : [s EXCEPT !.current = r, !.tmp = q] \in HostState
           /\ \A r \in Nat : \A parts \in SUBSET Parts : With(s, r, parts) \in HostState
           /\ \A r : Removals(s, r) \subseteq HostState
<1>1. \A l \in Deployers \cup {NoOwner} : [s EXCEPT !.lock = l] \in HostState
  BY DEF HostState
<1>2. /\ \A r \in Link : [s EXCEPT !.current = r] \in HostState
      /\ \A r \in Link : [s EXCEPT !.tmp = r] \in HostState
      /\ \A r, q \in Link : [s EXCEPT !.current = r, !.tmp = q] \in HostState
  BY DEF HostState
<1>3. \A C \in SUBSET (Nat \X Parts) : [s EXCEPT !.content = C] \in HostState
  BY DEF HostState
<1>4. s.content \in SUBSET (Nat \X Parts)
  BY DEF HostState
<1>5. \A r \in Nat : \A parts \in SUBSET Parts : With(s, r, parts) \in HostState
  BY <1>3, <1>4 DEF With
<1>6. \A r : Removals(s, r) \subseteq HostState
  BY <1>3, <1>4 DEF Removals
<1> QED
  BY <1>1, <1>2, <1>5, <1>6

\* Which release directories there are after it.
LEMMA DirsUpdate ==
    ASSUME NEW s \in HostState
    PROVE  /\ \A l : Dirs([s EXCEPT !.lock = l]) = Dirs(s)
           /\ \A r : Dirs([s EXCEPT !.current = r]) = Dirs(s)
           /\ \A r : Dirs([s EXCEPT !.tmp = r]) = Dirs(s)
           /\ \A r, q : Dirs([s EXCEPT !.current = r, !.tmp = q]) = Dirs(s)
           /\ \A r : \A parts \in SUBSET Parts : Dirs(With(s, r, parts)) \subseteq Dirs(s) \cup {r}
           /\ \A r : \A parts \in SUBSET Parts : Dirs(s) \subseteq Dirs(With(s, r, parts))
           /\ \A r : \A t \in Removals(s, r) : Dirs(t) \subseteq Dirs(s) /\ Dirs(s) \ {r} \subseteq Dirs(t)
           /\ Dirs(s) \in SUBSET Nat
<1>1. /\ \A l : [s EXCEPT !.lock = l].content = s.content
      /\ \A r : [s EXCEPT !.current = r].content = s.content
      /\ \A r : [s EXCEPT !.tmp = r].content = s.content
      /\ \A r, q : [s EXCEPT !.current = r, !.tmp = q].content = s.content
  BY DEF HostState
<1>2. \A r : \A parts \in SUBSET Parts :
         With(s, r, parts).content = s.content \cup {<<r, p>> : p \in parts}
  BY DEF HostState, With
<1>3. \A r : \A t \in Removals(s, r) :
         t.content \subseteq s.content /\ \A x \in s.content : x[1] # r => x \in t.content
  BY DEF HostState, Removals
<1>4. \A r : \A parts \in SUBSET Parts : \A x \in {<<r, p>> : p \in parts} : x[1] = r
  OBVIOUS
<1>5. \A x \in s.content : x[1] \in Nat
  BY DEF HostState
<1> QED
  BY <1>1, <1>2, <1>3, <1>4, <1>5 DEF Dirs

\* A script's record, updated.
LEMMA ScriptUpdate ==
    ASSUME NEW s \in Scripts, NEW p \in Places
    PROVE  /\ [s EXCEPT !.at = p] \in Scripts /\ [s EXCEPT !.at = p].at = p
           /\ \A r \in Link : /\ [[s EXCEPT !.at = p] EXCEPT !.from = r] \in Scripts
                              /\ [[s EXCEPT !.at = p] EXCEPT !.from = r].at = p
           /\ \A r \in Link : /\ [[s EXCEPT !.at = p] EXCEPT !.to = r] \in Scripts
                              /\ [[s EXCEPT !.at = p] EXCEPT !.to = r].at = p
           /\ \A k \in Nat : /\ [[s EXCEPT !.at = p] EXCEPT !.n = k] \in Scripts
                             /\ [[s EXCEPT !.at = p] EXCEPT !.n = k].at = p
           /\ \A g \in SUBSET Nat : /\ [[s EXCEPT !.at = p] EXCEPT !.gone = g] \in Scripts
                                    /\ [[s EXCEPT !.at = p] EXCEPT !.gone = g].at = p
  BY DEF Scripts

\* Members of the three kinds of invocation are operators, and they differ.
LEMMA OperatorKinds ==
    /\ Deployers \subseteq Operators /\ Rollbackers \subseteq Operators
    /\ Unlockers \subseteq Operators
    /\ Deployers \cap Rollbackers = {} /\ Deployers \cap Unlockers = {}
    /\ Rollbackers \cap Unlockers = {}
    /\ NoOwner \notin Deployers
  BY DeployAssumption DEF Operators

LEMMA TypeInit == Init => TypeInv
<1> SUFFICES ASSUME Init PROVE TypeOK /\ Roles /\ Scripted
  BY DEF TypeInv
<1>1. (1..InitialReleases) \X Parts \in SUBSET (Nat \X Parts)
  BY DeployAssumption
<1>2. host \in [Hosts -> HostState]
  BY <1>1, DeployAssumption DEF Init, HostState, Link
<1>3. res \in [Operators -> [Hosts -> Results]]
  BY DEF Init, NoResults, Results
<1>4. script \in [Operators -> [Hosts -> Scripts]]
  BY DEF Init, NoScripts, NoScript, Scripts, Places, Link
<1>5. TypeOK
  BY <1>2, <1>3, <1>4, DeployAssumption DEF Init, TypeOK
<1>6. Roles
  BY DeployAssumption, OperatorKinds DEF Init, Roles, DeployCommands
<1>7. Scripted
  <2>1. \A h \in Hosts : Dirs(host[h]) \subseteq 1..InitialReleases
    BY DEF Init, Dirs
  <2>2. IsFiniteSet(1..InitialReleases)
    BY FS_Interval, DeployAssumption
  <2> QED
    BY <2>1, <2>2, FS_Subset DEF Init, Scripted, NoResults
<1> QED
  BY <1>5, <1>6, <1>7

\* One line of one script runs: that script and that host change, nothing else.
LEMMA RunType ==
    ASSUME TypeInv, NEW o \in Operators, NEW h \in Hosts, res[o][h] = "sent",
           NEW next \in Scripts, NEW after \in HostState, Run(o, h, next, after),
           Line(next.at, pc[o]), IsFiniteSet(Dirs(after))
    PROVE  TypeInv'
<1> USE DEF TypeInv, TypeOK
<1>1. pc' = pc /\ res' = res /\ UNCHANGED local
      /\ script' = [script EXCEPT ![o][h] = next] /\ host' = [host EXCEPT ![h] = after]
  BY DEF Run
<1>2. TypeOK'
  BY <1>1 DEF local
<1>3. Roles'
  BY <1>1 DEF Roles, local
<1>4. Scripted'
  <2>1. ASSUME NEW p \in Operators, NEW g \in Hosts, res[p][g] = "sent"
        PROVE  Line(script'[p][g].at, pc[p])
    <3>1. CASE p = o /\ g = h
      BY <1>1, <3>1
    <3>2. CASE ~ (p = o /\ g = h)
      BY <1>1, <2>1, <3>2 DEF Scripted
    <3> QED
      BY <3>1, <3>2
  <2>2. \A g \in Hosts : IsFiniteSet(Dirs(host'[g]))
    BY <1>1 DEF Scripted
  <2> QED
    BY <1>1, <2>1, <2>2 DEF Scripted, Dirs
<1> QED
  BY <1>2, <1>3, <1>4

\* Every line of a script leaves the script and its host well-formed.
LEMMA WorksRun ==
    ASSUME TypeInv, NEW o \in Operators, NEW h \in Hosts, Works(o, h)
    PROVE  \E next \in Scripts, after \in HostState :
              /\ Run(o, h, next, after) /\ Line(next.at, pc[o])
              /\ IsFiniteSet(Dirs(after)) /\ res[o][h] = "sent"
<1> DEFINE Fine(next, after) ==
      /\ next \in Scripts /\ after \in HostState
      /\ Run(o, h, next, after) /\ Line(next.at, pc[o])
      /\ IsFiniteSet(Dirs(after))
<1>1. /\ host[h] \in HostState /\ script[o][h] \in Scripts
      /\ IsFiniteSet(Dirs(host[h])) /\ Dirs(host[h]) \in SUBSET Nat
  BY DirsUpdate DEF TypeInv, TypeOK, Scripted
<1>2. /\ host[h].current \in Link /\ host[h].tmp \in Link /\ script[o][h].to \in Link
      /\ script[o][h].from \in Link /\ NoRelease \in Link /\ Nat \subseteq Link
  BY <1>1 DEF HostState, Scripts, Link
<1>3. res[o][h] = "sent" /\ Line(script[o][h].at, pc[o])
  <2>1. res[o][h] = "sent"
    BY DEF Works, At, Open, WriteInfo, RemoveLock, TestRelease, MakeRelease, Unpack, WriteRevision,
           LinkShared, ReadCurrent, FindCurrent, FindPrevious, RemoveTmp, LinkTmp, RenameTmp, Unlink,
           MoveTmp, RemoveFrom, CountReleases, ListOldest, Prune
  <2> QED
    BY <2>1 DEF TypeInv, Scripted
<1>4. \A p \in Places : /\ Goto(o, h, p) \in Scripts /\ Goto(o, h, p).at = p
                        /\ \A r \in Link : /\ [Goto(o, h, p) EXCEPT !.from = r] \in Scripts
                                           /\ [Goto(o, h, p) EXCEPT !.from = r].at = p
                        /\ \A r \in Link : /\ [Goto(o, h, p) EXCEPT !.to = r] \in Scripts
                                           /\ [Goto(o, h, p) EXCEPT !.to = r].at = p
                        /\ \A k \in Nat : /\ [Goto(o, h, p) EXCEPT !.n = k] \in Scripts
                                          /\ [Goto(o, h, p) EXCEPT !.n = k].at = p
                        /\ \A g \in SUBSET Nat : /\ [Goto(o, h, p) EXCEPT !.gone = g] \in Scripts
                                                 /\ [Goto(o, h, p) EXCEPT !.gone = g].at = p
  BY <1>1, ScriptUpdate DEF Goto
<1>5. pc[o] \in DeployCommands => o \in Deployers /\ rel[o] \in Nat
  BY DEF TypeInv, Roles, DeployCommands
<1>6. Target(o, h) \in Link
  BY <1>2 DEF Target, TypeInv, TypeOK, Link
<1>7. {"write", "done", "mkdir", "unpack", "links", "grep", "search", "untmp", "ln", "mv", "unlink",
       "move", "forget", "list", "prune"} \subseteq Places
  BY DEF Places
<1>8. Swapped(o) \in Places /\ (Swapped(o) = "forget" => o \in Rollbackers)
  BY <1>7, DeployAssumption DEF Swapped
<1>9. Line("done", pc[o])
  BY DEF Line
<1>10. CASE Open(o, h)
  <2>1. pc[o] = "lock" /\ o \in Deployers
    BY <1>3, <1>5, <1>10 DEF Open, At, Line, DeployCommands
  <2>2. Fine(Goto(o, h, "write"), [host[h] EXCEPT !.lock = o])
    BY <1>1, <1>4, <1>7, <1>10, <2>1, HostUpdate, DirsUpdate DEF Open, Line
  <2> QED
    BY <1>3, <2>2
<1>11. CASE WriteInfo(o, h)
  <2>1. Fine(Goto(o, h, "done"), host[h])
    BY <1>1, <1>4, <1>7, <1>9, <1>11 DEF WriteInfo
  <2> QED
    BY <1>3, <2>1
<1>12. CASE RemoveLock(o, h)
  <2>1. Fine(Goto(o, h, "done"), [host[h] EXCEPT !.lock = NoOwner])
    BY <1>1, <1>4, <1>7, <1>9, <1>12, HostUpdate, DirsUpdate DEF RemoveLock
  <2> QED
    BY <1>3, <2>1
<1>13. \A parts \in SUBSET Parts : o \in Deployers /\ rel[o] \in Nat =>
          With(host[h], rel[o], parts) \in HostState /\ IsFiniteSet(Dirs(With(host[h], rel[o], parts)))
  <2>1. IsFiniteSet(Dirs(host[h]) \cup {rel[o]})
    BY <1>1, FS_AddElement
  <2>2. ASSUME NEW parts \in SUBSET Parts, o \in Deployers, rel[o] \in Nat
        PROVE  With(host[h], rel[o], parts) \in HostState /\ IsFiniteSet(Dirs(With(host[h], rel[o], parts)))
    <3>1. Dirs(With(host[h], rel[o], parts)) \subseteq Dirs(host[h]) \cup {rel[o]}
      BY <1>1, DirsUpdate
    <3>2. With(host[h], rel[o], parts) \in HostState
      BY <1>1, <2>2, HostUpdate
    <3> QED
      BY <2>1, <3>1, <3>2, FS_Subset
  <2> QED
    BY <2>2
<1>14. {"dir"} \in SUBSET Parts /\ {"tree"} \in SUBSET Parts /\ {"revision"} \in SUBSET Parts
       /\ {"dir", "links"} \in SUBSET Parts
  BY DEF Parts
<1>15. CASE TestRelease(o, h)
  <2>1. pc[o] = "create"
    BY <1>3, <1>15 DEF TestRelease, At, Line
  <2>2. Fine(Goto(o, h, "mkdir"), host[h])
    BY <1>1, <1>4, <1>7, <1>15, <2>1 DEF TestRelease, Line
  <2> QED
    BY <1>3, <2>2
<1>16. CASE MakeRelease(o, h)
  <2>1. pc[o] = "create"
    BY <1>3, <1>16 DEF MakeRelease, At, Line
  <2>2. Fine(Goto(o, h, "unpack"), With(host[h], rel[o], {"dir"}))
    BY <1>4, <1>5, <1>7, <1>13, <1>14, <1>16, <2>1 DEF MakeRelease, Line, DeployCommands
  <2> QED
    BY <1>3, <2>2
<1>17. CASE Unpack(o, h) \/ WriteRevision(o, h)
  <2>1. pc[o] \in DeployCommands
    BY <1>3, <1>17 DEF Unpack, WriteRevision, At, Line, DeployCommands
  <2>2. Fine(Goto(o, h, "done"), With(host[h], rel[o], {"tree"}))
        \/ Fine(Goto(o, h, "done"), With(host[h], rel[o], {"revision"}))
    BY <1>4, <1>5, <1>7, <1>9, <1>13, <1>14, <1>17, <2>1 DEF Unpack, WriteRevision
  <2> QED
    BY <1>3, <2>2
<1>18. CASE LinkShared(o, h)
  <2>1. pc[o] = "link"
    BY <1>3, <1>18 DEF LinkShared, At, Line
  <2>2. Fine(Goto(o, h, "links"), With(host[h], rel[o], {"dir"}))
        \/ Fine(Goto(o, h, "done"), With(host[h], rel[o], {"dir", "links"}))
    BY <1>4, <1>5, <1>7, <1>13, <1>14, <1>18, <2>1 DEF LinkShared, Line, DeployCommands
  <2> QED
    BY <1>3, <2>2
<1>19. CASE ReadCurrent(o, h)
  <2>1. pc[o] = "rollback"
    BY <1>3, <1>19 DEF ReadCurrent, At, Line
  <2>2. Fine([Goto(o, h, "grep") EXCEPT !.from = host[h].current], host[h])
    BY <1>1, <1>2, <1>4, <1>7, <1>19, <2>1 DEF ReadCurrent, Line
  <2> QED
    BY <1>3, <2>2
<1>20. CASE FindCurrent(o, h)
  <2>1. pc[o] = "rollback"
    BY <1>3, <1>20 DEF FindCurrent, At, Line
  <2>2. Fine(Goto(o, h, "search"), host[h])
    BY <1>1, <1>4, <1>7, <1>20, <2>1 DEF FindCurrent, Line
  <2> QED
    BY <1>3, <2>2
<1>21. CASE FindPrevious(o, h)
  <2> DEFINE older == Earlier(host[h], script[o][h].from)
  <2>1. pc[o] = "rollback" /\ older # {}
    BY <1>3, <1>21 DEF FindPrevious, At, Line
  <2>2. older \subseteq Dirs(host[h])
    BY DEF Earlier
  <2>3. Newest(older) \in Link
    BY <1>1, <1>2, <2>1, <2>2, FS_Subset, NewestOf
  <2>4. Fine([Goto(o, h, "untmp") EXCEPT !.to = Newest(older)], host[h])
    BY <1>1, <1>4, <1>7, <1>21, <2>1, <2>3 DEF FindPrevious, Line
  <2> QED
    BY <1>3, <2>4
<1>22. CASE RemoveTmp(o, h)
  <2>1. pc[o] \in {"publish", "rollback"}
    BY <1>3, <1>22 DEF RemoveTmp, At, Line
  <2>2. Fine(Goto(o, h, "ln"), [host[h] EXCEPT !.tmp = NoRelease])
    BY <1>1, <1>2, <1>4, <1>7, <1>22, <2>1, HostUpdate, DirsUpdate DEF RemoveTmp, Line
  <2> QED
    BY <1>3, <2>2
<1>23. CASE LinkTmp(o, h)
  <2>1. pc[o] \in {"publish", "rollback"}
    BY <1>3, <1>23 DEF LinkTmp, At, Line
  <2>2. Fine(Goto(o, h, "mv"), [host[h] EXCEPT !.tmp = Target(o, h)])
        \/ Fine(Goto(o, h, "mv"), host[h])
    BY <1>1, <1>2, <1>4, <1>6, <1>7, <1>23, <2>1, HostUpdate, DirsUpdate DEF LinkTmp, Line
  <2> QED
    BY <1>3, <2>2
<1>24. Line(script[o][h].at, pc[o]) /\ script[o][h].at \in {"mv", "move"} => Line(Swapped(o), pc[o])
  <2>1. pc[o] \in DeployCommands => Swapped(o) = "done"
    BY <1>5, <1>8, OperatorKinds DEF Swapped
  <2> QED
    BY <2>1 DEF Line, DeployCommands, Swapped
<1>25. CASE RenameTmp(o, h)
  <2>1. pc[o] \in {"publish", "rollback"} /\ Line(Swapped(o), pc[o])
    BY <1>3, <1>24, <1>25 DEF RenameTmp, At, Line
  <2> DEFINE after == [host[h] EXCEPT !.current = host[h].tmp, !.tmp = NoRelease]
  <2>3. after \in HostState /\ Dirs(after) = Dirs(host[h])
    <3>1. after.content = host[h].content
      BY <1>1 DEF HostState
    <3>2. after \in HostState
      BY <1>1, <1>2 DEF HostState
    <3> QED
      BY <3>1, <3>2 DEF Dirs
  <2>4. Goto(o, h, Swapped(o)) \in Scripts /\ Goto(o, h, Swapped(o)).at = Swapped(o)
    BY <1>4, <1>8
  <2>5. Run(o, h, Goto(o, h, Swapped(o)), after) \/ Run(o, h, Goto(o, h, "unlink"), host[h])
    BY <1>25 DEF RenameTmp
  <2> HIDE DEF after
  <2>2. Fine(Goto(o, h, Swapped(o)), after) \/ Fine(Goto(o, h, "unlink"), host[h])
    BY <1>1, <1>4, <1>7, <2>1, <2>3, <2>4, <2>5 DEF Line
  <2> QED
    BY <1>3, <2>2
<1>26. CASE Unlink(o, h)
  <2>1. pc[o] \in {"publish", "rollback"}
    BY <1>3, <1>26 DEF Unlink, At, Line
  <2>2. Fine(Goto(o, h, "move"), [host[h] EXCEPT !.current = NoRelease])
    BY <1>1, <1>2, <1>4, <1>7, <1>26, <2>1, HostUpdate, DirsUpdate DEF Unlink, Line
  <2> QED
    BY <1>3, <2>2
<1>27. CASE MoveTmp(o, h)
  <2> DEFINE link == IF host[h].current \in Dirs(host[h]) THEN host[h].current ELSE host[h].tmp
  <2>1. Line(Swapped(o), pc[o]) /\ link \in Link
    BY <1>2, <1>3, <1>24, <1>27 DEF MoveTmp, At
  <2> DEFINE after == [host[h] EXCEPT !.current = link, !.tmp = NoRelease]
  <2>3. after \in HostState /\ Dirs(after) = Dirs(host[h])
    <3>1. after.content = host[h].content
      BY <1>1 DEF HostState
    <3>2. after \in HostState
      BY <1>1, <1>2, <2>1 DEF HostState
    <3> QED
      BY <3>1, <3>2 DEF Dirs
  <2>4. Goto(o, h, Swapped(o)) \in Scripts /\ Goto(o, h, Swapped(o)).at = Swapped(o)
    BY <1>4, <1>8
  <2>5. Run(o, h, Goto(o, h, Swapped(o)), after)
    BY <1>27 DEF MoveTmp
  <2> HIDE DEF after
  <2>2. Fine(Goto(o, h, Swapped(o)), after)
    BY <1>1, <2>1, <2>3, <2>4, <2>5
  <2> QED
    BY <1>3, <2>2
<1>28. \A r : \A t \in Removals(host[h], r) : t \in HostState /\ IsFiniteSet(Dirs(t))
  BY <1>1, HostUpdate, DirsUpdate, FS_Subset
<1>29. CASE RemoveFrom(o, h)
  <2>1. PICK after \in Removals(host[h], script[o][h].from) :
           \/ Run(o, h, script[o][h], after)
           \/ Run(o, h, Goto(o, h, "done"), after)
    BY <1>29 DEF RemoveFrom
  <2>2. Fine(script[o][h], after) \/ Fine(Goto(o, h, "done"), after)
    BY <1>1, <1>3, <1>4, <1>7, <1>9, <1>28, <2>1
  <2> QED
    BY <1>1, <1>3, <2>2
<1>30. CASE CountReleases(o, h)
  <2> DEFINE k == Cardinality(Dirs(host[h])) - KeepReleases
  <2>1. pc[o] = "cleanup" /\ k \in Int
    BY <1>1, <1>3, <1>30, FS_CardinalityType, DeployAssumption DEF CountReleases, At, Line
  <2>2. \/ k \in Nat /\ Run(o, h, [Goto(o, h, "list") EXCEPT !.n = k], host[h])
        \/ Run(o, h, Goto(o, h, "done"), host[h])
    BY <1>30, <2>1 DEF CountReleases
  <2> HIDE DEF k
  <2>3. (k \in Nat /\ Fine([Goto(o, h, "list") EXCEPT !.n = k], host[h]))
        \/ Fine(Goto(o, h, "done"), host[h])
    BY <1>1, <1>4, <1>7, <1>9, <2>1, <2>2 DEF Line
  <2> QED
    BY <1>3, <2>3
<1>31. CASE ListOldest(o, h)
  <2> DEFINE g == Oldest(host[h], script[o][h].n)
             p == IF g = {} THEN "done" ELSE "prune"
  <2>1. pc[o] = "cleanup"
    BY <1>3, <1>31 DEF ListOldest, At, Line
  <2>2. g \in SUBSET Nat /\ p \in Places /\ Line(p, pc[o])
    BY <1>1, <1>7, <2>1 DEF Oldest, Line
  <2>3. Run(o, h, [Goto(o, h, p) EXCEPT !.gone = g], host[h])
    BY <1>31 DEF ListOldest, Listed
  <2> HIDE DEF g, p
  <2>4. Fine([Goto(o, h, p) EXCEPT !.gone = g], host[h])
    BY <1>1, <1>4, <2>2, <2>3
  <2> QED
    BY <1>3, <2>4
<1>32. CASE Prune(o, h)
  <2> DEFINE gone == script[o][h].gone
             r == CHOOSE q \in gone : \A p \in gone : q <= p
             p == IF gone = {r} THEN "done" ELSE "prune"
  <2>1. pc[o] = "cleanup" /\ gone \in SUBSET Nat
    BY <1>1, <1>3, <1>32 DEF Prune, At, Line, Scripts
  <2>2. gone \ {r} \in SUBSET Nat /\ p \in Places /\ Line(p, pc[o])
    BY <1>7, <2>1 DEF Line
  <2>3. \/ \E after \in Removals(host[h], r) :
              \/ Run(o, h, script[o][h], after)
              \/ Run(o, h, [Goto(o, h, p) EXCEPT !.gone = gone \ {r}], after)
        \/ Run(o, h, [Goto(o, h, p) EXCEPT !.gone = gone \ {r}], host[h])
    BY <1>32 DEF Prune
  <2> HIDE DEF gone, r, p
  <2>4. \E after \in Removals(host[h], r) \cup {host[h]} :
              \/ Fine(script[o][h], after)
              \/ Fine([Goto(o, h, p) EXCEPT !.gone = gone \ {r}], after)
    BY <1>1, <1>3, <1>4, <1>28, <2>2, <2>3
  <2> QED
    BY <1>1, <1>3, <1>4, <1>28, <2>2, <2>4
<1> QED
  BY <1>10, <1>11, <1>12, <1>15, <1>16, <1>17, <1>18, <1>19, <1>20, <1>21, <1>22, <1>23,
     <1>25, <1>26, <1>27, <1>29, <1>30, <1>31, <1>32 DEF Works

LEMMA TypeWorks ==
    ASSUME TypeInv, NEW o \in Operators, NEW h \in Hosts, Works(o, h)
    PROVE  TypeInv'
  BY WorksRun, RunType

\* What an answer does: the script is over, its host is left as it is.
LEMMA AnswersReply ==
    ASSUME NEW o \in Operators, NEW h \in Hosts, Answers(o, h)
    PROVE  \E result \in {"ok", "failed", "lost", "canceled"} :
              Reply(o, h, result) /\ (result = "ok" => At(o, h, "done"))
  BY DEF Answers, Succeeds, Fails, Loses, Abandons

\* A step that changes nothing but replies and scripts of o, and where o's scripts
\* that run are at lines of their command.
LEMMA TypeTalks ==
    ASSUME TypeInv, NEW o \in Operators, UNCHANGED <<host, pc, local>>,
           NEW replies \in [Hosts -> Results], NEW scripts \in [Hosts -> Scripts],
           res' = [res EXCEPT ![o] = replies], script' = [script EXCEPT ![o] = scripts],
           pc[o] \in Commands,
           \A h \in Hosts : replies[h] = "sent" => Line(scripts[h].at, pc[o])
    PROVE  TypeInv'
<1> USE DEF TypeInv, TypeOK
<1>1. TypeOK'
  BY DEF local
<1>2. Roles'
  BY DEF Roles, local
<1>3. Scripted'
  <2>1. \A p \in Operators : \A h \in Hosts : res'[p][h] = "sent" => Line(script'[p][h].at, pc'[p])
    BY DEF Scripted
  <2>2. \A p \in Operators : pc'[p] \notin Commands => res'[p] = NoResults
    BY DEF Scripted
  <2>3. \A h \in Hosts : IsFiniteSet(Dirs(host'[h]))
    BY DEF Scripted
  <2> QED
    BY <2>1, <2>2, <2>3 DEF Scripted, Dirs
<1> QED
  BY <1>1, <1>2, <1>3

LEMMA TypeAnswers ==
    ASSUME TypeInv, NEW o \in Operators, NEW h \in Hosts, Answers(o, h)
    PROVE  TypeInv'
<1> USE DEF TypeInv, TypeOK
<1>1. PICK result \in {"ok", "failed", "lost", "canceled"} : Reply(o, h, result)
  BY AnswersReply
<1> DEFINE replies == [res[o] EXCEPT ![h] = result]
           scripts == [script[o] EXCEPT ![h] = NoScript]
<1>2. res[o] \in [Hosts -> Results] /\ script[o] \in [Hosts -> Scripts]
  OBVIOUS
<1>3. replies \in [Hosts -> Results] /\ scripts \in [Hosts -> Scripts]
  <2>1. result \in Results /\ NoScript \in Scripts
    BY DEF Results, NoScript, Scripts, Places, Link
  <2> QED
    BY <1>2, <2>1
<1>4. res' = [res EXCEPT ![o] = replies] /\ script' = [script EXCEPT ![o] = scripts]
      /\ UNCHANGED <<host, pc, local>> /\ res[o][h] = "sent"
  BY <1>1 DEF Reply
<1>5. pc[o] \in Commands
  <2>1. res[o] # NoResults
    BY <1>4 DEF NoResults
  <2> QED
    BY <2>1 DEF Scripted
<1>6. \A g \in Hosts : replies[g] = "sent" => Line(scripts[g].at, pc[o])
  BY <1>2 DEF Scripted
<1> HIDE DEF replies, scripts
<1> QED
  BY <1>3, <1>4, <1>5, <1>6, TypeTalks

LEMMA TypeSend ==
    ASSUME TypeInv, NEW o \in Operators, Send(o)
    PROVE  TypeInv'
<1> USE DEF TypeInv, TypeOK
<1> DEFINE sent == IF canceled[o] /\ pc[o] # "unlock" THEN {} ELSE StepHosts(o)
           first == [NoScript EXCEPT !.at = Begin(pc[o])]
           replies == [h \in Hosts |-> IF h \in sent THEN "sent"
                                       ELSE IF h \in StepHosts(o) THEN "canceled" ELSE "idle"]
           scripts == [h \in Hosts |-> IF h \in sent THEN first ELSE NoScript]
<1>1. NoScript \in Scripts
  BY DEF NoScript, Scripts, Places, Link
<1>2. Begin(pc[o]) \in Places /\ Line(Begin(pc[o]), pc[o])
  BY DEF Begin, Places, Line
<1>3. first \in Scripts /\ first.at = Begin(pc[o])
  BY <1>1, <1>2 DEF Scripts
<1> HIDE DEF first
<1>4. replies \in [Hosts -> Results] /\ scripts \in [Hosts -> Scripts]
  BY <1>1, <1>3 DEF Results
<1>5. res' = [res EXCEPT ![o] = replies] /\ script' = [script EXCEPT ![o] = scripts]
      /\ UNCHANGED <<host, pc, local>> /\ pc[o] \in Commands
  BY DEF Send, first
<1>6. \A h \in Hosts : replies[h] = "sent" => Line(scripts[h].at, pc[o])
  BY <1>2, <1>3
<1> HIDE DEF replies, scripts
<1> QED
  BY <1>4, <1>5, <1>6, TypeTalks

\* Between two commands nothing runs; what remains is the control of o.
LEMMA TypeBetween ==
    ASSUME TypeInv, NEW o \in Operators, UNCHANGED <<host, script>>, TypeOK', Roles',
           \A p \in Operators \ {o} : pc'[p] = pc[p] /\ res'[p] = res[p],
           res'[o] = NoResults
    PROVE  TypeInv'
<1>1. \A h \in Hosts : res'[o][h] # "sent"
  BY DEF NoResults
<1>2. Scripted'
  <2>1. \A p \in Operators : \A h \in Hosts : res'[p][h] = "sent" => Line(script'[p][h].at, pc'[p])
    BY <1>1 DEF TypeInv, Scripted
  <2>2. \A p \in Operators : pc'[p] \notin Commands => res'[p] = NoResults
    BY DEF TypeInv, Scripted
  <2> QED
    BY <2>1, <2>2 DEF TypeInv, Scripted, Dirs
<1> QED
  BY <1>2 DEF TypeInv

LEMMA TypeJudges ==
    ASSUME TypeInv, NEW o \in Operators,
           Advance(o) \/ StopStep(o) \/ HookFails(o) \/ Finish(o) \/ Notified(o) \/ Unlocked(o)
    PROVE  TypeInv'
<1>1. NoResults \in [Hosts -> Results]
  BY DEF NoResults, Results
<1>2. UNCHANGED <<host, script, rel>> /\ res'[o] = NoResults /\ pc[o] # "idle"
      /\ \A p \in Operators \ {o} : pc'[p] = pc[p] /\ res'[p] = res[p]
  <2>1. "finished" \notin Commands /\ "notify" \notin Commands /\ "idle" \notin Commands
    BY DEF Commands, Following
  <2> QED
    BY <2>1 DEF Advance, StopStep, HookFails, Failed, AtHooks, Finish, Notified, Unlocked, local,
                TypeInv, TypeOK, Scripted
<1>3. CASE Advance(o)
  <2> DEFINE next == IF pc[o] = "sha" /\ Bad(o) # {} THEN "sha" ELSE Following[pc[o]]
  <2>1. pc[o] \in Commands /\ pc[o] # "unlock"
    BY <1>3 DEF Advance
  <2>2. next \in Commands \cup {"finished", "ended"} /\ next \notin {"rollback", "clear"}
    BY <2>1 DEF Commands, Following
  <2>3. pc' = [pc EXCEPT ![o] = next]
    BY <1>3 DEF Advance, TypeInv, TypeOK
  <2>4. next \in DeployCommands \cup {"notify"} => pc[o] \in DeployCommands
    BY <2>1, CommandTable DEF DeployCommands
  <2> HIDE DEF next
  <2>5. Bad(o) \subseteq Hosts
    BY DEF Bad
  <2>6. TypeOK'
    BY <1>1, <1>3, <2>2, <2>3, <2>5 DEF Advance, TypeInv, TypeOK
  <2>7. Roles'
    <3>1. pc[o] = "lock" => o \in Deployers
      BY DEF TypeInv, Roles, DeployCommands
    <3>2. \A p \in Operators : /\ pc'[p] \in DeployCommands \cup {"notify"} => p \in Deployers
                               /\ pc'[p] = "rollback" => p \in Rollbackers
                               /\ pc'[p] = "clear" => p \in Unlockers
      BY <2>2, <2>3, <2>4 DEF TypeInv, TypeOK, Roles
    <3>3. \A d \in Deployers : pc'[d] # "idle" => rel'[d] \in Nat
      BY <1>2, <2>3, OperatorKinds DEF TypeInv, TypeOK, Roles
    <3>4. \A p \in Operators : locked'[p] => p \in Deployers
      BY <1>3, <3>1 DEF Advance, TypeInv, TypeOK, Roles
    <3> QED
      BY <3>2, <3>3, <3>4 DEF Roles
  <2> QED
    BY <1>2, <2>6, <2>7, TypeBetween
<1>4. CASE StopStep(o) \/ HookFails(o)
  <2>1. Failed(o)
    BY <1>4 DEF StopStep, HookFails
  <2>2. TypeOK' /\ Roles'
    BY <1>1, <1>2, <2>1 DEF Failed, TypeInv, TypeOK, Roles, DeployCommands
  <2> QED
    BY <1>2, <2>2, TypeBetween
<1>5. CASE Finish(o)
  <2>1. TypeOK' /\ Roles'
    BY <1>5 DEF Finish, TypeInv, TypeOK, Roles, DeployCommands, Commands, Following
  <2> QED
    BY <1>2, <2>1, TypeBetween
<1>6. CASE Notified(o)
  <2>1. TypeOK' /\ Roles'
    BY <1>6 DEF Notified, local, TypeInv, TypeOK, Roles, DeployCommands, Commands, Following
  <2> QED
    BY <1>2, <2>1, TypeBetween
<1>7. CASE Unlocked(o)
  <2>1. TypeOK' /\ Roles'
    BY <1>1, <1>7 DEF Unlocked, local, TypeInv, TypeOK, Roles, DeployCommands
  <2> QED
    BY <1>2, <2>1, TypeBetween
<1> QED
  BY <1>3, <1>4, <1>5, <1>6, <1>7

LEMMA TypeStarts ==
    ASSUME TypeInv, NEW o \in Operators,
           \/ o \in Deployers /\ StartDeploy(o)
           \/ o \in Rollbackers /\ StartRollback(o)
           \/ o \in Unlockers /\ StartUnlock(o)
    PROVE  TypeInv'
<1>0. {"lock", "rollback", "clear"} \subseteq Commands /\ "idle" \notin Commands
  BY DEF Commands, Following
<1>1. UNCHANGED <<host, script>> /\ res'[o] = NoResults
      /\ \A p \in Operators \ {o} : pc'[p] = pc[p] /\ res'[p] = res[p]
  BY <1>0 DEF StartDeploy, StartRollback, StartUnlock, TypeInv, TypeOK, Scripted
<1>2. TypeOK' /\ Roles'
  <2> USE OperatorKinds, DeployAssumption DEF TypeInv, TypeOK, Roles, local
  <2>1. CASE o \in Deployers /\ StartDeploy(o)
    BY <1>0, <2>1 DEF StartDeploy
  <2>2. CASE o \in Rollbackers /\ StartRollback(o)
    BY <1>0, <2>2 DEF StartRollback, DeployCommands
  <2>3. CASE o \in Unlockers /\ StartUnlock(o)
    BY <1>0, <2>3 DEF StartUnlock, DeployCommands
  <2> QED
    BY <2>1, <2>2, <2>3
<1> QED
  BY <1>1, <1>2, TypeBetween

LEMMA TypeMishaps ==
    ASSUME TypeInv, NEW o \in Operators,
           \/ Cancel(o) \/ Crash(o)
           \/ o \in Deployers /\ \E h \in Hosts : HookDrops(o, h)
    PROVE  TypeInv'
<1>1. CASE Cancel(o) \/ \E h \in Hosts : HookDrops(o, h)
  <2>1. UNCHANGED <<host, pc, res, script, locked, rel, verdict>>
    BY <1>1 DEF Cancel, HookDrops
  <2>2. dropped' \in [Operators -> SUBSET Hosts] /\ canceled' \in [Operators -> BOOLEAN]
    <3>1. CASE Cancel(o)
      BY <3>1 DEF Cancel, TypeInv, TypeOK
    <3>2. ASSUME NEW h \in Hosts, HookDrops(o, h)
          PROVE  dropped' = [dropped EXCEPT ![o] = @ \cup {h}] /\ canceled' = canceled
      BY <3>2 DEF HookDrops
    <3>3. CASE \E h \in Hosts : HookDrops(o, h)
      <4>1. PICK h \in Hosts : dropped' = [dropped EXCEPT ![o] = @ \cup {h}] /\ canceled' = canceled
        BY <3>2, <3>3
      <4>2. dropped \in [Operators -> SUBSET Hosts] /\ canceled \in [Operators -> BOOLEAN]
        BY DEF TypeInv, TypeOK
      <4> QED
        BY <4>1, <4>2
    <3> QED
      BY <1>1, <3>1, <3>3
  <2>3. TypeOK' /\ Roles'
    BY <2>1, <2>2 DEF TypeInv, TypeOK, Roles
  <2>4. Scripted'
    BY <2>1 DEF TypeInv, Scripted, Dirs
  <2> QED
    BY <2>3, <2>4 DEF TypeInv
<1>2. CASE Crash(o)
  <2>1. NoResults \in [Hosts -> Results] /\ NoScripts \in [Hosts -> Scripts]
    BY DEF NoResults, Results, NoScripts, NoScript, Scripts, Places, Link
  <2>2. pc' = [pc EXCEPT ![o] = "crashed"] /\ res' = [res EXCEPT ![o] = NoResults]
        /\ script' = [script EXCEPT ![o] = NoScripts]
        /\ UNCHANGED <<host, local>> /\ pc[o] # "idle"
    BY <1>2 DEF Crash, Running
  <2>3. TypeOK' /\ Roles'
    BY <2>1, <2>2 DEF local, TypeInv, TypeOK, Roles, DeployCommands
  <2>4. \A p \in Operators : \A h \in Hosts : res'[p][h] = "sent" => Line(script'[p][h].at, pc'[p])
    BY <2>2 DEF TypeInv, TypeOK, Scripted, NoResults
  <2>5. \A p \in Operators : pc'[p] \notin Commands => res'[p] = NoResults
    BY <2>2 DEF TypeInv, TypeOK, Scripted
  <2>6. Scripted'
    BY <2>2, <2>4, <2>5 DEF TypeInv, Scripted, Dirs
  <2> QED
    BY <2>3, <2>6 DEF TypeInv
<1> QED
  BY <1>1, <1>2

LEMMA TypeStep == TypeInv /\ [Next]_vars => TypeInv'
<1> SUFFICES ASSUME TypeInv, [Next]_vars PROVE TypeInv'
  OBVIOUS
<1>1. CASE UNCHANGED vars
  BY <1>1 DEF vars, local, TypeInv, TypeOK, Roles, Scripted, Dirs
<1>2. CASE Next
  BY <1>2, OperatorKinds, TypeStarts, TypeSend, TypeWorks, TypeAnswers, TypeJudges, TypeMishaps
     DEF Next, Proceed
<1> QED
  BY <1>1, <1>2

\* Every reachable state is well typed, whatever the hosts, the filters, the
\* operators and the faults (deploy.go:40-52, 121-290).
THEOREM TypeCorrect == Spec => []TypeOK
<1>1. TypeInv => TypeOK
  BY DEF TypeInv
<1> QED
  BY TypeInit, TypeStep, <1>1, PTL DEF Spec

\* Where a script runs, nothing else happens.
LEMMA WorksElsewhere ==
    ASSUME TypeInv, NEW o \in Operators, NEW h \in Hosts, Works(o, h)
    PROVE  /\ res[o][h] = "sent" /\ pc' = pc /\ res' = res /\ UNCHANGED local
           /\ \A g \in Hosts \ {h} : host'[g] = host[g] /\ script'[o][g] = script[o][g]
           /\ \A p \in Operators \ {o} : script'[p] = script[p]
           /\ host[h] \in HostState /\ host'[h] \in HostState
           /\ script[o][h] \in Scripts /\ script'[o][h] \in Scripts
           /\ script[o][h].at \notin {"none", "done"} /\ Line(script[o][h].at, pc[o])
<1> USE DEF TypeInv, TypeOK
<1>1. PICK next \in Scripts, after \in HostState : Run(o, h, next, after) /\ res[o][h] = "sent"
  BY WorksRun
<1>2. script[o][h].at \notin {"none", "done"}
  BY DEF Works, At, Open, WriteInfo, RemoveLock, TestRelease, MakeRelease, Unpack, WriteRevision,
         LinkShared, ReadCurrent, FindCurrent, FindPrevious, RemoveTmp, LinkTmp, RenameTmp, Unlink,
         MoveTmp, RemoveFrom, CountReleases, ListOldest, Prune
<1> QED
  BY <1>1, <1>2 DEF Run, Scripted

\* The swap, line by line (publish.sh.tmpl, rollback.sh.tmpl:12-14): only the two
\* links of the host change.
LinkStep(o, h) ==
    LET s == host[h]  t == host'[h]  next == script'[o][h].at
    IN  \/ At(o, h, "untmp") /\ next = "ln" /\ t.tmp = NoRelease /\ t.current = s.current
        \/ /\ At(o, h, "ln") /\ next = "mv" /\ s.tmp = NoRelease
           /\ t.tmp = Target(o, h) /\ t.current = s.current
        \/ At(o, h, "ln") /\ next = "mv" /\ t.tmp = s.tmp /\ t.current = s.current
        \/ /\ At(o, h, "mv") /\ next = Swapped(o) /\ s.tmp # NoRelease
           /\ t.current = s.tmp /\ t.tmp = NoRelease
        \/ At(o, h, "mv") /\ next = "unlink" /\ t.tmp = s.tmp /\ t.current = s.current
        \/ At(o, h, "unlink") /\ next = "move" /\ t.current = NoRelease /\ t.tmp = s.tmp
        \/ /\ At(o, h, "move") /\ next = Swapped(o) /\ s.tmp # NoRelease /\ t.tmp = NoRelease
           /\ t.current = IF s.current \in Dirs(s) THEN s.current ELSE s.tmp

LEMMA LinkFrame ==
    ASSUME TypeInv, NEW o \in Operators, NEW h \in Hosts,
           \/ RemoveTmp(o, h) \/ LinkTmp(o, h) \/ RenameTmp(o, h)
           \/ Unlink(o, h) \/ MoveTmp(o, h)
    PROVE  /\ LinkStep(o, h)
           /\ host'[h].lock = host[h].lock /\ host'[h].content = host[h].content
           /\ script'[o][h] = Goto(o, h, script'[o][h].at)
<1> DEFINE s == host[h]
           link == IF s.current \in Dirs(s) THEN s.current ELSE s.tmp
           Becomes(p, current, tmp) ==
             /\ script'[o][h] = Goto(o, h, p) /\ script'[o][h].at = p
             /\ host'[h].current = current /\ host'[h].tmp = tmp
             /\ host'[h].lock = s.lock /\ host'[h].content = s.content
<1>1. s \in HostState /\ script[o][h] \in Scripts
  BY DEF TypeInv, TypeOK
<1>2. ASSUME NEW next, NEW after, Run(o, h, next, after)
      PROVE  host'[h] = after /\ script'[o][h] = next
  BY <1>2 DEF Run, TypeInv, TypeOK
<1>3. \A p : Goto(o, h, p).at = p
  BY <1>1 DEF Goto, Scripts
<1>4. ASSUME NEW p, NEW r, NEW q, Run(o, h, Goto(o, h, p), [s EXCEPT !.current = r, !.tmp = q])
      PROVE  Becomes(p, r, q)
  <2>1. host'[h] = [s EXCEPT !.current = r, !.tmp = q] /\ script'[o][h] = Goto(o, h, p)
    BY <1>2, <1>4
  <2> QED
    BY <1>1, <1>3, <2>1 DEF HostState
<1>5. ASSUME NEW p, NEW q, Run(o, h, Goto(o, h, p), [s EXCEPT !.tmp = q])
      PROVE  Becomes(p, s.current, q)
  <2>1. host'[h] = [s EXCEPT !.tmp = q] /\ script'[o][h] = Goto(o, h, p)
    BY <1>2, <1>5
  <2> QED
    BY <1>1, <1>3, <2>1 DEF HostState
<1>6. ASSUME NEW p, NEW r, Run(o, h, Goto(o, h, p), [s EXCEPT !.current = r])
      PROVE  Becomes(p, r, s.tmp)
  <2>1. host'[h] = [s EXCEPT !.current = r] /\ script'[o][h] = Goto(o, h, p)
    BY <1>2, <1>6
  <2> QED
    BY <1>1, <1>3, <2>1 DEF HostState
<1>7. ASSUME NEW p, Run(o, h, Goto(o, h, p), s)
      PROVE  Becomes(p, s.current, s.tmp)
  BY <1>2, <1>3, <1>7
<1>8. CASE RemoveTmp(o, h)
  <2>1. Becomes("ln", s.current, NoRelease)
    BY <1>5, <1>8 DEF RemoveTmp
  <2> QED
    BY <1>8, <2>1 DEF RemoveTmp, LinkStep
<1>9. CASE LinkTmp(o, h)
  <2>1. \/ s.tmp = NoRelease /\ Becomes("mv", s.current, Target(o, h))
        \/ Becomes("mv", s.current, s.tmp)
    <3>1. \/ s.tmp = NoRelease /\ Run(o, h, Goto(o, h, "mv"), [s EXCEPT !.tmp = Target(o, h)])
          \/ Run(o, h, Goto(o, h, "mv"), s)
      BY <1>9 DEF LinkTmp
    <3> HIDE DEF Becomes
    <3> QED
      BY <1>5, <1>7, <3>1
  <2> QED
    BY <1>9, <2>1 DEF LinkTmp, LinkStep
<1>10. CASE RenameTmp(o, h)
  <2>1. \/ s.tmp # NoRelease /\ Becomes(Swapped(o), s.tmp, NoRelease)
        \/ Becomes("unlink", s.current, s.tmp)
    <3>1. \/ /\ s.tmp # NoRelease
             /\ Run(o, h, Goto(o, h, Swapped(o)), [s EXCEPT !.current = s.tmp, !.tmp = NoRelease])
          \/ Run(o, h, Goto(o, h, "unlink"), s)
      BY <1>10 DEF RenameTmp
    <3> HIDE DEF Becomes
    <3> QED
      BY <1>4, <1>7, <3>1
  <2> QED
    BY <1>10, <2>1 DEF RenameTmp, LinkStep
<1>11. CASE Unlink(o, h)
  <2>1. Becomes("move", NoRelease, s.tmp)
    BY <1>6, <1>11 DEF Unlink
  <2> QED
    BY <1>11, <2>1 DEF Unlink, LinkStep
<1>12. CASE MoveTmp(o, h)
  <2>1. s.tmp # NoRelease
        /\ Run(o, h, Goto(o, h, Swapped(o)), [s EXCEPT !.current = link, !.tmp = NoRelease])
    BY <1>12 DEF MoveTmp
  <2>2. Becomes(Swapped(o), link, NoRelease)
    BY <1>4, <2>1
  <2> QED
    BY <1>12, <2>1, <2>2 DEF MoveTmp, LinkStep
<1> QED
  BY <1>8, <1>9, <1>10, <1>11, <1>12

-----------------------------------------------------------------------------
(* The lock.                                                               *)

\* A lock command is out on the primary alone.
ReplyShape ==
    \A o \in Operators : \A h \in Hosts :
        pc[o] \in {"lock", "unlock", "clear"} /\ res[o][h] # "idle" => h = Primary(o)

\* `locked` is set by the answer to the lock command and not before, and a deploy
\* that has it clears no lock.
LockedLate == \A o \in Operators : locked[o] => pc[o] \notin {"idle", "lock", "clear"}

Shape == TypeInv /\ ReplyShape /\ LockedLate

LEMMA ShapeInit == Init => Shape
<1> SUFFICES ASSUME Init PROVE ReplyShape /\ LockedLate
  BY TypeInit DEF Shape
<1> QED
  BY DEF Init, ReplyShape, LockedLate, NoResults

\* Nobody else's control state changes when o moves.
OnlyMoves(o) ==
    \A p \in Operators \ {o} : /\ pc'[p] = pc[p] /\ res'[p] = res[p] /\ locked'[p] = locked[p]
                               /\ script'[p] = script[p]

\* A step that changes one operator keeps the shape if it does so for that one.
LEMMA ShapeOfOne ==
    ASSUME Shape, TypeInv', NEW o \in Operators, OnlyMoves(o),
           \A h \in Hosts : pc'[o] \in {"lock", "unlock", "clear"} /\ res'[o][h] # "idle"
                              => h = Primary(o),
           locked'[o] => pc'[o] \notin {"idle", "lock", "clear"}
    PROVE  Shape'
<1>1. ReplyShape'
  BY DEF Shape, ReplyShape, OnlyMoves, Primary
<1>2. LockedLate'
  BY DEF Shape, LockedLate, OnlyMoves
<1> QED
  BY <1>1, <1>2 DEF Shape

\* The script of o moves the lock file of h.
LockMove(o, h) ==
    /\ h = Primary(o)
    /\ \/ At(o, h, "open") /\ pc[o] = "lock" /\ host[h].lock = NoOwner /\ host'[h].lock = o
       \/ At(o, h, "rm") /\ pc[o] \in {"unlock", "clear"} /\ host'[h].lock = NoOwner

LockMoves(o) == \A h \in Hosts : host'[h].lock = host[h].lock \/ LockMove(o, h)

\* Only two lines touch the lock file: the noclobber redirect, which creates it
\* where there is none, and the removal (lock.sh.tmpl:2, unlock.sh.tmpl).
LEMMA LockFrame ==
    ASSUME TypeInv, NEW o \in Operators, NEW h \in Hosts, Works(o, h)
    PROVE  \/ /\ At(o, h, "open") /\ pc[o] = "lock" /\ host[h].lock = NoOwner
              /\ host'[h].lock = o /\ script'[o][h].at = "write"
           \/ /\ At(o, h, "write") /\ pc[o] = "lock"
              /\ host'[h].lock = host[h].lock /\ script'[o][h].at = "done"
           \/ /\ At(o, h, "rm") /\ pc[o] \in {"unlock", "clear"}
              /\ host'[h].lock = NoOwner /\ script'[o][h].at = "done"
           \/ pc[o] \notin {"lock", "unlock", "clear"} /\ host'[h].lock = host[h].lock
<1>1. /\ host[h] \in HostState /\ script[o][h] \in Scripts /\ Line(script[o][h].at, pc[o])
      /\ host \in [Hosts -> HostState] /\ script \in [Operators -> [Hosts -> Scripts]]
  BY WorksElsewhere DEF TypeInv, TypeOK
<1>2. CASE Open(o, h)
  BY <1>1, <1>2 DEF Open, At, Run, Goto, HostState, Scripts, Line
<1>3. CASE WriteInfo(o, h)
  BY <1>1, <1>3 DEF WriteInfo, At, Run, Goto, HostState, Scripts, Line
<1>4. CASE RemoveLock(o, h)
  BY <1>1, <1>4 DEF RemoveLock, At, Run, Goto, HostState, Scripts, Line
<1>5. CASE ~ (Open(o, h) \/ WriteInfo(o, h) \/ RemoveLock(o, h))
  <2>1. script[o][h].at \notin {"open", "write", "rm"}
    BY <1>5 DEF Works, At, TestRelease, MakeRelease, Unpack, WriteRevision,
         LinkShared, ReadCurrent, FindCurrent, FindPrevious, RemoveTmp, LinkTmp, RenameTmp, Unlink,
         MoveTmp, RemoveFrom, CountReleases, ListOldest, Prune
  <2>2. script[o][h].at \in Places \ {"none", "done"}
    BY <1>1, WorksElsewhere DEF Scripts
  <2>3. pc[o] \notin {"lock", "unlock", "clear"}
    BY <1>1, <2>1, <2>2 DEF Places, Line
  <2>4. /\ \A r : \A parts \in SUBSET Parts : With(host[h], r, parts).lock = host[h].lock
        /\ \A r : \A t \in Removals(host[h], r) : t.lock = host[h].lock
    BY <1>1 DEF HostState, With, Removals
  <2>5. {"dir"} \in SUBSET Parts /\ {"tree"} \in SUBSET Parts /\ {"revision"} \in SUBSET Parts
        /\ {"dir", "links"} \in SUBSET Parts
    BY DEF Parts
  <2>6. CASE MakeRelease(o, h) \/ Unpack(o, h) \/ WriteRevision(o, h) \/ LinkShared(o, h)
    BY <1>1, <2>3, <2>4, <2>5, <2>6 DEF MakeRelease, Unpack, WriteRevision, LinkShared, Run
  <2>7. CASE RemoveTmp(o, h) \/ LinkTmp(o, h) \/ RenameTmp(o, h) \/ Unlink(o, h) \/ MoveTmp(o, h)
    BY <2>3, <2>7, LinkFrame
  <2>8. CASE RemoveFrom(o, h) \/ Prune(o, h)
    <3>1. ASSUME NEW next, NEW after, Run(o, h, next, after) PROVE host'[h] = after
      BY <1>1, <3>1 DEF Run
    <3>2. CASE RemoveFrom(o, h)
      BY <2>3, <2>4, <3>1, <3>2 DEF RemoveFrom
    <3>3. CASE Prune(o, h)
      <4>1. host'[h] = host[h] \/ \E r : host'[h] \in Removals(host[h], r)
        BY <3>1, <3>3 DEF Prune
      <4> QED
        BY <2>3, <2>4, <4>1
    <3> QED
      BY <2>8, <3>2, <3>3
  <2>9. CASE TestRelease(o, h) \/ ReadCurrent(o, h) \/ FindCurrent(o, h) \/ FindPrevious(o, h)
             \/ CountReleases(o, h) \/ ListOldest(o, h)
    BY <1>1, <2>3, <2>9 DEF TestRelease, ReadCurrent, FindCurrent, FindPrevious,
       CountReleases, ListOldest, Listed, Run
  <2> QED
    BY <1>5, <2>6, <2>7, <2>8, <2>9 DEF Works
<1> QED
  BY <1>2, <1>3, <1>4, <1>5

\* What every step of o keeps to, as far as the lock is concerned: it moves only
\* its own control state and keeps the shape of it, wakes nobody who is over,
\* moves the lock file only with a lock command, comes to own a lock only by
\* having written it, and comes to clear one only when it looks stale.
Shapely(o) ==
    /\ \A h \in Hosts : pc'[o] \in {"lock", "unlock", "clear"} /\ res'[o][h] # "idle"
                         => h = Primary(o)
    /\ locked'[o] => pc'[o] \notin {"idle", "lock", "clear"}

Contract(o) ==
    /\ OnlyMoves(o)
    /\ LockMoves(o)
    /\ Shapely(o)
    /\ pc[o] \notin {"ended", "crashed"} /\ pc'[o] # "idle"
    /\ Owns(o)' =>
          \/ Owns(o) /\ host'[Primary(o)].lock = host[Primary(o)].lock
          \/ pc[o] = "lock" /\ host'[Primary(o)].lock = o
    /\ Clearing(o)' =>
          \/ Clearing(o) /\ host'[Primary(o)].lock = host[Primary(o)].lock
          \/ LooksStale(Primary(o)) /\ host' = host

\* A step between two commands, with nothing out: only pc and locked count.
LEMMA BetweenContract ==
    ASSUME Shape, NEW o \in Operators, host' = host, OnlyMoves(o),
           res'[o] = NoResults,
           pc[o] \notin {"ended", "crashed"}, pc'[o] # "idle",
           locked'[o] => pc'[o] \notin {"lock", "clear"},
           locked'[o] /\ pc'[o] \notin {"unlock", "ended", "crashed"} => Owns(o),
           pc'[o] = "unlock" => Owns(o),
           pc'[o] = "clear" => LooksStale(Primary(o))
    PROVE  Contract(o)
<1>1. \A h \in Hosts : res'[o][h] = "idle"
  BY DEF NoResults
<1>2. Shapely(o)
  BY <1>1 DEF Shapely
<1>3. Owns(o)' => Owns(o)
  <2>1. Primary(o) \in Hosts
    BY PrimaryIsTarget, DeployAssumption
  <2>2. res'[o][Primary(o)] = "idle"
    BY <1>1, <2>1
  <2>3. ~ Opened(o)'
    BY <2>2 DEF Opened, At, Primary
  <2> QED
    BY <2>3 DEF Owns, Inside, Primary
<1>4. Clearing(o)' => LooksStale(Primary(o))
  BY DEF Clearing
<1> QED
  BY <1>2, <1>3, <1>4 DEF Contract, LockMoves

\* A finished or idle operator owns nothing to begin with, so a start is quiet.
LEMMA StartContract ==
    ASSUME Shape, NEW o \in Operators,
           \/ o \in Deployers /\ StartDeploy(o)
           \/ o \in Rollbackers /\ StartRollback(o)
           \/ o \in Unlockers /\ StartUnlock(o)
    PROVE  Contract(o)
<1> USE DEF Shape, TypeInv, TypeOK
<1>1. pc[o] = "idle" /\ host' = host /\ res' = res /\ locked' = locked /\ script' = script
  BY DEF StartDeploy, StartRollback, StartUnlock, local
<1>2. "idle" \notin Commands
  BY DEF Commands, Following
<1>3. res'[o] = NoResults /\ ~locked'[o]
  BY <1>1, <1>2 DEF Scripted, LockedLate
<1>4. OnlyMoves(o) /\ pc'[o] \in {"lock", "rollback", "clear"}
      /\ (pc'[o] = "clear" => LooksStale(Primary(o)))
  BY <1>1 DEF StartDeploy, StartRollback, StartUnlock, OnlyMoves, local
<1> QED
  BY <1>1, <1>3, <1>4, BetweenContract

LEMMA JudgeContract ==
    ASSUME Shape, NEW o \in Operators,
           Advance(o) \/ StopStep(o) \/ HookFails(o)
    PROVE  Contract(o)
<1> USE DEF Shape, TypeInv, TypeOK
<1>1. host' = host /\ OnlyMoves(o) /\ res'[o] = NoResults
  BY DEF Advance, StopStep, HookFails, Failed, OnlyMoves
<1>2. CASE Advance(o)
  <2>1. pc[o] \in Commands \ {"unlock"} /\ pc'[o] = (IF pc[o] = "sha" /\ Bad(o) # {} THEN "sha" ELSE Following[pc[o]])
    BY <1>2 DEF Advance
  <2>2. pc'[o] \notin {"idle", "lock", "unlock", "clear"} /\ pc[o] \notin {"ended", "crashed"}
    BY <2>1 DEF Commands, Following
  <2>3. pc[o] = "lock" => Owns(o)
    <3>1. SUFFICES ASSUME pc[o] = "lock" PROVE res[o][Primary(o)] = "ok"
      BY DEF Owns, Opened
    <3>2. Bad(o) = {} /\ res[o] # NoResults /\ \A h \in Hosts : res[o][h] # "sent"
      BY <1>2, <3>1 DEF Advance, Returned, Passed, Tolerant
    <3>3. Primary(o) \in Hosts
      BY PrimaryIsTarget, DeployAssumption
    <3>4. res[o] \in [Hosts -> Results]
      OBVIOUS
    <3>5. \E h \in Hosts : res[o][h] # "idle"
      BY <3>2, <3>4 DEF NoResults
    <3>6. res[o][Primary(o)] # "idle"
      BY <3>1, <3>5 DEF ReplyShape
    <3>7. res[o][Primary(o)] \notin {"failed", "lost", "canceled"}
      BY <3>2, <3>3 DEF Bad
    <3> QED
      BY <3>2, <3>3, <3>4, <3>6, <3>7 DEF Results
  <2>4. locked'[o] => Owns(o)
    BY <1>2, <2>1, <2>2, <2>3 DEF Advance, Owns, Inside
  <2> QED
    BY <1>1, <2>2, <2>4, BetweenContract
<1>3. CASE StopStep(o) \/ HookFails(o)
  <2>1. pc'[o] \in {"notify", "ended"} /\ locked'[o] = locked[o]
    BY <1>3 DEF StopStep, HookFails, Failed
  <2>2. pc[o] \notin {"ended", "crashed", "unlock"}
    BY <1>3 DEF StopStep, HookFails, AtHooks, Commands, Following
  <2> QED
    BY <1>1, <2>1, <2>2, BetweenContract DEF Owns, Inside
<1> QED
  BY <1>2, <1>3

LEMMA EndContract ==
    ASSUME Shape, NEW o \in Operators,
           Finish(o) \/ Notified(o) \/ Unlocked(o)
    PROVE  Contract(o)
<1> USE DEF Shape, TypeInv, TypeOK
<1>1. host' = host /\ OnlyMoves(o) /\ locked' = locked
  BY DEF Finish, Notified, Unlocked, OnlyMoves, local
<1>2. pc[o] \in {"finished", "notify", "unlock"}
  BY DEF Finish, Notified, Unlocked
<1>3. res'[o] = NoResults
  <2>1. "finished" \notin Commands /\ "notify" \notin Commands /\ o \in Operators
    BY DEF Commands, Following
  <2> QED
    BY <2>1 DEF Finish, Notified, Unlocked, Scripted, local
<1>4. pc'[o] \in {"unlock", "ended"} /\ (pc'[o] = "unlock" => Owns(o))
  BY <1>2 DEF Finish, Notified, Unlocked, Owns, Inside, local
<1> QED
  BY <1>1, <1>2, <1>3, <1>4, BetweenContract

\* A step that leaves pc, locked and the hosts alone, and replies as they are
\* or turns "idle" into something else.
LEMMA SendContract ==
    ASSUME Shape, NEW o \in Operators, Send(o) \/ Cancel(o) \/ \E h \in Hosts : HookDrops(o, h)
    PROVE  Contract(o)
<1> USE DEF Shape, TypeInv, TypeOK
<1>1. host' = host /\ pc' = pc /\ locked' = locked /\ OnlyMoves(o)
  BY DEF Send, Cancel, HookDrops, OnlyMoves, local
<1>2. pc[o] \notin {"idle", "ended", "crashed"}
  BY DEF Send, Cancel, Running, HookDrops, AtHooks, Commands, Following
<1>3. Primary(o) \in Hosts
  BY PrimaryIsTarget
<1>4. CASE res' = res /\ script' = script
  <2>1. Owns(o)' => Owns(o)
    BY <1>1, <1>4 DEF Owns, Opened, Removing, At, Inside, Primary
  <2>2. Clearing(o)' => Clearing(o)
    BY <1>1, <1>4 DEF Clearing, Removing, At, Primary
  <2> QED
    BY <1>1, <1>2, <1>4, <2>1, <2>2 DEF Contract, LockMoves, Shapely, ReplyShape, LockedLate
<1>5. CASE Send(o)
  <2>1. pc[o] \in Commands /\ res[o] = NoResults
    BY <1>5 DEF Send
  <2>2. \A h \in Hosts : res[o][h] = "idle"
    BY <2>1 DEF NoResults
  <2>3. \A h \in Hosts : /\ res'[o][h] # "ok"
                         /\ h \notin StepHosts(o) => res'[o][h] = "idle"
                         /\ script'[o][h].at \in {"none", Begin(pc[o])}
    <3>1. script'[o] = [h \in Hosts |->
            IF h \in (IF canceled[o] /\ pc[o] # "unlock" THEN {} ELSE StepHosts(o))
            THEN [NoScript EXCEPT !.at = Begin(pc[o])] ELSE NoScript]
      BY <1>5 DEF Send
    <3>2. [NoScript EXCEPT !.at = Begin(pc[o])].at = Begin(pc[o]) /\ NoScript.at = "none"
      BY DEF NoScript
    <3>3. \A h \in Hosts : script'[o][h].at \in {"none", Begin(pc[o])}
      BY <3>1, <3>2
    <3>4. \A h \in Hosts : /\ res'[o][h] # "ok"
                           /\ h \notin StepHosts(o) => res'[o][h] = "idle"
      BY <1>5 DEF Send
    <3> QED
      BY <3>3, <3>4
  <2>4. pc[o] \in {"lock", "unlock", "clear"} => StepHosts(o) = {Primary(o)}
    BY DEF StepHosts
  <2>5. Shapely(o)
    <3>1. \A h \in Hosts : pc'[o] \in {"lock", "unlock", "clear"} /\ res'[o][h] # "idle"
                            => h = Primary(o)
      BY <1>1, <2>3, <2>4
    <3>2. locked'[o] => pc'[o] \notin {"idle", "lock", "clear"}
      BY <1>1 DEF LockedLate
    <3> QED
      BY <3>1, <3>2 DEF Shapely
  <2>6. Owns(o)' => Owns(o)
    <3>1. res'[o][Primary(o)] # "ok" /\ res[o][Primary(o)] = "idle"
      BY <1>3, <2>2, <2>3
    <3>2. pc[o] = "lock" => script'[o][Primary(o)].at \notin {"write", "done"}
      BY <1>3, <2>3 DEF Begin
    <3> QED
      BY <1>1, <3>1, <3>2 DEF Owns, Opened, Removing, At, Inside, Primary
  <2>7. Clearing(o)' => Clearing(o)
    BY <1>1, <1>3, <2>2 DEF Clearing, Removing, Primary
  <2> QED
    BY <1>1, <1>2, <2>5, <2>6, <2>7 DEF Contract, LockMoves
<1> QED
  BY <1>4, <1>5 DEF Cancel, HookDrops

\* A line of a script: a deploy comes to own the lock with the redirect, and what
\* is to be removed is not there any more once it is.
LEMMA WorksContract ==
    ASSUME Shape, NEW o \in Operators, NEW h \in Hosts, Works(o, h)
    PROVE  Contract(o)
<1> USE DEF Shape
<1>1. /\ res[o][h] = "sent" /\ pc' = pc /\ res' = res /\ locked' = locked
      /\ \A g \in Hosts \ {h} : host'[g] = host[g] /\ script'[o][g] = script[o][g]
      /\ OnlyMoves(o)
  BY WorksElsewhere DEF local, OnlyMoves
<1>2. pc[o] \in Commands
  BY <1>1 DEF TypeInv, Scripted, NoResults
<1>3. Primary(o) \in Hosts /\ (pc[o] \in {"lock", "unlock", "clear"} => h = Primary(o))
  BY <1>1, PrimaryIsTarget DEF ReplyShape
<1>4. Shapely(o) /\ pc[o] \notin {"idle", "ended", "crashed"}
  BY <1>1, <1>2, <1>3 DEF Shapely, ReplyShape, LockedLate, Commands, Following
<1>5. CASE At(o, h, "open") /\ pc[o] = "lock" /\ host[h].lock = NoOwner
           /\ host'[h].lock = o /\ script'[o][h].at = "write"
  BY <1>1, <1>3, <1>4, <1>5 DEF Contract, LockMoves, LockMove, Clearing
<1>6. CASE At(o, h, "write") /\ pc[o] = "lock" /\ host'[h].lock = host[h].lock
  <2>1. Owns(o)
    BY <1>3, <1>6 DEF Owns, Opened
  <2> QED
    BY <1>1, <1>3, <1>4, <1>6, <2>1 DEF Contract, LockMoves, Clearing
<1>7. CASE At(o, h, "rm") /\ pc[o] \in {"unlock", "clear"} /\ host'[h].lock = NoOwner
           /\ script'[o][h].at = "done"
  <2>1. ~ Owns(o)' /\ ~ Clearing(o)'
    BY <1>1, <1>3, <1>7 DEF Owns, Clearing, Removing, At, Inside, LockedLate, Primary
  <2> QED
    BY <1>1, <1>3, <1>4, <1>7, <2>1 DEF Contract, LockMoves, LockMove
<1>8. CASE pc[o] \notin {"lock", "unlock", "clear"} /\ host'[h].lock = host[h].lock
  <2>1. Owns(o)' => Owns(o)
    BY <1>1, <1>8 DEF Owns, Inside, Primary
  <2>2. ~ Clearing(o)'
    BY <1>1, <1>8 DEF Clearing
  <2> QED
    BY <1>1, <1>3, <1>4, <1>8, <2>1, <2>2 DEF Contract, LockMoves
<1> QED
  BY <1>5, <1>6, <1>7, <1>8, LockFrame

\* An answer changes nothing on the hosts, and only a command that came to its end
\* is answered well.
LEMMA AnswersContract ==
    ASSUME Shape, NEW o \in Operators, NEW h \in Hosts, Answers(o, h)
    PROVE  Contract(o)
<1> USE DEF Shape, TypeInv, TypeOK
<1>1. PICK result \in {"ok", "failed", "lost", "canceled"} :
        Reply(o, h, result) /\ (result = "ok" => At(o, h, "done"))
  BY AnswersReply
<1>2. res' = [res EXCEPT ![o][h] = result] /\ res[o][h] = "sent" /\ pc' = pc /\ locked' = locked
      /\ host' = host /\ script' = [script EXCEPT ![o][h] = NoScript] /\ OnlyMoves(o)
  BY <1>1 DEF Reply, local, OnlyMoves
<1>3. pc[o] \in Commands
  BY <1>2 DEF Scripted, NoResults
<1>4. Primary(o) \in Hosts /\ (pc[o] \in {"lock", "unlock", "clear"} => h = Primary(o))
  BY <1>2, PrimaryIsTarget DEF ReplyShape
<1>5. Shapely(o) /\ pc[o] \notin {"idle", "ended", "crashed"}
  BY <1>2, <1>3, <1>4 DEF Shapely, ReplyShape, LockedLate, Commands, Following
<1>6. pc[o] \in {"lock", "unlock", "clear"} => res'[o][Primary(o)] = result
  BY <1>2, <1>4
<1>7. ~ Clearing(o)'
  BY <1>2, <1>6 DEF Clearing, Removing, At, Primary
<1>8. Owns(o)' => Owns(o)
  <2>1. CASE pc[o] = "lock"
    BY <1>1, <1>2, <1>4, <1>6, <2>1 DEF Owns, Opened, At, Inside, Primary, LockedLate
  <2>2. CASE pc[o] # "lock"
    BY <1>2, <1>6, <2>2 DEF Owns, Removing, At, Inside, Primary
  <2> QED
    BY <2>1, <2>2
<1> QED
  BY <1>2, <1>5, <1>7, <1>8 DEF Contract, LockMoves

LEMMA CrashContract ==
    ASSUME Shape, NEW o \in Operators, Crash(o)
    PROVE  Contract(o)
<1> USE DEF Shape, TypeInv, TypeOK
<1>1. OnlyMoves(o) /\ pc'[o] = "crashed" /\ res'[o] = NoResults /\ locked' = locked /\ host' = host
  BY DEF Crash, OnlyMoves, local
<1>2. Shapely(o) /\ ~ Owns(o)' /\ ~ Clearing(o)'
  BY <1>1 DEF Shapely, Owns, Inside, Clearing
<1>3. pc[o] \notin {"ended", "crashed"}
  BY DEF Crash, Running
<1> QED
  BY <1>1, <1>2, <1>3 DEF Contract, LockMoves

\* No two people clear locks of one primary at the same time.
LoneUnlocker == \A u, v \in Unlockers : Primary(u) = Primary(v) => u = v

\* A lock that looks stale stays so until it is removed: its owner is over.
LEMMA StaleStays ==
    ASSUME Shape, LockInv, NEW o \in Operators, Contract(o), NEW h \in Hosts,
           LooksStale(h), host'[h].lock = host[h].lock
    PROVE  LooksStale(h)'
<1> DEFINE d == host[h].lock
<1>1. d \in Deployers /\ d \in Operators
  BY OperatorKinds DEF LooksStale, Shape, TypeInv, TypeOK, HostState
<1>2. pc[d] \in {"ended", "crashed"}
  BY <1>1 DEF LooksStale, Running, LockInv
<1>3. pc'[d] = pc[d]
  BY <1>1, <1>2 DEF Contract, OnlyMoves
<1> QED
  BY <1>1, <1>2, <1>3 DEF LooksStale, Running

\* A deploy that owns its lock is running.
LEMMA OwnerRuns ==
    ASSUME Shape, NEW d \in Deployers, Owns(d)
    PROVE  Running(d)
BY OperatorKinds DEF Owns, Inside, Running, Shape, LockedLate

\* A command that is about to take a lock file away takes its own, or a stale one.
LEMMA RemovesOwn ==
    ASSUME Shape, LockInv, NEW o \in Operators, NEW h \in Hosts, LockMove(o, h)
    PROVE  \/ pc[o] = "lock" /\ host[h].lock = NoOwner /\ host'[h].lock = o
           \/ pc[o] = "unlock" /\ host[h].lock = o /\ o \in Deployers /\ Running(o)
           \/ pc[o] = "clear" /\ LooksStale(h) /\ o \in Unlockers
<1>1. CASE pc[o] = "lock"
  BY <1>1 DEF LockMove
<1>2. CASE pc[o] = "unlock"
  <2>1. o \in Deployers
    BY <1>2 DEF Shape, TypeInv, Roles, DeployCommands
  <2>2. Owns(o)
    BY <1>2 DEF LockMove, Owns, Removing
  <2> QED
    BY <1>2, <2>1, <2>2, OwnerRuns DEF LockInv, LockMove
<1>3. CASE pc[o] = "clear"
  <2>1. o \in Unlockers /\ Clearing(o) /\ h = Primary(o)
    BY <1>3 DEF LockMove, Clearing, Removing, Shape, TypeInv, Roles
  <2> QED
    BY <1>3, <2>1 DEF LockInv
<1> QED
  BY <1>1, <1>2, <1>3 DEF LockMove

\* The lock invariant survives every step that keeps the contract.
LEMMA ContractKeepsLock ==
    ASSUME LoneUnlocker, Shape, LockInv, NEW o \in Operators, Contract(o)
    PROVE  LockInv'
<1>1. ASSUME NEW d \in Deployers, Owns(d)' PROVE host'[Primary(d)].lock = d
  <2>1. Primary(d) \in Hosts /\ d \in Operators /\ d # NoOwner
    BY OperatorKinds, PrimaryIsTarget
  <2>2. CASE d = o
    BY <1>1, <2>2 DEF Contract, LockInv
  <2>3. CASE d # o
    <3>1. Owns(d)
      BY <1>1, <2>1, <2>3 DEF Contract, OnlyMoves, Owns, Opened, Removing, At, Inside, Primary
    <3>2. host[Primary(d)].lock = d /\ Running(d)
      BY <3>1, OwnerRuns DEF LockInv
    <3>3. ~ LockMove(o, Primary(d))
      BY <2>1, <2>3, <3>2, RemovesOwn DEF LooksStale
    <3> QED
      BY <2>1, <3>2, <3>3 DEF Contract, LockMoves
  <2> QED
    BY <2>2, <2>3
<1>2. ASSUME NEW u \in Unlockers, Clearing(u)' PROVE LooksStale(Primary(u))'
  <2>1. Primary(u) \in Hosts /\ u \in Operators
    BY OperatorKinds, PrimaryIsTarget
  <2>2. CASE u = o
    <3>1. LooksStale(Primary(u)) /\ host'[Primary(u)].lock = host[Primary(u)].lock
      BY <1>2, <2>2 DEF Contract, LockInv
    <3> QED
      BY <2>1, <3>1, StaleStays
  <2>3. CASE u # o
    <3>1. Clearing(u)
      BY <1>2, <2>1, <2>3 DEF Contract, OnlyMoves, Clearing, Removing, At, Primary
    <3>2. LooksStale(Primary(u))
      BY <3>1 DEF LockInv
    <3>3. ~ LockMove(o, Primary(u))
      <4>1. LockMove(o, Primary(u)) => Primary(o) = Primary(u)
        BY DEF LockMove
      <4> QED
        BY <2>1, <2>3, <3>2, <4>1, RemovesOwn DEF LooksStale, LoneUnlocker
    <3> QED
      BY <2>1, <3>2, <3>3, StaleStays DEF Contract, LockMoves
  <2> QED
    BY <2>2, <2>3
<1>3. ASSUME NEW h \in Hosts, NEW d \in Deployers, host'[h].lock = d PROVE pc'[d] # "idle"
  <2>1. d \in Operators /\ d # NoOwner
    BY OperatorKinds
  <2>2. CASE d = o
    BY <2>2 DEF Contract
  <2>3. CASE d # o
    <3>1. host[h].lock = d
      BY <1>3, <2>1, <2>3 DEF Contract, LockMoves, LockMove
    <3> QED
      BY <2>1, <2>3, <3>1 DEF LockInv, Contract, OnlyMoves
  <2> QED
    BY <2>2, <2>3
<1>4. \A d \in Deployers : Primary(d)' = Primary(d)
  BY DEF Primary
<1> QED
  BY <1>1, <1>2, <1>3 DEF LockInv, Primary

\* Every step is somebody's step and keeps the contract.
LEMMA NextContract ==
    ASSUME Shape, Next
    PROVE  \E o \in Operators : Contract(o)
<1>1. CASE \E d \in Deployers : StartDeploy(d)
  BY <1>1, StartContract, OperatorKinds
<1>2. CASE \E d \in Deployers, h \in Hosts : HookDrops(d, h)
  BY <1>2, SendContract, OperatorKinds
<1>3. CASE \E r \in Rollbackers : StartRollback(r)
  BY <1>3, StartContract, OperatorKinds
<1>4. CASE \E u \in Unlockers : StartUnlock(u)
  BY <1>4, StartContract, OperatorKinds
<1>5. CASE \E o \in Operators : Proceed(o) \/ HookFails(o) \/ Cancel(o) \/ Crash(o)
  BY <1>5, SendContract, WorksContract, AnswersContract, JudgeContract, EndContract, CrashContract
     DEF Proceed
<1> QED
  BY <1>1, <1>2, <1>3, <1>4, <1>5 DEF Next

LockSafe == Shape /\ LockInv

LEMMA LockSafeInit == Init => LockSafe
<1> SUFFICES ASSUME Init PROVE LockInv
  BY ShapeInit DEF LockSafe
<1>1. \A h \in Hosts : host[h].lock = NoOwner
  BY DEF Init
<1>2. \A o \in Operators : pc[o] = "idle" /\ ~locked[o]
  BY DEF Init
<1> QED
  BY <1>1, <1>2, OperatorKinds DEF LockInv, Owns, Inside, Clearing

LEMMA LockSafeStep ==
    ASSUME LoneUnlocker
    PROVE  LockSafe /\ [Next]_vars => LockSafe'
<1> SUFFICES ASSUME LockSafe, [Next]_vars PROVE LockSafe'
  OBVIOUS
<1>1. TypeInv'
  BY TypeStep DEF LockSafe, Shape
<1>2. CASE UNCHANGED vars
  <2>1. host' = host /\ pc' = pc /\ res' = res /\ locked' = locked /\ script' = script
    BY <1>2 DEF vars, local
  <2>2. ReplyShape' /\ LockedLate'
    BY <2>1 DEF LockSafe, Shape, ReplyShape, LockedLate, Primary
  <2>3. LockInv'
    BY <2>1 DEF LockSafe, LockInv, Owns, Opened, Removing, At, Inside, Clearing, LooksStale, Running, Primary
  <2> QED
    BY <1>1, <2>2, <2>3 DEF LockSafe, Shape
<1>3. CASE Next
  <2>1. PICK o \in Operators : Contract(o)
    BY <1>3, NextContract DEF LockSafe
  <2>2. Shape'
    BY <1>1, <2>1, ShapeOfOne DEF LockSafe, Contract, Shapely
  <2>3. LockInv'
    BY <2>1, ContractKeepsLock DEF LockSafe
  <2> QED
    BY <2>2, <2>3 DEF LockSafe
<1> QED
  BY <1>2, <1>3

LEMMA LockSafeMeans == LockSafe => LockHeld /\ MutualExclusion
<1> SUFFICES ASSUME LockSafe PROVE LockHeld /\ MutualExclusion
  OBVIOUS
<1>1. LockHeld
  BY DEF LockSafe, LockInv, LockHeld, Owns
<1> QED
  BY <1>1 DEF LockHeld, MutualExclusion

\* The lock file of a deploy stays its own until the deploy gives it up, for any
\* number of hosts, deploys, rollbacks and faults, provided nobody clears the
\* same primary's lock twice at once (deploy.go:169-191, 459-474).
THEOREM LockKept == ASSUME LoneUnlocker PROVE Spec => []LockHeld
<1> QED
  BY LockSafeInit, LockSafeStep, LockSafeMeans, PTL DEF Spec

\* And so two deploys with one primary are never inside at once.
THEOREM DeploysExclude == ASSUME LoneUnlocker PROVE Spec => []MutualExclusion
<1> QED
  BY LockSafeInit, LockSafeStep, LockSafeMeans, PTL DEF Spec

-----------------------------------------------------------------------------
(* No lock is left behind.                                                 *)

\* Every command that was sent gets its answer: no connection dies under it and no
\* dial times out.  Commands may fail on any line, signals arrive, processes die.
AnswersArrive == Faults \cap {"lost", "timeout"} = {}

\* Why no lock is left: the lock file of a deploy that was told it has the lock, and
\* did not die, is one it has yet to remove.
Accounted(d) == locked[d] /\ host[Primary(d)].lock = d => pc[d] = "crashed" \/ Owns(d)

AccountInv == Shape /\ \A d \in Deployers : Accounted(d)

\* The unlock command is alone on its primary, and so no sibling calls it off.
LEMMA NoSibling ==
    ASSUME Shape, NEW o \in Operators, NEW h \in Hosts, res[o][h] = "sent", pc[o] = "unlock"
    PROVE  ~ SiblingFailed(o)
<1>1. h = Primary(o)
  BY DEF Shape, ReplyShape
<1>2. \A g \in Hosts : g # h => res[o][g] = "idle"
  BY <1>1 DEF Shape, ReplyShape
<1> QED
  BY <1>2 DEF SiblingFailed

\* The unlock command is answered when its removal has been made, and not before.
LEMMA AnswersTell ==
    ASSUME AnswersArrive, AccountInv, NEW d \in Deployers, NEW h \in Hosts, pc[d] = "unlock",
           locked[d], Answers(d, h)
    PROVE  host[Primary(d)].lock # d
<1> USE DEF AccountInv, Shape, TypeInv
<1>1. d \in Operators /\ res[d][h] = "sent"
  BY OperatorKinds DEF Answers, Succeeds, Fails, Loses, Abandons, Reply
<1>2. h = Primary(d) /\ Line(script[d][h].at, "unlock")
  BY <1>1 DEF ReplyShape, Scripted
<1>3. ~ Loses(d, h)
  BY DEF Loses, AnswersArrive
<1>4. ~ Abandons(d, h)
  BY <1>1, NoSibling DEF Abandons, AnswersArrive
<1>5. ~ Fails(d, h)
  BY <1>2 DEF Fails, Blocked, At, Line
<1>6. At(d, h, "done")
  BY <1>3, <1>4, <1>5 DEF Answers, Succeeds
<1>7. ~ Owns(d)
  BY <1>2, <1>6 DEF Owns, Inside, Removing, At
<1> QED
  BY <1>7 DEF Accounted

\* A deploy that moves on with its lock on the host still knows of it, unless it dies.
LEMMA MoverAccounts ==
    ASSUME AnswersArrive, AccountInv, NEW d \in Deployers,
           StartDeploy(d) \/ Proceed(d) \/ HookFails(d) \/ Cancel(d) \/ Crash(d)
             \/ \E h \in Hosts : HookDrops(d, h)
    PROVE  Accounted(d)'
<1> USE DEF AccountInv, Shape, TypeInv, TypeOK
<1>1. d \in Operators /\ Primary(d) \in Hosts /\ d # NoOwner
  BY OperatorKinds, PrimaryIsTarget
<1>2. SUFFICES ASSUME locked'[d], host'[Primary(d)].lock = d, pc'[d] \in {"unlock", "ended"}
               PROVE  Owns(d)'
  BY DEF Accounted, Owns, Inside, Primary
<1>3. CASE StartDeploy(d)
  BY <1>1, <1>2, <1>3 DEF StartDeploy
<1>4. CASE Send(d)
  <2>1. pc[d] = "unlock" /\ pc'[d] = "unlock"
    BY <1>2, <1>4 DEF Send, Commands, Following
  <2>2. StepHosts(d) = {Primary(d)}
    BY <2>1 DEF StepHosts
  <2>3. res'[d][Primary(d)] = "sent"
    BY <1>1, <1>4, <2>1, <2>2 DEF Send
  <2>4. script'[d][Primary(d)] = [NoScript EXCEPT !.at = "rm"]
    BY <1>1, <1>4, <2>1, <2>2 DEF Send, Begin
  <2>5. script'[d][Primary(d)].at = "rm"
    BY <2>4 DEF NoScript
  <2> QED
    BY <2>1, <2>3, <2>5 DEF Owns, Removing, At, Primary
<1>5. CASE \E h \in Hosts : Works(d, h)
  <2>1. PICK h \in Hosts : Works(d, h)
    BY <1>5
  <2>2. res[d][h] = "sent" /\ pc' = pc /\ \A g \in Hosts \ {h} : host'[g] = host[g]
    BY <1>1, <2>1, WorksElsewhere
  <2>3. pc[d] = "unlock"
    BY <1>1, <1>2, <2>2 DEF Scripted, NoResults, Commands, Following
  <2>4. h = Primary(d)
    BY <1>1, <2>2, <2>3 DEF ReplyShape
  <2>5. host'[h].lock = NoOwner
    BY <1>1, <2>1, <2>3, LockFrame
  <2> QED
    BY <1>1, <1>2, <2>4, <2>5
<1>6. CASE \E h \in Hosts : Answers(d, h)
  <2>1. PICK h \in Hosts : Answers(d, h)
    BY <1>6
  <2>2. UNCHANGED <<host, pc, local>> /\ res[d][h] = "sent"
    BY <2>1 DEF Answers, Succeeds, Fails, Loses, Abandons, Reply
  <2>3. pc[d] = "unlock" /\ locked[d]
    BY <1>1, <1>2, <2>2 DEF Scripted, NoResults, Commands, Following, local
  <2> QED
    BY <1>2, <2>1, <2>2, <2>3, AnswersTell
<1>7. CASE Advance(d)
  <2>1. pc[d] \in Commands \ {"unlock"} /\ pc[d] # "clear"
        /\ pc'[d] = (IF pc[d] = "sha" /\ Bad(d) # {} THEN "sha" ELSE Following[pc[d]])
    BY <1>1, <1>7, OperatorKinds DEF Advance, Roles
  <2> QED
    BY <1>2, <2>1 DEF Commands, Following
<1>8. CASE StopStep(d) \/ HookFails(d)
  BY <1>1, <1>2, <1>8 DEF StopStep, HookFails, Failed
<1>9. CASE Finish(d) \/ Notified(d)
  <2>1. pc[d] \in {"finished", "notify"} /\ locked' = locked
        /\ pc'[d] = (IF locked[d] THEN "unlock" ELSE "ended") /\ res' = res
    BY <1>1, <1>9 DEF Finish, Notified, local
  <2>2. res[d] = NoResults
    BY <1>1, <2>1 DEF Scripted, Commands, Following
  <2> QED
    BY <1>1, <1>2, <2>1, <2>2 DEF Owns, Removing, NoResults, Primary
<1>10. CASE Unlocked(d)
  <2>1. /\ pc[d] = "unlock" /\ res[d] # NoResults
        /\ \A h \in Hosts : res[d][h] # "sent"
        /\ host' = host /\ locked' = locked
    BY <1>10 DEF Unlocked, Returned, local
  <2>2. \E h \in Hosts : res[d][h] # "idle"
    BY <1>1, <2>1 DEF NoResults
  <2>3. res[d][Primary(d)] \notin {"idle", "sent"}
    BY <1>1, <2>1, <2>2 DEF ReplyShape
  <2>4. ~ Owns(d)
    BY <2>1, <2>3 DEF Owns, Removing, At, Inside
  <2>5. Accounted(d)
    OBVIOUS
  <2> HIDE DEF AccountInv, Shape, TypeInv, TypeOK
  <2>6. host[Primary(d)].lock = d /\ locked[d]
    BY <1>2, <2>1
  <2> QED
    BY <2>1, <2>4, <2>5, <2>6 DEF Accounted
<1>11. CASE Cancel(d) \/ \E h \in Hosts : HookDrops(d, h)
  <2>1. UNCHANGED <<host, pc, res, script, locked>>
    BY <1>11 DEF Cancel, HookDrops
  <2>2. Owns(d)
    BY <1>2, <2>1 DEF Accounted
  <2> QED
    BY <2>1, <2>2 DEF Owns, Opened, Removing, At, Inside, Primary
<1>12. CASE Crash(d)
  BY <1>1, <1>2, <1>12 DEF Crash
<1> QED
  BY <1>3, <1>4, <1>5, <1>6, <1>7, <1>8, <1>9, <1>10, <1>11, <1>12 DEF Proceed

\* A step of somebody else gives nobody a lock, and takes nobody's knowledge of it.
LEMMA OthersAccount ==
    ASSUME AccountInv, NEW o \in Operators, Contract(o), NEW d \in Deployers, d # o
    PROVE  Accounted(d)'
<1>1. d \in Operators /\ Primary(d) \in Hosts /\ d # NoOwner
  BY OperatorKinds, PrimaryIsTarget
<1>2. SUFFICES ASSUME locked'[d], host'[Primary(d)].lock = d PROVE pc'[d] = "crashed" \/ Owns(d)'
  BY DEF Accounted, Primary
<1>3. host[Primary(d)].lock = d
  BY <1>1, <1>2 DEF Contract, LockMoves, LockMove
<1>4. pc'[d] = pc[d] /\ res'[d] = res[d] /\ locked'[d] = locked[d] /\ script'[d] = script[d]
  BY <1>1 DEF Contract, OnlyMoves
<1> QED
  BY <1>2, <1>3, <1>4 DEF AccountInv, Accounted, Owns, Opened, Removing, At, Inside, Primary

LEMMA AccountInit == Init => AccountInv
<1> SUFFICES ASSUME Init PROVE AccountInv
  OBVIOUS
<1>1. \A d \in Deployers : Accounted(d)
  BY OperatorKinds, PrimaryIsTarget DEF Init, Accounted
<1> QED
  BY <1>1, ShapeInit DEF AccountInv

LEMMA AccountStep ==
    ASSUME AnswersArrive
    PROVE  AccountInv /\ [Next]_vars => AccountInv'
<1> SUFFICES ASSUME AccountInv, [Next]_vars PROVE AccountInv'
  OBVIOUS
<1>1. CASE UNCHANGED vars
  <2>1. host' = host /\ pc' = pc /\ res' = res /\ locked' = locked /\ script' = script
    BY <1>1 DEF vars, local
  <2>2. TypeInv'
    BY TypeStep DEF AccountInv, Shape
  <2> QED
    BY <2>1, <2>2 DEF AccountInv, Shape, ReplyShape, LockedLate, Accounted, Owns, Opened, Removing,
                      At, Inside, Primary
<1>2. CASE Next
  <2>1. PICK o \in Operators :
          /\ Contract(o)
          /\ o \in Deployers =>
                \/ StartDeploy(o) \/ Proceed(o) \/ HookFails(o) \/ Cancel(o) \/ Crash(o)
                \/ \E h \in Hosts : HookDrops(o, h)
    <3> USE DEF AccountInv
    <3>1. CASE \E d \in Deployers : StartDeploy(d)
      BY <3>1, StartContract, OperatorKinds
    <3>2. CASE \E d \in Deployers, h \in Hosts : HookDrops(d, h)
      BY <3>2, SendContract, OperatorKinds
    <3>3. CASE \E r \in Rollbackers : StartRollback(r)
      BY <3>3, StartContract, OperatorKinds
    <3>4. CASE \E u \in Unlockers : StartUnlock(u)
      BY <3>4, StartContract, OperatorKinds
    <3>5. CASE \E p \in Operators : Proceed(p) \/ HookFails(p) \/ Cancel(p) \/ Crash(p)
      <4>1. PICK p \in Operators : Proceed(p) \/ HookFails(p) \/ Cancel(p) \/ Crash(p)
        BY <3>5
      <4>2. Contract(p)
        BY <4>1, SendContract, WorksContract, AnswersContract, JudgeContract, EndContract,
           CrashContract DEF Proceed
      <4> QED
        BY <4>1, <4>2
    <3> QED
      BY <1>2, <3>1, <3>2, <3>3, <3>4, <3>5 DEF Next
  <2>2. TypeInv'
    BY TypeStep DEF AccountInv, Shape
  <2>3. Shape'
    BY <2>1, <2>2, ShapeOfOne DEF AccountInv, Contract, Shapely
  <2>4. ASSUME NEW d \in Deployers PROVE Accounted(d)'
    BY <2>1, MoverAccounts, OthersAccount
  <2> QED
    BY <2>3, <2>4 DEF AccountInv
<1> QED
  BY <1>1, <1>2

\* A deploy that was told it has the lock has left none behind when it returns, for
\* any hosts, processes and filters, whatever fails, is interrupted or dies, as long
\* as commands get their answers (deploy.go:169-191).  A lock file whose command did
\* not end well, cut short by a signal or a full disk, is not covered: nobody was
\* told of it.
THEOREM LocksGivenUp == ASSUME AnswersArrive PROVE Spec => []NoLockLeft
<1>1. AccountInv => NoLockLeft
  <2> SUFFICES ASSUME AccountInv, NEW d \in Deployers, pc[d] = "ended", locked[d]
               PROVE  host[Primary(d)].lock # d
    BY DEF NoLockLeft
  <2> QED
    BY DEF AccountInv, Accounted, Owns, Inside
<1> QED
  BY AccountInit, AccountStep, <1>1, PTL DEF Spec


-----------------------------------------------------------------------------
(* Whose step it is, and what it leaves alone.                             *)

\* A step of o's, whoever o is.
StepOf(o) ==
    \/ o \in Deployers /\ StartDeploy(o)
    \/ o \in Rollbackers /\ StartRollback(o)
    \/ o \in Unlockers /\ StartUnlock(o)
    \/ Proceed(o) \/ HookFails(o) \/ Cancel(o) \/ Crash(o)
    \/ o \in Deployers /\ \E h \in Hosts : HookDrops(o, h)

LEMMA NextIsSomebodys == Next => \E o \in Operators : StepOf(o)
BY OperatorKinds DEF Next, StepOf

\* What d knows and where its scripts are is its own affair.
LEMMA OthersStand ==
    ASSUME TypeInv, NEW o \in Operators, StepOf(o), NEW d \in Operators, d # o
    PROVE  /\ pc'[d] = pc[d] /\ res'[d] = res[d] /\ script'[d] = script[d]
           /\ locked'[d] = locked[d] /\ dropped'[d] = dropped[d] /\ verdict'[d] = verdict[d]
           /\ (d \in Deployers => rel'[d] = rel[d])
<1> USE DEF TypeInv, TypeOK
<1>1. CASE \/ o \in Deployers /\ StartDeploy(o)
           \/ o \in Rollbackers /\ StartRollback(o)
           \/ o \in Unlockers /\ StartUnlock(o)
  BY <1>1 DEF StartDeploy, StartRollback, StartUnlock, local
<1>2. CASE Send(o) \/ Advance(o) \/ StopStep(o) \/ HookFails(o)
  BY <1>2 DEF Send, Advance, StopStep, HookFails, Failed, local
<1>3. CASE Finish(o) \/ Notified(o) \/ Unlocked(o)
  BY <1>3 DEF Finish, Notified, Unlocked, local
<1>4. CASE Cancel(o) \/ Crash(o) \/ \E h \in Hosts : HookDrops(o, h)
  BY <1>4 DEF Cancel, Crash, HookDrops, local
<1>5. CASE \E h \in Hosts : Works(o, h)
  BY <1>5, WorksElsewhere DEF local
<1>6. CASE \E h \in Hosts : Answers(o, h)
  <2>1. PICK h \in Hosts, result \in {"ok", "failed", "lost", "canceled"} : Reply(o, h, result)
    BY <1>6, AnswersReply
  <2> QED
    BY <2>1 DEF Reply, local
<1> QED
  BY <1>1, <1>2, <1>3, <1>4, <1>5, <1>6 DEF StepOf, Proceed

\* Only a script touches a host.
LEMMA OnlyScripts ==
    ASSUME TypeInv, NEW o \in Operators, StepOf(o), ~ \E h \in Hosts : Works(o, h)
    PROVE  host' = host
<1>1. (\E h \in Hosts : Answers(o, h)) => host' = host
  BY AnswersReply DEF Reply
<1> QED
  BY <1>1 DEF StepOf, Proceed, StartDeploy, StartRollback, StartUnlock, Send, Advance, StopStep,
     HookFails, Failed, Finish, Notified, Unlocked, Cancel, Crash, HookDrops

\* What a line does to the links and the releases of its host: the swap moves the
\* links and nothing else, three commands add to releases, and only cleanup and a
\* rollback take away.
LEMMA WorksFrame ==
    ASSUME TypeInv, NEW o \in Operators, NEW h \in Hosts, Works(o, h)
    PROVE  /\ \/ LinkStep(o, h) /\ host'[h].content = host[h].content
              \/ /\ host'[h].current = host[h].current /\ host'[h].tmp = host[h].tmp
                 /\ script'[o][h].at \notin {"ln", "mv", "unlink", "move"}
                 /\ script[o][h].at \notin {"untmp", "ln", "mv", "unlink", "move"}
           /\ pc[o] \notin {"cleanup", "rollback"} => host[h].content \subseteq host'[h].content
           /\ pc[o] \notin {"create", "revision", "link", "cleanup", "rollback"} =>
                 host'[h].content = host[h].content
<1> DEFINE s == host[h]
           Apart == host'[h].current = s.current /\ host'[h].tmp = s.tmp
           Past == /\ script'[o][h].at \notin {"ln", "mv", "unlink", "move"}
                   /\ script[o][h].at \notin {"untmp", "ln", "mv", "unlink", "move"}
<1>1. /\ s \in HostState /\ script[o][h] \in Scripts /\ Line(script[o][h].at, pc[o])
      /\ host \in [Hosts -> HostState] /\ script \in [Operators -> [Hosts -> Scripts]]
  BY WorksElsewhere DEF TypeInv, TypeOK
<1>2. ASSUME NEW next, NEW after, Run(o, h, next, after)
      PROVE  host'[h] = after /\ script'[o][h] = next
  BY <1>1, <1>2 DEF Run
<1>3. \A p : Goto(o, h, p).at = p
  BY <1>1 DEF Goto, Scripts
<1>4. CASE RemoveTmp(o, h) \/ LinkTmp(o, h) \/ RenameTmp(o, h) \/ Unlink(o, h) \/ MoveTmp(o, h)
  <2>1. LinkStep(o, h) /\ host'[h].content = s.content
    BY <1>4, LinkFrame
  <2> QED
    BY <2>1
<1>5. CASE Open(o, h) \/ WriteInfo(o, h) \/ RemoveLock(o, h)
  <2>1. Past /\ \E l : host'[h] \in {s, [s EXCEPT !.lock = l]}
    BY <1>2, <1>3, <1>5 DEF Open, WriteInfo, RemoveLock, At
  <2>2. Apart /\ host'[h].content = s.content
    BY <1>1, <2>1 DEF HostState
  <2> QED
    BY <2>1, <2>2
<1>6. CASE MakeRelease(o, h) \/ Unpack(o, h) \/ WriteRevision(o, h) \/ LinkShared(o, h)
  <2>1. Past /\ (\E parts : host'[h] = With(s, rel[o], parts))
    BY <1>2, <1>3, <1>6 DEF MakeRelease, Unpack, WriteRevision, LinkShared, At
  <2>2. Apart /\ s.content \subseteq host'[h].content
    BY <1>1, <2>1 DEF HostState, With
  <2>3. pc[o] \in {"create", "revision", "link"}
    BY <1>1, <1>6 DEF MakeRelease, Unpack, WriteRevision, LinkShared, At, Line
  <2> QED
    BY <2>1, <2>2, <2>3
<1>7. CASE RemoveFrom(o, h) \/ Prune(o, h)
  <2>1. host'[h] = s \/ \E r : host'[h] \in Removals(s, r)
    BY <1>2, <1>7 DEF RemoveFrom, Prune
  <2>2. Apart
    BY <1>1, <2>1 DEF HostState, Removals
  <2>3. script[o][h].at \in {"forget", "prune"}
    BY <1>7 DEF RemoveFrom, Prune, At
  <2>4. pc[o] \in {"cleanup", "rollback"}
    BY <1>1, <2>3 DEF Line
  <2>5. script'[o][h].at \in {"forget", "prune", "done"}
    <3>1. CASE RemoveFrom(o, h)
      <4>1. script'[o][h] \in {script[o][h], Goto(o, h, "done")}
        BY <1>2, <3>1 DEF RemoveFrom
      <4> QED
        BY <1>3, <2>3, <4>1
    <3>2. CASE Prune(o, h)
      <4>1. \A g, p : [Goto(o, h, p) EXCEPT !.gone = g].at = p
        BY <1>1 DEF Goto, Scripts
      <4>2. \/ script'[o][h] = script[o][h]
            \/ \E g : \E p \in {"done", "prune"} : script'[o][h] = [Goto(o, h, p) EXCEPT !.gone = g]
        BY <1>2, <3>2 DEF Prune
      <4>3. CASE \E g : \E p \in {"done", "prune"} : script'[o][h] = [Goto(o, h, p) EXCEPT !.gone = g]
        <5>1. PICK g : \E p \in {"done", "prune"} : script'[o][h] = [Goto(o, h, p) EXCEPT !.gone = g]
          BY <4>3
        <5>2. PICK p \in {"done", "prune"} : script'[o][h] = [Goto(o, h, p) EXCEPT !.gone = g]
          BY <5>1
        <5>3. [Goto(o, h, p) EXCEPT !.gone = g].at = p
          BY <4>1
        <5> QED
          BY <5>2, <5>3
      <4> QED
        BY <2>3, <4>2, <4>3
    <3> QED
      BY <1>7, <3>1, <3>2
  <2> QED
    BY <2>2, <2>3, <2>4, <2>5
<1>8. CASE TestRelease(o, h) \/ ReadCurrent(o, h) \/ FindCurrent(o, h) \/ FindPrevious(o, h)
           \/ CountReleases(o, h) \/ ListOldest(o, h)
  <2>1. /\ \A r, p : [Goto(o, h, p) EXCEPT !.from = r].at = p
        /\ \A r, p : [Goto(o, h, p) EXCEPT !.to = r].at = p
        /\ \A r, p : [Goto(o, h, p) EXCEPT !.n = r].at = p
        /\ \A r, p : [Goto(o, h, p) EXCEPT !.gone = r].at = p
    BY <1>1 DEF Goto, Scripts
  <2>2. host'[h] = s
    BY <1>2, <1>8 DEF TestRelease, ReadCurrent, FindCurrent, FindPrevious, CountReleases,
                      ListOldest, Listed
  <2>3. script'[o][h].at \in {"mkdir", "grep", "search", "untmp", "list", "done", "prune"}
    <3>1. CASE TestRelease(o, h) \/ FindCurrent(o, h)
      BY <1>2, <1>3, <3>1 DEF TestRelease, FindCurrent
    <3>5. CASE ReadCurrent(o, h)
      <4>1. script'[o][h] = [Goto(o, h, "grep") EXCEPT !.from = s.current]
        BY <1>2, <3>5 DEF ReadCurrent
      <4>2. [Goto(o, h, "grep") EXCEPT !.from = s.current].at = "grep"
        BY <2>1
      <4> QED
        BY <4>1, <4>2
    <3>2. CASE FindPrevious(o, h)
      <4> DEFINE to == Newest(Earlier(host[h], script[o][h].from))
      <4>1. script'[o][h] = [Goto(o, h, "untmp") EXCEPT !.to = to]
        BY <1>2, <3>2 DEF FindPrevious
      <4>2. [Goto(o, h, "untmp") EXCEPT !.to = to].at = "untmp"
        BY <2>1
      <4> QED
        BY <4>1, <4>2
    <3>3. CASE CountReleases(o, h)
      <4> DEFINE n == Cardinality(Dirs(host[h])) - KeepReleases
      <4>1. \/ script'[o][h] = [Goto(o, h, "list") EXCEPT !.n = n]
            \/ script'[o][h] = Goto(o, h, "done")
        BY <1>2, <3>3 DEF CountReleases
      <4>2. [Goto(o, h, "list") EXCEPT !.n = n].at = "list" /\ Goto(o, h, "done").at = "done"
        BY <1>3, <2>1
      <4> HIDE DEF n
      <4> QED
        BY <4>1, <4>2
    <3>4. CASE ListOldest(o, h)
      <4> DEFINE g == Oldest(host[h], script[o][h].n)
                 p == IF g = {} THEN "done" ELSE "prune"
      <4>1. script'[o][h] = [Goto(o, h, p) EXCEPT !.gone = g]
        BY <1>2, <3>4 DEF ListOldest, Listed
      <4>2. [Goto(o, h, p) EXCEPT !.gone = g].at = p
        BY <2>1
      <4> HIDE DEF g
      <4> QED
        BY <4>1, <4>2
    <3> QED
      BY <1>8, <3>1, <3>2, <3>3, <3>4, <3>5
  <2>4. script[o][h].at \in {"test", "readlink", "grep", "search", "count", "list"}
    BY <1>8 DEF TestRelease, ReadCurrent, FindCurrent, FindPrevious, CountReleases, ListOldest, At
  <2>5. Past
    BY <2>3, <2>4
  <2> QED
    BY <2>2, <2>5
<1> QED
  BY <1>4, <1>5, <1>6, <1>7, <1>8 DEF Works

-----------------------------------------------------------------------------
(* The stage: what deploys do to one another on the hosts they share.      *)

\* The deploys lock the same host (their filters leave them the same primary).
OnePrimary == \A d, e \in Deployers : Primary(d) = Primary(e)

\* A deploy that builds or swaps has the lock, and it has no name before it starts.
LockedWhileWorking ==
    /\ \A d \in Deployers : pc[d] = "idle" => rel[d] = NoRelease
    /\ \A o \in Operators : pc[o] \in DeployCommands \ {"lock", "unlock"} => locked[o]
    /\ \A d \in Deployers : pc[d] = "finished" => locked[d]

WorkInv == LockSafe /\ LockedWhileWorking

\* Why `current` only moves to d's own release: current.tmp is d's link or absent
\* from the moment d has removed what was there, and `current` is absent when the
\* fallback moves it (publish.sh.tmpl).
Linking(d) ==
    \A h \in Hosts :
        /\ At(d, h, "ln") => host[h].tmp = NoRelease
        /\ At(d, h, "mv") \/ At(d, h, "unlink") \/ At(d, h, "move") =>
              host[h].tmp \in {rel[d], NoRelease}
        /\ At(d, h, "move") => host[h].current = NoRelease

StageInv == WorkInv /\ \A d \in Deployers : Linking(d)

\* A step of o that keeps what the invariant says of o keeps it.
LEMMA WorkingOfOne ==
    ASSUME LockedWhileWorking, NEW o \in Operators, OnlyMoves(o),
           \A d \in Deployers : d # o => rel'[d] = rel[d],
           o \in Deployers => pc'[o] # "idle",
           pc'[o] \in DeployCommands \ {"lock", "unlock"} => locked'[o],
           o \in Deployers /\ pc'[o] = "finished" => locked'[o]
    PROVE  LockedWhileWorking'
BY OperatorKinds DEF LockedWhileWorking, OnlyMoves

LEMMA WorkingStep ==
    ASSUME Shape, LockedWhileWorking, [Next]_vars
    PROVE  LockedWhileWorking'
<1> USE DEF Shape, TypeInv, TypeOK
<1>1. CASE UNCHANGED vars
  BY <1>1 DEF vars, local, LockedWhileWorking
<1>2. CASE Next
  <2>1. PICK o \in Operators : StepOf(o)
    BY <1>2, NextIsSomebodys
  <2>2. /\ OnlyMoves(o)
        /\ \A d \in Deployers : d # o => rel'[d] = rel[d]
    BY <2>1, OthersStand, OperatorKinds DEF OnlyMoves
  <2>3. CASE \/ o \in Deployers /\ StartDeploy(o)
             \/ o \in Rollbackers /\ StartRollback(o)
             \/ o \in Unlockers /\ StartUnlock(o)
             \/ StopStep(o) \/ HookFails(o) \/ Finish(o) \/ Notified(o) \/ Unlocked(o) \/ Crash(o)
    <3>1. pc'[o] \in {"lock", "rollback", "clear", "notify", "unlock", "ended", "crashed"}
      BY <2>3 DEF StartDeploy, StartRollback, StartUnlock, StopStep, HookFails, Failed, Finish,
                  Notified, Unlocked, Crash
    <3> QED
      BY <2>2, <3>1, WorkingOfOne DEF DeployCommands
  <2>4. CASE \/ Send(o) \/ Cancel(o) \/ \E h \in Hosts : HookDrops(o, h)
             \/ \E h \in Hosts : Works(o, h) \/ Answers(o, h)
    <3>1. pc' = pc /\ locked' = locked /\ rel' = rel
      BY <2>4, WorksElsewhere, AnswersReply DEF Send, Reply, Cancel, HookDrops, local
    <3> QED
      BY <3>1 DEF LockedWhileWorking
  <2>5. CASE Advance(o)
    <3>1. rel' = rel /\ locked'[o] = (locked[o] \/ pc[o] = "lock")
      BY <2>5 DEF Advance
    <3>2. pc[o] \in Commands \ {"unlock"}
          /\ pc'[o] = (IF pc[o] = "sha" /\ Bad(o) # {} THEN "sha" ELSE Following[pc[o]])
      BY <2>5 DEF Advance
    <3>3. pc'[o] \notin {"idle", "rollback", "unlock"}
      BY <3>2 DEF Commands, Following
    <3>4. pc'[o] \in DeployCommands => pc[o] \in DeployCommands \ {"unlock"}
      BY <3>2, CommandTable DEF DeployCommands
    <3>5. pc'[o] \in DeployCommands \ {"lock", "unlock"} => locked'[o]
      BY <3>1, <3>4 DEF LockedWhileWorking
    <3>6. o \in Deployers /\ pc'[o] = "finished" => locked'[o]
      <4>1. pc'[o] = "finished" => pc[o] \in {"cleanup", "rollback"}
        BY <3>2 DEF Commands, Following
      <4>2. pc[o] = "rollback" => o \notin Deployers
        BY OperatorKinds DEF Roles
      <4> QED
        BY <3>1, <4>1, <4>2 DEF LockedWhileWorking, DeployCommands
    <3> QED
      BY <2>2, <3>1, <3>3, <3>5, <3>6, WorkingOfOne
  <2> QED
    BY <2>1, <2>3, <2>4, <2>5 DEF StepOf, Proceed
<1> QED
  BY <1>1, <1>2

LEMMA WorkInvStep ==
    ASSUME LoneUnlocker
    PROVE  WorkInv /\ [Next]_vars => WorkInv'
BY LockSafeStep, WorkingStep DEF WorkInv, LockSafe

\* Nobody else is inside with d.
LEMMA Alone ==
    ASSUME WorkInv, OnePrimary, NEW d \in Deployers, Inside(d)
    PROVE  {e \in Deployers : Inside(e)} = {d}
BY LockSafeMeans DEF WorkInv, MutualExclusion, OnePrimary

\* A deploy that builds, swaps or prunes is inside.
LEMMA WorkerInside ==
    ASSUME WorkInv, NEW o \in Operators,
           pc[o] \in {"create", "revision", "link", "publish", "log", "cleanup"}
    PROVE  o \in Deployers /\ Inside(o)
BY DEF WorkInv, LockSafe, Shape, TypeInv, Roles, LockedWhileWorking, DeployCommands, Inside

\* Where no rollback runs, one that swaps is the deploy inside.
LEMMA SwapsAlone ==
    ASSUME WorkInv, OnePrimary, Rollbackers = {}, NEW o \in Operators, NEW h \in Hosts,
           LinkStep(o, h), NEW d \in Deployers, Inside(d)
    PROVE  d = o /\ pc[o] = "publish"
<1>1. pc[o] = "publish"
  BY DEF LinkStep, At, Line, WorkInv, LockSafe, Shape, TypeInv, Scripted, Roles
<1> QED
  BY <1>1, WorkerInside, Alone

\* A line that d's own command runs.
LEMMA WorksLinking ==
    ASSUME StageInv, Rollbackers = {}, NEW d \in Deployers, NEW h \in Hosts, Works(d, h)
    PROVE  Linking(d)'
<1> USE DEF StageInv, WorkInv, LockSafe, Shape
<1>1. d \in Operators /\ d \notin CleaningRollbacks
  BY OperatorKinds, DeployAssumption
<1>2. res' = res /\ rel' = rel /\ \A g \in Hosts \ {h} : host'[g] = host[g] /\ script'[d][g] = script[d][g]
  BY <1>1, WorksElsewhere DEF local
<1>3. \A g \in Hosts \ {h} : \A p : At(d, g, p)' <=> At(d, g, p)
  BY <1>2 DEF At
<1>4. Swapped(d) = "done" /\ Target(d, h) = rel[d]
  BY <1>1 DEF Swapped, Target
<1>5. /\ At(d, h, "ln")' => host'[h].tmp = NoRelease
      /\ At(d, h, "mv")' \/ At(d, h, "unlink")' \/ At(d, h, "move")' =>
            host'[h].tmp \in {rel[d], NoRelease}
      /\ At(d, h, "move")' => host'[h].current = NoRelease
  <2>1. CASE LinkStep(d, h)
    BY <1>4, <2>1 DEF LinkStep, Linking, At
  <2>2. CASE script'[d][h].at \notin {"ln", "mv", "unlink", "move"}
    BY <2>2 DEF At
  <2> QED
    BY <1>1, <2>1, <2>2, WorksFrame
<1> QED
  BY <1>2, <1>3, <1>5 DEF Linking

LEMMA LinkingStep ==
    ASSUME StageInv, OnePrimary, Rollbackers = {}, NEW o \in Operators, StepOf(o), NEW d \in Deployers
    PROVE  Linking(d)'
<1> USE DEF StageInv, WorkInv, LockSafe, Shape, TypeInv, TypeOK
<1>1. d \in Operators
  BY OperatorKinds
<1>2. CASE d # o
  <2>1. res'[d] = res[d] /\ script'[d] = script[d] /\ rel'[d] = rel[d]
    BY <1>1, <1>2, OthersStand
  <2>2. ASSUME NEW g \in Hosts, NEW p \in {"ln", "mv", "unlink", "move"}, At(d, g, p)
        PROVE  host'[g].tmp = host[g].tmp /\ host'[g].current = host[g].current
    <3>1. Inside(d)
      <4>1. pc[d] = "publish"
        BY <1>1, <2>2 DEF At, Scripted, Line, Roles
      <4> QED
        BY <1>1, <4>1, WorkerInside
    <3>2. CASE \E h \in Hosts : Works(o, h)
      <4>1. PICK h \in Hosts : Works(o, h)
        BY <3>2
      <4>2. ~ LinkStep(o, h)
        BY <1>2, <3>1, SwapsAlone
      <4>3. host'[h].current = host[h].current /\ host'[h].tmp = host[h].tmp
        BY <4>1, <4>2, WorksFrame
      <4>4. g # h => host'[g] = host[g]
        BY <4>1, WorksElsewhere
      <4> HIDE DEF StageInv, WorkInv, LockSafe, Shape, TypeInv, TypeOK
      <4> QED
        BY <4>3, <4>4
    <3>3. CASE ~ \E h \in Hosts : Works(o, h)
      <4>1. host' = host
        BY <3>3, OnlyScripts
      <4> QED
        BY <4>1
    <3> QED
      BY <3>2, <3>3
  <2>3. \A g \in Hosts : \A p \in {"ln", "mv", "unlink", "move"} : At(d, g, p)' => At(d, g, p)
    BY <2>1 DEF At
  <2> QED
    BY <2>1, <2>2, <2>3 DEF Linking
<1>3. CASE d = o /\ \E h \in Hosts : Works(d, h)
  BY <1>3, WorksLinking
<1>4. CASE d = o /\ ~ \E h \in Hosts : Works(d, h)
  <2>1. host' = host
    BY <1>4, OnlyScripts
  <2>2. CASE Send(d)
    <3>1. \A g \in Hosts : script'[d][g].at \in {"none", Begin(pc[d])}
      BY <1>1, <2>2 DEF Send, NoScript
    <3>2. Begin(pc[d]) \notin {"ln", "mv", "unlink", "move"}
      BY <1>1, <2>2 DEF Begin, Send, Commands, Following
    <3> QED
      BY <3>1, <3>2 DEF Linking, At
  <2>3. CASE \E h \in Hosts : Answers(d, h)
    <3>1. PICK h \in Hosts, result \in {"ok", "failed", "lost", "canceled"} : Reply(d, h, result)
      BY <1>1, <2>3, AnswersReply
    <3>2. rel' = rel /\ \A g \in Hosts : \A p : At(d, g, p)' => At(d, g, p)
      BY <1>1, <3>1 DEF Reply, At, local
    <3> QED
      BY <2>1, <3>2 DEF Linking
  <2>4. CASE Cancel(d) \/ \E h \in Hosts : HookDrops(d, h)
    <3>1. res' = res /\ script' = script /\ rel' = rel
      BY <2>4 DEF Cancel, HookDrops
    <3> QED
      BY <2>1, <3>1 DEF Linking, At
  <2>5. CASE StartDeploy(d) \/ Advance(d) \/ StopStep(d) \/ HookFails(d) \/ Finish(d) \/ Notified(d)
             \/ Unlocked(d) \/ Crash(d)
    <3>1. "idle" \notin Commands /\ "finished" \notin Commands /\ "notify" \notin Commands
      BY DEF Commands, Following
    <3>2. res'[d] = NoResults
      BY <1>1, <2>5, <3>1 DEF StartDeploy, Advance, StopStep, HookFails, Failed, Finish, Notified,
         Unlocked, Crash, Scripted, local
    <3> QED
      BY <3>2 DEF Linking, At, NoResults
  <2> QED
    BY <1>4, <2>2, <2>3, <2>4, <2>5, OperatorKinds DEF StepOf, Proceed
<1> QED
  BY <1>2, <1>3, <1>4

LEMMA StageInvInit == Init => StageInv /\ Stage!StageInit
<1> SUFFICES ASSUME Init PROVE LockedWhileWorking /\ Stage!StageInit /\ \A d \in Deployers : Linking(d)
  BY LockSafeInit DEF StageInv, WorkInv
<1>1. LockedWhileWorking
  BY OperatorKinds DEF Init, LockedWhileWorking, DeployCommands
<1>2. \A d \in Deployers : ~Inside(d)
  BY OperatorKinds DEF Init, Inside
<1>3. \A d \in Deployers : Linking(d)
  BY OperatorKinds DEF Init, Linking, At, NoResults
<1> QED
  BY <1>1, <1>2, <1>3 DEF Init, Stage!StageInit

LEMMA StageInvStep ==
    ASSUME LoneUnlocker, OnePrimary, Rollbackers = {}
    PROVE  StageInv /\ [Next]_vars => StageInv'
<1> SUFFICES ASSUME StageInv, [Next]_vars PROVE \A d \in Deployers : Linking(d)'
  BY WorkInvStep DEF StageInv
<1>1. CASE UNCHANGED vars
  BY <1>1 DEF vars, local, StageInv, Linking, At
<1>2. CASE Next
  BY <1>2, NextIsSomebodys, LinkingStep
<1> QED
  BY <1>1, <1>2

-----------------------------------------------------------------------------
(* Steps of the stage.                                                     *)

\* Every host's `current` stays, or o publishes and it is at o's release, or away
\* for the moment.
Moved(o) ==
    \A h \in Hosts : \/ host'[h].current = host[h].current
                     \/ pc[o] = "publish" /\ host'[h].current \in {rel[o], NoRelease}

LEMMA WorksMoved ==
    ASSUME StageInv, Rollbackers = {}, NEW o \in Operators, NEW h \in Hosts, Works(o, h)
    PROVE  Moved(o) /\ pc' = pc /\ locked' = locked /\ rel' = rel
<1> USE DEF StageInv, WorkInv, LockSafe, Shape
<1>1. /\ pc' = pc /\ locked' = locked /\ rel' = rel
      /\ \A g \in Hosts \ {h} : host'[g] = host[g]
  BY WorksElsewhere DEF local
<1>2. \/ host'[h].current = host[h].current
      \/ pc[o] = "publish" /\ host'[h].current \in {rel[o], NoRelease}
  <2>1. CASE LinkStep(o, h)
    <3>1. pc[o] = "publish" /\ o \in Deployers
      BY <2>1 DEF LinkStep, At, TypeInv, Scripted, Line, Roles, DeployCommands
    <3>2. Linking(o)
      BY <3>1
    <3> QED
      BY <2>1, <3>1, <3>2 DEF LinkStep, Linking
  <2>2. CASE ~ LinkStep(o, h)
    BY <2>2, WorksFrame
  <2> QED
    BY <2>1, <2>2
<1> QED
  BY <1>1, <1>2 DEF Moved

\* Nothing an operator of the stage could see.
LEMMA Unseen ==
    ASSUME \A h \in Hosts : host'[h].current = host[h].current, rel' = rel,
           \A d \in Deployers : Inside(d)' <=> Inside(d)
    PROVE  UNCHANGED Stage!stageVars
BY DEF Stage!stageVars

\* A step of o that leaves o inside or outside as it was publishes or is not seen.
LEMMA StaysPut ==
    ASSUME StageInv, OnePrimary, NEW o \in Operators, Moved(o), rel' = rel,
           \A d \in Deployers : Inside(d)' <=> Inside(d)
    PROVE  [Stage!StageNext]_Stage!stageVars
<1>1. CASE pc[o] # "publish"
  BY <1>1, Unseen DEF Moved
<1>2. CASE pc[o] = "publish"
  <2>1. o \in Deployers /\ Inside(o)
    BY <1>2, WorkerInside DEF StageInv
  <2>2. {e \in Deployers : Inside(e)} = {o}
    BY <2>1, Alone DEF StageInv
  <2>3. Stage!Swapped(o)
    BY DEF Stage!Swapped, Moved
  <2>4. {e \in Deployers : Inside(e)'} = {e \in Deployers : Inside(e)}
    OBVIOUS
  <2>5. Stage!Publish(o)
    BY <2>2, <2>3, <2>4 DEF Stage!Publish
  <2> QED
    BY <2>1, <2>5 DEF Stage!StageNext
<1> QED
  BY <1>1, <1>2

\* A step after which o is not inside leaves the stage, or is not seen.
LEMMA GoesOut ==
    ASSUME StageInv, OnePrimary, NEW o \in Operators, host' = host, rel' = rel, OnlyMoves(o),
           o \in Deployers => ~Inside(o)'
    PROVE  [Stage!StageNext]_Stage!stageVars
<1>1. \A e \in Deployers : e # o => (Inside(e)' <=> Inside(e))
  BY OperatorKinds DEF OnlyMoves, Inside
<1>2. CASE o \in Deployers /\ Inside(o)
  <2>1. {e \in Deployers : Inside(e)} = {o}
    BY <1>2, Alone DEF StageInv
  <2>2. {e \in Deployers : Inside(e)'} = {}
    BY <1>1, <2>1
  <2>3. Stage!Swapped(o)
    BY DEF Stage!Swapped
  <2>4. Stage!Leave(o)
    BY <2>1, <2>2, <2>3 DEF Stage!Leave
  <2> QED
    BY <1>2, <2>4 DEF Stage!StageNext
<1>3. CASE ~ (o \in Deployers /\ Inside(o))
  BY <1>1, <1>3, StaysPut DEF Moved
<1> QED
  BY <1>2, <1>3

\* The answer to the lock command: o enters an empty stage.
LEMMA ComesIn ==
    ASSUME StageInv, OnePrimary, NEW o \in Operators, Advance(o), pc[o] = "lock"
    PROVE  [Stage!StageNext]_Stage!stageVars
<1> USE DEF StageInv, WorkInv, LockSafe, Shape, TypeInv, TypeOK
<1>1. o \in Deployers
  BY DEF Roles, DeployCommands
<1>2. Contract(o) /\ OnlyMoves(o)
  BY JudgeContract DEF Contract
<1>3. pc'[o] = "check" /\ locked'[o]
  <2>1. pc'[o] = Following["lock"] /\ locked'[o] = (locked[o] \/ pc[o] = "lock")
    BY DEF Advance
  <2>2. Following["lock"] = "check"
    BY DEF Following
  <2> QED
    BY <2>1, <2>2
<1>4. Inside(o)' /\ ~Inside(o)
  BY <1>3 DEF Inside, LockedLate
<1>5. Owns(o)
  <2>1. /\ Bad(o) = {} /\ res[o] # NoResults
        /\ \A h \in Hosts : res[o][h] # "sent"
    BY DEF Advance, Returned, Passed, Tolerant
  <2>2. \E h \in Hosts : res[o][h] # "idle"
    BY <2>1 DEF NoResults
  <2>3. Primary(o) \in Hosts
    BY PrimaryIsTarget
  <2>4. res[o][Primary(o)] \notin {"idle", "failed", "lost", "canceled", "sent"}
    BY <2>1, <2>2, <2>3 DEF Bad, ReplyShape
  <2>5. res[o][Primary(o)] \in Results
    BY <2>3
  <2>6. res[o][Primary(o)] = "ok"
    BY <2>4, <2>5 DEF Results
  <2> QED
    BY <2>6 DEF Owns, Opened
<1>6. \A e \in Deployers : ~Inside(e)
  <2>1. SUFFICES ASSUME NEW e \in Deployers, Inside(e) PROVE FALSE
    OBVIOUS
  <2>2. Owns(e)
    BY <2>1 DEF Owns
  <2>3. host[Primary(e)].lock = e /\ host[Primary(o)].lock = o
    BY <1>1, <1>5, <2>2 DEF LockInv
  <2> QED
    BY <1>1, <1>4, <2>1, <2>3 DEF OnePrimary
<1>7. \A e \in Deployers : e # o => ~Inside(e)'
  BY <1>2, <1>6, OperatorKinds DEF OnlyMoves, Inside
<1>8. Stage!Enter(o)
  <2>1. {e \in Deployers : Inside(e)} = {} /\ {e \in Deployers : Inside(e)'} = {o}
    BY <1>1, <1>4, <1>6, <1>7
  <2>2. host' = host /\ rel' = rel
    BY DEF Advance
  <2> QED
    BY <2>1, <2>2 DEF Stage!Enter
<1> QED
  BY <1>1, <1>8 DEF Stage!StageNext

\* StartDeploy names a release.
LEMMA Announces ==
    ASSUME StageInv, NEW d \in Deployers, StartDeploy(d)
    PROVE  Stage!StageNext
<1> USE DEF StageInv, WorkInv, LockSafe, Shape, TypeInv, TypeOK
<1>1. rel[d] = NoRelease /\ d \in Operators /\ ~locked[d]
  BY OperatorKinds DEF StartDeploy, LockedWhileWorking, LockedLate
<1>2. PICK now \in Nat : rel' = [rel EXCEPT ![d] = now]
  BY DeployAssumption DEF StartDeploy
<1>3. rel'[d] = now
  BY <1>2
<1>4. \A e \in Deployers : Inside(e)' <=> Inside(e)
  BY <1>1, OperatorKinds DEF StartDeploy, Inside
<1>5. {e \in Deployers : Inside(e)'} = {e \in Deployers : Inside(e)} /\ host' = host
  BY <1>4 DEF StartDeploy
<1>6. Stage!Announce(d)
  BY <1>1, <1>2, <1>3, <1>5 DEF Stage!Announce
<1> QED
  BY <1>6 DEF Stage!StageNext

-----------------------------------------------------------------------------
(* The refinement.                                                         *)

LEMMA ProceedMaps ==
    ASSUME StageInv, OnePrimary, Rollbackers = {}, NEW o \in Operators,
           Proceed(o) \/ HookFails(o) \/ Cancel(o) \/ Crash(o) \/ \E h \in Hosts : HookDrops(o, h)
    PROVE  [Stage!StageNext]_Stage!stageVars
<1> USE DEF StageInv, WorkInv, LockSafe, Shape, TypeInv, TypeOK
<1>1. CASE \E h \in Hosts : Works(o, h)
  BY <1>1, WorksMoved, StaysPut DEF Inside
<1>2. CASE \/ Send(o) \/ Cancel(o) \/ \E h \in Hosts : HookDrops(o, h)
           \/ \E h \in Hosts : Answers(o, h)
  <2>1. host' = host /\ pc' = pc /\ locked' = locked /\ rel' = rel
    BY <1>2, AnswersReply DEF Send, Reply, Cancel, HookDrops, local
  <2> QED
    BY <2>1, Unseen DEF Inside
<1>3. CASE Advance(o)
  <2>1. CASE pc[o] = "lock"
    BY <1>3, <2>1, ComesIn
  <2>2. CASE pc[o] # "lock"
    <3>1. host' = host /\ rel' = rel /\ locked'[o] = locked[o] /\ OnlyMoves(o)
      BY <1>3, <2>2 DEF Advance, OnlyMoves
    <3>2. pc[o] \in Commands \ {"unlock"}
          /\ pc'[o] = (IF pc[o] = "sha" /\ Bad(o) # {} THEN "sha" ELSE Following[pc[o]])
      BY <1>3 DEF Advance
    <3>3. o \in Deployers => pc[o] # "clear"
      BY OperatorKinds DEF Roles
    <3>4. o \in Deployers => pc'[o] \notin {"unlock", "ended", "crashed"}
                             /\ pc[o] \notin {"unlock", "ended", "crashed"}
      BY <3>2, <3>3 DEF Commands, Following
    <3>5. \A d \in Deployers : Inside(d)' <=> Inside(d)
      BY <3>1, <3>4, OperatorKinds DEF OnlyMoves, Inside
    <3> QED
      BY <3>1, <3>5, Unseen
  <2> QED
    BY <2>1, <2>2
<1>4. CASE StopStep(o) \/ HookFails(o)
  <2>1. host' = host /\ rel' = rel /\ locked' = locked /\ OnlyMoves(o)
    BY <1>4 DEF StopStep, HookFails, Failed, OnlyMoves
  <2>2. o \in Deployers => pc'[o] = "notify"
    BY <1>4, OperatorKinds DEF StopStep, HookFails, Failed
  <2>3. pc[o] \notin {"unlock", "ended", "crashed"}
    BY <1>4 DEF StopStep, HookFails, AtHooks, Commands, Following
  <2>4. \A d \in Deployers : Inside(d)' <=> Inside(d)
    BY <2>1, <2>2, <2>3, OperatorKinds DEF OnlyMoves, Inside
  <2> QED
    BY <2>1, <2>4, Unseen
<1>5. CASE Finish(o) \/ Notified(o) \/ Unlocked(o) \/ Crash(o)
  <2>1. host' = host /\ rel' = rel /\ locked' = locked /\ OnlyMoves(o)
    BY <1>5 DEF Finish, Notified, Unlocked, Crash, OnlyMoves, local
  <2>2. pc'[o] \in {"unlock", "ended", "crashed"}
    BY <1>5 DEF Finish, Notified, Unlocked, Crash
  <2> QED
    BY <2>1, <2>2, GoesOut DEF Inside
<1> QED
  BY <1>1, <1>2, <1>3, <1>4, <1>5 DEF Proceed

LEMMA StepMaps ==
    ASSUME StageInv, OnePrimary, Rollbackers = {}, [Next]_vars
    PROVE  [Stage!StageNext]_Stage!stageVars
<1>1. CASE UNCHANGED vars
  BY <1>1, Unseen DEF vars, local, Inside
<1>2. CASE \E d \in Deployers : StartDeploy(d)
  BY <1>2, Announces
<1>3. CASE \E u \in Unlockers : StartUnlock(u)
  <2>1. PICK u \in Unlockers : StartUnlock(u)
    BY <1>3
  <2>2. pc[u] = "idle" /\ pc' = [pc EXCEPT ![u] = "clear"] /\ host' = host /\ rel' = rel
        /\ locked' = locked /\ u \notin Deployers
    BY <2>1, OperatorKinds DEF StartUnlock, local
  <2>3. \A d \in Deployers : Inside(d)' <=> Inside(d)
    BY <2>2, OperatorKinds DEF Inside, StageInv, WorkInv, LockSafe, Shape, TypeInv, TypeOK
  <2> QED
    BY <2>2, <2>3, Unseen
<1>4. CASE \/ \E d \in Deployers, h \in Hosts : HookDrops(d, h)
           \/ \E o \in Operators : Proceed(o) \/ HookFails(o) \/ Cancel(o) \/ Crash(o)
  BY <1>4, ProceedMaps, OperatorKinds
<1> QED
  BY <1>1, <1>2, <1>3, <1>4 DEF Next

\* Deploys that lock one host, with no rollback among them, implement a stage: one at
\* a time is inside, and `current` moves only then and only to its release, whatever
\* fails, dies or is interrupted (deploy.go:121-290).
THEOREM StageKept ==
    ASSUME LoneUnlocker, OnePrimary, Rollbackers = {}
    PROVE  Spec => ImplementsStage
<1>1. StageInv /\ [Next]_vars => [Stage!StageNext]_Stage!stageVars
  BY StepMaps
<1> QED
  BY StageInvInit, StageInvStep, <1>1, PTL DEF Spec, ImplementsStage, Stage!StageSpec

-----------------------------------------------------------------------------
(* No host is swapped before every live host's release is complete.        *)

Builds == {"create", "revision", "link", "publish"}

Has(d, h, parts) == \A p \in parts : <<rel[d], p>> \in host[h].content

\* d's command did on h all it does.
Did(d, h) == res[d][h] = "ok" \/ At(d, h, "done")

\* A command under way was sent to every live host.
Answered(d) ==
    pc[d] \in Builds /\ res[d] # NoResults => \A h \in Live(d) : res[d][h] # "idle"

\* What the commands so far have built is there, on every live host, and so is what
\* the one under way has built where it came to its end.
Built(d) ==
    \A h \in Live(d) :
        /\ pc[d] = "create" /\ At(d, h, "unpack") => Has(d, h, {"dir"})
        /\ pc[d] \in {"revision", "link", "publish"} \/ (pc[d] = "create" /\ Did(d, h)) =>
              Has(d, h, {"dir", "tree"})
        /\ pc[d] \in {"link", "publish"} \/ (pc[d] = "revision" /\ Did(d, h)) =>
              Has(d, h, {"revision"})
        /\ pc[d] = "publish" \/ (pc[d] = "link" /\ Did(d, h)) => Has(d, h, {"links"})

BarrierInv ==
    /\ StageInv
    /\ \A d \in Deployers : Answered(d) /\ Built(d)

\* The line that ends a building command writes its part.
LEMMA WorksBuilds ==
    ASSUME TypeInv, NEW d \in Deployers, NEW h \in Hosts, Works(d, h)
    PROVE  /\ pc[d] = "create" /\ At(d, h, "unpack")' =>
                 <<rel[d], "dir">> \in host'[h].content
           /\ pc[d] = "create" /\ At(d, h, "done")' =>
                 At(d, h, "unpack") /\ <<rel[d], "tree">> \in host'[h].content
           /\ pc[d] = "revision" /\ At(d, h, "done")' => <<rel[d], "revision">> \in host'[h].content
           /\ pc[d] = "link" /\ At(d, h, "done")' => <<rel[d], "links">> \in host'[h].content
<1> DEFINE s == host[h]
<1>1. /\ d \in Operators /\ s \in HostState /\ script[d][h] \in Scripts
      /\ Line(script[d][h].at, pc[d])
      /\ host \in [Hosts -> HostState] /\ script \in [Operators -> [Hosts -> Scripts]]
  BY WorksElsewhere, OperatorKinds DEF TypeInv, TypeOK
<1>2. ASSUME NEW next, NEW after, Run(d, h, next, after)
      PROVE  host'[h] = after /\ script'[d][h] = next
  BY <1>1, <1>2 DEF Run
<1>3. \A p : Goto(d, h, p).at = p
  BY <1>1 DEF Goto, Scripts
<1>4. \A parts : \A p \in parts : <<rel[d], p>> \in With(s, rel[d], parts).content
  BY <1>1 DEF With, HostState
<1>5. CASE MakeRelease(d, h)
  <2>1. host'[h] = With(s, rel[d], {"dir"}) /\ script'[d][h].at = "unpack" /\ pc[d] = "create"
    BY <1>1, <1>2, <1>3, <1>5 DEF MakeRelease, At, Line
  <2> QED
    BY <1>4, <2>1 DEF At
<1>6. CASE Unpack(d, h)
  <2>1. host'[h] = With(s, rel[d], {"tree"}) /\ script'[d][h].at = "done" /\ pc[d] = "create"
    BY <1>1, <1>2, <1>3, <1>6 DEF Unpack, At, Line
  <2> QED
    BY <1>4, <1>6, <2>1 DEF At, Unpack
<1>7. CASE WriteRevision(d, h)
  <2>1. host'[h] = With(s, rel[d], {"revision"}) /\ pc[d] = "revision"
    BY <1>1, <1>2, <1>7 DEF WriteRevision, At, Line
  <2> QED
    BY <1>4, <2>1
<1>8. CASE LinkShared(d, h)
  <2>1. pc[d] = "link"
    BY <1>1, <1>8 DEF LinkShared, At, Line
  <2>2. \/ script'[d][h].at = "links"
        \/ host'[h] = With(s, rel[d], {"dir", "links"})
    BY <1>2, <1>3, <1>8 DEF LinkShared
  <2> QED
    BY <1>4, <2>1, <2>2 DEF At
<1>9. CASE TestRelease(d, h)
  <2>1. script'[d][h].at = "mkdir" /\ pc[d] = "create"
    BY <1>1, <1>2, <1>3, <1>9 DEF TestRelease, At, Line
  <2> QED
    BY <2>1 DEF At
<1>10. CASE ~ (MakeRelease(d, h) \/ Unpack(d, h) \/ WriteRevision(d, h) \/ LinkShared(d, h)
               \/ TestRelease(d, h))
  <2>1. script[d][h].at \notin {"test", "mkdir", "unpack", "revision", "links"}
    BY <1>10 DEF Works, At, Open, WriteInfo, RemoveLock, ReadCurrent, FindCurrent, FindPrevious,
         RemoveTmp, LinkTmp, RenameTmp, Unlink, MoveTmp, RemoveFrom, CountReleases, ListOldest, Prune
  <2>2. script[d][h].at \in Places \ {"none", "done"}
    BY <1>1, WorksElsewhere DEF Scripts
  <2>3. pc[d] \notin {"create", "revision", "link"}
    BY <1>1, <2>1, <2>2 DEF Places, Line
  <2> QED
    BY <2>3
<1> QED
  BY <1>5, <1>6, <1>7, <1>8, <1>9, <1>10

\* While d is inside, nobody else touches a release directory.
LEMMA OthersLeaveAlone ==
    ASSUME StageInv, OnePrimary, Rollbackers = {}, NEW d \in Deployers, Inside(d),
           NEW o \in Operators, o # d, StepOf(o), NEW h \in Hosts
    PROVE  host'[h].content = host[h].content
<1> USE DEF StageInv, WorkInv, LockSafe, Shape
<1>2. pc[o] \notin {"create", "revision", "link", "cleanup"}
  <2>1. SUFFICES ASSUME pc[o] \in {"create", "revision", "link", "cleanup"} PROVE FALSE
    OBVIOUS
  <2>2. o \in Deployers /\ Inside(o)
    BY <2>1, WorkerInside
  <2> QED
    BY <2>2, Alone
<1>3. pc[o] # "rollback"
  BY DEF TypeInv, Roles
<1>4. CASE \E g \in Hosts : Works(o, g)
  <2>1. PICK g \in Hosts : Works(o, g)
    BY <1>4
  <2>2. host'[g].content = host[g].content
    BY <1>2, <1>3, <2>1, WorksFrame
  <2>3. g # h => host'[h] = host[h]
    BY <2>1, WorksElsewhere
  <2> QED
    BY <2>2, <2>3
<1>5. CASE ~ \E g \in Hosts : Works(o, g)
  <2>1. host' = host
    BY <1>5, OnlyScripts
  <2> QED
    BY <2>1
<1> QED
  BY <1>4, <1>5

\* A command that comes to its end has built its part, and one under way takes
\* nothing back.
LEMMA WorksBuilt ==
    ASSUME BarrierInv, NEW d \in Deployers, NEW h \in Hosts, Works(d, h), pc[d] \in Builds
    PROVE  Answered(d)' /\ Built(d)'
<1> USE DEF BarrierInv, StageInv, WorkInv, LockSafe, Shape
<1>1. d \in Operators
  BY OperatorKinds
<1>2. /\ pc' = pc /\ res' = res /\ rel' = rel /\ dropped' = dropped
      /\ \A g \in Hosts \ {h} : host'[g] = host[g] /\ script'[d][g] = script[d][g]
      /\ res[d][h] = "sent"
  BY <1>1, WorksElsewhere DEF local
<1>3. host[h].content \subseteq host'[h].content
  BY <1>1, WorksFrame DEF Builds
<1>4. Live(d)' = Live(d) /\ Live(d) \subseteq Hosts
  BY <1>1, <1>2, DeployAssumption DEF Live
<1>5. Answered(d)'
  BY <1>2, <1>4 DEF Answered
<1>6. ASSUME NEW g \in Live(d), NEW parts, Has(d, g, parts) PROVE Has(d, g, parts)'
  <2>1. host[g].content \subseteq host'[g].content
    BY <1>2, <1>3, <1>4
  <2> QED
    BY <1>2, <1>6, <2>1 DEF Has
<1>7. ASSUME NEW g \in Live(d), g # h
      PROVE  \A p : (At(d, g, p)' <=> At(d, g, p)) /\ (Did(d, g)' <=> Did(d, g))
  BY <1>2, <1>4, <1>7 DEF At, Did
<1>8. Did(d, h)' => At(d, h, "done")'
  BY <1>2 DEF Did
<1>9. ASSUME h \in Live(d)
      PROVE  /\ pc[d] = "create" /\ At(d, h, "unpack")' => Has(d, h, {"dir"})'
             /\ pc[d] = "create" /\ Did(d, h)' => Has(d, h, {"dir", "tree"})'
             /\ pc[d] = "revision" /\ Did(d, h)' => Has(d, h, {"revision"})'
             /\ pc[d] = "link" /\ Did(d, h)' => Has(d, h, {"links"})'
  <2>1. pc[d] = "create" /\ At(d, h, "done")' => Has(d, h, {"dir"})
    BY <1>9, WorksBuilds DEF Built
  <2>2. pc[d] = "create" /\ At(d, h, "done")' => Has(d, h, {"dir"})' /\ Has(d, h, {"tree"})'
    BY <1>2, <1>6, <1>9, <2>1, WorksBuilds DEF Has
  <2> QED
    BY <1>2, <1>8, <2>2, WorksBuilds DEF Has
<1>10. Built(d)'
  <2> SUFFICES ASSUME NEW g \in Live(d)
               PROVE  /\ pc[d] = "create" /\ At(d, g, "unpack")' => Has(d, g, {"dir"})'
                      /\ pc[d] \in {"revision", "link", "publish"} \/ (pc[d] = "create" /\ Did(d, g)') =>
                            Has(d, g, {"dir", "tree"})'
                      /\ pc[d] \in {"link", "publish"} \/ (pc[d] = "revision" /\ Did(d, g)') =>
                            Has(d, g, {"revision"})'
                      /\ pc[d] = "publish" \/ (pc[d] = "link" /\ Did(d, g)') => Has(d, g, {"links"})'
    BY <1>2, <1>4 DEF Built
  <2>1. /\ pc[d] \in {"revision", "link", "publish"} => Has(d, g, {"dir", "tree"})'
        /\ pc[d] \in {"link", "publish"} => Has(d, g, {"revision"})'
        /\ pc[d] = "publish" => Has(d, g, {"links"})'
    BY <1>6 DEF Built
  <2>2. CASE g = h
    BY <1>9, <2>1, <2>2
  <2>3. CASE g # h
    BY <1>6, <1>7, <2>1, <2>3 DEF Built
  <2> QED
    BY <2>2, <2>3
<1> QED
  BY <1>5, <1>10

\* An answer is good only where the command came to its end.
LEMMA AnswersBuilt ==
    ASSUME BarrierInv, NEW d \in Deployers, NEW h \in Hosts, Answers(d, h)
    PROVE  Answered(d)' /\ Built(d)'
<1> USE DEF BarrierInv, StageInv, WorkInv, LockSafe, Shape, TypeInv, TypeOK
<1>1. PICK result \in {"ok", "failed", "lost", "canceled"} :
        Reply(d, h, result) /\ (result = "ok" => At(d, h, "done"))
  BY OperatorKinds, AnswersReply
<1>2. /\ d \in Operators /\ pc' = pc /\ rel' = rel /\ dropped' = dropped /\ host' = host
      /\ res' = [res EXCEPT ![d][h] = result] /\ script' = [script EXCEPT ![d][h] = NoScript]
      /\ res[d][h] = "sent"
  BY <1>1, OperatorKinds DEF Reply, local
<1>3. Live(d)' = Live(d) /\ Live(d) \subseteq Hosts
  BY <1>2, DeployAssumption DEF Live
<1>4. Answered(d)'
  <2>1. res[d] # NoResults
    BY <1>2 DEF NoResults
  <2> QED
    BY <1>2, <1>3, <2>1 DEF Answered
<1>5. \A g \in Hosts : (Did(d, g)' => Did(d, g)) /\ (At(d, g, "unpack")' => At(d, g, "unpack"))
  <2>1. ASSUME NEW g \in Hosts, g # h PROVE res'[d][g] = res[d][g] /\ script'[d][g] = script[d][g]
    BY <1>2, <2>1
  <2>2. res'[d][h] = result
    BY <1>2
  <2> QED
    BY <1>1, <2>1, <2>2 DEF Did, At
<1>6. \A g \in Hosts : \A parts : Has(d, g, parts)' <=> Has(d, g, parts)
  BY <1>2 DEF Has
<1>7. Built(d)'
  BY <1>2, <1>3, <1>5, <1>6 DEF Built
<1> QED
  BY <1>4, <1>7

\* When a step passed, every host still live has succeeded.
LEMMA AdvanceBuilds ==
    ASSUME BarrierInv, NEW d \in Deployers, Advance(d)
    PROVE  Answered(d)' /\ Built(d)'
<1> USE DEF BarrierInv, StageInv, WorkInv, LockSafe, Shape, TypeInv, TypeOK
<1>1. d \in Operators /\ res'[d] = NoResults /\ host' = host /\ rel' = rel
      /\ dropped'[d] = dropped[d] \cup Bad(d)
  BY OperatorKinds DEF Advance
<1>2. Live(d)' = Live(d) \ Bad(d) /\ Live(d) \subseteq Hosts
  BY <1>1, DeployAssumption DEF Live
<1>3. \A h \in Hosts : res'[d][h] = "idle"
  BY <1>1 DEF NoResults
<1>4. Answered(d)'
  BY <1>1 DEF Answered
<1>5. ASSUME pc[d] \in Builds, NEW h \in Live(d)' PROVE h \in Live(d) /\ res[d][h] = "ok"
  <2>1. res[d][h] \notin {"idle", "sent", "failed", "lost", "canceled"}
    BY <1>2, <1>5 DEF Advance, Returned, Answered, Bad
  <2>2. res[d][h] \in Results
    BY <1>1, <1>2, <1>5
  <2> QED
    BY <1>2, <1>5, <2>1, <2>2 DEF Results
<1>6. pc[d] \in Commands \ {"unlock"}
      /\ pc'[d] = (IF pc[d] = "sha" /\ Bad(d) # {} THEN "sha" ELSE Following[pc[d]])
  BY <1>1 DEF Advance
<1>7. /\ pc'[d] = "revision" => pc[d] = "create"
      /\ pc'[d] = "link" => pc[d] = "revision"
      /\ pc'[d] = "publish" => pc[d] = "link"
  BY <1>6 DEF Commands, Following
<1>8. ASSUME NEW h \in Hosts, NEW parts PROVE Has(d, h, parts)' <=> Has(d, h, parts)
  BY <1>1 DEF Has
<1>9. \A h \in Hosts : ~ Did(d, h)' /\ ~ At(d, h, "unpack")'
  BY <1>3 DEF Did, At
<1>10. Built(d)'
  BY <1>2, <1>5, <1>7, <1>8, <1>9 DEF Built, Builds, Did
<1> QED
  BY <1>4, <1>10

\* A step of d itself, in all its forms.
LEMMA MoverBuilds ==
    ASSUME BarrierInv, NEW d \in Deployers, StepOf(d)
    PROVE  Answered(d)' /\ Built(d)'
<1> USE DEF BarrierInv, StageInv, WorkInv, LockSafe, Shape, TypeInv, TypeOK
<1>1. d \in Operators /\ d \notin Rollbackers /\ d \notin Unlockers
  BY OperatorKinds
<1>2. CASE \E h \in Hosts : Works(d, h)
  <2>1. CASE pc[d] \in Builds
    BY <1>2, <2>1, WorksBuilt
  <2>2. CASE pc[d] \notin Builds
    <3>1. pc' = pc
      BY <1>1, <1>2, WorksElsewhere
    <3> QED
      BY <2>2, <3>1 DEF Answered, Built, Builds
  <2> QED
    BY <2>1, <2>2
<1>3. CASE \E h \in Hosts : Answers(d, h)
  BY <1>3, AnswersBuilt
<1>4. CASE Advance(d)
  BY <1>4, AdvanceBuilds
<1>5. CASE \/ StartDeploy(d) \/ StopStep(d) \/ HookFails(d) \/ Finish(d) \/ Notified(d)
           \/ Unlocked(d) \/ Crash(d)
  <2>1. pc'[d] \notin Builds
    BY <1>1, <1>5 DEF StartDeploy, StopStep, HookFails, Failed, Finish, Notified, Unlocked, Crash,
                      Builds
  <2> QED
    BY <2>1 DEF Answered, Built, Builds
<1>6. CASE Send(d)
  <2>1. host' = host /\ pc' = pc /\ rel' = rel /\ dropped' = dropped
    BY <1>6 DEF Send, local
  <2>2. Live(d)' = Live(d) /\ Live(d) \subseteq Hosts
    BY <1>1, <2>1, DeployAssumption DEF Live
  <2>3. \A h \in Hosts : res'[d][h] # "ok" /\ (h \in StepHosts(d) => res'[d][h] # "idle")
    BY <1>1, <1>6 DEF Send
  <2>4. pc[d] \in Builds => StepHosts(d) = Live(d)
    BY DEF StepHosts, Builds
  <2>5. \A h \in Hosts : script'[d][h].at \in {"none", Begin(pc[d])}
    BY <1>1, <1>6 DEF Send, NoScript
  <2>6. pc[d] \in Builds => Begin(pc[d]) \notin {"done", "unpack"}
    BY DEF Begin, Builds
  <2>7. pc[d] \in Builds => \A h \in Hosts : ~ Did(d, h)' /\ ~ At(d, h, "unpack")'
    BY <2>3, <2>5, <2>6 DEF Did, At
  <2>8. Answered(d)'
    BY <2>1, <2>2, <2>3, <2>4 DEF Answered
  <2>9. Built(d)'
    BY <2>1, <2>2, <2>7 DEF Built, Has, Builds
  <2> QED
    BY <2>8, <2>9
<1>7. CASE Cancel(d) \/ \E h \in Hosts : HookDrops(d, h)
  <2>1. host' = host /\ pc' = pc /\ rel' = rel /\ res' = res /\ script' = script
    BY <1>7 DEF Cancel, HookDrops
  <2>2. Live(d)' \subseteq Live(d)
    BY <1>1, <1>7 DEF Cancel, HookDrops, Live
  <2> QED
    BY <2>1, <2>2 DEF Answered, Built, Has, Did, At
<1> QED
  BY <1>1, <1>2, <1>3, <1>4, <1>5, <1>6, <1>7 DEF StepOf, Proceed

\* A step of somebody else.
LEMMA OthersBuild ==
    ASSUME BarrierInv, OnePrimary, Rollbackers = {}, NEW d \in Deployers,
           NEW o \in Operators, o # d, StepOf(o)
    PROVE  Answered(d)' /\ Built(d)'
<1> USE DEF BarrierInv, StageInv, WorkInv, LockSafe, Shape
<1>1. d \in Operators
  BY OperatorKinds
<1>2. /\ pc'[d] = pc[d] /\ res'[d] = res[d] /\ rel'[d] = rel[d] /\ dropped'[d] = dropped[d]
      /\ script'[d] = script[d]
  BY <1>1, OthersStand
<1>3. Live(d)' = Live(d) /\ Live(d) \subseteq Hosts
  BY <1>1, <1>2, DeployAssumption DEF Live
<1>4. Answered(d)'
  BY <1>2, <1>3 DEF Answered
<1>5. Built(d)'
  <2>1. CASE pc[d] \in Builds
    <3>1. \A h \in Hosts : host'[h].content = host[h].content
      BY <1>1, <2>1, WorkerInside, OthersLeaveAlone DEF Builds
    <3> QED
      BY <1>2, <1>3, <2>1, <3>1 DEF Built, Has, Did, At
  <2>2. CASE pc[d] \notin Builds
    BY <1>2, <2>2 DEF Built, Builds
  <2> QED
    BY <2>1, <2>2
<1> QED
  BY <1>4, <1>5

LEMMA BarrierInit == Init => BarrierInv
<1> SUFFICES ASSUME Init PROVE BarrierInv
  OBVIOUS
<1>1. \A d \in Deployers : pc[d] = "idle"
  BY OperatorKinds DEF Init
<1> QED
  BY <1>1, StageInvInit DEF BarrierInv, Answered, Built, Builds

LEMMA BarrierStep ==
    ASSUME LoneUnlocker, OnePrimary, Rollbackers = {}
    PROVE  BarrierInv /\ [Next]_vars => BarrierInv'
<1> SUFFICES ASSUME BarrierInv, [Next]_vars PROVE BarrierInv'
  OBVIOUS
<1>1. StageInv'
  BY StageInvStep DEF BarrierInv
<1>2. CASE UNCHANGED vars
  BY <1>1, <1>2 DEF vars, local, BarrierInv, Answered, Built, Has, Live, Did, At
<1>3. CASE Next
  <2>1. PICK o \in Operators : StepOf(o)
    BY <1>3, NextIsSomebodys
  <2>2. \A d \in Deployers : Answered(d)' /\ Built(d)'
    BY <2>1, MoverBuilds, OthersBuild
  <2> QED
    BY <1>1, <2>2 DEF BarrierInv
<1> QED
  BY <1>2, <1>3

\* The phases are barriers for the hosts left: none is swapped before the release is
\* complete on all, whatever fails, is dropped or dies (deploy.go:234-241).
THEOREM PhasesAreBarriers ==
    ASSUME LoneUnlocker, OnePrimary, Rollbackers = {}
    PROVE  Spec => []PublishBarrier
<1>1. BarrierInv => PublishBarrier
  BY DEF BarrierInv, PublishBarrier, Built, Has, Complete, Parts
<1> QED
  BY BarrierInit, BarrierStep, <1>1, PTL DEF Spec

-----------------------------------------------------------------------------
(* A deploy that reports success runs on its hosts.                        *)

\* What is out under `publish` and `cleanup` went to live hosts only.
SentLive(d) ==
    pc[d] \in {"publish", "cleanup"} => \A h \in Hosts : res[d][h] # "idle" => h \in Live(d)

\* Where the swap came to its end `current` is d's release, and past it everywhere.
RunsOwn(d) ==
    \A h \in Live(d) :
        pc[d] \in {"log", "cleanup", "finished"} \/ (pc[d] = "publish" /\ Did(d, h)) =>
            host[h].current = rel[d]

\* The required hosts and the primary are never dropped (unreachable.go:41-60).
Spared(d) == dropped[d] \cap MustReach(d) = {}

SwapInv ==
    /\ BarrierInv
    /\ \A d \in Deployers : SentLive(d) /\ RunsOwn(d) /\ Spared(d)

\* Past the lock a deploy is inside until it has finished.
Swapping == {"publish", "log", "cleanup", "finished"}

LEMMA SwappingInside ==
    ASSUME WorkInv, NEW d \in Deployers, pc[d] \in Swapping
    PROVE  Inside(d)
BY OperatorKinds DEF WorkInv, LockedWhileWorking, Inside, DeployCommands, Swapping

\* A swap that comes to its end has put d's own release live; nothing after it moves
\* `current`.
LEMMA WorksSwap ==
    ASSUME StageInv, NEW d \in Deployers, NEW h \in Hosts, Works(d, h)
    PROVE  /\ pc[d] = "publish" /\ At(d, h, "done")' => host'[h].current = rel[d]
           /\ pc[d] # "publish" => host'[h].current = host[h].current
<1> USE DEF StageInv, WorkInv, LockSafe, Shape
<1>1. d \in Operators /\ pc[d] # "rollback"
  BY OperatorKinds DEF TypeInv, Roles
<1>2. Line(script[d][h].at, pc[d]) /\ script[d][h].at \in Places \ {"none", "done"}
  BY <1>1, WorksElsewhere DEF Scripts
<1>3. CASE LinkStep(d, h)
  <2>1. pc[d] = "publish"
    BY <1>1, <1>2, <1>3 DEF LinkStep, At, Line
  <2>2. NoRelease \notin Dirs(host[h])
    <3>1. host[h] \in HostState
      BY <1>1, WorksElsewhere
    <3> QED
      BY <3>1, DirsUpdate, DeployAssumption
  <2>3. Linking(d)
    OBVIOUS
  <2> QED
    BY <1>3, <2>1, <2>2, <2>3 DEF LinkStep, Linking, At
<1>4. CASE ~ LinkStep(d, h)
  <2>1. /\ host'[h].current = host[h].current
        /\ script[d][h].at \notin {"untmp", "ln", "mv", "unlink", "move"}
    BY <1>1, <1>4, WorksFrame
  <2>2. pc[d] # "publish"
    BY <1>2, <2>1 DEF Places, Line
  <2> QED
    BY <2>1, <2>2
<1> QED
  BY <1>3, <1>4

LEMMA WorksRunsOwn ==
    ASSUME SwapInv, NEW d \in Deployers, NEW h \in Hosts, Works(d, h)
    PROVE  SentLive(d)' /\ RunsOwn(d)' /\ Spared(d)'
<1> USE DEF SwapInv, BarrierInv, StageInv, WorkInv, LockSafe, Shape
<1>1. d \in Operators
  BY OperatorKinds
<1>2. /\ pc' = pc /\ res' = res /\ rel' = rel /\ dropped' = dropped
      /\ \A g \in Hosts \ {h} : host'[g] = host[g] /\ script'[d][g] = script[d][g]
      /\ res[d][h] = "sent"
  BY <1>1, WorksElsewhere DEF local
<1>3. Live(d)' = Live(d) /\ Live(d) \subseteq Hosts
  BY <1>1, <1>2, DeployAssumption DEF Live
<1>4. SentLive(d)' /\ Spared(d)'
  BY <1>2, <1>3 DEF SentLive, Spared, MustReach, Primary
<1>5. RunsOwn(d)'
  <2> SUFFICES ASSUME NEW g \in Live(d),
                      pc[d] \in {"log", "cleanup", "finished"} \/ (pc[d] = "publish" /\ Did(d, g)')
               PROVE  host'[g].current = rel[d]
    BY <1>2, <1>3 DEF RunsOwn
  <2>1. CASE g = h
    BY <1>2, <2>1, WorksSwap DEF RunsOwn, Did
  <2>2. CASE g # h
    <3>1. host'[g] = host[g] /\ (Did(d, g)' <=> Did(d, g))
      BY <1>2, <1>3, <2>2 DEF Did, At
    <3> QED
      BY <3>1 DEF RunsOwn
  <2> QED
    BY <2>1, <2>2
<1> QED
  BY <1>4, <1>5

LEMMA AnswersRunsOwn ==
    ASSUME SwapInv, NEW d \in Deployers, NEW h \in Hosts, Answers(d, h)
    PROVE  SentLive(d)' /\ RunsOwn(d)' /\ Spared(d)'
<1> USE DEF SwapInv, BarrierInv, StageInv, WorkInv, LockSafe, Shape, TypeInv, TypeOK
<1>1. PICK result \in {"ok", "failed", "lost", "canceled"} :
        Reply(d, h, result) /\ (result = "ok" => At(d, h, "done"))
  BY OperatorKinds, AnswersReply
<1>2. /\ d \in Operators /\ pc' = pc /\ rel' = rel /\ dropped' = dropped /\ host' = host
      /\ res' = [res EXCEPT ![d][h] = result] /\ script' = [script EXCEPT ![d][h] = NoScript]
      /\ res[d][h] = "sent"
  BY <1>1, OperatorKinds DEF Reply, local
<1>3. Live(d)' = Live(d) /\ Live(d) \subseteq Hosts
  BY <1>2, DeployAssumption DEF Live
<1>4. \A g \in Hosts : (Did(d, g)' => Did(d, g)) /\ (res'[d][g] # "idle" => res[d][g] # "idle")
  <2>1. ASSUME NEW g \in Hosts, g # h PROVE res'[d][g] = res[d][g] /\ script'[d][g] = script[d][g]
    BY <1>2, <2>1
  <2>2. res'[d][h] = result
    BY <1>2
  <2> QED
    BY <1>1, <1>2, <2>1, <2>2 DEF Did, At
<1>5. SentLive(d)' /\ Spared(d)'
  BY <1>2, <1>3, <1>4 DEF SentLive, Spared, MustReach, Primary
<1>6. RunsOwn(d)'
  BY <1>2, <1>3, <1>4 DEF RunsOwn
<1> QED
  BY <1>5, <1>6

LEMMA AdvanceSwaps ==
    ASSUME SwapInv, NEW d \in Deployers, Advance(d)
    PROVE  SentLive(d)' /\ RunsOwn(d)' /\ Spared(d)'
<1> USE DEF SwapInv, BarrierInv, StageInv, WorkInv, LockSafe, Shape, TypeInv, TypeOK
<1>1. d \in Operators /\ res'[d] = NoResults /\ host' = host /\ rel' = rel
      /\ dropped'[d] = dropped[d] \cup Bad(d)
  BY OperatorKinds DEF Advance
<1>2. Live(d)' = Live(d) \ Bad(d) /\ Live(d) \subseteq Hosts
  BY <1>1, DeployAssumption DEF Live
<1>3. \A h \in Hosts : res'[d][h] = "idle"
  BY <1>1 DEF NoResults
<1>4. pc[d] \in Commands \ {"unlock"}
      /\ pc'[d] = (IF pc[d] = "sha" /\ Bad(d) # {} THEN "sha" ELSE Following[pc[d]])
  BY <1>1 DEF Advance
<1>5. /\ pc'[d] = "log" => pc[d] = "publish"
      /\ pc'[d] = "cleanup" => pc[d] = "log"
      /\ pc[d] \in Commands /\ pc'[d] = "finished" => pc[d] = "cleanup"
  <2>1. pc[d] # "rollback"
    BY <1>1, OperatorKinds DEF Roles
  <2> QED
    BY <1>4, <2>1 DEF Commands, Following
<1>6. ASSUME pc[d] = "publish", NEW h \in Live(d)' PROVE h \in Live(d) /\ res[d][h] = "ok"
  <2>1. res[d][h] \notin {"idle", "sent", "failed", "lost", "canceled"}
    BY <1>2, <1>6 DEF Advance, Returned, Answered, Bad, Builds
  <2>2. res[d][h] \in Results
    BY <1>1, <1>2, <1>6
  <2> QED
    BY <1>2, <1>6, <2>1, <2>2 DEF Results
<1>7. SentLive(d)'
  BY <1>3 DEF SentLive
<1>8. RunsOwn(d)'
  <2> SUFFICES ASSUME NEW h \in Live(d)', pc'[d] \in {"log", "cleanup", "finished"}
               PROVE  host[h].current = rel[d]
    BY <1>1, <1>2, <1>3 DEF RunsOwn, Did, At
  <2> QED
    BY <1>2, <1>4, <1>5, <1>6 DEF RunsOwn, Did
<1>9. Spared(d)'
  <2>1. Bad(d) \subseteq Droppable(d)
    BY DEF Advance, Passed
  <2> QED
    BY <1>1, <2>1 DEF Spared, Droppable, MustReach, Primary
<1> QED
  BY <1>7, <1>8, <1>9

\* A step of d itself, in all its forms.
LEMMA MoverSwaps ==
    ASSUME SwapInv, NEW d \in Deployers, StepOf(d)
    PROVE  SentLive(d)' /\ RunsOwn(d)' /\ Spared(d)'
<1> USE DEF SwapInv, BarrierInv, StageInv, WorkInv, LockSafe, Shape, TypeInv, TypeOK
<1>1. d \in Operators /\ d \notin Rollbackers /\ d \notin Unlockers
  BY OperatorKinds
<1>2. CASE \E h \in Hosts : Works(d, h)
  BY <1>2, WorksRunsOwn
<1>3. CASE Advance(d)
  BY <1>3, AdvanceSwaps
<1>4. CASE \/ StartDeploy(d) \/ StopStep(d) \/ HookFails(d) \/ Finish(d) \/ Notified(d)
           \/ Unlocked(d) \/ Crash(d)
  <2>1. pc'[d] \notin Swapping /\ dropped' = dropped
    BY <1>1, <1>4 DEF StartDeploy, StopStep, HookFails, Failed, Finish, Notified, Unlocked, Crash,
                      Swapping, local
  <2> QED
    BY <2>1 DEF SentLive, RunsOwn, Spared, Swapping, MustReach, Primary
<1>5. CASE Send(d)
  <2>1. host' = host /\ pc' = pc /\ rel' = rel /\ dropped' = dropped
    BY <1>5 DEF Send, local
  <2>2. Live(d)' = Live(d) /\ Live(d) \subseteq Hosts
    BY <1>1, <2>1, DeployAssumption DEF Live
  <2>3. \A h \in Hosts : res'[d][h] # "ok" /\ (h \notin StepHosts(d) => res'[d][h] = "idle")
    BY <1>1, <1>5 DEF Send
  <2>4. pc[d] \in {"publish", "cleanup"} => StepHosts(d) = Live(d)
    BY DEF StepHosts
  <2>5. \A h \in Hosts : script'[d][h].at \in {"none", Begin(pc[d])}
    BY <1>1, <1>5 DEF Send, NoScript
  <2>6. pc[d] = "publish" => \A h \in Hosts : ~ Did(d, h)'
    BY <2>3, <2>5 DEF Did, At, Begin
  <2>7. SentLive(d)' /\ Spared(d)'
    BY <2>1, <2>2, <2>3, <2>4 DEF SentLive, Spared, MustReach, Primary
  <2>8. RunsOwn(d)'
    BY <2>1, <2>2, <2>6 DEF RunsOwn
  <2> QED
    BY <2>7, <2>8
<1>6. CASE Cancel(d)
  <2>1. host' = host /\ pc' = pc /\ rel' = rel /\ dropped' = dropped /\ res' = res /\ script' = script
    BY <1>6 DEF Cancel
  <2> QED
    BY <2>1 DEF SentLive, RunsOwn, Spared, Live, MustReach, Primary, Did, At
<1>7. CASE \E h \in Hosts : HookDrops(d, h)
  <2>1. PICK h \in Hosts : HookDrops(d, h)
    BY <1>7
  <2>2. host' = host /\ pc' = pc /\ rel' = rel /\ res' = res /\ script' = script /\ res[d] = NoResults
        /\ dropped'[d] = dropped[d] \cup {h} /\ h \notin MustReach(d)
    BY <1>1, <2>1 DEF HookDrops, AtHooks
  <2>3. Live(d)' \subseteq Live(d)
    BY <2>2 DEF Live
  <2> QED
    BY <2>2, <2>3 DEF SentLive, RunsOwn, Spared, NoResults, MustReach, Primary, Did, At
<1>8. CASE \E h \in Hosts : Answers(d, h)
  BY <1>8, AnswersRunsOwn
<1> QED
  BY <1>1, <1>2, <1>3, <1>4, <1>5, <1>6, <1>7, <1>8 DEF StepOf, Proceed

\* Nobody but d moves a `current` while d is inside.
LEMMA OthersMoveNothing ==
    ASSUME StageInv, OnePrimary, Rollbackers = {}, NEW d \in Deployers, Inside(d),
           NEW o \in Operators, o # d, StepOf(o), NEW h \in Hosts
    PROVE  host'[h].current = host[h].current /\ host'[h].tmp = host[h].tmp
<1> USE DEF StageInv, WorkInv, LockSafe, Shape
<1>1. CASE \E g \in Hosts : Works(o, g)
  <2>1. PICK g \in Hosts : Works(o, g)
    BY <1>1
  <2>2. ~ LinkStep(o, g)
    BY SwapsAlone
  <2>3. host'[g].current = host[g].current /\ host'[g].tmp = host[g].tmp
    BY <2>1, <2>2, WorksFrame
  <2>4. g # h => host'[h] = host[h]
    BY <2>1, WorksElsewhere
  <2> QED
    BY <2>3, <2>4
<1>2. CASE ~ \E g \in Hosts : Works(o, g)
  <2>1. host' = host
    BY <1>2, OnlyScripts
  <2> QED
    BY <2>1
<1> QED
  BY <1>1, <1>2

\* A step of somebody else moves no `current` while d swaps, or runs its own release.
LEMMA OthersSwap ==
    ASSUME SwapInv, OnePrimary, Rollbackers = {}, NEW d \in Deployers,
           NEW o \in Operators, o # d, StepOf(o)
    PROVE  SentLive(d)' /\ RunsOwn(d)' /\ Spared(d)'
<1> USE DEF SwapInv, BarrierInv, StageInv, WorkInv, LockSafe, Shape
<1>1. d \in Operators
  BY OperatorKinds
<1>2. /\ pc'[d] = pc[d] /\ res'[d] = res[d] /\ rel'[d] = rel[d] /\ dropped'[d] = dropped[d]
      /\ script'[d] = script[d]
  BY <1>1, OthersStand
<1>3. Live(d)' = Live(d) /\ Live(d) \subseteq Hosts
  BY <1>1, <1>2, DeployAssumption DEF Live
<1>4. ASSUME pc[d] \in Swapping, NEW h \in Hosts PROVE host'[h].current = host[h].current
  BY <1>4, SwappingInside, OthersMoveNothing
<1>5. SentLive(d)'
  BY <1>2, <1>3 DEF SentLive
<1>6. RunsOwn(d)'
  BY <1>2, <1>3, <1>4 DEF RunsOwn, Swapping, Did, At
<1>7. Spared(d)'
  BY <1>2 DEF Spared, MustReach, Primary
<1> QED
  BY <1>5, <1>6, <1>7

LEMMA SwapInit == Init => SwapInv
<1> SUFFICES ASSUME Init PROVE SwapInv
  OBVIOUS
<1>1. \A d \in Deployers : pc[d] = "idle" /\ dropped[d] = {}
  BY OperatorKinds DEF Init
<1> QED
  BY <1>1, BarrierInit DEF SwapInv, SentLive, RunsOwn, Spared

LEMMA SwapStep ==
    ASSUME LoneUnlocker, OnePrimary, Rollbackers = {}
    PROVE  SwapInv /\ [Next]_vars => SwapInv'
<1> SUFFICES ASSUME SwapInv, [Next]_vars PROVE SwapInv'
  OBVIOUS
<1>1. BarrierInv'
  BY BarrierStep DEF SwapInv
<1>2. CASE UNCHANGED vars
  BY <1>1, <1>2 DEF vars, local, SwapInv, SentLive, RunsOwn, Spared, Live, MustReach, Primary, Did, At
<1>3. CASE Next
  <2>1. PICK o \in Operators : StepOf(o)
    BY <1>3, NextIsSomebodys
  <2>2. \A d \in Deployers : SentLive(d)' /\ RunsOwn(d)' /\ Spared(d)'
    BY <2>1, MoverSwaps, OthersSwap
  <2> QED
    BY <1>1, <2>2 DEF SwapInv
<1> QED
  BY <1>2, <1>3

\* The step in which a deploy's verdict becomes a success is the end of its lifecycle.
LEMMA VerdictStep ==
    ASSUME SwapInv, [Next]_vars, NEW d \in Deployers,
           verdict[d] = "none", verdict'[d] \in {"ok", "skipped"}
    PROVE  Finish(d)
<1> USE DEF SwapInv, BarrierInv, StageInv, WorkInv, LockSafe, Shape, TypeInv, TypeOK
<1>1. d \in Operators
  BY OperatorKinds
<1>2. verdict'[d] # verdict[d]
  OBVIOUS
<1>3. Next
  BY <1>2 DEF vars, local
<1>4. PICK o \in Operators : StepOf(o)
  BY <1>3, NextIsSomebodys
<1>5. o = d
  BY <1>1, <1>2, <1>4, OthersStand
<1>6. Advance(d) \/ StopStep(d) \/ HookFails(d) \/ Finish(d)
  <2>1. \A h \in Hosts : Works(d, h) \/ Answers(d, h) => verdict' = verdict
    BY <1>1, WorksElsewhere, AnswersReply DEF Reply, local
  <2> QED
    BY <1>1, <1>2, <1>4, <1>5, <2>1, OperatorKinds DEF StepOf, StartDeploy, Proceed, Send, Notified,
       Unlocked, Cancel, Crash, HookDrops, local
<1>7. ~ (StopStep(d) \/ HookFails(d))
  BY <1>1 DEF StopStep, HookFails, Failed
<1>8. ~ Advance(d)
  <2>1. SUFFICES ASSUME Advance(d) PROVE FALSE
    OBVIOUS
  <2>2. pc[d] \in Commands \ {"unlock"} /\ Following[pc[d]] = "ended"
    BY <1>1, <1>2, <2>1 DEF Advance
  <2>3. pc[d] = "clear"
    BY <2>2 DEF Commands, Following
  <2> QED
    BY <1>1, <2>3, OperatorKinds DEF Roles
<1> QED
  BY <1>6, <1>7, <1>8

\* A deploy that reports success runs on all its hosts, one that reports skipped hosts
\* on the others, the required ones and the primary among them: for any hosts, filters
\* with one primary, deploys and faults (deploy.go:279-289, 364-368).
THEOREM SuccessRuns ==
    ASSUME LoneUnlocker, OnePrimary, Rollbackers = {}
    PROVE  Spec => SuccessMeansLive
<1> DEFINE Reports ==
      \A d \in Deployers :
          verdict[d] = "none" /\ verdict'[d] \in {"ok", "skipped"} =>
              \A h \in IF verdict'[d] = "ok" THEN Targets[d]
                       ELSE Live(d) \cup (MustReach(d) \cap Targets[d]) :
                  host[h].current = rel[d]
<1>1. SwapInv /\ [Next]_vars => Reports
  <2> SUFFICES ASSUME SwapInv, [Next]_vars, NEW d \in Deployers,
                      verdict[d] = "none", verdict'[d] \in {"ok", "skipped"}
               PROVE  \A h \in IF verdict'[d] = "ok" THEN Targets[d]
                               ELSE Live(d) \cup (MustReach(d) \cap Targets[d]) :
                          host[h].current = rel[d]
    OBVIOUS
  <2>1. Finish(d)
    BY VerdictStep
  <2>2. \A h \in Live(d) : host[h].current = rel[d]
    BY <2>1 DEF Finish, SwapInv, RunsOwn
  <2>3. verdict'[d] = "ok" => Live(d) = Targets[d]
    BY <2>1, OperatorKinds
       DEF Finish, Live, SwapInv, BarrierInv, StageInv, WorkInv, LockSafe, Shape, TypeInv, TypeOK
  <2>4. MustReach(d) \cap Targets[d] \subseteq Live(d)
    BY DEF SwapInv, Spared, Live
  <2> QED
    BY <2>2, <2>3, <2>4
<1> HIDE DEF Reports
<1>2. SwapInv /\ [Next]_vars => [Reports]_vars
  BY <1>1
<1>3. Spec => [][Reports]_vars
  BY SwapInit, SwapStep, <1>2, PTL DEF Spec
<1> QED
  BY <1>3 DEF SuccessMeansLive, Reports

-----------------------------------------------------------------------------
(* `current` names a complete release.                                     *)

\* Every release directory was there at the start, or is of a deploy that had the lock.
BuiltByOne ==
    \A h \in Hosts : \A q \in Dirs(host[h]) :
        q \in 1..InitialReleases \/ \E e \in Deployers : locked[e] /\ rel[e] = q

\* Deploys with later names that had the lock.
Overtaking(d) == {e \in Deployers : locked[e] /\ rel[e] > rel[d]}

\* The names later than d's there may be: of releases from before, and of deploys that
\* had the lock.
NewerNames(d) == {q \in 1..InitialReleases : q > rel[d]} \cup {rel[e] : e \in Overtaking(d)}

\* Fewer of them than releases are kept.  A deploy whose clock is behind so far that
\* there are more prunes the release it has just made current, the oldest by name.
FewOvertake ==
    \A d \in Deployers : Inside(d) =>
        IsFiniteSet(NewerNames(d)) /\ Cardinality(NewerNames(d)) < KeepReleases

\* What d's cleanup is about to list or to remove is not d's own release.
Pruning(d) ==
    \A h \in Hosts :
        /\ At(d, h, "list") => script[d][h].n = Cardinality(Dirs(host[h])) - KeepReleases
        /\ At(d, h, "prune") => script[d][h].gone # {} /\ rel[d] \notin script[d][h].gone

KeepInv ==
    SwapInv /\ BuiltByOne /\ LiveReleaseComplete /\ \A d \in Deployers : Pruning(d)

\* Four lines make a directory, the one of the release built.
LEMMA DirsFrame ==
    ASSUME TypeInv, NEW o \in Operators, NEW h \in Hosts, Works(o, h)
    PROVE  \A q \in Dirs(host'[h]) :
              q \in Dirs(host[h]) \/ (pc[o] \in {"create", "revision", "link"} /\ q = rel[o])
<1> DEFINE s == host[h]
<1>1. /\ s \in HostState /\ script[o][h] \in Scripts /\ Line(script[o][h].at, pc[o])
      /\ host \in [Hosts -> HostState] /\ script \in [Operators -> [Hosts -> Scripts]]
  BY WorksElsewhere DEF TypeInv, TypeOK
<1>2. ASSUME NEW next, NEW after, Run(o, h, next, after) PROVE host'[h] = after
  BY <1>1, <1>2 DEF Run
<1>3. /\ {"dir"} \in SUBSET Parts /\ {"tree"} \in SUBSET Parts /\ {"revision"} \in SUBSET Parts
      /\ {"dir", "links"} \in SUBSET Parts
  BY DEF Parts
<1>4. CASE MakeRelease(o, h) \/ Unpack(o, h) \/ WriteRevision(o, h) \/ LinkShared(o, h)
  <2>1. PICK parts \in SUBSET Parts : host'[h] = With(s, rel[o], parts)
    BY <1>2, <1>3, <1>4 DEF MakeRelease, Unpack, WriteRevision, LinkShared
  <2>3. Dirs(With(s, rel[o], parts)) \subseteq Dirs(s) \cup {rel[o]}
    BY <1>1, DirsUpdate
  <2>2. pc[o] \in {"create", "revision", "link"}
    BY <1>1, <1>4 DEF MakeRelease, Unpack, WriteRevision, LinkShared, At, Line
  <2> QED
    BY <2>1, <2>2, <2>3
<1>5. CASE RemoveFrom(o, h) \/ Prune(o, h)
  <2>1. host'[h] = s \/ \E r : host'[h] \in Removals(s, r)
    BY <1>2, <1>5 DEF RemoveFrom, Prune
  <2>2. \A r : \A t \in Removals(s, r) : Dirs(t) \subseteq Dirs(s)
    BY <1>1, DirsUpdate
  <2> QED
    BY <2>1, <2>2
<1>6. CASE ~ (MakeRelease(o, h) \/ Unpack(o, h) \/ WriteRevision(o, h) \/ LinkShared(o, h)
              \/ RemoveFrom(o, h) \/ Prune(o, h))
  <2>1. CASE RemoveTmp(o, h) \/ LinkTmp(o, h) \/ RenameTmp(o, h) \/ Unlink(o, h) \/ MoveTmp(o, h)
    BY <2>1, LinkFrame DEF Dirs
  <2>2. CASE Open(o, h) \/ WriteInfo(o, h) \/ RemoveLock(o, h)
    <3>1. \E l : host'[h] \in {s, [s EXCEPT !.lock = l]}
      BY <1>2, <2>2 DEF Open, WriteInfo, RemoveLock
    <3>2. \A l : Dirs([s EXCEPT !.lock = l]) = Dirs(s)
      BY <1>1, DirsUpdate
    <3> QED
      BY <3>1, <3>2
  <2>3. CASE TestRelease(o, h) \/ ReadCurrent(o, h) \/ FindCurrent(o, h) \/ FindPrevious(o, h)
             \/ CountReleases(o, h) \/ ListOldest(o, h)
    <3>1. host'[h] = s
      BY <1>2, <2>3 DEF TestRelease, ReadCurrent, FindCurrent, FindPrevious, CountReleases,
                        ListOldest, Listed
    <3> QED
      BY <3>1
  <2> QED
    BY <1>6, <2>1, <2>2, <2>3 DEF Works
<1> QED
  BY <1>4, <1>5, <1>6

\* A name that had the lock keeps it in mind.
LEMMA NamesKept ==
    ASSUME WorkInv, NEW o \in Operators, StepOf(o), NEW e \in Deployers, locked[e]
    PROVE  locked'[e] /\ rel'[e] = rel[e]
<1> USE DEF WorkInv, LockSafe, Shape, TypeInv, TypeOK
<1>1. e \in Operators /\ e \notin Rollbackers /\ e \notin Unlockers
  BY OperatorKinds
<1>2. CASE e # o
  BY <1>1, <1>2, OthersStand
<1>3. CASE e = o
  <2>1. ~ StartDeploy(o)
    BY <1>1, <1>3 DEF StartDeploy, LockedLate
  <2>2. \A h \in Hosts : Works(o, h) \/ Answers(o, h) => locked' = locked /\ rel' = rel
    BY WorksElsewhere, AnswersReply DEF Reply, local
  <2> QED
    BY <1>1, <1>3, <2>1, <2>2 DEF StepOf, Proceed, Send, Advance, StopStep, HookFails, Failed,
       Finish, Notified, Unlocked, Cancel, Crash, HookDrops, local
<1> QED
  BY <1>2, <1>3

LEMMA BuiltByOneStep ==
    ASSUME WorkInv, BuiltByOne, [Next]_vars
    PROVE  BuiltByOne'
<1> USE DEF WorkInv, LockSafe, Shape
<1>1. CASE UNCHANGED vars
  BY <1>1 DEF vars, local, BuiltByOne
<1>2. CASE Next
  <2>1. PICK o \in Operators : StepOf(o)
    BY <1>2, NextIsSomebodys
  <2>2. \A e \in Deployers : locked[e] => locked'[e] /\ rel'[e] = rel[e]
    BY <2>1, NamesKept
  <2>3. CASE \E g \in Hosts : Works(o, g)
    <3>1. PICK g \in Hosts : Works(o, g)
      BY <2>3
    <3>2. \A h \in Hosts : \A q \in Dirs(host'[h]) :
             q \in Dirs(host[h]) \/ (pc[o] \in {"create", "revision", "link"} /\ q = rel[o])
      BY <3>1, WorksElsewhere, DirsFrame
    <3>3. pc[o] \in {"create", "revision", "link"} => o \in Deployers /\ locked[o]
      BY WorkerInside DEF Inside
    <3> QED
      BY <2>2, <3>2, <3>3 DEF BuiltByOne, Dirs
  <2>4. CASE ~ \E g \in Hosts : Works(o, g)
    <3>1. host' = host
      BY <2>1, <2>4, OnlyScripts
    <3> QED
      BY <2>2, <3>1 DEF BuiltByOne
  <2> QED
    BY <2>3, <2>4
<1> QED
  BY <1>1, <1>2

\* The names of a finite set on either side of one of them.
LEMMA Sides ==
    ASSUME NEW S \in SUBSET Nat, IsFiniteSet(S), NEW r \in S
    PROVE  LET L == {q \in S : q < r}  G == {q \in S : q > r}
           IN  /\ IsFiniteSet(L) /\ IsFiniteSet(G)
               /\ Cardinality(L) \in Nat /\ Cardinality(G) \in Nat
               /\ Cardinality(S) = Cardinality(L) + Cardinality(G) + 1
<1> DEFINE L == {q \in S : q < r}
           G == {q \in S : q > r}
<1>1. L \in SUBSET S /\ G \in SUBSET S
  OBVIOUS
<1>2. S = (L \cup G) \cup {r}
  <2>1. \A q \in S : q \in Nat /\ r \in Nat
    OBVIOUS
  <2>2. \A q \in S : q < r \/ q > r \/ q = r
    BY <2>1
  <2> QED
    BY <2>2
<1>3. L \cap G = {} /\ r \notin L \cup G
  <2>1. \A q \in S : q \in Nat /\ r \in Nat
    OBVIOUS
  <2>2. \A q \in S : ~ (q < r /\ q > r) /\ (q = r => ~ (q < r) /\ ~ (q > r))
    BY <2>1
  <2> QED
    BY <2>2
<1>4. IsFiniteSet(L) /\ IsFiniteSet(G)
  BY <1>1, FS_Subset
<1> HIDE DEF L, G
<1>5. IsFiniteSet(L \cup G)
      /\ Cardinality(L \cup G) = Cardinality(L) + Cardinality(G) - Cardinality(L \cap G)
  BY <1>4, FS_Union
<1>6. Cardinality((L \cup G) \cup {r}) = Cardinality(L \cup G) + 1
  BY <1>3, <1>5, FS_AddElement
<1>7. Cardinality(L) \in Nat /\ Cardinality(G) \in Nat /\ Cardinality(L \cap G) = 0
  BY <1>3, <1>4, FS_CardinalityType, FS_EmptySet
<1>8. Cardinality(S) = Cardinality(L) + Cardinality(G) + 1
  BY <1>2, <1>5, <1>6, <1>7
<1> QED
  BY <1>4, <1>7, <1>8 DEF L, G

\* The cleanup script, line by line (cleanup.sh.tmpl): it removes what it listed and
\* nothing else.
LEMMA PruneFrame ==
    ASSUME TypeInv, NEW o \in Operators, NEW h \in Hosts, Works(o, h), pc[o] = "cleanup",
           At(o, h, "prune") => script[o][h].gone # {}
    PROVE  \/ /\ At(o, h, "count") /\ host'[h] = host[h]
              /\ \/ script'[o][h].at = "done"
                 \/ /\ script'[o][h].at = "list"
                    /\ script'[o][h].n = Cardinality(Dirs(host[h])) - KeepReleases
           \/ /\ At(o, h, "list") /\ host'[h] = host[h]
              /\ script'[o][h].at \in {"prune", "done"}
              /\ script'[o][h].gone = Oldest(host[h], script[o][h].n)
              /\ script'[o][h].at = "prune" => script'[o][h].gone # {}
           \/ /\ At(o, h, "prune") /\ script'[o][h].at \in {"prune", "done"}
              /\ script'[o][h].gone \subseteq script[o][h].gone
              /\ script'[o][h].at = "prune" => script'[o][h].gone # {}
              /\ host'[h].current = host[h].current /\ host'[h].tmp = host[h].tmp
              /\ \A x \in host[h].content : x \in host'[h].content \/ x[1] \in script[o][h].gone
<1> DEFINE s == host[h]
<1>1. /\ s \in HostState /\ script[o][h] \in Scripts /\ Line(script[o][h].at, pc[o])
      /\ host \in [Hosts -> HostState] /\ script \in [Operators -> [Hosts -> Scripts]]
      /\ script[o][h].at \in Places \ {"none", "done"}
  BY WorksElsewhere DEF TypeInv, TypeOK, Scripts
<1>2. ASSUME NEW next, NEW after, Run(o, h, next, after)
      PROVE  host'[h] = after /\ script'[o][h] = next
  BY <1>1, <1>2 DEF Run
<1>3. script[o][h].at \in {"count", "list", "prune"}
  BY <1>1 DEF Line, Places
<1>4. /\ \A p : Goto(o, h, p).at = p
      /\ \A p, k : /\ [Goto(o, h, p) EXCEPT !.n = k].at = p
                   /\ [Goto(o, h, p) EXCEPT !.n = k].n = k
      /\ \A p, k : /\ [Goto(o, h, p) EXCEPT !.gone = k].at = p
                   /\ [Goto(o, h, p) EXCEPT !.gone = k].gone = k
  BY <1>1 DEF Goto, Scripts
<1>5. CASE CountReleases(o, h)
  <2> DEFINE n == Cardinality(Dirs(s)) - KeepReleases
  <2>1. /\ host'[h] = s
        /\ \/ script'[o][h] = [Goto(o, h, "list") EXCEPT !.n = n]
           \/ script'[o][h] = Goto(o, h, "done")
    BY <1>2, <1>5 DEF CountReleases
  <2>2. /\ [Goto(o, h, "list") EXCEPT !.n = n].at = "list"
        /\ [Goto(o, h, "list") EXCEPT !.n = n].n = n
        /\ Goto(o, h, "done").at = "done"
    BY <1>4
  <2>3. At(o, h, "count")
    BY <1>5 DEF CountReleases
  <2> HIDE DEF n
  <2>4. \/ script'[o][h].at = "done"
        \/ script'[o][h].at = "list" /\ script'[o][h].n = n
    BY <2>1, <2>2
  <2> QED
    BY <2>1, <2>3, <2>4 DEF n
<1>6. CASE ListOldest(o, h)
  <2> DEFINE g == Oldest(s, script[o][h].n)
             p == IF g = {} THEN "done" ELSE "prune"
  <2>1. host'[h] = s /\ script'[o][h] = [Goto(o, h, p) EXCEPT !.gone = g]
    BY <1>2, <1>6 DEF ListOldest, Listed
  <2>2. /\ [Goto(o, h, p) EXCEPT !.gone = g].at = p
        /\ [Goto(o, h, p) EXCEPT !.gone = g].gone = g
    BY <1>4
  <2>3. At(o, h, "list") /\ p \in {"prune", "done"}
    BY <1>6 DEF ListOldest
  <2> HIDE DEF g
  <2>4. /\ script'[o][h].at \in {"prune", "done"} /\ script'[o][h].gone = g
        /\ script'[o][h].at = "prune" => g # {}
    BY <2>1, <2>2, <2>3
  <2> QED
    BY <2>1, <2>3, <2>4 DEF g
<1>7. CASE Prune(o, h)
  <2> DEFINE gone == script[o][h].gone
             r == CHOOSE q \in gone : \A p \in gone : q <= p
             p == IF gone = {r} THEN "done" ELSE "prune"
             rest == [Goto(o, h, p) EXCEPT !.gone = gone \ {r}]
  <2>1. At(o, h, "prune")
    BY <1>7 DEF Prune
  <2>2. \/ \E after \in Removals(s, r) : /\ host'[h] = after
                                         /\ script'[o][h] \in {script[o][h], rest}
        \/ host'[h] = s /\ script'[o][h] = rest
    BY <1>2, <1>7 DEF Prune
  <2>3. rest.at = p /\ rest.gone = gone \ {r}
    BY <1>4
  <2>4. r \in gone
    <3>1. gone \in SUBSET Nat /\ gone # {}
      BY <1>1, <2>1 DEF Scripts
    <3> HIDE DEF gone
    <3> QED
      BY <3>1, FirstName
  <2>5. script'[o][h] \in {script[o][h], rest}
    BY <2>2
  <2>6. /\ p \in {"prune", "done"}
        /\ p = "prune" => gone \ {r} # {}
    <3> HIDE DEF r, gone
    <3> QED
      BY <2>4
  <2>7. /\ script'[o][h].at \in {"prune", "done"} /\ script'[o][h].gone \subseteq gone
        /\ script'[o][h].at = "prune" => script'[o][h].gone # {}
    <3>1. gone = script[o][h].gone /\ gone # {}
      BY <2>4
    <3> HIDE DEF rest, p, r, gone
    <3> QED
      BY <2>1, <2>3, <2>5, <2>6, <3>1 DEF At
  <2>8. \A after \in Removals(s, r) :
           /\ after.current = s.current /\ after.tmp = s.tmp
           /\ \A x \in s.content : x[1] # r => x \in after.content
    BY <1>1 DEF Removals, HostState
  <2>9. /\ host'[h].current = s.current /\ host'[h].tmp = s.tmp
        /\ \A x \in s.content : x \in host'[h].content \/ x[1] = r
    <3> HIDE DEF rest, p, r, gone
    <3> QED
      BY <2>2, <2>8
  <2> QED
    BY <2>1, <2>4, <2>7, <2>9
<1> QED
  BY <1>3, <1>5, <1>6, <1>7, <1>1 DEF Works, At, Open, WriteInfo, RemoveLock, TestRelease,
     MakeRelease, Unpack, WriteRevision, LinkShared, ReadCurrent, FindCurrent, FindPrevious,
     RemoveTmp, LinkTmp, RenameTmp, Unlink, MoveTmp, RemoveFrom

\* Where fewer than KeepReleases later names there may be, a deploy's own release is not
\* among the oldest that are too many.
LEMMA OwnIsKept ==
    ASSUME KeepInv, FewOvertake, NEW d \in Deployers, Inside(d), NEW h \in Hosts
    PROVE  rel[d] \notin Oldest(host[h], Cardinality(Dirs(host[h])) - KeepReleases)
<1> DEFINE D == Dirs(host[h])
           L == {q \in D : q < rel[d]}
           G == {q \in D : q > rel[d]}
<1>1. /\ D \in SUBSET Nat /\ IsFiniteSet(D) /\ host[h] \in HostState
  BY DirsUpdate DEF KeepInv, SwapInv, BarrierInv, StageInv, WorkInv, LockSafe, Shape, TypeInv, TypeOK,
                    Scripted
<1> SUFFICES ASSUME rel[d] \in D PROVE ~ (Cardinality(L) < Cardinality(D) - KeepReleases)
  BY DEF Oldest
<1>2. G \subseteq NewerNames(d)
  <2> SUFFICES ASSUME NEW q \in D, q > rel[d] PROVE q \in NewerNames(d)
    OBVIOUS
  <2>1. q \in 1..InitialReleases \/ \E e \in Deployers : locked[e] /\ rel[e] = q
    BY DEF KeepInv, BuiltByOne
  <2> QED
    BY <2>1 DEF NewerNames, Overtaking
<1>3. IsFiniteSet(NewerNames(d)) /\ Cardinality(NewerNames(d)) < KeepReleases
  BY DEF FewOvertake
<1>4. Cardinality(G) <= Cardinality(NewerNames(d)) /\ Cardinality(NewerNames(d)) \in Nat
  BY <1>2, <1>3, FS_Subset, FS_CardinalityType
<1>5. /\ Cardinality(L) \in Nat /\ Cardinality(G) \in Nat
      /\ Cardinality(D) = Cardinality(L) + Cardinality(G) + 1
  <2> HIDE DEF D
  <2> QED
    BY <1>1, Sides
<1>6. KeepReleases \in Nat
  BY DeployAssumption
<1> HIDE DEF D, L, G
<1> QED
  BY <1>3, <1>4, <1>5, <1>6

\* A line of d's own cleanup.
LEMMA WorksPruning ==
    ASSUME KeepInv, FewOvertake, NEW d \in Deployers, NEW h \in Hosts, Works(d, h)
    PROVE  Pruning(d)'
<1> USE DEF KeepInv, SwapInv, BarrierInv, StageInv, WorkInv, LockSafe, Shape, TypeInv, TypeOK
<1>1. d \in Operators
  BY OperatorKinds
<1>2. /\ pc' = pc /\ res' = res /\ rel' = rel
      /\ \A g \in Hosts \ {h} : host'[g] = host[g] /\ script'[d][g] = script[d][g]
  BY <1>1, WorksElsewhere DEF local
<1>3. ASSUME NEW g \in Hosts, g # h
      PROVE  /\ At(d, g, "list")' => script'[d][g].n = Cardinality(Dirs(host'[g])) - KeepReleases
             /\ At(d, g, "prune")' => script'[d][g].gone # {} /\ rel[d] \notin script'[d][g].gone
  <2>1. host'[g] = host[g] /\ script'[d][g] = script[d][g] /\ res'[d][g] = res[d][g]
    BY <1>2, <1>3
  <2> QED
    BY <2>1 DEF Pruning, At
<1>4. CASE pc[d] # "cleanup"
  <2>1. Line(script'[d][h].at, pc[d])
    <3>1. PICK next \in Scripts, after \in HostState :
             Run(d, h, next, after) /\ Line(next.at, pc[d])
      BY <1>1, WorksRun
    <3>2. script'[d][h] = next
      BY <1>1, <3>1 DEF Run
    <3> QED
      BY <3>1, <3>2
  <2>2. ~ At(d, h, "list")' /\ ~ At(d, h, "prune")'
    BY <1>4, <2>1 DEF At, Line
  <2> QED
    BY <1>2, <1>3, <2>2 DEF Pruning
<1>5. CASE pc[d] = "cleanup"
  <2>1. Inside(d)
    BY <1>1, <1>5, WorkerInside
  <2>2. At(d, h, "prune") => script[d][h].gone # {} /\ rel[d] \notin script[d][h].gone
    BY DEF Pruning
  <2>3. At(d, h, "list") => script[d][h].n = Cardinality(Dirs(host[h])) - KeepReleases
    BY DEF Pruning
  <2>4. rel[d] \notin Oldest(host[h], Cardinality(Dirs(host[h])) - KeepReleases)
    BY <2>1, OwnIsKept
  <2>5. \/ /\ At(d, h, "count") /\ host'[h] = host[h]
           /\ \/ script'[d][h].at = "done"
              \/ /\ script'[d][h].at = "list"
                 /\ script'[d][h].n = Cardinality(Dirs(host[h])) - KeepReleases
        \/ /\ At(d, h, "list") /\ host'[h] = host[h]
           /\ script'[d][h].at \in {"prune", "done"}
           /\ script'[d][h].gone = Oldest(host[h], script[d][h].n)
           /\ script'[d][h].at = "prune" => script'[d][h].gone # {}
        \/ /\ At(d, h, "prune") /\ script'[d][h].at \in {"prune", "done"}
           /\ script'[d][h].gone \subseteq script[d][h].gone
           /\ script'[d][h].at = "prune" => script'[d][h].gone # {}
    BY <1>1, <1>5, <2>2, PruneFrame
  <2>6. /\ At(d, h, "list")' => script'[d][h].n = Cardinality(Dirs(host'[h])) - KeepReleases
        /\ At(d, h, "prune")' => script'[d][h].gone # {} /\ rel[d] \notin script'[d][h].gone
    <3> HIDE DEF KeepInv, SwapInv, BarrierInv, StageInv, WorkInv, LockSafe, Shape, TypeInv, TypeOK
    <3> QED
      BY <2>2, <2>3, <2>4, <2>5 DEF At
  <2> QED
    BY <1>2, <1>3, <2>6 DEF Pruning
<1> QED
  BY <1>4, <1>5

LEMMA PruningStep ==
    ASSUME KeepInv, FewOvertake, OnePrimary, Rollbackers = {}, NEW o \in Operators, StepOf(o),
           NEW d \in Deployers
    PROVE  Pruning(d)'
<1> USE DEF KeepInv, SwapInv, BarrierInv, StageInv, WorkInv, LockSafe, Shape, TypeInv, TypeOK
<1>1. d \in Operators
  BY OperatorKinds
<1>2. CASE d # o
  <2>1. res'[d] = res[d] /\ script'[d] = script[d] /\ rel'[d] = rel[d]
    BY <1>1, <1>2, OthersStand
  <2>2. ASSUME NEW g \in Hosts, At(d, g, "list") PROVE Dirs(host'[g]) = Dirs(host[g])
    <3>1. pc[d] = "cleanup"
      BY <1>1, <2>2 DEF At, Scripted, Line, Roles
    <3>2. Inside(d)
      BY <1>1, <3>1, WorkerInside
    <3>3. host'[g].content = host[g].content
      BY <1>2, <3>2, OthersLeaveAlone
    <3> QED
      BY <3>3 DEF Dirs
  <2> QED
    BY <2>1, <2>2 DEF Pruning, At
<1>3. CASE d = o /\ \E h \in Hosts : Works(d, h)
  BY <1>3, WorksPruning
<1>4. CASE d = o /\ ~ \E h \in Hosts : Works(d, h)
  <2>1. host' = host
    BY <1>4, OnlyScripts
  <2>2. CASE Send(d)
    <3>1. \A g \in Hosts : script'[d][g].at \in {"none", Begin(pc[d])}
      BY <1>1, <2>2 DEF Send, NoScript
    <3>2. Begin(pc[d]) \notin {"list", "prune"}
      BY <1>1, <2>2 DEF Begin, Send, Commands, Following
    <3> QED
      BY <3>1, <3>2 DEF Pruning, At
  <2>3. CASE \E h \in Hosts : Answers(d, h)
    <3>1. PICK h \in Hosts, result \in {"ok", "failed", "lost", "canceled"} : Reply(d, h, result)
      BY <1>1, <2>3, AnswersReply
    <3>2. /\ rel' = rel
          /\ \A g \in Hosts : \A p : At(d, g, p)' => At(d, g, p) /\ script'[d][g] = script[d][g]
      BY <1>1, <3>1 DEF Reply, At, local
    <3> QED
      BY <2>1, <3>2 DEF Pruning
  <2>4. CASE Cancel(d) \/ \E h \in Hosts : HookDrops(d, h)
    <3>1. res' = res /\ script' = script /\ rel' = rel
      BY <2>4 DEF Cancel, HookDrops
    <3> QED
      BY <2>1, <3>1 DEF Pruning, At
  <2>5. CASE StartDeploy(d) \/ Advance(d) \/ StopStep(d) \/ HookFails(d) \/ Finish(d) \/ Notified(d)
             \/ Unlocked(d) \/ Crash(d)
    <3>1. "idle" \notin Commands /\ "finished" \notin Commands /\ "notify" \notin Commands
      BY DEF Commands, Following
    <3>2. res'[d] = NoResults
      BY <1>1, <2>5, <3>1 DEF StartDeploy, Advance, StopStep, HookFails, Failed, Finish, Notified,
         Unlocked, Crash, Scripted, local
    <3> QED
      BY <3>2 DEF Pruning, At, NoResults
  <2> QED
    BY <1>4, <2>2, <2>3, <2>4, <2>5, OperatorKinds DEF StepOf, Proceed
<1> QED
  BY <1>2, <1>3, <1>4

\* A line that somebody runs leaves a complete release under `current`: one moved
\* there was built to its end, one that stays keeps its parts.
LEMMA WorksLeaveComplete ==
    ASSUME KeepInv, OnePrimary, Rollbackers = {}, NEW o \in Operators, NEW h \in Hosts, Works(o, h),
           host'[h].current # NoRelease
    PROVE  Complete(host'[h], host'[h].current)
<1> USE DEF KeepInv, SwapInv, BarrierInv, StageInv, WorkInv, LockSafe, Shape
<1>1. /\ res[o][h] = "sent" /\ Line(script[o][h].at, pc[o])
      /\ pc[o] # "rollback"
  BY WorksElsewhere DEF TypeInv, Roles
<1>2. host[h].current # NoRelease => Complete(host[h], host[h].current)
  BY DEF LiveReleaseComplete
<1>3. CASE LinkStep(o, h)
  <2>1. pc[o] = "publish"
    BY <1>1, <1>3 DEF LinkStep, At, Line
  <2>2. o \in Deployers
    BY <2>1, WorkerInside
  <2>3. h \in Live(o)
    BY <1>1, <2>1, <2>2 DEF SentLive
  <2>4. Complete(host[h], rel[o])
    BY <2>1, <2>2, <2>3 DEF Built, Has, Complete, Parts
  <2>5. host'[h].content = host[h].content
    BY <1>1, <1>3, WorksFrame DEF LinkStep, At
  <2>6. host'[h].current \in {host[h].current, rel[o], NoRelease}
    BY <1>3, <2>2 DEF LinkStep, Linking
  <2> QED
    BY <1>2, <2>4, <2>5, <2>6 DEF Complete
<1>4. CASE ~ LinkStep(o, h) /\ pc[o] # "cleanup"
  <2>1. host'[h].current = host[h].current /\ host[h].content \subseteq host'[h].content
    BY <1>1, <1>4, WorksFrame
  <2> QED
    BY <1>2, <2>1 DEF Complete
<1>5. CASE pc[o] = "cleanup"
  <2>1. o \in Deployers
    BY <1>5, WorkerInside
  <2>2. h \in Live(o) /\ host[h].current = rel[o]
    BY <1>1, <1>5, <2>1 DEF SentLive, RunsOwn
  <2>3. At(o, h, "prune") => script[o][h].gone # {} /\ rel[o] \notin script[o][h].gone
    BY <2>1 DEF Pruning
  <2>4. \/ host'[h] = host[h]
        \/ /\ At(o, h, "prune") /\ host'[h].current = host[h].current
           /\ \A x \in host[h].content : x \in host'[h].content \/ x[1] \in script[o][h].gone
    BY <1>5, <2>3, PruneFrame
  <2>5. CASE host'[h] = host[h]
    BY <1>2, <2>5
  <2>6. CASE host'[h] # host[h]
    <3>1. \A p \in Parts : <<rel[o], p>> \in host[h].content => <<rel[o], p>> \in host'[h].content
      BY <2>3, <2>4, <2>6
    <3> QED
      BY <1>2, <2>2, <2>4, <2>6, <3>1 DEF Complete
  <2> QED
    BY <2>5, <2>6
<1> QED
  BY <1>3, <1>4, <1>5

LEMMA CompleteStep ==
    ASSUME KeepInv, OnePrimary, Rollbackers = {}, [Next]_vars
    PROVE  LiveReleaseComplete'
<1> USE DEF KeepInv, SwapInv, BarrierInv, StageInv, WorkInv, LockSafe, Shape
<1>1. CASE UNCHANGED vars
  BY <1>1 DEF vars, LiveReleaseComplete
<1>2. CASE Next
  <2>1. PICK o \in Operators : StepOf(o)
    BY <1>2, NextIsSomebodys
  <2>2. CASE \E g \in Hosts : Works(o, g)
    <3>1. PICK g \in Hosts : Works(o, g)
      BY <2>2
    <3>2. \A h \in Hosts \ {g} : host'[h] = host[h]
      BY <3>1, WorksElsewhere
    <3>3. host'[g].current # NoRelease => Complete(host'[g], host'[g].current)
      BY <3>1, WorksLeaveComplete
    <3> QED
      BY <3>2, <3>3 DEF LiveReleaseComplete
  <2>3. CASE ~ \E g \in Hosts : Works(o, g)
    <3>1. host' = host
      BY <2>1, <2>3, OnlyScripts
    <3> QED
      BY <3>1 DEF LiveReleaseComplete
  <2> QED
    BY <2>2, <2>3
<1> QED
  BY <1>1, <1>2

LEMMA KeepInit == Init => KeepInv
<1> SUFFICES ASSUME Init PROVE BuiltByOne /\ LiveReleaseComplete /\ \A d \in Deployers : Pruning(d)
  BY SwapInit DEF KeepInv
<1>1. \A h \in Hosts : /\ host[h].content = (1..InitialReleases) \X Parts
                       /\ host[h].current = IF InitialReleases = 0 THEN NoRelease ELSE InitialReleases
  BY DEF Init
<1>2. BuiltByOne
  BY <1>1 DEF BuiltByOne, Dirs
<1>3. LiveReleaseComplete
  <2>1. InitialReleases # 0 => InitialReleases \in 1..InitialReleases
    BY DeployAssumption
  <2> QED
    BY <1>1, <2>1 DEF LiveReleaseComplete, Complete
<1>4. \A d \in Deployers : Pruning(d)
  BY OperatorKinds DEF Init, Pruning, At, NoResults
<1> QED
  BY <1>2, <1>3, <1>4

LEMMA KeepStep ==
    ASSUME LoneUnlocker, OnePrimary, Rollbackers = {}
    PROVE  KeepInv /\ FewOvertake /\ [Next]_vars => KeepInv'
<1> SUFFICES ASSUME KeepInv, FewOvertake, [Next]_vars PROVE KeepInv'
  OBVIOUS
<1>1. SwapInv' /\ BuiltByOne' /\ LiveReleaseComplete'
  BY SwapStep, BuiltByOneStep, CompleteStep DEF KeepInv, SwapInv, BarrierInv, StageInv
<1>2. \A d \in Deployers : Pruning(d)'
  <2>1. CASE UNCHANGED vars
    BY <2>1 DEF vars, local, KeepInv, Pruning, At
  <2>2. CASE Next
    BY <2>2, NextIsSomebodys, PruningStep
  <2> QED
    BY <2>1, <2>2
<1> QED
  BY <1>1, <1>2 DEF KeepInv

\* `current` names a complete release on every host at every moment, whatever the
\* clocks of the operators' machines show, as long as no deploy's name is older than
\* KeepReleases others that may be on its hosts (deploy.go:143, cleanup.sh.tmpl).
THEOREM LiveReleaseKept ==
    ASSUME LoneUnlocker, OnePrimary, Rollbackers = {}
    PROVE  Spec /\ []FewOvertake => []LiveReleaseComplete
<1>1. KeepInv => LiveReleaseComplete
  BY DEF KeepInv
<1> QED
  BY KeepInit, KeepStep, <1>1, PTL DEF Spec

\* No machine's clock is behind the names of the releases that were there at the start.
\* What the machines show may differ, and go back, all the same.
ClocksAhead == \A now \in Seconds : now > InitialReleases

Dated == \A d \in Deployers : pc[d] # "idle" => rel[d] \in Seconds

LEMMA DatedStep ==
    ASSUME TypeInv, Dated, [Next]_vars
    PROVE  Dated'
<1>1. CASE UNCHANGED vars
  BY <1>1 DEF vars, local, Dated
<1>2. CASE Next
  <2>1. PICK o \in Operators : StepOf(o)
    BY <1>2, NextIsSomebodys
  <2> SUFFICES ASSUME NEW d \in Deployers, pc'[d] # "idle" PROVE rel'[d] \in Seconds
    BY DEF Dated
  <2>2. d \in Operators /\ d \notin Rollbackers /\ d \notin Unlockers
    BY OperatorKinds
  <2>3. CASE d # o
    BY <2>1, <2>2, <2>3, OthersStand DEF Dated
  <2>4. CASE d = o /\ StartDeploy(d)
    BY <2>2, <2>4 DEF StartDeploy, TypeInv, TypeOK
  <2>5. CASE d = o /\ ~ StartDeploy(d)
    <3>1. \A h \in Hosts : Works(d, h) \/ Answers(d, h) => rel' = rel /\ pc' = pc
      BY <2>2, WorksElsewhere, AnswersReply DEF Reply, local
    <3>2. "idle" \notin Commands
      BY DEF Commands, Following
    <3>3. rel' = rel /\ pc[d] # "idle"
      BY <2>1, <2>2, <2>5, <3>1, <3>2 DEF StepOf, Proceed, Send, Advance, StopStep, HookFails, AtHooks,
         Failed, Finish, Notified, Unlocked, Cancel, Crash, Running, HookDrops, local
    <3> QED
      BY <3>3 DEF Dated
  <2> QED
    BY <2>3, <2>4, <2>5
<1> QED
  BY <1>1, <1>2

\* With no more deploys than releases are kept, and clocks that are ahead of what was
\* there, there is nothing to assume of who overtakes whom.
THEOREM FewDeploysKeep ==
    ASSUME LoneUnlocker, OnePrimary, Rollbackers = {}, ClocksAhead,
           IsFiniteSet(Deployers), Cardinality(Deployers) <= KeepReleases
    PROVE  Spec => []LiveReleaseComplete
<1>1. KeepInv /\ Dated => FewOvertake
  <2> SUFFICES ASSUME KeepInv, Dated, NEW d \in Deployers, Inside(d)
               PROVE  IsFiniteSet(NewerNames(d)) /\ Cardinality(NewerNames(d)) < KeepReleases
    BY DEF FewOvertake
  <2> USE DEF KeepInv, SwapInv, BarrierInv, StageInv, WorkInv, LockSafe, Shape, TypeInv, TypeOK
  <2> DEFINE E == Deployers \ {d}
             T == {rel[e] : e \in E}
             f == [e \in E |-> rel[e]]
  <2>1. rel[d] \in Seconds /\ rel[d] \in Nat /\ rel[d] > InitialReleases
    <3>1. pc[d] # "idle"
      BY OperatorKinds DEF Inside, LockedLate
    <3> QED
      BY <3>1, DeployAssumption DEF Dated, ClocksAhead
  <2>2. NewerNames(d) \subseteq T
    <3>1. \A q \in 1..InitialReleases : ~ (q > rel[d])
      BY <2>1, DeployAssumption
    <3>2. ~ (rel[d] > rel[d])
      BY <2>1
    <3> QED
      BY <3>1, <3>2 DEF NewerNames, Overtaking
  <2>3. IsFiniteSet(E) /\ Cardinality(E) = Cardinality(Deployers) - 1
    BY FS_RemoveElement
  <2>4. f \in Surjection(E, T)
    BY DEF Surjection
  <2>5. IsFiniteSet(T) /\ Cardinality(T) <= Cardinality(E)
    <3> HIDE DEF E, T, f
    <3> QED
      BY <2>3, <2>4, FS_Surjection, FS_CardinalityType
  <2>6. IsFiniteSet(NewerNames(d)) /\ Cardinality(NewerNames(d)) <= Cardinality(T)
    <3> HIDE DEF T
    <3> QED
      BY <2>2, <2>5, FS_Subset
  <2>7. /\ Cardinality(Deployers) \in Nat /\ Cardinality(NewerNames(d)) \in Nat
        /\ Cardinality(T) \in Nat /\ KeepReleases \in Nat
    BY <2>5, <2>6, FS_CardinalityType, DeployAssumption
  <2> HIDE DEF E, T, f
  <2> QED
    BY <2>3, <2>5, <2>6, <2>7
<1>2. Init => Dated
  BY OperatorKinds DEF Init, Dated
<1>3. KeepInv /\ Dated /\ [Next]_vars => Dated'
  BY DatedStep DEF KeepInv, SwapInv, BarrierInv, StageInv, WorkInv, LockSafe, Shape
<1>4. KeepInv => LiveReleaseComplete
  BY DEF KeepInv
<1> QED
  BY KeepInit, KeepStep, <1>1, <1>2, <1>3, <1>4, PTL DEF Spec
=============================================================================
