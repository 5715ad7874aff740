--------------------------- MODULE SSHClientProofs ---------------------------
(***************************************************************************)
(* Trust on first use: of the dials that meet an address at once one       *)
(* writes a line and goes on, and the others trust its key or none.  And,  *)
(* by the same invariant and what a dial has open: a dial leaves nothing   *)
(* behind however it ends, and no machine is refused that has what it is   *)
(* asked for.                                                              *)
(*                                                                         *)
(* A dial decides on a snapshot of known_hosts it took before it connected *)
(* and appends under the mutex.  The invariant says why the snapshot does  *)
(* not deceive it: while a dial with an empty snapshot is on its way, each *)
(* line of the file was left by a dial that failed, or is recorded in      *)
(* acceptNewMu as well, or will be by the dial that holds the mutex.       *)
(***************************************************************************)
EXTENDS SSHClient, TLAPS

\* The states in which a dial has not decided about the key.
Undecided == {"idle", "dialing", "handshake", "locking", "appending", "recording"}

\* What is used of the shape of a dial.
Shape(d) == {"at", "snap", "key", "trusted", "machine"} \subseteq DOMAIN c[d]

\* The dial holds the mutex.
Writing(d) == c[d].at \in {"appending", "recording"}

\* Where the lines come from, when there were none for the first dial that looked.
Explained ==
    Lines \subseteq {Torn} \cup Left \cup {recorded}
                    \cup {c[e].key : e \in {w \in Dials : c[w].at = "recording"}}

\* What a dial has decided about the key, it decided for a reason that lasts.
Trusts(d) ==
    /\ c[d].trusted \in {"no", "known", "wrote", "joined"}
    /\ c[d].trusted # "no" => c[d].at \notin Undecided
    /\ c[d].trusted = "known" => c[d].key \in Lines \cap HostKeys
    /\ c[d].trusted \in {"wrote", "joined"} => recorded # NoKey /\ c[d].key = recorded

Sound(d) ==
    /\ Shape(d)
    /\ c[d].snap \subseteq Lines
    /\ c[d].at = "handshake" => c[d].machine \in Machines
    /\ c[d].at \in {"locking", "appending", "recording"} => c[d].key \in HostKeys /\ c[d].snap = {}
    /\ Writing(d) => mu = d /\ recorded = NoKey
    /\ c[d].at \in {"dialing", "handshake", "locking", "appending", "recording"} /\ c[d].snap = {} =>
           Explained
    /\ Trusts(d)

KnownInv ==
    /\ DOMAIN c = Dials
    /\ file \in Seq(HostKeys \cup {Torn})
    /\ recorded # NoKey => Explained
    /\ \A d, e \in Dials : c[d].trusted = "wrote" /\ c[e].trusted = "wrote" => d = e
    /\ \A d \in Dials : Sound(d)

\* Only dial d moves.
Alone(d) == DOMAIN c' = DOMAIN c /\ \A e \in Dials \ {d} : c'[e] = c[e]

\* A step that leaves known_hosts alone, and the dial undecided where it is or past a
\* decision that does not make a first contact of it.
Settles(d) ==
    /\ UNCHANGED <<file, recorded, mu>>
    /\ Alone(d) /\ Shape(d)'
    /\ \/ \A f \in {"at", "snap", "key", "trusted", "machine"} : c'[d][f] = c[d][f]
       \/ /\ c'[d].at \notin Undecided /\ c[d].at \notin {"recording", "unrecorded"}
          /\ c'[d].snap \subseteq Lines
          /\ c'[d].trusted = "wrote" => c[d].trusted = "wrote"
          /\ Trusts(d)'

-----------------------------------------------------------------------------
\* No dial has looked yet.
LEMMA InitKnown == Init => KnownInv
<1> SUFFICES ASSUME Init PROVE KnownInv
  OBVIOUS
<1>1. ASSUME NEW d \in Dials PROVE Sound(d)
  BY DEF Init, Idle, Sound, Trusts, Shape, Writing, Undecided, Lines
<1>2. \A d \in Dials : c[d].trusted = "no"
  BY DEF Init, Idle
<1>3. file \in Seq(HostKeys \cup {Torn})
  BY SSHClientAssumption DEF Init
<1> QED BY <1>1, <1>2, <1>3 DEF Init, KnownInv

\* What explains the lines lasts while the file grows by nothing else.
LEMMA ExplainedStays ==
    ASSUME Explained, Lines' \subseteq Lines, recorded' = recorded,
           \A e \in Dials : c[e].at \in {"recording", "unrecorded"} =>
               c'[e].at = c[e].at /\ c'[e].key = c[e].key
    PROVE  Explained'
BY DEF Explained, Left

\* Such a step keeps the invariant.
LEMMA SettlesKeeps ==
    ASSUME KnownInv, NEW d \in Dials, Settles(d)
    PROVE  KnownInv'
<1>1. Lines' = Lines /\ recorded' = recorded /\ mu' = mu
  BY DEF Settles, Lines
<1>2. \A e \in Dials : c[e].at \in {"recording", "unrecorded"} =>
          c'[e].at = c[e].at /\ c'[e].key = c[e].key
  BY DEF Settles, Alone
<1>3. Explained => Explained'
  BY <1>1, <1>2, ExplainedStays
<1>4. ASSUME NEW e \in Dials, e # d PROVE Sound(e)'
  <2>1. c'[e] = c[e] /\ Sound(e)
    BY <1>4 DEF Settles, Alone, KnownInv
  <2> QED BY <1>1, <1>3, <2>1 DEF Sound, Trusts, Shape, Writing
<1>5. Sound(d)'
  <2>1. Sound(d)
    BY DEF KnownInv
  <2>2. CASE \A f \in {"at", "snap", "key", "trusted", "machine"} : c'[d][f] = c[d][f]
    BY <1>1, <1>3, <2>1, <2>2 DEF Settles, Sound, Trusts, Shape, Writing
  <2>3. CASE c'[d].at \notin Undecided /\ c'[d].snap \subseteq Lines /\ Trusts(d)'
    BY <1>1, <1>3, <2>1, <2>3 DEF Settles, Sound, Writing, Undecided
  <2> QED BY <2>2, <2>3 DEF Settles
<1>6. \A e \in Dials : c'[e].trusted = "wrote" => c[e].trusted = "wrote"
  BY DEF Settles, Alone
<1> QED BY <1>1, <1>3, <1>4, <1>5, <1>6 DEF KnownInv, Settles, Alone

-----------------------------------------------------------------------------
(* What the actions do to a dial.                                          *)

\* A dial that fails is past its decision, and trusts what it trusted before.
LEMMA FailSettles ==
    ASSUME KnownInv, NEW d \in Dials, c[d].at \notin {"recording", "unrecorded"},
           c' = [c EXCEPT ![d] = Fail(d)], UNCHANGED <<file, recorded, mu>>
    PROVE  Settles(d)
<1>1. Shape(d) /\ Lines' = Lines
  BY DEF KnownInv, Sound, Lines
<1>2. c'[d] = Fail(d)
  BY DEF KnownInv
<1>3. c'[d].at = "failed" /\ c'[d].key = c[d].key /\ c'[d].trusted = c[d].trusted
      /\ c'[d].snap = c[d].snap /\ Shape(d)'
  BY <1>1, <1>2 DEF Fail, Shape
<1>4. Trusts(d)'
  BY <1>1, <1>3 DEF KnownInv, Sound, Trusts, Undecided
<1> QED BY <1>3, <1>4 DEF KnownInv, Settles, Alone, Undecided, Sound

\* The keys a server can offer are host keys, and one of them is preferred.
LEMMA PresentedIsKey ==
    ASSUME NEW d \in Dials, c[d].machine \in Machines, Offered(d) # {}
    PROVE  Presented(d) \in Offered(d) /\ Presented(d) \in HostKeys
<1>1. \A k \in Offered(d) : k \in HostKeys /\ k.type \in Types
  BY SSHClientAssumption DEF Offered
<1>2. \A k \in Offered(d) : Rank[k.type] \in {1, 2, 3}
  BY <1>1 DEF Rank, Types
<1>3. \E k \in Offered(d) : \A o \in Offered(d) : Rank[k.type] <= Rank[o.type]
  <2>1. CASE \E k \in Offered(d) : Rank[k.type] = 1
    BY <1>2, <2>1
  <2>2. CASE (\A k \in Offered(d) : Rank[k.type] # 1) /\ \E k \in Offered(d) : Rank[k.type] = 2
    BY <1>2, <2>2
  <2>3. CASE \A k \in Offered(d) : Rank[k.type] # 1 /\ Rank[k.type] # 2
    BY <1>2, <2>3
  <2> QED BY <2>1, <2>2, <2>3
<1>4. Presented(d) \in Offered(d)
  BY <1>3 DEF Presented
<1> QED BY <1>1, <1>4

\* A dial that only moves within the handshake, or past its decision, keeps what it
\* trusts: all actions but those of the host key, and Dial's first two.
LEMMA QuietKeeps ==
    ASSUME KnownInv, NEW d \in Dials,
           \/ WatchdogFires(d) \/ HandshakeEnds(d) \/ DialEnds(d)
           \/ Tick(d) \/ Pinging(d) \/ LoopStops(d) \/ EndSpreads(d)
           \/ BeginRun(d) \/ Running(d) \/ Close(d) \/ Cancel(d) \/ ServerEnds(d)
    PROVE  KnownInv'
<1>1. Shape(d) /\ Sound(d) /\ DOMAIN c = Dials
  BY DEF KnownInv, Sound
<1>2. CASE WatchdogFires(d) \/ Tick(d) \/ LoopStops(d) \/ EndSpreads(d) \/ Close(d) \/ Cancel(d) \/ ServerEnds(d)
  <2>1. Settles(d)
    BY <1>1, <1>2 DEF WatchdogFires, Tick, LoopStops, EndSpreads, Close, Cancel, ServerEnds, Settles, Alone, Shape
  <2> QED BY <2>1, SettlesKeeps
<1>3. CASE Pinging(d)
  <2>1. CASE PingAnswered(d)
    BY <1>1, <2>1, SettlesKeeps DEF PingAnswered, Settles, Alone, Shape
  <2>2. CASE PingMissed(d)
    BY <1>1, <2>2, SettlesKeeps DEF PingMissed, Settles, Alone, Shape
  <2>3. CASE PingCalledOff(d)
    BY <1>1, <2>3, SettlesKeeps DEF PingCalledOff, Settles, Alone, Shape
  <2> QED BY <1>3, <2>1, <2>2, <2>3 DEF Pinging
<1>4. CASE BeginRun(d) \/ Running(d)
  <2>1. PICK s : c' = [c EXCEPT ![d].run = s] /\ UNCHANGED <<file, recorded, mu>>
    BY <1>4 DEF BeginRun, Running, SessionOpens, CommandStarts, RunFails, CommandEnds, RunAbandons, RunTo
  <2>2. Settles(d)
    BY <1>1, <2>1 DEF Settles, Alone, Shape
  <2> QED BY <2>2, SettlesKeeps
<1>5. CASE HandshakeEnds(d)
  <2>1. CASE c' = [c EXCEPT ![d].at = "ready"]
    <3>1. c'[d].at = "ready" /\ Shape(d)' /\ Alone(d) /\ UNCHANGED <<file, recorded, mu>>
          /\ c'[d].key = c[d].key /\ c'[d].trusted = c[d].trusted /\ c'[d].snap = c[d].snap
      BY <1>1, <1>5, <2>1 DEF HandshakeEnds, Alone, Shape
    <3>2. c[d].at \in {"verified", "handshake"} /\ Lines' = Lines
      BY <1>5, <3>1 DEF HandshakeEnds, Lines
    <3>3. Settles(d)
      BY <1>1, <3>1, <3>2 DEF Settles, Sound, Trusts, Undecided
    <3> QED BY <3>3, SettlesKeeps
  <2>2. CASE c' = [c EXCEPT ![d] = Fail(d)]
    BY <1>5, <2>2, FailSettles, SettlesKeeps DEF HandshakeEnds
  <2> QED BY <1>5, <2>1, <2>2 DEF HandshakeEnds
<1>6. CASE DialEnds(d)
  <2>1. \/ c' = [c EXCEPT ![d] = Fail(d)]
        \/ c' = [c EXCEPT ![d] = [Fail(d) EXCEPT !.done = TRUE]]
        \/ c' = [c EXCEPT ![d] = [@ EXCEPT !.at = "connected", !.sock = FALSE, !.loop = "idle"]]
    BY <1>6 DEF DialEnds
  <2>2. c'[d].at \in {"failed", "connected"} /\ Shape(d)' /\ Alone(d)
        /\ c'[d].key = c[d].key /\ c'[d].trusted = c[d].trusted /\ c'[d].snap = c[d].snap
    BY <1>1, <2>1 DEF Fail, Shape, Alone
  <2>3. c[d].at = "ready" /\ UNCHANGED <<file, recorded, mu>> /\ Lines' = Lines
    BY <1>6 DEF DialEnds, Lines
  <2>4. Settles(d)
    BY <1>1, <2>2, <2>3 DEF Settles, Sound, Trusts, Undecided
  <2> QED BY <2>4, SettlesKeeps
<1> QED BY <1>2, <1>3, <1>4, <1>5, <1>6

\* A step that leaves the file alone keeps the invariant if the dial that moves stays
\* sound.
LEMMA MovesOn ==
    ASSUME KnownInv, NEW d \in Dials, Alone(d), UNCHANGED <<file, recorded>>,
           c[d].at \notin {"recording", "unrecorded"},
           \A e \in Dials \ {d} : Writing(e) => mu' = e,
           c'[d].trusted = "wrote" => c[d].trusted = "wrote",
           Sound(d)'
    PROVE  KnownInv'
<1>1. Lines' = Lines
  BY DEF Lines
<1>2. Explained => Explained'
  BY <1>1, ExplainedStays DEF Alone
<1>3. ASSUME NEW e \in Dials, e # d PROVE Sound(e)'
  <2>1. c'[e] = c[e] /\ Sound(e)
    BY <1>3 DEF Alone, KnownInv
  <2> QED BY <1>1, <1>2, <1>3, <2>1 DEF Sound, Trusts, Shape, Writing
<1>4. \A e \in Dials : c'[e].trusted = "wrote" => c[e].trusted = "wrote"
  BY DEF Alone
<1> QED BY <1>2, <1>3, <1>4 DEF KnownInv, Alone

\* The snapshot is the file as it is; connecting does not look at it.
LEMMA BeginKeeps ==
    ASSUME KnownInv, NEW d \in Dials, BeginDial(d) \/ Connect(d)
    PROVE  KnownInv'
<1>1. Shape(d) /\ Sound(d) /\ DOMAIN c = Dials
  BY DEF KnownInv, Sound
<1>2. UNCHANGED <<file, recorded, mu>> /\ c[d].at \in {"idle", "dialing"} /\ Lines' = Lines
  BY DEF BeginDial, Connect, Lines
<1>3. \A e \in Dials \ {d} : Writing(e) => mu' = e
  BY <1>2 DEF KnownInv, Sound
<1>4. c[d].trusted = "no"
  BY <1>1, <1>2 DEF Sound, Trusts, Undecided
<1>5. CASE c' = [c EXCEPT ![d] = Fail(d)]
  BY <1>2, <1>5, FailSettles, SettlesKeeps
<1>6. CASE BeginDial(d) /\ c' = [c EXCEPT ![d] = [@ EXCEPT !.at = "dialing", !.sock = OpensSocket, !.snap = Lines]]
  <2>1. c'[d].at = "dialing" /\ c'[d].snap = Lines /\ c'[d].trusted = "no" /\ Shape(d)' /\ Alone(d)
    BY <1>1, <1>4, <1>6 DEF Shape, Alone
  <2>2. Lines = {} => Explained'
    BY <1>2 DEF Explained
  <2>3. Sound(d)'
    BY <1>2, <2>1, <2>2 DEF Sound, Trusts, Writing
  <2> QED BY <1>2, <1>3, <2>1, <2>3, MovesOn
<1>7. CASE Connect(d) /\ \E m \in Machines :
              c' = [c EXCEPT ![d].at = "handshake", ![d].net = TRUE, ![d].machine = m]
  <2>1. c'[d].at = "handshake" /\ c'[d].snap = c[d].snap /\ c'[d].trusted = "no"
        /\ c'[d].machine \in Machines /\ Shape(d)' /\ Alone(d)
    BY <1>1, <1>4, <1>7 DEF Shape, Alone
  <2>2. c[d].at = "dialing"
    BY <1>7 DEF Connect
  <2>3. Explained => Explained'
    BY <1>2, <2>1, <2>2, ExplainedStays DEF Alone
  <2>4. Sound(d)'
    BY <1>1, <1>2, <2>1, <2>2, <2>3 DEF Sound, Trusts, Writing
  <2> QED BY <1>2, <1>3, <2>1, <2>4, MovesOn
<1> QED BY <1>5, <1>6, <1>7 DEF BeginDial, Connect

\* A verified dial is past its decision; what it trusts is set beside it.
LEMMA VerifiedFields ==
    ASSUME NEW d \in Dials, Shape(d)
    PROVE  /\ {"at", "snap", "key", "trusted", "machine"} \subseteq DOMAIN Verified(d)
           /\ Verified(d).at = "verified" /\ Verified(d).snap = {}
           /\ Verified(d).key = c[d].key /\ Verified(d).trusted = c[d].trusted
BY DEF Verified, Shape

\* The key is known, refused, or a first contact's: then it is one of the host keys, and
\* the snapshot was empty.
LEMMA PresentKeeps ==
    ASSUME KnownInv, NEW d \in Dials, Present(d)
    PROVE  KnownInv'
<1>1. Shape(d) /\ Sound(d) /\ DOMAIN c = Dials
  BY DEF KnownInv, Sound
<1>2. c[d].at = "handshake" /\ UNCHANGED <<file, recorded, mu>> /\ c[d].trusted = "no"
      /\ c[d].machine \in Machines /\ c[d].snap \subseteq Lines /\ Lines' = Lines
  BY <1>1 DEF Present, Sound, Trusts, Undecided, Lines
<1>3. \/ c' = [c EXCEPT ![d] = [Fail(d) EXCEPT !.at = "rejected"]]
      \/ /\ Offered(d) # {}
         /\ \/ c' = [c EXCEPT ![d] = [Verified(d) EXCEPT !.key = NoKey]]
            \/ /\ Presented(d) \in c[d].snap
               /\ c' = [c EXCEPT ![d] = [Verified(d) EXCEPT !.key = Presented(d), !.trusted = "known"]]
            \/ /\ c[d].snap = {}
               /\ c' = [c EXCEPT ![d] = [@ EXCEPT !.at = "locking", !.key = Presented(d)]]
            \/ c' = [c EXCEPT ![d] = [Fail(d) EXCEPT !.at = "rejected", !.key = Presented(d)]]
  BY DEF Present
<1>4. ASSUME Alone(d), Shape(d)', c'[d].at \in {"rejected", "verified"},
             c'[d].snap \in {c[d].snap, {}},
             \/ c'[d].trusted = "no"
             \/ c'[d].trusted = "known" /\ c'[d].key \in c[d].snap \cap HostKeys
      PROVE  KnownInv'
  <2>1. Settles(d)
    BY <1>2, <1>4 DEF Settles, Trusts, Undecided
  <2> QED BY <2>1, SettlesKeeps
<1>5. CASE c' = [c EXCEPT ![d] = [Fail(d) EXCEPT !.at = "rejected"]]
  <2>1. c'[d].at = "rejected" /\ c'[d].snap = c[d].snap /\ c'[d].trusted = c[d].trusted /\ Shape(d)' /\ Alone(d)
    BY <1>1, <1>5 DEF Fail, Shape, Alone
  <2> QED BY <1>2, <1>4, <2>1
<1>6. CASE c' = [c EXCEPT ![d] = [Verified(d) EXCEPT !.key = NoKey]]
  <2>1. c'[d].at = "verified" /\ c'[d].snap = {} /\ c'[d].trusted = c[d].trusted /\ Shape(d)' /\ Alone(d)
    BY <1>1, <1>6, VerifiedFields DEF Shape, Alone
  <2> QED BY <1>2, <1>4, <2>1
<1>7. CASE /\ Offered(d) # {} /\ Presented(d) \in c[d].snap
           /\ c' = [c EXCEPT ![d] = [Verified(d) EXCEPT !.key = Presented(d), !.trusted = "known"]]
  <2>1. c'[d].at = "verified" /\ c'[d].snap = {} /\ c'[d].key = Presented(d)
        /\ c'[d].trusted = "known" /\ Shape(d)' /\ Alone(d)
    BY <1>1, <1>7, VerifiedFields DEF Shape, Alone
  <2>2. Presented(d) \in HostKeys
    BY <1>2, <1>7, PresentedIsKey
  <2> QED BY <1>4, <1>7, <2>1, <2>2
<1>8. CASE c' = [c EXCEPT ![d] = [Fail(d) EXCEPT !.at = "rejected", !.key = Presented(d)]]
  <2>1. c'[d].at = "rejected" /\ c'[d].snap = c[d].snap /\ c'[d].trusted = c[d].trusted /\ Shape(d)' /\ Alone(d)
    BY <1>1, <1>8 DEF Fail, Shape, Alone
  <2> QED BY <1>2, <1>4, <2>1
<1>9. CASE /\ Offered(d) # {} /\ c[d].snap = {}
           /\ c' = [c EXCEPT ![d] = [@ EXCEPT !.at = "locking", !.key = Presented(d)]]
  <2>1. c'[d].at = "locking" /\ c'[d].snap = {} /\ c'[d].key = Presented(d)
        /\ c'[d].trusted = "no" /\ Shape(d)' /\ Alone(d)
    BY <1>1, <1>2, <1>9 DEF Shape, Alone
  <2>2. Presented(d) \in HostKeys
    BY <1>2, <1>9, PresentedIsKey
  <2>3. Explained'
    BY <1>1, <1>2, <1>9, <2>1, ExplainedStays DEF Sound, Alone
  <2>4. Sound(d)'
    BY <2>1, <2>2, <2>3 DEF Sound, Trusts, Writing
  <2>5. \A e \in Dials \ {d} : Writing(e) => mu' = e
    BY <1>2 DEF KnownInv, Sound
  <2> QED BY <1>2, <2>1, <2>4, <2>5, MovesOn
<1> QED BY <1>3, <1>5, <1>6, <1>7, <1>8, <1>9

\* Under the mutex: nobody records now.
LEMMA LockKeeps ==
    ASSUME KnownInv, NEW d \in Dials, Lock(d)
    PROVE  KnownInv'
<1>1. Shape(d) /\ Sound(d) /\ DOMAIN c = Dials
  BY DEF KnownInv, Sound
<1>2. c[d].at = "locking" /\ mu = Free /\ UNCHANGED <<file, recorded>> /\ c[d].trusted = "no"
      /\ c[d].snap = {} /\ c[d].key \in HostKeys /\ Lines' = Lines /\ Explained
  BY <1>1 DEF Lock, Sound, Trusts, Undecided, Lines
<1>3. \A e \in Dials : ~Writing(e)
  <2>1. \A e \in Dials : Writing(e) => mu = e
    BY DEF KnownInv, Sound
  <2>2. Free \notin Dials
    BY SSHClientAssumption
  <2> QED BY <1>2, <2>1, <2>2
<1>4. CASE recorded = NoKey
  <2>1. mu' = d /\ c' = [c EXCEPT ![d].at = "appending"]
    BY <1>2, <1>4, SSHClientAssumption DEF Lock
  <2>2. c'[d].at = "appending" /\ c'[d].snap = {} /\ c'[d].key = c[d].key
        /\ c'[d].trusted = c[d].trusted /\ Shape(d)' /\ Alone(d)
    BY <1>1, <1>2, <2>1 DEF Shape, Alone
  <2>3. Explained'
    BY <1>2, <2>2, ExplainedStays DEF Alone
  <2>4. Sound(d)'
    BY <1>2, <1>4, <2>1, <2>2, <2>3 DEF Sound, Trusts, Writing, Undecided
  <2> QED BY <1>2, <1>3, <2>2, <2>4, MovesOn
<1>5. CASE recorded = c[d].key /\ recorded # NoKey
  <2>1. mu' = mu /\ c' = [c EXCEPT ![d] = [Verified(d) EXCEPT !.trusted = "joined"]]
    BY <1>5 DEF Lock
  <2>2. c'[d].at = "verified" /\ c'[d].snap = {} /\ c'[d].key = c[d].key /\ c'[d].trusted = "joined"
        /\ Shape(d)' /\ Alone(d)
    BY <1>1, <2>1, VerifiedFields DEF Shape, Alone
  <2>3. Settles(d)
    BY <1>2, <1>5, <2>1, <2>2 DEF Settles, Trusts, Undecided
  <2> QED BY <2>3, SettlesKeeps
<1>6. CASE recorded # c[d].key /\ recorded # NoKey
  <2>1. mu' = mu /\ c' = [c EXCEPT ![d] = [Fail(d) EXCEPT !.at = "rejected"]]
    BY <1>6 DEF Lock
  <2>2. c'[d].at = "rejected" /\ c'[d].snap = c[d].snap /\ c'[d].trusted = c[d].trusted /\ Shape(d)' /\ Alone(d)
    BY <1>1, <2>1 DEF Fail, Shape, Alone
  <2>3. Settles(d)
    BY <1>2, <2>1, <2>2 DEF Settles, Trusts, Undecided
  <2> QED BY <2>3, SettlesKeeps
<1> QED BY <1>4, <1>5, <1>6

\* An append adds the line, a part of it, or nothing.
LEMMA AppendedLines ==
    ASSUME file \in Seq(HostKeys \cup {Torn}), NEW line \in HostKeys \cup {Torn},
           file' \in {file, Append(file, line)}
    PROVE  /\ file' \in Seq(HostKeys \cup {Torn})
           /\ Lines \subseteq Lines' /\ Lines' \subseteq Lines \cup {line}
<1>1. CASE file' = file
  BY <1>1 DEF Lines
<1>2. CASE file' = Append(file, line)
  <2>1. DOMAIN file = 1..Len(file) /\ Len(file) \in Nat
    OBVIOUS
  <2>2. DOMAIN file' = 1..(Len(file) + 1)
    BY <1>2
  <2>3. \A i \in 1..Len(file) : file'[i] = file[i]
    BY <1>2
  <2>4. file'[Len(file) + 1] = line
    BY <1>2
  <2>5. \A i \in DOMAIN file' : i \in DOMAIN file \/ i = Len(file) + 1
    BY <2>1, <2>2
  <2>6. DOMAIN file \subseteq DOMAIN file'
    BY <2>1, <2>2
  <2>7. Lines \subseteq Lines'
    BY <2>1, <2>3, <2>6 DEF Lines
  <2>8. Lines' \subseteq Lines \cup {line}
    BY <2>1, <2>3, <2>4, <2>5 DEF Lines
  <2> QED BY <1>2, <2>7, <2>8
<1> QED BY <1>1, <1>2

\* The line is written by the dial that holds the mutex and will record it, or left by
\* one that failed on it.
LEMMA AppendKeeps ==
    ASSUME KnownInv, NEW d \in Dials, AppendLine(d)
    PROVE  KnownInv'
<1>1. Shape(d) /\ Sound(d) /\ DOMAIN c = Dials
  BY DEF KnownInv, Sound
<1>2. c[d].at = "appending" /\ recorded = NoKey /\ recorded' = recorded /\ mu = d
      /\ c[d].trusted = "no" /\ c[d].snap = {} /\ c[d].key \in HostKeys /\ Explained
  BY <1>1 DEF AppendLine, Sound, Trusts, Writing, Undecided
<1>3. \A e \in Dials \ {d} : ~Writing(e)
  BY <1>2 DEF KnownInv, Sound
<1>4. /\ file' \in Seq(HostKeys \cup {Torn})
      /\ Lines \subseteq Lines' /\ Lines' \subseteq Lines \cup {Torn, c[d].key}
  <2>1. file' \in {file, Append(file, c[d].key), Append(file, Torn)}
    BY DEF AppendLine, Appended
  <2>2. file \in Seq(HostKeys \cup {Torn})
    BY DEF KnownInv
  <2> QED BY <1>2, <2>1, <2>2, AppendedLines
<1>5. ASSUME Alone(d), Shape(d)', c'[d].at \in {"recording", "unrecorded"}, c'[d].snap = {},
             c'[d].key = c[d].key, c'[d].trusted = "no",
             c'[d].at = "recording" => mu' = d
      PROVE  KnownInv'
  <2>1. Explained'
    <3>1. c[d].key \in Left' \cup {c'[e].key : e \in {w \in Dials : c'[w].at = "recording"}}
      BY <1>5 DEF Left
    <3>2. Left \subseteq Left' /\ {c[e].key : e \in {w \in Dials : c[w].at = "recording"}}
                               \subseteq {c'[e].key : e \in {w \in Dials : c'[w].at = "recording"}}
      BY <1>2, <1>5 DEF Left, Alone
    <3> QED BY <1>2, <1>4, <3>1, <3>2 DEF Explained
  <2>2. Sound(d)'
    BY <1>2, <1>5, <2>1 DEF Sound, Trusts, Writing
  <2>3. ASSUME NEW e \in Dials, e # d PROVE Sound(e)'
    <3>1. c'[e] = c[e] /\ Sound(e) /\ ~Writing(e)
      BY <1>3, <1>5, <2>3 DEF KnownInv, Alone
    <3> QED BY <1>2, <1>4, <2>1, <2>3, <3>1 DEF Sound, Trusts, Shape, Writing
  <2>4. \A e \in Dials : c'[e].trusted = "wrote" => c[e].trusted = "wrote"
    BY <1>5 DEF Alone
  <2> QED BY <1>1, <1>4, <1>5, <2>1, <2>2, <2>3, <2>4 DEF KnownInv, Alone
<1>6. CASE c' = [c EXCEPT ![d].at = "recording"] /\ mu' = mu
  <2>1. c'[d].at = "recording" /\ c'[d].snap = {} /\ c'[d].key = c[d].key
        /\ c'[d].trusted = c[d].trusted /\ Shape(d)' /\ Alone(d)
    BY <1>1, <1>2, <1>6 DEF Shape, Alone
  <2> QED BY <1>2, <1>5, <1>6, <2>1
<1>7. CASE c' = [c EXCEPT ![d] = [Fail(d) EXCEPT !.at = "unrecorded"]]
  <2>1. c'[d].at = "unrecorded" /\ c'[d].snap = {} /\ c'[d].key = c[d].key
        /\ c'[d].trusted = c[d].trusted /\ Shape(d)' /\ Alone(d)
    BY <1>1, <1>2, <1>7 DEF Fail, Shape, Alone
  <2> QED BY <1>2, <1>5, <2>1
<1> QED BY <1>6, <1>7 DEF AppendLine

\* From now on the line is recorded as well, and the mutex is free.
LEMMA RecordKeeps ==
    ASSUME KnownInv, NEW d \in Dials, Record(d)
    PROVE  KnownInv'
<1>1. Shape(d) /\ Sound(d) /\ DOMAIN c = Dials
  BY DEF KnownInv, Sound
<1>2. c[d].at = "recording" /\ file' = file /\ recorded' = c[d].key /\ recorded = NoKey
      /\ mu = d /\ mu' = Free /\ c[d].key \in HostKeys /\ Explained /\ Lines' = Lines
      /\ c' = [c EXCEPT ![d] = [Verified(d) EXCEPT !.trusted = "wrote"]]
  BY <1>1 DEF Record, Sound, Writing, Lines
<1>3. c'[d].at = "verified" /\ c'[d].snap = {} /\ c'[d].key = c[d].key /\ c'[d].trusted = "wrote"
      /\ Shape(d)' /\ Alone(d)
  BY <1>1, <1>2, VerifiedFields DEF Shape, Alone
<1>4. recorded' # NoKey
  BY <1>2, SSHClientAssumption
<1>5. \A e \in Dials \ {d} : ~Writing(e) /\ c[e].trusted \notin {"wrote", "joined"}
  BY <1>2 DEF KnownInv, Sound, Trusts
<1>6. Explained'
  <2>1. {c[e].key : e \in {w \in Dials : c[w].at = "recording"}} \subseteq {recorded'}
    BY <1>2, <1>5 DEF Writing
  <2>2. Left' = Left
    BY <1>2, <1>3 DEF Left, Alone
  <2>3. NoKey \notin Lines \ {Torn}
    BY SSHClientAssumption DEF KnownInv, Lines
  <2>4. Lines \subseteq {Torn} \cup Left \cup {NoKey} \cup {recorded'}
    BY <1>2, <2>1 DEF Explained
  <2> QED BY <1>2, <2>2, <2>3, <2>4 DEF Explained
<1>7. ASSUME NEW e \in Dials, e # d PROVE Sound(e)'
  <2>1. c'[e] = c[e] /\ Sound(e) /\ ~Writing(e) /\ c[e].trusted \notin {"wrote", "joined"}
    BY <1>3, <1>5, <1>7 DEF KnownInv, Alone
  <2> QED BY <1>2, <1>6, <2>1 DEF Sound, Trusts, Shape, Writing
<1>8. Sound(d)'
  BY <1>2, <1>3, <1>4, <1>6 DEF Sound, Trusts, Writing, Undecided
<1>9. \A e \in Dials : c'[e].trusted = "wrote" => e = d
  BY <1>3, <1>5 DEF Alone
<1>10. file' \in Seq(HostKeys \cup {Torn}) /\ DOMAIN c' = Dials
  BY <1>1, <1>2, <1>3 DEF KnownInv, Alone
<1>11. \A e \in Dials : Sound(e)'
  BY <1>7, <1>8
<1> QED BY <1>6, <1>9, <1>10, <1>11 DEF KnownInv

-----------------------------------------------------------------------------
\* Every step keeps the invariant.
LEMMA StepKeeps == KnownInv /\ [Next]_vars => KnownInv'
<1> SUFFICES ASSUME KnownInv, [Next]_vars PROVE KnownInv'
  OBVIOUS
<1>1. ASSUME NEW d \in Dials, Dialing(d) PROVE KnownInv'
  BY <1>1, BeginKeeps, PresentKeeps, LockKeeps, AppendKeeps, RecordKeeps, QuietKeeps DEF Dialing
<1>2. CASE Vanish \/ UNCHANGED vars
  <2>1. file' = file /\ recorded' = recorded /\ mu' = mu /\ c' = c
    BY <1>2 DEF Vanish, vars
  <2>2. Lines' = Lines /\ Left' = Left
    BY <2>1 DEF Lines, Left
  <2>3. Explained' <=> Explained
    BY <2>1, <2>2 DEF Explained
  <2>4. \A d \in Dials : Sound(d)'
    BY <2>1, <2>2, <2>3 DEF KnownInv, Sound, Shape, Writing, Trusts
  <2> QED BY <2>1, <2>3, <2>4 DEF KnownInv
<1>3. ASSUME NEW d \in Dials,
             \/ WatchdogFires(d) \/ Tick(d) \/ Pinging(d) \/ LoopStops(d) \/ EndSpreads(d)
             \/ BeginRun(d) \/ Running(d) \/ Close(d) \/ Cancel(d) \/ ServerEnds(d)
      PROVE  KnownInv'
  BY <1>3, QuietKeeps
<1> QED BY <1>1, <1>2, <1>3 DEF Next

\* However many dials meet an address first at once, one writes a line and goes on, the
\* others trust the key it recorded or none, and so do those that read the file later,
\* but for lines that failed writes have left (client.go:588-645).
THEOREM FirstContactsAgree == Spec => []FirstContact
<1>1. ASSUME KnownInv PROVE FirstContact
  <2>1. ASSUME NEW d \in Dials, NEW e \in Dials, c[e].trusted \in {"wrote", "joined"},
               c[d].trusted = "known"
        PROVE  c[d].key \in Left \cup {recorded}
    <3>1. recorded # NoKey /\ Explained
      BY <1>1, <2>1 DEF KnownInv, Sound, Trusts
    <3>2. \A w \in Dials : c[w].at # "recording"
      BY <1>1, <3>1 DEF KnownInv, Sound, Writing
    <3>3. c[d].key \in Lines /\ c[d].key # Torn
      BY <1>1, <2>1, SSHClientAssumption DEF KnownInv, Sound, Trusts
    <3> QED BY <3>1, <3>2, <3>3 DEF Explained
  <2>2. \A e \in Dials : c[e].trusted \in {"wrote", "joined"} => c[e].key = recorded
    BY <1>1 DEF KnownInv, Sound, Trusts
  <2>3. \A d, e \in Dials : c[d].trusted = "wrote" /\ c[e].trusted = "wrote" => d = e
    BY <1>1 DEF KnownInv
  <2> QED BY <2>1, <2>2, <2>3 DEF FirstContact
<1>2. KnownInv => FirstContact
  BY <1>1
<1> QED BY <1>2, InitKnown, StepKeeps, PTL DEF Spec

-----------------------------------------------------------------------------
(* What a dial leaves behind, and why a known host is not refused.         *)

\* The keys a machine is asked for have recorded types.
Asked(d) == {k \in KeysOf[c[d].machine] : \E r \in c[d].snap : r.type = k.type}

\* It has none of them, or one that is not what was recorded.
Refusable(d) == Asked(d) = {} \/ ~ (Asked(d) \subseteq c[d].snap)

\* Nothing of a dial is open once it is over but what its client needs; keepalive runs
\* for a client only; a dial is refused only by a machine that may be.
Clean(d) ==
    /\ {"sock", "net", "loop"} \subseteq DOMAIN c[d]
    /\ mu = d => Writing(d)
    /\ c[d].at \in {"failed", "unrecorded", "rejected", "connected"} => ~c[d].sock
    /\ c[d].at \in {"failed", "unrecorded", "rejected"} => ~c[d].net
    /\ c[d].at # "connected" => c[d].loop = "off"
    /\ c[d].at = "rejected" /\ Verifying => Refusable(d)

CleanInv == KnownInv /\ \A d \in Dials : Clean(d)

\* Only dial d moves, and the mutex only goes to it or becomes free.
OnlyOne(d) == Alone(d) /\ cfg' = cfg /\ mu' \in {mu, d, Free}

\* What is used of a dial's fields.
AllFields == {"at", "snap", "key", "trusted", "machine", "sock", "net", "loop"}

\* No dial has begun.
LEMMA InitClean == Init => CleanInv
<1> SUFFICES ASSUME Init PROVE CleanInv
  OBVIOUS
<1>1. KnownInv
  BY InitKnown
<1>2. ASSUME NEW d \in Dials PROVE Clean(d)
  BY SSHClientAssumption DEF Init, Idle, Clean, Writing
<1> QED BY <1>1, <1>2 DEF CleanInv

\* The dials that do not move stay clean.
LEMMA OthersClean ==
    ASSUME CleanInv, NEW d \in Dials, OnlyOne(d), NEW e \in Dials, e # d
    PROVE  Clean(e)'
<1>1. Clean(e) /\ c'[e] = c[e] /\ cfg' = cfg
  BY DEF CleanInv, OnlyOne, Alone, KnownInv
<1>2. mu' = e => mu = e
  BY SSHClientAssumption DEF OnlyOne
<1>3. Refusable(e)' <=> Refusable(e)
  BY <1>1 DEF Refusable, Asked
<1> QED BY <1>1, <1>2, <1>3 DEF Clean, Writing, Verifying

\* What a failed dial keeps and what it gives up.
LEMMA FailFields ==
    ASSUME NEW d \in Dials, AllFields \subseteq DOMAIN c[d]
    PROVE  /\ DOMAIN Fail(d) = DOMAIN c[d]
           /\ Fail(d).at = "failed" /\ Fail(d).sock = FALSE /\ Fail(d).net = FALSE
           /\ Fail(d).loop = c[d].loop /\ Fail(d).snap = c[d].snap /\ Fail(d).machine = c[d].machine
BY DEF Fail, AllFields

\* A dial that fails without the mutex, or gives it back, is clean.
LEMMA FailClean ==
    ASSUME CleanInv, NEW d \in Dials, c[d].at # "connected", c' = [c EXCEPT ![d] = Fail(d)],
           cfg' = cfg, mu' = Free \/ (mu' = mu /\ ~Writing(d))
    PROVE  OnlyOne(d) /\ Clean(d)'
<1>1. Shape(d) /\ Clean(d) /\ DOMAIN c = Dials
  BY DEF CleanInv, KnownInv, Sound
<1>2. AllFields \subseteq DOMAIN c[d]
  BY <1>1 DEF Clean, Shape, AllFields
<1>3. c'[d] = Fail(d) /\ Alone(d)
  BY <1>1 DEF Alone
<1>4. mu' # d
  BY <1>1, SSHClientAssumption DEF Clean
<1> QED BY <1>1, <1>2, <1>3, <1>4, FailFields DEF Clean, OnlyOne, AllFields, Writing

\* BeginDial and Connect.
LEMMA BeginClean ==
    ASSUME CleanInv, NEW d \in Dials, BeginDial(d) \/ Connect(d)
    PROVE  OnlyOne(d) /\ Clean(d)'
<1>1. Shape(d) /\ Clean(d) /\ DOMAIN c = Dials /\ mu' = mu /\ cfg' = cfg
      /\ c[d].at \in {"idle", "dialing"}
  BY DEF CleanInv, KnownInv, Sound, BeginDial, Connect
<1>2. CASE c' = [c EXCEPT ![d] = Fail(d)]
  BY <1>1, <1>2, FailClean DEF Writing
<1>3. CASE c' = [c EXCEPT ![d] = [@ EXCEPT !.at = "dialing", !.sock = OpensSocket, !.snap = Lines]]
  <2>1. c'[d].at = "dialing" /\ c'[d].loop = c[d].loop /\ DOMAIN c'[d] = DOMAIN c[d] /\ Alone(d)
    BY <1>1, <1>3 DEF Shape, Clean, Alone
  <2> QED BY <1>1, <2>1 DEF Clean, OnlyOne, Writing
<1>4. CASE \E m \in Machines :
              c' = [c EXCEPT ![d].at = "handshake", ![d].net = TRUE, ![d].machine = m]
  <2>1. c'[d].at = "handshake" /\ c'[d].loop = c[d].loop /\ DOMAIN c'[d] = DOMAIN c[d] /\ Alone(d)
    BY <1>1, <1>4 DEF Shape, Clean, Alone
  <2> QED BY <1>1, <2>1 DEF Clean, OnlyOne, Writing
<1> QED BY <1>2, <1>3, <1>4 DEF BeginDial, Connect

\* What is offered are the machine's keys of the recorded types; when all of these are
\* recorded, so is the one presented.
LEMMA AskedIsPresented ==
    ASSUME NEW d \in Dials, c[d].machine \in Machines, Verifying, ~Refusable(d)
    PROVE  Offered(d) # {} /\ Presented(d) \in c[d].snap
<1>1. Asked(d) # {} /\ Asked(d) \subseteq c[d].snap
  BY DEF Refusable
<1>2. HostKeyAlgorithms(d) = {k.type : k \in c[d].snap}
  BY <1>1 DEF HostKeyAlgorithms, Asked
<1>3. Offered(d) = Asked(d)
  BY <1>2 DEF Offered, Asked
<1> QED BY <1>1, <1>3, PresentedIsKey

\* What another dial does, and what this one keeps, does not make it less refusable.
LEMMA RefusableStays ==
    ASSUME NEW d \in Dials, c'[d].snap = c[d].snap, c'[d].machine = c[d].machine
    PROVE  Refusable(d)' <=> Refusable(d)
BY DEF Refusable, Asked

\* A verified dial keeps what it has open.
LEMMA VerifiedMore ==
    ASSUME NEW d \in Dials, AllFields \subseteq DOMAIN c[d]
    PROVE  /\ DOMAIN Verified(d) = DOMAIN c[d] /\ Verified(d).at = "verified"
           /\ Verified(d).loop = c[d].loop
BY DEF Verified, AllFields

\* Where the dial goes on, nothing is asked of it yet but that keepalive is off.
LEMMA GoesOn ==
    ASSUME CleanInv, NEW d \in Dials, c[d].at # "connected", OnlyOne(d),
           DOMAIN c'[d] = DOMAIN c[d], c'[d].loop = c[d].loop,
           c'[d].at \in {"locking", "appending", "recording", "verified", "ready"},
           mu' = d => c'[d].at \in {"appending", "recording"}
    PROVE  Clean(d)'
BY DEF CleanInv, Clean, Writing

\* A dial is refused with the snapshot it looked at, by the machine it reached.
LEMMA RefusedClean ==
    ASSUME CleanInv, NEW d \in Dials, c[d].at # "connected", ~Writing(d), NEW k,
           \/ c' = [c EXCEPT ![d] = [Fail(d) EXCEPT !.at = "rejected"]]
           \/ c' = [c EXCEPT ![d] = [Fail(d) EXCEPT !.at = "rejected", !.key = k]],
           cfg' = cfg, mu' = mu,
           Verifying => Refusable(d)
    PROVE  OnlyOne(d) /\ Clean(d)'
<1>1. Shape(d) /\ Clean(d) /\ DOMAIN c = Dials
  BY DEF CleanInv, KnownInv, Sound
<1>2. AllFields \subseteq DOMAIN c[d]
  BY <1>1 DEF Clean, Shape, AllFields
<1>3. Alone(d)
  BY <1>1 DEF Alone
<1> DEFINE F == Fail(d)
<1>4. DOMAIN F = DOMAIN c[d] /\ F.sock = FALSE /\ F.net = FALSE
      /\ F.loop = c[d].loop /\ F.snap = c[d].snap /\ F.machine = c[d].machine
  BY <1>2, FailFields
<1>5. c'[d] = [F EXCEPT !.at = "rejected"] \/ c'[d] = [F EXCEPT !.at = "rejected", !.key = k]
  BY <1>1
<1> HIDE DEF F
<1>6. DOMAIN c'[d] = DOMAIN c[d] /\ c'[d].at = "rejected" /\ c'[d].sock = FALSE /\ c'[d].net = FALSE
      /\ c'[d].loop = c[d].loop /\ c'[d].snap = c[d].snap /\ c'[d].machine = c[d].machine
  BY <1>2, <1>4, <1>5 DEF AllFields
<1>7. Refusable(d)' <=> Refusable(d)
  BY <1>6, RefusableStays
<1> QED BY <1>1, <1>3, <1>6, <1>7 DEF Clean, OnlyOne, Writing, Verifying

\* A refusal had something against the machine's keys in the snapshot it looked at.
LEMMA PresentClean ==
    ASSUME CleanInv, NEW d \in Dials, Present(d)
    PROVE  OnlyOne(d) /\ Clean(d)'
<1>1. Shape(d) /\ Clean(d) /\ DOMAIN c = Dials /\ cfg' = cfg /\ mu' = mu /\ c[d].at = "handshake"
      /\ mu # d
  BY DEF CleanInv, KnownInv, Sound, Present, Clean, Writing
<1>2. AllFields \subseteq DOMAIN c[d]
  BY <1>1 DEF Clean, Shape, AllFields
<1>3. c[d].machine \in Machines
  BY <1>1 DEF CleanInv, KnownInv, Sound
<1>4. Verifying /\ ~Refusable(d) => Offered(d) # {} /\ Presented(d) \in c[d].snap
  BY <1>3, AskedIsPresented
<1>5. \/ /\ Offered(d) = {}
         /\ c' = [c EXCEPT ![d] = [Fail(d) EXCEPT !.at = "rejected"]]
      \/ c' = [c EXCEPT ![d] = [Verified(d) EXCEPT !.key = NoKey]]
      \/ c' = [c EXCEPT ![d] = [Verified(d) EXCEPT !.key = Presented(d), !.trusted = "known"]]
      \/ c' = [c EXCEPT ![d] = [@ EXCEPT !.at = "locking", !.key = Presented(d)]]
      \/ /\ Verifying /\ Presented(d) \notin c[d].snap
         /\ c' = [c EXCEPT ![d] = [Fail(d) EXCEPT !.at = "rejected", !.key = Presented(d)]]
  BY DEF Present
<1>6. CASE Offered(d) = {} /\ c' = [c EXCEPT ![d] = [Fail(d) EXCEPT !.at = "rejected"]]
  BY <1>1, <1>4, <1>6, RefusedClean DEF Writing
<1>7. CASE /\ Verifying /\ Presented(d) \notin c[d].snap
           /\ c' = [c EXCEPT ![d] = [Fail(d) EXCEPT !.at = "rejected", !.key = Presented(d)]]
  BY <1>1, <1>4, <1>7, RefusedClean DEF Writing
<1>8. CASE \/ c' = [c EXCEPT ![d] = [Verified(d) EXCEPT !.key = NoKey]]
           \/ c' = [c EXCEPT ![d] = [Verified(d) EXCEPT !.key = Presented(d), !.trusted = "known"]]
  <2> DEFINE V == Verified(d)
             P == Presented(d)
  <2>1. DOMAIN V = DOMAIN c[d] /\ V.at = "verified" /\ V.loop = c[d].loop
    BY <1>2, VerifiedMore
  <2>2. c'[d] = [V EXCEPT !.key = NoKey] \/ c'[d] = [V EXCEPT !.key = P, !.trusted = "known"]
    BY <1>1, <1>8
  <2> HIDE DEF V, P
  <2>3. DOMAIN c'[d] = DOMAIN c[d] /\ c'[d].at = "verified" /\ c'[d].loop = c[d].loop
    BY <1>2, <2>1, <2>2 DEF AllFields
  <2>4. OnlyOne(d)
    BY <1>1, <1>8 DEF OnlyOne, Alone
  <2> QED BY <1>1, <2>3, <2>4, GoesOn
<1>9. CASE c' = [c EXCEPT ![d] = [@ EXCEPT !.at = "locking", !.key = Presented(d)]]
  <2> DEFINE P == Presented(d)
  <2>1. c'[d] = [c[d] EXCEPT !.at = "locking", !.key = P] /\ OnlyOne(d)
    BY <1>1, <1>9 DEF OnlyOne, Alone
  <2> HIDE DEF P
  <2>2. DOMAIN c'[d] = DOMAIN c[d] /\ c'[d].at = "locking" /\ c'[d].loop = c[d].loop
    BY <1>2, <2>1 DEF AllFields
  <2> QED BY <1>1, <2>1, <2>2, GoesOn
<1> QED BY <1>5, <1>6, <1>7, <1>8, <1>9

\* The mutex is held while a dial writes, and a first contact has an empty snapshot.
LEMMA MutexClean ==
    ASSUME CleanInv, NEW d \in Dials, Lock(d) \/ AppendLine(d) \/ Record(d)
    PROVE  OnlyOne(d) /\ Clean(d)'
<1>1. Shape(d) /\ Clean(d) /\ DOMAIN c = Dials /\ cfg' = cfg /\ Free # d
      /\ c[d].at \in {"locking", "appending", "recording"}
  BY SSHClientAssumption DEF CleanInv, KnownInv, Sound, Lock, AppendLine, Record
<1>2. AllFields \subseteq DOMAIN c[d]
  BY <1>1 DEF Clean, Shape, AllFields
<1>3. CASE c' = [c EXCEPT ![d] = [Fail(d) EXCEPT !.at = "unrecorded"]] /\ mu' = Free
  <2> DEFINE F == Fail(d)
  <2>1. DOMAIN F = DOMAIN c[d] /\ F.sock = FALSE /\ F.net = FALSE /\ F.loop = c[d].loop
    BY <1>2, FailFields
  <2>2. c'[d] = [F EXCEPT !.at = "unrecorded"] /\ OnlyOne(d)
    BY <1>1, <1>3 DEF OnlyOne, Alone
  <2> HIDE DEF F
  <2>3. DOMAIN c'[d] = DOMAIN c[d] /\ c'[d].at = "unrecorded" /\ c'[d].sock = FALSE
        /\ c'[d].net = FALSE /\ c'[d].loop = c[d].loop
    BY <1>2, <2>1, <2>2 DEF AllFields
  <2> QED BY <1>1, <1>3, <2>2, <2>3 DEF Clean
<1>4. CASE /\ \E t \in {"joined", "wrote"} : c' = [c EXCEPT ![d] = [Verified(d) EXCEPT !.trusted = t]]
           /\ mu' # d /\ mu' \in {mu, Free}
  <2> DEFINE V == Verified(d)
  <2>1. DOMAIN V = DOMAIN c[d] /\ V.at = "verified" /\ V.loop = c[d].loop
    BY <1>2, VerifiedMore
  <2>2. (\E t : c'[d] = [V EXCEPT !.trusted = t]) /\ OnlyOne(d)
    BY <1>1, <1>4 DEF OnlyOne, Alone
  <2> HIDE DEF V
  <2>3. DOMAIN c'[d] = DOMAIN c[d] /\ c'[d].at = "verified" /\ c'[d].loop = c[d].loop
    BY <1>2, <2>1, <2>2 DEF AllFields
  <2> QED BY <1>1, <1>4, <2>2, <2>3, GoesOn
<1>5. CASE c' = [c EXCEPT ![d].at = "appending"] /\ mu' = d
  <2>1. DOMAIN c'[d] = DOMAIN c[d] /\ c'[d].at = "appending" /\ c'[d].loop = c[d].loop /\ OnlyOne(d)
    BY <1>1, <1>2, <1>5 DEF OnlyOne, Alone, AllFields
  <2> QED BY <1>1, <2>1, GoesOn
<1>6. CASE c' = [c EXCEPT ![d].at = "recording"] /\ mu' = mu
  <2>1. DOMAIN c'[d] = DOMAIN c[d] /\ c'[d].at = "recording" /\ c'[d].loop = c[d].loop /\ OnlyOne(d)
    BY <1>1, <1>2, <1>6 DEF OnlyOne, Alone, AllFields
  <2> QED BY <1>1, <2>1, GoesOn
<1>7. CASE Lock(d) /\ c' = [c EXCEPT ![d] = [Fail(d) EXCEPT !.at = "rejected"]] /\ mu' = mu
  <2>1. c[d].at = "locking" /\ Refusable(d)
    BY <1>7 DEF Lock, CleanInv, KnownInv, Sound, Refusable, Asked
  <2> QED BY <1>1, <1>7, <2>1, RefusedClean DEF Writing
<1>8. CASE AppendLine(d)
  BY <1>3, <1>6, <1>8 DEF AppendLine
<1>9. CASE Record(d)
  BY <1>1, <1>4, <1>9 DEF Record
<1>10. CASE Lock(d)
  <2>1. mu = Free
    BY <1>10 DEF Lock
  <2> QED BY <1>1, <1>4, <1>5, <1>7, <1>10, <2>1 DEF Lock
<1> QED BY <1>8, <1>9, <1>10

\* The rest of Dial.
LEMMA EndsClean ==
    ASSUME CleanInv, NEW d \in Dials, WatchdogFires(d) \/ HandshakeEnds(d) \/ DialEnds(d)
    PROVE  OnlyOne(d) /\ Clean(d)'
<1>1. Shape(d) /\ Clean(d) /\ DOMAIN c = Dials /\ cfg' = cfg /\ mu' = mu /\ mu \in {mu, d, Free}
  BY DEF CleanInv, KnownInv, Sound, WatchdogFires, HandshakeEnds, DialEnds
<1>2. AllFields \subseteq DOMAIN c[d]
  BY <1>1 DEF Clean, Shape, AllFields
<1>3. OnlyOne(d)
  BY <1>1 DEF OnlyOne, Alone, WatchdogFires, HandshakeEnds, DialEnds
<1>4. CASE WatchdogFires(d)
  <2>1. DOMAIN c'[d] = DOMAIN c[d] /\ c'[d].at = c[d].at /\ c'[d].loop = c[d].loop
        /\ c'[d].at \notin {"connected", "failed", "unrecorded", "rejected"}
    BY <1>1, <1>2, <1>4 DEF WatchdogFires, InHandshake, AllFields
  <2> QED BY <1>1, <1>3, <2>1 DEF Clean, Writing
<1>5. CASE c' = [c EXCEPT ![d] = Fail(d)] /\ c[d].at \in {"handshake", "verified", "ready"}
  BY <1>1, <1>5, FailClean DEF Writing
<1>6. CASE c' = [c EXCEPT ![d].at = "ready"] /\ c[d].at = "verified"
  <2>1. DOMAIN c'[d] = DOMAIN c[d] /\ c'[d].at = "ready" /\ c'[d].loop = c[d].loop
    BY <1>1, <1>2, <1>6 DEF AllFields
  <2>2. mu # d
    BY <1>1, <1>6 DEF Clean, Writing
  <2> QED BY <1>1, <1>3, <1>6, <2>1, <2>2, GoesOn
<1>7. CASE c' = [c EXCEPT ![d] = [Fail(d) EXCEPT !.done = TRUE]] /\ c[d].at = "ready"
  <2> DEFINE F == Fail(d)
  <2>1. DOMAIN F = DOMAIN c[d] /\ F.at = "failed" /\ F.sock = FALSE /\ F.net = FALSE /\ F.loop = c[d].loop
    BY <1>2, FailFields
  <2>2. c'[d] = [F EXCEPT !.done = TRUE]
    BY <1>1, <1>7
  <2> HIDE DEF F
  <2>3. DOMAIN c'[d] = DOMAIN c[d] /\ c'[d].at = "failed" /\ c'[d].sock = FALSE /\ c'[d].net = FALSE
        /\ c'[d].loop = c[d].loop
    BY <1>2, <2>1, <2>2 DEF AllFields
  <2> QED BY <1>1, <1>3, <1>7, <2>3 DEF Clean, Writing
<1>8. CASE c' = [c EXCEPT ![d] = [@ EXCEPT !.at = "connected", !.sock = FALSE, !.loop = "idle"]]
           /\ c[d].at = "ready"
  <2>1. DOMAIN c'[d] = DOMAIN c[d] /\ c'[d].at = "connected" /\ c'[d].sock = FALSE
    BY <1>1, <1>2, <1>8 DEF AllFields
  <2> QED BY <1>1, <1>3, <1>8, <2>1 DEF Clean, Writing
<1> QED BY <1>3, <1>4, <1>5, <1>6, <1>7, <1>8 DEF HandshakeEnds, DialEnds

\* Keepalive, Run, Close and the environment do not take the dial anywhere, and
\* keepalive never starts here.
LEMMA LaterClean ==
    ASSUME CleanInv, NEW d \in Dials,
           \/ Tick(d) \/ Pinging(d) \/ LoopStops(d) \/ EndSpreads(d)
           \/ BeginRun(d) \/ Running(d) \/ Close(d) \/ Cancel(d) \/ ServerEnds(d)
    PROVE  OnlyOne(d) /\ Clean(d)'
<1>1. Shape(d) /\ Clean(d) /\ DOMAIN c = Dials
  BY DEF CleanInv, KnownInv, Sound
<1>2. AllFields \subseteq DOMAIN c[d]
  BY <1>1 DEF Clean, Shape, AllFields
<1>3. ASSUME cfg' = cfg, mu' = mu, Alone(d), DOMAIN c'[d] = DOMAIN c[d],
             \A f \in {"at", "snap", "machine", "sock"} : c'[d][f] = c[d][f],
             c'[d].net = c[d].net \/ c'[d].net = FALSE,
             c'[d].loop = c[d].loop \/ c[d].loop # "off"
      PROVE  OnlyOne(d) /\ Clean(d)'
  <2>1. Refusable(d)' <=> Refusable(d)
    BY <1>3, RefusableStays
  <2> QED BY <1>1, <1>2, <1>3, <2>1 DEF OnlyOne, Clean, Writing, Verifying, AllFields
<1>4. CASE Tick(d)
  BY <1>1, <1>2, <1>3, <1>4 DEF Tick, Alone, AllFields
<1>5. CASE PingAnswered(d)
  <2>1. CASE c' = [c EXCEPT ![d].parked = 0, ![d].loop = "idle", ![d].fails = 0] /\ c[d].loop # "off"
    BY <1>1, <1>2, <1>3, <1>5, <2>1 DEF PingAnswered, Alone, AllFields
  <2>2. CASE c' = [c EXCEPT ![d].parked = @ - 1]
    BY <1>1, <1>2, <1>3, <1>5, <2>2 DEF PingAnswered, Alone, AllFields
  <2> QED BY <1>5, <2>1, <2>2 DEF PingAnswered
<1>6. CASE PingMissed(d)
  <2>1. CASE c' = [c EXCEPT ![d].fails = @ + 1, ![d].loop = "ended", ![d].net = FALSE]
    BY <1>1, <1>2, <1>3, <1>6, <2>1 DEF PingMissed, Alone, AllFields
  <2>2. CASE c' = [c EXCEPT ![d].fails = @ + 1, ![d].loop = "idle"]
    BY <1>1, <1>2, <1>3, <1>6, <2>2 DEF PingMissed, Alone, AllFields
  <2> QED BY <1>6, <2>1, <2>2 DEF PingMissed
<1>7. CASE PingCalledOff(d)
  BY <1>1, <1>2, <1>3, <1>7 DEF PingCalledOff, Alone, AllFields
<1>8. CASE LoopStops(d)
  BY <1>1, <1>2, <1>3, <1>8 DEF LoopStops, Alone, AllFields
<1>9. CASE EndSpreads(d)
  BY <1>1, <1>2, <1>3, <1>9 DEF EndSpreads, Alone, AllFields
<1>10. CASE Close(d)
  BY <1>1, <1>2, <1>3, <1>10 DEF Close, Alone, AllFields
<1>11. CASE Cancel(d)
  BY <1>1, <1>2, <1>3, <1>11 DEF Cancel, Alone, AllFields
<1>12. CASE ServerEnds(d)
  BY <1>1, <1>2, <1>3, <1>12 DEF ServerEnds, Alone, AllFields
<1>13. CASE BeginRun(d) \/ Running(d)
  <2>1. PICK s : c' = [c EXCEPT ![d].run = s] /\ cfg' = cfg /\ mu' = mu
    BY <1>13 DEF BeginRun, Running, SessionOpens, CommandStarts, RunFails, CommandEnds, RunAbandons, RunTo
  <2> QED BY <1>1, <1>2, <1>3, <2>1 DEF Alone, AllFields
<1> QED BY <1>4, <1>5, <1>6, <1>7, <1>8, <1>9, <1>10, <1>11, <1>12, <1>13 DEF Pinging

\* Every step keeps every dial clean.
LEMMA StepClean == CleanInv /\ [Next]_vars => CleanInv'
<1> SUFFICES ASSUME CleanInv, [Next]_vars PROVE CleanInv'
  OBVIOUS
<1>1. KnownInv'
  BY StepKeeps DEF CleanInv
<1>2. ASSUME NEW d \in Dials, OnlyOne(d), Clean(d)' PROVE CleanInv'
  BY <1>1, <1>2, OthersClean DEF CleanInv
<1>3. ASSUME NEW d \in Dials, Dialing(d) PROVE CleanInv'
  BY <1>2, <1>3, BeginClean, PresentClean, MutexClean, EndsClean DEF Dialing
<1>4. ASSUME NEW d \in Dials,
             \/ WatchdogFires(d) \/ Tick(d) \/ Pinging(d) \/ LoopStops(d) \/ EndSpreads(d)
             \/ BeginRun(d) \/ Running(d) \/ Close(d) \/ Cancel(d) \/ ServerEnds(d)
      PROVE  CleanInv'
  BY <1>2, <1>4, EndsClean, LaterClean
<1>5. CASE Vanish \/ UNCHANGED vars
  BY <1>1, <1>5 DEF CleanInv, Clean, Writing, Verifying, Refusable, Asked, Vanish, vars
<1> QED BY <1>3, <1>4, <1>5 DEF Next

\* Whatever way a dial ends, it leaves no socket of the agent, no connection and no
\* keepalive but those of its client, and never the mutex (client.go:105-195).
THEOREM DialsLeaveNothing == Spec => []DialsClean
<1>1. CleanInv => DialsClean
  BY DEF CleanInv, Clean, DialsClean, Writing
<1> QED BY <1>1, InitClean, StepClean, PTL DEF Spec

\* A machine whose keys of the recorded types are all recorded is never refused for its
\* key, if it has any (client.go:537-565): the types it is asked for are those of the
\* recorded keys, and what it presents is one of these.
THEOREM KnownMachinesPass == Spec => []KnownHostsPass
<1>1. CleanInv => KnownHostsPass
  BY DEF CleanInv, Clean, KnownHostsPass, Refusable, Asked
<1> QED BY <1>1, InitClean, StepClean, PTL DEF Spec
=============================================================================
