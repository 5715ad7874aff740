----------------------------- MODULE Connections -----------------------------
(***************************************************************************)
(* The SSH connections of one whoosh process: the pool of Cluster.conn,    *)
(* the phases of ssh.Dial with its watchdog, and the jump host all dials   *)
(* share.  The process runs one fan-out (a round) after another; in each   *)
(* round every worker, the goroutine of one target, asks for the           *)
(* connection of its target once.                                          *)
(*                                                                         *)
(* Abstracted: what is run on a connection (Fanout), authentication and    *)
(* agent forwarding (a handshake that fails), local targets (no dial).     *)
(***************************************************************************)
EXTENDS Integers

CONSTANTS
    Workers,      \* the goroutines of a fan-out
    Keys,         \* pool keys: address, port, user, identity and host-key mode
    ModeOf,       \* ModeOf[k]: "strict" or "loose" host-key verification
    UseBastion,   \* every connection is tunneled through the jump host
    Rounds,       \* fan-outs before Close
    None,         \* no worker, no entry, no client
    Faults        \* what the environment may do: see FaultKinds

\* refuse: a dial or handshake fails.  timeout: a TCP connect or channel open runs
\* into the connect timeout; its error matches context.DeadlineExceeded.  cancel: the
\* round's context is done.  end: an established connection ends.
FaultKinds == {"refuse", "timeout", "cancel", "end"}

Modes == {"strict", "loose"}

\* What worker w makes in round n, an entry or a client of the jump host, is <<w, n>>.
Ids == Workers \X (1..Rounds)

ASSUME ConnectionsAssumption ==
    /\ ModeOf \in [Keys -> Modes]
    /\ UseBastion \in BOOLEAN
    /\ Rounds \in Nat
    /\ None \notin Workers \cup Ids
    /\ Faults \subseteq FaultKinds

VARIABLES
    round,     \* fan-outs started
    done,      \* the round's context is done
    target,    \* target[w]: the key of w's target; a task may skip verification, and
               \* inventory entries may share a key
    at,        \* at[w]: where in conn and Dial worker w is
    held,      \* held[w]: the pool entry w got
    via,       \* via[w]: the jump host's client w's dial goes through
    pool,      \* Cluster.conns
    entries,   \* every connEntry ever made, with the client its dial made
    jumps,     \* every client of the jump host ever made
    hop,       \* Bastion.strict and Bastion.loose
    mu,        \* who holds Bastion.mu
    closed     \* Cluster.Close has run

local == <<at, held, via>>
vars == <<round, done, target, local, pool, entries, jumps, hop, mu, closed>>

\* "context": errors.Is(err, context.Canceled) || errors.Is(err, context.DeadlineExceeded)
Errs == {"none", "refused", "context"}

\* A client is none yet, open, or ended.
ClientStates == {"none", "open", "ended"}

Fresh(k) == [key |-> k, once |-> "new", err |-> "none", client |-> "none", via |-> None]

Undialed == [dialed |-> FALSE, client |-> None, err |-> "none"]

Init ==
    /\ round = 0
    /\ done = FALSE
    /\ target \in [Workers -> Keys]
    /\ at = [w \in Workers |-> "idle"]
    /\ held = [w \in Workers |-> None]
    /\ via = [w \in Workers |-> None]
    /\ pool = [k \in Keys |-> None]
    /\ entries \in [Ids -> {Fresh(CHOOSE k \in Keys : TRUE)}]
    /\ jumps = [i \in Ids |-> [mode |-> "loose", client |-> "none"]]
    /\ hop = [m \in Modes |-> Undialed]
    /\ mu = None
    /\ closed = FALSE

-----------------------------------------------------------------------------
(* Rounds.                                                                 *)

Quiet == \A w \in Workers : at[w] = "idle"

\* A fan-out starts on a live context: a done one starts no dial.
StartRound ==
    /\ Quiet /\ ~closed
    /\ round < Rounds
    /\ round' = round + 1
    /\ done' = FALSE
    /\ target' \in [Workers -> Keys]
    /\ at' = [w \in Workers |-> "lookup"]
    /\ held' = [w \in Workers |-> None]
    /\ via' = [w \in Workers |-> None]
    /\ UNCHANGED <<pool, entries, jumps, hop, mu, closed>>

\* Ctrl-C, or a sibling's failure under fail-fast.
CancelRound ==
    /\ "cancel" \in Faults
    /\ ~Quiet /\ ~done
    /\ done' = TRUE
    /\ UNCHANGED <<round, target, local, pool, entries, jumps, hop, mu, closed>>

SkipTarget(w) ==
    /\ at[w] = "lookup" /\ done
    /\ at' = [at EXCEPT ![w] = "idle"]
    /\ UNCHANGED <<round, done, target, held, via, pool, entries, jumps, hop, mu, closed>>

-----------------------------------------------------------------------------
(* Cluster.conn.                                                           *)

Lookup(w) ==
    /\ at[w] = "lookup"
    /\ IF pool[target[w]] # None
       THEN UNCHANGED <<entries, pool>>
       ELSE /\ entries' = [entries EXCEPT ![<<w, round>>] = Fresh(target[w])]
            /\ pool' = [pool EXCEPT ![target[w]] = <<w, round>>]
    /\ held' = [held EXCEPT ![w] = pool'[target[w]]]
    /\ at' = [at EXCEPT ![w] = "once"]
    /\ UNCHANGED <<round, done, target, via, jumps, hop, mu, closed>>

\* The first to come dials; the others wait until it has.
Once(w) ==
    /\ at[w] = "once"
    /\ entries[held[w]].once # "running"
    /\ entries' = [entries EXCEPT ![held[w]].once = IF @ = "new" THEN "running" ELSE @]
    /\ at' = [at EXCEPT ![w] = IF entries[held[w]].once = "done" THEN "check"
                               ELSE IF UseBastion THEN "bastion" ELSE "connect"]
    /\ UNCHANGED <<round, done, target, held, via, pool, jumps, hop, mu, closed>>

\* Dial returns: the entry gets the client or the error.
EndDial(w, client, err) ==
    /\ entries' = [entries EXCEPT ![held[w]] =
                      [@ EXCEPT !.once = "done", !.client = client, !.err = err, !.via = via[w]]]
    /\ at' = [at EXCEPT ![w] = "check"]

FailDial(w, err) == EndDial(w, "none", err)

\* Mutant: an aborted dial stays in the pool.
CheckKeeping(w) ==
    /\ at[w] = "check"
    /\ at' = [at EXCEPT ![w] = "idle"]
    /\ UNCHANGED <<round, done, target, held, via, pool, entries, jumps, hop, mu, closed>>

\* The entry of an aborted dial is dropped, if it is still the one in the pool.
Check(w) ==
    /\ at[w] = "check"
    /\ pool' = IF entries[held[w]].err = "context" /\ pool[target[w]] = held[w]
               THEN [pool EXCEPT ![target[w]] = None] ELSE pool
    /\ at' = [at EXCEPT ![w] = "idle"]
    /\ UNCHANGED <<round, done, target, held, via, entries, jumps, hop, mu, closed>>

-----------------------------------------------------------------------------
(* Bastion.connect.                                                        *)

\* Mutant: one jump-host connection for both modes.
HopModeAny(w) == "loose"

\* The two modes keep separate connections.
HopMode(w) == ModeOf[target[w]]

\* A cached failure and a client that has not ended are used as they are.
Cached(b) == b.dialed /\ (b.client = None \/ jumps[b.client].client = "open")

\* (`closed` is never met here: no dial follows Close in one process.)
TakeBastion(w) ==
    /\ at[w] = "bastion"
    /\ mu = None
    /\ LET b == hop[HopMode(w)]
       IN  IF ~Cached(b)
           THEN /\ mu' = w
                /\ at' = [at EXCEPT ![w] = "jump"]
                /\ UNCHANGED <<via, entries>>
           ELSE /\ UNCHANGED mu
                /\ IF b.client = None THEN FailDial(w, b.err) /\ UNCHANGED via
                   ELSE /\ via' = [via EXCEPT ![w] = b.client]
                        /\ at' = [at EXCEPT ![w] = "connect"]
                        /\ UNCHANGED entries
    /\ UNCHANGED <<round, done, target, held, pool, jumps, hop, closed>>

Jumped(w) ==
    /\ jumps' = [jumps EXCEPT ![<<w, round>>] = [mode |-> ModeOf[target[w]], client |-> "open"]]
    /\ hop' = [hop EXCEPT ![HopMode(w)] =
                  [dialed |-> TRUE, client |-> <<w, round>>, err |-> "none"]]
    /\ via' = [via EXCEPT ![w] = <<w, round>>]
    /\ at' = [at EXCEPT ![w] = "connect"]
    /\ UNCHANGED entries

\* Mutant: an aborted dial of the jump host keeps the mutex.
JumpHolding(w) ==
    /\ at[w] = "jump"
    /\ \/ Jumped(w) /\ mu' = None
       \/ done /\ FailDial(w, "context") /\ UNCHANGED <<jumps, hop, via, mu>>
    /\ UNCHANGED <<round, done, target, held, pool, closed>>

\* The dial of the jump host itself, under the mutex.
Jump(w) ==
    /\ at[w] = "jump"
    /\ mu' = None
    /\ \/ Jumped(w)
       \* (its handshake's own timeout is no context error)
       \/ /\ "refuse" \in Faults \/ "timeout" \in Faults
          /\ hop' = [hop EXCEPT ![HopMode(w)] =
                        [dialed |-> TRUE, client |-> None, err |-> "refused"]]
          /\ FailDial(w, "refused")
          /\ UNCHANGED <<jumps, via>>
       \* not cached: an aborted dial says nothing about the jump host
       \* (nor is one that ran into its own connect timeout)
       \/ /\ done \/ "timeout" \in Faults
          /\ FailDial(w, "context")
          /\ UNCHANGED <<jumps, hop, via>>
    /\ UNCHANGED <<round, done, target, held, pool, closed>>

-----------------------------------------------------------------------------
(* ssh.Dial: the TCP connect or channel open, then the handshake.          *)

Through(w) == via[w] = None \/ jumps[via[w]].client = "open"

Connect(w) ==
    /\ at[w] = "connect"
    /\ \/ /\ Through(w)
          /\ at' = [at EXCEPT ![w] = "handshake"]
          /\ UNCHANGED entries
       \/ ("refuse" \in Faults \/ ~Through(w)) /\ FailDial(w, "refused")
       \/ (done \/ "timeout" \in Faults) /\ FailDial(w, "context")
    /\ UNCHANGED <<round, done, target, held, via, pool, jumps, hop, mu, closed>>

\* Mutant: a handshake that won against the watchdog's cancellation stays open.
HandshakeLeaking(w) ==
    /\ at[w] = "handshake"
    /\ EndDial(w, "open", IF done THEN "context" ELSE "none")
    /\ UNCHANGED <<round, done, target, held, via, pool, jumps, hop, mu, closed>>

\* A handshake that the watchdog interrupted is a failure even if it succeeded, and
\* leaves no connection; the watchdog's own timeout is no context error.
Handshake(w) ==
    /\ at[w] = "handshake"
    /\ \/ Through(w) /\ EndDial(w, "open", "none")
       \/ ("refuse" \in Faults \/ "timeout" \in Faults \/ ~Through(w)) /\ FailDial(w, "refused")
       \/ done /\ FailDial(w, "context")
    /\ UNCHANGED <<round, done, target, held, via, pool, jumps, hop, mu, closed>>

-----------------------------------------------------------------------------
(* The ends of connections.                                                *)

End(i) == [entries[i] EXCEPT !.client = IF @ = "open" THEN "ended" ELSE @]

EndJump(i) == [jumps[i] EXCEPT !.client = IF @ = "open" THEN "ended" ELSE @]

\* Keepalive, the server or the network ends a connection...
ClientEnds ==
    /\ "end" \in Faults
    /\ \E i \in Ids :
          /\ entries[i].client = "open"
          /\ entries' = [entries EXCEPT ![i] = End(i)]
    /\ UNCHANGED <<round, done, target, local, pool, jumps, hop, mu, closed>>

\* ... or the one to the jump host, and with it those it carries.
JumpEnds ==
    /\ "end" \in Faults
    /\ \E i \in Ids :
          /\ jumps[i].client = "open"
          /\ jumps' = [jumps EXCEPT ![i] = EndJump(i)]
          /\ entries' = [j \in Ids |-> IF entries[j].via = i THEN End(j) ELSE entries[j]]
    /\ UNCHANGED <<round, done, target, local, pool, hop, mu, closed>>

\* Cluster.Close, once nothing runs any more, and the Bastion.Close it calls.
CloseAll ==
    /\ Quiet /\ ~closed
    /\ closed' = TRUE
    /\ entries' = [i \in Ids |-> IF \E k \in Keys : pool[k] = i THEN End(i) ELSE entries[i]]
    /\ jumps' = [i \in Ids |-> IF \E m \in Modes : hop[m].client = i THEN EndJump(i) ELSE jumps[i]]
    /\ pool' = [k \in Keys |-> None]
    /\ hop' = [m \in Modes |-> Undialed]
    /\ UNCHANGED <<round, done, target, local, mu>>

Work(w) ==
    \/ SkipTarget(w) \/ Lookup(w) \/ Once(w) \/ TakeBastion(w) \/ Jump(w)
    \/ Connect(w) \/ Handshake(w) \/ Check(w)

Next ==
    \/ StartRound \/ CancelRound \/ ClientEnds \/ JumpEnds \/ CloseAll
    \/ \E w \in Workers : Work(w)

Spec == Init /\ [][Next]_vars

\* Goroutines run on, and every phase of a dial is bounded by the connect timeout.
FairSpec == Spec /\ \A w \in Workers : WF_vars(Work(w))

-----------------------------------------------------------------------------
(* What must be true.                                                      *)

\* Every variable keeps its type, and Bastion.mu is held by the one worker that
\* dials the jump host (cluster.go:36-40, bastion.go:18-34).
TypeOK ==
    /\ round \in 0..Rounds
    /\ done \in BOOLEAN
    /\ target \in [Workers -> Keys]
    /\ at \in [Workers -> {"idle", "lookup", "once", "bastion", "jump", "connect", "handshake", "check"}]
    /\ held \in [Workers -> Ids \cup {None}]
    /\ via \in [Workers -> Ids \cup {None}]
    /\ pool \in [Keys -> Ids \cup {None}]
    /\ entries \in [Ids -> [key : Keys, once : {"new", "running", "done"}, err : Errs,
                            client : ClientStates, via : Ids \cup {None}]]
    /\ jumps \in [Ids -> [mode : Modes, client : ClientStates]]
    /\ hop \in [Modes -> [dialed : BOOLEAN, client : Ids \cup {None}, err : Errs]]
    /\ mu \in Workers \cup {None}
    /\ \A w \in Workers : mu = w <=> at[w] = "jump"
    /\ closed \in BOOLEAN

\* Every connection that is open is where Close will find it: one per key in the
\* pool, one per mode at the jump host.  Nothing is opened twice or lost on an
\* error path, however dials, waits, aborts and re-dials interleave
\* (cluster.go:172-209, client.go:154-174, bastion.go:57-84).
NothingLeaks ==
    \A i \in Ids :
        /\ entries[i].client = "open" => pool[entries[i].key] = i
        /\ jumps[i].client = "open" => hop[jumps[i].mode].client = i

\* No fan-out inherits a dial that an earlier one aborted: once a round is over, no
\* pooled entry holds a context error (cluster.go:199-209).
AbortsForgotten ==
    Quiet => \A k \in Keys : pool[k] # None => entries[pool[k]].err # "context"

\* A target that requires host-key verification gets no connection that was opened
\* without it, at its own end or at the jump host's (cluster.go:142-160,
\* bastion.go:17-18).
VerifiedThroughout ==
    \A w \in Workers :
        at[w] = "idle" /\ held[w] # None =>
            LET e == entries[held[w]]
            IN  /\ e.key = target[w]
                /\ e.via # None => jumps[e.via].mode = ModeOf[e.key]

\* Every request for a connection is answered, though workers wait for each other's
\* dials and for the jump host's mutex (cluster.go:172, bastion.go:44-45).
RequestsAnswered == \A w \in Workers : at[w] # "idle" ~> at[w] = "idle"

\* A dial of the jump host that failed by itself, on a live context, is remembered
\* and fails every host the same way: "it is not re-dialed" (bastion.go:37-38).
BastionFailureCached ==
    [][\A w \in Workers :
          at[w] = "jump" /\ at'[w] = "check" /\ ~done => Cached(hop[HopMode(w)])']_vars

=============================================================================
