------------------------------ MODULE SSHClient ------------------------------
(***************************************************************************)
(* The clients one whoosh process opens to the machines behind one address *)
(* (transport/ssh): the keys it authenticates with, the host key it trusts *)
(* on first use, the steps of Dial with its watchdog and agent forwarding, *)
(* the keepalive loop with its pinging goroutines, and one Run per client. *)
(*                                                                         *)
(* The network, the machines and x/crypto are the environment.  Its        *)
(* SendRequest with a reply holds a mutex until the answer is there, so    *)
(* pings are sent one at a time and answered in order.                     *)
(***************************************************************************)
EXTENDS Integers, Sequences

CONSTANTS
    Dials,        \* the dials of the process
    Followed,     \* those whose clients are followed further, with one Run each
    Machines,     \* what answers at the address, when it is not always the same
    HostKeys,     \* host keys: of these machines, and of ones the address had before
    KeysOf,       \* KeysOf[m]: the host keys of machine m, one of a type
    InitialLines, \* what known_hosts may hold for the address when the process starts
    Configs,      \* what Options, the target and the environment may say: see Config
    MaxFails,     \* DefaultKeepaliveMaxFails
    Torn,         \* a part of a line, left by a write that did not come to its end
    NoKey, Free

Types == {"ecdsa", "rsa", "ed25519"}

\* usable: a private key that opens.  sealed: encrypted, and the passphrase does not
\* open it.  garbage: no private key.  unreadable: the file or directory cannot be read.
Source == [kind : {"explicit", "dir"}, holds : SUBSET {"usable", "sealed", "garbage", "unreadable"}]

\* ids: ssh.identities.  identity: the target's identity_file.  sock: SSH_AUTH_SOCK.
\* forward: ForwardAgent, or ForwardKey with a key that opens or one that does not.
Config == [mode : {"insecure", "strict", "accept_new"},
           ids : SUBSET Source,
           identity : {"none", "usable", "sealed"},
           sock : {"unset", "stale", "live"},
           forward : {"none", "agent", "key", "badkey"}]

ASSUME SSHClientAssumption ==
    /\ Followed \subseteq Dials
    /\ Machines # {}
    /\ \A k \in HostKeys : k.type \in Types
    /\ \A m \in Machines :
           /\ KeysOf[m] \subseteq HostKeys
           /\ \A k, o \in KeysOf[m] : o.type = k.type => o = k
    /\ Configs \subseteq Config
    /\ InitialLines \subseteq Seq(HostKeys)
    /\ MaxFails \in Nat \ {0}
    /\ NoKey \notin HostKeys /\ Torn \notin HostKeys
    /\ Free \notin Dials

VARIABLES
    cfg,        \* the options of the run
    file,       \* the lines of known_hosts for the address
    recorded,   \* acceptNewMu.recorded for the address
    mu,         \* who holds acceptNewMu
    silent,     \* the machines have vanished: no packet is answered any more
    c           \* c[d]: dial d and its client

vars == <<cfg, file, recorded, mu, silent, c>>

\* trusted: why the key was taken: it is in the snapshot, d wrote its line, or a parallel
\* dial had recorded it.  cut: the watchdog closed the connection.  net: it is open.  sock: the agent socket
\* of authMethods is.  parked: goroutines of ping waiting in SendRequest.
Idle == [at |-> "idle", snap |-> {}, machine |-> CHOOSE m \in Machines : TRUE, key |-> NoKey,
         trusted |-> "no", sock |-> FALSE, net |-> FALSE, cut |-> FALSE, ctx |-> "live",
         done |-> FALSE, gone |-> FALSE, loop |-> "off", fails |-> 0, parked |-> 0,
         run |-> "none"]

Init ==
    /\ cfg \in Configs
    /\ file \in InitialLines
    /\ recorded = NoKey
    /\ mu = Free
    /\ silent = FALSE
    /\ c = [d \in Dials |-> Idle]

Lines == {file[i] : i \in DOMAIN file}

Verifying == cfg.mode # "insecure"

-----------------------------------------------------------------------------
(* Keys and authentication.                                                *)

Usable(s) == "usable" \in s.holds

\* addIdentity: an explicit key must open; of a directory only the scan itself can fail.
Refused(s) == IF s.kind = "explicit" THEN ~Usable(s) ELSE "unreadable" \in s.holds

\* NewAgent, called only when identities are configured; an error ends the process.
BuiltinAgent ==
    IF cfg.ids = {} THEN "absent"
    ELSE IF \E s \in cfg.ids : Refused(s) THEN "refused"
    ELSE IF \E s \in cfg.ids : Usable(s) THEN "built" ELSE "refused"

\* authMethods: the builtin agent replaces the system's, whose socket is opened last.
OpensSocket == BuiltinAgent = "absent" /\ cfg.sock = "live"

AuthPossible ==
    /\ cfg.identity # "sealed"
    /\ cfg.identity = "usable" \/ BuiltinAgent = "built" \/ OpensSocket

\* setupForwarding: ForwardKey, the builtin agent, SSH_AUTH_SOCK, in this order.
ForwardingFails ==
    \/ cfg.forward = "badkey"
    \/ cfg.forward = "agent" /\ BuiltinAgent = "absent" /\ cfg.sock = "unset"

\* Whatever Dial has opened by then is closed when it returns an error.
Fail(d) == [c[d] EXCEPT !.at = "failed", !.sock = FALSE, !.net = FALSE, !.cut = FALSE]

\* authMethods, hostKeyCallback: the callback reads known_hosts once, here, and does not
\* go past a line it cannot parse.
BeginDial(d) ==
    /\ c[d].at = "idle"
    /\ BuiltinAgent # "refused"
    /\ c' = [c EXCEPT ![d] =
                IF AuthPossible /\ ~ (Verifying /\ Torn \in Lines)
                THEN [@ EXCEPT !.at = "dialing", !.sock = OpensSocket, !.snap = Lines]
                ELSE Fail(d)]
    /\ UNCHANGED <<cfg, file, recorded, mu, silent>>

\* The TCP dial, or the channel through the jump host, with one budget for both; a
\* done context or a spent budget is one way to fail.
Connect(d) ==
    /\ c[d].at = "dialing"
    /\ \/ /\ ~silent
          /\ \E m \in Machines :
                c' = [c EXCEPT ![d].at = "handshake", ![d].net = TRUE, ![d].machine = m]
       \/ c' = [c EXCEPT ![d] = Fail(d)]
    /\ UNCHANGED <<cfg, file, recorded, mu, silent>>

-----------------------------------------------------------------------------
(* The host key.                                                           *)

\* Mutant: the library's default order, whatever known_hosts holds.
HostKeyAlgorithmsDefault(d) == Types

\* knownHostAlgorithms: the types of the recorded keys, all when there are none.
HostKeyAlgorithms(d) ==
    IF Verifying /\ c[d].snap # {} THEN {k.type : k \in c[d].snap} ELSE Types

Offered(d) == {k \in KeysOf[c[d].machine] : k.type \in HostKeyAlgorithms(d)}

Rank == [ecdsa |-> 1, rsa |-> 2, ed25519 |-> 3]

\* The client's preference decides among the keys the server can offer.
Presented(d) == CHOOSE k \in Offered(d) : \A o \in Offered(d) : Rank[k.type] <= Rank[o.type]

\* The snapshot and the machine are not asked again.
Verified(d) == [c[d] EXCEPT !.at = "verified", !.snap = {}, !.machine = Idle.machine]

\* What the callback says of the key at once: known, refused, or a first contact.
Present(d) ==
    /\ c[d].at = "handshake" /\ c[d].net /\ ~silent
    /\ IF Offered(d) = {} THEN c' = [c EXCEPT ![d] = [Fail(d) EXCEPT !.at = "rejected"]]
       ELSE LET key == Presented(d) IN
            c' = [c EXCEPT ![d] =
                    CASE ~Verifying -> [Verified(d) EXCEPT !.key = NoKey]
                      [] Verifying /\ key \in c[d].snap ->
                            [Verified(d) EXCEPT !.key = key, !.trusted = "known"]
                      [] Verifying /\ key \notin c[d].snap /\ cfg.mode = "accept_new" /\ c[d].snap = {} ->
                            [@ EXCEPT !.at = "locking", !.key = key]
                      [] OTHER -> [Fail(d) EXCEPT !.at = "rejected", !.key = key]]
    /\ UNCHANGED <<cfg, file, recorded, mu, silent>>

\* Mutant: a first contact does not look for a key that a parallel dial recorded.
LockBlind(d) ==
    /\ c[d].at = "locking" /\ mu = Free
    /\ mu' = d
    /\ c' = [c EXCEPT ![d].at = "appending"]
    /\ UNCHANGED <<cfg, file, recorded, silent>>

\* Under acceptNewMu: a key recorded by a parallel dial since is the only one trusted.
Lock(d) ==
    /\ c[d].at = "locking" /\ mu = Free
    /\ CASE recorded = NoKey ->
              mu' = d /\ c' = [c EXCEPT ![d].at = "appending"]
         [] recorded = c[d].key ->
              mu' = mu /\ c' = [c EXCEPT ![d] = [Verified(d) EXCEPT !.trusted = "joined"]]
         [] OTHER ->
              mu' = mu /\ c' = [c EXCEPT ![d] = [Fail(d) EXCEPT !.at = "rejected"]]
    /\ UNCHANGED <<cfg, file, recorded, silent>>

\* What is appended to a part of a line is a part of that line.
Appended(line) == IF Torn \in Lines THEN file ELSE Append(file, line)

\* The line is written and the file closed; or the open, the write or the close fails,
\* which leaves nothing, the line or a part of it in the file, and nothing recorded.
AppendLine(d) ==
    /\ c[d].at = "appending"
    /\ \/ /\ file' = Appended(c[d].key)
          /\ c' = [c EXCEPT ![d].at = "recording"]
          /\ UNCHANGED mu
       \/ /\ file' \in {file, Appended(c[d].key), Appended(Torn)}
          /\ mu' = Free
          /\ c' = [c EXCEPT ![d] = [Fail(d) EXCEPT !.at = "unrecorded"]]
    /\ UNCHANGED <<cfg, recorded, silent>>

Record(d) ==
    /\ c[d].at = "recording"
    /\ recorded' = c[d].key
    /\ mu' = Free
    /\ c' = [c EXCEPT ![d] = [Verified(d) EXCEPT !.trusted = "wrote"]]
    /\ UNCHANGED <<cfg, file, silent>>

-----------------------------------------------------------------------------
(* The rest of the handshake, and its watchdog.                            *)

InHandshake(d) == c[d].at \in {"handshake", "locking", "appending", "recording", "verified", "ready"}

\* The budget is spent, or the context done: the watchdog closes the connection, from
\* before the first byte to after the last, until Dial stops it.
WatchdogFires(d) ==
    /\ InHandshake(d) /\ ~c[d].cut
    /\ c' = [c EXCEPT ![d].cut = TRUE, ![d].net = FALSE]
    /\ UNCHANGED <<cfg, file, recorded, mu, silent>>

\* NewClientConn returns: the server takes one of the keys or none, or the connection
\* is gone.
HandshakeEnds(d) ==
    /\ c[d].at = "verified" \/ (c[d].at = "handshake" /\ ~c[d].net)
    /\ \/ /\ c[d].at = "verified" /\ c[d].net /\ ~silent
          /\ c' = [c EXCEPT ![d].at = "ready"]
       \/ /\ c[d].net => ~silent
          /\ c' = [c EXCEPT ![d] = Fail(d)]
    /\ UNCHANGED <<cfg, file, recorded, mu, silent>>

\* Mutant: the error of setupForwarding is returned and the client left open.
DialEndsOpen(d) ==
    /\ c[d].at = "ready"
    /\ c' = [c EXCEPT ![d] =
                IF c[d].cut THEN Fail(d)
                ELSE IF ForwardingFails THEN [@ EXCEPT !.at = "failed", !.sock = FALSE]
                ELSE [@ EXCEPT !.at = "connected", !.sock = FALSE, !.loop = "idle"]]
    /\ UNCHANGED <<cfg, file, recorded, mu, silent>>

\* From stop() to the end of Dial: a cut handshake failed though it may have succeeded;
\* forwarding is set up; keepalive starts.
DialEnds(d) ==
    /\ c[d].at = "ready"
    /\ c' = [c EXCEPT ![d] =
                IF c[d].cut THEN Fail(d)
                ELSE IF ForwardingFails THEN [Fail(d) EXCEPT !.done = TRUE]
                ELSE [@ EXCEPT !.at = "connected", !.sock = FALSE, !.loop = "idle"]]
    /\ UNCHANGED <<cfg, file, recorded, mu, silent>>

-----------------------------------------------------------------------------
(* Keepalive.                                                              *)

Up(d) == c[d].at = "connected" /\ d \in Followed

\* On a connection that has ended SendRequest returns at once.
Tick(d) ==
    /\ Up(d) /\ c[d].loop = "idle"
    /\ c' = [c EXCEPT ![d].loop = "pinging", ![d].parked = IF c[d].net THEN @ + 1 ELSE @]
    /\ UNCHANGED <<cfg, file, recorded, mu, silent>>

\* The oldest request is answered and the next one goes out; when it is the last, the
\* answer is the one the loop waits for.
PingAnswered(d) ==
    /\ c[d].net /\ ~silent /\ c[d].parked > 0
    /\ IF c[d].loop = "pinging" /\ c[d].parked = 1
       THEN c' = [c EXCEPT ![d].parked = 0, ![d].loop = "idle", ![d].fails = 0]
       ELSE c' = [c EXCEPT ![d].parked = @ - 1]
    /\ UNCHANGED <<cfg, file, recorded, mu, silent>>

\* Mutant: the loop gives up without closing the connection.
PingMissedLeaving(d) ==
    /\ c[d].loop = "pinging"
    /\ IF c[d].fails + 1 >= MaxFails
       THEN c' = [c EXCEPT ![d].fails = @ + 1, ![d].loop = "ended"]
       ELSE c' = [c EXCEPT ![d].fails = @ + 1, ![d].loop = "idle"]
    /\ UNCHANGED <<cfg, file, recorded, mu, silent>>

\* No answer within the interval, or SendRequest's error on a connection that ended.
PingMissed(d) ==
    /\ c[d].loop = "pinging"
    /\ IF c[d].fails + 1 >= MaxFails
       THEN c' = [c EXCEPT ![d].fails = @ + 1, ![d].loop = "ended", ![d].net = FALSE]
       ELSE c' = [c EXCEPT ![d].fails = @ + 1, ![d].loop = "idle"]
    /\ UNCHANGED <<cfg, file, recorded, mu, silent>>

\* Close came first: not a miss.
PingCalledOff(d) ==
    /\ c[d].loop = "pinging" /\ c[d].done
    /\ c' = [c EXCEPT ![d].loop = "idle", ![d].fails = 0]
    /\ UNCHANGED <<cfg, file, recorded, mu, silent>>

LoopStops(d) ==
    /\ c[d].loop = "idle" /\ c[d].done
    /\ c' = [c EXCEPT ![d].loop = "ended"]
    /\ UNCHANGED <<cfg, file, recorded, mu, silent>>

\* The end of the connection reaches the goroutines that wait for an answer, and Wait's.
EndSpreads(d) ==
    /\ Up(d) /\ ~c[d].net
    /\ c[d].parked > 0 \/ ~c[d].gone
    /\ c' = [c EXCEPT ![d].parked = 0, ![d].gone = TRUE]
    /\ UNCHANGED <<cfg, file, recorded, mu, silent>>

-----------------------------------------------------------------------------
(* Run and Close.                                                          *)

InRun == {"opening", "starting", "waiting"}

RunTo(d, s) ==
    /\ c' = [c EXCEPT ![d].run = s]
    /\ UNCHANGED <<cfg, file, recorded, mu, silent>>

BeginRun(d) ==
    /\ Up(d) /\ c[d].run = "none" /\ ~c[d].done
    /\ RunTo(d, "opening")

\* NewSession and Start wait for the server, not for the context.
SessionOpens(d) ==
    /\ c[d].run = "opening" /\ c[d].net /\ ~silent
    /\ RunTo(d, "starting")

CommandStarts(d) ==
    /\ c[d].run = "starting" /\ c[d].net /\ ~silent
    /\ RunTo(d, "waiting")

\* The server refuses the session or the command, or the connection ended.
RunFails(d) ==
    /\ c[d].run \in InRun
    /\ c[d].run = "waiting" => ~c[d].net
    /\ c[d].net => ~silent
    /\ RunTo(d, "over")

CommandEnds(d) ==
    /\ c[d].run = "waiting" /\ c[d].net /\ ~silent
    /\ RunTo(d, "over")

\* SIGKILL is sent and the session closed; nobody waits for the command any more.
RunAbandons(d) ==
    /\ c[d].run = "waiting" /\ c[d].ctx = "done"
    /\ RunTo(d, "over")

\* The pool closes its clients when the runs are over.
Close(d) ==
    /\ Up(d) /\ ~c[d].done
    /\ c[d].run \notin InRun
    /\ c' = [c EXCEPT ![d].done = TRUE, ![d].net = FALSE]
    /\ UNCHANGED <<cfg, file, recorded, mu, silent>>

-----------------------------------------------------------------------------
(* The environment.                                                        *)

\* Ctrl-C or a sibling's failure; during Dial it is one more way to fail.
Cancel(d) ==
    /\ c[d].ctx = "live" /\ c[d].run \in InRun
    /\ c' = [c EXCEPT ![d].ctx = "done"]
    /\ UNCHANGED <<cfg, file, recorded, mu, silent>>

\* Power off or a partition: packets are neither answered nor refused any more.
Vanish ==
    /\ ~silent
    /\ silent' = TRUE
    /\ UNCHANGED <<cfg, file, recorded, mu, c>>

ServerEnds(d) ==
    /\ Up(d) /\ c[d].net /\ ~silent
    /\ c' = [c EXCEPT ![d].net = FALSE]
    /\ UNCHANGED <<cfg, file, recorded, mu, silent>>

Dialing(d) ==
    \/ BeginDial(d) \/ Connect(d) \/ Present(d) \/ Lock(d) \/ AppendLine(d) \/ Record(d)
    \/ HandshakeEnds(d) \/ DialEnds(d)

Pinging(d) == PingAnswered(d) \/ PingMissed(d) \/ PingCalledOff(d)

Running(d) == SessionOpens(d) \/ CommandStarts(d) \/ RunFails(d) \/ CommandEnds(d) \/ RunAbandons(d)

Next ==
    \/ \E d \in Dials :
        \/ Dialing(d) \/ WatchdogFires(d)
        \/ Tick(d) \/ Pinging(d) \/ LoopStops(d) \/ EndSpreads(d)
        \/ BeginRun(d) \/ Running(d) \/ Close(d)
        \/ Cancel(d) \/ ServerEnds(d)
    \/ Vanish

Spec == Init /\ [][Next]_vars

\* Timers fire, goroutines are scheduled, a select with two ready cases takes each in
\* the end; a machine that has not vanished answers.  Nobody has to run or close.
FairSpec ==
    /\ Spec
    /\ \A d \in Dials :
        /\ WF_vars(Dialing(d)) /\ WF_vars(WatchdogFires(d) /\ c[d].at # "ready")
        /\ WF_vars(Tick(d)) /\ WF_vars(Pinging(d)) /\ SF_vars(LoopStops(d))
        /\ WF_vars(EndSpreads(d)) /\ WF_vars(Running(d))

-----------------------------------------------------------------------------
(* Properties.                                                             *)

\* Every variable has its type, and the goroutines of missed pings (client.go:238-241)
\* are no more than the misses that are counted against the host.
TypeOK ==
    /\ cfg \in Configs
    /\ file \in Seq(HostKeys \cup {Torn}) /\ recorded \in HostKeys \cup {NoKey}
    /\ mu \in Dials \cup {Free} /\ silent \in BOOLEAN
    /\ \A d \in Dials :
        /\ c[d].snap \subseteq HostKeys /\ c[d].machine \in Machines
        /\ c[d].key \in HostKeys \cup {NoKey}
        /\ c[d].fails \in 0..MaxFails
        /\ c[d].parked \in 0..MaxFails
        /\ c[d].net => c[d].parked <= c[d].fails + (IF c[d].loop = "pinging" THEN 1 ELSE 0)

\* Whatever way a dial ends (client.go:105-195), it leaves no socket of the agent, no
\* connection and no keepalive behind but those of the client it returns, and never
\* the mutex of known_hosts.
DialsClean ==
    \A d \in Dials :
        /\ c[d].at \in {"failed", "unrecorded", "rejected", "connected"} => ~c[d].sock /\ mu # d
        /\ c[d].at \in {"failed", "unrecorded", "rejected"} => ~c[d].net /\ c[d].loop = "off"

\* Keys whose lines may have been left behind by dials that failed on them.
Left == {c[d].key : d \in {e \in Dials : c[e].at = "unrecorded"}}

\* Trust on first use (client.go:588-645): however many dials meet the address first at
\* once, one of them writes a line and goes on, all that go on trust the key it
\* recorded, and so do those that read the file later, unless a failed write has left
\* the line of another key there.
FirstContact ==
    \A d, e \in Dials :
        /\ c[d].trusted = "wrote" /\ c[e].trusted = "wrote" => d = e
        /\ c[e].trusted \in {"wrote", "joined"} =>
               /\ c[e].key = recorded
               /\ c[d].trusted = "known" => c[d].key \in Left \cup {recorded}

\* A machine is refused for its key only when it has none of a recorded type, or one
\* of those it has is not what was recorded (client.go:537-565): it is asked for a key
\* that can match, and no other key of it counts.
KnownHostsPass ==
    \A d \in Dials :
        LET asked == {k \in KeysOf[c[d].machine] : \E r \in c[d].snap : r.type = k.type}
        IN  c[d].at = "rejected" /\ Verifying => ~ (asked # {} /\ asked \subseteq c[d].snap)

\* A Run returns after its host vanished or its context is done (client.go:368-403,
\* 214-236), also from NewSession and Start, which do not look at the context.
RunReturns ==
    \A d \in Dials :
        (c[d].run \in InRun /\ (silent \/ c[d].ctx = "done")) ~> c[d].run \notin InRun

=============================================================================
