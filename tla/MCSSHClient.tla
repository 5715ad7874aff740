----------------------------- MODULE MCSSHClient -----------------------------
(***************************************************************************)
(* Instances of SSHClient for TLC: two dials of one address behind which   *)
(* are a machine with keys of two types and one with a key of its own; the *)
(* client of one of them is used.                                          *)
(***************************************************************************)
EXTENDS SSHClient

CONSTANTS m1, m2, gone

Rsa(m) == [type |-> "rsa", of |-> m]
Ed25519(m) == [type |-> "ed25519", of |-> m]

TwoMachines == [m \in Machines |-> IF m = m1 THEN {Rsa(m1), Ed25519(m1)} ELSE {Ed25519(m2)}]

\* The key of a machine that is no more.
AllKeys == {Rsa(m1), Ed25519(m1), Ed25519(m2), Rsa(gone)}

\* A new machine; the less preferred key of the first one, or both; a key of each; the
\* one of the first and a stale one of its other type.
SomeLines == {<<>>, <<Ed25519(m1)>>, <<Rsa(m1), Ed25519(m1)>>, <<Ed25519(m1), Ed25519(m2)>>,
              <<Rsa(gone), Ed25519(m1)>>}

Explicit == [kind |-> "explicit", holds |-> {"usable"}]
Directory == [kind |-> "dir", holds |-> {"garbage", "sealed"}]

Plain == [mode |-> "accept_new", ids |-> {}, identity |-> "usable", sock |-> "unset", forward |-> "none"]

\* The verification modes; every way keys are found; every way they are forwarded.
SomeConfigs ==
    {[Plain EXCEPT !.mode = "strict"], [Plain EXCEPT !.mode = "insecure"],
     Plain, [Plain EXCEPT !.identity = "sealed"],
     [Plain EXCEPT !.identity = "none", !.sock = "stale"],
     [Plain EXCEPT !.identity = "none", !.sock = "live", !.forward = "agent"],
     [Plain EXCEPT !.identity = "none", !.ids = {Explicit, Directory}, !.forward = "badkey"],
     [Plain EXCEPT !.ids = {Directory}], [Plain EXCEPT !.forward = "agent"]}

=============================================================================
