------------------------------ MODULE MCStartup -----------------------------
EXTENDS Startup, TLC

SomePrefixes ==
    [secrets |-> <<[kind |-> "set",  names |-> <<"url", "token", "db">>], [kind |-> "one", names |-> <<"last">>]>>,
     ssm     |-> <<[kind |-> "path", names |-> <<"url", "p">>],  [kind |-> "one", names |-> <<"last">>]>>]

SomeKeys == ("url" :> <<"URL">>) @@ ("token" :> <<"TOKEN">>) @@ ("db" :> <<"HOST", "URL">>) @@ ("p" :> <<"P">>) @@ ("last" :> <<"URL">>)

H(addr, key, pass) == [addr |-> addr, local |-> FALSE, key |-> key, pass |-> pass, source |-> ""]
Here  == [H("localhost", "none", "none") EXCEPT !.local = TRUE]

P(name, features, hks) == [name |-> name, active |-> TRUE, features |-> features, hooks |-> hks]
Elsewhere(name) == [P(name, {}, {}) EXCEPT !.active = FALSE]
Rbenv(when, phase) == P("rbenv", {}, {<<when, phase, "rbenv:setup">>})

Notify == <<"after", "deploy:failed", "notify">>

File(hs, ps, hks, custom) ==
    [key |-> "global", pass |-> "global", hosts |-> hs, plugins |-> ps, tasks |-> {"notify"}, resolve |-> FALSE,
     hooks |-> hks, custom |-> custom, log |-> [flags |-> {"file"}, file |-> {"output"}]]

Discovering(custom) ==
    File(<<H("web", "own", "none")>>,
         <<P("aws", {"inventory"}, {}), P("systemd", {}, {<<"before", "warm", "stop">>, <<"after", "", "enable">>})>>,
         {Notify}, custom)

\* Hosts of every kind; a machine listed by name, looked up or not; the secrets alone;
\* plugins that hook into each other, before and after, at no phase and at several; a
\* dead hook of the file's and one of a plugin's; a plugin listed twice, one that is not
\* compiled in, a passphrase without a key.
SomeDeployfiles == {
    File(<<H("web", "own", "own"), H("db", "none", "none"), H("x", "none", "own"), Here>>,
         <<P("systemd", {}, {<<"after", "deploy:published", "restart">>, <<"before", "deploy:published", "reload">>}),
           Rbenv("before", "")>>, {Notify}, {}),
    Discovering({"warm"}), [Discovering({"warm"}) EXCEPT !.resolve = TRUE],
    File(<<Here>>, <<Elsewhere("aws"), P("aws", {"secrets"}, {})>>, {}, {}),
    File(<<Here>>, <<P("aws", {"inventory", "secrets"}, {})>>, {<<"after", "notify", "notify">>}, {}),
    File(<<Here>>, <<P("systemd", {}, {<<"before", "deploy:updated", "stop">>}), Elsewhere("print")>>,
         {<<"after", "stop", "notify">>, <<"before", "deploy:updated", "stop">>}, {}),
    File(<<Here>>, <<P("systemd", {}, {<<"before", "deploy:typo", "stop">>})>>, {}, {}),
    File(<<Here>>, <<Elsewhere("systemd"), Rbenv("after", "deploy:failed")>>, {<<"before", "deploy:failed", "notify">>}, {}),
    File(<<Here>>, <<P("systemd", {}, {<<"before", "deploy:updated", "stop">>}),
                     P("systemd", {}, {<<"before", "deploy:published", "stop">>})>>, {}, {}),
    File(<<Here>>, <<P("systemctl", {}, {})>>, {}, {}),
    [File(<<H("web", "none", "own")>>, << >>, {}, {}) EXCEPT !.key = "none", !.pass = "none"] }

SomeDefaults == <<"print", "systemd">>

SomeAddresses == ("web" :> {"10.0.0.1"}) @@ ("db" :> {}) @@ ("x" :> {}) @@ ("localhost" :> {})
          @@ ("10.0.0.1" :> {}) @@ ("10.0.0.2" :> {})

=============================================================================
