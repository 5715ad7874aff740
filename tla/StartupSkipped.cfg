SPECIFICATION FairSpec
CONSTANTS
    Sources = {"static", "host"}
    Wanted <- SomePrefixes
    KeysOf <- SomeKeys
    RequireJSON = TRUE
    Limit = 2
    MaxLife = 1
    MaxTime = 2
    Nothing = Nothing
    Deployfiles <- SomeDeployfiles
    Compiled = {"aws", "systemd", "rbenv", "print"}
    Defaults <- SomeDefaults
    Instances = {"10.0.0.1", "10.0.0.2"}
    Resolves <- SomeAddresses
    MaxListed = 2
INVARIANTS
    ActiveNotSkipped
\* The program ends after the env file, or with an error.
CHECK_DEADLOCK FALSE
