------------------------------ MODULE MCSettings ------------------------------
EXTENDS Settings, TLC

NoEnv == [k \in Keys |-> Empty]
\* The Vault token and the OIDC client come from the deployment.
PartlyInEnv == [NoEnv EXCEPT ![Token] = "t0", ![Client] = "c0"]
LocalInEnv == [NoEnv EXCEPT ![Backend] = "local"]

\* Each update has keys of two groups: among them an issuer that is cleared, an interval of 0
\* and an address that cannot be parsed.
Saves == {Issuer :> "i1" @@ Interval :> 10, Issuer :> Empty @@ Address :> "bad",
          Address :> "v1" @@ Interval :> 0}
Clears == {Issuer :> "i1" @@ Client :> "c1", Issuer :> Empty}
Vaults == {Address :> "v1" @@ Token :> "t1"}
Races == {Interval :> 10, Interval :> 20}

Symmetry == Permutations(Admins)
=============================================================================
