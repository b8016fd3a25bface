--------------------------- MODULE MC_ProxyConnect ---------------------------
(***************************************************************************)
(* Two dialing threads, two proxy endpoints, every network, and one name   *)
(* of each kind, while the configuring thread makes up to MaxSets calls.   *)
(***************************************************************************)
EXTENDS ProxyConnect, TLC

MCNets == {"unroutable", "ipv4", "ipv6", "tor", "i2p"}

\* 1.2.3.4, 2001::1, an .onion, 127.0.0.1 (unroutable IPv4), an I2P destination.
MCD4 == [fam |-> "ipv4", net |-> "ipv4"]
MCD6 == [fam |-> "ipv6", net |-> "ipv6"]
MCDT == [fam |-> "tor",  net |-> "tor"]
MCDL == [fam |-> "ipv4", net |-> "unroutable"]
MCDI == [fam |-> "i2p",  net |-> "i2p"]
MCDests == {MCD4, MCD6, MCDT, MCDL, MCDI}

MCNames == {"1.2.3.4", "x.onion", "x.b32.i2p", "seed.example"}
MCNameKind == ("1.2.3.4" :> "numeric") @@ ("x.onion" :> "onion")
              @@ ("x.b32.i2p" :> "b32") @@ ("seed.example" :> "host")
MCNameDest == ("1.2.3.4" :> MCD4) @@ ("x.onion" :> MCDT)
              @@ ("x.b32.i2p" :> MCDI) @@ ("seed.example" :> MCD6)

MCSymmetry == Permutations(Threads) \cup Permutations(Endpoints)

=============================================================================
