------------------------------- MODULE MCAuth -------------------------------
(***************************************************************************)
(* An instance of Auth for TLC: two servers whose clocks differ, a demo    *)
(* user and an id without a row, a password refresh and a revocation.      *)
(***************************************************************************)
EXTENDS Auth, TLC

CONSTANTS s1, s2, l1

MCServers == {s1, s2}
MCSkew == (s1 :> 0) @@ (s2 :> 1)
MCLogins == {l1}
MCGrants == {{}, {"accounts:read"}}
=============================================================================
