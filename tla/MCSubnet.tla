------------------------------- MODULE MCSubnet -------------------------------
(***************************************************************************)
(* Small instances of Subnet for TLC.                                      *)
(***************************************************************************)
EXTENDS SubnetClaims, TLC

CONSTANTS v1, v2, v3

\* The genesis validators may be exchanged: the whitelist is {v1, v2} and no
\* definition orders validators.  Used in runs of safety properties only.
GenesisSymmetry == Permutations({v1, v2})
=============================================================================
