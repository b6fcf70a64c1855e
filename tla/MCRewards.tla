------------------------------ MODULE MCRewards ------------------------------
(***************************************************************************)
(* A small instance of Rewards for TLC.                                    *)
(***************************************************************************)
EXTENDS Rewards, TLC

CONSTANTS v1, v2, s1, s2

Config(n, c1, c2) == [conf |-> n, stake |-> (v1 :> c1 @@ v2 :> c2)]

\* In the first subnet v2 leaves and comes back while v1 goes down and up; the
\* second keeps its committee.
MCConfigs ==
  s1 :> ((0 :> Config(0, 3, 2)) @@ (1 :> Config(1, 2, 0)) @@ (2 :> Config(2, 4, 1)))
  @@ s2 :> (0 :> Config(0, 1, 2))

=============================================================================
