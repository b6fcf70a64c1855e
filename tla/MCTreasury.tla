------------------------------ MODULE MCTreasury ------------------------------
(***************************************************************************)
(* A small instance of Treasury for TLC.                                   *)
(***************************************************************************)
EXTENDS Treasury

CONSTANTS v1, v2, b1, b2, user, other

Config(n, s1, s2) == [conf |-> n, stake |-> (v1 :> s1 @@ v2 :> s2)]

\* The first change withdraws, the second deposits.
MCConfigs == (0 :> Config(0, 3, 2)) @@ (1 :> Config(1, 2, 2)) @@ (2 :> Config(2, 2, 3))

MCPowers == {2^k : k \in 0..16}

MCBackup == v1 :> b1 @@ v2 :> b2

MCOther == other :> other

Want(ws, ts, conf) ==
  [withdrawals |-> ws, transfers |-> ts, tokens |-> FALSE, conf |-> conf]

To(dest, value) == [dest |-> dest, value |-> value]

Scenario(cs, fs, ws, ds, es, ps) ==
  [collateral |-> cs, funds |-> fs, wants |-> ws, deposits |-> ds, events |-> es, spends |-> ps]

\* A batch, a payment that races it and one of the operators'; a batch for two
\* subnets, itself one of them; the handover before, between or after a
\* rotation; two rotations, and one over two changes; a kill with a rest to
\* share out, after a batch and alone; a rotation that carries a batch, and one
\* that an operators' payment is ahead of.
MCScenarios ==
  {Scenario(<<>>, <<4, 3, 15, 2>>, <<Want(<<Pay(user, 2)>>, <<To(other, 1), To(other, 1)>>, 0)>>,
            <<5>>, <<>>, {Pay(user, 3)}),
   Scenario(<<>>, <<12, 9>>, <<Want(<<>>, <<To(other, 1), To(Self, 2)>>, 0)>>, <<>>, <<>>, {}),
   Scenario(<<4, 3>>, <<9, 8>>, <<Want(<<Pay(user, 2)>>, <<>>, 1)>>, <<>>, <<"change">>, {}),
   Scenario(<<>>, <<15, 12>>, <<Want(<<Pay(user, 1)>>, <<>>, 1), Want(<<Pay(user, 1)>>, <<>>, 2)>>,
            <<3>>, <<"change", "change">>, {}),
   Scenario(<<>>, <<15, 12>>, <<Want(<<>>, <<>>, 2)>>, <<4>>, <<"change", "change">>, {}),
   Scenario(<<>>, <<25, 10>>, <<Want(<<Pay(user, 2)>>, <<>>, 0)>>, <<7>>, <<"mark">>, {}),
   Scenario(<<>>, <<25, 10>>, <<Want(<<>>, <<To(other, 1)>>, 0), Want(<<Pay(user, 2)>>, <<>>, 0)>>,
            <<>>, <<"mark">>, {}),
   Scenario(<<>>, <<9, 9>>, <<Want(<<Pay(user, 1)>>, <<To(other, 1)>>, 1)>>, <<>>, <<"change">>, {}),
   Scenario(<<>>, <<12, 15>>, <<Want(<<Pay(user, 1)>>, <<>>, 1)>>, <<>>, <<"change">>, {Pay(user, 3)})}

\* Three transfers to one subnet.
MCManyTransfers ==
  {Scenario(<<>>, <<20>>, <<Want(<<>>, <<To(other, 1), To(other, 1), To(other, 1)>>, 0)>>,
            <<>>, <<>>, {})}
=============================================================================
