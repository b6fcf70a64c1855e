------------------------------- MODULE MCLedger -------------------------------
(***************************************************************************)
(* A small instance of Ledger for TLC.                                     *)
(***************************************************************************)
EXTENDS Ledger

CONSTANTS s1, s2, s3, tok

Rec(op, home, token, amount, dest) ==
  [op |-> op, home |-> home, token |-> token, amount |-> amount, dest |-> dest]

Plan(s, batch, c) == [subnet |-> s, batch |-> batch, conf |-> c]

Pay(kind, s) == [kind |-> kind, subnet |-> s, amount |-> 1, tx |-> 0]

\* A token is registered and sent at once, all of it; minted beyond the limit,
\* burnt and sent on, to its own sender too, by a checkpoint that a later
\* configuration may outrun; sent home by its holder; native transfers, two to
\* the same subnet, which read as a checkpoint only with change.
MCPlans ==
  {Plan(s1, <<Rec("register", s1, tok, 2, s1), Rec("send", s1, tok, 2, s2)>>, 2),
   Plan(s1, <<Rec("burn", s1, tok, 1, s1), Rec("send", s1, tok, 1, s2), Rec("send", s1, tok, 1, s1),
             Rec("mint", s1, tok, 3, s1), Rec("fund", s2, NoToken, 1, s2)>>, 1),
   Plan(s2, <<Rec("send", s1, tok, 2, s1)>>, 0),
   Plan(s2, <<Rec("fund", s3, NoToken, 1, s3), Rec("fund", s3, NoToken, 2, s3)>>, 0)}

\* A prefund before and after the bootstrap; funds, and the vote that marks the
\* subnet.
MCPayments == {<<Pay("prefund", s3), Pay("bootstrap", s3), Pay("prefund", s3)>>,
               <<Pay("fund", s2), Pay("mark", s2)>>}

MCNoPlans == {}

\* More funds than one digit of a nonce counts.
MCManyFunds == {[i \in 1..11 |-> Pay("fund", s2)]}
=============================================================================
