------------------------------ MODULE MCRequests ------------------------------
(***************************************************************************)
(* A small instance of Requests for TLC.                                   *)
(***************************************************************************)
EXTENDS Requests

CONSTANTS v1, v2

MCGenesis == [v \in Validators |-> IF v = v1 THEN 2 ELSE 0]

Asked(kind, v, amount) == [kind |-> kind, validator |-> v, amount |-> amount]

\* The bootstrap of a new subnet with a prefund and two joins, and on a running
\* one: a validator that joins, then stakes, withdraws or votes; stakes and
\* withdrawals of one validator; funds and a withdrawal around the vote.
MCScenarios ==
  {[running |-> FALSE,
    asks |-> <<Asked("create", v1, 0), Asked("prefund", v1, 1), Asked("join", v1, 2),
               Asked("join", v2, 1)>>],
   [running |-> FALSE,
    asks |-> <<Asked("create", v1, 0), Asked("join", v1, 2), Asked("join", v1, 2)>>]}
  \cup {[running |-> TRUE, asks |-> s] : s \in
   {<<Asked("join", v2, 1), Asked("unstake", v2, 1), Asked("kill", v2, 0)>>,
    <<Asked("join", v2, 1), Asked("stake", v2, 1), Asked("unstake", v1, 1)>>,
    <<Asked("stake", v1, 1), Asked("unstake", v1, 1), Asked("unstake", v1, 1)>>,
    <<Asked("kill", v1, 0), Asked("fund", v1, 1), Asked("stake", v1, 1)>>,
    <<Asked("kill", v1, 0), Asked("kill", v1, 0), Asked("join", v2, 1)>>}}
=============================================================================
