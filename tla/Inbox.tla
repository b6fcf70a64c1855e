-------------------------------- MODULE Inbox --------------------------------
(***************************************************************************)
(* What the rootnet promises a child subnet about its messages: each       *)
(* subnet has one log that only grows at its end, however the messages     *)
(* came about and whatever was repeated after a failure, and the child     *)
(* takes messages of the log, none twice.  It takes them in order and      *)
(* leaves none out for later as long as things are orderly: when blocks    *)
(* were handled a second time, messages of a lower height have higher      *)
(* nonces than some of a greater one, and the child reads by height.       *)
(***************************************************************************)
EXTENDS Sequences, Functions, SequencesExt

CONSTANT Subnets       \* the subnets with a log

VARIABLES
  log,                 \* the messages for each subnet, in the order of their nonces
  inbox,               \* what each child has taken
  orderly              \* no block was handled again after a later one

vars == <<log, inbox, orderly>>

Init ==
  /\ log = [s \in Subnets |-> <<>>]
  /\ inbox = [s \in Subnets |-> <<>>]
  /\ orderly = TRUE

\* One handled message may address several subnets at once.
Deliver ==
  /\ \A s \in Subnets : IsPrefix(log[s], log'[s])
  /\ UNCHANGED <<inbox, orderly>>

Take ==
  /\ \A s \in Subnets :
       /\ IsPrefix(inbox[s], inbox'[s])
       /\ \A i \in DOMAIN inbox'[s] :
            /\ \E k \in DOMAIN log[s] : inbox'[s][i] = log[s][k]
            /\ \A j \in 1..(i - 1) : inbox'[s][j] # inbox'[s][i]
       /\ orderly => IsPrefix(inbox'[s], log[s])
  /\ UNCHANGED <<log, orderly>>

Rewind == orderly' = FALSE /\ UNCHANGED <<log, inbox>>

Next == Deliver \/ Take \/ Rewind

Spec == Init /\ [][Next]_vars
=============================================================================
