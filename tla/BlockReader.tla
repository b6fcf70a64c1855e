----------------------------- MODULE BlockReader -----------------------------
(***************************************************************************)
(* What the monitor promises of Bitcoin's blocks, whatever fails around    *)
(* it: their messages are taken up one at a time, in the order of the      *)
(* chain, without leaving one out, and only from blocks that are never     *)
(* replaced.  Taking a message up again after an interruption is no step   *)
(* here.                                                                   *)
(***************************************************************************)
EXTENDS Naturals, Sequences

CONSTANT Blocks        \* the possible contents of a block, sequences of messages

VARIABLES
  chain,               \* the blocks, by height
  done                 \* the positions <<height, index>> taken up

vars == <<chain, done>>

\* Every message of the chain before the i-th one of block h was taken up.
AllBefore(h, i) ==
  \A g \in DOMAIN chain : \A j \in DOMAIN chain[g] :
    (g < h \/ (g = h /\ j < i)) => <<g, j>> \in done

Init == chain = <<>> /\ done = {}

Extend == \E b \in Blocks : chain' = Append(chain, b) /\ UNCHANGED done

Replace ==
  \E h \in DOMAIN chain, b \in Blocks :
    /\ \A p \in done : p[1] # h
    /\ chain' = [chain EXCEPT ![h] = b]
    /\ UNCHANGED done

TakeUp ==
  \E h \in DOMAIN chain : \E i \in DOMAIN chain[h] :
    /\ AllBefore(h, i)
    /\ done' = done \cup {<<h, i>>}
    /\ UNCHANGED chain

Next == Extend \/ Replace \/ TakeUp

Spec == Init /\ [][Next]_vars
=============================================================================
