------------------------------ MODULE MCMonitor ------------------------------
(***************************************************************************)
(* A small instance of Monitor for TLC.                                    *)
(***************************************************************************)
EXTENDS Monitor

\* Blocks with every kind of message: those that are refused when they are
\* handled again, one that is recorded again, and an invalid one in front.
MCBlocks == {<<"create", "join">>, <<"invalid", "checkpoint">>}
=============================================================================
