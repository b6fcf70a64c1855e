----------------------------- MODULE SubnetClaims -----------------------------
(***************************************************************************)
(* What the repository's documents, comments and assertions say of a       *)
(* subnet's life and the code does not keep.  Each claim has a run that     *)
(* ends with a behaviour of Subnet that breaks it.                         *)
(***************************************************************************)
EXTENDS Subnet

\* docs/specs/dynamic-participation.md: stake changes "become effective only
\* when a checkpoint applies them".  gen_checkpoint_psbt pays every unconfirmed
\* withdrawal, those above the number the checkpoint applies included, and the
\* checkpoint that applies them pays them again.
PaidWhenApplied ==
  \A n \in DOMAIN stakeChanges :
    stakeChanges[n].paid >= 1 => stakeChanges[n].confirmed

\* SubnetValidators::multisig_address: expect("Multisig address should be
\* valid").  The last validator may withdraw everything, and then it is not.
NoPanic == ~halted
=============================================================================
