------------------------------ MODULE Committee ------------------------------
(***************************************************************************)
(* Validator sets and their multisig (src/multisig.rs, and the types       *)
(* SubnetValidator and SubnetCommittee of src/db.rs).                      *)
(*                                                                         *)
(* A committee is its configuration number and the collateral of each      *)
(* validator; collateral 0 stands for "not a member" (join and stake       *)
(* reject a zero amount, so a member's collateral is positive).  Power,    *)
(* threshold and multisig address are functions of the collateral, as they *)
(* are in the code, which recomputes them on every change.                 *)
(***************************************************************************)
EXTENDS Integers, FiniteSets, FiniteSetsExt, Functions

CONSTANTS
  Validators,   \* the x-only public keys that may ever join
  Scale,        \* POWER_SCALE_FACTOR: satoshi per unit of power
  MaxPower,     \* MAX_POWER: the cap applied to the amount before scaling
  MinStake      \* min_validator_stake of the subnet

ASSUME CommitteeConstants ==
  /\ IsFiniteSet(Validators)
  /\ Scale \in Nat \ {0}
  /\ MaxPower \in Nat
  /\ MinStake \in Nat

Stakes == [Validators -> Nat]

Committees == [conf : Nat, stake : Stakes]

\* Option::None of an Option<SubnetCommittee>.
NoCommittee == [conf |-> -1, stake |-> [v \in Validators |-> 0]]

Members(c) == {v \in Validators : c.stake[v] > 0}

----------------------------------------------------------------------------
\* collateral_to_power fails with InsufficientCollateral unless Sufficient; its
\* CollateralTooHigh cannot happen, as the amount is capped before scaling.
Sufficient(amount) == amount >= MinStake

PowerOf(amount) == (IF amount < MaxPower THEN amount ELSE MaxPower) \div Scale

Power(c, v) == PowerOf(c.stake[v])

PowerOfSet(c, S) == SumFunctionOnSet([v \in Validators |-> Power(c, v)], S \cap Members(c))

TotalPower(c) == PowerOfSet(c, Validators)

TotalStake(c) == SumFunctionOnSet(c.stake, Validators)

\* A mutant of multisig_threshold: rounds down without the +1.
MultisigThresholdFloor(total) == (total * 2) \div 3

MultisigThreshold(total) == (total * 2) \div 3 + 1

(***************************************************************************)
(* The taproot address commits to the sorted keys, their weights and the   *)
(* threshold, which the weights determine.  SubnetCommittee's PartialEq    *)
(* compares only the address: neither the configuration number nor         *)
(* collateral that does not show in the power.                             *)
(***************************************************************************)
Address(c) == [v \in Members(c) |-> Power(c, v)]

SameCommittee(c, d) == Address(c) = Address(d)

\* create_multisig_script refuses a threshold above the total weight, and
\* SubnetValidators::multisig_address expects it not to.
MultisigValid(c) == TotalPower(c) >= MultisigThreshold(TotalPower(c))

----------------------------------------------------------------------------
\* SubnetCommittee::join_new_validator, modify_validator, remove_validator.
JoinNewValidator(c, v, amount) ==
  [conf |-> c.conf + 2, stake |-> [c.stake EXCEPT ![v] = amount]]

ModifyValidator(c, v, amount) ==
  [conf |-> c.conf + 1, stake |-> [c.stake EXCEPT ![v] = amount]]

RemoveValidator(c, v) ==
  [conf |-> c.conf + 1, stake |-> [c.stake EXCEPT ![v] = 0]]
=============================================================================
