-------------------------------- MODULE Subnet --------------------------------
(***************************************************************************)
(* The life of one subnet as the monitor's database records it: creation,  *)
(* the joins that bootstrap it, the stake changes that build the waiting   *)
(* committee, the checkpoints that make them effective and rotate the      *)
(* committee, and the kill vote that ends it.                              *)
(*                                                                         *)
(* Each handler (a message's validate_* functions and its save_to_db) is   *)
(* one action: save_to_db writes in one LMDB transaction.  A message a     *)
(* handler rejects leaves the database as it was and is no step.  Around   *)
(* the handlers stand the validators' provider, which writes the           *)
(* checkpoint transaction from the database of the moment, and two         *)
(* external parties: the child subnet, which applies stake changes at its  *)
(* own pace, and Bitcoin, which confirms the transaction some time later.  *)
(***************************************************************************)
EXTENDS Committee, Sequences

CONSTANTS
  Whitelist,        \* whitelist of the create message
  MinValidators,    \* min_validators of the create message
  Amounts,          \* amounts a join, stake or unstake may carry
  MinStakeDiff,     \* MIN_STAKE_DIFF, percent of the current collateral
  KillPeriod,       \* KILL_PERIOD_NUMBER_OF_CHECKPOINTS
  KillWindow,       \* KILL_REQUEST_VALID_BLOCKS
  MaxChanges,       \* bound: stake changes recorded
  MaxCheckpoints,   \* bound: checkpoints that neither apply a change nor kill
  MaxHeight,        \* bound: Bitcoin height
  MaxPsbts          \* bound: checkpoint transactions awaiting confirmation

ASSUME SubnetConstants ==
  /\ Whitelist \subseteq Validators
  /\ MinValidators \in Nat
  /\ Amounts \subseteq Nat \ {0}
  /\ MinStakeDiff \in Nat
  /\ KillPeriod \in Nat
  /\ KillWindow \in Nat
  /\ MaxChanges \in Nat
  /\ MaxCheckpoints \in Nat
  /\ MaxHeight \in Nat
  /\ MaxPsbts \in Nat

VARIABLES
  height,           \* height of the block being processed
  status,           \* "absent", "genesis" (created) or "active" (bootstrapped)
  genesisStake,     \* genesis_validators: collateral by validator
  committee,        \* SubnetState.committee
  committeeNumber,  \* SubnetState.committee_number
  waiting,          \* SubnetState.waiting_committee
  lastCheckpoint,   \* SubnetState.last_checkpoint_number, None = -1
  killed,           \* SubnetState.killed
  markedForKill,    \* marked_for_kill_checkpoint_number, None = -1
  committees,       \* committee snapshots by committee number
  stakeChanges,     \* stake change requests, the index is the number
  checkpoints,      \* checkpoint records, record i has number i - 1
  killRequests,     \* kill requests
  childConf,        \* configuration number the child subnet has applied
  psbts,            \* checkpoint transactions signed and not yet confirmed
  halted            \* the monitor panicked, and does so again on restart

genesisVars == <<status, genesisStake>>
killVars    == <<killed, markedForKill, killRequests>>
stateVars   == <<committee, committeeNumber, committees, lastCheckpoint, checkpoints>>
changeVars  == <<waiting, stakeChanges>>
outsideVars == <<height, childConf, psbts>>
vars == <<genesisVars, killVars, stateVars, changeVars, outsideVars, halted>>

None == -1

Psbts       == [conf : Nat, kill : BOOLEAN, unstakes : SUBSET Nat]
Changes     == [kind : {"Join", "Deposit", "Withdraw"}, validator : Validators,
                amount : Nat, committee : Committees, confirmed : BOOLEAN,
                paid : Nat]    \* history: how many confirmed checkpoints paid it
Checkpoints == [signed : Nat, next : Nat, conf : Nat, kill : BOOLEAN]
KillRequests == [validator : Validators, height : Nat]

Init ==
  /\ height = 0
  /\ status = "absent"
  /\ genesisStake = [v \in Validators |-> 0]
  /\ committee = NoCommittee
  /\ committeeNumber = 0
  /\ waiting = NoCommittee
  /\ lastCheckpoint = None
  /\ killed = "NotKilled"
  /\ markedForKill = None
  /\ committees = <<>>
  /\ stakeChanges = <<>>
  /\ checkpoints = <<>>
  /\ killRequests = {}
  /\ childConf = 0
  /\ psbts = {}
  /\ halted = FALSE

----------------------------------------------------------------------------
(* Bitcoin and the child subnet (external).                                *)

NewBlock ==
  /\ height < MaxHeight
  /\ height' = height + 1
  /\ UNCHANGED <<genesisVars, killVars, stateVars, changeVars, childConf, psbts, halted>>

\* The child reads the stake changes by Bitcoin height, so it applies all the
\* changes of a message together, some time after they were recorded.
ChildSync ==
  /\ childConf # Len(stakeChanges)
  /\ childConf' = Len(stakeChanges)
  /\ UNCHANGED <<genesisVars, killVars, stateVars, changeVars, height, psbts, halted>>

----------------------------------------------------------------------------
(* Creation and bootstrap.                                                 *)

CreateSubnet ==
  /\ status = "absent"
  /\ MinValidators > 0 /\ Cardinality(Whitelist) >= MinValidators
  /\ status' = "genesis"
  /\ UNCHANGED <<genesisStake, killVars, stateVars, changeVars, outsideVars, halted>>

GenesisMembers == {v \in Validators : genesisStake[v] > 0}

ValidatePreBootstrap(v, amount) ==
  /\ Sufficient(amount)
  /\ v \in Whitelist
  /\ v \notin GenesisMembers

\* SubnetGenesisInfo::to_subnet, for these genesis validators.
ToSubnet(stake) ==
  LET first == [conf |-> 0, stake |-> stake]
  IN  IF MultisigValid(first)
      THEN /\ status' = "active"
           /\ genesisStake' = stake
           /\ committee' = first
           /\ committeeNumber' = 1
           /\ committees' = [n \in {1} |-> first]
           /\ UNCHANGED halted
      ELSE /\ halted' = TRUE
           /\ UNCHANGED <<genesisVars, committee, committeeNumber, committees>>

JoinPreBootstrap(v, amount) ==
  /\ ~halted
  /\ status = "genesis"
  /\ ValidatePreBootstrap(v, amount)
  /\ LET stake == [genesisStake EXCEPT ![v] = amount]
     IN  IF Cardinality(GenesisMembers \cup {v}) >= MinValidators
         THEN ToSubnet(stake)
         ELSE /\ genesisStake' = stake
              /\ UNCHANGED <<status, committee, committeeNumber, committees, halted>>
  /\ UNCHANGED <<killVars, lastCheckpoint, checkpoints, changeVars, outsideVars>>

----------------------------------------------------------------------------
(* Stake changes.                                                          *)

\* SubnetState::latest_committee.
Latest == IF waiting # NoCommittee THEN waiting ELSE committee

\* A mutant of NotKilled: the handlers test is_killed.
NotKilledYet == killed # "Killed"

\* SubnetState::is_killed_or_pending, negated.
NotKilled == killed = "NotKilled"

Change(kind, v, amount, next) ==
  [kind |-> kind, validator |-> v, amount |-> amount, committee |-> next,
   confirmed |-> FALSE, paid |-> 0]

\* A mutant of RecordChanges: the address is computed without the weight check.
RecordUnchecked(next, changes) ==
  /\ Len(stakeChanges) + Len(changes) <= MaxChanges
  /\ waiting' = next
  /\ stakeChanges' = stakeChanges \o changes
  /\ UNCHANGED <<genesisVars, killVars, stateVars, outsideVars, halted>>

(***************************************************************************)
(* The tail of the three handlers: the next committee becomes the waiting  *)
(* one and the changes get the next configuration numbers.  Computing its  *)
(* address panics before anything is written when its power cannot reach   *)
(* its own threshold; the block was not marked as processed, so a          *)
(* restarted monitor meets the same message and panics again.              *)
(***************************************************************************)
RecordChanges(next, changes) ==
  /\ Len(stakeChanges) + Len(changes) <= MaxChanges
  /\ IF MultisigValid(next)
     THEN /\ waiting' = next
          /\ stakeChanges' = stakeChanges \o changes
          /\ UNCHANGED halted
     ELSE /\ halted' = TRUE
          /\ UNCHANGED changeVars
  /\ UNCHANGED <<genesisVars, killVars, stateVars, outsideVars>>

ValidatePostBootstrap(v, amount) ==
  /\ NotKilled
  /\ Sufficient(amount)
  /\ v \notin Members(committee)
  /\ v \notin Members(waiting)

\* IpcJoinSubnetMsg, once the subnet is bootstrapped.
JoinPostBootstrap(v, amount) ==
  /\ ~halted
  /\ status = "active"
  /\ ValidatePostBootstrap(v, amount)
  /\ LET next == JoinNewValidator(Latest, v, amount)
     IN  RecordChanges(next, <<Change("Join", v, amount, next),
                               Change("Deposit", v, amount, next)>>)

ValidateStake(v, amount) ==
  /\ NotKilled
  /\ v \in Members(Latest)
  /\ amount * 100 >= MinStakeDiff * TotalStake(committee)

\* IpcStakeCollateralMsg; the transaction pays the current committee's address.
Stake(v, amount) ==
  /\ ~halted
  /\ status = "active"
  /\ ValidateStake(v, amount)
  /\ LET total == Latest.stake[v] + amount
         next  == ModifyValidator(Latest, v, total)
     IN  /\ Sufficient(total)
         /\ RecordChanges(next, <<Change("Deposit", v, amount, next)>>)

\* Unstake and kill requests carry a signature, and from_tx looks its key up in
\* the committee of the subnet whose current address the transaction pays.
SignerFromTx(v) == v \in Members(committee)

ValidateUnstake(v, amount) ==
  /\ NotKilled
  /\ v \in Members(Latest)
  /\ amount <= TotalStake(committee)
  /\ amount <= Latest.stake[v]
  /\ Sufficient(Latest.stake[v] - amount) \/ amount = Latest.stake[v]

\* The committee after v withdraws amount, as the unstake handler computes it.
AfterUnstake(c, v, amount) ==
  LET rest == c.stake[v] - amount
  IN  IF ~Sufficient(rest) \/ PowerOf(rest) = 0
      THEN RemoveValidator(c, v)
      ELSE ModifyValidator(c, v, rest)

\* A mutant of Unstake: compares the amount with the total collateral only.
UnstakeUnchecked(v, amount) ==
  /\ ~halted
  /\ status = "active"
  /\ NotKilled
  /\ SignerFromTx(v)
  /\ v \in Members(Latest)
  /\ amount <= TotalStake(committee)
  /\ LET next == ModifyValidator(Latest, v, Latest.stake[v] - amount)
     IN  RecordChanges(next, <<Change("Withdraw", v, amount, next)>>)

\* IpcUnstakeCollateralMsg.
Unstake(v, amount) ==
  /\ ~halted
  /\ status = "active"
  /\ SignerFromTx(v)
  /\ ValidateUnstake(v, amount)
  /\ LET next == AfterUnstake(Latest, v, amount)
     IN  RecordChanges(next, <<Change("Withdraw", v, amount, next)>>)

----------------------------------------------------------------------------
(* Kill vote.                                                              *)

\* A mutant of ValidKillRequests: the oldest valid height is left out.
RecentKillRequests == {r \in killRequests : r.height > height - KillWindow}

\* get_valid_kill_requests at the current height; saturating_sub is at least 0.
ValidKillRequests == {r \in killRequests : r.height >= height - KillWindow}

VotePower(requests) == SumFunctionOnSet([r \in requests |-> Power(Latest, r.validator)],
                                        {r \in requests : r.validator \in Members(Latest)})

\* IpcKillSubnetMsg; the votes are weighed in the latest committee.
Kill(v) ==
  /\ ~halted
  /\ status = "active"
  /\ SignerFromTx(v)
  /\ v \in Members(Latest)
  /\ \A r \in ValidKillRequests : r.validator # v
  /\ LET request == [validator |-> v, height |-> height]
     IN  /\ killRequests' = killRequests \cup {request}
         /\ IF /\ VotePower(ValidKillRequests \cup {request})
                    >= MultisigThreshold(TotalPower(Latest))
               /\ NotKilled
            THEN /\ killed' = "ToBeKilled"
                 /\ markedForKill' = lastCheckpoint
            ELSE UNCHANGED <<killed, markedForKill>>
  /\ UNCHANGED <<genesisVars, stateVars, changeVars, outsideVars, halted>>

\* A mutant of ShouldKill: the kill delay is counted one short.
ShouldKillEarly ==
  /\ killed = "ToBeKilled"
  /\ lastCheckpoint # None
  /\ lastCheckpoint - markedForKill >= KillPeriod - 1

\* A mutant of ShouldKill: a subnet marked before its first checkpoint has no
\* reference point and is forgotten.
ShouldKillMarked ==
  /\ killed = "ToBeKilled"
  /\ lastCheckpoint # None /\ markedForKill # None
  /\ lastCheckpoint - markedForKill >= KillPeriod

\* SubnetState::should_kill.
ShouldKill ==
  /\ killed = "ToBeKilled"
  /\ lastCheckpoint # None
  /\ IF markedForKill # None
     THEN lastCheckpoint - markedForKill >= KillPeriod
     ELSE lastCheckpoint + 1 >= KillPeriod

----------------------------------------------------------------------------
(* Checkpoints.                                                            *)

\* Both ends read 0 and the current number as "no change".
KeepsCommittee(c) == c = 0 \/ c = committee.conf

\* A mutant of PendingUnstakes: looks the validators up in the latest committee,
\* which those who withdraw everything have left.
PendingUnstakesOfLatest ==
  {n \in DOMAIN stakeChanges :
     /\ ~stakeChanges[n].confirmed
     /\ stakeChanges[n].kind = "Withdraw"
     /\ stakeChanges[n].validator \in Members(Latest)}

\* The withdrawals gen_checkpoint_psbt pays when the checkpoint applies changes:
\* the unconfirmed ones of the members of the current committee.
PendingUnstakes ==
  {n \in DOMAIN stakeChanges :
     /\ ~stakeChanges[n].confirmed
     /\ stakeChanges[n].kind = "Withdraw"
     /\ stakeChanges[n].validator \in Members(committee)}

\* Bound: idle checkpoints are limited, those that apply a change or bring the
\* kill nearer are not (before the mark there are at most MaxCheckpoints idle
\* ones and one per change, after it KillPeriod and the kill checkpoint).
WithinBound(c) ==
  \/ Len(checkpoints) < MaxCheckpoints
  \/ /\ killed = "ToBeKilled"
     /\ Len(checkpoints) <= MaxCheckpoints + MaxChanges + KillPeriod
  \/ \E n \in DOMAIN stakeChanges : n <= c /\ ~stakeChanges[n].confirmed

(***************************************************************************)
(* gen_checkpoint_psbt and the signatures that follow it, for the          *)
(* configuration number c the child put in its checkpoint.  A kill         *)
(* checkpoint carries c without looking at it and repays the collateral of *)
(* the whole committee instead of the pending withdrawals.  The relayer    *)
(* may have several transactions signed before one confirms.               *)
(***************************************************************************)
GenCheckpoint(c) ==
  /\ status = "active"
  /\ killed # "Killed"
  /\ Cardinality(psbts) < MaxPsbts
  /\ WithinBound(c)
  /\ IF ShouldKill
     THEN psbts' = psbts \cup {[conf |-> c, kill |-> TRUE, unstakes |-> {}]}
     ELSE /\ KeepsCommittee(c) \/ (c > committee.conf /\ c \in DOMAIN stakeChanges)
          /\ psbts' = psbts \cup
               {[conf |-> c, kill |-> FALSE,
                 unstakes |-> IF KeepsCommittee(c) THEN {} ELSE PendingUnstakes]}
  /\ UNCHANGED <<genesisVars, killVars, stateVars, changeVars, height, childConf, halted>>

\* A mutant of Rejected: the named change must not be confirmed yet.
RejectedIfConfirmed(c) ==
  /\ ~KeepsCommittee(c)
  /\ c \in DOMAIN stakeChanges => stakeChanges[c].confirmed

\* A mutant of Rejected: a checkpoint must name the very next change.
RejectedUnlessNext(c) ==
  /\ ~KeepsCommittee(c)
  /\ c # committee.conf + 1 \/ c \notin DOMAIN stakeChanges

\* The conditions under which IpcCheckpointSubnetMsg::save_to_db gives up.
Rejected(c) ==
  /\ ~KeepsCommittee(c)
  /\ c < committee.conf \/ c \notin DOMAIN stakeChanges

\* A mutant of RotateToCommittee: the committee number is not incremented.
RotateUnnumbered(next) ==
  IF SameCommittee(committee, next)
  THEN UNCHANGED <<committee, committeeNumber, waiting>>
  ELSE /\ waiting' = IF SameCommittee(waiting, next) THEN NoCommittee ELSE waiting
       /\ committee' = next
       /\ UNCHANGED committeeNumber

\* SubnetState::rotate_to_committee.
RotateToCommittee(next) ==
  IF SameCommittee(committee, next)
  THEN UNCHANGED <<committee, committeeNumber, waiting>>
  ELSE /\ waiting' = IF SameCommittee(waiting, next) THEN NoCommittee ELSE waiting
       /\ committee' = next
       /\ committeeNumber' = committeeNumber + 1

\* A mutant of ConfirmUpTo: only the named change.
ConfirmOnly(c, n) == n = c

\* confirm_stake_changes, which marks every unconfirmed change up to c.
ConfirmUpTo(c, n) == n <= c

\* The checkpoint record that p leaves, for the committee number next.
CheckpointRecord(p, next) ==
  [signed |-> committeeNumber, next |-> next,
   conf |-> IF KeepsCommittee(p.conf) THEN committee.conf ELSE p.conf,
   kill |-> p.kill]

\* The stake changes once p is confirmed: those it applies and those it pays.
SettledChange(p, n) ==
  LET ch == stakeChanges[n]
  IN  [kind |-> ch.kind, validator |-> ch.validator, amount |-> ch.amount,
       committee |-> ch.committee,
       confirmed |-> ch.confirmed \/ (~KeepsCommittee(p.conf) /\ ConfirmUpTo(p.conf, n)),
       paid |-> IF n \in p.unstakes THEN ch.paid + 1 ELSE ch.paid]

SettleChanges(p) == [n \in DOMAIN stakeChanges |-> SettledChange(p, n)]

\* IpcCheckpointSubnetMsg::save_to_db for the transaction p.
SaveCheckpoint(p) ==
  /\ lastCheckpoint' = lastCheckpoint + 1
  /\ killed' = IF p.kill THEN "Killed" ELSE killed
  /\ IF KeepsCommittee(p.conf)
     THEN /\ UNCHANGED <<committee, committeeNumber, waiting, committees>>
          /\ checkpoints' = Append(checkpoints, CheckpointRecord(p, committeeNumber))
     ELSE LET next == stakeChanges[p.conf].committee
              num  == committeeNumber + 1
          IN  /\ RotateToCommittee(next)
              /\ checkpoints' = Append(checkpoints, CheckpointRecord(p, num))
              /\ committees' = [n \in DOMAIN committees \cup {num} |->
                                  IF n = num THEN next ELSE committees[n]]
  /\ stakeChanges' = SettleChanges(p)

(***************************************************************************)
(* One of the signed transactions confirms and the monitor handles it.     *)
(* The committee's money is one coin here, so the others are no longer     *)
(* valid; module Treasury has several coins.                               *)
(***************************************************************************)
Checkpoint(p) ==
  /\ ~halted
  /\ psbts' = {}
  /\ IF Rejected(p.conf)
     THEN UNCHANGED <<stateVars, changeVars, killed>>
     ELSE SaveCheckpoint(p)
  /\ UNCHANGED <<genesisVars, markedForKill, killRequests, height, childConf, halted>>

----------------------------------------------------------------------------
Next ==
  \/ NewBlock
  \/ ChildSync
  \/ CreateSubnet
  \/ \E v \in Validators, amount \in Amounts :
       \/ JoinPreBootstrap(v, amount)
       \/ JoinPostBootstrap(v, amount)
       \/ Stake(v, amount)
       \/ Unstake(v, amount)
  \/ \E v \in Validators : Kill(v)
  \/ \E c \in {0, childConf} : GenCheckpoint(c)
  \/ \E p \in psbts : Checkpoint(p)

Spec == Init /\ [][Next]_vars

----------------------------------------------------------------------------
(* Safety.                                                                 *)

\* Every variable has its type: in particular no collateral, amount or number
\* that the code keeps in an unsigned integer goes below zero.
TypeOK ==
  /\ height \in Nat
  /\ status \in {"absent", "genesis", "active"}
  /\ genesisStake \in Stakes
  /\ committee \in Committees \cup {NoCommittee}
  /\ committeeNumber \in Nat
  /\ waiting \in Committees \cup {NoCommittee}
  /\ lastCheckpoint \in Nat \cup {None}
  /\ killed \in {"NotKilled", "ToBeKilled", "Killed"}
  /\ markedForKill \in Nat \cup {None}
  /\ DOMAIN committees \subseteq Nat
  /\ committees \in [DOMAIN committees -> Committees]
  /\ stakeChanges \in Seq(Changes)
  /\ checkpoints \in Seq(Checkpoints)
  /\ killRequests \subseteq KillRequests
  /\ childConf \in Nat
  /\ psbts \subseteq Psbts
  /\ halted \in BOOLEAN

\* The committee in force is the snapshot stored under its number, and the
\* number the last checkpoint announced leads to the same multisig: whoever
\* follows the last checkpoint record pays the address the monitor watches.
\* save_to_db of the checkpoint computes that number before
\* rotate_to_committee decides whether to count at all.
EffectiveCommitteeRecorded ==
  status = "active" =>
    /\ committeeNumber \in DOMAIN committees
    /\ committees[committeeNumber] = committee
    /\ checkpoints # <<>> =>
         LET n == checkpoints[Len(checkpoints)].next
         IN  n \in DOMAIN committees /\ SameCommittee(committees[n], committee)

\* The confirmed stake changes are the first ones recorded, and every change
\* that waits has a number above the committee's configuration number, so that
\* a checkpoint that names it is neither ignored nor refused.
PendingIsAhead ==
  \A n \in DOMAIN stakeChanges : ~stakeChanges[n].confirmed =>
    /\ n > committee.conf
    /\ \A m \in DOMAIN stakeChanges : m > n => ~stakeChanges[m].confirmed

\* The monitor never refuses a checkpoint that the provider built and the
\* committee signed, whatever was recorded while it waited for a block.
CheckpointAccepted == \A p \in psbts : ~Rejected(p.conf)

\* Whenever a withdrawal counts as applied some confirmed checkpoint has paid
\* it, unless the kill checkpoint repaid the collateral it was part of.
WithdrawalPaid ==
  \A n \in DOMAIN stakeChanges :
    (stakeChanges[n].kind = "Withdraw" /\ stakeChanges[n].confirmed) =>
      stakeChanges[n].paid >= 1 \/ killed = "Killed"

\* Every committee that is, was or may become the owner of the subnet's funds
\* can reach its own signing threshold.
SpendableCommittees ==
  /\ \A n \in DOMAIN committees : MultisigValid(committees[n])
  /\ \A n \in DOMAIN stakeChanges : MultisigValid(stakeChanges[n].committee)
  /\ waiting # NoCommittee => MultisigValid(waiting)

\* Two kill requests of one validator are never both inside the window that a
\* vote counts, so no power is counted twice.
NoDoubleKillVote ==
  \A r, s \in killRequests :
    (r.validator = s.validator /\ r.height < s.height) => s.height - r.height > KillWindow

\* A killed subnet ended with its kill checkpoint, and at least KillPeriod
\* checkpoints lie between the vote and that checkpoint.
KillDelay ==
  killed = "Killed" =>
    /\ checkpoints # <<>> /\ checkpoints[Len(checkpoints)].kill
    /\ Len(checkpoints) = lastCheckpoint + 1
    /\ lastCheckpoint - 1 - markedForKill >= KillPeriod

----------------------------------------------------------------------------
(* What a step may never do.                                               *)

\* The committee of a running subnet changes only in a step that records a
\* checkpoint, which announces the new number, and by one number.
RotationIsNumbered ==
  [][(status = "active" /\ committee' # committee) =>
       /\ committeeNumber' = committeeNumber + 1
       /\ lastCheckpoint' = lastCheckpoint + 1
       /\ checkpoints'[Len(checkpoints')].signed = committeeNumber
       /\ checkpoints'[Len(checkpoints')].next = committeeNumber']_vars

\* A subnet is marked for killing only when distinct validators with more than
\* two thirds of the latest committee's power have a request in the window.
KillNeedsQuorum ==
  [][(NotKilled /\ killed' # "NotKilled") =>
       3 * PowerOfSet(Latest, {r.validator : r \in ValidKillRequests'})
         > 2 * TotalPower(Latest)]_vars

\* Once marked, a subnet records no stake change and is never unmarked; once
\* killed, neither its committee nor its checkpoints change any more.
FrozenOnceMarked ==
  [][/\ killed # "NotKilled" =>
          Len(stakeChanges') = Len(stakeChanges) /\ killed' # "NotKilled"
     /\ killed = "Killed" => UNCHANGED stateVars /\ killed' = "Killed"]_vars

----------------------------------------------------------------------------
(* Liveness.                                                               *)

\* The child follows Bitcoin, its checkpoints keep carrying the configuration
\* number it has applied, and a signed checkpoint confirms.
Fairness ==
  /\ WF_vars(ChildSync)
  /\ SF_vars(GenCheckpoint(childConf))
  /\ WF_vars(\E p \in psbts : Checkpoint(p))

LiveSpec == Spec /\ Fairness

\* Every recorded stake change is confirmed by some checkpoint, unless the
\* subnet is killed first or the monitor panics.
StakeChangesApplied ==
  \A n \in 1..MaxChanges :
    n \in DOMAIN stakeChanges ~>
      \/ n \in DOMAIN stakeChanges /\ stakeChanges[n].confirmed
      \/ killed = "Killed"
      \/ halted

\* A subnet marked for killing gets its kill checkpoint, also when it had no
\* checkpoint before the vote.
MarkedGetsKilled == killed = "ToBeKilled" ~> killed = "Killed"
=============================================================================
