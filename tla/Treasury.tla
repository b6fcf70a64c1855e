------------------------------- MODULE Treasury -------------------------------
(***************************************************************************)
(* The coins of one subnet and the checkpoints that spend them.  Every     *)
(* validator has a provider with a monitor and a database of its own,      *)
(* which follows the chain at its own pace.  For the checkpoint its child  *)
(* asks for, each provider writes the transaction from its database and    *)
(* from the coins its node lists, and signs it; signatures add up only for *)
(* the same transaction.  Whoever has them asks some provider to finalize, *)
(* which looks the committee up again and submits the transaction and the  *)
(* reveal of its batch; Bitcoin confirms them, and the monitors read the   *)
(* checkpoint back from its outputs.                                       *)
(*                                                                         *)
(* Configs[n] is the committee after stake change n (module Subnet has     *)
(* where the changes come from), so a change that lowers a validator's     *)
(* collateral is a withdrawal.  A payment to a multisig that is not this   *)
(* subnet's leaves the model.                                              *)
(***************************************************************************)
EXTENDS Committee, Spending

CONSTANTS
  Configs,        \* committees by configuration number, 0 the genesis committee
  Whitelist,      \* whitelist of the create message
  MinValidators,  \* its min_validators
  Backup,         \* the backup address of each validator
  Self,           \* this subnet as the destination of a transfer
  OtherAddress,   \* the addresses of the other subnets, by subnet
  Users,          \* the addresses of users
  Scenarios,      \* what the outside does: see below
  MaxDrafts,      \* bound: transactions signed by somebody
  MaxStops        \* bound: stops of a provider that is submitting

(***************************************************************************)
(* A scenario has collateral (the coins of the joins, at the whitelist's   *)
(* address), funds (the coins at the first committee's address), wants     *)
(* (the checkpoints of the child), deposits (what users and validators pay *)
(* to the subnet later), spends (payments the operators ask for) and       *)
(* events (stake changes, and the vote that ends the subnet), each in its  *)
(* order and all of them at any time.                                      *)
(***************************************************************************)
Payments == [to : Users, value : Nat]

Wants == [withdrawals : Seq(Payments), tokens : BOOLEAN, conf : Nat,
          transfers : Seq([dest : {Self} \cup DOMAIN OtherAddress, value : Nat])]

ASSUME TreasuryConstants ==
  /\ 0 \in DOMAIN Configs /\ DOMAIN Configs \subseteq Nat
  /\ \A n \in DOMAIN Configs : Configs[n] \in Committees /\ Configs[n].conf = n
  /\ Whitelist \subseteq Validators /\ MinValidators \in Nat
  /\ DOMAIN Backup = Validators
  /\ \A sc \in Scenarios :
       /\ {sc.collateral, sc.funds, sc.deposits} \subseteq Seq(Nat)
       /\ sc.wants \in Seq(Wants) /\ sc.spends \subseteq Payments
       /\ sc.events \in Seq({"change", "mark"})
       /\ 0..Len(sc.events) \subseteq DOMAIN Configs
  /\ MaxDrafts \in Nat /\ MaxStops \in Nat

VARIABLES
  coins,          \* the confirmed unspent outputs of the subnet
  nextId,         \* the id of the next output
  wants,          \* the checkpoints the child asks for, in order
  deposits,       \* the payments that are still to come
  spends,         \* the payments the operators ask for until they are submitted
  events,         \* the stake changes and votes that are still to come
  chain,          \* the messages in confirmed blocks
  db,             \* what each provider's database says of the subnet
  seen,           \* how much of the chain each monitor has handled
  signed,         \* transactions and their signers
  mempool,        \* transactions that wait for a block
  reveals,        \* checkpoints whose reveal was sent and waits for a block
  sending,        \* the checkpoint whose reveal is about to be sent
  stops           \* stops so far

outside == <<wants, deposits, events, spends>>
vars == <<coins, nextId, outside, chain, db, seen, signed, mempool, reveals, sending, stops>>

Nothing == [kind |-> "none"]

\* The script of a multisig commits to the keys, their weights and the threshold.
Multisig(c) == [power |-> Address(c), threshold |-> MultisigThreshold(TotalPower(c))]

Here(n) == Multisig(Configs[n])

\* multisig_address_from_whitelist.
WhitelistAddress == [power |-> [v \in Whitelist |-> 1], threshold |-> MinValidators]

Ours == {WhitelistAddress} \cup {Here(n) : n \in DOMAIN Configs}

\* The OP_RETURN output and the commitment to a batch are nobody's address, and
\* the multisig of another subnet has the id of that subnet in its script.
ASSUME AddressesApart ==
  /\ DataOutput \notin Ours
  /\ CommitOutput \notin Ours \cup Users \cup {Backup[v] : v \in Validators}
  /\ \A dest \in DOMAIN OtherAddress : OtherAddress[dest] \notin Ours \cup {CommitOutput}

Keys(address) == DOMAIN address.power

\* The tapscript adds the weights of the keys that signed.
Satisfied(address, S) ==
  MapThenSumSet(LAMBDA v : address.power[v], S \cap Keys(address)) >= address.threshold

Committed(n) == Configs[n].stake

Init ==
  /\ \E sc \in Scenarios :
       /\ coins = {[id |-> i, at |-> WhitelistAddress, value |-> sc.collateral[i]]
                     : i \in DOMAIN sc.collateral}
                  \cup {[id |-> Len(sc.collateral) + i, at |-> Here(0), value |-> sc.funds[i]]
                          : i \in DOMAIN sc.funds}
       /\ nextId = Len(sc.collateral) + Len(sc.funds) + 1
       /\ wants = sc.wants /\ deposits = sc.deposits /\ events = sc.events
       /\ spends = sc.spends
  /\ chain = <<>>
  /\ db = [v \in Validators |-> [conf |-> 0, recorded |-> 0, settled |-> 0,
                                 status |-> "running", count |-> 0]]
  /\ seen = [v \in Validators |-> 0]
  /\ signed = {} /\ mempool = {} /\ reveals = {} /\ sending = Nothing
  /\ stops = 0

----------------------------------------------------------------------------
(* Bitcoin, the users and the other validators (external).                 *)

\* listunspent: confirmed outputs that no transaction of the mempool spends.
Unspent(address) == {c \in coins : c.at = address /\ \A tx \in mempool : c.id \notin tx.ins}

\* A payment to the address that some provider gave out: a fund or a stake.
Deposit(v) ==
  /\ deposits # <<>>
  /\ deposits' = Tail(deposits)
  /\ coins' = coins \cup {[id |-> nextId, at |-> Here(db[v].conf), value |-> Head(deposits)]}
  /\ nextId' = nextId + 1
  /\ UNCHANGED <<wants, events, spends, chain, db, seen, signed, mempool, reveals, sending, stops>>

\* The next stake change, or the vote that ends the subnet, confirms.
Happens ==
  /\ events # <<>>
  /\ events' = Tail(events)
  /\ chain' = Append(chain, [kind |-> Head(events)])
  /\ UNCHANGED <<coins, nextId, wants, deposits, spends, db, seen, signed, mempool, reveals, sending, stops>>

\* A transaction of the mempool confirms: its inputs are gone, and what it
\* pays to the subnet is there.
Confirm(tx) ==
  /\ coins' = {c \in coins : c.id \notin tx.ins}
              \cup {[id |-> nextId + i, at |-> tx.outs[i].to, value |-> tx.outs[i].value]
                      : i \in {i \in DOMAIN tx.outs : tx.outs[i].to \in Ours}}
  /\ nextId' = nextId + Len(tx.outs) + 1
  /\ chain' = IF tx.kind = "checkpoint" THEN Append(chain, tx) ELSE chain
  /\ mempool' = mempool \ {tx}
  /\ UNCHANGED <<outside, db, seen, signed, reveals, sending, stops>>

\* The reveal of a batch returns its output to the committee that signed.
ConfirmReveal(tx) ==
  /\ tx \notin mempool
  /\ coins' = coins \cup {[id |-> nextId, at |-> tx.from, value |-> Dust]}
  /\ nextId' = nextId + 1
  /\ reveals' = reveals \ {tx}
  /\ UNCHANGED <<outside, chain, db, seen, signed, mempool, sending, stops>>

----------------------------------------------------------------------------
(* gen_checkpoint_psbt and gen_bootstrap_handover.                         *)

\* The child asks for its checkpoints one after the other, and for each only
\* until a transaction for it is submitted (external).
Submitted(n) ==
  \/ \E tx \in mempool : tx.kind = "checkpoint" /\ tx.number = n
  \/ \E i \in DOMAIN chain : chain[i].kind = "checkpoint" /\ chain[i].number = n

Signers(tx) == {s.by : s \in {s \in signed : s.tx = tx}}

\* sign_spend_psbt.  Signing the same transaction again changes nothing; since
\* is history: for a transaction that takes every coin, the first output the
\* node could not list yet.
Sign(v, tx, all) ==
  /\ v \notin Signers(tx)
  /\ Signers(tx) # {} \/ Cardinality({s.tx : s \in signed}) < MaxDrafts
  /\ signed' = signed \cup {[tx |-> tx, by |-> v, since |-> IF all THEN nextId ELSE 0]}
  /\ UNCHANGED <<coins, nextId, outside, chain, db, seen, mempool, reveals, sending, stops>>

\* The unconfirmed withdrawals of members of the current committee.
PendingUnstakes(d) ==
  LET lowered(n) == {v \in Validators : Committed(n)[v] < Committed(n - 1)[v]}
      due == Picked([n \in 1..d.recorded |-> n],
                    {n \in (d.settled + 1)..d.recorded :
                       lowered(n) # {} /\ lowered(n) \subseteq Members(Configs[d.conf])})
  IN  [i \in DOMAIN due |->
         LET v == CHOOSE v \in Validators : v \in lowered(due[i])
         IN  Pay(Backup[v], Committed(due[i] - 1)[v] - Committed(due[i])[v])]

\* A kill checkpoint repays the collateral of the whole committee.
CommitteeUnstakes(n) ==
  LET members == SetToSeq(Members(Configs[n]))
  IN  [i \in DOMAIN members |-> Pay(Backup[members[i]], Committed(n)[members[i]])]

KeepsCommittee(d, conf) == conf = 0 \/ conf = d.conf

\* The message with what the provider fills in.
Completed(d, want) ==
  LET kill == d.status = "marked"
  IN  [withdrawals |-> want.withdrawals, transfers |-> want.transfers, tokens |-> want.tokens,
       conf |-> want.conf, kill |-> kill,
       unstakes |-> IF kill THEN CommitteeUnstakes(d.conf)
                    ELSE IF want.conf > d.conf THEN PendingUnstakes(d) ELSE <<>>]

\* total_extra_amount is computed with unsigned amounts: a shortage panics.
KillAffordable(d, m) ==
  Total(Unspent(Here(d.conf)))
    >= TotalStake(Configs[d.conf]) + Paid(m.withdrawals)
       + MapThenSumSet(LAMBDA dest : Sent(m, dest), Destinations(m))

\* The committee after the checkpoint.
NextConf(d, m) == IF ~m.kill /\ m.conf > d.conf THEN m.conf ELSE d.conf

MayCheckpoint(v, d, m) ==
  /\ ~Submitted(d.count + 1)
  /\ v \in Members(Configs[d.conf])
  /\ d.status # "killed"
  /\ Valid(m)
  /\ IF m.kill THEN KillAffordable(d, m)
     ELSE KeepsCommittee(d, m.conf) \/ m.conf \in (d.conf + 1)..d.recorded

\* The transactions to_checkpoint_psbt may give, one for each order of the
\* destinations.
CheckpointTxs(d, m) ==
  LET at == [dest \in Destinations(m) |->
              IF dest = Self THEN Here(d.conf) ELSE OtherAddress[dest]]
      rotates == Here(NextConf(d, m)) # Here(d.conf)
  IN  {[kind |-> "checkpoint", from |-> Here(d.conf), to |-> Here(NextConf(d, m)),
        ins |-> {c.id : c \in tx.ins}, outs |-> tx.outs, spent |-> Total(tx.ins),
        meta |-> Metadata(m), number |-> d.count + 1, msg |-> m] :
         tx \in {tx \in {ToCheckpointPsbt(m, Unspent(Here(d.conf)), rotates, order, at,
                                          Here(NextConf(d, m)))
                           : order \in SetToSeqs(Destinations(m))} : tx.ok}}

GenCheckpoint(v) ==
  /\ db[v].count < Len(wants)
  /\ \E m \in {Completed(db[v], wants[db[v].count + 1])} :
       /\ MayCheckpoint(v, db[v], m)
       /\ \E tx \in CheckpointTxs(db[v], m) : Sign(v, tx, m.kill \/ tx.to # tx.from)

GenBootstrapHandover(v) ==
  LET d == db[v]
      tx == ConstructSpend(Unspent(WhitelistAddress), TRUE, <<>>, Here(d.conf), 0)
  IN  /\ v \in Members(Configs[d.conf])
      /\ tx.ok
      /\ Sign(v, [kind |-> "handover", from |-> WhitelistAddress,
                  ins |-> {c.id : c \in tx.ins}, outs |-> tx.outs,
                  spent |-> Total(tx.ins), to |-> Here(d.conf)], FALSE)

\* gen_multisig_spend_psbt: a payment that the operators ask for.
GenMultisigSpend(v, out) ==
  LET here == Here(db[v].conf)
      tx == ConstructSpend(Unspent(here), FALSE, <<out>>, here, 0)
  IN  /\ v \in Members(Configs[db[v].conf])
      /\ tx.ok
      /\ Sign(v, [kind |-> "spend", from |-> here, ins |-> {c.id : c \in tx.ins},
                  outs |-> tx.outs, spent |-> Total(tx.ins), to |-> here], FALSE)

----------------------------------------------------------------------------
(* finalize_checkpoint_psbt and finalize_bootstrap_handover.               *)

\* testmempoolaccept.
Acceptable(tx) ==
  /\ tx.ins \subseteq {c.id : c \in Unspent(tx.from)}
  /\ \A i \in DOMAIN tx.outs : tx.outs[i].value >= Dust
  /\ tx.kind = "checkpoint" => RevealSpends(tx.msg, tx.outs)

\* The provider v builds the witness for the committee it knows now and sends
\* the checkpoint, then the reveal.
Finalize(v, tx) ==
  LET address == IF tx.kind = "handover" THEN WhitelistAddress ELSE Here(db[v].conf)
  IN  /\ sending = Nothing
      /\ Signers(tx) \subseteq Keys(address)
      /\ address = tx.from
      /\ Satisfied(address, Signers(tx))
      /\ Acceptable(tx)
      /\ tx.kind = "spend" => tx.outs[1] \in spends
      /\ tx.kind = "checkpoint" => ~Submitted(tx.number)
      /\ mempool' = mempool \cup {tx}
      /\ sending' = IF tx.kind = "checkpoint" /\ HasBatch(tx.msg) THEN tx ELSE Nothing
      /\ spends' = IF tx.kind = "spend" THEN spends \ {tx.outs[1]} ELSE spends
      /\ UNCHANGED <<coins, nextId, wants, deposits, events, chain, db, seen, signed, reveals,
                     stops>>

SendReveal ==
  /\ sending # Nothing
  /\ reveals' = reveals \cup {sending}
  /\ sending' = Nothing
  /\ UNCHANGED <<coins, nextId, outside, chain, db, seen, signed, mempool, stops>>

\* The provider stops between the two.
Stop ==
  /\ sending # Nothing /\ stops < MaxStops
  /\ sending' = Nothing
  /\ stops' = stops + 1
  /\ UNCHANGED <<coins, nextId, outside, chain, db, seen, signed, mempool, reveals>>

----------------------------------------------------------------------------
(* The monitors.                                                           *)

\* A mutant of Rotated: to the latest committee.
RotatedToLatest(d, conf) ==
  IF KeepsCommittee(d, conf) THEN d ELSE [d EXCEPT !.conf = d.recorded, !.settled = d.recorded]

\* IpcCheckpointSubnetMsg::save_to_db (SaveCheckpoint of Subnet).
Rotated(d, conf) ==
  IF KeepsCommittee(d, conf) THEN d
  ELSE [d EXCEPT !.conf = IF Here(conf) = Here(d.conf) THEN @ ELSE conf,
                 !.settled = Max({@, conf})]

\* Not read, not valid as it is read back, or not saved.
Refused(d, tx) ==
  \/ ~Recognised(tx)
  \/ tx.meta.kill /\ Len(tx.outs) > ExpectedOutputs(tx.meta)
  \/ ~KeepsCommittee(d, tx.meta.conf)
     /\ (tx.meta.conf < d.conf \/ tx.meta.conf \notin 1..d.recorded)

Handled(d, item) ==
  CASE item.kind = "change" -> [d EXCEPT !.recorded = @ + 1]
    [] item.kind = "mark"   -> [d EXCEPT !.status = "marked"]
    [] OTHER -> IF Refused(d, item) THEN d
                ELSE [Rotated(d, item.meta.conf) EXCEPT
                        !.count = @ + 1,
                        !.status = IF item.meta.kill THEN "killed" ELSE @]

Handle(v) ==
  /\ seen[v] < Len(chain)
  /\ seen' = [seen EXCEPT ![v] = @ + 1]
  /\ db' = [db EXCEPT ![v] = Handled(@, chain[seen[v] + 1])]
  /\ UNCHANGED <<coins, nextId, outside, chain, signed, mempool, reveals, sending, stops>>

Next ==
  \/ \E v \in Validators :
       \/ Deposit(v)
       \/ GenCheckpoint(v) \/ GenBootstrapHandover(v)
       \/ \E out \in spends : GenMultisigSpend(v, out)
       \/ \E s \in signed : Finalize(v, s.tx)
       \/ Handle(v)
  \/ Happens
  \/ \E tx \in mempool : Confirm(tx)
  \/ \E tx \in reveals : ConfirmReveal(tx)
  \/ SendReveal \/ Stop

Spec == Init /\ [][Next]_vars

\* ENABLED GenCheckpoint(v), as a predicate that is cheap to evaluate.
CanGenCheckpoint(v) ==
  /\ db[v].count < Len(wants)
  /\ \E m \in {Completed(db[v], wants[db[v].count + 1])} :
       /\ MayCheckpoint(v, db[v], m)
       /\ \E tx \in CheckpointTxs(db[v], m) :
            /\ v \notin Signers(tx)
            /\ Signers(tx) # {} \/ Cardinality({s.tx : s \in signed}) < MaxDrafts

\* A step of GenCheckpoint(v), told by what it does.
GeneratesCheckpoint(v) == \E s \in signed' \ signed : s.by = v /\ s.tx.kind = "checkpoint"

\* The first conjunct is weak fairness of GenCheckpoint(v), spelt out.
\* Providers answer, relayers bring a complete set of signatures, what is
\* submitted confirms, so do the stake changes the child asks for, and every monitor follows the chain.
Fairness ==
  /\ \A v \in Validators : <>[]CanGenCheckpoint(v) => []<><<GeneratesCheckpoint(v)>>_vars
  /\ \A v \in Validators : WF_vars(Handle(v))
  /\ WF_vars(\E v \in Validators, s \in signed : s.tx.kind = "checkpoint" /\ Finalize(v, s.tx))
  /\ WF_vars(SendReveal) /\ WF_vars(Happens)
  /\ WF_vars(\E tx \in mempool : Confirm(tx))
  /\ WF_vars(\E tx \in reveals : ConfirmReveal(tx))

LiveSpec == Spec /\ Fairness

----------------------------------------------------------------------------
(* Properties.                                                             *)

Checkpoints == {chain[i] : i \in {i \in DOMAIN chain : chain[i].kind = "checkpoint"}}

\* Whatever the coins and the outputs, a transaction pays the fee of its
\* inputs and outputs, and no more than that, the fee of a change output it
\* does without and the change that would have been dust.
FeesCovered ==
  \A s \in signed :
    LET surplus == s.tx.spent - Paid(s.tx.outs)
        n == Cardinality(s.tx.ins)
    IN  /\ surplus >= Fee(Len(s.tx.outs), n)
        /\ surplus <= Fee(Len(s.tx.outs) + 1, n) + Dust

\* Largest-first takes no more coins than it must: apart from the dust it folds
\* in, no smaller set of coins would have paid for the same outputs.
FewestCoins ==
  [][\A s \in signed' \ signed :
       (s.tx.kind # "handover" /\ s.since = 0) =>
         LET kept == SelectSeq(s.tx.outs, LAMBDA o : o.to # s.tx.to)
         IN  \A S \in SUBSET Unspent(s.tx.from) :
               Cardinality(S) + Consolidation < Cardinality(s.tx.ins) => ~Covers(S, kept)]_vars

\* No rotation and no kill leaves money behind at the old committee: a coin
\* that is still there was not yet listed to any of the signers, or is spent by
\* a transaction that was ahead of it and waits for a block.
SweptByRotation ==
  \A tx \in Checkpoints : (tx.to # tx.from \/ tx.meta.kill) =>
    \A c \in coins, s \in signed :
      (c.at = tx.from /\ s.tx = tx) =>
        c.id >= s.since \/ \E ahead \in mempool : c.id \in ahead.ins

\* What a rotation swept is at the multisig that every monitor takes for the
\* committee once it has handled the rotation, and until the next one: the
\* provider that wrote the transaction and the monitor that reads it agree on
\* what the configuration number means.  (A rotation the monitors do not
\* recognise takes the money where none of them looks: WrittenIsRecognised.)
FundsFollowCommittee ==
  \A v \in Validators : \A i \in 1..seen[v] :
    (/\ chain[i].kind = "checkpoint" /\ chain[i].to # chain[i].from
     /\ Recognised(chain[i])
     /\ \A j \in (i + 1)..seen[v] : chain[j].kind # "checkpoint")
      => Here(db[v].conf) = chain[i].to

\* Nothing the message pays goes to the subnet itself.
Outward(m) ==
  /\ Self \notin Destinations(m)
  /\ \A i \in DOMAIN m.withdrawals : m.withdrawals[i].to \notin Ours
  /\ \A i \in DOMAIN m.unstakes : m.unstakes[i].to \notin Ours

\* No sum is larger than the supply of bitcoin.
InSupply(u, amount) == amount <= MaxMoney /\ Paid(u) <= MaxMoney

\* The kill checkpoint leaves nothing to the dead subnet, repays every
\* validator at least its collateral, and what it adds is in proportion: two
\* roundings and a truncation take less than two satoshi from anybody and give
\* less than one, except to the last, who takes what they leave, and the parts
\* never add up to more than there is, which would be a panic.  (A payment of
\* the message to the subnet itself would be taken for the change.)
KillPaysOut ==
  \A s \in signed :
    LET tx == s.tx
        u == tx.msg.unstakes
        n == Len(tx.outs) - Len(u)
        extra(i) == tx.outs[n + i].value - u[i].value
        all == SumFunctionOnSet([i \in DOMAIN u |-> extra(i)], DOMAIN u)
    IN  (tx.kind = "checkpoint" /\ tx.meta.kill /\ Outward(tx.msg)) =>
          /\ \A i \in DOMAIN tx.outs : tx.outs[i].to \notin Ours
          /\ \A i \in DOMAIN u : tx.outs[n + i].to = u[i].to
          /\ InSupply(u, all) =>
               \A i \in DOMAIN u :
                 /\ extra(i) >= 0
                 /\ extra(i) * Paid(u) > (all * u[i].value) - 2 * Paid(u)
                 /\ i < Len(u) => extra(i) * Paid(u) < (all * u[i].value) + Paid(u)

\* What the monitors read from a confirmed checkpoint is what the provider
\* wrote: the withdrawals, the unstakes and to whom they go.  (Of the unstakes
\* only as many as the metadata can count are read, and no provider checks it;
\* a kill adds to them, which KillPaysOut is about.)
ReadBack ==
  \A tx \in Checkpoints : (Recognised(tx) /\ Len(tx.msg.unstakes) <= MaxCount) =>
    /\ ReadWithdrawals(tx) = tx.msg.withdrawals
    /\ LET read == ReadUnstakes(tx, {Backup[v] : v \in Validators})
       IN  /\ Len(read) = Len(tx.msg.unstakes)
           /\ \A i \in DOMAIN read :
                /\ read[i].to = tx.msg.unstakes[i].to
                /\ ~tx.meta.kill => read[i].value = tx.msg.unstakes[i].value

\* Each checkpoint of the child gets through, or the subnet ends: drafts of
\* providers that lag or list other coins, and signatures of a committee that
\* has been replaced meanwhile, hold it up but not for good.  (A checkpoint
\* with a batch and unstakes does not get through: RevealSpendsCommit.)
Progress ==
  <>(\/ \A n \in DOMAIN wants : \E tx \in Checkpoints : tx.number = n
     \/ \E v \in Validators : db[v].status = "killed"
     \/ \E s \in signed : s.tx.kind = "checkpoint" /\ ~RevealSpends(s.tx.msg, s.tx.outs))

\* "position after the metadata output, all withdrawal outputs and all unstake
\* outputs" (batch_transfer_commit_outpoint): the reveal spends the commit.
RevealSpendsCommit ==
  \A s \in signed : s.tx.kind = "checkpoint" => RevealSpends(s.tx.msg, s.tx.outs)

\* "Transfer outputs for each transfer" (from_checkpoint_tx): the checkpoints
\* this program writes are ones it reads.
WrittenIsRecognised == \A tx \in Checkpoints : Recognised(tx)
=============================================================================
