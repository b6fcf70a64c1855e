------------------------------- MODULE Spending -------------------------------
(***************************************************************************)
(* The transactions that spend a multisig: which coins they take, what     *)
(* they pay and what change they leave (src/multisig.rs), and the outputs  *)
(* of a checkpoint as IpcCheckpointSubnetMsg writes and reads them.        *)
(*                                                                         *)
(* A coin is a record with an id, a value and the address it is at; the    *)
(* order of ids stands for the order of txid and vout.  An output is a     *)
(* record with the address it pays and its value.  Weights are abstracted  *)
(* to one per input and one per output, times the fee rate.                *)
(***************************************************************************)
EXTENDS Integers, FiniteSets, SequencesExt, Aggregates

CONSTANTS
  BaseFee,        \* fee of the fixed part of a transaction
  InFee,          \* fee of one input with all the signatures it may need
  OutFee,         \* fee of one output
  Dust,           \* minimal_non_dust
  RevealFee,      \* fee of the transaction that reveals a batch
  Consolidation,  \* CHECKPOINT_CONSOLIDATION_LIMIT
  MaxCount,       \* u8::MAX, the largest count of the metadata
  Significand,    \* 2^53, what the significand of an f64 counts up to
  Powers,         \* the powers of two by which an f64 scales it down
  MaxMoney,       \* 21 million coins, in satoshi
  DataOutput,     \* the address of the OP_RETURN output
  CommitOutput    \* the address of the batch's commit output

ASSUME SpendingConstants ==
  /\ BaseFee \in Nat /\ InFee \in Nat /\ OutFee \in Nat
  /\ Dust \in Nat /\ RevealFee \in Nat
  /\ Consolidation \in Nat /\ MaxCount \in Nat

\* Every amount is counted exactly with two bits to spare, and the exponents
\* reach as far down as the ratio of two amounts does.
ASSUME FloatConstants ==
  /\ Significand \in Nat /\ MaxMoney \in Nat \ {0} /\ 4 * MaxMoney <= Significand
  /\ Powers \subseteq Nat \ {0} /\ 1 \in Powers
  /\ \A p \in Powers : 2 * p \in Powers \/ p >= Significand * MaxMoney

Total(S) == SumFunctionOnSet([c \in S |-> c.value], S)

Paid(outs) == SumFunctionOnSet([i \in DOMAIN outs |-> outs[i].value], DOMAIN outs)

Pay(to, value) == [to |-> to, value |-> value]

Fee(outs, ins) == BaseFee + OutFee * outs + InFee * ins

\* A mutant of Before: smallest first.
BeforeUp(c, d) == c.value < d.value \/ (c.value = d.value /\ c.id < d.id)

\* Coins are sorted largest first, then by txid and vout.
Before(c, d) == c.value > d.value \/ (c.value = d.value /\ c.id < d.id)

Rank(coins, c) == Cardinality({d \in coins : Before(d, c)}) + 1

Failed == [ok |-> FALSE]

Built(ins, outs) == [ok |-> TRUE, ins |-> ins, outs |-> outs]

\* Change above the dust limit becomes an output, the rest goes to the fee.
WithChange(ins, outs, rest, change) ==
  Built(ins, IF rest > Dust THEN Append(outs, Pay(change, rest)) ELSE outs)

----------------------------------------------------------------------------
(* select_coins, in closed form.                                           *)

\* The fee of S for these outputs and one for the change.
FeeFor(S, outs) == Fee(Len(outs) + 1, Cardinality(S))

\* A mutant of Covers: the fee of the inputs is forgotten.
CoversOutputs(S, outs) == Total(S) >= Paid(outs)

Covers(S, outs) == Total(S) >= Paid(outs) + FeeFor(S, outs)

\* A coin is folded in only while the change stays at or above dust.
Sweeps(S, outs) == Total(S) >= Paid(outs) + FeeFor(S, outs) + Dust

SelectCoins(coins, outs, change, limit) ==
  LET n       == Cardinality(coins)
      First(k) == {c \in coins : Rank(coins, c) <= k}
      enough  == {k \in 1..n : Covers(First(k), outs)}
      needed  == Min(enough)
      Chosen(j) == First(needed) \cup {c \in coins : Rank(coins, c) > n - j}
      \* Phase 2 stops at the first coin that does not pay for itself.
      folded  == Max({j \in 0..Min({limit, n - needed}) :
                        \A i \in 1..j : Sweeps(Chosen(i), outs)})
      ins     == Chosen(folded)
  IN  IF enough = {} THEN Failed
      ELSE WithChange(ins, outs, Total(ins) - Paid(outs) - FeeFor(ins, outs), change)

\* exhaust_unspent: every coin is an input.
Exhaust(coins, outs, change) ==
  IF coins = {} \/ ~Covers(coins, outs) THEN Failed
  ELSE WithChange(coins, outs, Total(coins) - Paid(outs) - FeeFor(coins, outs), change)

\* A mutant of ConstructSpend: coins are selected for a rotation too.
ConstructSpendSelected(coins, exhaust, outs, change, limit) ==
  SelectCoins(coins, outs, change, limit)

\* construct_spend_unsigned_transaction.
ConstructSpend(coins, exhaust, outs, change, limit) ==
  IF exhaust THEN Exhaust(coins, outs, change) ELSE SelectCoins(coins, outs, change, limit)

----------------------------------------------------------------------------
(* The outputs of a checkpoint.  A message m has withdrawals (outputs),    *)
(* transfers (destination and value), tokens (whether it has ERC records), *)
(* unstakes (outputs), the configuration number conf and kill.             *)

HasBatch(m) == m.transfers # <<>> \/ m.tokens

Destinations(m) == {m.transfers[i].dest : i \in DOMAIN m.transfers}

Sent(m, dest) ==
  SumFunctionOnSet([i \in DOMAIN m.transfers |-> m.transfers[i].value],
                   {i \in DOMAIN m.transfers : m.transfers[i].dest = dest})

\* validate, before the unstakes are filled in: their number is not checked.
Valid(m) ==
  /\ Len(m.withdrawals) <= MaxCount /\ Cardinality(Destinations(m)) <= MaxCount
  /\ \A i \in DOMAIN m.withdrawals : m.withdrawals[i].value > 0
  /\ \A i \in DOMAIN m.transfers : m.transfers[i].value > 0

\* A mutant of Metadata: two counts are exchanged.
MetadataSwapped(m) ==
  [withdrawals |-> Min({Len(m.unstakes), MaxCount}),
   transfers   |-> Min({Len(m.transfers), MaxCount}),
   unstakes    |-> Min({Len(m.withdrawals), MaxCount}),
   conf |-> m.conf, kill |-> m.kill]

\* make_metadata_tx_out.
Metadata(m) ==
  [withdrawals |-> Min({Len(m.withdrawals), MaxCount}),
   transfers   |-> Min({Len(m.transfers), MaxCount}),
   unstakes    |-> Min({Len(m.unstakes), MaxCount}),
   conf |-> m.conf, kill |-> m.kill]

\* The commit output of make_batched_transfer pays for the reveal and its output.
CommitValue == Max({Dust, Dust + RevealFee})

\* The outputs of to_checkpoint_psbt before the change.  A HashMap keeps the
\* destinations, so their order is any: order is a sequence of them, and at
\* has the address of each.
CheckpointOutputs(m, order, at) ==
  <<Pay(DataOutput, Dust)>>
  \o m.withdrawals
  \o (IF HasBatch(m) THEN <<Pay(CommitOutput, CommitValue)>> ELSE <<>>)
  \o [i \in DOMAIN order |-> Pay(at[order[i]], Sent(m, order[i]))]
  \o m.unstakes

\* batch_transfer_commit_outpoint, counted from one, and make_reveal_batch_transfer_tx with it.
RevealVout(m) == 1 + Len(m.withdrawals) + Len(m.unstakes) + 1

RevealSpends(m, outs) ==
  HasBatch(m) => RevealVout(m) \in DOMAIN outs /\ outs[RevealVout(m)].to = CommitOutput

\* The value of the first output that pays the change address.
ChangeAmount(outs, change) ==
  LET at == {i \in DOMAIN outs : outs[i].to = change}
  IN  IF at = {} THEN 0 ELSE outs[Min(at)].value

\* n / d to the nearest integer, and to the even one of two.
Nearest(n, d) ==
  LET q == n \div d
      r == n % d
  IN  IF 2 * r > d \/ (2 * r = d /\ q % 2 = 1) THEN q + 1 ELSE q

\* The f64 nearest to n / d: the power of two that fills the significand, and
\* the significand rounded.
Float(n, d) ==
  LET scales == {p \in Powers : n * p < Significand * d /\ Significand * d <= 2 * n * p}
      p      == CHOOSE p \in scales : TRUE
  IN  IF scales = {} THEN [n |-> 0, d |-> 1] ELSE [n |-> Nearest(n * p, d), d |-> p]

\* A mutant of Part: the proportion is truncated, not the product.
PartOfWhole(amount, value, total) == amount * (value \div total)

\* (amount as f64 * (value as f64 / total as f64)) as u64.
Part(amount, value, total) ==
  LET proportion == Float(value, total)
      product    == Float(amount * proportion.n, proportion.d)
  IN  product.n \div product.d

\* What the kill checkpoint adds to unstake i: its proportion, and the rest to
\* the last.
Share(m, i, amount) ==
  LET part == [j \in DOMAIN m.unstakes |-> Part(amount, m.unstakes[j].value, Paid(m.unstakes))]
  IN  IF i < Len(m.unstakes) THEN part[i]
      ELSE amount - SumFunctionOnSet(part, 1..(Len(m.unstakes) - 1))

\* The unstake outputs are the last ones of outs.
Redistributed(m, outs, amount) ==
  LET first == Len(outs) - Len(m.unstakes)
  IN  [i \in DOMAIN outs |->
         IF i <= first THEN outs[i]
         ELSE Pay(outs[i].to, outs[i].value + Share(m, i - first, amount))]

\* to_checkpoint_psbt.
ToCheckpointPsbt(m, coins, exhaust, order, at, change) ==
  LET outs   == CheckpointOutputs(m, order, at)
      all    == exhaust \/ m.kill
      first  == ConstructSpend(coins, all, outs, change, Consolidation)
      amount == ChangeAmount(first.outs, change)
  IN  IF ~first.ok THEN Failed
      ELSE IF m.kill /\ amount > 0 /\ m.unstakes # <<>> /\ Paid(m.unstakes) > 0
      THEN ConstructSpend(coins, all, Redistributed(m, outs, amount), change, Consolidation)
      ELSE first

----------------------------------------------------------------------------
(* from_checkpoint_tx.                                                     *)

ExpectedOutputs(meta) ==
  1 + meta.withdrawals + meta.unstakes + meta.transfers + (IF meta.transfers > 0 THEN 1 ELSE 0)

Recognised(tx) == Len(tx.outs) >= ExpectedOutputs(tx.meta)

ReadWithdrawals(tx) == SubSeq(tx.outs, 2, 1 + tx.meta.withdrawals)

\* An output that pays no validator's backup address is passed over.
ReadUnstakes(tx, backups) ==
  LET outs == SubSeq(tx.outs, 2 + tx.meta.withdrawals, 1 + tx.meta.withdrawals + tx.meta.unstakes)
  IN  Picked(outs, {i \in DOMAIN outs : outs[i].to \in backups})
=============================================================================
