# bitcoin-ipc: specifications, model checks and proofs

bitcoin-ipc anchors IPC subnets in Bitcoin. Users and validators write messages
into Bitcoin transactions; every validator runs a *monitor* that reads the
confirmed blocks and keeps the subnets' state in a local LMDB database, and a
*provider* that answers queries and builds transactions from that database. The
subnet's funds are held by a weighted taproot multisig of its committee. A
checkpoint transaction, signed by the committee, pays withdrawals, moves the
funds to the next committee and may end the subnet.

The development models the program from the provider's calls to the verdict of
the monitor: the life of a subnet (committee, stake changes, checkpoints, kill
vote), the block loop of the monitor, the token ledger and the messages to the
children, the coins and the checkpoint transactions that spend them, the reward
tracker and the requests of users and validators. Paths below are relative to
the repository's root.

## 1. Inventory

| Part | State it keeps | Operations | Interacts with |
|---|---|---|---|
| Multisig committee (`src/multisig.rs`, `src/db.rs`) | none; a committee is data | power, threshold, address, join/modify/remove a validator, coin selection, PSBT signing | every handler |
| Subnet handlers (`src/ipc_lib.rs`) | subnet state, committees, stake changes, checkpoints, kill requests, rootnet messages, token balances | `validate*`, `from_tx`, `save_to_db` for nine messages | called by the monitor in chain order |
| Database (`src/db.rs`) | LMDB tables | typed reads and writes, one write transaction per handler | monitor writes, provider reads |
| Rootnet messages and batches (`src/ipc_lib.rs`, `src/db.rs`) | a numbered queue per subnet, token balances, kept transactions | `Prefund`, `Fund`, `BatchTransfer`, reads by height | monitor writes, children read through the provider |
| Checkpoint generation (`src/provider/rpc.rs`) | none; reads the database and the node's coins | `gen_checkpoint_psbt`, `finalize_checkpoint_psbt`, bootstrap handover, multisig spend | called by the child's relayer; result goes to Bitcoin |
| Checkpoint transaction layout (`src/ipc_lib.rs`) | none | `to_checkpoint_psbt`, `from_checkpoint_tx`, reveal of the batch | provider writes, monitor reads |
| Monitor (`src/bin/monitor.rs`) | current height and queued imports in memory; last processed block in the database | sync, listen, retry, imports, reward hook | bitcoind, wallet, handlers |
| Reward tracker (`src/rewards.rs`) | snapshot candidates and results | `update_after_block`, `update_after_checkpoint` | called by the monitor |
| Provider server (`src/provider`) | none | queries, seven calls that build and submit a message | database, bitcoind's wallet |
| Wallet and Bitcoin helpers (`src/wallet.rs`, `src/bitcoin_utils.rs`) | bitcoind's | funding, commit and reveal, submission, RPC wrappers | bitcoind |
| `easy_tester`, quickstart, benchmarks | test and deployment tools | | |

What is hard here, and what makes each part correct:

* **The checkpoint is built long before it is handled.** The provider reads the
  database, the committee signs, Bitcoin confirms; meanwhile stake changes,
  votes or a competing checkpoint are recorded. Correct means: the monitor never
  refuses a signed checkpoint, no change is lost or applied out of order, every
  withdrawal that counts as applied was paid.
* **The committee has three identities**: the effective one, the waiting one and
  the snapshots by number, compared by multisig address only. Correct means: the
  committee that can sign is the one on record, and each can reach its threshold.
* **The kill vote** spans blocks and committee changes. Correct means: distinct
  validators, a quorum, a delay, and nothing but the end afterwards.
* **The monitor fails anywhere**: RPC errors, a node that restarts behind, a
  reorganisation, a failed write, a crash between two messages of a block.
  Correct means: messages in order, none left out, none from a block that is
  replaced, and repetition only as far as interruptions explain it.
* **The token ledger** is moved by batches that confirm any time after their
  checkpoint and are written record by record. Correct means: nonces without gap
  or duplicate, nothing half written or doubled after a stop, balances that add
  up, children that receive their messages in order.
* **The subnet's money** is a set of coins that several providers spend at their
  own pace. Correct means: the fee is covered, a rotation takes everything along,
  a kill repays everyone, the monitors read from the outputs what was written.
* **Rewards** are accumulated lazily by hooks that run after the messages are
  saved. Correct means: the minimum collateral over the snapshot.
* **A request is checked twice**, by the provider before it is submitted and by
  the monitor when it confirms. Correct means: what the first lets through the
  second takes unless something happened in between.

## 2. Modules

`Committee` — a committee is a configuration number and the collateral of each
validator (0: not a member). `Power`, `MultisigThreshold`, `Address` and the
three committee changes are the functions of `multisig.rs` and
`SubnetCommittee`; two committees are "the same" when their addresses are, as in
the code's `PartialEq`. `MultisigValid` is the condition under which
`multisig_address` does not panic.

`Subnet` (extends `Committee`) — one subnet as the database holds it. One action
per handler: `CreateSubnet`, `JoinPreBootstrap`, `JoinPostBootstrap`, `Stake`,
`Unstake`, `Kill`, `Checkpoint`; each contains its validations as guards and all
writes of its `save_to_db`, which are one LMDB transaction. A message that is
refused changes nothing and is no step. `GenCheckpoint(c)` is
`gen_checkpoint_psbt` together with the signatures. External: `NewBlock`,
`ChildSync` (the child applies the stake changes it reads). One history field is
added: how many checkpoints paid a change (`paid`). `halted` stands for the panic of
`multisig_address`: the block is not marked as processed, so a restart meets it
again. Two abstractions matter. The committee's money is one coin here, so the
confirmation of a checkpoint removes its competitors (`psbts' = {}`); `Treasury`
has several coins. And transfers inside a checkpoint are left out, because they do
not touch this state; `Ledger` has them.

`SubnetClaims` — statements of the repository's documents, comments and
assertions about the same state that the code does not keep.

`BlockReader` — the abstract specification of the monitor: messages are taken up
one at a time, in chain order, none is left out, and only from blocks that are
never replaced.

`Monitor` — the process. `pc` names the place in `main`/`sync`/`listen`
(`start`, `poll`, `fetch`, `check`, `handle`, `hook`, `effects`, `backoff`,
`down`), `phase` the loop it is in. `Poll`, `Fetch`, `Handle`, `FinishBlock`,
`Hook`, `SyncCheck`, `Import` are the steps that succeed; `PollFails`,
`FetchFails`, `FinishUnsaved`, `HookFails`, `ImportSwallowed`, `ImportFails`
the ones that do not, each with the consequence the code gives it (retry from
`main`, log and go on, or end of the process); `Stop` is a crash, a kill, a
cancellation or a fatal database error, after which only the database is left.
A message is reduced to what its handler does when it is handled again
(`Outcomes`, `QueuesImport`): a join is refused the second time unless the create
before it, handled again too, has emptied the genesis committee; a fund, stake or
checkpoint is recorded again unless what came after it is in the way; a rotating
checkpoint rotates only once. The two
commits of the checkpoint handler (record, then transaction) are one step: a
stop between them repeats the block like any stop within it, and the second
write is idempotent. A chain changes only in its last `Confirmations` blocks;
this is the assumption the constant stands for in the code.

`Ledger` (extends `Aggregates`) — several subnets, their rootnet messages and token balances. Blocks are
filled (`MineMessage`, `MineProposal`), confirmed (`StartBlock`) and handled
message by message: `HandlePrefund`, `HandleFund`, `HandleStatus` (bootstrap and
mark, whose full handlers are in `Subnet`), `HandleCheckpoint` followed by
`SaveTransaction` (the checkpoint's two commits), and for a batch `BeginBatch`, one
`Write...` step per record on the open transaction `txn`, and `CommitBatch`.
`Refuse` is a message its handler turns down: a checkpoint that has fewer outputs than
its reader expects or, as a kill, more (`Readable`: several transfers to one subnet
share an output and are counted one by one), one that names a configuration a later
checkpoint has left behind (`Outrun`), and with either the batch, whose checkpoint's
transaction was not kept. `EndBlock` may fail to write the height, which `sync` only
logs: `processed` is the height in memory, `saved` the one on record. `Crash` loses
`txn` and goes back to the block after `saved`; `chain` has the blocks that may be
handled again. `Propose` is `gen_checkpoint_psbt` with the
provider's validation of the batch, which may be stale when the batch confirms.
`ChildRead` is the child's query by height, in the order of the database keys.
Amounts keep their saturation at `MaxToken` (`U256::MAX`), counts theirs at `MaxCount`
(`u8::MAX`). Of committees only the configuration numbers in force are kept (`conf`).
History: `applied`, `clamped`, `aborted`, `rewound`.

`Inbox` — the abstract specification of the message queues: one log per subnet
that only grows at its end, and a child that takes messages of it, none twice, and a
prefix of it as long as things are `orderly`. They are not once a height was lost and
its block handled again after a later one: the messages of a lower height then have
higher nonces than some of a greater one, and the child reads by height.

`Spending` (extends `Aggregates`) — pure definitions: coin selection, change, fee and dust
(`ConstructSpend`), the outputs of a checkpoint as `to_checkpoint_psbt` writes them
and `from_checkpoint_tx` reads them, the shares of a kill checkpoint. `SelectCoins`
is in closed form (the first k coins, then the most of the smallest that pay for
themselves) for the code's two loops. Weights are one number per input and output.
The shares are computed as the code does, in floating point: `Float` is the quotient of
two numbers rounded to a significand that counts up to `Significand` (2^53 for `f64`)
with one of `Powers` as its exponent, ties to even; `Part` is the rounded proportion
times the change, rounded again and truncated. `FloatConstants` says what the proofs
need of the precision: two bits more than `MaxMoney`, the supply of bitcoin, has
(4 * 21 * 10^14 is below 2^53), and exponents that reach far enough down.
`Valid` is `validate`, which runs before the unstakes are filled in, so their number
is not compared with what the metadata can count.

`Aggregates` — subsequences by a set of indices (`Picked`), for the filters of
`Ledger` and `Treasury`. Sums are `SumFunctionOnSet` of the community modules.

`Treasury` (extends `Committee`, `Spending`) — the coins of one subnet, and one
provider with a database and a monitor per validator. `GenCheckpoint`,
`GenBootstrapHandover`, `GenMultisigSpend` write and sign a transaction from what
that provider knows; signatures add up only for identical transactions. `Finalize`
looks up the committee again, `SendReveal` submits the batch's reveal and `Stop`
falls between the two. `Confirm`, `ConfirmReveal`, `Deposit`, `Happens` are Bitcoin
and the users; `Handle` is the monitor reading a checkpoint back from its outputs.
The committees by configuration number are a constant; where they come from is in
`Subnet`. `AddressesApart` says which addresses cannot be the same: the data output
is no multisig of the subnet, the commit output pays nobody in particular, and
another subnet's multisig has that subnet's id in its script
(`src/src/multisig.rs:69`). The destinations of a batch come out of a `HashMap`, so every order of
their outputs is possible.

`Rewards` (extends `Committee`) — `UpdateAfterCheckpoint`, `UpdateAfterBlock` and the
part of the monitor that calls them: messages are saved, then hooked, the block is
marked processed, then hooked; `Crash` falls anywhere between. `EndBlock` may lose the
height as in `Ledger`, and then several blocks are replayed. The subnets are created
before the first block, so `Bootstrap` is the first thing that is replayed of one.
History: `reigns`, the collateral over time, and `again`, the finished blocks that
were handled again. `named` is the last configuration number each child has named:
it applies stake changes in their order, so the numbers only grow (`childConf` of
`Subnet`). Block 0 is never handed to the tracker, so a snapshot that ends there has
no result.

`Requests` (extends `Subnet`) — the composition of the provider's calls with the
handlers. `Ask` is a call that passes the check of its handler, then `Fund`, `Test`,
`Send` and, for create and join, `SendReveal`; coins of the wallet are chosen and not
locked, so handlers compete. `Fail` is an RPC error or a stop in any of these places.
`Honour` runs the handler of `Subnet` on what the transaction carries (the signer is
recovered from the signature, the subnet from the address it pays), `PassOver` is a
message that is not placed or is refused. `Meanwhile` is the rest of `Subnet`.

`MCSubnet`, `MCMonitor`, `MCLedger`, `MCTreasury`, `MCRewards`, `MCRequests` —
instances for TLC. `AggregateProofs` — what sums, subsequences and flattened
sequences are, for the other proofs. `SubnetTypeProofs`, `SubnetProofs` (`Subnet`),
`MonitorProofs`, `LedgerProofs` (nonces and finality of messages, balances, stale batches),
`HistoryProofs` (logs), `TreasuryProofs`, `RewardProofs` — theorems.

How they fit together: `Requests` extends `Subnet`; `Ledger`, `Treasury` and
`Rewards` keep of `Subnet` only what they need (a status, committees by number) and
say so; `Monitor` gives the order, the repetition and the hooks that `Ledger` and
`Rewards` reproduce inside a block.

Definitions called "a mutant of ..." are plausible bugs of the definition that
follows them. They are used by nothing in the specification; substituting one
for the definition makes TLC report the property it is listed with in
`PROJECT.json`, which shows that the property depends on that piece of code.

## 3. Runs

On two cores the runs take from a few seconds to about two and a half minutes
(`monitor`, `ledger`, `requests`). Runs switch deadlock checking off where the system may
stop: a subnet that was killed or halted, or a scenario that is over. `monitor`
keeps it.

| Run | Bounds | Checks |
|---|---|---|
| `subnet_changes` | 3 validators, 2 at genesis, amounts 1 and 2, power capped at 3, 3 numbered changes, 2 transactions in flight | `TypeOK`, `EffectiveCommitteeRecorded`, `PendingIsAhead`, `CheckpointAccepted`, `WithdrawalPaid`, `SpendableCommittees` |
| `subnet_kill` | 3 validators, heights 0..2 with a window of 1, delay of 2 checkpoints, 2 changes, one transaction in flight | `NoDoubleKillVote`, `KillDelay`, `KillNeedsQuorum`, `FrozenOnceMarked`, `StakeChangesApplied`, `MarkedGetsKilled` |
| `monitor` | 3 blocks of up to 3 messages of all kinds, 1 confirmation, windows of 2, 1 stop or failed write, the node falls behind once | `TypeOK`, `ReadsFinal`, `AppliedAgain`, `HookMissed`, `HandlesInOrder` (refinement of `BlockReader`), `ConfirmedHandled`, `ImportedEventually` |
| `ledger` | 3 subnets, one not bootstrapped, 1 token, largest amount 3, 2 blocks of 2 messages, 2 checkpoints from 4 plans, 1 stop, 1 height not written | `TypeOK`, `NoncesDense`, `LogIsHistory`, `SupplyConserved`, `ValidatedApplies`, `MetadataFirst`, `MessagesFinal`, `RefusedOnlyIfStale`, `ImplementsInbox` (refinement of `Inbox`), `Received` |
| `treasury` | 2 validators with a provider each, 3 committees, 9 scenarios of up to 4 coins, fees and dust of 1, significands of 10 bits, 1 stop | `FeesCovered`, `FewestCoins`, `SweptByRotation`, `FundsFollowCommittee`, `KillPaysOut`, `ReadBack`, `Progress` |
| `rewards` | 2 subnets, 3 committees, 5 blocks of up to 2 messages, snapshots of 2 blocks from height 2, 1 stop, 1 height not written | `RewardIsMinimum`, `RewardBounded` |
| `requests` | 7 scenarios of up to 4 calls, one coin in the wallet, 1 failure, 1 checkpoint in flight | `HonouredUnlessOvertaken`, `AnsweredArrives` |
| `claim_*` | see section 5 | one violated statement each |

What they show, beyond the names. `subnet_*`: whatever is recorded between the
drafting and the confirmation of a checkpoint, no committee, change, withdrawal or
vote is lost or counted twice. `monitor`: order and completeness of reading, and how
much is repeated after an interruption. `ledger`: a batch is all or nothing,
appears once in every log it concerns each time it takes effect, and is refused only
for the reasons `RefusedOnlyIfStale` lists; reading by height leaves no message
behind. `treasury`: the transactions of one committee can be paid and signed
with the coins at its address, and end up where the monitors look for them. `rewards`:
lazily lowered amounts equal the minimum over the snapshot. `requests`: the list of
things that can cost a submitted message its effect is complete.

Why the bounds are enough for the cases of interest. Three validators with two
amounts give committees with the same address and different collateral (the cap
of 3), full and partial withdrawals, and a join next to both. A join takes two
numbers, so three changes are the least that let a join and a change of another
validator be pending at once; two transactions in flight are the least that
compete. In `subnet_kill` two votes, or one after a stake change, reach the
threshold or miss it, and a window of 1 at heights 0..2 has votes inside, at the
edge of and outside it. Three blocks with one confirmation leave two to read, which
is a full window in sync or two turns of listen, and one that can be replaced. In
`ledger` a largest amount of 3 makes a mint of 3 saturate; the plans register and
send at once, mint, burn and send, send to oneself, send home, and name one subnet
twice (which reads as a checkpoint with change and does not without); two proposals of
the same subnet are the least that make each other stale, two configuration numbers
the least that make one outrun the other, and
two blocks let a batch confirm with its checkpoint or after it, and be handled both
again after the first height was lost. In `treasury` fees
and dust of 1 next to coins of 2 to 25 make coins that do not pay for themselves,
change that is dust, and sets that fall just short; each scenario isolates one
kind of transaction and lets both providers lag. The kill shares a change of 25 among
stakes of 3 and 2: with 10 bits the share of the first is 14, where exact division
gives 15, so the case in which floating point takes a satoshi away occurs. In `rewards` snapshots of two
blocks have a first, a last and nothing between, and two rotations fit into one
block. In `requests` one coin makes every pair of calls compete.

Genesis validators are symmetric in `subnet_changes` (nothing orders validators
and the whitelist contains both); runs with liveness have no symmetry.

### Fairness

`Subnet!LiveSpec`: the child follows Bitcoin (`WF ChildSync`), it keeps
producing checkpoints that carry the configuration number it has applied
(`SF GenCheckpoint(childConf)`; the child checkpoints periodically, and strong
fairness is needed because another transaction may be in flight each time one is
due), and a signed transaction confirms eventually (`WF Checkpoint`). Nobody is
obliged to join, stake, vote or to produce an empty checkpoint.

`Monitor!LiveSpec`: the process is started again when it ends (the client's
entrypoint exits with the monitor and `compose.yaml` says
`restart: unless-stopped`), the node catches up, and an RPC call that is repeated
forever succeeds at some time (`SF` on `Poll`, `SyncCheck`, `Fetch`, `Import`:
the code retries them without limit). Steps inside the process are weakly fair.
No fairness on mining, failures or stops.

`Ledger!LiveSpec`: the monitor goes on after a stop (`WF` of its next step) and each
child keeps asking (`WF ChildRead`). Both are written out, with the enabling
predicates `MonitorBusy` and `Behind` and the variables only these steps change,
because TLC is quicker that way. Nobody has to propose, pay or mine.

`Treasury!LiveSpec`: providers answer the child's relayer (weak fairness of
`GenCheckpoint`, written out with the enabling predicate because TLC would otherwise
build every draft to find out whether one exists), a complete set of signatures is
brought to some provider, what is submitted confirms, every monitor follows the
chain, and the stake changes a wanted checkpoint refers to confirm. No fairness on
deposits, handovers, spends or stops.

`Requests!RequestsLiveSpec`: a handler that runs comes to its end and a transaction
the node accepted confirms (`WF` of `Submission` and of `Verdict`).

## 4. Proofs

TLAPS proves these for every value of the constants, assuming only
`CommitteeConstants`, `SubnetConstants`, `MonitorConstants`, `LedgerConstants`,
`SpendingConstants`, `FloatConstants`, `TreasuryConstants`, `AddressesApart` and `RewardConstants`:
types, finite sets of validators and subnets, a positive scale, window and snapshot
length; of the batches in `Plans` that a subnet registers, mints and burns only
its own tokens and that amounts fit a `U256` (the wire format has no field for
another home, and no larger amount); of the scenarios that there is a committee for
every stake change they contain; of the reward configurations that each is a committee
with its own number; of addresses and of floating point what section 2 says.

| Theorem | States |
|---|---|
| `SubnetTypeProofs!ThresholdReachable`, `ValidMeansPower`, `QuorumsIntersect` | the threshold is within the total exactly when there is power; any two sets of signers that reach it share validators with more than a third of it |
| `SubnetTypeProofs!TypeCorrect` | `TypeOK`: in particular no collateral becomes negative |
| `SubnetProofs!CommitteeRecorded`, `Rotation` | `EffectiveCommitteeRecorded`, `RotationIsNumbered` |
| `SubnetProofs!PendingAhead`, `Accepted` | `PendingIsAhead`, `CheckpointAccepted` |
| `SubnetProofs!OneVoteEach`, `KillQuorum`, `KillDelayed`, `Frozen` | `NoDoubleKillVote`, `KillNeedsQuorum`, `KillDelay`, `FrozenOnceMarked` |
| `SubnetProofs!Spendable` | `SpendableCommittees` |
| `SubnetProofs!WithdrawalsPaid` | `WithdrawalPaid` |
| `MonitorProofs!TypeCorrect`, `FinalReads` | `TypeOK`, `ReadsFinal` |
| `MonitorProofs!BoundedRepetition`, `HooksBounded` | `AppliedAgain`, `HookMissed` |
| `MonitorProofs!ReadsInOrder` | `Spec => HandlesInOrder`: `Monitor` implements `BlockReader` |
| `LedgerProofs!MessagesNumbered`, `Density` | the inductive invariant, and `NoncesDense` |
| `LedgerProofs!Finality`, `LogGrows` | `MessagesFinal`; the log of a subnet only grows at its end: the monitor's half of `ImplementsInbox`, for batches of any size |
| `LedgerProofs!Transfers`, `LedgerTypes` | the inductive invariant, and `TypeOK`: no balance leaves `0..MaxToken` |
| `LedgerProofs!ValidatedBatchesApply`, `Supply` | `ValidatedApplies`, `SupplyConserved` |
| `LedgerProofs!Waiting`, `OnlyStaleRefused` | the inductive invariant, and `RefusedOnlyIfStale` |
| `HistoryProofs!Histories`, `LogFollowsHistory` | the inductive invariant, and `LogIsHistory` |
| `HistoryProofs!Announcements`, `MetadataPrecedes` | the inductive invariant, and `MetadataFirst` |
| `TreasuryProofs!CommitteeHistory`, `FundsFollow` | the inductive invariant, and `FundsFollowCommittee` |
| `TreasuryProofs!Money`, `RotationSweeps`, `FairFees` | the inductive invariant, `SweptByRotation`, `FeesCovered` |
| `TreasuryProofs!CheckpointsKept`, `KillPays`, `ReadsBack` | the inductive invariant, `KillPaysOut`, `ReadBack` |
| `RewardProofs!Bounded`, `Minimum` | `RewardBounded` with any number of stops and lost heights, `RewardIsMinimum` |

`Rotation` (`RotationIsNumbered`: the committee changes only in a step that records a
checkpoint, which announces the new number, and the number moves by one) is proved
and has no run.

The inductive invariants and why they are needed:

* `TypeInv` adds to `TypeOK` what bootstrap establishes (`Bootstrapped`): before
  it there is no committee, change or transaction, after it the committee is one.
* `Numbered` (for the record of the committee) adds that the number of
  checkpoint records is one more than the last checkpoint's number, so that the
  last record is the one the state came from.
* `Configured` (for pending changes and accepted checkpoints) has three parts:
  `ConfBound` relates the configuration numbers of the committee, the waiting
  committee and each change to the length of the list, `PsbtBound` says the same
  of the transactions in flight, and `Complete` that no number in use splits the
  two changes of a join. Without it a checkpoint could name the "Join" half.
* `Voted` adds that no request is above the current height.
* `Marked` adds that a subnet without a mark has no kill transaction in flight,
  that one in flight was built when the delay was over, and that nothing is in
  flight after the kill.
* `PayInv` (for paid withdrawals). The provider pays the pending withdrawals of the
  members of the committee in force, so whoever withdraws must still be one when the
  checkpoint is written, though several rotations may come before
  (`WithdrawersStay`). That needs `Steady`: while changes wait, who has left in the
  last of them cannot be back before the leaving takes effect, and who is still to
  come cannot leave; and `LatestIsLast`: the committee the handlers build upon has the
  members after the last pending change, also when `waiting_committee` was dropped.
  `LastApplied` and `PsbtPays` carry this over to the transactions in flight.
* `ReadInv` (monitor): the height worked towards, the blocks in memory and every
  block a message of which was handled are frozen, that is, below the last
  `Confirmations` blocks; and the place of the process fits what it holds.
  `OrderInv` adds that everything up to `current` and up to `lastProcessed` was
  handled; `ApplyInv` that the messages a restart would repeat were applied at
  most once per interruption, one less than the bound. `HookInv` counts, up to the
  height at which the hook has had its turn, the blocks it was not told of: at most
  one per interruption.
* `MessageInv` (ledger): the boxes of messages are numbered, in the database and in
  the open write transaction, and the transaction contains everything the database
  has. The second part is what makes the commit, which replaces the database by the
  transaction, keep every message. That a nonce counted from a numbered box is free
  rests on the cardinality theorems of the library (`Post` is looked at in one lemma
  for one box and used by every writing step).

* `TransferInv` (token ledger). `save_to_db` writes a batch record by record and
  subtracts without looking, because the whole batch was validated against the
  balances before the first record. So the invariant says of an open transaction
  that *what is left* of the batch would still pass that validation against the
  balances reached so far (`RestValid`), and that these balances are those of the
  database plus what was written (`Conserves`), with equality unless something was
  cut at the limit. Each record then needs one lemma: taking it off the batch and
  writing it keeps both. The supply equation holds in the database because a commit
  adds a whole batch to both sides.
* `StaleInv` (batches that wait for their confirmation) has five parts, over the places
  of all blocks that are still to be handled or may be once more (`ChainInv`). What a
  provider looked at stays true: its subnet and the destinations are known
  (`ProposedInv`). The transaction of a checkpoint is kept, or the checkpoint was
  refused for good (not readable, or outrun: configuration numbers only grow), or it is
  still to be handled and comes before its batch (`KeptInv`; a stop sends the monitor
  back, never past it), and its record is there (`RecordInv`). A transaction in progress takes from
  no other subnet than its own (`GrowInv`), so a batch without registrations that none
  of its own subnet overtook still passes the validation (`FreshInv`).
* `HistoryInv` (logs) says that the log of each subnet is the flattened sequence of
  what each applied message sends there, and that an open transaction has the log of
  the database followed by the letters of the part of the batch it has written.
* `MetaInv` (announcements) relates three things that happen at different times: a
  registration is sent to the subnets known at that moment, a subnet that is known
  stays known, and a transfer is later in the log than its transaction's
  registrations.
* `FollowInv` (treasury) does not speak about the databases one by one. Every monitor
  replays the same chain, so there is one sequence `D` of states the chain goes
  through, each database is the state at the place its monitor has reached, and each
  draft was written from one of them. No two checkpoints with the same number are
  ever submitted; so no checkpoint lies between the state a draft was written from
  and the place where it confirms, and the committee it was written for is the one
  in force there.
* `CoinInv`, `TxInv` (treasury): ids of coins are below the next one and never come
  back; each transaction is fair to its fee (a fact about `ConstructSpend` alone);
  each rotation or kill spends every coin at its address that was there when its
  signers listed them (`Sweeping`); and the inputs of what has confirmed are gone.
* `DraftInv` (treasury) says of every draft where its outputs are: those of the message
  in their order (`Layout`), the change last (`Readable`). Two arguments rest on it.
  For a kill (`PaidOut`) the change of the first construction is exactly what is left
  over; the shares of it sum up to it, so the second construction has no change. That
  each share is near its proportion rests on two bounds of one rounding: it changes a
  number by at most one part in `Significand` (`FloatClose`), so two of them and a
  truncation take less than two satoshi and give less than one (`PartClose`); summed
  up, the shares before the last exceed their proportion by less than one satoshi,
  so the last is not negative (`SharesFair`). For reading back: nothing after
  the commit output looks like a commit, so that a reveal that spends the commit
  (`RevealSpends`, which a transaction that was submitted satisfies) forces the
  unstakes, if there are any, to be where the reader looks for them.
* `BaseInv` (rewards): the state of a subnet, its saved committees and the history
  agree, and what the blocks between the height on record and the last one handled do
  again they find done or do not raise. `CandidatesInv`: the
  amounts noted for a candidate never exceed its collateral at the first block, also
  when hooks were missed or repeated, unless that block is one of `again`; a candidate that has been killed has the hook of
  its kill still ahead, in this run or in a replay. `ResultsInv` keeps results to
  snapshots that have ended.
* `MinInv` (rewards, without a stop): the candidates of a snapshot that has begun are
  exactly the subnets that were there from its first block (a kill that has not been
  hooked aside), their amounts are the least over the committees whose hook has run
  (`LeastInv`), and the number noted is the current one or, while the hook of a
  rotation is due, the one its checkpoint was signed with. That is why the branch of
  `update_after_checkpoint` that should never be taken is not taken.

Sums and sequences. The library's induction theorems take a predicate as a parameter,
which the provers cannot instantiate. `AggregateProofs` proves induction over
the numbers and over the subsets of a finite set with a *set* in place of the
predicate (`AllNumbers`, `AllSubsets`), from the well-foundedness of `<`; the facts
about `SumFunctionOnSet`, `Picked` and `FlattenSeq` follow from it once and for all,
and are cited everywhere else. For this the models write sums as sums of functions
and filters with `Picked`.

The kill vote is where the sums meet the votes: `VotePower` adds up *requests* and
the threshold is about *validators*. They agree because the requests of one window
come from different validators (`Voted`), so that the sum over the requests is the
sum over their senders renamed (`KillQuorum`).

Properties that were wrong, or said too much, and were corrected when their proofs
failed. In `Treasury`, a coin at the old address may be there because a transaction ahead of the
rotation in the mempool is about to spend it (`SweptByRotation`), and a checkpoint
that its own reader does not recognise (`claim_layout`) rotates nobody
(`FundsFollowCommittee`); a ninth scenario of the run `treasury` has the first case. A
kill checkpoint whose message pays the subnet itself takes that payment for its change
(`KillPaysOut` is about messages that do not, `Outward`). Of more unstakes than the
metadata can count only so many are read back (`ReadBack` says so), and of a kill the
amounts with the shares added. The shares of a kill are within two satoshi of their
proportion, not within one (`src/src/ipc_lib.rs:2127`, floating point). In `Ledger`, a
batch is also refused when its checkpoint was (`RefusedOnlyIfStale`), and a child takes
its log in order only as long as no lost height had blocks handled again (`Inbox`). In
`Rewards`, a snapshot whose first block is handled again after a lost height may pay
more than the collateral at that block (`RewardBounded` names the exception), a
snapshot that ends at height 0 has no result, and if a child could name a lower
configuration number than before, a replay could take up a checkpoint that was
refused at first (`named`).

Only model-checked, and why:

* all liveness (`AnsweredArrives` and `Progress` too), which needs fairness and `ENABLED`;
* `FewestCoins` (largest-first selection takes the fewest coins): an exchange argument
  by induction over sorted sets, which the prover cannot do;
* `HonouredUnlessOvertaken`: a message the monitor passes over is one for which no
  handler is enabled (`PassOver`), stated with `ENABLED`, which the prover cannot treat;
* `ImplementsInbox`: false for nonces of several digits (`claim_order`), so only the
  monitor's half (`LogGrows`) is a theorem.

## 5. Disagreements between code and text

Five have a run whose counterexample shows them; quotations are in `PROJECT.json`.

| Run | The text says | The code does |
|---|---|---|
| `claim_paid` | a stake change becomes effective when a checkpoint applies it | a checkpoint pays every pending withdrawal, also those it does not apply; they are paid again later |
| `claim_panic` | `expect("Multisig address should be valid")` | the last validator may withdraw everything; the monitor panics on that block after each restart |
| `claim_commit` | the commit is after the withdrawals and the unstakes | it is written before the unstakes and looked for after them, so with both a batch and unstakes the reveal does not spend it |
| `claim_layout` | an output for each transfer | an output for each destination; a checkpoint with more transfers than outputs is not recognised by its own reader |
| `claim_order` | messages of a height come with increasing nonces | keys end in the nonce without padding, so 10 comes before 9 |

`claim_paid` and `claim_panic` use the instance of `subnet_changes` with a higher cap
on power; `claim_commit` that of `treasury`; `claim_layout` a scenario with three
transfers to one subnet; `claim_order` eleven funds in one block (a batch of eleven
native transfers to one subnet would not get past the checkpoint's reader).
`ImplementsInbox` holds in the run `ledger` because its nonces have one digit;
`claim_order` is where it ends.

Others that were met while modelling and have no run:

* The snapshot under a checkpoint's `next_committee_number` is said to be the
  committee active after it (`src/docs/specs/dynamic-participation.md:176`); when
  the new committee has the old address the number is announced and not taken, and
  the next rotation reuses it (`src/src/db.rs:488`).
* The waiting committee is said to be the current one plus all pending changes
  (`src/src/db.rs:416`); it is dropped when its address equals the new committee's,
  also with changes pending (`src/src/db.rs:492`).
* If the remaining collateral is too low everything is said to be withdrawn
  (`src/src/ipc_lib.rs:4118`); collateral without power leaves the committee and is
  not withdrawn (`src/src/ipc_lib.rs:4133`).
* A crash mid-window is said to resume cleanly (`src/src/bin/monitor.rs:259`); a stop
  within a block repeats its first messages, and one after heights that could not be
  written (`src/src/bin/monitor.rs:285`) whole blocks. `AppliedAgain` bounds how often;
  what it does to the order of messages and to rewards is in `Inbox` and
  `RewardBounded`.
* A batch fills in the record of the last checkpoint and saves it under the number
  after it (`src/src/ipc_lib.rs:3035`); `CommitBatch` does the same.
* `src/src/rewards.rs:376` calls a branch one that should never happen; it is taken
  when a stake change does not show in the power. `RewardIsMinimum` is checked
  where every change shows.
* `fund_subnet` does not make the check for a killed subnet that the monitor makes,
  and `unstake_collateral` and `kill_subnet` accept a validator of the waiting
  committee whose signature the monitor does not look for: such messages are paid
  for and passed over. `HonouredUnlessOvertaken` names both (`Unchecked`).
* `create_subnet` says that the subnet id comes from the commit transaction; it comes
  from the reveal.

## 6. Not modelled, and limits of what is

* Script bytes, addresses, signature hashes and encodings; LMDB and bitcoind
  themselves; the provider's pure queries; the `dev_` calls, which repeat a call with
  keys that are passed in; start-up, configuration and authentication of the server;
  `easy_tester`, quickstart and benchmarks. They are data, libraries, reads without
  state, or tools.
* The answer to `importdescriptors` is per descriptor and the monitor looks at the
  call only (`src/src/bin/monitor.rs:448`); the wallet's view beyond the import queue
  is not modelled, so no property covers it.
* Prefunds are credited as genesis balance; that their output is at a timelock script
  is not modelled. Joins pay the whitelist's address also after bootstrap.
* `Treasury`: committees whose powers are all 1 with a threshold equal to
  `min_validators` have the whitelist's own address, and the instance avoids them.
  Coins that arrive at an address after the rotation was drafted stay there
  (`SweptByRotation` says exactly which). Withdrawals below dust are left to the node's
  test. A kill checkpoint with too little money panics in the handler, which is a
  request that is not answered (`KillAffordable`). Two drafts of one checkpoint over
  disjoint coins could both confirm; `Submitted` (the relayers send one transaction
  for a number) rules it out.
* `Ledger` has of committees only their configuration numbers (that a checkpoint names
  one of a recorded change is in `Subnet`), of the outputs of a checkpoint only their
  number, and `Treasury` no balances: a batch that is
  never revealed is in the first a proposal that is not mined.
* `Requests` has one subnet, and one coin per transaction.

What could come next: an abstract specification of a subnet (a list of changes with
an applied prefix) that `Subnet` implements; the half of `ImplementsInbox` that is
the child's; `PassOver` with a predicate in place of `ENABLED`, and a proof of
`HonouredUnlessOvertaken` from it.
