-------------------------------- MODULE Ledger --------------------------------
(***************************************************************************)
(* What subnets are owed: prefunds and funds paid on Bitcoin, and the      *)
(* batches of native and ERC20 transfers that checkpoints carry from one   *)
(* subnet to another.  The monitor turns them into rootnet messages, a     *)
(* numbered queue per subnet, and into the balance of every token on every *)
(* subnet; the children read their queue by Bitcoin height through the     *)
(* provider.                                                               *)
(*                                                                         *)
(* A batch is committed to by a checkpoint and revealed by a transaction   *)
(* of its own, which may confirm much later.  save_to_db of the batch is   *)
(* one write transaction over many records: txn is that transaction, its   *)
(* records are written one per step, and what it holds is lost when the    *)
(* process stops.                                                          *)
(*                                                                         *)
(* The monitor counts the blocks it has handled in memory (processed) and  *)
(* writes the height to the database (saved); while it catches up, a write *)
(* that fails is only logged.  After a stop it begins with the block after *)
(* the height on record, so one block or several are handled again.        *)
(*                                                                         *)
(* The handlers of the other messages are those of module Subnet; of them  *)
(* only the status of a subnet matters here.                               *)
(***************************************************************************)
EXTENDS Integers, FiniteSets, SequencesExt, Functions, Aggregates

CONSTANTS
  Subnets,          \* subnets created so far
  Bootstrapped,     \* those of them that are bootstrapped at the start
  Tokens,           \* ERC20 token addresses
  NoToken,          \* the token field of a native transfer
  Plans,            \* checkpoints the children may want: subnet, batch and
                    \* configuration number (0, or one of a recorded change)
  Payments,         \* messages of users and validators, in orders they are mined
  Readers,          \* subnets whose child reads its messages
  MaxToken,         \* U256::MAX
  MaxCount,         \* u8::MAX, the largest count of the metadata
  Radix,            \* base in which nonces are written in database keys
  MaxBlocks,        \* bound: blocks
  MaxBlock,         \* bound: messages in a block
  MaxProposals,     \* bound: checkpoint transactions generated
  MaxCrashes,       \* bound: stops of the monitor
  MaxLost           \* bound: heights that could not be written

Operations == {"fund", "register", "mint", "burn", "send"}

\* A record of a batch: IpcCrossSubnetTransfer, IpcErcTokenRegistration,
\* IpcErcSupplyAdjustment of either sign, IpcCrossSubnetErcTransfer.  Of the
\* second and the third, home is the source subnet.
Records == [op : Operations, home : Subnets, token : Tokens \cup {NoToken},
            amount : Nat, dest : Subnets]

ASSUME LedgerConstants ==
  /\ IsFiniteSet(Subnets)
  /\ Bootstrapped \subseteq Subnets
  /\ NoToken \notin Tokens
  /\ Plans \subseteq [subnet : Subnets, batch : Seq(Records), conf : Nat]
  /\ \A p \in Plans : \A i \in DOMAIN p.batch :
       /\ p.batch[i].op \in {"register", "mint", "burn"} => p.batch[i].home = p.subnet
       /\ p.batch[i].op # "fund" => p.batch[i].token \in Tokens /\ p.batch[i].amount <= MaxToken
  /\ Payments \subseteq Seq([kind : {"prefund", "fund", "bootstrap", "mark"},
                             subnet : Subnets, amount : Nat, tx : {0}])
  /\ Readers \subseteq Subnets
  /\ MaxToken \in Nat
  /\ MaxCount \in Nat \ {0}
  /\ Radix \in Nat \ {0, 1}
  /\ MaxBlocks \in Nat
  /\ MaxBlock \in Nat
  /\ MaxProposals \in Nat
  /\ MaxCrashes \in Nat
  /\ MaxLost \in Nat

VARIABLES
  processed,        \* current_height
  saved,            \* last_processed_block of the database
  chain,            \* the blocks by height, empty once they are on record as processed
  coming,           \* the messages of users and validators not mined yet
  block,            \* the messages of block processed + 1
  next,             \* the message to handle, 0 while the block is not confirmed
  half,             \* the checkpoint is saved, its transaction is not yet
  status,           \* of each subnet: genesis, active, marked for killing, killed
  genesis,          \* genesis_balance_entries of each subnet
  msgs,             \* rootnet_msgs_db: for each subnet, message by nonce
  balance,          \* token balances by home subnet, token and holder
  last,             \* last_checkpoint_number, None = -1
  records,          \* checkpoint records by number
  conf,             \* configuration number of each subnet's committee
  txs,              \* transactions_db: the checkpoint transactions kept
  txn,              \* the write transaction of the batch being saved
  proposals,        \* checkpoint transactions the providers generated
  read,             \* the Bitcoin height each child has read
  inbox,            \* the messages each child has received
  applied,          \* history: the messages that took effect, in order
  clamped,          \* history: an amount was cut to MaxToken
  aborted,          \* history: a batch failed after its validation
  rewound,          \* history: blocks handled before were handled again
  crashes,          \* stops so far
  lost              \* heights that could not be written so far

blockVars == <<processed, saved, chain, block, next, half>>
childVars == <<read, inbox>>
checkVars == <<last, records, conf, txs>>
pastVars  == <<applied, clamped, aborted>>
faultVars == <<rewound, crashes, lost>>
vars == <<coming, blockVars, status, genesis, msgs, balance, checkVars, txn, proposals,
          childVars, pastVars, faultVars>>

None  == -1
NoTxn == [open |-> FALSE]

Holdings  == Subnets \X Tokens \X Subnets
Positions == (1..MaxBlocks) \X (1..MaxBlock)
Messages  == [kind : {"prefund", "fund", "bootstrap", "mark", "checkpoint", "batch"},
              subnet : Subnets, amount : Nat, tx : 0..MaxProposals]

\* RootnetMessage.
Rootnet == [nonce : Nat, height : Nat, txid : Positions, body : Records]

Mailboxes == [Subnets -> UNION {[N -> Rootnet] : N \in SUBSET Nat}]

TypeOK ==
  /\ processed \in 0..MaxBlocks /\ saved \in 0..processed
  /\ \A h \in 1..MaxBlocks : chain[h] \in Seq(Messages) /\ Len(chain[h]) <= MaxBlock
  /\ block \in Seq(Messages) /\ Len(block) <= MaxBlock
  /\ next \in 0..(Len(block) + 1)
  /\ half \in BOOLEAN
  /\ status \in [Subnets -> {"genesis", "active", "marked", "killed"}]
  /\ \A s \in Subnets : \A i \in DOMAIN genesis[s] : genesis[s][i] \in Nat
  /\ \A s \in Subnets : \A n \in DOMAIN msgs[s] : n \in Nat /\ msgs[s][n] \in Rootnet
  /\ balance \in [Holdings -> 0..MaxToken]
  /\ \A s \in Subnets : last[s] \in Nat \cup {None}
  /\ conf \in [Subnets -> Nat]
  /\ txs \subseteq 1..Len(proposals)
  /\ txn.open => txn.balance \in [Holdings -> 0..MaxToken]
  /\ Len(proposals) <= MaxProposals
  /\ read \in [Subnets -> 0..MaxBlocks]
  /\ crashes \in 0..MaxCrashes /\ lost \in 0..MaxLost

Init ==
  /\ coming \in Payments
  /\ processed = 0 /\ saved = 0 /\ block = <<>> /\ next = 0 /\ half = FALSE
  /\ chain = [h \in 1..MaxBlocks |-> <<>>]
  /\ status = [s \in Subnets |-> IF s \in Bootstrapped THEN "active" ELSE "genesis"]
  /\ genesis = [s \in Subnets |-> <<>>]
  /\ msgs = [s \in Subnets |-> <<>>]
  /\ balance = [h \in Holdings |-> 0]
  /\ last = [s \in Subnets |-> None]
  /\ records = [s \in Subnets |-> <<>>]
  /\ conf = [s \in Subnets |-> 0]
  /\ txs = {} /\ txn = NoTxn /\ proposals = <<>>
  /\ read = [s \in Subnets |-> 0] /\ inbox = [s \in Subnets |-> <<>>]
  /\ applied = <<>> /\ clamped = FALSE /\ aborted = FALSE
  /\ rewound = FALSE /\ crashes = 0 /\ lost = 0

Height == processed + 1
Txid   == <<Height, next>>

\* get_all_subnets: the subnets that have a state, killed ones included.
Known == {s \in Subnets : status[s] # "genesis"}

----------------------------------------------------------------------------
(* Batches.                                                                *)

Only(b, op) == Picked(b, {i \in DOMAIN b : b[i].op = op})

\* IpcBatchTransferMsg::from_tx: native transfers to a subnet that is not
\* known are dropped.
Parsed(b) == Picked(b, {i \in DOMAIN b : b[i].op = "fund" => b[i].dest \in Known})

\* A mutant of InOrder: burns are written before mints.
InOrderBurnsFirst(b) ==
  Only(b, "fund") \o Only(b, "register") \o Only(b, "burn") \o Only(b, "mint") \o Only(b, "send")

\* The order in which save_to_db writes the records of a batch.
InOrder(b) ==
  Only(b, "fund") \o Only(b, "register") \o Only(b, "mint") \o Only(b, "burn") \o Only(b, "send")

\* What the records of one kind of b amount to for a token.
Total(b, op, home, token) ==
  SumFunctionOnSet([i \in DOMAIN b |-> b[i].amount],
                   {i \in DOMAIN b : b[i].op = op /\ b[i].home = home /\ b[i].token = token})

Registers(b, token) == {i \in DOMAIN b : b[i].op = "register" /\ b[i].token = token}

\* A mutant of AtMost: additions of amounts are not saturated.
AtMostUnclamped(n) == n

\* U256::saturating_add, and the clamp of a credit.
AtMost(n) == Min({n, MaxToken})

\* The running balance of validate_erc_batch_data after registrations and mints.
Supplied(s, b, home, token) ==
  AtMost(Total(b, "mint", home, token)
         + (IF home = s /\ Registers(b, token) # {} THEN Total(b, "register", s, token)
                                                    ELSE balance[<<home, token, s>>]))

\* validate_erc_batch_data.  The running balance of a token only grows, then
\* only falls, so it is never exceeded if its debits together do not exceed it.
ValidateErcBatchData(s, b) ==
  /\ \A t \in Tokens : Cardinality(Registers(b, t)) <= 1
  /\ \A t \in Tokens : Registers(b, t) # {} => balance[<<s, t, s>>] = 0
  /\ \A i \in DOMAIN b : b[i].op = "send" => b[i].amount > 0
  /\ \A home \in Subnets, t \in Tokens :
       Total(b, "burn", home, t) + Total(b, "send", home, t) <= Supplied(s, b, home, t)

----------------------------------------------------------------------------
(* The providers and Bitcoin.                                              *)

\* from_checkpoint_tx and validate of the message it reads: a checkpoint has
\* an output for the batch, if it has one, and one per subnet its native
\* transfers go to, and perhaps change; the reader expects one per transfer
\* and takes an output too many for change, which a kill may not have.
\* (Withdrawals and unstakes have as many outputs as the reader expects.)
Readable(b, kill, change) ==
  LET funds    == Only(b, "fund")
      counted  == Min({Len(funds), MaxCount})
      outputs  == (IF b = <<>> THEN 0 ELSE 1) + Cardinality({funds[i].dest : i \in DOMAIN funds})
                  + (IF change THEN 1 ELSE 0)
      expected == IF counted = 0 THEN 0 ELSE counted + 1
  IN  /\ outputs >= expected
      /\ kill => outputs = expected

\* The configuration numbers of a subnet grow: a checkpoint that names one of
\* before the committee in force.
Outrun(s, c) == c # 0 /\ c < conf[s]

\* gen_checkpoint_psbt and finalize_checkpoint_psbt, as far as the batch goes.
\* base is history: what had taken effect when the provider looked.
Propose(s, b, c) ==
  /\ Len(proposals) < MaxProposals
  /\ status[s] \in {"active", "marked"}
  /\ \A i \in DOMAIN b : b[i].op = "fund" => b[i].dest \in Known
  /\ ValidateErcBatchData(s, b)
  /\ \E kill, change \in BOOLEAN :
       /\ IF kill THEN status[s] = "marked" ELSE ~Outrun(s, c)
       /\ proposals' = Append(proposals,
            [subnet |-> s, batch |-> b, conf |-> c, kill |-> kill, stage |-> "sent",
             readable |-> Readable(b, kill, change), base |-> Len(applied)])
  /\ UNCHANGED <<coming, blockVars, status, genesis, msgs, balance, checkVars, txn, childVars,
                 pastVars, faultVars>>

Mined(m) ==
  /\ next = 0 /\ processed < MaxBlocks /\ Len(block) < MaxBlock
  /\ block' = Append(block, m)
  /\ chain' = [chain EXCEPT ![Height] = block']
  /\ UNCHANGED <<processed, saved, next, half, status, genesis, msgs, balance, checkVars, txn,
                 childVars, pastVars, faultVars>>

\* A message of a user or of the validators is mined.
MineMessage ==
  /\ coming # <<>>
  /\ Mined(Head(coming))
  /\ coming' = Tail(coming)
  /\ UNCHANGED proposals

\* A checkpoint transaction is mined, or the reveal of its batch after it.
MineProposal(i) ==
  LET p == proposals[i]
      kind == IF p.stage = "sent" THEN "checkpoint" ELSE "batch"
  IN  /\ p.stage = "sent" \/ (p.stage = "committed" /\ p.batch # <<>>)
      /\ Mined([kind |-> kind, subnet |-> p.subnet, amount |-> 0, tx |-> i])
      /\ proposals' = [proposals EXCEPT ![i].stage =
                         IF p.stage = "sent" THEN "committed" ELSE "revealed"]
      /\ UNCHANGED coming

\* The block is confirmed and the monitor starts on it.
StartBlock ==
  /\ next = 0 /\ block # <<>>
  /\ next' = 1
  /\ UNCHANGED <<coming, processed, saved, chain, block, half, status, genesis, msgs, balance, checkVars, txn,
                 proposals, childVars, pastVars, faultVars>>

----------------------------------------------------------------------------
(* The handlers of the monitor.                                            *)

\* The message at hand, when the previous one is finished.
Handling(kind) ==
  /\ next \in 1..Len(block) /\ ~half /\ ~txn.open
  /\ block[next].kind = kind

Took(effect) == applied' = Append(applied, effect)

Effect(m, b) == [txid |-> Txid, kind |-> m.kind, subnet |-> m.subnet, amount |-> m.amount,
                 batch |-> b, known |-> Known]

\* Mutants of NextNonce: numbering starts at one; the last nonce is given
\* out again.
NextNonceFromOne(box) == Cardinality(DOMAIN box) + 1

NextNonceLast(box) == IF DOMAIN box = {} THEN 0 ELSE Cardinality(DOMAIN box) - 1

\* get_next_rootnet_msg_nonce: the number of messages stored for the subnet.
NextNonce(box) == Cardinality(DOMAIN box)

\* A mutant of Post: the nonce is read outside the write transaction.
PostCommitted(boxes, d, body) ==
  LET n == NextNonce(msgs[d])
      m == [nonce |-> n, height |-> Height, txid |-> Txid, body |-> body]
  IN  [boxes EXCEPT ![d] = [k \in DOMAIN boxes[d] \cup {n} |-> IF k = n THEN m ELSE boxes[d][k]]]

\* add_rootnet_msg puts the message under its nonce.
Post(boxes, d, body) ==
  LET n == NextNonce(boxes[d])
      m == [nonce |-> n, height |-> Height, txid |-> Txid, body |-> body]
  IN  [boxes EXCEPT ![d] = [k \in DOMAIN boxes[d] \cup {n} |-> IF k = n THEN m ELSE boxes[d][k]]]

FundRecord(s, amount) ==
  [op |-> "fund", home |-> s, token |-> NoToken, amount |-> amount, dest |-> s]

HandlePrefund ==
  /\ Handling("prefund")
  /\ LET m == block[next]
     IN  /\ status[m.subnet] = "genesis"
         /\ genesis' = [genesis EXCEPT ![m.subnet] = Append(@, m.amount)]
         /\ Took(Effect(m, <<>>))
  /\ next' = next + 1
  /\ UNCHANGED <<coming, processed, saved, chain, block, half, status, msgs, balance, checkVars, txn, proposals,
                 childVars, clamped, aborted, faultVars>>

HandleFund ==
  /\ Handling("fund")
  /\ LET m == block[next]
     IN  /\ status[m.subnet] = "active"
         /\ msgs' = Post(msgs, m.subnet, FundRecord(m.subnet, m.amount))
         /\ Took(Effect(m, <<>>))
  /\ next' = next + 1
  /\ UNCHANGED <<coming, processed, saved, chain, block, half, status, genesis, balance, checkVars, txn, proposals,
                 childVars, clamped, aborted, faultVars>>

\* The join that bootstraps the subnet, and the vote that marks it.
HandleStatus ==
  /\ Handling("bootstrap") \/ Handling("mark")
  /\ LET m == block[next]
         from == IF m.kind = "bootstrap" THEN "genesis" ELSE "active"
         to   == IF m.kind = "bootstrap" THEN "active" ELSE "marked"
     IN  /\ status[m.subnet] = from
         /\ status' = [status EXCEPT ![m.subnet] = to]
  /\ next' = next + 1
  /\ UNCHANGED <<coming, processed, saved, chain, block, half, genesis, msgs, balance, checkVars, txn, proposals,
                 childVars, pastVars, faultVars>>

\* The checks on a checkpoint: it reads as one, its subnet has a state, and the
\* committee it names is none that was left behind.
CheckpointValid(m) ==
  /\ proposals[m.tx].readable
  /\ m.subnet \in Known
  /\ ~Outrun(m.subnet, proposals[m.tx].conf)

\* IpcCheckpointSubnetMsg::save_to_db, the first of two write transactions.  A
\* committee with the same address leaves the number in force as it is.
HandleCheckpoint ==
  /\ Handling("checkpoint")
  /\ LET m == block[next]
         s == m.subnet
         n == last[s] + 1
         record == [tx |-> m.tx, batch |-> None]
         c == proposals[m.tx].conf
     IN  /\ CheckpointValid(m)
         /\ last' = [last EXCEPT ![s] = n]
         /\ records' = [records EXCEPT ![s] =
              [k \in DOMAIN @ \cup {n} |-> IF k = n THEN record ELSE @[k]]]
         /\ status' = [status EXCEPT ![s] = IF proposals[m.tx].kill THEN "killed" ELSE @]
         /\ \E named \in {conf[s], Max({c, conf[s]})} : conf' = [conf EXCEPT ![s] = named]
  /\ half' = TRUE
  /\ UNCHANGED <<coming, processed, saved, chain, block, next, genesis, msgs, balance, txs, txn,
                 proposals, childVars, pastVars, faultVars>>

\* A mutant of SaveTransaction: a checkpoint that is on record is complete.
SaveTransactionOnce ==
  /\ half
  /\ txs' = IF last[block[next].subnet] > 0 /\ crashes > 0 THEN txs ELSE txs \cup {block[next].tx}
  /\ half' = FALSE /\ next' = next + 1
  /\ UNCHANGED <<coming, processed, saved, chain, block, status, genesis, msgs, balance, last, records, conf, txn,
                 proposals, childVars, pastVars, faultVars>>

\* The second one: save_transaction.
SaveTransaction ==
  /\ half
  /\ txs' = txs \cup {block[next].tx}
  /\ half' = FALSE /\ next' = next + 1
  /\ UNCHANGED <<coming, processed, saved, chain, block, status, genesis, msgs, balance, last, records, conf, txn,
                 proposals, childVars, pastVars, faultVars>>

\* The checks on a batch: it parses to something, its checkpoint transaction
\* is kept (it still reads as one), there are as many native transfers as its
\* metadata counts, the source has a checkpoint on record, and the tokens are
\* there.
BatchValid(m) ==
  LET whole == proposals[m.tx].batch
      b == Parsed(whole)
  IN  /\ b # <<>>
      /\ m.tx \in txs
      /\ m.subnet \in Known
      /\ Len(Only(b, "fund")) = Min({Len(Only(whole, "fund")), MaxCount})
      /\ last[m.subnet] \in DOMAIN records[m.subnet]
      /\ ValidateErcBatchData(m.subnet, b)

BeginBatch ==
  /\ Handling("batch")
  /\ BatchValid(block[next])
  /\ txn' = [open |-> TRUE, todo |-> InOrder(Parsed(proposals[block[next].tx].batch)),
             msgs |-> msgs, balance |-> balance, clamped |-> FALSE]
  /\ UNCHANGED <<coming, blockVars, status, genesis, msgs, balance, checkVars, proposals, childVars,
                 pastVars, faultVars>>

\* A message that its handler refuses is logged and passed over.
Refused(m) ==
  \/ m.kind = "prefund" /\ status[m.subnet] # "genesis"
  \/ m.kind = "fund" /\ status[m.subnet] # "active"
  \/ m.kind = "bootstrap" /\ status[m.subnet] # "genesis"
  \/ m.kind = "mark" /\ status[m.subnet] # "active"
  \/ m.kind = "checkpoint" /\ ~CheckpointValid(m)
  \/ m.kind = "batch" /\ ~BatchValid(m)

Refuse ==
  /\ next \in 1..Len(block) /\ ~half /\ ~txn.open
  /\ Refused(block[next])
  /\ next' = next + 1
  /\ UNCHANGED <<coming, processed, saved, chain, block, half, status, genesis, msgs, balance, checkVars, txn,
                 proposals, childVars, pastVars, faultVars>>

----------------------------------------------------------------------------
(* The write transaction of a batch.                                       *)

Source == block[next].subnet

Write(boxes, bal, cut) ==
  txn' = [txn EXCEPT !.todo = Tail(@), !.msgs = boxes, !.balance = bal, !.clamped = @ \/ cut]

\* The function returns its error; the transaction is dropped with it.
Abort ==
  /\ txn' = NoTxn /\ aborted' = TRUE /\ next' = next + 1

Writing(op) == txn.open /\ txn.todo # <<>> /\ Head(txn.todo).op = op

restOfWrite == <<coming, processed, saved, chain, block, half, status, genesis, msgs, balance, checkVars, proposals,
                 childVars, applied, clamped, faultVars>>

WriteFund ==
  /\ Writing("fund")
  /\ Write(Post(txn.msgs, Head(txn.todo).dest, Head(txn.todo)), txn.balance, FALSE)
  /\ UNCHANGED <<next, aborted, restOfWrite>>

\* A mutant of FanOut: only the destinations of the batch hear of the token.
FanOutToDestinations == {d \in Known : \E i \in DOMAIN txn.todo :
                           txn.todo[i].op = "send" /\ txn.todo[i].dest = d /\ status[d] = "active"}

FanOut == Known \ {Source}

WriteRegistration ==
  /\ Writing("register")
  /\ LET r == Head(txn.todo)
     IN  Write([d \in Subnets |-> IF d \in FanOut THEN Post(txn.msgs, d, r)[d] ELSE txn.msgs[d]],
               [txn.balance EXCEPT ![<<Source, r.token, Source>>] = r.amount], FALSE)
  /\ UNCHANGED <<next, aborted, restOfWrite>>

WriteMint ==
  /\ Writing("mint")
  /\ LET r == Head(txn.todo)
         sum == txn.balance[<<Source, r.token, Source>>] + r.amount
     IN  Write(txn.msgs, [txn.balance EXCEPT ![<<Source, r.token, Source>>] = AtMost(sum)],
               sum > MaxToken)
  /\ UNCHANGED <<next, aborted, restOfWrite>>

WriteBurn ==
  /\ Writing("burn")
  /\ LET r == Head(txn.todo)
     IN  IF txn.balance[<<Source, r.token, Source>>] >= r.amount
         THEN /\ Write(txn.msgs, [txn.balance EXCEPT ![<<Source, r.token, Source>>] = @ - r.amount], FALSE)
              /\ UNCHANGED <<next, aborted>>
         ELSE Abort
  /\ UNCHANGED restOfWrite

\* A mutant of Moved: the destination's balance is read before the debit.
MovedStale(bal, r) ==
  [bal EXCEPT ![<<r.home, r.token, Source>>] = @ - r.amount,
              ![<<r.home, r.token, r.dest>>] = AtMost(bal[<<r.home, r.token, r.dest>>] + r.amount)]

\* Debit the source, then read and credit the destination.
Moved(bal, r) ==
  LET debited == [bal EXCEPT ![<<r.home, r.token, Source>>] = @ - r.amount]
  IN  [debited EXCEPT ![<<r.home, r.token, r.dest>>] = AtMost(@ + r.amount)]

WriteSend ==
  /\ Writing("send")
  /\ LET r == Head(txn.todo)
         b == txn.balance
     IN  IF b[<<r.home, r.token, Source>>] >= r.amount
         THEN /\ Write(Post(txn.msgs, r.dest, r), Moved(b, r),
                       r.dest # Source /\ b[<<r.home, r.token, r.dest>>] + r.amount > MaxToken)
              /\ UNCHANGED <<next, aborted>>
         ELSE Abort
  /\ UNCHANGED restOfWrite

\* commit.  The record of the last checkpoint, with the batch filled in, is
\* written under the number after it.
CommitBatch ==
  /\ txn.open /\ txn.todo = <<>>
  /\ LET m == block[next]
         n == last[m.subnet]
         record == [records[m.subnet][n] EXCEPT !.batch = m.tx]
     IN  /\ records' = [records EXCEPT ![m.subnet] =
              [k \in DOMAIN @ \cup {n + 1} |-> IF k = n + 1 THEN record ELSE @[k]]]
         /\ Took(Effect(m, InOrder(Parsed(proposals[m.tx].batch))))
  /\ msgs' = txn.msgs /\ balance' = txn.balance
  /\ clamped' = (clamped \/ txn.clamped)
  /\ txn' = NoTxn
  /\ next' = next + 1
  /\ UNCHANGED <<coming, processed, saved, chain, block, half, status, genesis, last, conf, txs, proposals, childVars,
                 aborted, faultVars>>

----------------------------------------------------------------------------
(* The end of a block, stops, and the children.                            *)

\* The block at height h, as far as it is mined.
AtHeight(h) == IF h \in DOMAIN chain THEN chain[h] ELSE <<>>

\* current_height and set_last_processed_block, whose failure sync only logs.
\* The next block may be confirmed already and handled again.
EndBlock ==
  /\ next = Len(block) + 1
  /\ processed' = Height
  /\ \/ saved' = Height /\ UNCHANGED lost
     \/ lost < MaxLost /\ lost' = lost + 1 /\ UNCHANGED saved
  /\ block' = AtHeight(Height + 1)
  /\ chain' = [h \in DOMAIN chain |-> IF h <= saved' THEN <<>> ELSE chain[h]]
  /\ next' = IF block' = <<>> THEN 0 ELSE 1
  /\ UNCHANGED <<coming, half, status, genesis, msgs, balance, checkVars, txn, proposals,
                 childVars, pastVars, rewound, crashes>>

\* The monitor stops, or an error ends it, and it starts again after the height
\* on record.
Crash ==
  /\ crashes < MaxCrashes
  /\ next > 0 \/ saved < processed
  /\ crashes' = crashes + 1
  /\ rewound' = (rewound \/ saved < processed)
  /\ processed' = saved
  /\ block' = AtHeight(saved + 1)
  /\ next' = 1 /\ half' = FALSE /\ txn' = NoTxn
  /\ UNCHANGED <<coming, saved, chain, status, genesis, msgs, balance, checkVars, proposals,
                 childVars, pastVars, lost>>

\* Keys end in the nonce as a decimal number without padding: of two numbers
\* the one whose digits come first is the smaller key.  For nonces of at most
\* two digits.
KeyBefore(m, n) ==
  LET padded(k) == IF k < Radix THEN k * Radix ELSE k
  IN  padded(m) < padded(n) \/ (padded(m) = padded(n) /\ m < n)

\* get_rootnet_msgs_by_height: a scan in the order of the keys.
MessagesAt(s, h) ==
  LET nonces == SelectSeq([i \in 1..Cardinality(DOMAIN msgs[s]) |-> i - 1],
                          LAMBDA n : msgs[s][n].height = h)
      keys   == SortSeq(nonces, KeyBefore)
  IN  [i \in DOMAIN keys |-> msgs[s][keys[i]]]

\* Mutants of ConfirmedHeight: the block being handled; the height in memory.
ConfirmedHeightEarly == IF next > 0 THEN processed + 1 ELSE processed

ConfirmedHeightMemory == processed

\* get_confirmed_block_height reads the height on record.
ConfirmedHeight == saved

\* A child asks for the messages of the next height the provider confirms.
ChildRead(s) ==
  /\ s \in Known
  /\ read[s] < ConfirmedHeight
  /\ read' = [read EXCEPT ![s] = @ + 1]
  /\ inbox' = [inbox EXCEPT ![s] = @ \o MessagesAt(s, read[s] + 1)]
  /\ UNCHANGED <<coming, blockVars, status, genesis, msgs, balance, checkVars, txn, proposals, pastVars,
                 faultVars>>

Bitcoin ==
  \/ MineMessage
  \/ \E i \in DOMAIN proposals : MineProposal(i)

Monitor ==
  \/ StartBlock \/ HandlePrefund \/ HandleFund \/ HandleStatus \/ HandleCheckpoint
  \/ SaveTransaction \/ BeginBatch \/ Refuse
  \/ WriteFund \/ WriteRegistration \/ WriteMint \/ WriteBurn \/ WriteSend \/ CommitBatch
  \/ EndBlock

Next ==
  \/ \E p \in Plans : Propose(p.subnet, p.batch, p.conf)
  \/ Bitcoin
  \/ Monitor
  \/ Crash
  \/ \E s \in Readers : ChildRead(s)

Spec == Init /\ [][Next]_vars

\* A step of Monitor, and a step of ChildRead, is possible.
MonitorBusy == next > 0 \/ block # <<>>

Behind(s) == s \in Known /\ read[s] < ConfirmedHeight

\* The monitor goes on after a stop, and the children keep asking.  This is weak
\* fairness of Monitor and of each ChildRead, in terms of what only they change
\* (stops aside, of which there are finitely many): TLC is quicker with it.
Fairness ==
  /\ <>[]MonitorBusy => []<><<TRUE>>_<<processed, next, half, txn>>
  /\ \A s \in Readers : <>[]Behind(s) => []<><<TRUE>>_<<read[s]>>

LiveSpec == Spec /\ Fairness

----------------------------------------------------------------------------
(* Properties.                                                             *)

\* The messages for a subnet, in the order of their nonces.
Log(s) == [i \in 1..Cardinality(DOMAIN msgs[s]) |-> msgs[s][i - 1]]

\* The nonces of a subnet's messages are 0, 1, 2 and so on without a gap, in
\* the database and in the open write transaction, and each message is stored
\* under its own nonce: counting messages gives a nonce that is free.
Dense(box) ==
  /\ DOMAIN box = 0..(Cardinality(DOMAIN box) - 1)
  /\ \A k \in DOMAIN box : box[k].nonce = k

NoncesDense ==
  \A s \in Subnets : Dense(msgs[s]) /\ (txn.open => Dense(txn.msgs[s]))

\* A rootnet message, once committed, is never changed or removed, whatever is
\* handled or repeated later: add_rootnet_msg puts without looking.
MessagesFinal ==
  [][\A s \in Subnets : \A n \in DOMAIN msgs[s] :
       n \in DOMAIN msgs'[s] /\ msgs'[s][n] = msgs[s][n]]_vars

\* What an applied message has to say to subnet d, in order.
Letters(e, d) ==
  IF e.kind = "fund"
  THEN IF e.subnet = d THEN <<FundRecord(d, e.amount)>> ELSE <<>>
  ELSE Picked(e.batch, {i \in DOMAIN e.batch :
         \/ e.batch[i].op \in {"fund", "send"} /\ e.batch[i].dest = d
         \/ e.batch[i].op = "register" /\ d \in e.known \ {e.subnet}})

\* The log of a subnet is what the applied messages have to say to it, one
\* after the other: no record of a batch is lost, overwritten, doubled or
\* taken out of order, and a batch a stop interrupted leaves nothing.
LogIsHistory ==
  \A d \in Subnets :
    [i \in DOMAIN Log(d) |-> [txid |-> Log(d)[i].txid, body |-> Log(d)[i].body]]
    = FlattenSeq([k \in DOMAIN applied |->
        [i \in DOMAIN Letters(applied[k], d) |->
           [txid |-> applied[k].txid, body |-> Letters(applied[k], d)[i]]]])

Held(home, token) ==
  SumFunctionOnSet([h \in Subnets |-> balance[<<home, token, h>>]], Subnets)

\* What the applied batches of a token's home brought into being, less burns.
Issued(home, token) ==
  SumFunctionOnSet([k \in DOMAIN applied |->
                      Total(applied[k].batch, "register", home, token)
                      + Total(applied[k].batch, "mint", home, token)
                      - Total(applied[k].batch, "burn", home, token)],
                   DOMAIN applied)

\* The balances of a token on all subnets add up to what its home issued and
\* did not burn; saturating mints and clamped credits only ever lose.
SupplyConserved ==
  \A home \in Subnets, token \in Tokens :
    /\ Held(home, token) <= Issued(home, token)
    /\ ~clamped => Held(home, token) = Issued(home, token)

\* The error paths of save_to_db that "should have been caught by
\* validate_erc_batch_data()" are: a batch that passed its validation is
\* written to the end.
ValidatedApplies == ~aborted

\* A subnet that was known when a token was registered has the token's
\* metadata in its log before the first transfer of the token.
MetadataFirst ==
  \A d \in Subnets : \A n \in DOMAIN msgs[d] :
    LET r == msgs[d][n].body
        registrations == {k \in DOMAIN applied :
          /\ applied[k].subnet = r.home /\ d \in applied[k].known \ {r.home}
          /\ Registers(applied[k].batch, r.token) # {}}
    IN  (r.op = "send" /\ registrations # {}) =>
          \/ \E k \in DOMAIN msgs[d] :
               /\ k < n
               /\ msgs[d][k].body.op = "register"
               /\ msgs[d][k].body.home = r.home /\ msgs[d][k].body.token = r.token
          \/ \A k \in registrations :
               \E j \in 1..(k - 1) : applied[j].txid = msgs[d][n].txid

\* A batch its provider validated is refused when it confirms, however late and
\* after however many stops and blocks handled again, only if another batch of
\* the same subnet took effect in between, if it registers a token, or if its
\* checkpoint was refused: as one that does not read as a checkpoint or counts
\* more transfers than the metadata can (claim_layout), or as one that came
\* after a rotation to a later configuration.  Credits from elsewhere and the
\* checkpoint's two separate commits never cost it its transfers.
RefusedOnlyIfStale ==
  [][LET m == block[next]
         p == proposals[m.tx]
     IN  (Refuse /\ m.kind = "batch") =>
           \/ \E k \in (p.base + 1)..Len(applied) :
                applied[k].kind = "batch" /\ applied[k].subnet = p.subnet
           \/ Only(p.batch, "register") # <<>>
           \/ ~p.readable \/ Len(Only(p.batch, "fund")) > MaxCount
           \/ m.tx \notin txs /\ Outrun(p.subnet, p.conf)]_vars

\* The queues are those of Inbox: append-only logs, and children that take
\* every message of a height once, in the order of their log as long as no
\* block was handled again after its height was lost.
Queue == INSTANCE Inbox WITH log <- [s \in Subnets |-> Log(s)], orderly <- ~rewound

ImplementsInbox == Queue!Spec

\* A child that is behind its log catches up with it: no message of a block
\* that was handled, stops and lost heights included, is left for ever.  (Until
\* a height that could not be written is made up for by a later one, the
\* provider does not confirm it.)
Received ==
  \A s \in Readers :
    (s \in Known /\ Len(inbox[s]) < Len(Log(s)))
      ~> (Len(inbox[s]) = Len(Log(s)) \/ saved < processed)

\* Messages of one height come in the order of their nonces, as the tests of
\* get_rootnet_msgs_by_height expect.
NonceOrder ==
  \A s \in Subnets : \A i, j \in DOMAIN inbox[s] :
    i < j => inbox[s][i].nonce < inbox[s][j].nonce

=============================================================================
