----------------------------- MODULE LedgerProofs -----------------------------
(***************************************************************************)
(* For every number of subnets, tokens, records, blocks, checkpoints and   *)
(* stops: the nonces of rootnet messages are dense and a committed message *)
(* is final; tokens are conserved; and a batch that was valid when it was  *)
(* generated is refused only because of its own subnet.                    *)
(*                                                                         *)
(* add_rootnet_msg counts the stored messages to find the next nonce and   *)
(* puts the new one without looking.  That overwrites nothing only if the  *)
(* messages are numbered from zero without a gap, in the database and in   *)
(* the open write transaction, and if what the transaction holds goes on   *)
(* from what the database holds: that is the inductive invariant.          *)
(***************************************************************************)
EXTENDS Ledger, AggregateProofs

\* The nonces of box are the first n numbers, for some n.
Numbered(box) ==
  \E n \in Nat : DOMAIN box = 0..(n - 1) /\ \A k \in DOMAIN box : box[k].nonce = k

Boxes(f) == f = [s \in Subnets |-> f[s]] /\ \A s \in Subnets : Numbered(f[s])

\* g has everything f has.
Keeps(f, g) ==
  \A s \in Subnets : \A k \in DOMAIN f[s] : k \in DOMAIN g[s] /\ g[s][k] = f[s][k]

\* The open write transaction, which goes on from the database.
OpenTxn ==
  /\ txn = [open |-> TRUE, todo |-> txn.todo, msgs |-> txn.msgs, balance |-> txn.balance,
            clamped |-> txn.clamped]
  /\ Boxes(txn.msgs)
  /\ Keeps(msgs, txn.msgs)

MessageInv == Boxes(msgs) /\ (txn = NoTxn \/ OpenTxn)

----------------------------------------------------------------------------
(* Counting the messages gives the next free nonce.                        *)

\* get_next_rootnet_msg_nonce, on a box that is numbered.
LEMMA CountIsNext ==
  ASSUME NEW box, Numbered(box)
  PROVE  /\ NextNonce(box) \in Nat
         /\ DOMAIN box = 0..(NextNonce(box) - 1)
         /\ \A k \in DOMAIN box : box[k].nonce = k
<1>1. PICK n \in Nat : DOMAIN box = 0..(n - 1) /\ \A k \in DOMAIN box : box[k].nonce = k
  BY DEF Numbered
<1>2. Cardinality(0..(n - 1)) = n
  BY FS_Interval
<1> QED
  BY <1>1, <1>2 DEF NextNonce

\* Putting a message under the next nonce keeps a box numbered and leaves
\* everything else in it alone.
LEMMA PutNext ==
  ASSUME NEW box, Numbered(box), NEW m, m.nonce = NextNonce(box)
  PROVE  LET n   == NextNonce(box)
             new == [k \in DOMAIN box \cup {n} |-> IF k = n THEN m ELSE box[k]]
         IN  /\ Numbered(new)
             /\ \A k \in DOMAIN box : k \in DOMAIN new /\ new[k] = box[k]
<1> DEFINE n   == NextNonce(box)
           new == [k \in DOMAIN box \cup {n} |-> IF k = n THEN m ELSE box[k]]
<1>1. n \in Nat /\ DOMAIN box = 0..(n - 1) /\ \A k \in DOMAIN box : box[k].nonce = k
  BY CountIsNext
<1> HIDE DEF n
<1>2. m.nonce = n
  BY DEF n
<1>3. DOMAIN new = 0..((n + 1) - 1)
  BY <1>1
<1>4. \A k \in DOMAIN new : new[k].nonce = k
  BY <1>1, <1>2
<1>5. \A k \in DOMAIN box : k \in DOMAIN new /\ new[k] = box[k]
  BY <1>1
<1>6. n + 1 \in Nat
  BY <1>1
<1>7. Numbered(new)
  BY <1>3, <1>4, <1>6 DEF Numbered
<1> QED
  BY <1>5, <1>7 DEF n

\* add_rootnet_msg for one subnet.
LEMMA PostKeeps ==
  ASSUME NEW f, Boxes(f), NEW d, NEW body
  PROVE  Boxes(Post(f, d, body)) /\ Keeps(f, Post(f, d, body))
<1> DEFINE n == NextNonce(f[d])
           m == [nonce |-> n, height |-> Height, txid |-> Txid, body |-> body]
           new == [k \in DOMAIN f[d] \cup {n} |-> IF k = n THEN m ELSE f[d][k]]
           g == [f EXCEPT ![d] = new]
<1>1. Post(f, d, body) = g
  BY DEF Post
<1>2. m.nonce = n
  OBVIOUS
<1>3. d \in Subnets =>
        Numbered(new) /\ \A k \in DOMAIN f[d] : k \in DOMAIN new /\ new[k] = f[d][k]
  <2> SUFFICES ASSUME d \in Subnets
               PROVE  Numbered(new) /\ \A k \in DOMAIN f[d] : k \in DOMAIN new /\ new[k] = f[d][k]
    OBVIOUS
  <2>1. Numbered(f[d])
    BY DEF Boxes
  <2> QED
    BY <1>2, <2>1, PutNext
<1> HIDE DEF new
<1>4. DOMAIN f = Subnets
  BY DEF Boxes
<1>5. g = [s \in Subnets |-> g[s]]
  BY <1>4
<1>6. \A s \in Subnets : g[s] = IF s = d THEN new ELSE f[s]
  BY <1>4
<1> HIDE DEF g
<1>7. Boxes(g)
  BY <1>3, <1>5, <1>6 DEF Boxes
<1>8. Keeps(f, g)
  BY <1>3, <1>6 DEF Keeps
<1> QED
  BY <1>1, <1>7, <1>8

\* A token registration posts the same record to every known subnet but one.
LEMMA FanOutKeeps ==
  ASSUME NEW f, Boxes(f), NEW S, NEW body
  PROVE  LET g == [d \in Subnets |-> IF d \in S THEN Post(f, d, body)[d] ELSE f[d]]
         IN  Boxes(g) /\ Keeps(f, g)
<1> DEFINE g == [d \in Subnets |-> IF d \in S THEN Post(f, d, body)[d] ELSE f[d]]
<1>1. \A d \in Subnets : Boxes(Post(f, d, body)) /\ Keeps(f, Post(f, d, body))
  BY PostKeeps
<1>2. \A d \in Subnets : Numbered(g[d])
  BY <1>1 DEF Boxes
<1>3. Boxes(g)
  BY <1>2 DEF Boxes
<1>4. Keeps(f, g)
  BY <1>1 DEF Keeps
<1> QED
  BY <1>3, <1>4

LEMMA KeepsItself ==
  ASSUME NEW f  PROVE Keeps(f, f)
  BY DEF Keeps

LEMMA KeepsOn ==
  ASSUME NEW f, NEW g, NEW h, Keeps(f, g), Keeps(g, h)
  PROVE  Keeps(f, h)
  BY DEF Keeps

----------------------------------------------------------------------------
(* The invariant.                                                          *)

LEMMA InitMessages == Init => MessageInv
<1> SUFFICES ASSUME Init PROVE MessageInv
  OBVIOUS
<1>1. Numbered(<<>>)
  <2>1. DOMAIN <<>> = 0..(0 - 1)
    OBVIOUS
  <2> QED
    BY <2>1 DEF Numbered
<1>2. Boxes(msgs)
  BY <1>1 DEF Init, Boxes
<1> QED
  BY <1>2 DEF Init, MessageInv

\* A record of the open transaction is written: the messages become boxes.
LEMMA WriteMessages ==
  ASSUME MessageInv, txn.open, NEW boxes, NEW bal, NEW cut, Write(boxes, bal, cut),
         Boxes(boxes), Keeps(txn.msgs, boxes), msgs' = msgs
  PROVE  MessageInv' /\ Keeps(msgs, msgs')
<1>1. OpenTxn
  BY DEF MessageInv, NoTxn
<1>2. txn' = [open |-> TRUE, todo |-> Tail(txn.todo), msgs |-> boxes, balance |-> bal,
              clamped |-> txn.clamped \/ cut]
  <2> DEFINE T == [open |-> TRUE, todo |-> txn.todo, msgs |-> txn.msgs,
                   balance |-> txn.balance, clamped |-> txn.clamped]
  <2>1. txn = T
    BY <1>1 DEF OpenTxn
  <2>2. txn' = [T EXCEPT !.todo = Tail(@), !.msgs = boxes, !.balance = bal, !.clamped = @ \/ cut]
    BY <2>1 DEF Write
  <2> QED
    BY <2>2
<1>3. Keeps(msgs, boxes)
  BY <1>1, KeepsOn DEF OpenTxn
<1>4. OpenTxn'
  BY <1>2, <1>3 DEF OpenTxn
<1>5. Boxes(msgs')
  BY DEF MessageInv
<1> QED
  BY <1>4, <1>5, KeepsItself DEF MessageInv

\* The transaction is dropped, by a stop or an error, or stays as it is.
LEMMA DropMessages ==
  ASSUME MessageInv, msgs' = msgs, txn' = NoTxn \/ txn' = txn
  PROVE  MessageInv' /\ Keeps(msgs, msgs')
<1>1. Boxes(msgs')
  BY DEF MessageInv
<1>2. Keeps(msgs, msgs')
  BY KeepsItself
<1>3. CASE txn' = NoTxn
  BY <1>1, <1>2, <1>3 DEF MessageInv
<1>4. CASE txn' = txn
  BY <1>1, <1>2, <1>4 DEF MessageInv, OpenTxn
<1> QED
  BY <1>3, <1>4

LEMMA StepMessages ==
  ASSUME MessageInv, [Next]_vars
  PROVE  MessageInv' /\ Keeps(msgs, msgs')
<1>1. CASE UNCHANGED vars
  BY <1>1, DropMessages DEF vars
<1>2. ASSUME NEW p \in Plans, Propose(p.subnet, p.batch, p.conf) PROVE MessageInv' /\ Keeps(msgs, msgs')
  BY <1>2, DropMessages DEF Propose
<1>3. CASE Bitcoin
  BY <1>3, DropMessages DEF Bitcoin, MineMessage, MineProposal, Mined
<1>4. CASE StartBlock \/ HandlePrefund \/ HandleStatus \/ HandleCheckpoint \/ SaveTransaction
           \/ Refuse \/ EndBlock
  BY <1>4, DropMessages
     DEF StartBlock, HandlePrefund, HandleStatus, HandleCheckpoint, SaveTransaction, Refuse, EndBlock
<1>5. CASE HandleFund
  <2>1. txn = NoTxn
    BY <1>5 DEF HandleFund, Handling, MessageInv, OpenTxn
  <2>2. Boxes(msgs') /\ Keeps(msgs, msgs')
    <3>1. Boxes(msgs)
      BY DEF MessageInv
    <3> QED
      BY <1>5, <3>1, PostKeeps DEF HandleFund
  <2> QED
    BY <1>5, <2>1, <2>2 DEF HandleFund, MessageInv
<1>6. CASE BeginBatch
  <2>1. Boxes(msgs) /\ msgs' = msgs
    BY <1>6 DEF BeginBatch, MessageInv
  <2>2. OpenTxn'
    BY <1>6, <2>1, KeepsItself DEF BeginBatch, OpenTxn
  <2> QED
    BY <2>1, <2>2, KeepsItself DEF MessageInv
<1>7. CASE WriteFund
  <2>1. txn.open /\ msgs' = msgs
    BY <1>7 DEF WriteFund, Writing, restOfWrite
  <2>2. Boxes(txn.msgs)
    BY <2>1 DEF MessageInv, OpenTxn, NoTxn
  <2>3. /\ Boxes(Post(txn.msgs, Head(txn.todo).dest, Head(txn.todo)))
        /\ Keeps(txn.msgs, Post(txn.msgs, Head(txn.todo).dest, Head(txn.todo)))
    BY <2>2, PostKeeps
  <2> QED
    BY <1>7, <2>1, <2>3, WriteMessages DEF WriteFund
<1>8. CASE WriteRegistration
  <2> DEFINE r == Head(txn.todo)
             g == [d \in Subnets |-> IF d \in FanOut THEN Post(txn.msgs, d, r)[d] ELSE txn.msgs[d]]
  <2>1. txn.open /\ msgs' = msgs
    BY <1>8 DEF WriteRegistration, Writing, restOfWrite
  <2>2. Boxes(txn.msgs)
    BY <2>1 DEF MessageInv, OpenTxn, NoTxn
  <2>3. Boxes(g) /\ Keeps(txn.msgs, g)
    BY <2>2, FanOutKeeps
  <2>4. Write(g, [txn.balance EXCEPT ![<<Source, r.token, Source>>] = r.amount], FALSE)
    BY <1>8 DEF WriteRegistration
  <2> HIDE DEF g
  <2> QED
    BY <2>1, <2>3, <2>4, WriteMessages
<1>9. CASE WriteMint
  <2>1. txn.open /\ msgs' = msgs
    BY <1>9 DEF WriteMint, Writing, restOfWrite
  <2>2. Boxes(txn.msgs) /\ Keeps(txn.msgs, txn.msgs)
    BY <2>1, KeepsItself DEF MessageInv, OpenTxn, NoTxn
  <2> QED
    BY <1>9, <2>1, <2>2, WriteMessages DEF WriteMint
<1>10. CASE WriteBurn
  <2>1. txn.open /\ msgs' = msgs
    BY <1>10 DEF WriteBurn, Writing, restOfWrite
  <2>2. Boxes(txn.msgs) /\ Keeps(txn.msgs, txn.msgs)
    BY <2>1, KeepsItself DEF MessageInv, OpenTxn, NoTxn
  <2>3. CASE Abort
    BY <2>1, <2>3, DropMessages DEF Abort
  <2>4. CASE ~Abort
    BY <1>10, <2>1, <2>2, <2>4, WriteMessages DEF WriteBurn
  <2> QED
    BY <2>3, <2>4
<1>11. CASE WriteSend
  <2> DEFINE r == Head(txn.todo)
  <2>1. txn.open /\ msgs' = msgs
    BY <1>11 DEF WriteSend, Writing, restOfWrite
  <2>2. Boxes(txn.msgs)
    BY <2>1 DEF MessageInv, OpenTxn, NoTxn
  <2>3. Boxes(Post(txn.msgs, r.dest, r)) /\ Keeps(txn.msgs, Post(txn.msgs, r.dest, r))
    BY <2>2, PostKeeps
  <2>4. CASE Abort
    BY <2>1, <2>4, DropMessages DEF Abort
  <2>5. CASE ~Abort
    BY <1>11, <2>1, <2>3, <2>5, WriteMessages DEF WriteSend
  <2> QED
    BY <2>4, <2>5
<1>12. CASE CommitBatch
  <2>1. OpenTxn /\ msgs' = txn.msgs /\ txn' = NoTxn
    BY <1>12 DEF CommitBatch, MessageInv, NoTxn
  <2> QED
    BY <2>1 DEF OpenTxn, MessageInv
<1>13. CASE Crash
  BY <1>13, DropMessages DEF Crash
<1>14. ASSUME NEW s \in Readers, ChildRead(s) PROVE MessageInv' /\ Keeps(msgs, msgs')
  BY <1>14, DropMessages DEF ChildRead
<1> QED
  BY <1>1, <1>2, <1>3, <1>4, <1>5, <1>6, <1>7, <1>8, <1>9, <1>10, <1>11, <1>12, <1>13, <1>14
     DEF Next, Monitor

\* The messages in the database and in the open transaction are numbered, and
\* the transaction goes on from the database.
THEOREM MessagesNumbered == Spec => []MessageInv
<1>1. MessageInv /\ [Next]_vars => MessageInv'
  BY StepMessages
<1> QED
  BY InitMessages, <1>1, PTL DEF Spec

\* NoncesDense: the rootnet messages of a subnet are numbered 0, 1, 2 and so on,
\* so get_next_rootnet_msg_nonce, which counts them, gives out a free nonce.
THEOREM Density == Spec => []NoncesDense
<1>1. MessageInv => NoncesDense
  <2> SUFFICES ASSUME MessageInv, NEW s \in Subnets
               PROVE  Dense(msgs[s]) /\ (txn.open => Dense(txn.msgs[s]))
    BY DEF NoncesDense
  <2>1. Dense(msgs[s])
    BY CountIsNext DEF MessageInv, Boxes, Dense, NextNonce
  <2>2. ASSUME txn.open PROVE Dense(txn.msgs[s])
    BY <2>2, CountIsNext DEF MessageInv, OpenTxn, NoTxn, Boxes, Dense, NextNonce
  <2> QED
    BY <2>1, <2>2
<1> QED
  BY <1>1, MessagesNumbered, PTL

\* MessagesFinal: a committed rootnet message is never changed or removed,
\* whatever is handled again after a stop.
THEOREM Finality == Spec => MessagesFinal
<1>1. MessageInv /\ [Next]_vars =>
        [\A s \in Subnets : \A n \in DOMAIN msgs[s] :
           n \in DOMAIN msgs'[s] /\ msgs'[s][n] = msgs[s][n]]_vars
  BY StepMessages DEF Keeps
<1> QED
  BY <1>1, MessagesNumbered, PTL DEF Spec, MessagesFinal

\* The half of ImplementsInbox that is about the monitor: the log of a subnet
\* only grows at its end, for batches of any size (what the children make of
\* it depends on the order of the database keys).
THEOREM LogGrows == Spec => [][\A s \in Subnets : IsPrefix(Log(s), Log(s)')]_vars
<1>1. ASSUME MessageInv, [Next]_vars, NEW s \in Subnets
      PROVE  IsPrefix(Log(s), Log(s)')
  <2> DEFINE n == NextNonce(msgs[s])
             k == NextNonce(msgs'[s])
             a == Log(s)
             b == [i \in 1..k |-> msgs'[s][i - 1]]
  <2>1. MessageInv' /\ Keeps(msgs, msgs')
    BY <1>1, StepMessages
  <2>2. n \in Nat /\ DOMAIN msgs[s] = 0..(n - 1)
    BY <1>1, CountIsNext DEF MessageInv, Boxes
  <2>3. k \in Nat /\ DOMAIN msgs'[s] = 0..(k - 1)
    BY <2>1, CountIsNext DEF MessageInv, Boxes
  <2>4. a = [i \in 1..n |-> msgs[s][i - 1]] /\ Log(s)' = b
    BY DEF Log, NextNonce
  <2>5. \A j \in 0..(n - 1) : j \in 0..(k - 1) /\ msgs'[s][j] = msgs[s][j]
    BY <2>1, <2>2, <2>3 DEF Keeps
  <2> HIDE DEF n, k
  <2>6. n <= k
    BY <2>2, <2>3, <2>5
  <2>7. \A i \in 1..n : a[i] = b[i]
    BY <2>2, <2>3, <2>4, <2>5, <2>6
  <2>8. Len(a) = n /\ Len(b) = k
    BY <2>2, <2>3, <2>4
  <2> HIDE DEF a, b
  <2>9. SubSeq(a, 1, n) = SubSeq(b, 1, n)
    BY <2>2, <2>7
  <2>10. IsPrefix(a, b)
    BY <2>6, <2>8, <2>9 DEF IsPrefix
  <2> QED
    BY <2>4, <2>10 DEF a
<1>2. MessageInv /\ [Next]_vars => [\A s \in Subnets : IsPrefix(Log(s), Log(s)')]_vars
  BY <1>1
<1> QED
  BY <1>2, MessagesNumbered, PTL DEF Spec
----------------------------------------------------------------------------
(***************************************************************************)
(* Balances: a batch of transfers that passed its validation is written to *)
(* the end, tokens are conserved, and the types hold.                      *)
(*                                                                         *)
(* validate_erc_batch_data sums up a batch as it was mined, save_to_db     *)
(* writes it record by record in another order.  The inductive invariant   *)
(* says that what is left of the batch would still pass the validation,    *)
(* with the balances written so far.                                       *)
(***************************************************************************)

Proposals == [subnet : Subnets, batch : Seq(Records), conf : Nat, kill : BOOLEAN,
              stage : {"sent", "committed", "revealed"}, readable : BOOLEAN, base : Nat]

\* A batch that a checkpoint may carry.
Planned(s, b) == \E p \in Plans : p.subnet = s /\ p.batch = b

\* A checkpoint or a batch of the block belongs to a proposal.
Placed(m) ==
  m.kind \in {"checkpoint", "batch"} =>
    m.tx \in DOMAIN proposals /\ m.subnet = proposals[m.tx].subnet

UserMessages == [kind : {"prefund", "fund", "bootstrap", "mark"},
                 subnet : Subnets, amount : Nat, tx : {0}]

\* What is mined, and what of it belongs to proposals.
BlockInv ==
  /\ coming \in Seq(UserMessages)
  /\ processed \in 0..MaxBlocks
  /\ block \in Seq(Messages) /\ Len(block) <= MaxBlock
  /\ block # <<>> => processed < MaxBlocks
  /\ \A i \in DOMAIN block : Placed(block[i])
  /\ proposals \in Seq(Proposals) /\ Len(proposals) <= MaxProposals
  /\ \A i \in DOMAIN proposals : Planned(proposals[i].subnet, proposals[i].batch)

\* The blocks that a stop may bring back: those after the height on record.  The
\* block at hand is one of them, the ones between are not empty, and when there
\* is nothing to handle there is nothing above it.
ChainInv ==
  /\ DOMAIN chain = 1..MaxBlocks
  /\ \A h \in 1..MaxBlocks :
       /\ chain[h] \in Seq(Messages) /\ Len(chain[h]) <= MaxBlock
       /\ \A i \in DOMAIN chain[h] : Placed(chain[h][i])
  /\ saved \in 0..processed
  /\ block = AtHeight(processed + 1)
  /\ \A h \in 1..MaxBlocks : saved < h /\ h <= processed => chain[h] # <<>>
  /\ \A g, h \in 1..MaxBlocks : processed < g /\ g < h /\ chain[h] # <<>> => chain[g] # <<>>
  /\ next = 0 => \A h \in 1..MaxBlocks : h > processed + 1 => chain[h] = <<>>

At(kind) == next \in DOMAIN block /\ block[next].kind = kind

\* The place of the monitor fits what it holds.
PlaceInv ==
  /\ next \in 0..(Len(block) + 1)
  /\ next > 0 => block # <<>>
  /\ half \in BOOLEAN
  /\ half => At("checkpoint")
  /\ txn = NoTxn \/ (txn.open /\ At("batch"))

Effects == [txid : Nat \X Nat, kind : {"prefund", "fund", "batch"}, subnet : Subnets,
            amount : Nat, batch : Seq(Records), known : SUBSET Subnets]

StateInv ==
  /\ status \in [Subnets -> {"genesis", "active", "marked", "killed"}]
  /\ genesis \in [Subnets -> Seq(Nat)]
  /\ last \in [Subnets -> Nat \cup {None}]
  /\ txs \subseteq DOMAIN proposals
  /\ conf \in [Subnets -> Nat]
  /\ read \in [Subnets -> 0..MaxBlocks]
  /\ crashes \in 0..MaxCrashes /\ lost \in 0..MaxLost
  /\ applied \in Seq(Effects)

LEMMA InitPlace == Init => BlockInv /\ ChainInv /\ PlaceInv /\ StateInv
<1> SUFFICES ASSUME Init PROVE BlockInv /\ ChainInv /\ PlaceInv /\ StateInv
  OBVIOUS
<1>1. BlockInv
  <2>1. coming \in Seq(UserMessages)
    BY LedgerConstants DEF Init, UserMessages
  <2>2. 0 \in 0..MaxBlocks /\ 0 <= MaxBlock /\ 0 <= MaxProposals
    BY LedgerConstants
  <2>3. processed = 0 /\ block = <<>> /\ proposals = <<>>
    BY DEF Init
  <2>4. <<>> \in Seq(Messages) /\ <<>> \in Seq(Proposals) /\ Len(<<>>) = 0 /\ DOMAIN <<>> = {}
    OBVIOUS
  <2> QED BY <2>1, <2>2, <2>3, <2>4 DEF BlockInv
<1>2. PlaceInv
  <2>1. next = 0 /\ block = <<>> /\ half = FALSE /\ txn = NoTxn
    BY DEF Init
  <2>2. next \in 0..(Len(block) + 1) /\ ~(next > 0)
    BY <2>1
  <2> QED BY <2>1, <2>2, Zenon DEF PlaceInv
<1>3. StateInv
  <2>1. 0 \in 0..MaxBlocks /\ 0 \in 0..MaxCrashes /\ 0 \in 0..MaxLost
    BY LedgerConstants
  <2>2. txs = {} /\ crashes = 0 /\ lost = 0 /\ applied = <<>> /\ last = [s \in Subnets |-> -1]
    BY DEF Init, None
  <2>3. genesis = [s \in Subnets |-> <<>>] /\ read = [s \in Subnets |-> 0]
        /\ conf = [s \in Subnets |-> 0]
    BY DEF Init
  <2>4. status \in [Subnets -> {"genesis", "active", "marked", "killed"}]
    BY DEF Init
  <2>5. genesis \in [Subnets -> Seq(Nat)] /\ applied \in Seq(Effects)
    BY <2>2, <2>3
  <2> QED BY <2>1, <2>2, <2>3, <2>4, <2>5 DEF StateInv, None
<1>4. ChainInv
  <2>1. /\ chain = [h \in 1..MaxBlocks |-> <<>>] /\ processed = 0 /\ saved = 0 /\ block = <<>>
    BY DEF Init
  <2>2. <<>> \in Seq(Messages) /\ Len(<<>>) = 0 /\ DOMAIN <<>> = {} /\ 0 <= MaxBlock
    BY LedgerConstants
  <2>3. \A h \in 1..MaxBlocks : chain[h] = <<>>
    BY <2>1
  <2>4. block = AtHeight(processed + 1)
    BY <2>1, <2>3 DEF AtHeight
  <2> QED BY <2>1, <2>2, <2>3, <2>4 DEF ChainInv
<1> QED BY <1>1, <1>2, <1>3, <1>4

\* A new proposal of plan p.
New(p, kill, readable) ==
  [subnet |-> p.subnet, batch |-> p.batch, conf |-> p.conf, kill |-> kill, stage |-> "sent",
   readable |-> readable, base |-> Len(applied)]

LEMMA ReadableBoolean ==
  ASSUME NEW b, NEW kill \in BOOLEAN, NEW change \in BOOLEAN
  PROVE  Readable(b, kill, change) \in BOOLEAN
BY Zenon DEF Readable

LEMMA ProposeNew ==
  ASSUME NEW p \in Plans, Propose(p.subnet, p.batch, p.conf)
  PROVE  \E kill, readable \in BOOLEAN : proposals' = Append(proposals, New(p, kill, readable))
<1>1. PICK kill \in BOOLEAN, change \in BOOLEAN :
        proposals' = Append(proposals,
          [subnet |-> p.subnet, batch |-> p.batch, conf |-> p.conf, kill |-> kill, stage |-> "sent",
           readable |-> Readable(p.batch, kill, change), base |-> Len(applied)])
  BY DEF Propose
<1> QED BY <1>1, ReadableBoolean DEF New

\* A proposal is added, with whatever the provider validated.
LEMMA ProposeBlock ==
  ASSUME BlockInv, StateInv, NEW p \in Plans, Propose(p.subnet, p.batch, p.conf)
  PROVE  BlockInv'
<1>1. PICK kill \in BOOLEAN, readable \in BOOLEAN :
        proposals' = Append(proposals, New(p, kill, readable))
  BY ProposeNew
<1> DEFINE q == New(p, kill, readable)
           n == Len(proposals)
<1>2. q \in Proposals /\ Planned(q.subnet, q.batch)
  BY LedgerConstants DEF New, Proposals, Planned, StateInv
<1>3. /\ proposals \in Seq(Proposals) /\ n \in Nat /\ n < MaxProposals
      /\ \A i \in DOMAIN proposals : Planned(proposals[i].subnet, proposals[i].batch)
  BY DEF BlockInv, Propose
<1> HIDE DEF q
<1>4. /\ proposals' \in Seq(Proposals) /\ Len(proposals') = n + 1
      /\ DOMAIN proposals = 1..n /\ DOMAIN proposals' = 1..(n + 1)
      /\ \A i \in 1..n : proposals'[i] = proposals[i]
      /\ proposals'[n + 1] = q
  BY <1>1, <1>2, <1>3 DEF q
<1> HIDE DEF n
<1>5. ASSUME NEW i \in DOMAIN proposals' PROVE Planned(proposals'[i].subnet, proposals'[i].batch)
  BY <1>2, <1>3, <1>4
<1>6. /\ coming' = coming /\ processed' = processed /\ block' = block
  BY DEF Propose, blockVars
<1>7. ASSUME NEW i \in DOMAIN block PROVE Placed(block[i])'
  <2>1. Placed(block[i])
    BY DEF BlockInv
  <2>2. block'[i] = block[i]
    BY <1>6
  <2> QED BY <1>3, <1>4, <1>6, <2>1, <2>2 DEF Placed
<1>8. n + 1 <= MaxProposals
  BY <1>3, LedgerConstants
<1>9. \A i \in DOMAIN block' : Placed(block[i])'
  BY <1>6, <1>7
<1> QED BY <1>3, <1>4, <1>5, <1>6, <1>8, <1>9 DEF BlockInv

\* A message is mined, and of the proposals at most a stage changes.
LEMMA MinedBlock ==
  ASSUME BlockInv, NEW m \in Messages, Mined(m), coming' \in Seq(UserMessages),
         proposals' \in Seq(Proposals), DOMAIN proposals' = DOMAIN proposals,
         \A i \in DOMAIN proposals : /\ proposals'[i].subnet = proposals[i].subnet
                                     /\ proposals'[i].batch = proposals[i].batch,
         Placed(m)
  PROVE  BlockInv'
<1>1. /\ block' = Append(block, m) /\ processed' = processed /\ processed < MaxBlocks
      /\ Len(block) < MaxBlock /\ block \in Seq(Messages) /\ processed \in 0..MaxBlocks
  BY DEF Mined, BlockInv
<1>2. /\ block' \in Seq(Messages) /\ Len(block') <= MaxBlock
      /\ \A i \in DOMAIN block' : (i \in DOMAIN block /\ block'[i] = block[i]) \/ block'[i] = m
  BY <1>1, LedgerConstants
<1>3. ASSUME NEW i \in DOMAIN block' PROVE Placed(block[i])'
  <2>1. Placed(block'[i])
    BY <1>2 DEF BlockInv
  <2> QED BY <2>1 DEF Placed
<1>4. Len(proposals') = Len(proposals) /\ Len(proposals) <= MaxProposals
  BY DEF BlockInv
<1>5. \A i \in DOMAIN proposals' : Planned(proposals'[i].subnet, proposals'[i].batch)
  BY DEF BlockInv
<1> QED BY <1>1, <1>2, <1>3, <1>4, <1>5 DEF BlockInv

LEMMA BitcoinBlock == ASSUME BlockInv, Bitcoin PROVE BlockInv'
<1>1. CASE MineMessage
  <2> DEFINE m == Head(coming)
  <2>1. coming \in Seq(UserMessages) /\ coming # <<>> /\ coming' = Tail(coming)
        /\ proposals' = proposals /\ Mined(m)
    BY <1>1 DEF MineMessage, BlockInv
  <2>2. m \in UserMessages /\ coming' \in Seq(UserMessages)
    BY <2>1
  <2> HIDE DEF m
  <2>3. m \in Messages /\ Placed(m)
    BY <2>2, LedgerConstants DEF UserMessages, Messages, Placed
  <2>4. proposals' \in Seq(Proposals)
    BY <2>1 DEF BlockInv
  <2> QED BY <2>1, <2>2, <2>3, <2>4, MinedBlock
<1>2. ASSUME NEW i \in DOMAIN proposals, MineProposal(i) PROVE BlockInv'
  <2> DEFINE p == proposals[i]
             stage == IF p.stage = "sent" THEN "committed" ELSE "revealed"
             m == [kind |-> IF p.stage = "sent" THEN "checkpoint" ELSE "batch",
                   subnet |-> p.subnet, amount |-> 0, tx |-> i]
  <2>1. /\ Mined(m) /\ coming' = coming
        /\ proposals' = [proposals EXCEPT ![i].stage = stage]
    BY <1>2 DEF MineProposal
  <2>2. /\ proposals \in Seq(Proposals) /\ p \in Proposals /\ i \in 1..Len(proposals)
        /\ Len(proposals) <= MaxProposals /\ coming \in Seq(UserMessages)
    BY <1>2 DEF BlockInv
  <2>3. m \in Messages /\ Placed(m)
    BY <2>2, LedgerConstants DEF Messages, Placed, Proposals
  <2> HIDE DEF m
  <2>4. [p EXCEPT !.stage = stage] \in Proposals
        /\ [p EXCEPT !.stage = stage].subnet = p.subnet
        /\ [p EXCEPT !.stage = stage].batch = p.batch
    BY <2>2 DEF Proposals
  <2>5. /\ proposals' \in Seq(Proposals) /\ DOMAIN proposals' = DOMAIN proposals
        /\ \A k \in DOMAIN proposals :
             proposals'[k] = IF k = i THEN [p EXCEPT !.stage = stage] ELSE proposals[k]
    BY <2>1, <2>2, <2>4
  <2> QED BY <2>1, <2>2, <2>3, <2>4, <2>5, MinedBlock
<1> QED BY <1>1, <1>2 DEF Bitcoin

\* A proposal is new, or only its stage changes.
Sends ==
  \E p \in Plans, k, r \in BOOLEAN :
    Propose(p.subnet, p.batch, p.conf) /\ proposals' = Append(proposals, New(p, k, r))

Same(p, q) ==
  /\ q.subnet = p.subnet /\ q.batch = p.batch /\ q.base = p.base
  /\ q.conf = p.conf /\ q.readable = p.readable

LEMMA Proposing ==
  ASSUME BlockInv, [Next]_vars
  PROVE  \/ Sends
         \/ /\ DOMAIN proposals' = DOMAIN proposals
            /\ \A i \in DOMAIN proposals : Same(proposals[i], proposals'[i])
<1>0. proposals \in Seq(Proposals)
  BY DEF BlockInv
<1>1. ASSUME proposals' = proposals
      PROVE  /\ DOMAIN proposals' = DOMAIN proposals
             /\ \A i \in DOMAIN proposals : Same(proposals[i], proposals'[i])
  BY <1>1 DEF Same
<1>2. CASE UNCHANGED vars
  BY <1>1, <1>2 DEF vars
<1>3. ASSUME NEW p \in Plans, Propose(p.subnet, p.batch, p.conf) PROVE Sends
  <2>1. \E k, r \in BOOLEAN : proposals' = Append(proposals, New(p, k, r))
    BY <1>3, ProposeNew
  <2> QED BY <1>3, <2>1, Zenon DEF Sends
<1>4. CASE MineMessage
  BY <1>1, <1>4 DEF MineMessage
<1>5. ASSUME NEW i \in DOMAIN proposals, MineProposal(i)
      PROVE  /\ DOMAIN proposals' = DOMAIN proposals
             /\ \A k \in DOMAIN proposals : Same(proposals[k], proposals'[k])
  <2> DEFINE stage == IF proposals[i].stage = "sent" THEN "committed" ELSE "revealed"
  <2>1. proposals' = [proposals EXCEPT ![i].stage = stage]
    BY <1>5 DEF MineProposal
  <2>2. proposals[i] \in Proposals
    BY <1>0, <1>5
  <2>3. Same(proposals[i], [proposals[i] EXCEPT !.stage = stage])
    BY <2>2 DEF Same, Proposals
  <2> HIDE DEF stage
  <2>4. \A k \in DOMAIN proposals :
          proposals'[k] = IF k = i THEN [proposals[i] EXCEPT !.stage = stage] ELSE proposals[k]
    BY <1>0, <2>1
  <2>5. DOMAIN proposals' = DOMAIN proposals
    BY <2>1
  <2> QED BY <2>3, <2>4, <2>5 DEF Same
<1>6. CASE StartBlock \/ HandlePrefund \/ HandleFund \/ HandleStatus \/ HandleCheckpoint
           \/ SaveTransaction \/ BeginBatch \/ Refuse \/ CommitBatch \/ EndBlock \/ Crash
  BY <1>1, <1>6 DEF StartBlock, HandlePrefund, HandleFund, HandleStatus, HandleCheckpoint,
     SaveTransaction, BeginBatch, Refuse, CommitBatch, EndBlock, Crash
<1>7. CASE WriteFund \/ WriteRegistration \/ WriteMint \/ WriteBurn \/ WriteSend
  BY <1>1, <1>7 DEF WriteFund, WriteRegistration, WriteMint, WriteBurn, WriteSend, restOfWrite
<1>8. ASSUME NEW s \in Readers, ChildRead(s) PROVE proposals' = proposals
  BY <1>8 DEF ChildRead
<1> QED BY <1>1, <1>2, <1>3, <1>4, <1>5, <1>6, <1>7, <1>8 DEF Next, Monitor, Bitcoin

LEMMA NewIs ==
  ASSUME BlockInv, StateInv, Sends
  PROVE  \E p \in Plans, k, r \in BOOLEAN :
           /\ Propose(p.subnet, p.batch, p.conf) /\ New(p, k, r) \in Proposals
           /\ DOMAIN proposals' = DOMAIN proposals \cup {Len(proposals) + 1}
           /\ \A i \in DOMAIN proposals : proposals'[i] = proposals[i]
           /\ proposals'[Len(proposals) + 1] = New(p, k, r)
           /\ Len(proposals) + 1 \notin DOMAIN proposals
<1>1. PICK p \in Plans, k \in BOOLEAN, r \in BOOLEAN :
        Propose(p.subnet, p.batch, p.conf) /\ proposals' = Append(proposals, New(p, k, r))
  BY DEF Sends
<1>2. proposals \in Seq(Proposals) /\ applied \in Seq(Effects)
  BY DEF BlockInv, StateInv
<1>3. New(p, k, r) \in Proposals
  BY <1>2, LedgerConstants DEF New, Proposals
<1>4. /\ DOMAIN proposals' = DOMAIN proposals \cup {Len(proposals) + 1}
      /\ \A i \in DOMAIN proposals : proposals'[i] = proposals[i]
      /\ proposals'[Len(proposals) + 1] = New(p, k, r)
      /\ Len(proposals) + 1 \notin DOMAIN proposals
  BY <1>1, <1>2
<1> QED BY <1>1, <1>3, <1>4

\* What is placed stays so.
LEMMA PlacedStays ==
  ASSUME BlockInv, StateInv, [Next]_vars, NEW m, Placed(m)
  PROVE  m.kind \in {"checkpoint", "batch"} =>
           m.tx \in DOMAIN proposals' /\ m.subnet = proposals'[m.tx].subnet
<1>1. \A i \in DOMAIN proposals : i \in DOMAIN proposals' /\ proposals'[i].subnet = proposals[i].subnet
  BY Proposing, NewIs DEF Same
<1> QED BY <1>1 DEF Placed

LEMMA StepBlock == ASSUME BlockInv, ChainInv, PlaceInv, StateInv, [Next]_vars PROVE BlockInv'
<1>1. ASSUME coming' = coming, processed' = processed, block' = block, proposals' = proposals
      PROVE  BlockInv'
  BY <1>1 DEF BlockInv, Placed
<1>2. CASE UNCHANGED vars
  BY <1>1, <1>2 DEF vars, blockVars
<1>3. ASSUME NEW p \in Plans, Propose(p.subnet, p.batch, p.conf) PROVE BlockInv'
  BY <1>3, ProposeBlock
<1>4. CASE Bitcoin
  BY <1>4, BitcoinBlock
<1>5. ASSUME coming' = coming, proposals' = proposals, NEW g \in Nat, processed' = g, g <= MaxBlocks,
             block' = AtHeight(g + 1)
      PROVE  BlockInv'
  <2>1. CASE g + 1 \in 1..MaxBlocks
    <3>1. block' = chain[g + 1]
      BY <1>5, <2>1 DEF AtHeight, ChainInv
    <3>2. /\ block' \in Seq(Messages) /\ Len(block') <= MaxBlock
          /\ \A i \in DOMAIN block' : Placed(block'[i])
      BY <2>1, <3>1 DEF ChainInv
    <3>3. \A i \in DOMAIN block' : Placed(block[i])'
      BY <1>5, <3>2 DEF Placed
    <3>4. processed' \in 0..MaxBlocks /\ processed' < MaxBlocks
      BY <1>5, <2>1, LedgerConstants
    <3> QED BY <1>5, <3>2, <3>3, <3>4 DEF BlockInv
  <2>2. CASE g + 1 \notin 1..MaxBlocks
    <3>1. block' = <<>>
      BY <1>5, <2>2 DEF AtHeight, ChainInv
    <3>2. <<>> \in Seq(Messages) /\ Len(<<>>) = 0 /\ DOMAIN <<>> = {} /\ 0 <= MaxBlock
      BY LedgerConstants
    <3>3. processed' \in 0..MaxBlocks
      BY <1>5, LedgerConstants
    <3> QED BY <1>5, <3>1, <3>2, <3>3 DEF BlockInv
  <2> QED BY <2>1, <2>2
<1>10. CASE EndBlock
  <2>1. /\ processed' = processed + 1 /\ block' = AtHeight(processed + 1 + 1) /\ coming' = coming
        /\ proposals' = proposals /\ next = Len(block) + 1
    BY <1>10 DEF EndBlock, Height
  <2>2. processed + 1 \in Nat /\ processed + 1 <= MaxBlocks
    <3>1. processed \in 0..MaxBlocks /\ processed < MaxBlocks
      BY <2>1 DEF PlaceInv, BlockInv
    <3> QED BY <3>1, LedgerConstants
  <2> QED BY <1>5, <2>1, <2>2
<1>6. CASE StartBlock \/ HandlePrefund \/ HandleFund \/ HandleStatus \/ HandleCheckpoint
           \/ SaveTransaction \/ BeginBatch \/ Refuse \/ CommitBatch
  BY <1>1, <1>6 DEF StartBlock, HandlePrefund, HandleFund, HandleStatus, HandleCheckpoint,
     SaveTransaction, BeginBatch, Refuse, CommitBatch, blockVars
<1>7. CASE WriteFund \/ WriteRegistration \/ WriteMint \/ WriteBurn \/ WriteSend
  BY <1>1, <1>7 DEF WriteFund, WriteRegistration, WriteMint, WriteBurn, WriteSend, restOfWrite
<1>8. CASE Crash
  <2>1. coming' = coming /\ proposals' = proposals /\ processed' = saved /\ block' = AtHeight(saved + 1)
    BY <1>8 DEF Crash
  <2>2. saved \in Nat /\ saved <= MaxBlocks
    <3>1. processed \in 0..MaxBlocks /\ saved \in 0..processed
      BY DEF BlockInv, ChainInv
    <3> QED BY <3>1, LedgerConstants
  <2> QED BY <1>5, <2>1, <2>2
<1>9. ASSUME NEW s \in Readers, ChildRead(s) PROVE BlockInv'
  BY <1>1, <1>9 DEF ChildRead, blockVars
<1> QED BY <1>2, <1>3, <1>4, <1>6, <1>7, <1>8, <1>9, <1>10 DEF Next, Monitor

\* A record of the open transaction is written.
Wrote(boxes, bal, cut) ==
  txn' = [open |-> TRUE, todo |-> Tail(txn.todo), msgs |-> boxes, balance |-> bal,
          clamped |-> txn.clamped \/ cut]

LEMMA WriteIs ==
  ASSUME MessageInv, txn.open, NEW boxes, NEW bal, NEW cut, Write(boxes, bal, cut)
  PROVE  Wrote(boxes, bal, cut)
<1> DEFINE T == [open |-> TRUE, todo |-> txn.todo, msgs |-> txn.msgs,
                 balance |-> txn.balance, clamped |-> txn.clamped]
<1>1. txn = T
  BY DEF MessageInv, NoTxn, OpenTxn
<1>2. txn' = [T EXCEPT !.todo = Tail(@), !.msgs = boxes, !.balance = bal, !.clamped = @ \/ cut]
  BY <1>1 DEF Write
<1> QED BY <1>2 DEF Wrote

\* The steps that write a record, told by what they do to the transaction.
WriteStep ==
  /\ txn.open /\ txn.todo # <<>>
  /\ block' = block /\ UNCHANGED restOfWrite
  /\ \/ Abort
     \/ /\ UNCHANGED <<next, aborted>>
        /\ \E boxes, bal, cut : Wrote(boxes, bal, cut)

LEMMA Writes ==
  ASSUME MessageInv, WriteFund \/ WriteRegistration \/ WriteMint \/ WriteBurn \/ WriteSend
  PROVE  WriteStep
<1>1. txn.open /\ txn.todo # <<>> /\ UNCHANGED restOfWrite
  BY DEF WriteFund, WriteRegistration, WriteMint, WriteBurn, WriteSend, Writing
<1>2. block' = block
  BY <1>1 DEF restOfWrite
<1>3. \/ Abort
      \/ UNCHANGED <<next, aborted>> /\ \E boxes, bal, cut : Write(boxes, bal, cut)
  BY Zenon DEF WriteFund, WriteRegistration, WriteMint, WriteBurn, WriteSend
<1> QED BY <1>1, <1>2, <1>3, WriteIs, Zenon DEF WriteStep

LEMMA ChainBlock == ASSUME ChainInv, NEW h PROVE Len(AtHeight(h)) \in Nat
<1>1. CASE h \in 1..MaxBlocks
  BY <1>1 DEF ChainInv, AtHeight
<1>2. CASE h \notin 1..MaxBlocks
  BY <1>2 DEF ChainInv, AtHeight
<1> QED BY <1>1, <1>2

LEMMA StepPlace ==
  ASSUME BlockInv, ChainInv, PlaceInv, MessageInv, [Next]_vars
  PROVE  PlaceInv'
<1>0. /\ block \in Seq(Messages) /\ Len(block) \in Nat /\ DOMAIN block = 1..Len(block)
      /\ next \in 0..(Len(block) + 1)
  BY DEF BlockInv, PlaceInv
\* Nothing is at hand.
<1>1. ASSUME block' = block, next' \in 0..(Len(block) + 1), next' > 0 => block # <<>>,
             half' = FALSE, txn' = NoTxn
      PROVE  PlaceInv'
  BY <1>1, Zenon DEF PlaceInv
<1>2. ASSUME block' = block, next' = next, half' = half, txn' = txn PROVE PlaceInv'
  BY <1>2, Zenon DEF PlaceInv, At
<1>3. CASE UNCHANGED vars
  BY <1>2, <1>3 DEF vars, blockVars
<1>4. ASSUME NEW p \in Plans, Propose(p.subnet, p.batch, p.conf) PROVE PlaceInv'
  BY <1>2, <1>4 DEF Propose, blockVars
<1>5. CASE Bitcoin
  <2>1. /\ next = 0 /\ next' = next /\ half' = half /\ txn' = txn
        /\ \E m : block' = Append(block, m)
    BY <1>5 DEF Bitcoin, MineMessage, MineProposal, Mined
  <2>2. ~half /\ half \in BOOLEAN /\ txn = NoTxn
    BY <1>0, <2>1 DEF PlaceInv, At
  <2>3. next' \in 0..(Len(block') + 1) /\ ~(next' > 0)
    BY <1>0, <2>1
  <2> QED BY <2>1, <2>2, <2>3, Zenon DEF PlaceInv
<1>6. CASE StartBlock
  <2>1. next = 0 /\ next' = 1 /\ block' = block /\ half' = half /\ txn' = txn /\ block # <<>>
    BY <1>6 DEF StartBlock
  <2>2. half' = FALSE /\ txn = NoTxn
    BY <1>0, <2>1 DEF PlaceInv, At
  <2>3. next' \in 0..(Len(block) + 1)
    BY <1>0, <2>1
  <2> QED BY <1>1, <2>1, <2>2, <2>3
<1>7. CASE HandlePrefund \/ HandleFund \/ HandleStatus \/ Refuse
  <2>1. next \in 1..Len(block) /\ ~half /\ ~txn.open
    BY <1>7 DEF HandlePrefund, HandleFund, HandleStatus, Refuse, Handling
  <2>2. next' = next + 1 /\ block' = block /\ half' = half /\ txn' = txn
    BY <1>7 DEF HandlePrefund, HandleFund, HandleStatus, Refuse
  <2>3. half' = FALSE /\ txn' = NoTxn
    BY <2>1, <2>2, Zenon DEF PlaceInv
  <2>4. next' \in 0..(Len(block) + 1) /\ block # <<>>
    BY <1>0, <2>1, <2>2
  <2> QED BY <1>1, <2>2, <2>3, <2>4
<1>8. CASE HandleCheckpoint
  <2>1. next \in 1..Len(block) /\ block[next].kind = "checkpoint" /\ ~txn.open
        /\ half' = TRUE /\ block' = block /\ next' = next /\ txn' = txn
    BY <1>8 DEF HandleCheckpoint, Handling
  <2>2. At("checkpoint") /\ txn = NoTxn
    BY <1>0, <2>1, Zenon DEF At, PlaceInv
  <2> QED BY <2>1, <2>2, Zenon DEF PlaceInv, At
<1>9. CASE SaveTransaction
  <2>1. half /\ half' = FALSE /\ next' = next + 1 /\ block' = block /\ txn' = txn
    BY <1>9 DEF SaveTransaction
  <2>2. next \in 1..Len(block) /\ block[next].kind = "checkpoint"
    BY <1>0, <2>1 DEF PlaceInv, At
  <2>3. ~At("batch")
    BY <2>2 DEF At
  <2>4. txn = NoTxn
    BY <2>3, Zenon DEF PlaceInv
  <2>5. next' \in 0..(Len(block) + 1) /\ block # <<>>
    BY <1>0, <2>1, <2>2
  <2> QED BY <1>1, <2>1, <2>4, <2>5
<1>10. CASE BeginBatch
  <2>1. /\ next \in 1..Len(block) /\ block[next].kind = "batch" /\ ~half
        /\ half' = half /\ block' = block /\ next' = next
    BY <1>10 DEF BeginBatch, Handling, blockVars
  <2>2. At("batch")
    BY <1>0, <2>1 DEF At
  <2>3. txn'.open
    BY <1>10 DEF BeginBatch
  <2> QED BY <2>1, <2>2, <2>3, Zenon DEF PlaceInv, At
<1>11. CASE WriteFund \/ WriteRegistration \/ WriteMint \/ WriteBurn \/ WriteSend
  <2>1. WriteStep
    BY <1>11, Writes
  <2>2. block' = block /\ half' = half /\ txn.open
    BY <2>1 DEF WriteStep, restOfWrite
  <2>3. At("batch")
    BY <2>2 DEF PlaceInv, NoTxn
  <2>4. half' = FALSE
    <3>1. ~At("checkpoint")
      BY <2>3 DEF At
    <3> QED BY <2>2, <3>1, Zenon DEF PlaceInv
  <2>5. CASE Abort
    <3>1. txn' = NoTxn /\ next' = next + 1
      BY <2>5 DEF Abort
    <3>2. next' \in 0..(Len(block) + 1) /\ block # <<>>
      BY <1>0, <2>3, <3>1 DEF At
    <3> QED BY <1>1, <2>2, <2>4, <3>1, <3>2
  <2>6. CASE UNCHANGED <<next, aborted>> /\ \E boxes, bal, cut : Wrote(boxes, bal, cut)
    <3>1. next' = next /\ txn'.open
      BY <2>6 DEF Wrote
    <3> QED BY <2>2, <2>3, <2>4, <3>1, Zenon DEF PlaceInv, At
  <2> QED BY <2>1, <2>5, <2>6 DEF WriteStep
<1>12. CASE CommitBatch
  <2>1. txn.open /\ txn' = NoTxn /\ next' = next + 1 /\ block' = block /\ half' = half
    BY <1>12 DEF CommitBatch
  <2>2. At("batch")
    BY <2>1 DEF PlaceInv, NoTxn
  <2>3. half' = FALSE
    <3>1. ~At("checkpoint")
      BY <2>2 DEF At
    <3> QED BY <2>1, <3>1, Zenon DEF PlaceInv
  <2>4. next' \in 0..(Len(block) + 1) /\ block # <<>>
    BY <1>0, <2>1, <2>2 DEF At
  <2> QED BY <1>1, <2>1, <2>3, <2>4
<1>13. CASE EndBlock
  <2>1. /\ next = Len(block) + 1 /\ next' = (IF block' = <<>> THEN 0 ELSE 1)
        /\ half' = half /\ txn' = txn
    BY <1>13 DEF EndBlock
  <2>2. ~At("checkpoint") /\ ~At("batch")
    BY <1>0, <2>1 DEF At
  <2>3. half' = FALSE /\ txn' = NoTxn
    BY <2>1, <2>2, Zenon DEF PlaceInv
  <2>4. /\ next' \in 0..(Len(block') + 1) /\ (next' > 0 => block' # <<>>)
    <3>1. Len(block') \in Nat
      BY <1>13, ChainBlock DEF EndBlock, Height
    <3> QED BY <2>1, <3>1
  <2> QED BY <2>3, <2>4, Zenon DEF PlaceInv
<1>14. CASE Crash
  <2>1. /\ next > 0 \/ saved < processed
        /\ next' = 1 /\ half' = FALSE /\ txn' = NoTxn /\ block' = AtHeight(saved + 1)
    BY <1>14 DEF Crash
  <2>2. block' # <<>>
    <3>1. CASE saved < processed
      <4>1. saved \in Nat /\ processed \in 0..MaxBlocks /\ saved \in 0..processed
        BY DEF BlockInv, ChainInv
      <4>2. saved + 1 \in 1..MaxBlocks /\ saved < saved + 1 /\ saved + 1 <= processed
        BY <3>1, <4>1, LedgerConstants
      <4> QED BY <2>1, <4>2 DEF ChainInv, AtHeight
    <3>2. CASE ~(saved < processed)
      <4>1. saved = processed
        BY <3>2 DEF BlockInv, ChainInv
      <4>2. block' = block
        BY <2>1, <4>1 DEF ChainInv
      <4> QED BY <2>1, <3>2, <4>2 DEF PlaceInv
    <3> QED BY <3>1, <3>2
  <2>3. next' \in 0..(Len(block') + 1)
    <3>1. Len(block') \in Nat
      BY <2>1, ChainBlock
    <3> QED BY <2>1, <3>1
  <2> QED BY <2>1, <2>2, <2>3, Zenon DEF PlaceInv
<1>15. ASSUME NEW s \in Readers, ChildRead(s) PROVE PlaceInv'
  BY <1>2, <1>15 DEF ChildRead, blockVars
<1> QED BY <1>3, <1>4, <1>5, <1>6, <1>7, <1>8, <1>9, <1>10, <1>11, <1>12, <1>13, <1>14, <1>15
     DEF Next, Monitor

\* Nothing of the chain moves but the message at hand.
LEMMA ChainSame ==
  ASSUME BlockInv, ChainInv, StateInv, [Next]_vars, chain' = chain, saved' = saved, block' = block,
         processed' = processed, next' = 0 => next = 0
  PROVE  ChainInv'
<1>1. ASSUME NEW h \in 1..MaxBlocks, NEW i \in DOMAIN chain[h] PROVE Placed(chain[h][i])'
  <2>1. PICK m : m = chain[h][i]
    OBVIOUS
  <2>2. Placed(m)
    BY <2>1 DEF ChainInv
  <2>3. m = chain'[h][i]
    BY <2>1
  <2>4. m.kind \in {"checkpoint", "batch"} => m.tx \in DOMAIN proposals' /\ m.subnet = proposals'[m.tx].subnet
    BY <2>2, PlacedStays
  <2> QED BY <2>3, <2>4 DEF Placed
<1>2. block' = AtHeight(processed + 1)'
  BY DEF ChainInv, AtHeight
<1>3. next' = 0 => \A h \in 1..MaxBlocks : h > processed + 1 => chain[h] = <<>>
  BY DEF ChainInv
<1> QED BY <1>1, <1>2, <1>3 DEF ChainInv

LEMMA ChainMined ==
  ASSUME BlockInv, BlockInv', ChainInv, PlaceInv, StateInv, [Next]_vars, NEW m, Mined(m)
  PROVE  ChainInv'
<1>1. /\ next = 0 /\ processed < MaxBlocks /\ next' = next /\ saved' = saved /\ processed' = processed
      /\ chain' = [chain EXCEPT ![processed + 1] = block']
  BY DEF Mined, Height
<1>2. PICK H : H = processed + 1
  OBVIOUS
<1>3. H \in 1..MaxBlocks /\ processed \in 0..MaxBlocks /\ H = processed' + 1
  BY <1>1, <1>2, LedgerConstants DEF BlockInv
<1>4. /\ DOMAIN chain = 1..MaxBlocks /\ saved \in 0..processed
      /\ \A h \in 1..MaxBlocks : saved < h /\ h <= processed => chain[h] # <<>>
      /\ \A h \in 1..MaxBlocks : h > H => chain[h] = <<>>
  BY <1>1, <1>2 DEF ChainInv
<1>5. /\ DOMAIN chain' = 1..MaxBlocks
      /\ \A h \in 1..MaxBlocks : chain'[h] = IF h = H THEN block' ELSE chain[h]
  BY <1>1, <1>2, <1>3, <1>4
<1>6. ASSUME NEW h \in 1..MaxBlocks
      PROVE  /\ chain'[h] \in Seq(Messages) /\ Len(chain'[h]) <= MaxBlock
             /\ \A i \in DOMAIN chain'[h] : Placed(chain[h][i])'
  <2>1. CASE h = H
    <3>1. chain'[h] = block'
      BY <1>5, <2>1
    <3>2. /\ block' \in Seq(Messages) /\ Len(block') <= MaxBlock
          /\ \A i \in DOMAIN block' : Placed(block[i])'
      BY DEF BlockInv
    <3> QED BY <3>1, <3>2 DEF Placed
  <2>2. CASE h # H
    <3>1. chain'[h] = chain[h] /\ chain[h] \in Seq(Messages) /\ Len(chain[h]) <= MaxBlock
      BY <1>5, <2>2 DEF ChainInv
    <3>2. ASSUME NEW i \in DOMAIN chain'[h] PROVE Placed(chain[h][i])'
      <4>1. PICK x : x = chain[h][i]
        OBVIOUS
      <4>2. Placed(x)
        BY <3>1, <3>2, <4>1 DEF ChainInv
      <4>3. x.kind \in {"checkpoint", "batch"} => x.tx \in DOMAIN proposals' /\ x.subnet = proposals'[x.tx].subnet
        BY <4>2, PlacedStays
      <4> QED BY <3>1, <4>1, <4>3 DEF Placed
    <3> QED BY <3>1, <3>2
  <2> QED BY <2>1, <2>2
<1>7. block' = AtHeight(processed + 1)'
  BY <1>3, <1>5 DEF AtHeight
<1>8. \A h \in 1..MaxBlocks : saved < h /\ h <= processed => chain'[h] # <<>>
  BY <1>2, <1>3, <1>4, <1>5
<1>9. \A h \in 1..MaxBlocks : h > processed + 1 => chain'[h] = <<>>
  BY <1>2, <1>3, <1>4, <1>5
<1>10. \A g, h \in 1..MaxBlocks : processed < g /\ g < h /\ chain'[h] # <<>> => chain'[g] # <<>>
  BY <1>3, <1>9
<1> QED BY <1>1, <1>4, <1>5, <1>6, <1>7, <1>8, <1>9, <1>10 DEF ChainInv

\* The block is over, and the height is written or not.
LEMMA ChainEnds ==
  ASSUME BlockInv, ChainInv, PlaceInv, StateInv, EndBlock
  PROVE  ChainInv'
<1>0. PICK H : H = processed + 1
  OBVIOUS
<1>1. /\ next = Len(block) + 1 /\ processed' = H /\ proposals' = proposals
      /\ saved' = H \/ saved' = saved
      /\ block' = AtHeight(H + 1)
      /\ chain' = [h \in DOMAIN chain |-> IF h <= saved' THEN <<>> ELSE chain[h]]
      /\ next' = IF block' = <<>> THEN 0 ELSE 1
  BY <1>0 DEF EndBlock, Height
<1>2. block # <<>>
  BY <1>1 DEF PlaceInv, BlockInv
<1>3. /\ H \in 1..MaxBlocks /\ processed \in 0..MaxBlocks /\ DOMAIN chain = 1..MaxBlocks
      /\ saved \in 0..processed /\ saved' \in 0..H /\ saved \in 0..saved'
  BY <1>0, <1>1, <1>2, LedgerConstants DEF BlockInv, ChainInv
<1>4. chain[H] # <<>>
  BY <1>0, <1>2, <1>3 DEF ChainInv, AtHeight
<1>5. /\ DOMAIN chain' = 1..MaxBlocks
      /\ \A h \in 1..MaxBlocks : chain'[h] = IF h <= saved' THEN <<>> ELSE chain[h]
  BY <1>1, <1>3
<1>6. ASSUME NEW h \in 1..MaxBlocks
      PROVE  /\ chain'[h] \in Seq(Messages) /\ Len(chain'[h]) <= MaxBlock
             /\ \A i \in DOMAIN chain'[h] : Placed(chain[h][i])'
  <2>1. CASE h <= saved'
    <3>1. chain'[h] = <<>>
      BY <1>5, <2>1
    <3>2. <<>> \in Seq(Messages) /\ Len(<<>>) = 0 /\ DOMAIN <<>> = {} /\ 0 <= MaxBlock
      BY LedgerConstants
    <3> QED BY <3>1, <3>2
  <2>2. CASE ~(h <= saved')
    <3>1. chain'[h] = chain[h]
      BY <1>5, <2>2
    <3>2. \A i \in DOMAIN chain[h] : Placed(chain[h][i])
      BY DEF ChainInv
    <3> QED BY <1>1, <3>1, <3>2 DEF ChainInv, Placed
  <2> QED BY <2>1, <2>2
<1>7. block' = AtHeight(processed + 1)'
  <2>1. H + 1 \in DOMAIN chain => ~(H + 1 <= saved')
    BY <1>3
  <2>2. H + 1 \in 1..MaxBlocks => chain'[H + 1] = chain[H + 1]
    BY <1>3, <1>5, <2>1
  <2>3. AtHeight(processed + 1)' = IF H + 1 \in DOMAIN chain' THEN chain'[H + 1] ELSE <<>>
    BY <1>1 DEF AtHeight
  <2> QED BY <1>1, <1>3, <1>5, <2>2, <2>3 DEF AtHeight
<1>8. \A h \in 1..MaxBlocks : saved' < h /\ h <= processed' => chain'[h] # <<>>
  <2> SUFFICES ASSUME NEW h \in 1..MaxBlocks, saved' < h, h <= H PROVE chain'[h] # <<>>
    BY <1>1
  <2>1. chain'[h] = chain[h]
    BY <1>3, <1>5
  <2>2. CASE h = H
    BY <1>4, <2>1, <2>2
  <2>3. CASE h # H
    <3>1. saved < h /\ h <= processed
      BY <1>0, <1>3, <2>3
    <3> QED BY <2>1, <3>1 DEF ChainInv
  <2> QED BY <2>2, <2>3
<1>9. \A g, h \in 1..MaxBlocks : processed' < g /\ g < h /\ chain'[h] # <<>> => chain'[g] # <<>>
  <2> SUFFICES ASSUME NEW g \in 1..MaxBlocks, NEW h \in 1..MaxBlocks, H < g, g < h, chain'[h] # <<>>
               PROVE  chain'[g] # <<>>
    BY <1>1
  <2>1. chain'[h] = chain[h] /\ chain'[g] = chain[g] /\ processed < g
    BY <1>0, <1>3, <1>5
  <2> QED BY <2>1 DEF ChainInv
<1>10. next' = 0 => \A h \in 1..MaxBlocks : h > processed' + 1 => chain'[h] = <<>>
  <2> SUFFICES ASSUME next' = 0, NEW h \in 1..MaxBlocks, h > H + 1 PROVE chain'[h] = <<>>
    BY <1>1
  <2>1. block' = <<>>
    BY <1>1
  <2>2. H + 1 \in 1..MaxBlocks /\ processed < H + 1 /\ H + 1 < h
    BY <1>0, <1>3, LedgerConstants
  <2>3. chain[H + 1] = <<>>
    BY <1>1, <1>3, <2>1, <2>2 DEF AtHeight
  <2>4. chain[h] = <<>>
    BY <2>2, <2>3 DEF ChainInv
  <2>5. chain'[h] = <<>> \/ chain'[h] = chain[h]
    BY <1>5
  <2> QED BY <2>4, <2>5
<1>11. saved' \in 0..processed'
  BY <1>1, <1>3
<1> QED BY <1>5, <1>6, <1>7, <1>8, <1>9, <1>10, <1>11 DEF ChainInv

LEMMA ChainStops ==
  ASSUME BlockInv, ChainInv, StateInv, Crash
  PROVE  ChainInv'
<1>1. /\ processed' = saved /\ saved' = saved /\ chain' = chain /\ proposals' = proposals
      /\ block' = AtHeight(saved + 1) /\ next' = 1
  BY DEF Crash
<1>2. saved \in 0..processed /\ processed \in Nat /\ DOMAIN chain = 1..MaxBlocks
  BY DEF ChainInv, BlockInv
<1>3. ASSUME NEW h \in 1..MaxBlocks
      PROVE  /\ chain'[h] \in Seq(Messages) /\ Len(chain'[h]) <= MaxBlock
             /\ \A i \in DOMAIN chain'[h] : Placed(chain[h][i])'
  BY <1>1 DEF ChainInv, Placed
<1>4. block' = AtHeight(processed + 1)'
  BY <1>1 DEF AtHeight
<1>5. \A g, h \in 1..MaxBlocks : saved < g /\ g < h /\ chain[h] # <<>> => chain[g] # <<>>
  <2> SUFFICES ASSUME NEW g \in 1..MaxBlocks, NEW h \in 1..MaxBlocks, saved < g, g < h, chain[h] # <<>>
               PROVE  chain[g] # <<>>
    OBVIOUS
  <2>1. CASE g <= processed
    BY <2>1 DEF ChainInv
  <2>2. CASE ~(g <= processed)
    <3>1. processed < g
      BY <1>2, <2>2
    <3> QED BY <3>1 DEF ChainInv
  <2> QED BY <2>1, <2>2
<1>6. saved' \in 0..processed' /\ \A h \in 1..MaxBlocks : ~(saved < h /\ h <= saved)
  BY <1>1, <1>2
<1>7. DOMAIN chain' = 1..MaxBlocks /\ next' # 0
  BY <1>1, <1>2
<1> QED BY <1>1, <1>3, <1>4, <1>5, <1>6, <1>7 DEF ChainInv

LEMMA StepChain ==
  ASSUME BlockInv, BlockInv', ChainInv, PlaceInv, StateInv, MessageInv, [Next]_vars
  PROVE  ChainInv'
<1>0. Len(block) \in Nat /\ next \in Nat
  BY DEF BlockInv, PlaceInv
<1>1. CASE UNCHANGED vars
  BY <1>1, ChainSame DEF vars, blockVars
<1>2. ASSUME NEW p \in Plans, Propose(p.subnet, p.batch, p.conf) PROVE ChainInv'
  BY <1>2, ChainSame DEF Propose, blockVars
<1>3. CASE Bitcoin
  BY <1>3, ChainMined DEF Bitcoin, MineMessage, MineProposal
<1>4. CASE StartBlock \/ HandlePrefund \/ HandleFund \/ HandleStatus \/ HandleCheckpoint
           \/ SaveTransaction \/ BeginBatch \/ Refuse \/ CommitBatch
  <2>1. chain' = chain /\ saved' = saved /\ block' = block /\ processed' = processed
    BY <1>4 DEF StartBlock, HandlePrefund, HandleFund, HandleStatus, HandleCheckpoint,
       SaveTransaction, BeginBatch, Refuse, CommitBatch, blockVars
  <2>2. next' = 1 \/ next' = next \/ next' = next + 1
    BY <1>4 DEF StartBlock, HandlePrefund, HandleFund, HandleStatus, HandleCheckpoint,
       SaveTransaction, BeginBatch, Refuse, CommitBatch, blockVars
  <2>3. next' = 0 => next = 0
    BY <1>0, <2>2
  <2> QED BY <2>1, <2>3, ChainSame
<1>5. CASE WriteFund \/ WriteRegistration \/ WriteMint \/ WriteBurn \/ WriteSend
  <2>1. WriteStep
    BY <1>5, Writes
  <2>2. chain' = chain /\ saved' = saved /\ block' = block /\ processed' = processed
    BY <2>1 DEF WriteStep, restOfWrite
  <2>3. next' = next \/ next' = next + 1
    BY <2>1 DEF WriteStep, Abort
  <2>4. next' = 0 => next = 0
    BY <1>0, <2>3
  <2> QED BY <2>2, <2>4, ChainSame
<1>6. CASE EndBlock
  BY <1>6, ChainEnds
<1>7. CASE Crash
  BY <1>7, ChainStops
<1>8. ASSUME NEW s \in Readers, ChildRead(s) PROVE ChainInv'
  BY <1>8, ChainSame DEF ChildRead, blockVars
<1> QED BY <1>1, <1>2, <1>3, <1>4, <1>5, <1>6, <1>7, <1>8 DEF Next, Monitor

----------------------------------------------------------------------------
(* The order in which the records of a batch are written.                  *)

\* A batch of subnet s.
BatchOK(s, b) ==
  /\ b \in Seq(Records)
  /\ \A i \in DOMAIN b :
       /\ b[i].op \in {"register", "mint", "burn"} => b[i].home = s
       /\ b[i].op # "fund" => b[i].token \in Tokens /\ b[i].amount <= MaxToken

LEMMA PlannedBatch ==
  ASSUME NEW s, NEW b, Planned(s, b)
  PROVE  BatchOK(s, b)
BY LedgerConstants DEF Planned, BatchOK

\* What is placed from a batch is one.
LEMMA PlacesBatch ==
  ASSUME NEW s, NEW b, BatchOK(s, b), NEW p \in Seq(Records), NEW K, K \subseteq DOMAIN b,
         \E m : Places(p, b, m, K)
  PROVE  BatchOK(s, p)
<1>1. PICK m : Places(p, b, m, K)
  OBVIOUS
<1>2. ASSUME NEW i \in DOMAIN p PROVE \E k \in DOMAIN b : p[i] = b[k]
  <2>1. i \in 1..Len(p)
    OBVIOUS
  <2> QED BY <1>1, <2>1 DEF Places
<1> QED BY <1>2 DEF BatchOK

LEMMA ParsedBatch ==
  ASSUME NEW s, NEW b, BatchOK(s, b)
  PROVE  BatchOK(s, Parsed(b))
<1> DEFINE K == {i \in DOMAIN b : b[i].op = "fund" => b[i].dest \in Known}
<1>1. b \in Seq(Records) /\ K \subseteq DOMAIN b
  BY DEF BatchOK
<1> HIDE DEF K
<1>2. Picked(b, K) \in Seq(Records) /\ \E m : Places(Picked(b, K), b, m, K)
  BY <1>1, PickedPlaces
<1>3. BatchOK(s, Picked(b, K))
  BY <1>1, <1>2, PlacesBatch
<1> QED BY <1>3 DEF Parsed, K

\* A record of kind y may come after one of kind x.
Turn(x, y) ==
  /\ y = "register" => x \in {"fund", "register"}
  /\ y = "mint" => x \in {"fund", "register", "mint"}

InTurn(t) == \A i, j \in DOMAIN t : i < j => Turn(t[i].op, t[j].op)

Kinds(t, S) == \A i \in DOMAIN t : t[i].op \in S

LEMMA OnlyIs ==
  ASSUME NEW b \in Seq(Records), NEW op
  PROVE  /\ Only(b, op) \in Seq(Records)
         /\ Kinds(Only(b, op), {op})
         /\ \E m : Places(Only(b, op), b, m, {i \in DOMAIN b : b[i].op = op})
<1> DEFINE K == {i \in DOMAIN b : b[i].op = op}
           p == Picked(b, K)
<1>1. K \subseteq DOMAIN b
  OBVIOUS
<1>2. p \in Seq(Records) /\ \E m : Places(p, b, m, K)
  <2> HIDE DEF K
  <2> QED BY <1>1, PickedPlaces
<1>3. PICK m : Places(p, b, m, K)
  BY <1>2
<1> HIDE DEF p
<1>4. ASSUME NEW i \in DOMAIN p PROVE p[i].op = op
  <2>1. i \in 1..Len(p)
    BY <1>2
  <2>2. m[i] \in K /\ p[i] = b[m[i]]
    BY <1>3, <2>1 DEF Places
  <2> QED BY <2>2
<1> QED BY <1>2, <1>4 DEF p, Only, Kinds

LEMMA ConcatKinds ==
  ASSUME NEW p \in Seq(Records), NEW q \in Seq(Records), NEW S, NEW T, Kinds(p, S), Kinds(q, T)
  PROVE  p \o q \in Seq(Records) /\ Kinds(p \o q, S \cup T)
<1>1. p \o q \in Seq(Records)
  OBVIOUS
<1>2. ASSUME NEW i \in DOMAIN (p \o q) PROVE (p \o q)[i].op \in S \cup T
  <2>1. i \in 1..(Len(p) + Len(q)) /\ Len(p) \in Nat /\ Len(q) \in Nat
    BY <1>1
  <2>2. (p \o q)[i] = IF i <= Len(p) THEN p[i] ELSE q[i - Len(p)]
    BY <2>1, ConcatProperties
  <2>3. CASE i <= Len(p)
    <3>1. i \in DOMAIN p
      BY <2>1, <2>3
    <3> QED BY <2>2, <2>3, <3>1 DEF Kinds
  <2>4. CASE ~(i <= Len(p))
    <3>1. i - Len(p) \in DOMAIN q
      BY <2>1, <2>4
    <3> QED BY <2>2, <2>4, <3>1 DEF Kinds
  <2> QED BY <2>3, <2>4
<1> QED BY <1>1, <1>2 DEF Kinds

LEMMA ConcatInTurn ==
  ASSUME NEW p \in Seq(Records), NEW q \in Seq(Records), InTurn(p), InTurn(q),
         \A i \in DOMAIN p, j \in DOMAIN q : Turn(p[i].op, q[j].op)
  PROVE  InTurn(p \o q)
<1> DEFINE a == Len(p)
           c == p \o q
<1>1. /\ a \in Nat /\ Len(q) \in Nat /\ DOMAIN c = 1..(a + Len(q))
      /\ \A k \in DOMAIN c : c[k] = IF k <= a THEN p[k] ELSE q[k - a]
      /\ DOMAIN p = 1..a /\ DOMAIN q = 1..Len(q)
  BY ConcatProperties
<1> SUFFICES ASSUME NEW i \in DOMAIN c, NEW j \in DOMAIN c, i < j PROVE Turn(c[i].op, c[j].op)
  BY DEF InTurn
<1> HIDE DEF a, c
<1>2. CASE j <= a
  <2>1. i <= a /\ i \in DOMAIN p /\ j \in DOMAIN p
    BY <1>1, <1>2
  <2>2. c[i] = p[i] /\ c[j] = p[j]
    BY <1>1, <1>2, <2>1
  <2> QED BY <2>1, <2>2 DEF InTurn
<1>3. CASE i <= a /\ ~(j <= a)
  <2>1. i \in DOMAIN p /\ j - a \in DOMAIN q
    BY <1>1, <1>3
  <2>2. c[i] = p[i] /\ c[j] = q[j - a]
    BY <1>1, <1>3
  <2> QED BY <2>1, <2>2
<1>4. CASE ~(i <= a) /\ ~(j <= a)
  <2>1. i - a \in DOMAIN q /\ j - a \in DOMAIN q /\ i - a < j - a
    BY <1>1, <1>4
  <2>2. c[i] = q[i - a] /\ c[j] = q[j - a]
    BY <1>1, <1>4
  <2> QED BY <2>1, <2>2 DEF InTurn
<1> QED BY <1>1, <1>2, <1>3, <1>4

\* InOrder writes every record of the batch once, and registrations and mints
\* before what spends them.
LEMMA InOrderIs ==
  ASSUME NEW b \in Seq(Records)
  PROVE  /\ InOrder(b) \in Seq(Records)
         /\ InTurn(InOrder(b))
         /\ \E m : Places(InOrder(b), b, m, DOMAIN b)
<1> DEFINE O(op) == Only(b, op)
           K(op) == {i \in DOMAIN b : b[i].op = op}
           p2 == O("fund") \o O("register")
           p3 == p2 \o O("mint")
           p4 == p3 \o O("burn")
           p5 == p4 \o O("send")
           k2 == K("fund") \cup K("register")
           k3 == k2 \cup K("mint")
           k4 == k3 \cup K("burn")
           k5 == k4 \cup K("send")
<1>1. ASSUME NEW op
      PROVE  /\ O(op) \in Seq(Records) /\ Kinds(O(op), {op}) /\ InTurn(O(op))
             /\ \E m : Places(O(op), b, m, K(op))
  <2>1. O(op) \in Seq(Records) /\ Kinds(O(op), {op}) /\ \E m : Places(O(op), b, m, K(op))
    BY OnlyIs
  <2> HIDE DEF O
  <2>2. \A j \in DOMAIN O(op) : O(op)[j].op = op
    BY <2>1 DEF Kinds
  <2>3. ASSUME NEW i \in DOMAIN O(op), NEW j \in DOMAIN O(op)
        PROVE  Turn(O(op)[i].op, O(op)[j].op)
    <3>1. O(op)[i].op = op /\ O(op)[j].op = op
      BY <2>2
    <3> QED BY <3>1 DEF Turn
  <2>4. InTurn(O(op))
    BY <2>3 DEF InTurn
  <2> QED BY <2>1, <2>4
<1>2. InOrder(b) = p5
  BY DEF InOrder
<1>3. /\ K("fund") \cap K("register") = {} /\ k2 \cap K("mint") = {}
      /\ k3 \cap K("burn") = {} /\ k4 \cap K("send") = {}
  OBVIOUS
<1>4. k5 = DOMAIN b
  <2>0. \A i \in DOMAIN b : b[i] \in Records
    OBVIOUS
  <2>1. \A i \in DOMAIN b : b[i].op \in {"fund", "register", "mint", "burn", "send"}
    BY <2>0 DEF Records, Operations
  <2> QED BY <2>1
<1> HIDE DEF O, K
<1>5. /\ p2 \in Seq(Records) /\ Kinds(p2, {"fund"} \cup {"register"}) /\ InTurn(p2)
      /\ \E m : Places(p2, b, m, k2)
  <2>1. p2 \in Seq(Records) /\ Kinds(p2, {"fund"} \cup {"register"})
    BY <1>1, ConcatKinds
  <2>2. \A i \in DOMAIN O("fund"), j \in DOMAIN O("register") :
          Turn(O("fund")[i].op, O("register")[j].op)
    BY <1>1 DEF Kinds, Turn
  <2>3. InTurn(p2)
    BY <1>1, <2>2, ConcatInTurn
  <2>4. \E m : Places(p2, b, m, k2)
    BY <1>1, <1>3, ConcatPlaces
  <2> QED BY <2>1, <2>3, <2>4
<1> HIDE DEF p2, k2
<1>6. /\ p3 \in Seq(Records) /\ Kinds(p3, ({"fund"} \cup {"register"}) \cup {"mint"}) /\ InTurn(p3)
      /\ \E m : Places(p3, b, m, k3)
  <2>1. p3 \in Seq(Records) /\ Kinds(p3, ({"fund"} \cup {"register"}) \cup {"mint"})
    BY <1>1, <1>5, ConcatKinds
  <2>2. \A i \in DOMAIN p2, j \in DOMAIN O("mint") : Turn(p2[i].op, O("mint")[j].op)
    BY <1>1, <1>5 DEF Kinds, Turn
  <2>3. InTurn(p3)
    BY <1>1, <1>5, <2>2, ConcatInTurn
  <2>4. \E m : Places(p3, b, m, k3)
    BY <1>1, <1>3, <1>5, ConcatPlaces
  <2> QED BY <2>1, <2>3, <2>4
<1> HIDE DEF p3, k3
<1>7. p4 \in Seq(Records) /\ InTurn(p4) /\ \E m : Places(p4, b, m, k4)
  <2>1. p4 \in Seq(Records)
    <3>1. p3 \in Seq(Records) /\ O("burn") \in Seq(Records)
      BY <1>1, <1>6
    <3> QED BY <3>1
  <2>2. \A i \in DOMAIN p3, j \in DOMAIN O("burn") : Turn(p3[i].op, O("burn")[j].op)
    <3>1. Kinds(O("burn"), {"burn"})
      BY <1>1
    <3>2. \A j \in DOMAIN O("burn") : O("burn")[j].op = "burn"
      BY <3>1 DEF Kinds
    <3> QED BY <3>2 DEF Turn
  <2>3. InTurn(p4)
    BY <1>1, <1>6, <2>2, ConcatInTurn
  <2>4. \E m : Places(p4, b, m, k4)
    BY <1>1, <1>3, <1>6, ConcatPlaces
  <2> QED BY <2>1, <2>3, <2>4
<1> HIDE DEF p4, k4
<1>8. p5 \in Seq(Records) /\ InTurn(p5) /\ \E m : Places(p5, b, m, k5)
  <2>1. p5 \in Seq(Records)
    <3>1. p4 \in Seq(Records) /\ O("send") \in Seq(Records)
      BY <1>1, <1>7
    <3> QED BY <3>1
  <2>2. \A i \in DOMAIN p4, j \in DOMAIN O("send") : Turn(p4[i].op, O("send")[j].op)
    <3>1. Kinds(O("send"), {"send"})
      BY <1>1
    <3>2. \A j \in DOMAIN O("send") : O("send")[j].op = "send"
      BY <3>1 DEF Kinds
    <3> QED BY <3>2 DEF Turn
  <2>3. InTurn(p5)
    BY <1>1, <1>7, <2>2, ConcatInTurn
  <2>4. \E m : Places(p5, b, m, k5)
    BY <1>1, <1>3, <1>7, ConcatPlaces
  <2> QED BY <2>1, <2>3, <2>4
<1> HIDE DEF p5, k5
<1> QED BY <1>2, <1>4, <1>8

----------------------------------------------------------------------------
(* What a batch amounts to.                                                *)

\* What one record adds to a total.
Worth(r, op, home, t) == IF r.op = op /\ r.home = home /\ r.token = t THEN r.amount ELSE 0

Weights(b, op, home, t) == [i \in DOMAIN b |-> Worth(b[i], op, home, t)]

LEMMA TotalIs ==
  ASSUME NEW b \in Seq(Records), NEW op, NEW home, NEW t
  PROVE  /\ Nats(Weights(b, op, home, t), 1..Len(b))
         /\ Total(b, op, home, t) = SumFunctionOnSet(Weights(b, op, home, t), 1..Len(b))
         /\ Total(b, op, home, t) \in Nat
<1> DEFINE W == Weights(b, op, home, t)
           A == [i \in DOMAIN b |-> b[i].amount]
           U == {i \in DOMAIN b : b[i].op = op /\ b[i].home = home /\ b[i].token = t}
           N == 1..Len(b)
<1>1. IsFiniteSet(N)
  BY FS_Interval
<1>2. DOMAIN b = N /\ U \subseteq N
  OBVIOUS
<1>3. \A i \in N : b[i].amount \in Nat
  <2>1. \A i \in N : b[i] \in Records
    OBVIOUS
  <2> QED BY <2>1 DEF Records
<1>4. Nats(W, N)
  BY <1>2, <1>3 DEF Nats, Weights, Worth
<1>5. \A i \in N \ U : W[i] = 0
  BY <1>2 DEF Weights, Worth
<1>6. \A i \in U : W[i] = A[i]
  BY <1>2 DEF Weights, Worth
<1>7. Total(b, op, home, t) = SumFunctionOnSet(A, U)
  BY DEF Total
<1> HIDE DEF W, A, U, N
<1>8. Ints(W, N) /\ Ints(W, U)
  BY <1>2, <1>4 DEF Nats, Ints
<1>9. SumFunctionOnSet(W, N) = SumFunctionOnSet(W, U)
  BY <1>1, <1>2, <1>5, <1>8, SumSupport
<1>10. IsFiniteSet(U) /\ \A i \in U : A[i] = W[i]
  BY <1>1, <1>2, <1>6, FS_Subset
<1>11. SumFunctionOnSet(A, U) = SumFunctionOnSet(W, U)
  BY <1>8, <1>10, SumSame
<1>12. SumFunctionOnSet(W, N) \in Nat
  BY <1>1, <1>4, SumNat
<1> QED BY <1>4, <1>7, <1>9, <1>11, <1>12 DEF W, N

LEMMA TotalEmpty ==
  ASSUME NEW op, NEW home, NEW t
  PROVE  Total(<<>>, op, home, t) = 0
<1> DEFINE f == Weights(<<>>, op, home, t)
<1>1. <<>> \in Seq(Records) /\ 1..Len(<<>>) = {}
  OBVIOUS
<1>2. Total(<<>>, op, home, t) = SumFunctionOnSet(f, 1..Len(<<>>))
  BY <1>1, TotalIs
<1>3. SumFunctionOnSet(f, {}) = 0
  BY SumEmpty
<1> QED BY <1>1, <1>2, <1>3, Zenon

LEMMA HeadTail ==
  ASSUME NEW b \in Seq(Records), b # <<>>
  PROVE  /\ Head(b) \in Records /\ Head(b) = b[1] /\ 1 \in DOMAIN b
         /\ Tail(b) \in Seq(Records)
         /\ \A i \in DOMAIN Tail(b) : i + 1 \in DOMAIN b /\ Tail(b)[i] = b[i + 1]
         /\ \A j \in DOMAIN b : j # 1 => j - 1 \in DOMAIN Tail(b) /\ Tail(b)[j - 1] = b[j]
OBVIOUS

\* The total of a batch is what its first record adds and the total of the rest.
LEMMA TotalStep ==
  ASSUME NEW b \in Seq(Records), b # <<>>, NEW op, NEW home, NEW t
  PROVE  Total(b, op, home, t) = Worth(Head(b), op, home, t) + Total(Tail(b), op, home, t)
<1> DEFINE f == Weights(b, op, home, t)
           c == Tail(b)
           g == Weights(c, op, home, t)
           n == Len(c)
<1>1. /\ c \in Seq(Records) /\ n \in Nat /\ Len(b) = n + 1 /\ Head(b) = b[1]
      /\ DOMAIN b = 1..(n + 1) /\ DOMAIN c = 1..n
      /\ \A i \in 1..n : c[i] = b[i + 1]
  OBVIOUS
<1>2. \A i \in 1..n : g[i] = f[i + 1]
  BY <1>1 DEF Weights
<1>3. f[1] = Worth(Head(b), op, home, t)
  BY <1>1 DEF Weights
<1>4. /\ Nats(f, 1..Len(b)) /\ Total(b, op, home, t) = SumFunctionOnSet(f, 1..Len(b))
  BY TotalIs
<1>5. Total(c, op, home, t) = SumFunctionOnSet(g, 1..n)
  BY <1>1, TotalIs
<1> HIDE DEF f, g, n, c
<1>6. Ints(f, 1..(n + 1))
  BY <1>1, <1>4 DEF Nats, Ints
<1>7. SumFunctionOnSet(f, 1..(n + 1)) = f[1] + SumFunctionOnSet(g, 1..n)
  BY <1>1, <1>2, <1>6, SumHead
<1> QED BY <1>1, <1>3, <1>4, <1>5, <1>7 DEF c

\* A kind of record that does not occur adds nothing.
LEMMA TotalNone ==
  ASSUME NEW b \in Seq(Records), NEW op, NEW home, NEW t,
         \A i \in DOMAIN b : ~(b[i].op = op /\ b[i].home = home /\ b[i].token = t)
  PROVE  Total(b, op, home, t) = 0
<1> DEFINE f == Weights(b, op, home, t)
           N == 1..Len(b)
<1>1. IsFiniteSet(N) /\ DOMAIN b = N
  BY FS_Interval
<1>2. \A i \in N : f[i] = 0
  BY <1>1 DEF Weights, Worth
<1>3. Total(b, op, home, t) = SumFunctionOnSet(f, N)
  BY TotalIs
<1> HIDE DEF f, N
<1> QED BY <1>1, <1>2, <1>3, SumZero

\* The same records in another order have the same total.
LEMMA TotalPlaced ==
  ASSUME NEW b \in Seq(Records), NEW p \in Seq(Records), NEW m, Places(p, b, m, DOMAIN b),
         NEW op, NEW home, NEW t
  PROVE  Total(p, op, home, t) = Total(b, op, home, t)
<1> DEFINE f == Weights(p, op, home, t)
           g == Weights(b, op, home, t)
           S == 1..Len(p)
           U == 1..Len(b)
<1>1. IsFiniteSet(S) /\ DOMAIN p = S /\ DOMAIN b = U
  BY FS_Interval
<1>2. /\ m \in [S -> U]
      /\ \A x, y \in S : m[x] = m[y] => x = y
      /\ \A z \in U : \E x \in S : m[x] = z
      /\ \A x \in S : p[x] = b[m[x]]
  BY <1>1 DEF Places
<1>3. \A x \in S : g[m[x]] = f[x]
  BY <1>1, <1>2 DEF Weights
<1>4. Nats(f, S) /\ Total(p, op, home, t) = SumFunctionOnSet(f, S)
  BY TotalIs
<1>5. Total(b, op, home, t) = SumFunctionOnSet(g, U)
  BY TotalIs
<1> HIDE DEF f, g, S, U
<1>6. Ints(f, S)
  BY <1>4 DEF Nats, Ints
<1> QED BY <1>1, <1>2, <1>3, <1>4, <1>5, <1>6, SumRenamed

----------------------------------------------------------------------------
(* What is left of a batch would still pass the validation.                *)

Balances == [Holdings -> 0..MaxToken]

OneEach(b) == \A t \in Tokens : \A i, j \in Registers(b, t) : i = j

\* The balance that the rest b of a batch of s starts to spend from.
Base(s, b, bal, home, t) ==
  IF home = s /\ Registers(b, t) # {} THEN Total(b, "register", s, t) ELSE bal[<<home, t, s>>]

Affords(s, b, bal, home, t) ==
  Total(b, "burn", home, t) + Total(b, "send", home, t)
    <= AtMost(Total(b, "mint", home, t) + Base(s, b, bal, home, t))

RestValid(s, b, bal) ==
  /\ OneEach(b)
  /\ \A t \in Tokens : Registers(b, t) # {} => bal[<<s, t, s>>] = 0
  /\ \A home \in Subnets, t \in Tokens : Affords(s, b, bal, home, t)

\* Saturation, for what is not negative.
LEMMA AtMostIs ==
  ASSUME NEW n \in Int
  PROVE  /\ AtMost(n) \in Int
         /\ AtMost(n) <= n /\ AtMost(n) <= MaxToken
         /\ n <= MaxToken => AtMost(n) = n
         /\ n > MaxToken => AtMost(n) = MaxToken
         /\ n >= 0 => AtMost(n) \in 0..MaxToken
<1>1. MaxToken \in Nat
  BY LedgerConstants
<1> DEFINE m == IF n <= MaxToken THEN n ELSE MaxToken
<1>2. m \in {n, MaxToken} /\ \A y \in {n, MaxToken} : m <= y
  BY <1>1
<1>3. \A x \in {n, MaxToken} : (\A y \in {n, MaxToken} : x <= y) => x = m
  BY <1>1
<1>4. AtMost(n) = CHOOSE x \in {n, MaxToken} : \A y \in {n, MaxToken} : x <= y
  BY DEF AtMost, Min
<1>5. AtMost(n) = m
  <2> HIDE DEF m
  <2> QED BY <1>2, <1>3, <1>4
<1> QED BY <1>1, <1>5

\* The rest of a batch of s is one.
LEMMA RestBatch ==
  ASSUME NEW s, NEW b, BatchOK(s, b), InTurn(b), b # <<>>
  PROVE  BatchOK(s, Tail(b)) /\ InTurn(Tail(b))
<1> DEFINE c == Tail(b)
<1>1. b \in Seq(Records)
  BY DEF BatchOK
<1>2. c \in Seq(Records) /\ \A i \in DOMAIN c : i + 1 \in DOMAIN b /\ c[i] = b[i + 1]
  BY <1>1, HeadTail
<1>3. DOMAIN c \subseteq Nat
  BY <1>2
<1> HIDE DEF c
<1>4. BatchOK(s, c)
  BY <1>2 DEF BatchOK
<1>5. ASSUME NEW i \in DOMAIN c, NEW j \in DOMAIN c, i < j PROVE Turn(c[i].op, c[j].op)
  <2>1. i + 1 < j + 1
    BY <1>3, <1>5
  <2> QED BY <1>2, <2>1 DEF InTurn
<1> QED BY <1>4, <1>5 DEF InTurn, c

\* The registrations that are left.
LEMMA RestRegisters ==
  ASSUME NEW b \in Seq(Records), b # <<>>, OneEach(b)
  PROVE  /\ OneEach(Tail(b))
         /\ \A t \in Tokens : Registers(Tail(b), t) # {} => Registers(b, t) # {}
         /\ Head(b).op # "register" =>
              \A t \in Tokens : (Registers(Tail(b), t) # {}) <=> (Registers(b, t) # {})
         /\ Head(b).op = "register" =>
              /\ \A t \in Tokens : t = Head(b).token =>
                   Registers(Tail(b), t) = {} /\ Registers(b, t) # {}
              /\ \A t \in Tokens : t # Head(b).token =>
                   ((Registers(Tail(b), t) # {}) <=> (Registers(b, t) # {}))
<1> DEFINE c == Tail(b)
<1>1. /\ Head(b) = b[1] /\ 1 \in DOMAIN b
      /\ \A i \in DOMAIN c : i + 1 \in DOMAIN b /\ c[i] = b[i + 1]
      /\ \A j \in DOMAIN b : j # 1 => j - 1 \in DOMAIN c /\ c[j - 1] = b[j]
  BY HeadTail
<1>2. DOMAIN c \subseteq Nat \ {0} /\ DOMAIN b \subseteq Nat
  OBVIOUS
<1> HIDE DEF c
<1>3. ASSUME NEW t \in Tokens, NEW i \in Registers(c, t) PROVE i + 1 \in Registers(b, t)
  BY <1>1 DEF Registers
<1>4. OneEach(c)
  <2> SUFFICES ASSUME NEW t \in Tokens, NEW i \in Registers(c, t), NEW j \in Registers(c, t)
               PROVE  i = j
    BY DEF OneEach
  <2>1. i + 1 = j + 1
    BY <1>3 DEF OneEach
  <2>2. i \in Nat /\ j \in Nat
    BY <1>2 DEF Registers
  <2> QED BY <2>1, <2>2
<1>5. ASSUME NEW t \in Tokens, NEW j \in Registers(b, t), j # 1 PROVE j - 1 \in Registers(c, t)
  BY <1>1, <1>5 DEF Registers
<1>6. ASSUME NEW t \in Tokens, Head(b).op # "register" \/ Head(b).token # t
      PROVE  1 \notin Registers(b, t)
  BY <1>1, <1>6 DEF Registers
<1>7. ASSUME NEW t \in Tokens, 1 \in Registers(b, t) PROVE Registers(c, t) = {}
  <2> SUFFICES ASSUME NEW i \in Registers(c, t) PROVE FALSE
    OBVIOUS
  <2>1. i + 1 = 1
    BY <1>3, <1>7 DEF OneEach
  <2>2. i \in Nat \ {0}
    BY <1>2 DEF Registers
  <2> QED BY <2>1, <2>2
<1>8. ASSUME NEW t \in Tokens, Head(b).op = "register", Head(b).token = t
      PROVE  1 \in Registers(b, t)
  BY <1>1, <1>8 DEF Registers
<1>9. ASSUME NEW t \in Tokens, Head(b).op # "register" \/ Head(b).token # t
      PROVE  (Registers(c, t) # {}) <=> (Registers(b, t) # {})
  BY <1>3, <1>5, <1>6, <1>9
<1>10. \A t \in Tokens : Registers(c, t) # {} => Registers(b, t) # {}
  BY <1>3
<1>11. Head(b).op = "register" =>
         /\ \A t \in Tokens : t = Head(b).token => Registers(c, t) = {} /\ Registers(b, t) # {}
         /\ \A t \in Tokens : t # Head(b).token =>
              ((Registers(c, t) # {}) <=> (Registers(b, t) # {}))
  BY <1>7, <1>8, <1>9
<1> QED BY <1>4, <1>9, <1>10, <1>11 DEF c

\* After a mint nothing is registered, after a burn or a send nothing is issued.
LEMMA LaterKinds ==
  ASSUME NEW b \in Seq(Records), b # <<>>, InTurn(b)
  PROVE  /\ Head(b).op \in {"mint", "burn", "send"} => \A t : Registers(b, t) = {}
         /\ Head(b).op \in {"burn", "send"} =>
              \A home, t : Total(b, "mint", home, t) = 0
<1>1. Head(b) = b[1] /\ 1 \in DOMAIN b /\ DOMAIN b \subseteq Nat \ {0}
  BY HeadTail
<1>2. ASSUME NEW j \in DOMAIN b, j # 1 PROVE Turn(b[1].op, b[j].op)
  <2>1. 1 < j
    BY <1>1, <1>2
  <2> QED BY <1>1, <2>1 DEF InTurn
<1>3. ASSUME Head(b).op \in {"mint", "burn", "send"}, NEW j \in DOMAIN b PROVE b[j].op # "register"
  BY <1>1, <1>2, <1>3 DEF Turn
<1>4. ASSUME Head(b).op \in {"burn", "send"}, NEW j \in DOMAIN b PROVE b[j].op # "mint"
  BY <1>1, <1>2, <1>4 DEF Turn
<1>5. ASSUME Head(b).op \in {"burn", "send"}, NEW home, NEW t
      PROVE  Total(b, "mint", home, t) = 0
  BY <1>4, <1>5, TotalNone
<1> QED BY <1>3, <1>5 DEF Registers

----------------------------------------------------------------------------
(* One record is written.                                                  *)

\* new is bal with v in one place.
Changed(bal, new, home0, t0, h0, v) ==
  /\ new \in Balances
  /\ \A home \in Subnets, t \in Tokens, h \in Subnets :
       new[<<home, t, h>>] = IF home = home0 /\ t = t0 /\ h = h0 THEN v ELSE bal[<<home, t, h>>]

LEMMA ChangeIs ==
  ASSUME NEW bal \in Balances, NEW home \in Subnets, NEW t \in Tokens, NEW h \in Subnets,
         NEW v \in 0..MaxToken
  PROVE  Changed(bal, [bal EXCEPT ![<<home, t, h>>] = v], home, t, h, v)
<1> DEFINE k == <<home, t, h>>
           new == [bal EXCEPT ![k] = v]
<1>1. k \in Holdings
  BY DEF Holdings
<1>2. \A home2 \in Subnets, t2 \in Tokens, h2 \in Subnets :
        <<home2, t2, h2>> \in Holdings /\ (<<home2, t2, h2>> = k <=> home2 = home /\ t2 = t /\ h2 = h)
  BY DEF Holdings
<1> HIDE DEF k
<1>3. new \in Balances /\ \A j \in Holdings : new[j] = IF j = k THEN v ELSE bal[j]
  BY <1>1 DEF Balances
<1> HIDE DEF new
<1>4. Changed(bal, new, home, t, h, v)
  BY <1>2, <1>3 DEF Changed
<1> QED BY <1>4 DEF new, k

SumBal(bal, home, t) == SumFunctionOnSet([h \in Subnets |-> bal[<<home, t, h>>]], Subnets)

LEMMA BalanceNat ==
  ASSUME NEW bal \in Balances, NEW home \in Subnets, NEW t \in Tokens, NEW h \in Subnets
  PROVE  bal[<<home, t, h>>] \in Nat /\ bal[<<home, t, h>>] <= MaxToken
<1>1. <<home, t, h>> \in Holdings
  BY DEF Holdings
<1>2. bal[<<home, t, h>>] \in 0..MaxToken
  BY <1>1 DEF Balances
<1> QED BY <1>2, LedgerConstants

LEMMA SumBalInts ==
  ASSUME NEW bal \in Balances, NEW home \in Subnets, NEW t \in Tokens
  PROVE  /\ Ints([h \in Subnets |-> bal[<<home, t, h>>]], Subnets)
         /\ SumBal(bal, home, t) \in Int
<1> DEFINE f == [h \in Subnets |-> bal[<<home, t, h>>]]
<1>1. Ints(f, Subnets)
  BY BalanceNat DEF Ints
<1>2. SumFunctionOnSet(f, Subnets) \in Int
  <2> HIDE DEF f
  <2> QED BY <1>1, SumInt, LedgerConstants
<1> QED BY <1>1, <1>2 DEF SumBal

\* The other tokens have the sums they had.
OthersSame(bal, new, home0, t0) ==
  \A home \in Subnets, t \in Tokens :
    ~(home = home0 /\ t = t0) => SumBal(new, home, t) = SumBal(bal, home, t)

LEMMA SumBalChanged ==
  ASSUME NEW bal \in Balances, NEW new, NEW home0 \in Subnets, NEW t0 \in Tokens, NEW h0 \in Subnets,
         NEW v \in 0..MaxToken, Changed(bal, new, home0, t0, h0, v)
  PROVE  /\ SumBal(new, home0, t0) = SumBal(bal, home0, t0) + (v - bal[<<home0, t0, h0>>])
         /\ OthersSame(bal, new, home0, t0)
<1> SUFFICES ASSUME NEW home \in Subnets, NEW t \in Tokens
             PROVE  /\ home = home0 /\ t = t0 =>
                         SumBal(new, home, t) = SumBal(bal, home, t) + (v - bal[<<home0, t0, h0>>])
                    /\ ~(home = home0 /\ t = t0) => SumBal(new, home, t) = SumBal(bal, home, t)
  BY DEF OthersSame
<1> DEFINE f == [h \in Subnets |-> bal[<<home, t, h>>]]
           g == [h \in Subnets |-> new[<<home, t, h>>]]
<1>1. Ints(f, Subnets) /\ SumBal(bal, home, t) \in Int
  BY SumBalInts
<1>2. SumBal(bal, home, t) = SumFunctionOnSet(f, Subnets) /\ SumBal(new, home, t) = SumFunctionOnSet(g, Subnets)
  BY DEF SumBal
<1>3. IsFiniteSet(Subnets) /\ v \in Int
  BY LedgerConstants
<1>4. CASE home = home0 /\ t = t0
  <2>1. g[h0] = v /\ f[h0] = bal[<<home0, t0, h0>>]
    BY <1>4 DEF Changed
  <2>2. \A y \in Subnets \ {h0} : g[y] = f[y]
    BY <1>4 DEF Changed
  <2>3. f[h0] \in Int
    BY <1>1 DEF Ints
  <2> HIDE DEF f, g
  <2>4. SumFunctionOnSet(g, Subnets) = SumFunctionOnSet(f, Subnets) - f[h0] + g[h0]
    BY <1>1, <1>3, <2>1, <2>2, SumUpdate
  <2> QED BY <1>1, <1>2, <1>3, <1>4, <2>1, <2>3, <2>4
<1>5. CASE ~(home = home0 /\ t = t0)
  <2>1. \A y \in Subnets : g[y] = f[y]
    BY <1>5 DEF Changed
  <2> HIDE DEF f, g
  <2>2. SumFunctionOnSet(g, Subnets) = SumFunctionOnSet(f, Subnets)
    BY <1>1, <1>3, <2>1, SumSame
  <2> QED BY <1>1, <1>2, <1>5, <2>2
<1> QED BY <1>4, <1>5

\* What the records of b bring into being, less burns.
Issues(b, home, t) ==
  Total(b, "register", home, t) + Total(b, "mint", home, t) - Total(b, "burn", home, t)

\* Writing the records of b that c has no more turns bal into new, and what is lost
\* was cut.
Conserves(b, bal, c, new, exact) ==
  \A home \in Subnets, t \in Tokens :
    /\ SumBal(new, home, t) + Issues(c, home, t) <= SumBal(bal, home, t) + Issues(b, home, t)
    /\ exact => SumBal(new, home, t) + Issues(c, home, t) = SumBal(bal, home, t) + Issues(b, home, t)

\* The totals of b by those of the rest of it.
LEMMA RestTotals ==
  ASSUME NEW s, NEW b, BatchOK(s, b), b # <<>>, NEW home, NEW t
  PROVE  LET r == Head(b)  c == Tail(b) IN
         /\ r \in Records /\ c \in Seq(Records) /\ r.amount \in Nat
         /\ \A op : Total(b, op, home, t) \in Nat /\ Total(c, op, home, t) \in Nat
         /\ \A op : Total(b, op, home, t) = Total(c, op, home, t)
              + (IF r.op = op /\ r.home = home /\ r.token = t THEN r.amount ELSE 0)
<1>1. b \in Seq(Records)
  BY DEF BatchOK
<1>2. Head(b) \in Records /\ Tail(b) \in Seq(Records)
  BY <1>1, HeadTail
<1>3. Head(b).amount \in Nat
  BY <1>2 DEF Records
<1>4. ASSUME NEW op PROVE Total(b, op, home, t) \in Nat /\ Total(Tail(b), op, home, t) \in Nat
  BY <1>1, <1>2, TotalIs
<1>5. ASSUME NEW op PROVE Total(b, op, home, t) = Total(Tail(b), op, home, t)
              + (IF Head(b).op = op /\ Head(b).home = home /\ Head(b).token = t THEN Head(b).amount ELSE 0)
  <2>1. Total(b, op, home, t) = Worth(Head(b), op, home, t) + Total(Tail(b), op, home, t)
    BY <1>1, TotalStep
  <2> QED BY <1>3, <1>4, <2>1 DEF Worth
<1> QED BY <1>2, <1>3, <1>4, <1>5

LEMMA HeadOK ==
  ASSUME NEW s, NEW b, BatchOK(s, b), b # <<>>
  PROVE  LET r == Head(b) IN
         /\ r.op \in {"register", "mint", "burn"} => r.home = s
         /\ r.op # "fund" => r.token \in Tokens /\ r.amount \in 0..MaxToken
         /\ r.home \in Subnets /\ r.dest \in Subnets /\ r.amount \in Nat
         /\ r \in Records
<1>1. b \in Seq(Records)
  BY DEF BatchOK
<1>2. Head(b) = b[1] /\ 1 \in DOMAIN b /\ Head(b) \in Records
  BY <1>1, HeadTail
<1>3. Head(b).amount \in Nat /\ Head(b).home \in Subnets /\ Head(b).dest \in Subnets
  BY <1>2 DEF Records
<1> QED BY <1>2, <1>3, LedgerConstants DEF BatchOK

LEMMA FundStep ==
  ASSUME NEW s \in Subnets, NEW b, BatchOK(s, b), b # <<>>, NEW bal \in Balances,
         RestValid(s, b, bal), Head(b).op = "fund"
  PROVE  RestValid(s, Tail(b), bal) /\ Conserves(b, bal, Tail(b), bal, TRUE)
<1> DEFINE c == Tail(b)
<1>0. b \in Seq(Records) /\ OneEach(b)
  BY DEF BatchOK, RestValid
<1>1. OneEach(c) /\ \A t \in Tokens : (Registers(c, t) # {}) <=> (Registers(b, t) # {})
  BY <1>0, RestRegisters
<1>2. ASSUME NEW home \in Subnets, NEW t \in Tokens, NEW op \in {"register", "mint", "burn", "send"}
      PROVE  Total(c, op, home, t) = Total(b, op, home, t)
  BY RestTotals
<1> HIDE DEF c
<1>3. ASSUME NEW home \in Subnets, NEW t \in Tokens
      PROVE  Affords(s, c, bal, home, t)
  <2>1. Affords(s, b, bal, home, t)
    BY DEF RestValid
  <2> QED BY <1>1, <1>2, <2>1 DEF Affords, Base
<1>4. RestValid(s, c, bal)
  BY <1>1, <1>3 DEF RestValid
<1>5. ASSUME NEW home \in Subnets, NEW t \in Tokens
      PROVE  /\ Issues(c, home, t) = Issues(b, home, t)
             /\ SumBal(bal, home, t) \in Int /\ Issues(b, home, t) \in Int
  <2>1. /\ Total(b, "register", home, t) \in Nat /\ Total(b, "mint", home, t) \in Nat
        /\ Total(b, "burn", home, t) \in Nat
    BY RestTotals
  <2>2. Issues(b, home, t) \in Int
    BY <2>1 DEF Issues
  <2>3. Issues(c, home, t) = Issues(b, home, t)
    BY <1>2 DEF Issues
  <2> QED BY <2>2, <2>3, SumBalInts
<1>6. Conserves(b, bal, c, bal, TRUE)
  BY <1>5 DEF Conserves
<1> QED BY <1>4, <1>6 DEF c

LEMMA RegisterStep ==
  ASSUME NEW s \in Subnets, NEW b, BatchOK(s, b), b # <<>>, NEW bal \in Balances,
         RestValid(s, b, bal), Head(b).op = "register",
         NEW new, Changed(bal, new, s, Head(b).token, s, Head(b).amount)
  PROVE  RestValid(s, Tail(b), new) /\ Conserves(b, bal, Tail(b), new, TRUE)
<1> DEFINE c == Tail(b)
           t0 == Head(b).token
           a == Head(b).amount
<1>0. b \in Seq(Records) /\ OneEach(b) /\ c \in Seq(Records)
  BY HeadTail DEF BatchOK, RestValid
<1>1. /\ OneEach(c) /\ Registers(c, t0) = {} /\ Registers(b, t0) # {}
      /\ \A t \in Tokens : t # t0 => ((Registers(c, t) # {}) <=> (Registers(b, t) # {}))
  BY <1>0, HeadOK, RestRegisters
<1>2. Head(b).home = s /\ t0 \in Tokens /\ a \in 0..MaxToken /\ a \in Nat
  BY HeadOK
<1>3. bal[<<s, t0, s>>] = 0
  BY <1>1, <1>2 DEF RestValid
<1>4. ASSUME NEW home \in Subnets, NEW t \in Tokens
      PROVE  /\ \A op : Total(b, op, home, t) \in Nat /\ Total(c, op, home, t) \in Nat
             /\ Total(c, "mint", home, t) = Total(b, "mint", home, t)
             /\ Total(c, "burn", home, t) = Total(b, "burn", home, t)
             /\ Total(c, "send", home, t) = Total(b, "send", home, t)
             /\ Total(b, "register", home, t) = Total(c, "register", home, t)
                  + (IF home = s /\ t = t0 THEN a ELSE 0)
  <2>1. /\ \A op : Total(b, op, home, t) \in Nat /\ Total(c, op, home, t) \in Nat
        /\ \A op : Total(b, op, home, t) = Total(c, op, home, t)
              + (IF Head(b).op = op /\ Head(b).home = home /\ Head(b).token = t THEN Head(b).amount ELSE 0)
    BY RestTotals
  <2> QED BY <1>2, <2>1
<1>5. Total(c, "register", s, t0) = 0
  <2>1. \A i \in DOMAIN c : ~(c[i].op = "register" /\ c[i].home = s /\ c[i].token = t0)
    BY <1>1 DEF Registers
  <2> QED BY <1>0, <2>1, TotalNone
<1>6. Changed(bal, new, s, t0, s, a)
  OBVIOUS
<1>7. \A home \in Subnets, t \in Tokens :
        new[<<home, t, s>>] = IF home = s /\ t = t0 THEN a ELSE bal[<<home, t, s>>]
  BY <1>6 DEF Changed
<1> HIDE DEF c, t0, a
<1>8. ASSUME NEW home \in Subnets, NEW t \in Tokens PROVE Affords(s, c, new, home, t)
  <2>1. Affords(s, b, bal, home, t)
    BY DEF RestValid
  <2>2. Base(s, c, new, home, t) = Base(s, b, bal, home, t)
    <3>1. CASE home = s /\ t = t0
      <4>1. Base(s, c, new, home, t) = a
        BY <1>1, <1>7, <3>1 DEF Base
      <4>2. Base(s, b, bal, home, t) = a
        BY <1>1, <1>2, <1>4, <1>5, <3>1 DEF Base
      <4> QED BY <4>1, <4>2
    <3>2. CASE ~(home = s /\ t = t0)
      <4>1. new[<<home, t, s>>] = bal[<<home, t, s>>]
        BY <1>7, <3>2
      <4>2. CASE home = s
        <5>1. Total(c, "register", s, t) = Total(b, "register", s, t)
          BY <1>4, <3>2, <4>2
        <5> QED BY <1>1, <3>2, <4>1, <4>2, <5>1 DEF Base
      <4> QED BY <4>1, <4>2 DEF Base
    <3> QED BY <3>1, <3>2
  <2> QED BY <1>4, <2>1, <2>2 DEF Affords
<1>9. RestValid(s, c, new)
  <2>1. ASSUME NEW t \in Tokens, Registers(c, t) # {} PROVE new[<<s, t, s>>] = 0
    <3>1. t # t0 /\ Registers(b, t) # {}
      BY <1>1, <2>1
    <3> QED BY <1>7, <3>1 DEF RestValid
  <2> QED BY <1>1, <1>8, <2>1 DEF RestValid
<1>10. ASSUME NEW home \in Subnets, NEW t \in Tokens
       PROVE  /\ SumBal(new, home, t) + Issues(c, home, t) = SumBal(bal, home, t) + Issues(b, home, t)
              /\ SumBal(new, home, t) + Issues(c, home, t) \in Int
  <2> DEFINE R == Total(c, "register", home, t)
             M == Total(c, "mint", home, t)
             U == Total(c, "burn", home, t)
             H == SumBal(bal, home, t)
  <2>1. R \in Nat /\ M \in Nat /\ U \in Nat /\ H \in Int
    BY <1>4, SumBalInts
  <2>2. Issues(c, home, t) = R + M - U
    BY DEF Issues
  <2>3. CASE home = s /\ t = t0
    <3>1. SumBal(new, home, t) = H + (a - bal[<<s, t0, s>>])
      <4>1. SumBal(new, s, t0) = SumBal(bal, s, t0) + (a - bal[<<s, t0, s>>])
        BY <1>2, <1>6, SumBalChanged
      <4> QED BY <2>3, <4>1
    <3>2. Issues(b, home, t) = (R + a) + M - U
      BY <1>4, <2>3 DEF Issues
    <3> HIDE DEF R, M, U, H
    <3>3. H + (a - 0) + (R + M - U) = H + ((R + a) + M - U) /\ H + ((R + a) + M - U) \in Int
      BY <1>2, <2>1
    <3> QED BY <1>3, <2>2, <3>1, <3>2, <3>3 DEF H
  <2>4. CASE ~(home = s /\ t = t0)
    <3>1. SumBal(new, home, t) = H
      <4>1. OthersSame(bal, new, s, t0)
        BY <1>2, <1>6, SumBalChanged
      <4> QED BY <2>4, <4>1 DEF OthersSame
    <3>2. Total(b, "register", home, t) = R
      BY <1>4, <2>1, <2>4
    <3>3. Issues(b, home, t) = R + M - U
      BY <1>4, <3>2 DEF Issues
    <3> HIDE DEF R, M, U, H
    <3>4. H + (R + M - U) \in Int
      BY <2>1
    <3> QED BY <2>2, <3>1, <3>3, <3>4 DEF H
  <2> QED BY <2>3, <2>4
<1>11. Conserves(b, bal, c, new, TRUE)
  BY <1>10 DEF Conserves
<1> QED BY <1>9, <1>11 DEF c

LEMMA MintStep ==
  ASSUME NEW s \in Subnets, NEW b, BatchOK(s, b), InTurn(b), b # <<>>, NEW bal \in Balances,
         RestValid(s, b, bal), Head(b).op = "mint", NEW new,
         Changed(bal, new, s, Head(b).token, s,
                 AtMost(bal[<<s, Head(b).token, s>>] + Head(b).amount))
  PROVE  /\ RestValid(s, Tail(b), new)
         /\ Conserves(b, bal, Tail(b), new, ~(bal[<<s, Head(b).token, s>>] + Head(b).amount > MaxToken))
<1> DEFINE c == Tail(b)
           t0 == Head(b).token
           a == Head(b).amount
           old == bal[<<s, t0, s>>]
           v == AtMost(old + a)
<1>0. b \in Seq(Records) /\ OneEach(b)
  BY DEF BatchOK, RestValid
<1>1. \A t \in Tokens : Registers(b, t) = {}
  BY <1>0, LaterKinds
<1>2. OneEach(c) /\ \A t \in Tokens : Registers(c, t) = {}
  BY <1>0, <1>1, RestRegisters
<1>3. Head(b).home = s /\ t0 \in Tokens /\ a \in Nat
  BY HeadOK
<1>4. old \in Nat /\ old <= MaxToken /\ MaxToken \in Nat
  BY <1>3, BalanceNat, LedgerConstants
<1>5. ASSUME NEW home \in Subnets, NEW t \in Tokens
      PROVE  /\ \A op : Total(b, op, home, t) \in Nat /\ Total(c, op, home, t) \in Nat
             /\ Total(c, "register", home, t) = Total(b, "register", home, t)
             /\ Total(c, "burn", home, t) = Total(b, "burn", home, t)
             /\ Total(c, "send", home, t) = Total(b, "send", home, t)
             /\ Total(b, "mint", home, t) = Total(c, "mint", home, t)
                  + (IF home = s /\ t = t0 THEN a ELSE 0)
  <2>1. /\ \A op : Total(b, op, home, t) \in Nat /\ Total(c, op, home, t) \in Nat
        /\ \A op : Total(b, op, home, t) = Total(c, op, home, t)
              + (IF Head(b).op = op /\ Head(b).home = home /\ Head(b).token = t THEN Head(b).amount ELSE 0)
    BY RestTotals
  <2> QED BY <1>3, <2>1
<1>6. Changed(bal, new, s, t0, s, v)
  OBVIOUS
<1> HIDE DEF c, t0, a, old
<1>7. /\ v \in 0..MaxToken /\ v \in Int /\ v <= old + a
      /\ old + a <= MaxToken => v = old + a
      /\ old + a > MaxToken => v = MaxToken
  BY <1>3, <1>4, AtMostIs
<1> HIDE DEF v
<1>8. \A home \in Subnets, t \in Tokens :
        new[<<home, t, s>>] = IF home = s /\ t = t0 THEN v ELSE bal[<<home, t, s>>]
  BY <1>6 DEF Changed
<1>9. ASSUME NEW home \in Subnets, NEW t \in Tokens PROVE Affords(s, c, new, home, t)
  <2> DEFINE M == Total(c, "mint", home, t)
             D == Total(b, "burn", home, t) + Total(b, "send", home, t)
             B == bal[<<home, t, s>>]
  <2>1. Affords(s, b, bal, home, t)
    BY DEF RestValid
  <2>2. D <= AtMost(Total(b, "mint", home, t) + B)
    BY <1>1, <2>1 DEF Affords, Base
  <2>3. M \in Nat /\ D \in Nat /\ B \in Nat /\ D = Total(c, "burn", home, t) + Total(c, "send", home, t)
    BY <1>5, BalanceNat
  <2>4. D <= AtMost(M + new[<<home, t, s>>])
    <3>1. CASE home = s /\ t = t0
      <4>1. new[<<home, t, s>>] = v /\ Total(b, "mint", home, t) = M + a /\ B = old
        BY <1>5, <1>8, <3>1 DEF old
      <4> HIDE DEF M, D, B
      <4>2. AtMost(M + a + old) <= AtMost(M + v) /\ AtMost(M + v) \in Int
        BY <1>3, <1>4, <1>7, <2>3, AtMostIs
      <4>3. AtMost(M + a + old) \in Int
        BY <1>3, <1>4, <2>3, AtMostIs
      <4>4. D <= AtMost(M + a + old)
        BY <2>2, <4>1
      <4> QED BY <2>3, <4>1, <4>2, <4>3, <4>4
    <3>2. CASE ~(home = s /\ t = t0)
      <4>1. new[<<home, t, s>>] = B /\ Total(b, "mint", home, t) = M
        BY <1>5, <1>8, <3>2
      <4> QED BY <2>2, <4>1
    <3> QED BY <3>1, <3>2
  <2>5. Base(s, c, new, home, t) = new[<<home, t, s>>]
    BY <1>2 DEF Base
  <2> QED BY <2>3, <2>4, <2>5 DEF Affords
<1>10. RestValid(s, c, new)
  BY <1>2, <1>9 DEF RestValid
<1>11. ASSUME NEW home \in Subnets, NEW t \in Tokens
       PROVE  /\ SumBal(new, home, t) + Issues(c, home, t) <= SumBal(bal, home, t) + Issues(b, home, t)
              /\ ~(old + a > MaxToken) =>
                   SumBal(new, home, t) + Issues(c, home, t) = SumBal(bal, home, t) + Issues(b, home, t)
  <2> DEFINE R == Total(c, "register", home, t)
             M == Total(c, "mint", home, t)
             U == Total(c, "burn", home, t)
             H == SumBal(bal, home, t)
  <2>1. R \in Nat /\ M \in Nat /\ U \in Nat /\ H \in Int
    BY <1>5, SumBalInts
  <2>2. Issues(c, home, t) = R + M - U
    BY DEF Issues
  <2>3. CASE home = s /\ t = t0
    <3>1. SumBal(new, home, t) = H + (v - bal[<<s, t0, s>>])
      <4>1. SumBal(new, s, t0) = SumBal(bal, s, t0) + (v - bal[<<s, t0, s>>])
        BY <1>3, <1>6, <1>7, SumBalChanged
      <4> QED BY <2>3, <4>1
    <3>2. Issues(b, home, t) = R + (M + a) - U
      BY <1>5, <2>3 DEF Issues
    <3>3. bal[<<s, t0, s>>] = old
      BY DEF old
    <3> HIDE DEF R, M, U, H
    <3>4. /\ H + (v - old) + (R + M - U) <= H + (R + (M + a) - U)
          /\ ~(old + a > MaxToken) => H + (v - old) + (R + M - U) = H + (R + (M + a) - U)
      BY <1>3, <1>4, <1>7, <2>1
    <3> QED BY <2>2, <3>1, <3>2, <3>3, <3>4 DEF H
  <2>4. CASE ~(home = s /\ t = t0)
    <3>1. SumBal(new, home, t) = H
      <4>1. OthersSame(bal, new, s, t0)
        BY <1>3, <1>6, <1>7, SumBalChanged
      <4> QED BY <2>4, <4>1 DEF OthersSame
    <3>2. Total(b, "mint", home, t) = M
      BY <1>5, <2>1, <2>4
    <3>3. Issues(b, home, t) = R + M - U
      BY <1>5, <3>2 DEF Issues
    <3> HIDE DEF R, M, U, H
    <3>4. H + (R + M - U) \in Int
      BY <2>1
    <3> QED BY <2>2, <3>1, <3>3, <3>4 DEF H
  <2> QED BY <2>3, <2>4
<1>12. Conserves(b, bal, c, new, ~(old + a > MaxToken))
  BY <1>11 DEF Conserves
<1> QED BY <1>10, <1>12 DEF c, old, a, t0

\* A debit the rest of the batch asks for is covered: the error paths of save_to_db
\* are not taken.
LEMMA Covered ==
  ASSUME NEW s \in Subnets, NEW b, BatchOK(s, b), InTurn(b), b # <<>>, NEW bal \in Balances,
         RestValid(s, b, bal), Head(b).op \in {"burn", "send"}
  PROVE  LET r == Head(b)  c == Tail(b) IN
         /\ r.home \in Subnets /\ r.token \in Tokens /\ r.amount \in Nat
         /\ bal[<<r.home, r.token, s>>] \in Nat
         /\ \A t \in Tokens : Registers(c, t) = {}
         /\ \A home \in Subnets, t \in Tokens : Total(c, "mint", home, t) = 0
         /\ Total(c, "burn", r.home, r.token) + Total(c, "send", r.home, r.token)
              <= bal[<<r.home, r.token, s>>] - r.amount
         /\ \A home \in Subnets, t \in Tokens : ~(home = r.home /\ t = r.token) =>
              Total(c, "burn", home, t) + Total(c, "send", home, t) <= bal[<<home, t, s>>]
         /\ OneEach(c)
<1> DEFINE c == Tail(b)
           home0 == Head(b).home
           t0 == Head(b).token
           a == Head(b).amount
<1>0. b \in Seq(Records) /\ OneEach(b)
  BY DEF BatchOK, RestValid
<1>1. \A t \in Tokens : Registers(b, t) = {}
  BY <1>0, LaterKinds
<1>2. \A home, t : Total(b, "mint", home, t) = 0
  BY <1>0, LaterKinds
<1>3. OneEach(c) /\ \A t \in Tokens : Registers(c, t) = {}
  BY <1>0, <1>1, RestRegisters
<1>4. home0 \in Subnets /\ t0 \in Tokens /\ a \in Nat
  BY HeadOK
<1>5. ASSUME NEW home \in Subnets, NEW t \in Tokens
      PROVE  /\ \A op : Total(b, op, home, t) \in Nat /\ Total(c, op, home, t) \in Nat
             /\ \A op : Total(b, op, home, t) = Total(c, op, home, t)
                  + (IF Head(b).op = op /\ home0 = home /\ t0 = t THEN a ELSE 0)
  BY RestTotals
<1>6. Head(b).op = "burn" \/ Head(b).op = "send"
  OBVIOUS
<1>7. ASSUME NEW home \in Subnets, NEW t \in Tokens
      PROVE  /\ bal[<<home, t, s>>] \in Nat
             /\ Total(b, "burn", home, t) + Total(b, "send", home, t) <= bal[<<home, t, s>>]
  <2> DEFINE B == bal[<<home, t, s>>]
             D == Total(b, "burn", home, t) + Total(b, "send", home, t)
  <2>1. B \in Nat /\ B <= MaxToken
    BY BalanceNat
  <2>2. Affords(s, b, bal, home, t)
    BY DEF RestValid
  <2>3. D <= AtMost(0 + B)
    BY <1>1, <1>2, <2>2 DEF Affords, Base
  <2>4. 0 + B = B
    BY <2>1
  <2> HIDE DEF B, D
  <2>5. AtMost(B) = B
    BY <2>1, AtMostIs
  <2>6. D <= B
    BY <2>3, <2>4, <2>5
  <2> QED BY <2>1, <2>6 DEF B, D
<1> HIDE DEF c, home0, t0, a
<1>8. ASSUME NEW home \in Subnets, NEW t \in Tokens PROVE Total(c, "mint", home, t) = 0
  <2>1. Total(b, "mint", home, t) = Total(c, "mint", home, t)
    BY <1>5, <1>6
  <2> QED BY <1>2, <2>1
<1>9. Total(c, "burn", home0, t0) + Total(c, "send", home0, t0) <= bal[<<home0, t0, s>>] - a
  <2> DEFINE B == bal[<<home0, t0, s>>]
             x == Total(c, "burn", home0, t0)
             y == Total(c, "send", home0, t0)
  <2>1. x \in Nat /\ y \in Nat /\ B \in Nat
    BY <1>4, <1>5, <1>7
  <2>2. Total(b, "burn", home0, t0) + Total(b, "send", home0, t0) = x + y + a
    <3>1. CASE Head(b).op = "burn"
      <4>1. Total(b, "burn", home0, t0) = x + a /\ Total(b, "send", home0, t0) = y + 0
        BY <1>4, <1>5, <3>1
      <4> QED BY <1>4, <2>1, <4>1
    <3>2. CASE Head(b).op = "send"
      <4>1. Total(b, "burn", home0, t0) = x + 0 /\ Total(b, "send", home0, t0) = y + a
        BY <1>4, <1>5, <3>2
      <4> QED BY <1>4, <2>1, <4>1
    <3> QED BY <1>6, <3>1, <3>2
  <2>3. x + y + a <= B
    BY <1>4, <1>7, <2>2
  <2> HIDE DEF B, x, y
  <2>4. x + y <= B - a
    BY <1>4, <2>1, <2>3
  <2> QED BY <2>4 DEF B, x, y
<1>10. ASSUME NEW home \in Subnets, NEW t \in Tokens, ~(home = home0 /\ t = t0)
       PROVE  Total(c, "burn", home, t) + Total(c, "send", home, t) <= bal[<<home, t, s>>]
  <2>1. Total(b, "burn", home, t) = Total(c, "burn", home, t) + 0
        /\ Total(b, "send", home, t) = Total(c, "send", home, t) + 0
    BY <1>5, <1>10
  <2>2. Total(b, "burn", home, t) = Total(c, "burn", home, t)
        /\ Total(b, "send", home, t) = Total(c, "send", home, t)
    BY <1>5, <2>1
  <2> QED BY <1>7, <2>2
<1> QED BY <1>3, <1>4, <1>7, <1>8, <1>9, <1>10 DEF c, home0, t0, a

\* With no registration and no mint left, the rest is valid if its debits are covered.
LEMMA OnlyDebits ==
  ASSUME NEW s \in Subnets, NEW c, NEW new \in Balances, OneEach(c),
         \A t \in Tokens : Registers(c, t) = {},
         \A home \in Subnets, t \in Tokens : Total(c, "mint", home, t) = 0,
         \A home \in Subnets, t \in Tokens :
           Total(c, "burn", home, t) + Total(c, "send", home, t) <= new[<<home, t, s>>]
  PROVE  RestValid(s, c, new)
<1>1. ASSUME NEW home \in Subnets, NEW t \in Tokens PROVE Affords(s, c, new, home, t)
  <2> DEFINE B == new[<<home, t, s>>]
  <2>1. B \in Nat /\ B <= MaxToken
    BY BalanceNat
  <2>2. Base(s, c, new, home, t) = B
    BY DEF Base
  <2>3. Total(c, "mint", home, t) + Base(s, c, new, home, t) = B
    BY <2>1, <2>2
  <2>4. AtMost(B) = B
    <3> HIDE DEF B
    <3> QED BY <2>1, AtMostIs
  <2> QED BY <2>3, <2>4 DEF Affords
<1> QED BY <1>1 DEF RestValid

LEMMA BurnStep ==
  ASSUME NEW s \in Subnets, NEW b, BatchOK(s, b), InTurn(b), b # <<>>, NEW bal \in Balances,
         RestValid(s, b, bal), Head(b).op = "burn", NEW new,
         Changed(bal, new, s, Head(b).token, s, bal[<<s, Head(b).token, s>>] - Head(b).amount)
  PROVE  RestValid(s, Tail(b), new) /\ Conserves(b, bal, Tail(b), new, TRUE)
<1> DEFINE c == Tail(b)
           t0 == Head(b).token
           a == Head(b).amount
           old == bal[<<s, t0, s>>]
<1>1. Head(b).home = s
  BY HeadOK
<1>2. /\ t0 \in Tokens /\ a \in Nat /\ old \in Nat
      /\ \A t \in Tokens : Registers(c, t) = {}
      /\ \A home \in Subnets, t \in Tokens : Total(c, "mint", home, t) = 0
      /\ Total(c, "burn", s, t0) + Total(c, "send", s, t0) <= old - a
      /\ \A home \in Subnets, t \in Tokens : ~(home = s /\ t = t0) =>
           Total(c, "burn", home, t) + Total(c, "send", home, t) <= bal[<<home, t, s>>]
      /\ OneEach(c)
  BY <1>1, Covered
<1>3. Changed(bal, new, s, t0, s, old - a)
  OBVIOUS
<1>4. ASSUME NEW home \in Subnets, NEW t \in Tokens
      PROVE  /\ Total(c, "register", home, t) \in Nat /\ Total(c, "mint", home, t) \in Nat
             /\ Total(c, "burn", home, t) \in Nat /\ Total(c, "send", home, t) \in Nat
             /\ Total(b, "register", home, t) = Total(c, "register", home, t) + 0
             /\ Total(b, "mint", home, t) = Total(c, "mint", home, t) + 0
             /\ Total(b, "burn", home, t) = Total(c, "burn", home, t)
                  + (IF home = s /\ t = t0 THEN a ELSE 0)
  <2>1. /\ \A op : Total(b, op, home, t) \in Nat /\ Total(c, op, home, t) \in Nat
        /\ \A op : Total(b, op, home, t) = Total(c, op, home, t)
              + (IF Head(b).op = op /\ Head(b).home = home /\ Head(b).token = t THEN Head(b).amount ELSE 0)
    BY RestTotals
  <2> QED BY <1>1, <2>1
<1> HIDE DEF c, t0, a, old
<1>5. old - a \in 0..MaxToken
  <2>1. old <= MaxToken
    BY <1>2, BalanceNat DEF old
  <2>2. Total(c, "burn", s, t0) \in Nat /\ Total(c, "send", s, t0) \in Nat
    BY <1>2, <1>4
  <2> QED BY <1>2, <2>1, <2>2, LedgerConstants
<1>6. new \in Balances
  BY <1>3 DEF Changed
<1>7. \A home \in Subnets, t \in Tokens :
        new[<<home, t, s>>] = IF home = s /\ t = t0 THEN old - a ELSE bal[<<home, t, s>>]
  BY <1>3 DEF Changed
<1>8. ASSUME NEW home \in Subnets, NEW t \in Tokens
      PROVE  Total(c, "burn", home, t) + Total(c, "send", home, t) <= new[<<home, t, s>>]
  <2>1. CASE home = s /\ t = t0
    BY <1>2, <1>7, <2>1
  <2>2. CASE ~(home = s /\ t = t0)
    BY <1>2, <1>7, <2>2
  <2> QED BY <2>1, <2>2
<1>9. RestValid(s, c, new)
  BY <1>2, <1>6, <1>8, OnlyDebits
<1>10. ASSUME NEW home \in Subnets, NEW t \in Tokens
       PROVE  /\ SumBal(new, home, t) + Issues(c, home, t) = SumBal(bal, home, t) + Issues(b, home, t)
              /\ SumBal(new, home, t) + Issues(c, home, t) \in Int
  <2> DEFINE R == Total(c, "register", home, t)
             M == Total(c, "mint", home, t)
             U == Total(c, "burn", home, t)
             H == SumBal(bal, home, t)
  <2>1. R \in Nat /\ M \in Nat /\ U \in Nat /\ H \in Int
    BY <1>4, SumBalInts
  <2>2. Issues(c, home, t) = R + M - U
    BY DEF Issues
  <2>3. CASE home = s /\ t = t0
    <3>1. SumBal(new, home, t) = H + ((old - a) - bal[<<s, t0, s>>])
      <4>1. SumBal(new, s, t0) = SumBal(bal, s, t0) + ((old - a) - bal[<<s, t0, s>>])
        BY <1>2, <1>3, <1>5, SumBalChanged
      <4> QED BY <2>3, <4>1
    <3>2. Issues(b, home, t) = (R + 0) + (M + 0) - (U + a)
      BY <1>4, <2>3 DEF Issues
    <3>3. bal[<<s, t0, s>>] = old
      BY DEF old
    <3> HIDE DEF R, M, U, H
    <3>4. /\ H + ((old - a) - old) + (R + M - U) = H + ((R + 0) + (M + 0) - (U + a))
          /\ H + ((R + 0) + (M + 0) - (U + a)) \in Int
      BY <1>2, <2>1
    <3> QED BY <2>2, <3>1, <3>2, <3>3, <3>4 DEF H
  <2>4. CASE ~(home = s /\ t = t0)
    <3>1. SumBal(new, home, t) = H
      <4>1. OthersSame(bal, new, s, t0)
        BY <1>2, <1>3, <1>5, SumBalChanged
      <4> QED BY <2>4, <4>1 DEF OthersSame
    <3>2. Issues(b, home, t) = (R + 0) + (M + 0) - (U + 0)
      BY <1>4, <2>4 DEF Issues
    <3> HIDE DEF R, M, U, H
    <3>3. H + (R + M - U) \in Int /\ H + (R + M - U) = H + ((R + 0) + (M + 0) - (U + 0))
      BY <2>1
    <3> QED BY <2>2, <3>1, <3>2, <3>3 DEF H
  <2> QED BY <2>3, <2>4
<1>11. Conserves(b, bal, c, new, TRUE)
  BY <1>10 DEF Conserves
<1> QED BY <1>9, <1>11 DEF c

\* The debit of the source and the credit of the destination, one after the other.
LEMMA SendStep ==
  ASSUME NEW s \in Subnets, NEW b, BatchOK(s, b), InTurn(b), b # <<>>, NEW bal \in Balances,
         RestValid(s, b, bal), Head(b).op = "send", NEW mid, NEW new,
         Changed(bal, mid, Head(b).home, Head(b).token, s,
                 bal[<<Head(b).home, Head(b).token, s>>] - Head(b).amount),
         Changed(mid, new, Head(b).home, Head(b).token, Head(b).dest,
                 AtMost(mid[<<Head(b).home, Head(b).token, Head(b).dest>>] + Head(b).amount))
  PROVE  /\ RestValid(s, Tail(b), new)
         /\ Conserves(b, bal, Tail(b), new,
              ~(Head(b).dest # s
                /\ bal[<<Head(b).home, Head(b).token, Head(b).dest>>] + Head(b).amount > MaxToken))
<1> DEFINE c == Tail(b)
           home0 == Head(b).home
           t0 == Head(b).token
           a == Head(b).amount
           d == Head(b).dest
           old == bal[<<home0, t0, s>>]
           before == mid[<<home0, t0, d>>]
           v == AtMost(before + a)
           cut == d # s /\ bal[<<home0, t0, d>>] + a > MaxToken
<1>1. d \in Subnets
  BY HeadOK
<1>2. /\ home0 \in Subnets /\ t0 \in Tokens /\ a \in Nat /\ old \in Nat
      /\ \A t \in Tokens : Registers(c, t) = {}
      /\ \A home \in Subnets, t \in Tokens : Total(c, "mint", home, t) = 0
      /\ Total(c, "burn", home0, t0) + Total(c, "send", home0, t0) <= old - a
      /\ \A home \in Subnets, t \in Tokens : ~(home = home0 /\ t = t0) =>
           Total(c, "burn", home, t) + Total(c, "send", home, t) <= bal[<<home, t, s>>]
      /\ OneEach(c)
  BY Covered
<1>3. Changed(bal, mid, home0, t0, s, old - a) /\ Changed(mid, new, home0, t0, d, v)
  OBVIOUS
<1>4. ASSUME NEW home \in Subnets, NEW t \in Tokens
      PROVE  /\ Total(c, "register", home, t) \in Nat /\ Total(c, "mint", home, t) \in Nat
             /\ Total(c, "burn", home, t) \in Nat /\ Total(c, "send", home, t) \in Nat
             /\ Total(b, "register", home, t) = Total(c, "register", home, t) + 0
             /\ Total(b, "mint", home, t) = Total(c, "mint", home, t) + 0
             /\ Total(b, "burn", home, t) = Total(c, "burn", home, t) + 0
  <2>1. /\ \A op : Total(b, op, home, t) \in Nat /\ Total(c, op, home, t) \in Nat
        /\ \A op : Total(b, op, home, t) = Total(c, op, home, t)
              + (IF Head(b).op = op /\ Head(b).home = home /\ Head(b).token = t THEN Head(b).amount ELSE 0)
    BY RestTotals
  <2> QED BY <2>1
<1>5. old <= MaxToken /\ MaxToken \in Nat
  BY <1>2, BalanceNat, LedgerConstants
<1>6. bal[<<home0, t0, d>>] \in Nat
  BY <1>1, <1>2, BalanceNat
<1>7. mid \in Balances /\ new \in Balances
  BY <1>3 DEF Changed
<1>8. before \in Nat /\ before <= MaxToken
  BY <1>1, <1>2, <1>7, BalanceNat
<1>9. before = IF d = s THEN old - a ELSE bal[<<home0, t0, d>>]
  BY <1>1, <1>2, <1>3 DEF Changed
<1>10. cut <=> (d # s /\ before + a > MaxToken)
  BY <1>9
<1> HIDE DEF c, home0, t0, a, d, old, before, cut
<1>11. /\ v \in 0..MaxToken /\ v \in Int /\ v <= before + a
       /\ before + a <= MaxToken => v = before + a
  BY <1>2, <1>5, <1>8, AtMostIs
<1> HIDE DEF v
<1>12. old - a \in 0..MaxToken
  <2>1. Total(c, "burn", home0, t0) \in Nat /\ Total(c, "send", home0, t0) \in Nat
    BY <1>2, <1>4
  <2> QED BY <1>2, <1>5, <2>1
\* A subnet that sends to itself has what it had.
<1>13. d = s => v = old
  BY <1>2, <1>5, <1>9, <1>11
<1>14. ASSUME NEW home \in Subnets, NEW t \in Tokens
       PROVE  Total(c, "burn", home, t) + Total(c, "send", home, t) <= new[<<home, t, s>>]
  <2> DEFINE D == Total(c, "burn", home, t) + Total(c, "send", home, t)
  <2>1. CASE home = home0 /\ t = t0
    <3>1. mid[<<home, t, s>>] = old - a
      BY <1>3, <2>1 DEF Changed
    <3>2. new[<<home, t, s>>] = IF d = s THEN old ELSE old - a
      BY <1>3, <1>13, <2>1, <3>1 DEF Changed
    <3>3. D <= old - a
      BY <1>2, <2>1
    <3>4. D \in Nat
      BY <1>4
    <3> HIDE DEF D
    <3>5. D <= old
      BY <1>2, <3>3, <3>4
    <3>6. D <= new[<<home, t, s>>]
      BY <3>2, <3>3, <3>5
    <3> QED BY <3>6 DEF D
  <2>2. CASE ~(home = home0 /\ t = t0)
    <3>1. mid[<<home, t, s>>] = bal[<<home, t, s>>]
      BY <1>3, <2>2 DEF Changed
    <3>2. new[<<home, t, s>>] = bal[<<home, t, s>>]
      BY <1>3, <2>2, <3>1 DEF Changed
    <3> QED BY <1>2, <2>2, <3>2
  <2> QED BY <2>1, <2>2
<1>15. RestValid(s, c, new)
  BY <1>2, <1>7, <1>14, OnlyDebits
<1>16. ASSUME NEW home \in Subnets, NEW t \in Tokens
       PROVE  /\ SumBal(new, home, t) + Issues(c, home, t) <= SumBal(bal, home, t) + Issues(b, home, t)
              /\ ~cut =>
                   SumBal(new, home, t) + Issues(c, home, t) = SumBal(bal, home, t) + Issues(b, home, t)
  <2> DEFINE H == SumBal(bal, home, t)
             I == Issues(c, home, t)
  <2>1. Issues(b, home, t) = I /\ I \in Int /\ H \in Int
    <3>1. /\ Total(b, "register", home, t) = Total(c, "register", home, t)
          /\ Total(b, "mint", home, t) = Total(c, "mint", home, t)
          /\ Total(b, "burn", home, t) = Total(c, "burn", home, t)
      BY <1>4
    <3>2. I \in Int
      BY <1>4 DEF Issues
    <3> QED BY <3>1, <3>2, SumBalInts DEF Issues
  <2>2. CASE home = home0 /\ t = t0
    <3>1. SumBal(mid, home, t) = H + ((old - a) - bal[<<home0, t0, s>>])
      <4>1. SumBal(mid, home0, t0) = SumBal(bal, home0, t0) + ((old - a) - bal[<<home0, t0, s>>])
        BY <1>2, <1>3, <1>12, SumBalChanged
      <4> QED BY <2>2, <4>1
    <3>2. SumBal(new, home, t) = SumBal(mid, home, t) + (v - mid[<<home0, t0, d>>])
      <4>1. SumBal(new, home0, t0) = SumBal(mid, home0, t0) + (v - mid[<<home0, t0, d>>])
        BY <1>1, <1>2, <1>3, <1>7, <1>11, SumBalChanged
      <4> QED BY <2>2, <4>1
    <3>3. bal[<<home0, t0, s>>] = old /\ mid[<<home0, t0, d>>] = before
      BY DEF old, before
    <3>4. SumBal(new, home, t) = H + ((old - a) - old) + (v - before)
      BY <3>1, <3>2, <3>3
    <3> HIDE DEF H, I
    <3>5. H + ((old - a) - old) + (v - before) + I <= H + I
      BY <1>2, <1>8, <1>11, <2>1
    <3>6. ASSUME ~cut PROVE H + ((old - a) - old) + (v - before) + I = H + I
      <4>1. v = before + a
        <5>1. CASE d = s
          BY <1>2, <1>9, <1>13, <5>1
        <5>2. CASE d # s
          <6>1. before + a <= MaxToken
            BY <1>2, <1>5, <1>8, <1>10, <3>6, <5>2
          <6> QED BY <1>11, <6>1
        <5> QED BY <5>1, <5>2
      <4> QED BY <1>2, <1>8, <2>1, <4>1
    <3> QED BY <2>1, <3>4, <3>5, <3>6 DEF H, I
  <2>3. CASE ~(home = home0 /\ t = t0)
    <3>1. SumBal(mid, home, t) = H
      <4>1. OthersSame(bal, mid, home0, t0)
        BY <1>2, <1>3, <1>12, SumBalChanged
      <4> QED BY <2>3, <4>1 DEF OthersSame
    <3>2. SumBal(new, home, t) = SumBal(mid, home, t)
      <4>1. OthersSame(mid, new, home0, t0)
        BY <1>1, <1>2, <1>3, <1>7, <1>11, SumBalChanged
      <4> QED BY <2>3, <4>1 DEF OthersSame
    <3> HIDE DEF H, I
    <3>3. H + I \in Int
      BY <2>1
    <3> QED BY <2>1, <3>1, <3>2, <3>3 DEF H, I
  <2> QED BY <2>2, <2>3
<1>17. Conserves(b, bal, c, new, ~cut)
  BY <1>16 DEF Conserves
<1> QED BY <1>15, <1>17 DEF c, cut, home0, t0, d, a

\* Moved, as the two changes.
LEMMA MovedIs ==
  ASSUME NEW bal \in Balances, NEW r \in Records, r.token \in Tokens, Source \in Subnets,
         bal[<<r.home, r.token, Source>>] >= r.amount
  PROVE  \E mid :
           /\ Changed(bal, mid, r.home, r.token, Source, bal[<<r.home, r.token, Source>>] - r.amount)
           /\ Changed(mid, Moved(bal, r), r.home, r.token, r.dest,
                      AtMost(mid[<<r.home, r.token, r.dest>>] + r.amount))
<1> DEFINE k == <<r.home, r.token, Source>>
           j == <<r.home, r.token, r.dest>>
           mid == [bal EXCEPT ![k] = bal[k] - r.amount]
           v == AtMost(mid[j] + r.amount)
           new == [mid EXCEPT ![j] = v]
<1>1. r.home \in Subnets /\ r.dest \in Subnets /\ r.amount \in Nat
  BY DEF Records
<1>2. bal[k] \in Nat /\ bal[k] <= MaxToken
  BY <1>1, BalanceNat
<1>3. bal[k] - r.amount \in 0..MaxToken
  BY <1>1, <1>2, LedgerConstants
<1>4. Changed(bal, mid, r.home, r.token, Source, bal[k] - r.amount)
  BY <1>1, <1>3, ChangeIs
<1>5. mid \in Balances
  BY <1>4 DEF Changed
<1>6. mid[j] \in Nat
  <2> HIDE DEF mid
  <2> QED BY <1>1, <1>5, BalanceNat
<1>7. v \in 0..MaxToken
  <2> DEFINE n == mid[j] + r.amount
  <2>1. n \in Int /\ n >= 0
    <3> HIDE DEF mid, j
    <3> QED BY <1>1, <1>6
  <2> HIDE DEF n
  <2>2. AtMost(n) \in 0..MaxToken
    BY <2>1, AtMostIs
  <2> QED BY <2>2 DEF n
<1>8. Changed(mid, new, r.home, r.token, r.dest, v)
  <2> HIDE DEF mid, v
  <2> QED BY <1>1, <1>5, <1>7, ChangeIs
<1>9. Moved(bal, r) = new
  BY DEF Moved
<1> HIDE DEF mid, new, v
<1> QED BY <1>4, <1>8, <1>9, Zenon DEF v

----------------------------------------------------------------------------
(* The batch at hand.                                                      *)

\* The batch of the message at hand, as from_tx parses it.
Whole == Parsed(proposals[block[next].tx].batch)

LEMMA WholeIs ==
  ASSUME BlockInv, At("batch")
  PROVE  /\ Source \in Subnets /\ block[next] \in Messages
         /\ block[next].tx \in DOMAIN proposals /\ Source = proposals[block[next].tx].subnet
         /\ Whole \in Seq(Records) /\ InOrder(Whole) \in Seq(Records)
         /\ BatchOK(Source, InOrder(Whole)) /\ InTurn(InOrder(Whole))
         /\ \E m : Places(InOrder(Whole), Whole, m, DOMAIN Whole)
<1> DEFINE m == block[next]
           p == proposals[m.tx]
<1>1. next \in DOMAIN block /\ m.kind = "batch" /\ block \in Seq(Messages)
  BY DEF At, BlockInv
<1>2. m \in Messages
  BY <1>1
<1>3. Source \in Subnets
  BY <1>2 DEF Messages, Source
<1>4. m.tx \in DOMAIN proposals /\ Source = p.subnet
  BY <1>1 DEF BlockInv, Placed, Source
<1>5. Planned(Source, p.batch)
  BY <1>4 DEF BlockInv
<1>6. BatchOK(Source, p.batch)
  BY <1>5, PlannedBatch
<1>7. BatchOK(Source, Whole)
  BY <1>6, ParsedBatch DEF Whole
<1>8. Whole \in Seq(Records)
  BY <1>7 DEF BatchOK
<1> HIDE DEF m, p
<1>9. /\ InOrder(Whole) \in Seq(Records) /\ InTurn(InOrder(Whole))
      /\ \E f : Places(InOrder(Whole), Whole, f, DOMAIN Whole)
  BY <1>8, InOrderIs
<1>10. BatchOK(Source, InOrder(Whole))
  BY <1>7, <1>9, PlacesBatch
<1> QED BY <1>2, <1>3, <1>4, <1>8, <1>9, <1>10 DEF m, p

LEMMA AtMostOne ==
  ASSUME NEW S, IsFiniteSet(S), Cardinality(S) <= 1, NEW x \in S, NEW y \in S
  PROVE  x = y
<1>1. Cardinality(S) \in Nat /\ Cardinality(S \ {x}) = Cardinality(S) - 1 /\ IsFiniteSet(S \ {x})
  BY FS_CardinalityType, FS_RemoveElement
<1>2. Cardinality(S \ {x}) \in Nat
  BY <1>1, FS_CardinalityType
<1>3. Cardinality(S \ {x}) = 0
  BY <1>1, <1>2
<1>4. S \ {x} = {}
  BY <1>1, <1>3, FS_EmptySet
<1> QED BY <1>4

\* The validation speaks of the batch in the order it is written, too.
LEMMA ValidInOrder ==
  ASSUME NEW s, NEW b \in Seq(Records), NEW p \in Seq(Records), \E f : Places(p, b, f, DOMAIN b),
         ValidateErcBatchData(s, b)
  PROVE  RestValid(s, p, balance)
<1>1. PICK f : Places(p, b, f, DOMAIN b)
  OBVIOUS
<1>0. DOMAIN p = 1..Len(p)
  OBVIOUS
<1>2. /\ f \in [DOMAIN p -> DOMAIN b]
      /\ \A j, k \in DOMAIN p : f[j] = f[k] => j = k
      /\ \A i \in DOMAIN b : \E k \in DOMAIN p : f[k] = i
      /\ \A k \in DOMAIN p : p[k] = b[f[k]]
  BY <1>0, <1>1, Zenon DEF Places
<1>3. \A op, home, t : Total(p, op, home, t) = Total(b, op, home, t)
  BY <1>1, TotalPlaced
<1>4. ASSUME NEW t \in Tokens, NEW i \in Registers(p, t) PROVE f[i] \in Registers(b, t)
  BY <1>2 DEF Registers
<1>5. ASSUME NEW t \in Tokens PROVE (Registers(p, t) # {}) <=> (Registers(b, t) # {})
  <2>1. ASSUME NEW i \in Registers(b, t) PROVE Registers(p, t) # {}
    BY <1>2 DEF Registers
  <2> QED BY <1>4, <2>1
<1>6. ASSUME NEW t \in Tokens, NEW i \in Registers(p, t), NEW j \in Registers(p, t) PROVE i = j
  <2>1. Cardinality(Registers(b, t)) <= 1
    BY DEF ValidateErcBatchData
  <2>2. IsFiniteSet(1..Len(b))
    <3>1. 1 \in Int /\ Len(b) \in Int
      OBVIOUS
    <3> QED BY <3>1, FS_Interval
  <2>6. Registers(b, t) \subseteq 1..Len(b)
    BY DEF Registers
  <2>3. IsFiniteSet(Registers(b, t))
    BY <2>2, <2>6, FS_Subset
  <2>4. f[i] = f[j]
    BY <1>4, <2>1, <2>3, AtMostOne
  <2>5. i \in DOMAIN p /\ j \in DOMAIN p
    BY DEF Registers
  <2> QED BY <1>2, <2>4, <2>5
<1>7. ASSUME NEW t \in Tokens, Registers(p, t) # {} PROVE balance[<<s, t, s>>] = 0
  BY <1>5, <1>7 DEF ValidateErcBatchData
<1>8. ASSUME NEW home \in Subnets, NEW t \in Tokens PROVE Affords(s, p, balance, home, t)
  <2>1. Total(b, "burn", home, t) + Total(b, "send", home, t) <= Supplied(s, b, home, t)
    BY DEF ValidateErcBatchData
  <2>2. Base(s, p, balance, home, t) =
          IF home = s /\ Registers(b, t) # {} THEN Total(b, "register", s, t) ELSE balance[<<home, t, s>>]
    BY <1>3, <1>5 DEF Base
  <2> QED BY <1>3, <2>1, <2>2 DEF Affords, Supplied
<1> QED BY <1>6, <1>7, <1>8 DEF RestValid, OneEach

LEMMA IssuesInt ==
  ASSUME NEW b \in Seq(Records), NEW home, NEW t
  PROVE  Issues(b, home, t) \in Int
<1>1. /\ Total(b, "register", home, t) \in Nat /\ Total(b, "mint", home, t) \in Nat
      /\ Total(b, "burn", home, t) \in Nat
  BY TotalIs
<1> QED BY <1>1 DEF Issues

LEMMA ConservesSelf ==
  ASSUME NEW b \in Seq(Records), NEW bal \in Balances, NEW exact
  PROVE  Conserves(b, bal, b, bal, exact)
<1>1. ASSUME NEW home \in Subnets, NEW t \in Tokens
      PROVE  SumBal(bal, home, t) + Issues(b, home, t) \in Int
  <2>1. SumBal(bal, home, t) \in Int
    BY SumBalInts
  <2>2. Issues(b, home, t) \in Int
    BY IssuesInt
  <2> QED BY <2>1, <2>2
<1> QED BY <1>1 DEF Conserves

\* What is left of the batch would still pass the validation with the balances written
\* so far, and tokens are lost only where an amount was cut.
BatchInv ==
  txn.open =>
    /\ BatchOK(Source, txn.todo) /\ InTurn(txn.todo)
    /\ txn.balance \in Balances /\ txn.clamped \in BOOLEAN
    /\ RestValid(Source, txn.todo, txn.balance)
    /\ Conserves(InOrder(Whole), balance, txn.todo, txn.balance, ~txn.clamped)

LEMMA BeginBatchInv ==
  ASSUME BlockInv, balance \in Balances, BeginBatch
  PROVE  BatchInv'
<1> DEFINE t0 == [open |-> TRUE, todo |-> InOrder(Whole), msgs |-> msgs, balance |-> balance,
                  clamped |-> FALSE]
<1>1. /\ next \in 1..Len(block) /\ block[next].kind = "batch" /\ BatchValid(block[next])
      /\ txn' = t0
      /\ block' = block /\ next' = next /\ status' = status /\ proposals' = proposals
      /\ balance' = balance
  BY DEF BeginBatch, Handling, blockVars, Whole
<1>2. At("batch")
  BY <1>1 DEF At, BlockInv
<1>3. /\ BatchOK(Source, InOrder(Whole)) /\ InTurn(InOrder(Whole))
      /\ Whole \in Seq(Records) /\ InOrder(Whole) \in Seq(Records)
      /\ \E m : Places(InOrder(Whole), Whole, m, DOMAIN Whole)
  BY <1>2, WholeIs
<1>4. ValidateErcBatchData(Source, Whole)
  BY <1>1 DEF BatchValid, Source, Whole
<1>5. RestValid(Source, InOrder(Whole), balance)
  BY <1>3, <1>4, ValidInOrder
<1>6. Conserves(InOrder(Whole), balance, InOrder(Whole), balance, ~FALSE)
  BY <1>3, ConservesSelf
<1>7. Source' = Source /\ Whole' = Whole
  BY <1>1 DEF Source, Whole, Parsed, Known
<1>8. /\ txn'.todo = InOrder(Whole) /\ txn'.balance = balance /\ txn'.clamped = FALSE
  BY <1>1
<1>9. FALSE \in BOOLEAN
  OBVIOUS
<1> QED BY <1>1, <1>3, <1>5, <1>6, <1>7, <1>8, <1>9 DEF BatchInv

\* A record is written and the transaction goes on.
Advanced(new, cut) ==
  /\ new \in Balances /\ cut \in BOOLEAN
  /\ RestValid(Source, Tail(txn.todo), new)
  /\ Conserves(txn.todo, txn.balance, Tail(txn.todo), new, ~cut)
  /\ UNCHANGED <<next, aborted>>
  /\ \E boxes : Wrote(boxes, new, cut)

\* No write of a batch that passed its validation fails.
LEMMA WritesAdvance ==
  ASSUME BlockInv, PlaceInv, MessageInv, BatchInv,
         WriteFund \/ WriteRegistration \/ WriteMint \/ WriteBurn \/ WriteSend
  PROVE  \E new, cut : Advanced(new, cut)
<1> DEFINE s == Source
           b == txn.todo
           bal == txn.balance
           r == Head(b)
<1>1. txn.open /\ b # <<>>
  BY DEF WriteFund, WriteRegistration, WriteMint, WriteBurn, WriteSend, Writing
<1>2. At("batch")
  BY <1>1 DEF PlaceInv, NoTxn
<1>3. s \in Subnets
  BY <1>2, WholeIs
<1>4. BatchOK(s, b) /\ InTurn(b) /\ bal \in Balances /\ RestValid(s, b, bal)
  BY <1>1 DEF BatchInv
<1>5. /\ r.op \in {"register", "mint", "burn"} => r.home = s
      /\ r.op # "fund" => r.token \in Tokens /\ r.amount \in 0..MaxToken
      /\ r.home \in Subnets /\ r.dest \in Subnets /\ r.amount \in Nat
      /\ r \in Records
  BY <1>1, <1>4, HeadOK
<1>6. TRUE \in BOOLEAN /\ FALSE \in BOOLEAN /\ (~FALSE) = TRUE
  OBVIOUS
<1>7. CASE WriteFund
  <2>1. Write(Post(txn.msgs, r.dest, r), bal, FALSE) /\ r.op = "fund" /\ UNCHANGED <<next, aborted>>
    BY <1>7 DEF WriteFund, Writing
  <2>2. Wrote(Post(txn.msgs, r.dest, r), bal, FALSE)
    BY <1>1, <2>1, WriteIs
  <2>3. RestValid(s, Tail(b), bal) /\ Conserves(b, bal, Tail(b), bal, TRUE)
    BY <1>1, <1>3, <1>4, <2>1, FundStep
  <2>4. Advanced(bal, FALSE)
    BY <1>4, <1>6, <2>1, <2>2, <2>3, Zenon DEF Advanced
  <2> QED BY <2>4
<1>8. CASE WriteRegistration
  <2> DEFINE boxes == [d \in Subnets |-> IF d \in FanOut THEN Post(txn.msgs, d, r)[d] ELSE txn.msgs[d]]
             new == [bal EXCEPT ![<<s, r.token, s>>] = r.amount]
  <2>1. Write(boxes, new, FALSE) /\ r.op = "register" /\ UNCHANGED <<next, aborted>>
    BY <1>8 DEF WriteRegistration, Writing
  <2>2. Wrote(boxes, new, FALSE)
    BY <1>1, <2>1, WriteIs
  <2>3. Changed(bal, new, s, r.token, s, r.amount)
    BY <1>3, <1>4, <1>5, <2>1, ChangeIs
  <2>4. new \in Balances
    BY <2>3 DEF Changed
  <2> HIDE DEF boxes, new
  <2>5. RestValid(s, Tail(b), new) /\ Conserves(b, bal, Tail(b), new, TRUE)
    BY <1>1, <1>3, <1>4, <2>1, <2>3, RegisterStep
  <2>6. Advanced(new, FALSE)
    BY <1>6, <2>1, <2>2, <2>4, <2>5, Zenon DEF Advanced
  <2> QED BY <2>6
<1>9. CASE WriteMint
  <2> DEFINE sum == bal[<<s, r.token, s>>] + r.amount
             new == [bal EXCEPT ![<<s, r.token, s>>] = AtMost(sum)]
  <2>1. Write(txn.msgs, new, sum > MaxToken) /\ r.op = "mint" /\ UNCHANGED <<next, aborted>>
    BY <1>9 DEF WriteMint, Writing
  <2>2. Wrote(txn.msgs, new, sum > MaxToken)
    BY <1>1, <2>1, WriteIs
  <2>3. bal[<<s, r.token, s>>] \in Nat
    BY <1>3, <1>4, <1>5, <2>1, BalanceNat
  <2>4. sum \in Int /\ sum >= 0
    BY <1>5, <2>3
  <2>5. AtMost(sum) \in 0..MaxToken
    <3> HIDE DEF sum
    <3> QED BY <2>4, AtMostIs
  <2>6. Changed(bal, new, s, r.token, s, AtMost(sum))
    <3> HIDE DEF sum
    <3> QED BY <1>3, <1>4, <1>5, <2>1, <2>5, ChangeIs
  <2>7. new \in Balances
    BY <2>6 DEF Changed
  <2> HIDE DEF new
  <2>8. RestValid(s, Tail(b), new) /\ Conserves(b, bal, Tail(b), new, ~(sum > MaxToken))
    BY <1>1, <1>3, <1>4, <2>1, <2>6, MintStep
  <2>9. (sum > MaxToken) \in BOOLEAN
    OBVIOUS
  <2> HIDE DEF sum
  <2>10. Advanced(new, sum > MaxToken)
    BY <2>1, <2>2, <2>7, <2>8, <2>9, Zenon DEF Advanced
  <2> QED BY <2>10
<1>10. CASE WriteBurn
  <2> DEFINE new == [bal EXCEPT ![<<s, r.token, s>>] = bal[<<s, r.token, s>>] - r.amount]
             c == Tail(b)
  <2>1. r.op = "burn"
    BY <1>10 DEF WriteBurn, Writing
  <2>2. r.home = s /\ r.token \in Tokens
    BY <1>5, <2>1
  <2>3. /\ bal[<<s, r.token, s>>] \in Nat
        /\ Total(c, "burn", s, r.token) + Total(c, "send", s, r.token) <= bal[<<s, r.token, s>>] - r.amount
    BY <1>1, <1>3, <1>4, <2>1, <2>2, Covered
  <2>4. Total(c, "burn", s, r.token) \in Nat /\ Total(c, "send", s, r.token) \in Nat
    BY <1>1, <1>4, RestTotals
  <2>5. bal[<<s, r.token, s>>] >= r.amount
    <3> HIDE DEF c, bal, s, r
    <3> QED BY <1>5, <2>3, <2>4
  <2>6. Write(txn.msgs, new, FALSE) /\ UNCHANGED <<next, aborted>>
    BY <1>10, <2>5 DEF WriteBurn
  <2>7. Wrote(txn.msgs, new, FALSE)
    BY <1>1, <2>6, WriteIs
  <2>8. bal[<<s, r.token, s>>] - r.amount \in 0..MaxToken
    <3>1. bal[<<s, r.token, s>>] <= MaxToken
      BY <1>3, <1>4, <2>2, BalanceNat
    <3> HIDE DEF bal, s, r
    <3> QED BY <1>5, <2>3, <2>5, <3>1, LedgerConstants
  <2>9. Changed(bal, new, s, r.token, s, bal[<<s, r.token, s>>] - r.amount)
    BY <1>3, <1>4, <2>2, <2>8, ChangeIs
  <2>10. new \in Balances
    BY <2>9 DEF Changed
  <2> HIDE DEF new
  <2>11. RestValid(s, Tail(b), new) /\ Conserves(b, bal, Tail(b), new, TRUE)
    BY <1>1, <1>3, <1>4, <2>1, <2>9, BurnStep
  <2>12. Advanced(new, FALSE)
    BY <1>6, <2>6, <2>7, <2>10, <2>11, Zenon DEF Advanced
  <2> QED BY <2>12
<1>11. CASE WriteSend
  <2> DEFINE new == Moved(bal, r)
             c == Tail(b)
             B == bal[<<r.home, r.token, s>>]
             cut == r.dest # s /\ bal[<<r.home, r.token, r.dest>>] + r.amount > MaxToken
  <2>1. r.op = "send"
    BY <1>11 DEF WriteSend, Writing
  <2>2. r.token \in Tokens
    BY <1>5, <2>1
  <2>3. B \in Nat /\ Total(c, "burn", r.home, r.token) + Total(c, "send", r.home, r.token) <= B - r.amount
    BY <1>1, <1>3, <1>4, <2>1, Covered
  <2>4. Total(c, "burn", r.home, r.token) \in Nat /\ Total(c, "send", r.home, r.token) \in Nat
    BY <1>1, <1>4, RestTotals
  <2>5. B >= r.amount
    <3> HIDE DEF c, B, r
    <3> QED BY <1>5, <2>3, <2>4
  <2>6. Write(Post(txn.msgs, r.dest, r), new, cut) /\ UNCHANGED <<next, aborted>>
    BY <1>11, <2>5 DEF WriteSend
  <2>7. Wrote(Post(txn.msgs, r.dest, r), new, cut)
    BY <1>1, <2>6, WriteIs
  <2>8. PICK mid :
          /\ Changed(bal, mid, r.home, r.token, s, bal[<<r.home, r.token, s>>] - r.amount)
          /\ Changed(mid, new, r.home, r.token, r.dest, AtMost(mid[<<r.home, r.token, r.dest>>] + r.amount))
    BY <1>3, <1>4, <1>5, <2>2, <2>5, MovedIs
  <2>9. new \in Balances
    BY <2>8 DEF Changed
  <2> HIDE DEF new
  <2>10. RestValid(s, Tail(b), new) /\ Conserves(b, bal, Tail(b), new, ~cut)
    BY <1>1, <1>3, <1>4, <2>1, <2>8, SendStep
  <2>11. cut \in BOOLEAN
    OBVIOUS
  <2> HIDE DEF cut
  <2>12. Advanced(new, cut)
    BY <2>6, <2>7, <2>9, <2>10, <2>11, Zenon DEF Advanced
  <2> QED BY <2>12
<1> QED BY <1>7, <1>8, <1>9, <1>10, <1>11

LEMMA StepBatch ==
  ASSUME BlockInv, PlaceInv, MessageInv, BatchInv, balance \in Balances, [Next]_vars
  PROVE  BatchInv'
<1>1. ASSUME txn' = NoTxn PROVE BatchInv'
  BY <1>1 DEF BatchInv, NoTxn
<1>2. ASSUME ~txn.open, txn' = txn PROVE BatchInv'
  BY <1>2 DEF BatchInv
\* The transaction is left alone, and so is what it writes.
<1>3. ASSUME txn' = txn, block' = block, next' = next, status' = status, balance' = balance,
             At("batch") => proposals'[block[next].tx].batch = proposals[block[next].tx].batch
      PROVE  BatchInv'
  <2>1. CASE ~txn.open
    BY <1>2, <1>3, <2>1
  <2>2. CASE txn.open
    <3>1. At("batch")
      BY <2>2 DEF PlaceInv, NoTxn
    <3>2. Source' = Source /\ Whole' = Whole
      BY <1>3, <3>1 DEF Source, Whole, Parsed, Known
    <3> QED BY <1>3, <3>2 DEF BatchInv
  <2> QED BY <2>1, <2>2
<1>4. CASE UNCHANGED vars
  BY <1>3, <1>4 DEF vars, blockVars
<1>5. ASSUME NEW p \in Plans, Propose(p.subnet, p.batch, p.conf) PROVE BatchInv'
  <2>1. /\ txn' = txn /\ block' = block /\ next' = next /\ status' = status /\ balance' = balance
        /\ \E q : proposals' = Append(proposals, q)
    BY <1>5 DEF Propose, blockVars
  <2>2. ASSUME At("batch")
        PROVE  proposals'[block[next].tx].batch = proposals[block[next].tx].batch
    <3>1. block[next].tx \in DOMAIN proposals /\ proposals \in Seq(Proposals)
      BY <2>2, WholeIs DEF BlockInv
    <3>2. proposals'[block[next].tx] = proposals[block[next].tx]
      BY <2>1, <3>1
    <3> QED BY <3>2
  <2> QED BY <1>3, <2>1, <2>2
<1>6. CASE Bitcoin
  <2>1. next = 0 /\ txn' = txn
    BY <1>6 DEF Bitcoin, MineMessage, MineProposal, Mined
  <2>2. ~At("batch")
    BY <2>1 DEF At, BlockInv
  <2>3. ~txn.open
    BY <2>2 DEF PlaceInv, NoTxn
  <2> QED BY <1>2, <2>1, <2>3
<1>7. CASE StartBlock \/ SaveTransaction \/ EndBlock
  <2>1. txn' = txn /\ (next = 0 \/ half \/ next = Len(block) + 1)
    BY <1>7 DEF StartBlock, SaveTransaction, EndBlock
  <2>2. half => At("checkpoint")
    BY DEF PlaceInv
  <2>3. ~At("batch")
    <3>1. DOMAIN block = 1..Len(block) /\ Len(block) \in Nat
      BY DEF BlockInv
    <3> QED BY <2>1, <2>2, <3>1 DEF At
  <2>4. ~txn.open
    BY <2>3 DEF PlaceInv, NoTxn
  <2> QED BY <1>2, <2>1, <2>4
<1>8. CASE HandlePrefund \/ HandleFund \/ HandleStatus \/ HandleCheckpoint \/ Refuse
  <2>1. txn' = txn /\ ~txn.open
    BY <1>8 DEF HandlePrefund, HandleFund, HandleStatus, HandleCheckpoint, Refuse, Handling
  <2> QED BY <1>2, <2>1
<1>9. CASE BeginBatch
  BY <1>9, BeginBatchInv
<1>10. CASE WriteFund \/ WriteRegistration \/ WriteMint \/ WriteBurn \/ WriteSend
  <2>1. PICK new, cut : Advanced(new, cut)
    BY <1>10, WritesAdvance
  <2>2. WriteStep
    BY <1>10, Writes
  <2>3. /\ txn.open /\ txn.todo # <<>> /\ block' = block /\ status' = status
        /\ proposals' = proposals /\ balance' = balance
    BY <2>2 DEF WriteStep, restOfWrite
  <2>4. /\ next' = next /\ txn'.todo = Tail(txn.todo) /\ txn'.balance = new
        /\ txn'.clamped = (txn.clamped \/ cut)
    BY <2>1 DEF Advanced, Wrote
  <2>5. Source' = Source /\ Whole' = Whole
    BY <2>3, <2>4 DEF Source, Whole, Parsed, Known
  <2>6. /\ BatchOK(Source, txn.todo) /\ InTurn(txn.todo) /\ txn.balance \in Balances
        /\ txn.clamped \in BOOLEAN
        /\ Conserves(InOrder(Whole), balance, txn.todo, txn.balance, ~txn.clamped)
    BY <2>3 DEF BatchInv
  <2>7. BatchOK(Source, Tail(txn.todo)) /\ InTurn(Tail(txn.todo))
    BY <2>3, <2>6, RestBatch
  <2>8. At("batch")
    BY <2>3 DEF PlaceInv, NoTxn
  <2>9. InOrder(Whole) \in Seq(Records) /\ txn.todo \in Seq(Records) /\ Tail(txn.todo) \in Seq(Records)
    BY <2>6, <2>7, <2>8, WholeIs DEF BatchOK
  <2>10. /\ new \in Balances /\ cut \in BOOLEAN
         /\ RestValid(Source, Tail(txn.todo), new)
         /\ Conserves(txn.todo, txn.balance, Tail(txn.todo), new, ~cut)
    BY <2>1 DEF Advanced
  <2>11. Conserves(InOrder(Whole), balance, Tail(txn.todo), new, ~(txn.clamped \/ cut))
    <3> SUFFICES ASSUME NEW home \in Subnets, NEW t \in Tokens
                 PROVE  /\ SumBal(new, home, t) + Issues(Tail(txn.todo), home, t)
                             <= SumBal(balance, home, t) + Issues(InOrder(Whole), home, t)
                        /\ ~(txn.clamped \/ cut) =>
                             SumBal(new, home, t) + Issues(Tail(txn.todo), home, t)
                               = SumBal(balance, home, t) + Issues(InOrder(Whole), home, t)
      BY DEF Conserves
    <3> DEFINE x == SumBal(balance, home, t) + Issues(InOrder(Whole), home, t)
               y == SumBal(txn.balance, home, t) + Issues(txn.todo, home, t)
               z == SumBal(new, home, t) + Issues(Tail(txn.todo), home, t)
    <3>1. x \in Int /\ y \in Int /\ z \in Int
      <4>1. /\ SumBal(balance, home, t) \in Int /\ SumBal(txn.balance, home, t) \in Int
            /\ SumBal(new, home, t) \in Int
        BY <2>6, <2>10, SumBalInts
      <4>2. /\ Issues(InOrder(Whole), home, t) \in Int /\ Issues(txn.todo, home, t) \in Int
            /\ Issues(Tail(txn.todo), home, t) \in Int
        BY <2>9, IssuesInt
      <4> QED BY <4>1, <4>2
    <3>2. y <= x /\ (~txn.clamped => y = x)
      BY <2>6, Zenon DEF Conserves
    <3>3. z <= y /\ (~cut => z = y)
      BY <2>10, Zenon DEF Conserves
    <3> HIDE DEF x, y, z
    <3>4. z <= x /\ (~(txn.clamped \/ cut) => z = x)
      BY <3>1, <3>2, <3>3
    <3> QED BY <3>4 DEF x, z
  <2>12. (txn.clamped \/ cut) \in BOOLEAN
    BY <2>6, <2>10
  <2> QED BY <2>3, <2>4, <2>5, <2>7, <2>10, <2>11, <2>12 DEF BatchInv
<1>11. CASE CommitBatch \/ Crash
  BY <1>1, <1>11 DEF CommitBatch, Crash
<1>12. ASSUME NEW s \in Readers, ChildRead(s) PROVE BatchInv'
  BY <1>3, <1>12 DEF ChildRead, blockVars
<1> QED BY <1>4, <1>5, <1>6, <1>7, <1>8, <1>9, <1>10, <1>11, <1>12 DEF Next, Monitor

----------------------------------------------------------------------------
(* Balances and supply.                                                    *)

LedgerInv ==
  /\ balance \in Balances /\ clamped \in BOOLEAN
  /\ ~aborted
  /\ SupplyConserved

IssuesOf(home, t) == [k \in DOMAIN applied |-> Issues(applied[k].batch, home, t)]

LEMMA IssuedIs ==
  ASSUME applied \in Seq(Effects), NEW home, NEW t
  PROVE  /\ Issued(home, t) = SumFunctionOnSet(IssuesOf(home, t), 1..Len(applied))
         /\ Ints(IssuesOf(home, t), 1..Len(applied))
         /\ Issued(home, t) \in Int
<1> DEFINE f == IssuesOf(home, t)
           N == 1..Len(applied)
<1>1. DOMAIN applied = N /\ IsFiniteSet(N)
  BY FS_Interval
<1>2. ASSUME NEW k \in N PROVE f[k] \in Int
  <2>1. applied[k] \in Effects
    BY <1>1
  <2>2. applied[k].batch \in Seq(Records)
    BY <2>1 DEF Effects
  <2>3. Issues(applied[k].batch, home, t) \in Int
    BY <2>2, IssuesInt
  <2> QED BY <1>1, <2>3 DEF IssuesOf
<1>3. Issued(home, t) = SumFunctionOnSet(f, DOMAIN applied)
  BY Zenon DEF Issued, IssuesOf, Issues
<1> HIDE DEF f, N
<1>4. Ints(f, N)
  BY <1>2 DEF Ints
<1>5. SumFunctionOnSet(f, N) \in Int
  BY <1>1, <1>4, SumInt
<1> QED BY <1>1, <1>3, <1>4, <1>5 DEF f, N

LEMMA IssuedStep ==
  ASSUME applied \in Seq(Effects), NEW e \in Effects, applied' = Append(applied, e),
         NEW home, NEW t
  PROVE  Issued(home, t)' = Issued(home, t) + Issues(e.batch, home, t)
<1> DEFINE f == IssuesOf(home, t)
           g == [k \in DOMAIN applied' |-> Issues(applied'[k].batch, home, t)]
           n == Len(applied)
<1>1. /\ n \in Nat /\ applied' \in Seq(Effects) /\ Len(applied') = n + 1
      /\ DOMAIN applied' = 1..(n + 1) /\ DOMAIN applied = 1..n
      /\ \A k \in 1..n : applied'[k] = applied[k]
      /\ applied'[n + 1] = e
  OBVIOUS
<1>2. /\ Issued(home, t) = SumFunctionOnSet(f, 1..n) /\ Ints(f, 1..n)
  BY IssuedIs
<1>3. Issued(home, t)' = SumFunctionOnSet(g, DOMAIN applied')
  BY Zenon DEF Issued, Issues
<1>4. /\ \A k \in 1..n : g[k] = f[k]
      /\ g[n + 1] = Issues(e.batch, home, t)
  BY <1>1 DEF IssuesOf
<1>5. e.batch \in Seq(Records)
  BY DEF Effects
<1>6. Issues(e.batch, home, t) \in Int
  BY <1>5, IssuesInt
<1> HIDE DEF f, g, n
<1>7. Ints(g, 1..(n + 1))
  <2>1. \A k \in 1..(n + 1) : k \in 1..n \/ k = n + 1
    BY <1>1
  <2> QED BY <1>2, <1>4, <1>6, <2>1 DEF Ints
<1>8. SumFunctionOnSet(g, 1..(n + 1)) = SumFunctionOnSet(g, 1..n) + g[n + 1]
  BY <1>1, <1>7, SumLast
<1>9. SumFunctionOnSet(g, 1..n) = SumFunctionOnSet(f, 1..n)
  <2>1. IsFiniteSet(1..n)
    BY <1>1, FS_Interval
  <2> QED BY <1>2, <1>4, <2>1, SumSame
<1>10. SumFunctionOnSet(g, DOMAIN applied') = SumFunctionOnSet(g, 1..(n + 1))
  BY <1>1
<1> QED BY <1>2, <1>3, <1>4, <1>8, <1>9, <1>10

LEMMA IssuesNothing == ASSUME NEW home, NEW t PROVE Issues(<<>>, home, t) = 0
<1>1. Total(<<>>, "register", home, t) = 0 /\ Total(<<>>, "mint", home, t) = 0
      /\ Total(<<>>, "burn", home, t) = 0
  BY TotalEmpty
<1> QED BY <1>1 DEF Issues

\* An effect is added that issues what the balances have more.
LEMMA SupplyStep ==
  ASSUME applied \in Seq(Effects), LedgerInv, balance' \in Balances,
         NEW e \in Effects, applied' = Append(applied, e), NEW cut \in BOOLEAN,
         clamped' = (clamped \/ cut),
         \A home \in Subnets, t \in Tokens :
           /\ SumBal(balance', home, t) <= SumBal(balance, home, t) + Issues(e.batch, home, t)
           /\ ~cut => SumBal(balance', home, t) = SumBal(balance, home, t) + Issues(e.batch, home, t)
  PROVE  SupplyConserved'
<1> SUFFICES ASSUME NEW home \in Subnets, NEW t \in Tokens
             PROVE  /\ Held(home, t)' <= Issued(home, t)'
                    /\ ~clamped' => Held(home, t)' = Issued(home, t)'
  BY DEF SupplyConserved
<1> DEFINE x == SumBal(balance, home, t)
           y == SumBal(balance', home, t)
           I == Issued(home, t)
           d == Issues(e.batch, home, t)
<1>1. Held(home, t) = x /\ Held(home, t)' = y
  BY DEF Held, SumBal
<1>2. Issued(home, t)' = I + d
  BY IssuedStep
<1>3. x <= I /\ (~clamped => x = I) /\ clamped \in BOOLEAN
  BY <1>1 DEF LedgerInv, SupplyConserved
<1>4. y <= x + d /\ (~cut => y = x + d)
  OBVIOUS
<1>5. x \in Int /\ y \in Int
  BY SumBalInts DEF LedgerInv
<1>6. I \in Int
  BY IssuedIs
<1>7. d \in Int
  <2>1. e.batch \in Seq(Records)
    BY DEF Effects
  <2> QED BY <2>1, IssuesInt
<1> HIDE DEF x, y, I, d
<1>8. y <= I + d /\ (~(clamped \/ cut) => y = I + d)
  BY <1>3, <1>4, <1>5, <1>6, <1>7
<1> QED BY <1>1, <1>2, <1>8

LEMMA StepLedger ==
  ASSUME BlockInv, PlaceInv, StateInv, MessageInv, BatchInv, LedgerInv, applied' \in Seq(Effects),
         [Next]_vars
  PROVE  LedgerInv'
<1>1. ASSUME balance' = balance, clamped' = clamped, aborted' = aborted, applied' = applied
      PROVE  LedgerInv'
  BY <1>1 DEF LedgerInv, SupplyConserved, Held, Issued
<1>2. CASE UNCHANGED vars
  BY <1>1, <1>2 DEF vars, pastVars
<1>3. ASSUME NEW p \in Plans, Propose(p.subnet, p.batch, p.conf) PROVE LedgerInv'
  BY <1>1, <1>3 DEF Propose, pastVars
<1>4. CASE Bitcoin
  BY <1>1, <1>4 DEF Bitcoin, MineMessage, MineProposal, Mined, pastVars
<1>5. CASE StartBlock \/ HandleStatus \/ HandleCheckpoint \/ SaveTransaction \/ BeginBatch \/ Refuse
           \/ EndBlock \/ Crash
  BY <1>1, <1>5 DEF StartBlock, HandleStatus, HandleCheckpoint, SaveTransaction, BeginBatch, Refuse,
     EndBlock, Crash, pastVars
<1>6. CASE HandlePrefund \/ HandleFund
  <2> DEFINE e == Effect(block[next], <<>>)
  <2>1. /\ applied' = Append(applied, e) /\ balance' = balance /\ clamped' = clamped
        /\ aborted' = aborted
    BY <1>6 DEF HandlePrefund, HandleFund, Took
  <2>2. applied \in Seq(Effects)
    BY DEF StateInv
  <2>3. e.batch = <<>>
    BY DEF Effect
  <2> HIDE DEF e
  <2>4. e \in Effects
    <3>1. Len(applied') = Len(applied) + 1 /\ applied'[Len(applied) + 1] = e
      BY <2>1, <2>2
    <3>2. Len(applied) + 1 \in DOMAIN applied'
      BY <2>1, <2>2
    <3> QED BY <3>1, <3>2
  <2>5. balance \in Balances /\ clamped \in BOOLEAN /\ ~aborted
    BY DEF LedgerInv
  <2>6. ASSUME NEW home \in Subnets, NEW t \in Tokens
        PROVE  /\ SumBal(balance', home, t) <= SumBal(balance, home, t) + Issues(e.batch, home, t)
               /\ SumBal(balance', home, t) = SumBal(balance, home, t) + Issues(e.batch, home, t)
    <3>1. Issues(e.batch, home, t) = 0
      BY <2>3, IssuesNothing
    <3>2. SumBal(balance, home, t) \in Int
      BY <2>5, SumBalInts
    <3>3. SumBal(balance', home, t) = SumBal(balance, home, t)
      BY <2>1
    <3> QED BY <3>1, <3>2, <3>3
  <2>7. clamped' = (clamped \/ FALSE) /\ FALSE \in BOOLEAN /\ balance' \in Balances
    BY <2>1, <2>5
  <2>8. SupplyConserved'
    BY <2>1, <2>2, <2>4, <2>6, <2>7, SupplyStep
  <2> QED BY <2>1, <2>5, <2>7, <2>8 DEF LedgerInv
<1>7. CASE WriteFund \/ WriteRegistration \/ WriteMint \/ WriteBurn \/ WriteSend
  <2>1. PICK new, cut : Advanced(new, cut)
    BY <1>7, WritesAdvance
  <2>2. WriteStep
    BY <1>7, Writes
  <2>3. balance' = balance /\ clamped' = clamped /\ applied' = applied
    BY <2>2 DEF WriteStep, restOfWrite
  <2>4. aborted' = aborted
    BY <2>1 DEF Advanced
  <2> QED BY <1>1, <2>3, <2>4
<1>8. CASE CommitBatch
  <2> DEFINE e == Effect(block[next], InOrder(Whole))
  <2>1. /\ txn.open /\ txn.todo = <<>> /\ applied' = Append(applied, e) /\ balance' = txn.balance
        /\ clamped' = (clamped \/ txn.clamped) /\ aborted' = aborted
    BY <1>8 DEF CommitBatch, Took, Whole
  <2>2. applied \in Seq(Effects)
    BY DEF StateInv
  <2>3. e.batch = InOrder(Whole)
    BY DEF Effect
  <2> HIDE DEF e
  <2>4. e \in Effects
    <3>1. Len(applied') = Len(applied) + 1 /\ applied'[Len(applied) + 1] = e
      BY <2>1, <2>2
    <3>2. Len(applied) + 1 \in DOMAIN applied'
      BY <2>1, <2>2
    <3> QED BY <3>1, <3>2
  <2>5. balance \in Balances /\ clamped \in BOOLEAN /\ ~aborted
    BY DEF LedgerInv
  <2>6. /\ txn.balance \in Balances /\ txn.clamped \in BOOLEAN
        /\ Conserves(InOrder(Whole), balance, txn.todo, txn.balance, ~txn.clamped)
    BY <2>1 DEF BatchInv
  <2>7. ASSUME NEW home \in Subnets, NEW t \in Tokens
        PROVE  /\ SumBal(balance', home, t) <= SumBal(balance, home, t) + Issues(e.batch, home, t)
               /\ ~txn.clamped =>
                    SumBal(balance', home, t) = SumBal(balance, home, t) + Issues(e.batch, home, t)
    <3>1. /\ SumBal(txn.balance, home, t) + Issues(txn.todo, home, t)
               <= SumBal(balance, home, t) + Issues(InOrder(Whole), home, t)
          /\ ~txn.clamped => SumBal(txn.balance, home, t) + Issues(txn.todo, home, t)
               = SumBal(balance, home, t) + Issues(InOrder(Whole), home, t)
      BY <2>6, Zenon DEF Conserves
    <3>2. Issues(txn.todo, home, t) = 0
      BY <2>1, IssuesNothing
    <3>3. SumBal(txn.balance, home, t) \in Int
      BY <2>6, SumBalInts
    <3>4. SumBal(txn.balance, home, t) + Issues(txn.todo, home, t) = SumBal(txn.balance, home, t)
      BY <3>2, <3>3
    <3>5. SumBal(balance', home, t) = SumBal(txn.balance, home, t)
      BY <2>1
    <3> QED BY <2>3, <3>1, <3>4, <3>5
  <2>8. balance' \in Balances /\ (clamped \/ txn.clamped) \in BOOLEAN
    BY <2>1, <2>5, <2>6
  <2>9. SupplyConserved'
    BY <2>1, <2>2, <2>4, <2>6, <2>7, <2>8, SupplyStep
  <2> QED BY <2>1, <2>5, <2>8, <2>9 DEF LedgerInv
<1>9. ASSUME NEW s \in Readers, ChildRead(s) PROVE LedgerInv'
  BY <1>1, <1>9 DEF ChildRead, pastVars
<1> QED BY <1>2, <1>3, <1>4, <1>5, <1>6, <1>7, <1>8, <1>9 DEF Next, Monitor

----------------------------------------------------------------------------
(* The rest of the state.                                                  *)

\* An effect of the message at hand.
LEMMA EffectIs ==
  ASSUME BlockInv, next \in DOMAIN block, block[next].kind \in {"prefund", "fund", "batch"},
         NEW b \in Seq(Records)
  PROVE  Effect(block[next], b) \in Effects
<1>1. block[next] \in Messages /\ processed \in Nat /\ next \in Nat
  BY LedgerConstants DEF BlockInv
<1>2. block[next].subnet \in Subnets /\ block[next].amount \in Nat
  BY <1>1 DEF Messages
<1>3. Txid \in Nat \X Nat /\ Known \in SUBSET Subnets
  BY <1>1 DEF Txid, Height, Known
<1> QED BY <1>2, <1>3 DEF Effect, Effects

\* The number in force after a checkpoint is no less than before.
LEMMA NamedIs ==
  ASSUME BlockInv, StateInv, HandleCheckpoint
  PROVE  /\ conf' \in [Subnets -> Nat]
         /\ \A s \in Subnets : conf[s] <= conf'[s]
<1> DEFINE s == block[next].subnet
           n == proposals[block[next].tx].conf
<1>0. Handling("checkpoint") /\ CheckpointValid(block[next])
  BY Zenon DEF HandleCheckpoint
<1>1. /\ next \in DOMAIN block /\ block[next].kind = "checkpoint" /\ s \in Known
  BY <1>0 DEF Handling, CheckpointValid, BlockInv
<1>10. \E c \in {conf[s], Max({n, conf[s]})} : conf' = [conf EXCEPT ![s] = c]
  BY Zenon DEF HandleCheckpoint
<1>2. s \in Subnets /\ conf \in [Subnets -> Nat]
  BY <1>1 DEF Known, StateInv
<1>3. n \in Nat
  <2>1. block[next].tx \in DOMAIN proposals
    BY <1>1 DEF BlockInv, Placed
  <2>2. proposals[block[next].tx] \in Proposals
    BY <2>1 DEF BlockInv
  <2> QED BY <2>2 DEF Proposals
<1> HIDE DEF n, s
<1>4. conf[s] \in Nat
  BY <1>2
<1>5. Max({n, conf[s]}) \in Nat /\ conf[s] <= Max({n, conf[s]})
  <2>1. PICK d \in Nat : d = conf[s]
    BY <1>4
  <2>2. \E x \in {n, d} : \A y \in {n, d} : x >= y
    BY <1>3
  <2>3. Max({n, d}) \in {n, d} /\ \A y \in {n, d} : Max({n, d}) >= y
    <3> DEFINE P(x) == \A y \in {n, d} : x >= y
    <3>1. \E x \in {n, d} : P(x)
      BY <2>2
    <3>2. Max({n, d}) = CHOOSE x \in {n, d} : P(x)
      BY DEF Max
    <3> HIDE DEF P
    <3>3. Max({n, d}) \in {n, d} /\ P(Max({n, d}))
      BY <3>1, <3>2, Zenon
    <3> QED BY <3>3 DEF P
  <2> QED BY <1>3, <2>1, <2>3
<1>6. PICK c \in Nat : conf' = [conf EXCEPT ![s] = c] /\ conf[s] <= c
  <2>1. PICK x : x = Max({n, conf[s]})
    OBVIOUS
  <2>2. PICK d : d = conf[s]
    OBVIOUS
  <2>3. PICK c \in {d, x} : conf' = [conf EXCEPT ![s] = c]
    BY <1>10, <2>1, <2>2
  <2>4. d \in Nat /\ x \in Nat /\ d <= x
    BY <1>4, <1>5, <2>1, <2>2
  <2>5. c \in Nat /\ d <= c
    BY <2>3, <2>4
  <2> QED BY <2>2, <2>3, <2>5
<1>7. \A t \in Subnets : conf'[t] = IF t = s THEN c ELSE conf[t]
  BY <1>2, <1>6
<1>8. \A t \in Subnets : conf[t] \in Nat
  BY <1>2
<1>9. \A t \in Subnets : conf[t] <= conf'[t]
  BY <1>6, <1>7, <1>8
<1> QED BY <1>2, <1>6, <1>9

LEMMA StepState ==
  ASSUME BlockInv, ChainInv, PlaceInv, StateInv, MessageInv, [Next]_vars
  PROVE  StateInv'
<1>1. ASSUME status' = status, genesis' = genesis, last' = last, txs' = txs,
             read' = read, crashes' = crashes, lost' = lost, conf' = conf, applied' = applied,
             DOMAIN proposals \subseteq DOMAIN proposals'
      PROVE  StateInv'
  BY <1>1 DEF StateInv
<1>2. CASE UNCHANGED vars
  BY <1>1, <1>2 DEF vars, checkVars, childVars, pastVars, faultVars
<1>3. ASSUME NEW p \in Plans, Propose(p.subnet, p.batch, p.conf) PROVE StateInv'
  <2>1. proposals \in Seq(Proposals) /\ \E q : proposals' = Append(proposals, q)
    BY <1>3 DEF Propose, BlockInv
  <2>2. DOMAIN proposals \subseteq DOMAIN proposals'
    BY <2>1
  <2> QED BY <1>1, <1>3, <2>2 DEF Propose, checkVars, childVars, pastVars, faultVars
<1>4. CASE Bitcoin
  <2>1. DOMAIN proposals' = DOMAIN proposals
    BY <1>4 DEF Bitcoin, MineMessage, MineProposal
  <2>2. /\ status' = status /\ genesis' = genesis /\ last' = last /\ txs' = txs
        /\ read' = read /\ crashes' = crashes /\ lost' = lost /\ conf' = conf /\ applied' = applied
    BY <1>4 DEF Bitcoin, MineMessage, MineProposal, Mined, checkVars, childVars, pastVars, faultVars
  <2> QED BY <1>1, <2>1, <2>2
<1>5. CASE StartBlock \/ BeginBatch \/ Refuse
  BY <1>1, <1>5 DEF StartBlock, BeginBatch, Refuse, checkVars, childVars, pastVars, faultVars
<1>6. CASE WriteFund \/ WriteRegistration \/ WriteMint \/ WriteBurn \/ WriteSend
  BY <1>1, <1>6, Writes DEF WriteStep, restOfWrite, checkVars, childVars, faultVars
<1>7. CASE HandlePrefund
  <2> DEFINE m == block[next]
  <2>1. /\ next \in DOMAIN block /\ m.kind = "prefund" /\ m \in Messages
    BY <1>7 DEF HandlePrefund, Handling, BlockInv
  <2>2. /\ genesis' = [genesis EXCEPT ![m.subnet] = Append(@, m.amount)]
        /\ applied' = Append(applied, Effect(m, <<>>))
        /\ status' = status /\ last' = last /\ txs' = txs /\ proposals' = proposals
        /\ read' = read /\ crashes' = crashes /\ lost' = lost /\ conf' = conf
    BY <1>7 DEF HandlePrefund, Took, checkVars, childVars, faultVars
  <2>3. <<>> \in Seq(Records)
    OBVIOUS
  <2>4. Effect(m, <<>>) \in Effects
    BY <2>1, <2>3, EffectIs
  <2>5. m.subnet \in Subnets /\ m.amount \in Nat
    BY <2>1 DEF Messages
  <2> HIDE DEF m
  <2>6. applied' \in Seq(Effects) /\ genesis' \in [Subnets -> Seq(Nat)]
    BY <2>2, <2>4, <2>5 DEF StateInv
  <2> QED BY <2>2, <2>6 DEF StateInv
<1>8. CASE HandleFund
  <2> DEFINE m == block[next]
  <2>1. /\ next \in DOMAIN block /\ m.kind = "fund" /\ m \in Messages
    BY <1>8 DEF HandleFund, Handling, BlockInv
  <2>2. /\ applied' = Append(applied, Effect(m, <<>>)) /\ genesis' = genesis
        /\ status' = status /\ last' = last /\ txs' = txs /\ proposals' = proposals
        /\ read' = read /\ crashes' = crashes /\ lost' = lost /\ conf' = conf
    BY <1>8 DEF HandleFund, Took, checkVars, childVars, faultVars
  <2>3. <<>> \in Seq(Records)
    OBVIOUS
  <2>4. Effect(m, <<>>) \in Effects
    BY <2>1, <2>3, EffectIs
  <2> HIDE DEF m
  <2>5. applied' \in Seq(Effects)
    BY <2>2, <2>4 DEF StateInv
  <2> QED BY <2>2, <2>5 DEF StateInv
<1>9. CASE HandleStatus
  <2>1. /\ genesis' = genesis /\ last' = last /\ txs' = txs /\ proposals' = proposals
        /\ read' = read /\ crashes' = crashes /\ lost' = lost /\ conf' = conf /\ applied' = applied
    BY <1>9 DEF HandleStatus, checkVars, childVars, pastVars, faultVars
  <2>2. \E to \in {"active", "marked"} : status' = [status EXCEPT ![block[next].subnet] = to]
    BY <1>9 DEF HandleStatus
  <2>3. status' \in [Subnets -> {"genesis", "active", "marked", "killed"}]
    BY <2>2 DEF StateInv
  <2> QED BY <2>1, <2>3 DEF StateInv
<1>10. CASE HandleCheckpoint
  <2> DEFINE s == block[next].subnet
             n == proposals[block[next].tx].conf
             killed == IF proposals[block[next].tx].kill THEN "killed" ELSE status[s]
  <2>1. /\ s \in Known /\ last' = [last EXCEPT ![s] = last[s] + 1]
        /\ status' = [status EXCEPT ![s] = killed]
        /\ genesis' = genesis /\ txs' = txs /\ proposals' = proposals
        /\ read' = read /\ crashes' = crashes /\ lost' = lost /\ applied' = applied
        /\ \E c \in {conf[s], Max({n, conf[s]})} : conf' = [conf EXCEPT ![s] = c]
    BY <1>10 DEF HandleCheckpoint, CheckpointValid, childVars, pastVars, faultVars
  <2>2. s \in Subnets
    BY <2>1 DEF Known
  <2>3. killed \in {"genesis", "active", "marked", "killed"}
    BY <2>2 DEF StateInv
  <2> HIDE DEF killed
  <2>4. status' \in [Subnets -> {"genesis", "active", "marked", "killed"}]
    BY <2>1, <2>3 DEF StateInv
  <2>5. last[s] + 1 \in Nat
    <3> HIDE DEF s
    <3>1. last[s] \in Nat \cup {-1}
      BY <2>2 DEF StateInv, None
    <3> QED BY <3>1
  <2>6. last' \in [Subnets -> Nat \cup {None}]
    BY <2>1, <2>5 DEF StateInv
  <2>7. conf' \in [Subnets -> Nat]
    BY <2>1, <2>2, <1>10, NamedIs DEF StateInv
  <2> QED BY <2>1, <2>4, <2>6, <2>7 DEF StateInv
<1>11. CASE SaveTransaction
  <2>1. /\ half /\ txs' = txs \cup {block[next].tx}
        /\ status' = status /\ genesis' = genesis /\ last' = last /\ proposals' = proposals
        /\ read' = read /\ crashes' = crashes /\ lost' = lost /\ conf' = conf /\ applied' = applied
    BY <1>11 DEF SaveTransaction, childVars, pastVars, faultVars
  <2>2. next \in DOMAIN block /\ block[next].kind = "checkpoint"
    BY <2>1 DEF PlaceInv, At
  <2>3. block[next].tx \in DOMAIN proposals
    BY <2>2 DEF BlockInv, Placed
  <2> QED BY <2>1, <2>3 DEF StateInv
<1>12. CASE CommitBatch
  <2>1. /\ txn.open /\ applied' = Append(applied, Effect(block[next], InOrder(Whole)))
        /\ status' = status /\ genesis' = genesis /\ last' = last /\ txs' = txs
        /\ proposals' = proposals /\ read' = read /\ crashes' = crashes /\ lost' = lost /\ conf' = conf
    BY <1>12 DEF CommitBatch, Took, childVars, Whole, faultVars
  <2>2. At("batch")
    BY <2>1 DEF PlaceInv, NoTxn
  <2>3. InOrder(Whole) \in Seq(Records) /\ next \in DOMAIN block /\ block[next].kind = "batch"
    BY <2>2, WholeIs DEF At
  <2>4. Effect(block[next], InOrder(Whole)) \in Effects
    BY <2>3, EffectIs
  <2>5. applied' \in Seq(Effects)
    BY <2>1, <2>4 DEF StateInv
  <2> QED BY <2>1, <2>5 DEF StateInv
<1>13. CASE Crash
  <2>1. /\ crashes < MaxCrashes /\ crashes' = crashes + 1 /\ lost' = lost /\ conf' = conf
        /\ status' = status /\ genesis' = genesis /\ last' = last /\ txs' = txs
        /\ proposals' = proposals /\ read' = read /\ applied' = applied
    BY <1>13 DEF Crash, checkVars, childVars, pastVars, faultVars
  <2>2. crashes' \in 0..MaxCrashes
    BY <2>1, LedgerConstants DEF StateInv
  <2> QED BY <2>1, <2>2 DEF StateInv
<1>14. ASSUME NEW s \in Readers, ChildRead(s) PROVE StateInv'
  <2>1. /\ read' = [read EXCEPT ![s] = read[s] + 1] /\ read[s] < saved
        /\ status' = status /\ genesis' = genesis /\ last' = last /\ txs' = txs
        /\ proposals' = proposals /\ crashes' = crashes /\ lost' = lost /\ conf' = conf /\ applied' = applied
    BY <1>14 DEF ChildRead, checkVars, pastVars, faultVars, ConfirmedHeight
  <2>2. /\ s \in Subnets /\ processed \in 0..MaxBlocks /\ saved \in 0..processed
        /\ read \in [Subnets -> 0..MaxBlocks]
    BY LedgerConstants DEF StateInv, BlockInv, ChainInv
  <2>3. read[s] + 1 \in 0..MaxBlocks
    BY <2>1, <2>2, LedgerConstants
  <2>4. read' \in [Subnets -> 0..MaxBlocks]
    BY <2>1, <2>2, <2>3
  <2> QED BY <2>1, <2>4 DEF StateInv
<1>15. CASE EndBlock
  <2>1. /\ status' = status /\ genesis' = genesis /\ last' = last /\ txs' = txs /\ conf' = conf
        /\ proposals' = proposals /\ read' = read /\ crashes' = crashes /\ applied' = applied
        /\ lost' = lost \/ (lost < MaxLost /\ lost' = lost + 1)
    BY <1>15 DEF EndBlock, checkVars, childVars, pastVars
  <2>2. lost' \in 0..MaxLost
    BY <2>1, LedgerConstants DEF StateInv
  <2> QED BY <2>1, <2>2 DEF StateInv
<1> QED BY <1>2, <1>3, <1>4, <1>5, <1>6, <1>7, <1>8, <1>9, <1>10, <1>11, <1>12, <1>13, <1>14, <1>15
     DEF Next, Monitor

\* The messages that are stored are rootnet messages.
Letterboxes(f) == \A s \in Subnets : \A n \in DOMAIN f[s] : n \in Nat /\ f[s][n] \in Rootnet

RootnetInv == Letterboxes(msgs) /\ (txn.open => Letterboxes(txn.msgs))

LEMMA PlaceIs ==
  ASSUME BlockInv, next \in DOMAIN block
  PROVE  Height \in Nat /\ Txid \in Positions
<1>1. /\ processed \in 0..MaxBlocks /\ block \in Seq(Messages) /\ Len(block) <= MaxBlock
      /\ block # <<>> => processed < MaxBlocks
  BY DEF BlockInv
<1>2. block # <<>>
  BY <1>1
<1>3. processed + 1 \in 1..MaxBlocks /\ next \in 1..MaxBlock
  BY <1>1, <1>2, LedgerConstants
<1> QED BY <1>3, LedgerConstants DEF Height, Txid, Positions

LEMMA PostRootnet ==
  ASSUME BlockInv, next \in DOMAIN block, NEW f, Boxes(f), Letterboxes(f), NEW d, NEW body \in Records
  PROVE  Letterboxes(Post(f, d, body))
<1> DEFINE n == NextNonce(f[d])
           m == [nonce |-> n, height |-> Height, txid |-> Txid, body |-> body]
           new == [k \in DOMAIN f[d] \cup {n} |-> IF k = n THEN m ELSE f[d][k]]
           g == [f EXCEPT ![d] = new]
<1>1. Post(f, d, body) = g
  BY DEF Post
<1>2. ASSUME d \in Subnets PROVE n \in Nat
  BY <1>2, CountIsNext DEF Boxes
<1>3. Height \in Nat /\ Txid \in Positions
  BY PlaceIs
<1> HIDE DEF n
<1>4. n \in Nat => m \in Rootnet
  BY <1>3 DEF Rootnet
<1> HIDE DEF m
<1>5. ASSUME d \in Subnets PROVE \A k \in DOMAIN new : k \in Nat /\ new[k] \in Rootnet
  BY <1>2, <1>4, <1>5 DEF Letterboxes
<1>6. DOMAIN f = Subnets
  BY DEF Boxes
<1>7. \A s \in Subnets : g[s] = IF s = d THEN new ELSE f[s]
  BY <1>6
<1> HIDE DEF new, g
<1>8. Letterboxes(g)
  BY <1>5, <1>7 DEF Letterboxes
<1> QED BY <1>1, <1>8

LEMMA StepRootnet ==
  ASSUME BlockInv, PlaceInv, MessageInv, BatchInv, RootnetInv, [Next]_vars
  PROVE  RootnetInv'
<1>1. ASSUME msgs' = msgs, txn' = txn \/ txn' = NoTxn PROVE RootnetInv'
  <2>1. txn' = NoTxn => ~txn'.open
    BY DEF NoTxn
  <2> QED BY <1>1, <2>1 DEF RootnetInv
<1>2. CASE UNCHANGED vars
  BY <1>1, <1>2 DEF vars
<1>3. ASSUME NEW p \in Plans, Propose(p.subnet, p.batch, p.conf) PROVE RootnetInv'
  BY <1>1, <1>3 DEF Propose
<1>4. CASE Bitcoin
  BY <1>1, <1>4 DEF Bitcoin, MineMessage, MineProposal, Mined
<1>5. CASE StartBlock \/ HandlePrefund \/ HandleStatus \/ HandleCheckpoint \/ SaveTransaction \/ Refuse
           \/ EndBlock \/ Crash
  BY <1>1, <1>5 DEF StartBlock, HandlePrefund, HandleStatus, HandleCheckpoint, SaveTransaction, Refuse,
     EndBlock, Crash
<1>6. CASE HandleFund
  <2> DEFINE m == block[next]
  <2>1. /\ next \in DOMAIN block /\ m \in Messages /\ ~txn.open /\ txn' = txn
        /\ msgs' = Post(msgs, m.subnet, FundRecord(m.subnet, m.amount))
    BY <1>6 DEF HandleFund, Handling, BlockInv
  <2>2. m.subnet \in Subnets /\ m.amount \in Nat
    BY <2>1 DEF Messages
  <2>3. FundRecord(m.subnet, m.amount) \in Records
    BY <2>2 DEF FundRecord, Records, Operations
  <2>4. Boxes(msgs) /\ Letterboxes(msgs)
    BY DEF MessageInv, RootnetInv
  <2>5. Letterboxes(Post(msgs, m.subnet, FundRecord(m.subnet, m.amount)))
    BY <2>1, <2>3, <2>4, PostRootnet
  <2> QED BY <2>1, <2>5 DEF RootnetInv
<1>7. CASE BeginBatch
  <2>1. msgs' = msgs /\ txn'.msgs = msgs
    BY <1>7 DEF BeginBatch
  <2> QED BY <2>1 DEF RootnetInv
<1>8. CASE WriteFund \/ WriteRegistration \/ WriteMint \/ WriteBurn \/ WriteSend
  <2> DEFINE r == Head(txn.todo)
  <2>1. txn.open /\ txn.todo # <<>> /\ msgs' = msgs
    BY <1>8, Writes DEF WriteStep, restOfWrite
  <2>2. next \in DOMAIN block
    BY <2>1 DEF PlaceInv, NoTxn, At
  <2>3. Boxes(txn.msgs) /\ Letterboxes(txn.msgs)
    BY <2>1 DEF MessageInv, OpenTxn, NoTxn, RootnetInv
  <2>4. r \in Records
    BY <2>1, HeadOK DEF BatchInv
  <2>5. CASE Abort
    BY <1>1, <2>1, <2>5 DEF Abort
  <2>6. ASSUME NEW boxes, NEW bal, NEW cut, Write(boxes, bal, cut), Letterboxes(boxes) PROVE RootnetInv'
    <3>1. txn'.msgs = boxes
      BY <2>1, <2>6, WriteIs DEF Wrote
    <3> QED BY <2>1, <2>3, <2>6, <3>1 DEF RootnetInv
  <2>7. \A d : Letterboxes(Post(txn.msgs, d, r))
    BY <2>2, <2>3, <2>4, PostRootnet
  <2>8. CASE WriteFund \/ WriteSend
    <3>1. Abort \/ \E bal, cut : Write(Post(txn.msgs, r.dest, r), bal, cut)
      BY <2>8, Zenon DEF WriteFund, WriteSend
    <3> QED BY <2>5, <2>6, <2>7, <3>1
  <2>9. CASE WriteMint \/ WriteBurn
    <3>1. Abort \/ \E bal, cut : Write(txn.msgs, bal, cut)
      BY <2>9, Zenon DEF WriteMint, WriteBurn
    <3> QED BY <2>3, <2>5, <2>6, <3>1
  <2>10. CASE WriteRegistration
    <3> DEFINE boxes == [d \in Subnets |-> IF d \in FanOut THEN Post(txn.msgs, d, r)[d] ELSE txn.msgs[d]]
    <3>1. \E bal, cut : Write(boxes, bal, cut)
      BY <2>10, Zenon DEF WriteRegistration
    <3>2. \A d \in Subnets : boxes[d] = IF d \in FanOut THEN Post(txn.msgs, d, r)[d] ELSE txn.msgs[d]
      OBVIOUS
    <3> HIDE DEF boxes
    <3>3. Letterboxes(boxes)
      BY <2>3, <2>7, <3>2 DEF Letterboxes
    <3> QED BY <2>6, <3>1, <3>3
  <2> QED BY <1>8, <2>8, <2>9, <2>10
<1>9. CASE CommitBatch
  <2>1. txn.open /\ msgs' = txn.msgs /\ txn' = NoTxn
    BY <1>9 DEF CommitBatch
  <2>2. Letterboxes(txn.msgs) /\ ~txn'.open
    BY <2>1 DEF RootnetInv, NoTxn
  <2> QED BY <2>1, <2>2 DEF RootnetInv
<1>10. ASSUME NEW s \in Readers, ChildRead(s) PROVE RootnetInv'
  BY <1>1, <1>10 DEF ChildRead
<1> QED BY <1>2, <1>3, <1>4, <1>5, <1>6, <1>7, <1>8, <1>9, <1>10 DEF Next, Monitor

----------------------------------------------------------------------------
(* The theorems.                                                           *)

TransferInv ==
  /\ BlockInv /\ ChainInv /\ PlaceInv /\ StateInv /\ MessageInv
  /\ BatchInv /\ LedgerInv /\ RootnetInv

LEMMA InitTransfer == Init => TransferInv
<1> SUFFICES ASSUME Init PROVE TransferInv
  OBVIOUS
<1>1. BlockInv /\ ChainInv /\ PlaceInv /\ StateInv /\ MessageInv
  BY InitPlace, InitMessages
<1>2. ~txn.open
  BY DEF Init, NoTxn
<1>3. balance \in Balances /\ clamped = FALSE /\ aborted = FALSE
  <2>1. 0 \in 0..MaxToken
    BY LedgerConstants
  <2> QED BY <2>1 DEF Init, Balances
<1>4. SupplyConserved
  <2> SUFFICES ASSUME NEW home \in Subnets, NEW t \in Tokens PROVE Held(home, t) = 0 /\ Issued(home, t) = 0
    BY DEF SupplyConserved
  <2> DEFINE f == [h \in Subnets |-> balance[<<home, t, h>>]]
             g == IssuesOf(home, t)
  <2>1. \A h \in Subnets : f[h] = 0
    <3>1. \A h \in Subnets : <<home, t, h>> \in Holdings
      BY DEF Holdings
    <3> QED BY <3>1 DEF Init
  <2>2. Held(home, t) = SumFunctionOnSet(f, Subnets)
    BY DEF Held
  <2>3. SumFunctionOnSet(f, Subnets) = 0
    <3> HIDE DEF f
    <3> QED BY <2>1, SumZero, LedgerConstants
  <2>4. applied \in Seq(Effects) /\ 1..Len(applied) = {}
    BY <1>1 DEF Init, StateInv
  <2>5. Issued(home, t) = SumFunctionOnSet(g, 1..Len(applied))
    BY <2>4, IssuedIs
  <2>6. SumFunctionOnSet(g, {}) = 0
    BY SumEmpty
  <2>7. Issued(home, t) = 0
    BY <2>4, <2>5, <2>6, Zenon
  <2> QED BY <2>2, <2>3, <2>7
<1>5. Letterboxes(msgs)
  BY DEF Letterboxes, Init
<1>6. BatchInv /\ RootnetInv
  BY <1>2, <1>5 DEF BatchInv, RootnetInv
<1> QED BY <1>1, <1>3, <1>4, <1>6 DEF TransferInv, LedgerInv

LEMMA StepTransfer == TransferInv /\ [Next]_vars => TransferInv'
<1> SUFFICES ASSUME TransferInv, [Next]_vars PROVE TransferInv'
  OBVIOUS
<1>1. /\ BlockInv /\ ChainInv /\ PlaceInv /\ StateInv /\ MessageInv /\ BatchInv /\ LedgerInv
      /\ RootnetInv /\ balance \in Balances
  BY DEF TransferInv, LedgerInv
<1>2. BlockInv' /\ PlaceInv' /\ StateInv'
  BY <1>1, StepBlock, StepPlace, StepState
<1>7. ChainInv'
  BY <1>1, <1>2, StepChain
<1>3. MessageInv'
  BY <1>1, StepMessages
<1>4. BatchInv'
  BY <1>1, StepBatch
<1>5. applied' \in Seq(Effects)
  BY <1>2 DEF StateInv
<1>6. LedgerInv' /\ RootnetInv'
  BY <1>1, <1>5, StepLedger, StepRootnet
<1> QED BY <1>2, <1>3, <1>4, <1>6, <1>7 DEF TransferInv

\* The inductive invariant: above all, what is left of a batch while it is written
\* would still pass validate_erc_batch_data.
THEOREM Transfers == Spec => []TransferInv
BY InitTransfer, StepTransfer, PTL DEF Spec

\* TypeOK: among others, no balance leaves 0..MaxToken, in the database and in the open
\* write transaction, though save_to_db subtracts without looking after its validation.
THEOREM LedgerTypes == Spec => []TypeOK
<1>1. TransferInv => TypeOK
  <2> SUFFICES ASSUME TransferInv PROVE TypeOK
    OBVIOUS
  <2>1. BlockInv /\ ChainInv /\ PlaceInv /\ StateInv /\ BatchInv /\ LedgerInv /\ RootnetInv
    BY DEF TransferInv
  <2>8. /\ saved \in 0..processed
        /\ \A h \in 1..MaxBlocks : chain[h] \in Seq(Messages) /\ Len(chain[h]) <= MaxBlock
    BY <2>1 DEF ChainInv
  <2>2. /\ processed \in 0..MaxBlocks /\ block \in Seq(Messages) /\ Len(block) <= MaxBlock
        /\ Len(proposals) <= MaxProposals /\ txs \subseteq 1..Len(proposals)
    BY <2>1 DEF BlockInv, StateInv
  <2>3. next \in 0..(Len(block) + 1) /\ half \in BOOLEAN
    BY <2>1 DEF PlaceInv
  <2>4. /\ status \in [Subnets -> {"genesis", "active", "marked", "killed"}]
        /\ read \in [Subnets -> 0..MaxBlocks] /\ crashes \in 0..MaxCrashes /\ lost \in 0..MaxLost
        /\ conf \in [Subnets -> Nat]
        /\ \A s \in Subnets : last[s] \in Nat \cup {None}
    BY <2>1 DEF StateInv
  <2>5. ASSUME NEW s \in Subnets, NEW i \in DOMAIN genesis[s] PROVE genesis[s][i] \in Nat
    <3>1. genesis[s] \in Seq(Nat)
      BY <2>1 DEF StateInv
    <3> QED BY <3>1
  <2>6. \A s \in Subnets : \A n \in DOMAIN msgs[s] : n \in Nat /\ msgs[s][n] \in Rootnet
    BY <2>1 DEF RootnetInv, Letterboxes
  <2>7. /\ balance \in [Holdings -> 0..MaxToken]
        /\ txn.open => txn.balance \in [Holdings -> 0..MaxToken]
    BY <2>1 DEF LedgerInv, BatchInv, Balances
  <2> QED BY <2>2, <2>3, <2>4, <2>5, <2>6, <2>7, <2>8 DEF TypeOK
<1> QED BY <1>1, Transfers, PTL

\* ValidatedApplies: the error paths of save_to_db after validate_erc_batch_data are
\* never taken, for batches of any size and whatever they register, mint, burn and send.
THEOREM ValidatedBatchesApply == Spec => []ValidatedApplies
<1>1. TransferInv => ValidatedApplies
  BY DEF TransferInv, LedgerInv, ValidatedApplies
<1> QED BY <1>1, Transfers, PTL

\* SupplyConserved: the balances of a token on all subnets add up to what its home
\* issued and did not burn, and to less only if an amount was cut to U256::MAX.
THEOREM Supply == Spec => []SupplyConserved
<1>1. TransferInv => SupplyConserved
  BY DEF TransferInv, LedgerInv
<1> QED BY <1>1, Transfers, PTL


----------------------------------------------------------------------------
(***************************************************************************)
(* Stale batches.  A provider validates a batch against the balances of    *)
(* its moment; the batch confirms later.  In between, only batches of the  *)
(* same subnet take from its balances, and its checkpoint's transaction is *)
(* kept before its own turn comes, also when the block is handled again.   *)
(***************************************************************************)

\* The balances of all but s are no less in new.
Others(bal, new, s) ==
  \A home \in Subnets, t \in Tokens, h \in Subnets :
    h # s => bal[<<home, t, h>>] <= new[<<home, t, h>>]

\* A checkpoint of proposal i is still to be handled, before message k of block h.
Due(i, h, k) ==
  \E g \in 1..MaxBlocks : \E j \in DOMAIN chain[g] :
    /\ chain[g][j].kind = "checkpoint" /\ chain[g][j].tx = i
    /\ g > Height \/ (g = Height /\ j >= next)
    /\ g < h \/ (g = h /\ j < k)

\* The checkpoint of p is refused whenever it is handled.
Missed(p) == ~p.readable \/ Outrun(p.subnet, p.conf)

Settled(i) == i \in txs \/ Missed(proposals[i])

Kept(i, h, k) == Settled(i) \/ Due(i, h, k)

ProposedInv ==
  \A i \in DOMAIN proposals :
    /\ proposals[i].subnet \in Known /\ proposals[i].base <= Len(applied)
    /\ \A j \in DOMAIN proposals[i].batch :
         proposals[i].batch[j].op = "fund" => proposals[i].batch[j].dest \in Known

\* The transaction of a checkpoint is kept before the batch that refers to it
\* comes, in all the blocks that may be handled again, or it is never kept.
KeptInv ==
  /\ \A i \in DOMAIN proposals : proposals[i].stage # "sent" => Kept(i, MaxBlocks + 1, 0)
  /\ \A h \in 1..MaxBlocks : \A k \in DOMAIN chain[h] : chain[h][k].kind = "batch" =>
       proposals[chain[h][k].tx].batch # <<>> /\ Kept(chain[h][k].tx, h, k)

RecordInv ==
  /\ DOMAIN records = Subnets
  /\ \A s \in Subnets : last[s] # None => last[s] \in DOMAIN records[s]
  /\ \A i \in txs : last[proposals[i].subnet] # None
  /\ half => last[block[next].subnet] # None

\* A transaction takes from nobody but its source.
GrowInv == txn.open => Others(balance, txn.balance, Source)

Plain(b) == \A i \in DOMAIN b : b[i].op # "register"

\* A batch of the same subnet took effect after p was generated.
Overtaken(p, a) ==
  \E k \in (p.base + 1)..Len(a) : a[k].kind = "batch" /\ a[k].subnet = p.subnet

\* What validate_erc_batch_data asks of a batch without registrations.
Affordable(p, bal) ==
  /\ \A i \in DOMAIN p.batch : p.batch[i].op = "send" => p.batch[i].amount > 0
  /\ \A home \in Subnets, t \in Tokens :
       Total(p.batch, "burn", home, t) + Total(p.batch, "send", home, t)
         <= AtMost(Total(p.batch, "mint", home, t) + bal[<<home, t, p.subnet>>])

\* A batch without registrations that no other one overtook is still paid for.
FreshInv ==
  \A i \in DOMAIN proposals :
    (Plain(proposals[i].batch) /\ ~Overtaken(proposals[i], applied)) => Affordable(proposals[i], balance)

LEMMA KnownGrows == ASSUME StateInv, [Next]_vars PROVE Known \subseteq Known'
<1>0. status \in [Subnets -> {"genesis", "active", "marked", "killed"}]
  BY DEF StateInv
<1>1. ASSUME status' = status PROVE Known \subseteq Known'
  BY <1>1 DEF Known
<1>2. CASE HandleStatus
  <2> DEFINE m == block[next]
             to == IF m.kind = "bootstrap" THEN "active" ELSE "marked"
  <2>1. status' = [status EXCEPT ![m.subnet] = to] /\ to # "genesis"
    BY <1>2 DEF HandleStatus
  <2> HIDE DEF to, m
  <2> QED BY <1>0, <2>1 DEF Known
<1>3. CASE HandleCheckpoint
  <2> DEFINE m == block[next]
             kill == proposals[m.tx].kill
  <2>1. status' = [status EXCEPT ![m.subnet] = IF kill THEN "killed" ELSE @]
    BY <1>3 DEF HandleCheckpoint
  <2> HIDE DEF kill, m
  <2> QED BY <1>0, <2>1 DEF Known
<1>4. CASE UNCHANGED vars
  BY <1>1, <1>4 DEF vars
<1>5. ASSUME NEW p \in Plans, Propose(p.subnet, p.batch, p.conf) PROVE status' = status
  BY <1>5 DEF Propose
<1>6. CASE Bitcoin
  BY <1>1, <1>6 DEF Bitcoin, MineMessage, MineProposal, Mined
<1>7. CASE StartBlock \/ HandlePrefund \/ HandleFund \/ SaveTransaction \/ BeginBatch \/ Refuse
           \/ CommitBatch \/ EndBlock \/ Crash
  BY <1>1, <1>7 DEF StartBlock, HandlePrefund, HandleFund, SaveTransaction, BeginBatch, Refuse,
     CommitBatch, EndBlock, Crash
<1>8. CASE WriteFund \/ WriteRegistration \/ WriteMint \/ WriteBurn \/ WriteSend
  BY <1>1, <1>8 DEF WriteFund, WriteRegistration, WriteMint, WriteBurn, WriteSend, restOfWrite
<1>9. ASSUME NEW s \in Readers, ChildRead(s) PROVE status' = status
  BY <1>9 DEF ChildRead
<1> QED BY <1>1, <1>2, <1>3, <1>4, <1>5, <1>6, <1>7, <1>8, <1>9 DEF Next, Monitor

\* What happens to balances, and to the history of messages.
LEMMA Effective ==
  ASSUME [Next]_vars
  PROVE  \/ applied' = applied /\ balance' = balance
         \/ balance' = balance /\ \E e : applied' = Append(applied, e)
         \/ /\ txn.open /\ balance' = txn.balance /\ proposals' = proposals
            /\ applied' = Append(applied, Effect(block[next], InOrder(Whole)))
<1>1. CASE UNCHANGED vars
  BY <1>1 DEF vars, pastVars
<1>2. ASSUME NEW p \in Plans, Propose(p.subnet, p.batch, p.conf) PROVE applied' = applied /\ balance' = balance
  BY <1>2 DEF Propose, pastVars
<1>3. CASE Bitcoin
  BY <1>3 DEF Bitcoin, MineMessage, MineProposal, Mined, pastVars
<1>4. CASE StartBlock \/ HandleStatus \/ HandleCheckpoint \/ SaveTransaction \/ BeginBatch \/ Refuse
           \/ EndBlock \/ Crash
  BY <1>4 DEF StartBlock, HandleStatus, HandleCheckpoint, SaveTransaction, BeginBatch, Refuse,
     EndBlock, Crash, pastVars
<1>5. CASE HandlePrefund \/ HandleFund
  BY <1>5, Zenon DEF HandlePrefund, HandleFund, Took
<1>6. CASE WriteFund \/ WriteRegistration \/ WriteMint \/ WriteBurn \/ WriteSend
  BY <1>6 DEF WriteFund, WriteRegistration, WriteMint, WriteBurn, WriteSend, restOfWrite
<1>7. CASE CommitBatch
  BY <1>7 DEF CommitBatch, Took, Whole
<1>8. ASSUME NEW s \in Readers, ChildRead(s) PROVE applied' = applied /\ balance' = balance
  BY <1>8 DEF ChildRead, pastVars
<1> QED BY <1>1, <1>2, <1>3, <1>4, <1>5, <1>6, <1>7, <1>8 DEF Next, Monitor

LEMMA HistoryLonger ==
  ASSUME StateInv, [Next]_vars
  PROVE  /\ Len(applied) \in Nat /\ Len(applied') \in Nat /\ Len(applied) <= Len(applied')
         /\ \A k \in 1..Len(applied) : applied'[k] = applied[k]
<1>1. applied \in Seq(Effects)
  BY DEF StateInv
<1>2. applied' = applied \/ \E e : applied' = Append(applied, e)
  BY Effective
<1> QED BY <1>1, <1>2

LEMMA StepProposed ==
  ASSUME BlockInv, StateInv, ProposedInv, [Next]_vars
  PROVE  ProposedInv'
<1>1. Known \subseteq Known' /\ Len(applied) <= Len(applied') /\ Len(applied) \in Nat /\ Len(applied') \in Nat
  BY KnownGrows, HistoryLonger
<1>0. proposals \in Seq(Proposals)
  BY DEF BlockInv
<1>2. ASSUME NEW i \in DOMAIN proposals, i \in DOMAIN proposals', Same(proposals[i], proposals'[i])
      PROVE  /\ proposals'[i].subnet \in Known' /\ proposals'[i].base <= Len(applied')
             /\ \A j \in DOMAIN proposals'[i].batch :
                  proposals'[i].batch[j].op = "fund" => proposals'[i].batch[j].dest \in Known'
  <2>1. /\ proposals[i].subnet \in Known /\ proposals[i].base <= Len(applied)
        /\ \A j \in DOMAIN proposals[i].batch :
             proposals[i].batch[j].op = "fund" => proposals[i].batch[j].dest \in Known
    BY <1>2 DEF ProposedInv
  <2>2. proposals[i].base \in Nat
    <3>1. proposals[i] \in Proposals
      BY <1>0, <1>2
    <3> QED BY <3>1 DEF Proposals
  <2>3. proposals[i].base <= Len(applied')
    BY <1>1, <2>1, <2>2
  <2> QED BY <1>1, <1>2, <2>1, <2>3 DEF Same
<1>3. CASE Sends
  <2>1. PICK p \in Plans, k \in BOOLEAN, r \in BOOLEAN :
          /\ Propose(p.subnet, p.batch, p.conf) /\ New(p, k, r) \in Proposals
          /\ DOMAIN proposals' = DOMAIN proposals \cup {Len(proposals) + 1}
          /\ \A i \in DOMAIN proposals : proposals'[i] = proposals[i]
          /\ proposals'[Len(proposals) + 1] = New(p, k, r)
          /\ Len(proposals) + 1 \notin DOMAIN proposals
    BY <1>3, NewIs
  <2>2. /\ p.subnet \in Known
        /\ \A i \in DOMAIN p.batch : p.batch[i].op = "fund" => p.batch[i].dest \in Known
    <3>1. p.subnet \in Subnets
      BY LedgerConstants
    <3> QED BY <2>1, <3>1 DEF Propose, Known
  <2> DEFINE q == New(p, k, r)
  <2>3. q.subnet = p.subnet /\ q.batch = p.batch /\ q.base = Len(applied)
    BY DEF New
  <2> HIDE DEF q
  <2>4. ASSUME NEW i \in DOMAIN proposals PROVE Same(proposals[i], proposals'[i])
    BY <2>1, <2>4 DEF Same
  <2> QED BY <1>1, <1>2, <2>1, <2>2, <2>3, <2>4 DEF ProposedInv, q
<1>4. CASE /\ DOMAIN proposals' = DOMAIN proposals
           /\ \A i \in DOMAIN proposals : Same(proposals[i], proposals'[i])
  BY <1>2, <1>4 DEF ProposedInv
<1> QED BY <1>3, <1>4, Proposing

----------------------------------------------------------------------------
(* The transaction of a checkpoint is there when its batch comes.          *)

\* A checkpoint is refused only as one that is never kept: its subnet was known when
\* it was generated.
LEMMA RefusedOther ==
  ASSUME BlockInv, ProposedInv, Refuse
  PROVE  /\ next \in DOMAIN block
         /\ block[next].kind = "checkpoint" =>
              block[next].tx \in DOMAIN proposals /\ Missed(proposals[block[next].tx])
<1>1. next \in DOMAIN block /\ Refused(block[next])
  BY DEF Refuse, BlockInv
<1>2. ASSUME block[next].kind = "checkpoint"
      PROVE  block[next].tx \in DOMAIN proposals /\ Missed(proposals[block[next].tx])
  <2>1. ~CheckpointValid(block[next])
    BY <1>1, <1>2 DEF Refused
  <2>2. block[next].tx \in DOMAIN proposals /\ block[next].subnet = proposals[block[next].tx].subnet
    BY <1>1, <1>2 DEF BlockInv, Placed
  <2>3. block[next].subnet \in Known
    BY <2>2 DEF ProposedInv
  <2> QED BY <2>1, <2>2, <2>3 DEF CheckpointValid, Missed
<1> QED BY <1>1, <1>2

\* Transactions are never dropped, and configuration numbers only grow.
LEMMA NumbersGrow ==
  ASSUME BlockInv, StateInv, [Next]_vars
  PROVE  txs \subseteq txs' /\ \A s \in Subnets : conf[s] \in Nat /\ conf'[s] \in Nat /\ conf[s] <= conf'[s]
<1>0. \A s \in Subnets : conf[s] \in Nat
  BY DEF StateInv
<1>1. ASSUME txs' = txs, conf' = conf
      PROVE  txs \subseteq txs' /\ \A s \in Subnets : conf[s] \in Nat /\ conf'[s] \in Nat /\ conf[s] <= conf'[s]
  BY <1>0, <1>1
<1>2. CASE UNCHANGED vars
  BY <1>1, <1>2 DEF vars, checkVars
<1>3. ASSUME NEW p \in Plans, Propose(p.subnet, p.batch, p.conf) PROVE txs' = txs /\ conf' = conf
  BY <1>3 DEF Propose, checkVars
<1>4. CASE Bitcoin
  BY <1>1, <1>4 DEF Bitcoin, MineMessage, MineProposal, Mined, checkVars
<1>5. CASE StartBlock \/ HandlePrefund \/ HandleFund \/ HandleStatus \/ BeginBatch \/ Refuse
           \/ CommitBatch \/ EndBlock \/ Crash
  BY <1>1, <1>5 DEF StartBlock, HandlePrefund, HandleFund, HandleStatus, BeginBatch, Refuse,
     CommitBatch, EndBlock, Crash, checkVars
<1>6. CASE WriteFund \/ WriteRegistration \/ WriteMint \/ WriteBurn \/ WriteSend
  BY <1>1, <1>6 DEF WriteFund, WriteRegistration, WriteMint, WriteBurn, WriteSend, restOfWrite, checkVars
<1>7. CASE HandleCheckpoint
  <2>1. txs' = txs
    BY <1>7 DEF HandleCheckpoint
  <2>2. conf' \in [Subnets -> Nat] /\ \A s \in Subnets : conf[s] <= conf'[s]
    BY <1>7, NamedIs
  <2> QED BY <1>0, <2>1, <2>2
<1>8. CASE SaveTransaction
  <2>1. txs \subseteq txs' /\ conf' = conf
    BY <1>8 DEF SaveTransaction
  <2> QED BY <1>0, <2>1
<1>9. ASSUME NEW s \in Readers, ChildRead(s) PROVE txs' = txs /\ conf' = conf
  BY <1>9 DEF ChildRead, checkVars
<1> QED BY <1>1, <1>2, <1>3, <1>4, <1>5, <1>6, <1>7, <1>8, <1>9 DEF Next, Monitor

LEMMA SettledStays ==
  ASSUME BlockInv, StateInv, [Next]_vars, NEW i \in DOMAIN proposals, Settled(i)
  PROVE  Settled(i)'
<1>1. txs \subseteq txs' /\ \A s \in Subnets : conf[s] \in Nat /\ conf'[s] \in Nat /\ conf[s] <= conf'[s]
  BY NumbersGrow
<1>2. Same(proposals[i], proposals'[i])
  BY Proposing, NewIs DEF Same
<1>3. CASE i \in txs
  BY <1>1, <1>3 DEF Settled
<1>4. CASE Missed(proposals[i])
  <2> DEFINE p == proposals[i]
             q == proposals'[i]
  <2>1. p \in Proposals
    BY DEF BlockInv
  <2>2. p.subnet \in Subnets /\ p.conf \in Nat /\ q.subnet = p.subnet /\ q.conf = p.conf
        /\ q.readable = p.readable
    BY <1>2, <2>1 DEF Proposals, Same
  <2>3. CASE ~p.readable
    BY <2>2, <2>3 DEF Settled, Missed
  <2>4. CASE p.conf # 0 /\ p.conf < conf[p.subnet]
    <3>1. q.conf # 0 /\ q.conf < conf'[q.subnet]
      BY <1>1, <2>2, <2>4
    <3> QED BY <3>1 DEF Settled, Missed, Outrun
  <2> QED BY <1>4, <2>3, <2>4 DEF Missed, Outrun
<1> QED BY <1>3, <1>4 DEF Settled

LEMMA KeptStays ==
  ASSUME BlockInv, ChainInv, PlaceInv, StateInv, MessageInv, ProposedInv, [Next]_vars,
         NEW i \in DOMAIN proposals, NEW h, NEW k, Kept(i, h, k)
  PROVE  Kept(i, h, k)'
<1>0. CASE Settled(i)
  BY <1>0, SettledStays DEF Kept
<1> SUFFICES ASSUME Due(i, h, k) PROVE Kept(i, h, k)'
  BY <1>0 DEF Kept
<1>1. PICK g \in 1..MaxBlocks : \E j \in DOMAIN chain[g] :
        /\ chain[g][j].kind = "checkpoint" /\ chain[g][j].tx = i
        /\ g > Height \/ (g = Height /\ j >= next)
        /\ g < h \/ (g = h /\ j < k)
  BY DEF Due
<1>2. PICK j \in DOMAIN chain[g] :
        /\ chain[g][j].kind = "checkpoint" /\ chain[g][j].tx = i
        /\ g > Height \/ (g = Height /\ j >= next)
        /\ g < h \/ (g = h /\ j < k)
  BY <1>1
<1>3. /\ Len(block) \in Nat /\ DOMAIN block = 1..Len(block) /\ next \in Nat /\ block \in Seq(Messages)
      /\ next \in 0..(Len(block) + 1) /\ processed \in Nat /\ saved \in 0..processed
      /\ Height = processed + 1
  BY DEF BlockInv, PlaceInv, ChainInv, Height
<1>4. chain[g] \in Seq(Messages) /\ j \in Nat /\ j >= 1 /\ DOMAIN chain = 1..MaxBlocks
  BY <1>2 DEF ChainInv
<1>5. g = Height => chain[g] = block
  BY <1>3, <1>4 DEF ChainInv, AtHeight
<1>6. Settled(i)' => Kept(i, h, k)'
  BY DEF Kept
\* The checkpoint is still there and still to come.
<1>7. ASSUME j \in DOMAIN chain'[g], chain'[g][j] = chain[g][j],
             g > Height' \/ (g = Height' /\ j >= next')
      PROVE  Kept(i, h, k)'
  <2>1. Due(i, h, k)'
    BY <1>2, <1>7 DEF Due
  <2> QED BY <2>1 DEF Kept
<1>8. ASSUME chain' = chain, processed' = processed, next' = next PROVE Kept(i, h, k)'
  BY <1>2, <1>7, <1>8 DEF Height
\* The next message, when this one is not the checkpoint.
<1>9. ASSUME chain' = chain, processed' = processed, next' = next + 1,
             next \in DOMAIN block => block[next].kind # "checkpoint" \/ block[next].tx # i
      PROVE  Kept(i, h, k)'
  <2>1. ~(g = Height /\ j = next)
    BY <1>2, <1>5, <1>9
  <2>2. Height' = Height
    BY <1>9 DEF Height
  <2>3. g > Height' \/ (g = Height' /\ j >= next')
    BY <1>2, <1>3, <1>4, <1>9, <2>1, <2>2
  <2> QED BY <1>2, <1>7, <1>9, <2>3
<1>10. CASE UNCHANGED vars
  BY <1>8, <1>10 DEF vars, blockVars
<1>11. ASSUME NEW p \in Plans, Propose(p.subnet, p.batch, p.conf) PROVE Kept(i, h, k)'
  BY <1>8, <1>11 DEF Propose, blockVars
<1>12. CASE Bitcoin
  <2>1. PICK m : Mined(m)
    BY <1>12 DEF Bitcoin, MineMessage, MineProposal
  <2>2. /\ block' = Append(block, m) /\ chain' = [chain EXCEPT ![Height] = block']
        /\ next' = next /\ processed' = processed
    BY <2>1 DEF Mined
  <2>3. Height' = Height
    BY <2>2 DEF Height
  <2>4. j \in DOMAIN chain'[g] /\ chain'[g][j] = chain[g][j]
    <3>1. CASE g = Height
      <4>1. chain'[g] = Append(block, m) /\ chain[g] = block
        BY <1>4, <1>5, <2>2, <3>1
      <4> QED BY <1>2, <1>3, <4>1
    <3>2. CASE g # Height
      <4>1. chain'[g] = chain[g]
        BY <1>4, <2>2, <3>2
      <4> QED BY <1>2, <4>1
    <3> QED BY <3>1, <3>2
  <2> QED BY <1>2, <1>7, <2>2, <2>3, <2>4
<1>13. CASE StartBlock
  <2>1. chain' = chain /\ processed' = processed /\ next' = 1
    BY <1>13 DEF StartBlock
  <2>2. Height' = Height
    BY <2>1 DEF Height
  <2> QED BY <1>2, <1>4, <1>7, <2>1, <2>2
<1>14. CASE HandlePrefund \/ HandleFund \/ HandleStatus
  <2>1. chain' = chain /\ processed' = processed /\ next' = next + 1
    BY <1>14 DEF HandlePrefund, HandleFund, HandleStatus
  <2>2. block[next].kind # "checkpoint"
    BY <1>14 DEF HandlePrefund, HandleFund, HandleStatus, Handling
  <2> QED BY <1>9, <2>1, <2>2
<1>15. CASE Refuse
  <2>1. chain' = chain /\ processed' = processed /\ next' = next + 1
    BY <1>15 DEF Refuse
  <2>2. CASE block[next].kind = "checkpoint" /\ block[next].tx = i
    <3>1. Settled(i)
      BY <1>15, <2>2, RefusedOther DEF Settled
    <3> QED BY <1>6, <3>1, SettledStays
  <2>3. CASE ~(block[next].kind = "checkpoint" /\ block[next].tx = i)
    BY <1>9, <2>1, <2>3
  <2> QED BY <2>2, <2>3
<1>16. CASE HandleCheckpoint \/ BeginBatch
  BY <1>8, <1>16 DEF HandleCheckpoint, BeginBatch, blockVars
<1>17. CASE SaveTransaction
  <2>1. chain' = chain /\ processed' = processed /\ next' = next + 1 /\ txs' = txs \cup {block[next].tx}
    BY <1>17 DEF SaveTransaction
  <2>2. CASE block[next].tx = i
    BY <1>6, <2>1, <2>2 DEF Settled
  <2>3. CASE block[next].tx # i
    BY <1>9, <2>1, <2>3
  <2> QED BY <2>2, <2>3
<1>18. CASE WriteFund \/ WriteRegistration \/ WriteMint \/ WriteBurn \/ WriteSend
  <2>1. WriteStep
    BY <1>18, Writes
  <2>2. chain' = chain /\ processed' = processed /\ txn.open
    BY <2>1 DEF WriteStep, restOfWrite
  <2>3. block[next].kind = "batch"
    BY <2>2 DEF PlaceInv, NoTxn, At
  <2>4. CASE Abort
    <3>1. next' = next + 1
      BY <2>4 DEF Abort
    <3> QED BY <1>9, <2>2, <2>3, <3>1
  <2>5. CASE UNCHANGED <<next, aborted>>
    BY <1>8, <2>2, <2>5
  <2> QED BY <2>1, <2>4, <2>5 DEF WriteStep
<1>19. CASE CommitBatch
  <2>1. chain' = chain /\ processed' = processed /\ next' = next + 1 /\ txn.open
    BY <1>19 DEF CommitBatch
  <2>2. block[next].kind = "batch"
    BY <2>1 DEF PlaceInv, NoTxn, At
  <2> QED BY <1>9, <2>1, <2>2
<1>20. CASE EndBlock
  <2>1. /\ next = Len(block) + 1 /\ processed' = Height
        /\ saved' = Height \/ saved' = saved
        /\ chain' = [x \in DOMAIN chain |-> IF x <= saved' THEN <<>> ELSE chain[x]]
        /\ next' = 0 \/ next' = 1
    BY <1>20 DEF EndBlock
  <2>2. ~(g = Height /\ j >= next)
    BY <1>2, <1>3, <1>5, <2>1
  <2>3. g > Height /\ Height' = Height + 1
    BY <1>2, <2>1, <2>2 DEF Height
  <2>4. ~(g <= saved')
    BY <1>3, <2>1, <2>3
  <2>5. chain'[g] = chain[g]
    BY <1>4, <2>1, <2>4
  <2>6. g > Height' \/ (g = Height' /\ j >= next')
    <3>1. g \in Nat /\ Height \in Nat
      BY <1>3
    <3>2. j >= next'
      BY <1>4, <2>1
    <3> QED BY <2>3, <3>1, <3>2
  <2> QED BY <1>2, <1>7, <2>5, <2>6
<1>21. CASE Crash
  <2>1. chain' = chain /\ processed' = saved /\ next' = 1
    BY <1>21 DEF Crash
  <2>2. Height' = saved + 1
    BY <2>1 DEF Height
  <2>3. g > Height' \/ (g = Height' /\ j >= next')
    BY <1>2, <1>3, <1>4, <2>1, <2>2
  <2> QED BY <1>2, <1>7, <2>1, <2>3
<1>22. ASSUME NEW s \in Readers, ChildRead(s) PROVE Kept(i, h, k)'
  BY <1>8, <1>22 DEF ChildRead, blockVars
<1> QED BY <1>10, <1>11, <1>12, <1>13, <1>14, <1>15, <1>16, <1>17, <1>18, <1>19, <1>20, <1>21, <1>22
     DEF Next, Monitor

\* Blocks stay as they are or are forgotten, or the last one has one more message,
\* of a user or a proposal.
LEMMA BlockSteps ==
  ASSUME BlockInv, ChainInv, [Next]_vars
  PROVE  \/ /\ proposals' = proposals \/ Sends
            /\ \A h \in 1..MaxBlocks : chain'[h] = chain[h] \/ chain'[h] = <<>>
         \/ proposals' = proposals /\ \E m \in UserMessages : Mined(m)
         \/ \E i \in DOMAIN proposals : MineProposal(i)
<1>1. CASE UNCHANGED vars
  BY <1>1 DEF vars, blockVars
<1>2. ASSUME NEW p \in Plans, Propose(p.subnet, p.batch, p.conf) PROVE chain' = chain /\ Sends
  <2>1. chain' = chain /\ \E k, r \in BOOLEAN : proposals' = Append(proposals, New(p, k, r))
    BY <1>2, ProposeNew DEF Propose, blockVars
  <2> QED BY <1>2, <2>1, Zenon DEF Sends
<1>3. CASE MineMessage
  <2>1. coming \in Seq(UserMessages) /\ coming # <<>> /\ proposals' = proposals /\ Mined(Head(coming))
    BY <1>3 DEF MineMessage, BlockInv
  <2>2. Head(coming) \in UserMessages
    BY <2>1
  <2> QED BY <2>1, <2>2
<1>4. CASE StartBlock \/ HandlePrefund \/ HandleFund \/ HandleStatus \/ HandleCheckpoint
           \/ SaveTransaction \/ BeginBatch \/ Refuse \/ CommitBatch \/ Crash
  BY <1>4 DEF StartBlock, HandlePrefund, HandleFund, HandleStatus, HandleCheckpoint,
     SaveTransaction, BeginBatch, Refuse, CommitBatch, Crash, blockVars
<1>5. CASE WriteFund \/ WriteRegistration \/ WriteMint \/ WriteBurn \/ WriteSend
  BY <1>5 DEF WriteFund, WriteRegistration, WriteMint, WriteBurn, WriteSend, restOfWrite
<1>6. CASE EndBlock
  <2>1. /\ proposals' = proposals
        /\ chain' = [h \in DOMAIN chain |-> IF h <= saved' THEN <<>> ELSE chain[h]]
    BY <1>6 DEF EndBlock
  <2> QED BY <2>1 DEF ChainInv
<1>7. ASSUME NEW s \in Readers, ChildRead(s) PROVE chain' = chain /\ proposals' = proposals
  BY <1>7 DEF ChildRead, blockVars
<1> QED BY <1>1, <1>2, <1>3, <1>4, <1>5, <1>6, <1>7 DEF Next, Monitor, Bitcoin

LEMMA StepKept ==
  ASSUME BlockInv, ChainInv, PlaceInv, StateInv, MessageInv, ProposedInv, KeptInv, [Next]_vars
  PROVE  KeptInv'
<1>0. /\ Len(block) \in Nat /\ DOMAIN block = 1..Len(block) /\ block \in Seq(Messages)
      /\ proposals \in Seq(Proposals) /\ processed \in Nat
  BY DEF BlockInv
<1>1. PICK top : top = MaxBlocks + 1
  OBVIOUS
<1>2. ASSUME NEW i \in DOMAIN proposals, proposals[i].stage # "sent" PROVE Kept(i, top, 0)'
  <2>1. Kept(i, top, 0)
    BY <1>1, <1>2 DEF KeptInv
  <2> QED BY <2>1, KeptStays
\* A batch that was there.
<1>3. ASSUME NEW h \in 1..MaxBlocks, NEW k \in DOMAIN chain[h], chain'[h][k] = chain[h][k],
             chain[h][k].kind = "batch",
             \A i \in DOMAIN proposals : proposals'[i].batch = proposals[i].batch
      PROVE  proposals'[chain'[h][k].tx].batch # <<>> /\ Kept(chain[h][k].tx, h, k)'
  <2>1. PICK x : x = chain[h][k].tx
    OBVIOUS
  <2>2. x \in DOMAIN proposals
    BY <1>3, <2>1 DEF ChainInv, Placed
  <2>3. proposals[x].batch # <<>> /\ Kept(x, h, k)
    BY <1>3, <2>1 DEF KeptInv
  <2>4. Kept(x, h, k)'
    BY <2>2, <2>3, KeptStays
  <2>5. x = chain'[h][k].tx
    BY <1>3, <2>1
  <2> QED BY <1>3, <2>2, <2>3, <2>4, <2>5
\* One more message.
<1>4. ASSUME NEW m, Mined(m)
      PROVE  /\ next = 0 /\ next' = 0 /\ Height' = Height /\ Height \in 1..MaxBlocks
             /\ chain[Height] = block /\ chain'[Height] = Append(block, m)
             /\ \A h \in 1..MaxBlocks : h # Height => chain'[h] = chain[h]
  <2>1. /\ next = 0 /\ next' = next /\ processed' = processed /\ processed < MaxBlocks
        /\ chain' = [chain EXCEPT ![Height] = Append(block, m)]
    BY <1>4 DEF Mined
  <2>2. Height' = Height /\ Height \in 1..MaxBlocks
    BY <1>0, <2>1, LedgerConstants DEF Height
  <2>3. DOMAIN chain = 1..MaxBlocks /\ chain[Height] = block
    BY <2>2 DEF ChainInv, AtHeight, Height
  <2> QED BY <2>1, <2>2, <2>3
<1>5. ASSUME NEW m, Mined(m), NEW h \in 1..MaxBlocks, NEW k \in DOMAIN chain'[h]
      PROVE  \/ k \in DOMAIN chain[h] /\ chain'[h][k] = chain[h][k]
             \/ h = Height /\ k = Len(block) + 1 /\ chain'[h][k] = m
  <2>1. CASE h = Height
    <3>1. chain[h] = block /\ chain'[h] = Append(block, m)
      BY <1>4, <1>5, <2>1
    <3> QED BY <1>0, <1>5, <2>1, <3>1
  <2>2. CASE h # Height
    <3>1. chain'[h] = chain[h]
      BY <1>4, <1>5, <2>2
    <3> QED BY <1>5, <3>1
  <2> QED BY <2>1, <2>2
<1>7. CASE /\ proposals' = proposals \/ Sends
           /\ \A h \in 1..MaxBlocks : chain'[h] = chain[h] \/ chain'[h] = <<>>
  <2>1. /\ \A i \in DOMAIN proposals : proposals'[i] = proposals[i]
        /\ \A i \in DOMAIN proposals' : i \notin DOMAIN proposals => proposals'[i].stage = "sent"
    <3>1. CASE proposals' = proposals
      BY <3>1
    <3>2. CASE Sends
      <4>1. PICK p \in Plans, k \in BOOLEAN, r \in BOOLEAN :
              /\ DOMAIN proposals' = DOMAIN proposals \cup {Len(proposals) + 1}
              /\ \A i \in DOMAIN proposals : proposals'[i] = proposals[i]
              /\ proposals'[Len(proposals) + 1] = New(p, k, r)
        BY <3>2, NewIs, Zenon
      <4>2. New(p, k, r).stage = "sent"
        BY DEF New
      <4> QED BY <4>1, <4>2, Zenon
    <3> QED BY <1>7, <3>1, <3>2
  <2>2. \A i \in DOMAIN proposals' : proposals'[i].stage # "sent" => Kept(i, top, 0)'
    BY <1>2, <2>1
  <2>3. ASSUME NEW h \in 1..MaxBlocks, NEW k \in DOMAIN chain'[h], chain'[h][k].kind = "batch"
        PROVE  proposals'[chain'[h][k].tx].batch # <<>> /\ Kept(chain[h][k].tx, h, k)'
    <3>1. chain'[h] = chain[h]
      BY <1>7, <2>3
    <3> QED BY <1>3, <2>1, <2>3, <3>1
  <2> QED BY <1>1, <2>2, <2>3 DEF KeptInv
<1>8. ASSUME NEW m \in UserMessages, Mined(m), proposals' = proposals PROVE KeptInv'
  <2>1. m.kind # "batch"
    BY DEF UserMessages
  <2>2. ASSUME NEW h \in 1..MaxBlocks, NEW k \in DOMAIN chain'[h], chain'[h][k].kind = "batch"
        PROVE  proposals'[chain'[h][k].tx].batch # <<>> /\ Kept(chain[h][k].tx, h, k)'
    <3>1. k \in DOMAIN chain[h] /\ chain'[h][k] = chain[h][k]
      BY <1>5, <1>8, <2>1, <2>2
    <3> QED BY <1>3, <1>8, <2>2, <3>1
  <2>3. \A i \in DOMAIN proposals' : proposals'[i].stage # "sent" => Kept(i, top, 0)'
    BY <1>2, <1>8
  <2> QED BY <1>1, <2>2, <2>3 DEF KeptInv
<1>9. ASSUME NEW i \in DOMAIN proposals, MineProposal(i) PROVE KeptInv'
  <2> DEFINE p == proposals[i]
             stage == IF p.stage = "sent" THEN "committed" ELSE "revealed"
             m == [kind |-> IF p.stage = "sent" THEN "checkpoint" ELSE "batch",
                   subnet |-> p.subnet, amount |-> 0, tx |-> i]
  <2>1. /\ p.stage = "sent" \/ (p.stage = "committed" /\ p.batch # <<>>)
        /\ Mined(m)
        /\ proposals' = [proposals EXCEPT ![i].stage = stage]
    BY <1>9 DEF MineProposal
  <2>2. m.tx = i /\ (m.kind = "checkpoint" <=> p.stage = "sent") /\ (m.kind = "batch" <=> p.stage # "sent")
    OBVIOUS
  <2> HIDE DEF m, stage
  <2>3. p \in Proposals
    BY <1>0, <1>9
  <2>4. [p EXCEPT !.stage = stage].batch = p.batch
    BY <2>3 DEF Proposals
  <2>5. \A k \in DOMAIN proposals :
          proposals'[k] = IF k = i THEN [p EXCEPT !.stage = stage] ELSE proposals[k]
    BY <1>0, <2>1
  <2>6. DOMAIN proposals' = DOMAIN proposals
    BY <2>1
  <2>7. \A k \in DOMAIN proposals : proposals'[k].batch = proposals[k].batch
    BY <2>4, <2>5
  <2>8. ASSUME p.stage = "sent" PROVE Kept(i, top, 0)'
    <3>1. /\ Height \in 1..MaxBlocks /\ Height' = Height /\ next' = 0
          /\ chain'[Height] = Append(block, m)
      BY <1>4, <2>1
    <3>2. PICK g \in 1..MaxBlocks : g = Height
      BY <3>1
    <3>3. PICK j \in Nat : j = Len(block) + 1
      BY <1>0
    <3>4. j \in DOMAIN chain'[g] /\ chain'[g][j] = m
      BY <1>0, <3>1, <3>2, <3>3
    <3>5. g = Height' /\ j >= next' /\ g < top
      BY <1>1, <3>1, <3>2, <3>3, LedgerConstants
    <3>6. chain'[g][j].kind = "checkpoint" /\ chain'[g][j].tx = i
      BY <2>2, <2>8, <3>4
    <3>7. Due(i, top, 0)'
      BY <3>4, <3>5, <3>6 DEF Due
    <3> QED BY <3>7 DEF Kept
  <2>9. ASSUME NEW k \in DOMAIN proposals', proposals'[k].stage # "sent" PROVE Kept(k, top, 0)'
    <3>1. CASE k = i /\ p.stage = "sent"
      BY <2>8, <3>1
    <3>2. CASE ~(k = i /\ p.stage = "sent")
      <4>1. k \in DOMAIN proposals /\ proposals[k].stage # "sent"
        BY <2>5, <2>6, <2>9, <3>2
      <4> QED BY <1>2, <4>1
    <3> QED BY <3>1, <3>2
  <2>10. ASSUME NEW h \in 1..MaxBlocks, NEW k \in DOMAIN chain'[h], chain'[h][k].kind = "batch"
         PROVE  proposals'[chain'[h][k].tx].batch # <<>> /\ Kept(chain[h][k].tx, h, k)'
    <3>1. CASE h = Height /\ k = Len(block) + 1 /\ chain'[h][k] = m
      <4>1. p.stage = "committed" /\ p.batch # <<>>
        BY <2>1, <2>2, <2>10, <3>1
      <4>2. Kept(i, MaxBlocks + 1, 0)
        BY <1>9, <4>1 DEF KeptInv
      <4>3. Kept(i, h, k)
        <5>1. ASSUME Due(i, MaxBlocks + 1, 0) PROVE Due(i, h, k)
          <6>1. PICK g \in 1..MaxBlocks : \E j \in DOMAIN chain[g] :
                  /\ chain[g][j].kind = "checkpoint" /\ chain[g][j].tx = i
                  /\ g > Height \/ (g = Height /\ j >= next)
            BY <5>1 DEF Due
          <6>2. PICK j \in DOMAIN chain[g] :
                  /\ chain[g][j].kind = "checkpoint" /\ chain[g][j].tx = i
                  /\ g > Height \/ (g = Height /\ j >= next)
            BY <6>1
          <6>3. next = 0 /\ chain[Height] = block
            BY <1>4, <2>1
          <6>4. DOMAIN <<>> = {}
            OBVIOUS
          <6>5. ~(g > Height)
            BY <6>2, <6>3, <6>4 DEF ChainInv, Height
          <6>6. g = h /\ j < k
            BY <1>0, <3>1, <6>2, <6>3, <6>5
          <6> QED BY <6>2, <6>6 DEF Due
        <5> QED BY <4>2, <5>1 DEF Kept
      <4>4. Kept(i, h, k)'
        BY <1>9, <4>3, KeptStays
      <4>5. i = chain'[h][k].tx
        BY <2>2, <3>1
      <4> QED BY <1>9, <2>7, <4>1, <4>4, <4>5
    <3>2. CASE k \in DOMAIN chain[h] /\ chain'[h][k] = chain[h][k]
      BY <1>3, <2>7, <2>10, <3>2
    <3> QED BY <1>5, <2>1, <2>10, <3>1, <3>2
  <2> QED BY <1>1, <2>9, <2>10 DEF KeptInv
<1> QED BY <1>7, <1>8, <1>9, BlockSteps

----------------------------------------------------------------------------
(* A checkpoint whose transaction is kept is on record.                    *)

LEMMA StepRecord ==
  ASSUME BlockInv, PlaceInv, StateInv, MessageInv, RecordInv, [Next]_vars
  PROVE  RecordInv'
<1>0. /\ block \in Seq(Messages) /\ DOMAIN block = 1..Len(block) /\ Len(block) \in Nat
      /\ last \in [Subnets -> Nat \cup {None}] /\ txs \subseteq DOMAIN proposals
      /\ DOMAIN records = Subnets
      /\ half \in BOOLEAN
  BY DEF BlockInv, StateInv, RecordInv, PlaceInv
<1>1. \A i \in DOMAIN proposals : i \in DOMAIN proposals' /\ proposals'[i].subnet = proposals[i].subnet
  BY Proposing, NewIs DEF Same
<1>2. ASSUME last' = last, records' = records, txs' = txs,
             half' => half /\ block' = block /\ next' = next
      PROVE  RecordInv'
  <2>1. \A i \in txs' : last'[proposals'[i].subnet] # None
    BY <1>0, <1>1, <1>2 DEF RecordInv
  <2>2. half' => last'[block'[next'].subnet] # None
    BY <1>2 DEF RecordInv
  <2> QED BY <1>2, <2>1, <2>2 DEF RecordInv
<1>3. CASE UNCHANGED vars
  BY <1>2, <1>3 DEF vars, blockVars, checkVars
<1>4. ASSUME NEW p \in Plans, Propose(p.subnet, p.batch, p.conf) PROVE RecordInv'
  BY <1>2, <1>4 DEF Propose, blockVars, checkVars
<1>5. CASE Bitcoin
  <2>1. next = 0 /\ half' = half /\ last' = last /\ records' = records /\ txs' = txs
    BY <1>5 DEF Bitcoin, MineMessage, MineProposal, Mined, checkVars
  <2>2. ~half
    BY <1>0, <2>1 DEF PlaceInv, At
  <2> QED BY <1>2, <2>1, <2>2
<1>6. CASE StartBlock \/ HandlePrefund \/ HandleFund \/ HandleStatus \/ Refuse \/ EndBlock \/ Crash
  <2>1. last' = last /\ records' = records /\ txs' = txs
    BY <1>6 DEF StartBlock, HandlePrefund, HandleFund, HandleStatus, Refuse, EndBlock, Crash, checkVars
  <2>2. half => next \in 1..Len(block)
    BY <1>0 DEF PlaceInv, At
  <2>3. CASE StartBlock \/ EndBlock
    <3>1. half' = half /\ (next = 0 \/ next = Len(block) + 1)
      BY <2>3 DEF StartBlock, EndBlock
    <3>2. next \notin 1..Len(block)
      BY <1>0, <3>1
    <3> QED BY <1>2, <2>1, <2>2, <3>1, <3>2
  <2>4. CASE HandlePrefund \/ HandleFund \/ HandleStatus \/ Refuse
    <3>1. half' = half /\ ~half
      BY <2>4 DEF HandlePrefund, HandleFund, HandleStatus, Refuse, Handling
    <3> QED BY <1>2, <2>1, <3>1
  <2>5. CASE Crash
    <3>1. half' = FALSE
      BY <2>5 DEF Crash
    <3> QED BY <1>2, <2>1, <3>1
  <2> QED BY <1>6, <2>3, <2>4, <2>5
<1>7. CASE BeginBatch
  BY <1>2, <1>7 DEF BeginBatch, blockVars, checkVars
<1>8. CASE WriteFund \/ WriteRegistration \/ WriteMint \/ WriteBurn \/ WriteSend
  <2>1. WriteStep
    BY <1>8, Writes
  <2>2. last' = last /\ records' = records /\ txs' = txs /\ half' = half /\ txn.open
    BY <2>1 DEF WriteStep, restOfWrite, checkVars
  <2>3. ~half
    BY <2>2 DEF PlaceInv, NoTxn, At
  <2> QED BY <1>2, <2>2, <2>3
<1>9. CASE HandleCheckpoint
  <2> DEFINE s == block[next].subnet
             n == last[s] + 1
             record == [tx |-> block[next].tx, batch |-> None]
             f == [k \in DOMAIN records[s] \cup {n} |-> IF k = n THEN record ELSE records[s][k]]
  <2>1. /\ next \in 1..Len(block) /\ block' = block /\ next' = next /\ txs' = txs
        /\ last' = [last EXCEPT ![s] = n]
        /\ records' = [records EXCEPT ![s] = f]
    BY <1>9 DEF HandleCheckpoint, Handling
  <2>2. s \in Subnets
    <3>1. block[next] \in Messages
      BY <1>0, <2>1
    <3> QED BY <3>1 DEF Messages
  <2>3. n \in Nat /\ n # None
    BY <1>0, <2>2 DEF None
  <2>4. n \in DOMAIN f
    OBVIOUS
  <2> HIDE DEF f, n, s
  <2>5. /\ \A t \in Subnets : last'[t] = IF t = s THEN n ELSE last[t]
        /\ \A t \in Subnets : records'[t] = IF t = s THEN f ELSE records[t]
        /\ DOMAIN records' = Subnets
    BY <1>0, <2>1
  <2>6. \A t \in Subnets : last'[t] # None => last'[t] \in DOMAIN records'[t]
    BY <2>4, <2>5 DEF RecordInv
  <2>7. \A i \in txs' : last'[proposals'[i].subnet] # None
    <3> SUFFICES ASSUME NEW i \in txs PROVE last'[proposals'[i].subnet] # None
      BY <2>1
    <3>1. i \in DOMAIN proposals /\ proposals'[i].subnet = proposals[i].subnet
      BY <1>0, <1>1
    <3>2. proposals[i].subnet \in Subnets
      <4>1. proposals[i] \in Proposals
        BY <3>1 DEF BlockInv
      <4> QED BY <4>1 DEF Proposals
    <3>3. last[proposals[i].subnet] # None
      BY DEF RecordInv
    <3> QED BY <2>3, <2>5, <3>1, <3>2, <3>3
  <2>8. last'[block'[next'].subnet] # None
    BY <2>1, <2>2, <2>3, <2>5 DEF s
  <2> QED BY <2>5, <2>6, <2>7, <2>8 DEF RecordInv
<1>10. CASE SaveTransaction
  <2>1. /\ half /\ txs' = txs \cup {block[next].tx} /\ half' = FALSE /\ last' = last
        /\ records' = records /\ proposals' = proposals
    BY <1>10 DEF SaveTransaction
  <2>2. next \in DOMAIN block /\ block[next].kind = "checkpoint"
    BY <2>1 DEF PlaceInv, At
  <2>3. block[next].subnet = proposals[block[next].tx].subnet
    BY <2>2 DEF BlockInv, Placed
  <2> QED BY <2>1, <2>3 DEF RecordInv
<1>11. CASE CommitBatch
  <2> DEFINE s == block[next].subnet
             n == last[s]
             record == [records[s][n] EXCEPT !.batch = block[next].tx]
             f == [k \in DOMAIN records[s] \cup {n + 1} |-> IF k = n + 1 THEN record ELSE records[s][k]]
  <2>1. /\ txn.open /\ half' = half /\ txs' = txs /\ last' = last /\ proposals' = proposals
        /\ records' = [records EXCEPT ![s] = f]
    BY <1>11 DEF CommitBatch
  <2>2. ~half
    BY <2>1 DEF PlaceInv, NoTxn, At
  <2>3. DOMAIN records[s] \subseteq DOMAIN f
    OBVIOUS
  <2> HIDE DEF f, s, n
  <2>4. DOMAIN records' = Subnets /\ \A t \in Subnets : DOMAIN records[t] \subseteq DOMAIN records'[t]
    BY <1>0, <2>1, <2>3
  <2> QED BY <2>1, <2>2, <2>4 DEF RecordInv
<1>12. ASSUME NEW s \in Readers, ChildRead(s) PROVE RecordInv'
  BY <1>2, <1>12 DEF ChildRead, blockVars, checkVars
<1> QED BY <1>3, <1>4, <1>5, <1>6, <1>7, <1>8, <1>9, <1>10, <1>11, <1>12 DEF Next, Monitor

----------------------------------------------------------------------------
(* A batch takes from its own subnet only.                                 *)

LEMMA OthersChanged ==
  ASSUME NEW bal \in Balances, NEW new, NEW home0, NEW t0, NEW s, NEW v,
         Changed(bal, new, home0, t0, s, v)
  PROVE  Others(bal, new, s)
<1> SUFFICES ASSUME NEW home \in Subnets, NEW t \in Tokens, NEW h \in Subnets, h # s
             PROVE  bal[<<home, t, h>>] <= new[<<home, t, h>>]
  BY DEF Others
<1>1. new[<<home, t, h>>] = bal[<<home, t, h>>]
  BY DEF Changed
<1>2. bal[<<home, t, h>>] \in Nat
  BY BalanceNat
<1> QED BY <1>1, <1>2

LEMMA OthersCredited ==
  ASSUME NEW bal \in Balances, NEW new, NEW r \in Records, r.token \in Tokens, NEW s,
         Changed(bal, new, r.home, r.token, r.dest, AtMost(bal[<<r.home, r.token, r.dest>>] + r.amount))
  PROVE  Others(bal, new, s)
<1> DEFINE b == bal[<<r.home, r.token, r.dest>>]
           v == AtMost(b + r.amount)
<1>1. r.home \in Subnets /\ r.dest \in Subnets /\ r.amount \in Nat
  BY DEF Records
<1>2. b \in Nat /\ b <= MaxToken
  BY <1>1, BalanceNat
<1> HIDE DEF b
<1>3. b <= v
  <2>1. b + r.amount \in Int /\ b <= b + r.amount
    BY <1>1, <1>2
  <2> DEFINE n == b + r.amount
  <2> HIDE DEF n
  <2>2. n \in Int /\ b <= n
    BY <2>1 DEF n
  <2>3. (n <= MaxToken => AtMost(n) = n) /\ (n > MaxToken => AtMost(n) = MaxToken)
    BY <2>2, AtMostIs
  <2>4. b <= AtMost(n)
    BY <1>2, <2>2, <2>3, LedgerConstants
  <2> QED BY <2>4 DEF n
<1> SUFFICES ASSUME NEW home \in Subnets, NEW t \in Tokens, NEW h \in Subnets
             PROVE  bal[<<home, t, h>>] <= new[<<home, t, h>>]
  BY DEF Others
<1>4. new[<<home, t, h>>] =
        IF home = r.home /\ t = r.token /\ h = r.dest THEN v ELSE bal[<<home, t, h>>]
  BY DEF Changed, b
<1>5. bal[<<home, t, h>>] \in Nat
  BY BalanceNat
<1> HIDE DEF v
<1> QED BY <1>3, <1>4, <1>5 DEF b

LEMMA OthersOn ==
  ASSUME NEW a \in Balances, NEW b \in Balances, NEW c \in Balances, NEW s, Others(a, b, s), Others(b, c, s)
  PROVE  Others(a, c, s)
<1> SUFFICES ASSUME NEW home \in Subnets, NEW t \in Tokens, NEW h \in Subnets, h # s
             PROVE  a[<<home, t, h>>] <= c[<<home, t, h>>]
  BY DEF Others
<1> DEFINE x == a[<<home, t, h>>]
           y == b[<<home, t, h>>]
           z == c[<<home, t, h>>]
<1>1. x \in Nat /\ y \in Nat /\ z \in Nat
  BY BalanceNat
<1>2. x <= y /\ y <= z
  BY Zenon DEF Others
<1> HIDE DEF x, y, z
<1>3. x <= z
  BY <1>1, <1>2
<1> QED BY <1>3 DEF x, z

LEMMA OthersSelf == ASSUME NEW bal \in Balances, NEW s PROVE Others(bal, bal, s)
<1> SUFFICES ASSUME NEW home \in Subnets, NEW t \in Tokens, NEW h \in Subnets
             PROVE  bal[<<home, t, h>>] <= bal[<<home, t, h>>]
  BY DEF Others
<1>1. bal[<<home, t, h>>] \in Nat
  BY BalanceNat
<1> QED BY <1>1

LEMMA WritesTake ==
  ASSUME BlockInv, PlaceInv, MessageInv, BatchInv,
         WriteFund \/ WriteRegistration \/ WriteMint \/ WriteBurn \/ WriteSend
  PROVE  Others(txn.balance, txn'.balance, Source)
<1> DEFINE s == Source
           b == txn.todo
           bal == txn.balance
           r == Head(b)
<1>1. txn.open /\ b # <<>>
  BY DEF WriteFund, WriteRegistration, WriteMint, WriteBurn, WriteSend, Writing
<1>2. At("batch")
  BY <1>1 DEF PlaceInv, NoTxn
<1>3. s \in Subnets
  BY <1>2, WholeIs
<1>4. BatchOK(s, b) /\ InTurn(b) /\ bal \in Balances /\ RestValid(s, b, bal)
  BY <1>1 DEF BatchInv
<1>5. /\ r.op \in {"register", "mint", "burn"} => r.home = s
      /\ r.op # "fund" => r.token \in Tokens /\ r.amount \in 0..MaxToken
      /\ r.home \in Subnets /\ r.dest \in Subnets /\ r.amount \in Nat
      /\ r \in Records
  BY <1>1, <1>4, HeadOK
<1>6. PICK new, cut : Advanced(new, cut)
  BY WritesAdvance
<1>7. txn'.balance = new /\ new \in Balances /\ next' = next
  BY <1>6 DEF Advanced, Wrote
<1>8. ~Abort
  BY <1>6 DEF Abort, Advanced, Wrote, NoTxn
<1>9. ASSUME NEW boxes, NEW x, NEW c, Write(boxes, x, c) PROVE new = x
  <2>1. Wrote(boxes, x, c)
    BY <1>1, <1>9, WriteIs
  <2> QED BY <1>7, <2>1 DEF Wrote
<1>10. CASE WriteFund
  <2>1. Write(Post(txn.msgs, r.dest, r), bal, FALSE)
    BY <1>10 DEF WriteFund
  <2>2. new = bal
    BY <1>9, <2>1
  <2> QED BY <1>4, <1>7, <2>2, OthersSelf
\* Only the home's own balance is written.
<1>11. ASSUME r.token \in Tokens, NEW v, new = [bal EXCEPT ![<<s, r.token, s>>] = v]
       PROVE  Others(bal, txn'.balance, s)
  <2>1. <<s, r.token, s>> \in Holdings
    BY <1>3, <1>11 DEF Holdings
  <2>2. new[<<s, r.token, s>>] = v
    BY <1>4, <1>11, <2>1 DEF Balances
  <2>3. v \in 0..MaxToken
    BY <1>7, <2>1, <2>2 DEF Balances
  <2>4. Changed(bal, new, s, r.token, s, v)
    BY <1>3, <1>4, <1>11, <2>3, ChangeIs
  <2> QED BY <1>4, <1>7, <2>4, OthersChanged
<1>12. CASE WriteRegistration
  <2>1. r.op = "register"
        /\ Write([d \in Subnets |-> IF d \in FanOut THEN Post(txn.msgs, d, r)[d] ELSE txn.msgs[d]],
                 [bal EXCEPT ![<<s, r.token, s>>] = r.amount], FALSE)
    BY <1>12 DEF WriteRegistration, Writing
  <2>2. new = [bal EXCEPT ![<<s, r.token, s>>] = r.amount]
    BY <1>9, <2>1
  <2> QED BY <1>5, <1>11, <2>1, <2>2
<1>13. CASE WriteMint
  <2> DEFINE sum == bal[<<s, r.token, s>>] + r.amount
  <2>1. r.op = "mint" /\ Write(txn.msgs, [bal EXCEPT ![<<s, r.token, s>>] = AtMost(sum)], sum > MaxToken)
    BY <1>13 DEF WriteMint, Writing
  <2>2. new = [bal EXCEPT ![<<s, r.token, s>>] = AtMost(sum)]
    BY <1>9, <2>1
  <2> QED BY <1>5, <1>11, <2>1, <2>2
<1>14. CASE WriteBurn
  <2>1. r.op = "burn"
        /\ Write(txn.msgs, [bal EXCEPT ![<<s, r.token, s>>] = bal[<<s, r.token, s>>] - r.amount], FALSE)
    BY <1>8, <1>14 DEF WriteBurn, Writing
  <2>2. new = [bal EXCEPT ![<<s, r.token, s>>] = bal[<<s, r.token, s>>] - r.amount]
    BY <1>9, <2>1
  <2> QED BY <1>5, <1>11, <2>1, <2>2
<1>15. CASE WriteSend
  <2> DEFINE cut2 == r.dest # s /\ bal[<<r.home, r.token, r.dest>>] + r.amount > MaxToken
  <2>1. /\ r.op = "send" /\ bal[<<r.home, r.token, s>>] >= r.amount
        /\ Write(Post(txn.msgs, r.dest, r), Moved(bal, r), cut2)
    BY <1>8, <1>15 DEF WriteSend, Writing
  <2>2. new = Moved(bal, r)
    BY <1>9, <2>1
  <2>3. r.token \in Tokens
    BY <1>5, <2>1
  <2>4. PICK mid :
          /\ Changed(bal, mid, r.home, r.token, s, bal[<<r.home, r.token, s>>] - r.amount)
          /\ Changed(mid, new, r.home, r.token, r.dest, AtMost(mid[<<r.home, r.token, r.dest>>] + r.amount))
    BY <1>3, <1>4, <1>5, <2>1, <2>2, <2>3, MovedIs
  <2>5. mid \in Balances
    BY <2>4 DEF Changed
  <2>6. Others(bal, mid, s)
    BY <1>4, <2>4, OthersChanged
  <2>7. Others(mid, new, s)
    BY <1>5, <2>3, <2>4, <2>5, OthersCredited
  <2> QED BY <1>4, <1>7, <2>5, <2>6, <2>7, OthersOn
<1> QED BY <1>10, <1>12, <1>13, <1>14, <1>15

LEMMA StepGrow ==
  ASSUME BlockInv, PlaceInv, MessageInv, BatchInv, BatchInv', balance \in Balances, GrowInv, [Next]_vars
  PROVE  GrowInv'
<1>1. ASSUME txn' = NoTxn PROVE GrowInv'
  BY <1>1 DEF GrowInv, NoTxn
<1>2. ASSUME ~txn.open, txn' = txn PROVE GrowInv'
  BY <1>2 DEF GrowInv
<1>3. ASSUME txn' = txn, block' = block, next' = next, balance' = balance PROVE GrowInv'
  BY <1>3 DEF GrowInv, Source
<1>4. CASE UNCHANGED vars
  BY <1>3, <1>4 DEF vars, blockVars
<1>5. ASSUME NEW p \in Plans, Propose(p.subnet, p.batch, p.conf) PROVE GrowInv'
  BY <1>3, <1>5 DEF Propose, blockVars
<1>6. CASE Bitcoin \/ StartBlock \/ SaveTransaction \/ EndBlock
  <2>1. txn' = txn /\ (next = 0 \/ half \/ next = Len(block) + 1)
    BY <1>6 DEF Bitcoin, MineMessage, MineProposal, Mined, StartBlock, SaveTransaction, EndBlock
  <2>2. half => At("checkpoint")
    BY DEF PlaceInv
  <2>3. ~At("batch")
    <3>1. DOMAIN block = 1..Len(block) /\ Len(block) \in Nat
      BY DEF BlockInv
    <3> QED BY <2>1, <2>2, <3>1 DEF At
  <2>4. ~txn.open
    BY <2>3 DEF PlaceInv, NoTxn
  <2> QED BY <1>2, <2>1, <2>4
<1>7. CASE HandlePrefund \/ HandleFund \/ HandleStatus \/ HandleCheckpoint \/ Refuse
  <2>1. txn' = txn /\ ~txn.open
    BY <1>7 DEF HandlePrefund, HandleFund, HandleStatus, HandleCheckpoint, Refuse, Handling
  <2> QED BY <1>2, <2>1
<1>8. CASE BeginBatch
  <2>1. txn'.balance = balance /\ balance' = balance
    BY <1>8 DEF BeginBatch
  <2> QED BY <2>1, OthersSelf DEF GrowInv
<1>9. CASE WriteFund \/ WriteRegistration \/ WriteMint \/ WriteBurn \/ WriteSend
  <2>1. PICK new, cut : Advanced(new, cut)
    BY <1>9, WritesAdvance
  <2>2. WriteStep
    BY <1>9, Writes
  <2>3. txn.open /\ block' = block /\ balance' = balance
    BY <2>2 DEF WriteStep, restOfWrite
  <2>4. next' = next /\ txn'.balance = new /\ new \in Balances
    BY <2>1 DEF Advanced, Wrote
  <2>5. Source' = Source
    BY <2>3, <2>4 DEF Source
  <2>6. txn.balance \in Balances /\ Others(balance, txn.balance, Source)
    BY <2>3 DEF BatchInv, GrowInv
  <2>7. Others(txn.balance, new, Source)
    BY <1>9, <2>4, WritesTake
  <2>8. Others(balance, new, Source)
    BY <2>4, <2>6, <2>7, OthersOn
  <2> QED BY <2>3, <2>4, <2>5, <2>8 DEF GrowInv
<1>10. CASE CommitBatch \/ Crash
  BY <1>1, <1>10 DEF CommitBatch, Crash
<1>11. ASSUME NEW s \in Readers, ChildRead(s) PROVE GrowInv'
  BY <1>3, <1>11 DEF ChildRead, blockVars
<1> QED BY <1>4, <1>5, <1>6, <1>7, <1>8, <1>9, <1>10, <1>11 DEF Next, Monitor

----------------------------------------------------------------------------
(* A batch that nothing overtook can still be paid for.                    *)

\* For a batch without registrations, Affordable is the validation.
LEMMA PlainValid ==
  ASSUME NEW s, NEW p, p.subnet = s, Plain(p.batch)
  PROVE  ValidateErcBatchData(s, p.batch) <=> Affordable(p, balance)
<1>1. \A t : Registers(p.batch, t) = {}
  BY DEF Registers, Plain
<1>2. \A home, t : Supplied(s, p.batch, home, t)
                     = AtMost(Total(p.batch, "mint", home, t) + balance[<<home, t, s>>])
  BY <1>1 DEF Supplied
<1>3. Cardinality({}) <= 1
  BY FS_EmptySet
<1>4. \A t \in Tokens : /\ Cardinality(Registers(p.batch, t)) <= 1
                        /\ Registers(p.batch, t) # {} => balance[<<s, t, s>>] = 0
  BY <1>1, <1>3
<1> QED BY <1>2, <1>4, Zenon DEF ValidateErcBatchData, Affordable

LEMMA MoreAtMost ==
  ASSUME NEW m \in Nat, NEW n \in Nat, m <= n
  PROVE  AtMost(m) <= AtMost(n) /\ AtMost(m) \in Int /\ AtMost(n) \in Int
<1>1. /\ AtMost(m) \in Int /\ AtMost(n) \in Int /\ AtMost(m) <= m /\ AtMost(m) <= MaxToken
      /\ n <= MaxToken => AtMost(n) = n
      /\ n > MaxToken => AtMost(n) = MaxToken
  BY AtMostIs
<1> QED BY <1>1, LedgerConstants

LEMMA StillAffordable ==
  ASSUME NEW p \in Proposals, NEW bal \in Balances, NEW new \in Balances, NEW s, p.subnet # s,
         Others(bal, new, s), Affordable(p, bal)
  PROVE  Affordable(p, new)
<1>0. p.subnet \in Subnets /\ p.batch \in Seq(Records)
  BY DEF Proposals
<1>1. ASSUME NEW home \in Subnets, NEW t \in Tokens
      PROVE  Total(p.batch, "burn", home, t) + Total(p.batch, "send", home, t)
               <= AtMost(Total(p.batch, "mint", home, t) + new[<<home, t, p.subnet>>])
  <2> DEFINE d == Total(p.batch, "burn", home, t) + Total(p.batch, "send", home, t)
             m == Total(p.batch, "mint", home, t)
             x == bal[<<home, t, p.subnet>>]
             y == new[<<home, t, p.subnet>>]
  <2>1. /\ Total(p.batch, "burn", home, t) \in Nat /\ Total(p.batch, "send", home, t) \in Nat
        /\ m \in Nat
    BY <1>0, TotalIs
  <2>2. d \in Nat
    BY <2>1
  <2>3. x \in Nat /\ y \in Nat
    BY <1>0, BalanceNat
  <2>4. x <= y
    BY <1>0, Zenon DEF Others
  <2>5. d <= AtMost(m + x)
    BY Zenon DEF Affordable
  <2> HIDE DEF d, m, x, y
  <2>6. m + x \in Nat /\ m + y \in Nat /\ m + x <= m + y
    BY <2>1, <2>3, <2>4
  <2>7. AtMost(m + x) <= AtMost(m + y) /\ AtMost(m + x) \in Int /\ AtMost(m + y) \in Int
    BY <2>6, MoreAtMost
  <2>8. d <= AtMost(m + y)
    BY <2>2, <2>5, <2>7
  <2> QED BY <2>8 DEF d, m, y
<1> QED BY <1>1, Zenon DEF Affordable

LEMMA OvertakenStays ==
  ASSUME StateInv, [Next]_vars, NEW p \in Proposals, Overtaken(p, applied)
  PROVE  Overtaken(p, applied')
<1>1. PICK k \in (p.base + 1)..Len(applied) : applied[k].kind = "batch" /\ applied[k].subnet = p.subnet
  BY DEF Overtaken
<1>2. /\ Len(applied) \in Nat /\ Len(applied') \in Nat /\ Len(applied) <= Len(applied')
      /\ \A j \in 1..Len(applied) : applied'[j] = applied[j]
  BY HistoryLonger
<1>3. p.base \in Nat
  BY DEF Proposals
<1>4. k \in 1..Len(applied) /\ k \in (p.base + 1)..Len(applied')
  BY <1>1, <1>2, <1>3
<1> QED BY <1>1, <1>2, <1>4 DEF Overtaken

LEMMA StepFresh ==
  ASSUME BlockInv, BlockInv', PlaceInv, StateInv, BatchInv, balance \in Balances, balance' \in Balances,
         ProposedInv, GrowInv, FreshInv, [Next]_vars
  PROVE  FreshInv'
<1>0. proposals \in Seq(Proposals) /\ applied \in Seq(Effects)
  BY DEF BlockInv, StateInv
<1>1. \A i \in DOMAIN proposals : proposals[i] \in Proposals
  BY <1>0
\* A proposal that was there.
<1>2. ASSUME NEW i \in DOMAIN proposals, Same(proposals[i], proposals'[i]),
             Plain(proposals'[i].batch), ~Overtaken(proposals'[i], applied')
      PROVE  Affordable(proposals'[i], balance')
  <2> DEFINE p == proposals[i]
  <2>1. p \in Proposals
    BY <1>1, <1>2
  <2>2. Plain(p.batch) /\ ~Overtaken(p, applied')
    BY <1>2 DEF Same, Overtaken
  <2>3. ~Overtaken(p, applied)
    BY <2>1, <2>2, OvertakenStays
  <2>4. Affordable(p, balance)
    BY <1>2, <2>2, <2>3 DEF FreshInv
  <2>5. Affordable(p, balance')
    <3>1. CASE balance' = balance
      BY <2>4, <3>1
    <3>2. CASE /\ txn.open /\ balance' = txn.balance
               /\ applied' = Append(applied, Effect(block[next], InOrder(Whole)))
      <4>1. block[next].kind = "batch" /\ Source = block[next].subnet
        BY <3>2 DEF PlaceInv, NoTxn, At, Source
      <4> DEFINE e == Effect(block[next], InOrder(Whole))
      <4>2. e.kind = "batch" /\ e.subnet = Source
        BY <4>1 DEF Effect
      <4> HIDE DEF e
      <4>3. Len(applied') = Len(applied) + 1 /\ applied'[Len(applied) + 1] = e /\ Len(applied) \in Nat
        BY <1>0, <3>2 DEF e
      <4>4. p.base \in Nat /\ p.base <= Len(applied)
        BY <1>2, <2>1 DEF ProposedInv, Proposals
      <4>5. Len(applied) + 1 \in (p.base + 1)..Len(applied')
        BY <4>3, <4>4
      <4>6. p.subnet # Source
        BY <2>2, <4>2, <4>3, <4>5 DEF Overtaken
      <4>7. Others(balance, balance', Source)
        BY <3>2 DEF GrowInv
      <4> HIDE DEF p
      <4> QED BY <2>1, <2>4, <4>6, <4>7, StillAffordable
    <3> QED BY <3>1, <3>2, Effective
  <2> QED BY <1>2, <2>5 DEF Same, Affordable
<1>3. CASE Sends
  <2>1. PICK p \in Plans, k \in BOOLEAN, r \in BOOLEAN :
          /\ Propose(p.subnet, p.batch, p.conf) /\ New(p, k, r) \in Proposals
          /\ DOMAIN proposals' = DOMAIN proposals \cup {Len(proposals) + 1}
          /\ \A i \in DOMAIN proposals : proposals'[i] = proposals[i]
          /\ proposals'[Len(proposals) + 1] = New(p, k, r)
    BY <1>3, NewIs, Zenon
  <2> DEFINE q == New(p, k, r)
  <2>2. q.subnet = p.subnet /\ q.batch = p.batch
    BY DEF New
  <2>3. ValidateErcBatchData(p.subnet, p.batch) /\ balance' = balance
    BY <2>1 DEF Propose
  <2> HIDE DEF q
  <2>4. Plain(q.batch) => Affordable(q, balance')
    <3>1. Plain(q.batch) => (ValidateErcBatchData(p.subnet, q.batch) <=> Affordable(q, balance))
      BY <2>2, PlainValid
    <3> QED BY <2>2, <2>3, <3>1
  <2>5. \A i \in DOMAIN proposals : Same(proposals[i], proposals'[i])
    BY <2>1 DEF Same
  <2>6. ASSUME NEW i \in DOMAIN proposals', Plain(proposals'[i].batch), ~Overtaken(proposals'[i], applied')
        PROVE  Affordable(proposals'[i], balance')
    <3>1. CASE i \in DOMAIN proposals
      BY <1>2, <2>5, <2>6, <3>1
    <3>2. CASE i \notin DOMAIN proposals
      <4>1. proposals'[i] = q
        BY <2>1, <2>6, <3>2 DEF q
      <4> QED BY <2>4, <2>6, <4>1
    <3> QED BY <3>1, <3>2
  <2> QED BY <2>6 DEF FreshInv
<1>4. CASE /\ DOMAIN proposals' = DOMAIN proposals
           /\ \A i \in DOMAIN proposals : Same(proposals[i], proposals'[i])
  BY <1>2, <1>4 DEF FreshInv
<1> QED BY <1>3, <1>4, Proposing

----------------------------------------------------------------------------
(* The theorem about stale batches.                                        *)

StaleInv == TransferInv /\ ProposedInv /\ KeptInv /\ RecordInv /\ GrowInv /\ FreshInv

LEMMA InitStale == Init => StaleInv
<1> SUFFICES ASSUME Init PROVE StaleInv
  OBVIOUS
<1>1. proposals = <<>> /\ txs = {} /\ half = FALSE /\ txn = NoTxn
      /\ chain = [h \in 1..MaxBlocks |-> <<>>]
      /\ last = [s \in Subnets |-> None] /\ records = [s \in Subnets |-> <<>>]
  BY DEF Init
<1>2. DOMAIN <<>> = {}
  OBVIOUS
<1>3. ProposedInv /\ KeptInv /\ FreshInv
  BY <1>1, <1>2 DEF ProposedInv, KeptInv, FreshInv
<1>4. RecordInv /\ GrowInv
  BY <1>1 DEF RecordInv, GrowInv, NoTxn
<1> QED BY <1>3, <1>4, InitTransfer DEF StaleInv

LEMMA StepStale == StaleInv /\ [Next]_vars => StaleInv'
<1> SUFFICES ASSUME StaleInv, [Next]_vars PROVE StaleInv'
  OBVIOUS
<1>1. TransferInv /\ TransferInv'
  BY StepTransfer DEF StaleInv
<1>2. /\ BlockInv /\ ChainInv /\ PlaceInv /\ StateInv /\ MessageInv /\ BatchInv
      /\ balance \in Balances /\ BlockInv' /\ BatchInv' /\ balance' \in Balances
  BY <1>1 DEF TransferInv, LedgerInv
<1>3. ProposedInv /\ KeptInv /\ RecordInv /\ GrowInv /\ FreshInv
  BY DEF StaleInv
<1>4. ProposedInv'
  BY <1>2, <1>3, StepProposed
<1>5. KeptInv'
  BY <1>2, <1>3, StepKept
<1>6. RecordInv'
  BY <1>2, <1>3, StepRecord
<1>7. GrowInv'
  BY <1>2, <1>3, StepGrow
<1>8. FreshInv'
  BY <1>2, <1>3, StepFresh
<1> QED BY <1>1, <1>4, <1>5, <1>6, <1>7, <1>8 DEF StaleInv

\* The inductive invariant of batches that wait: in all the blocks that are still to be
\* handled, or may be once more, a batch comes after its checkpoint is kept or has been
\* refused for good, and unless another batch of its subnet overtook it, it can still be
\* paid for.
THEOREM Waiting == Spec => []StaleInv
BY InitStale, StepStale, PTL DEF Spec

LEMMA OnlyEmpty ==
  ASSUME NEW b \in Seq(Records), Only(b, "register") = <<>>
  PROVE  Plain(b)
<1> DEFINE K == {i \in DOMAIN b : b[i].op = "register"}
<1>1. PICK m : Places(Only(b, "register"), b, m, K)
  BY OnlyIs
<1>2. K = {}
  BY <1>1 DEF Places
<1> QED BY <1>2 DEF Plain

LEMMA MinFirst == ASSUME NEW n \in Nat, NEW c \in Nat, n <= c PROVE n = Min({n, c})
<1>1. n \in {n, c} /\ \A y \in {n, c} : n <= y
  OBVIOUS
<1>2. \A x \in {n, c} : (\A y \in {n, c} : x <= y) => x = n
  OBVIOUS
<1> QED BY <1>1, <1>2 DEF Min

LEMMA ValidStill ==
  ASSUME StaleInv, next \in 1..Len(block), block[next].kind = "batch",
         Plain(proposals[block[next].tx].batch), ~Overtaken(proposals[block[next].tx], applied),
         proposals[block[next].tx].readable,
         Len(Only(proposals[block[next].tx].batch, "fund")) <= MaxCount,
         block[next].tx \notin txs =>
           ~Outrun(proposals[block[next].tx].subnet, proposals[block[next].tx].conf)
  PROVE  BatchValid(block[next])
<1> DEFINE m == block[next]
           p == proposals[m.tx]
           whole == p.batch
<1>1. BlockInv /\ ChainInv /\ ProposedInv /\ KeptInv /\ RecordInv /\ FreshInv /\ StateInv
  BY DEF StaleInv, TransferInv
<1>2. next \in DOMAIN block /\ next \in Nat
  BY <1>1 DEF BlockInv
<1>3. m.tx \in DOMAIN proposals /\ m.subnet = p.subnet
  BY <1>1, <1>2 DEF BlockInv, Placed
<1>4. p \in Proposals
  BY <1>1, <1>3 DEF BlockInv
<1>5. whole \in Seq(Records) /\ p.subnet \in Subnets
  BY <1>4 DEF Proposals
<1>6. Parsed(whole) = whole
  <2>1. {i \in DOMAIN whole : whole[i].op = "fund" => whole[i].dest \in Known} = DOMAIN whole
    BY <1>1, <1>3 DEF ProposedInv
  <2>2. Picked(whole, DOMAIN whole) = whole
    BY <1>5, PickedAll
  <2> QED BY <2>1, <2>2 DEF Parsed
<1>7. whole # <<>> /\ m.tx \in txs
  <2>1. Height \in 1..MaxBlocks /\ chain[Height] = block
    <3>1. block # <<>> /\ processed \in 0..MaxBlocks /\ processed < MaxBlocks
      BY <1>1, <1>2 DEF BlockInv
    <3>2. Height \in 1..MaxBlocks
      BY <3>1, LedgerConstants DEF Height
    <3> QED BY <1>1, <3>2 DEF ChainInv, AtHeight, Height
  <2>2. PICK H \in 1..MaxBlocks : H = Height
    BY <2>1
  <2>3. whole # <<>> /\ Kept(m.tx, H, next)
    BY <1>1, <1>2, <2>1, <2>2 DEF KeptInv
  <2>4. ~Due(m.tx, H, next)
    <3> SUFFICES ASSUME NEW g \in 1..MaxBlocks, NEW j \in DOMAIN chain[g],
                        g > H \/ (g = H /\ j >= next), g < H \/ (g = H /\ j < next)
                 PROVE  FALSE
      BY <2>2 DEF Due
    <3>1. j \in Nat
      BY <1>1 DEF ChainInv
    <3> QED BY <1>2, <3>1
  <2>5. ~Missed(p) \/ m.tx \in txs
    BY DEF Missed
  <2> QED BY <2>3, <2>4, <2>5 DEF Kept, Settled
<1>8. m.subnet \in Known
  BY <1>1, <1>3 DEF ProposedInv
<1>9. last[m.subnet] \in DOMAIN records[m.subnet]
  BY <1>1, <1>3, <1>5, <1>7 DEF RecordInv
<1>10. ValidateErcBatchData(m.subnet, whole)
  <2>1. Affordable(p, balance)
    BY <1>1, <1>3 DEF FreshInv
  <2> QED BY <1>3, <2>1, PlainValid
<1>11. Len(Only(whole, "fund")) = Min({Len(Only(whole, "fund")), MaxCount})
  <2>1. PICK n : n = Len(Only(whole, "fund"))
    OBVIOUS
  <2>2. Only(whole, "fund") \in Seq(Records)
    BY <1>5, OnlyIs DEF Places
  <2>3. n \in Nat /\ n <= MaxCount /\ MaxCount \in Nat
    BY <2>1, <2>2, LedgerConstants
  <2> QED BY <2>1, <2>3, MinFirst
<1> QED BY <1>6, <1>7, <1>8, <1>9, <1>10, <1>11 DEF BatchValid

\* RefusedOnlyIfStale: whatever is credited, stopped or handled again between the
\* validation of a batch by its provider and its confirmation, and however many heights
\* were not written, IpcBatchTransferMsg's own validation refuses it only if another
\* batch of its subnet came first, if it registers a token, or if the reader or
\* IpcCheckpointSubnetMsg::save_to_db refused its checkpoint.
THEOREM OnlyStaleRefused == Spec => RefusedOnlyIfStale
<1> DEFINE A == LET m == block[next]
                    p == proposals[m.tx]
                IN  (Refuse /\ m.kind = "batch") =>
                      \/ \E k \in (p.base + 1)..Len(applied) :
                           applied[k].kind = "batch" /\ applied[k].subnet = p.subnet
                      \/ Only(p.batch, "register") # <<>>
                      \/ ~p.readable \/ Len(Only(p.batch, "fund")) > MaxCount
                      \/ m.tx \notin txs /\ Outrun(p.subnet, p.conf)
<1>1. StaleInv => A
  <2> DEFINE m == block[next]
             p == proposals[m.tx]
  <2> SUFFICES ASSUME StaleInv, Refuse, m.kind = "batch", ~Overtaken(p, applied),
                      Only(p.batch, "register") = <<>>, p.readable,
                      ~(Len(Only(p.batch, "fund")) > MaxCount),
                      m.tx \notin txs => ~Outrun(p.subnet, p.conf)
               PROVE  FALSE
    BY DEF Overtaken
  <2>1. next \in 1..Len(block) /\ ~BatchValid(m)
    BY DEF Refuse, Refused
  <2>2. p.batch \in Seq(Records)
    <3>1. BlockInv
      BY DEF StaleInv, TransferInv
    <3>2. next \in DOMAIN block
      BY <2>1, <3>1 DEF BlockInv
    <3>3. m.tx \in DOMAIN proposals
      BY <3>1, <3>2 DEF BlockInv, Placed
    <3>4. p \in Proposals
      BY <3>1, <3>3 DEF BlockInv
    <3> QED BY <3>4 DEF Proposals
  <2>3. Plain(p.batch)
    BY <2>2, OnlyEmpty
  <2>4. Len(Only(p.batch, "fund")) <= MaxCount
    <3>1. Only(p.batch, "fund") \in Seq(Records)
      BY <2>2, OnlyIs DEF Places
    <3> QED BY <3>1, LedgerConstants
  <2> QED BY <2>1, <2>3, <2>4, ValidStill
<1>2. StaleInv /\ [Next]_vars => [A]_vars
  BY <1>1
<1>3. RefusedOnlyIfStale <=> [][A]_vars
  BY DEF RefusedOnlyIfStale
<1> HIDE DEF A
<1> QED BY <1>2, <1>3, Waiting, PTL DEF Spec
=============================================================================
