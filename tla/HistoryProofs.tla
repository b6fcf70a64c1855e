---------------------------- MODULE HistoryProofs -----------------------------
(***************************************************************************)
(* For every number of subnets, tokens, records, blocks and stops: the log *)
(* of a subnet is what the applied messages have to say to it, and a token *)
(* is announced before it arrives.                                         *)
(*                                                                         *)
(* save_to_db of a batch writes its letters one by one into its write      *)
(* transaction.  The inductive invariant says that what the transaction    *)
(* holds and the letters that are left make up the log of the database and *)
(* the letters of the whole batch.                                         *)
(***************************************************************************)
EXTENDS LedgerProofs

\* Record r of a batch of s has something to say to d.
Speaks(r, d, s, known) ==
  \/ r.op \in {"fund", "send"} /\ r.dest = d
  \/ r.op = "register" /\ d \in known \ {s}

LettersOf(b, d, s, known) == Picked(b, {i \in DOMAIN b : Speaks(b[i], d, s, known)})

\* What of a message the history knows.
Entries == [txid : Nat \X Nat, body : Records]

Stamped(x, q) == [i \in DOMAIN q |-> [txid |-> x, body |-> q[i]]]

Entry(m) == [txid |-> m.txid, body |-> m.body]

Lines(box) == [i \in 1..NextNonce(box) |-> Entry(box[i - 1])]

LEMMA StampedIs ==
  ASSUME NEW x \in Nat \X Nat, NEW q \in Seq(Records)
  PROVE  /\ Stamped(x, q) \in Seq(Entries) /\ Len(Stamped(x, q)) = Len(q)
         /\ DOMAIN Stamped(x, q) = 1..Len(q)
         /\ \A i \in 1..Len(q) : Stamped(x, q)[i] = [txid |-> x, body |-> q[i]]
<1>1. DOMAIN q = 1..Len(q) /\ Len(q) \in Nat /\ \A i \in 1..Len(q) : q[i] \in Records
  OBVIOUS
<1>2. \A i \in 1..Len(q) : [txid |-> x, body |-> q[i]] \in Entries
  BY <1>1 DEF Entries
<1>3. Stamped(x, q) = [i \in 1..Len(q) |-> [txid |-> x, body |-> q[i]]]
  BY <1>1 DEF Stamped
<1> QED BY <1>1, <1>2, <1>3

LEMMA StampedConcat ==
  ASSUME NEW x \in Nat \X Nat, NEW p \in Seq(Records), NEW q \in Seq(Records)
  PROVE  Stamped(x, p \o q) = Stamped(x, p) \o Stamped(x, q)
<1> DEFINE a == Len(p)
           c == p \o q
           l == Stamped(x, c)
           f == Stamped(x, p)
           g == Stamped(x, q)
           r == f \o g
<1>1. /\ a \in Nat /\ Len(q) \in Nat /\ c \in Seq(Records) /\ Len(c) = a + Len(q)
      /\ \A k \in 1..(a + Len(q)) : c[k] = IF k <= a THEN p[k] ELSE q[k - a]
  BY ConcatProperties
<1>2. /\ l \in Seq(Entries) /\ Len(l) = Len(c)
      /\ \A i \in 1..Len(c) : l[i] = [txid |-> x, body |-> c[i]]
  BY <1>1, StampedIs
<1>3. /\ f \in Seq(Entries) /\ Len(f) = a /\ \A i \in 1..a : f[i] = [txid |-> x, body |-> p[i]]
      /\ g \in Seq(Entries) /\ Len(g) = Len(q)
      /\ \A i \in 1..Len(q) : g[i] = [txid |-> x, body |-> q[i]]
  BY StampedIs
<1> HIDE DEF l, f, g, c
<1>4. /\ r \in Seq(Entries) /\ Len(r) = a + Len(q)
      /\ \A k \in 1..(a + Len(q)) : r[k] = IF k <= a THEN f[k] ELSE g[k - a]
  <2> HIDE DEF a
  <2>1. r \in Seq(Entries) /\ Len(r) = Len(f) + Len(g)
    <3>1. f \in Seq(Entries) /\ g \in Seq(Entries)
      BY <1>3
    <3> QED BY <3>1
  <2>2. \A k \in 1..(Len(f) + Len(g)) : r[k] = IF k <= Len(f) THEN f[k] ELSE g[k - Len(f)]
    <3>1. f \in Seq(Entries) /\ g \in Seq(Entries)
      BY <1>3
    <3> QED BY <3>1
  <2> QED BY <1>3, <2>1, <2>2
<1> HIDE DEF r, a
<1>5. ASSUME NEW k \in 1..(a + Len(q)) PROVE r[k] = l[k]
  <2>1. CASE k <= a
    <3>1. k \in 1..a
      BY <1>1, <2>1
    <3>2. l[k] = [txid |-> x, body |-> p[k]]
      BY <1>1, <1>2, <2>1
    <3> QED BY <1>3, <1>4, <2>1, <3>1, <3>2
  <2>2. CASE ~(k <= a)
    <3>1. k - a \in 1..Len(q)
      BY <1>1, <2>2
    <3>2. l[k] = [txid |-> x, body |-> q[k - a]]
      BY <1>1, <1>2, <2>2
    <3> QED BY <1>3, <1>4, <2>2, <3>1, <3>2
  <2> QED BY <2>1, <2>2
<1>6. l = r
  BY <1>1, <1>2, <1>4, <1>5
<1> QED BY <1>6 DEF l, r, c, f, g

\* The letters of a batch are those of its first record, then those of the rest.
LEMMA LettersStep ==
  ASSUME NEW b \in Seq(Records), b # <<>>, NEW d, NEW s, NEW known
  PROVE  /\ LettersOf(b, d, s, known) \in Seq(Records) /\ LettersOf(Tail(b), d, s, known) \in Seq(Records)
         /\ Speaks(Head(b), d, s, known) =>
              LettersOf(b, d, s, known) = <<Head(b)>> \o LettersOf(Tail(b), d, s, known)
         /\ ~Speaks(Head(b), d, s, known) =>
              LettersOf(b, d, s, known) = LettersOf(Tail(b), d, s, known)
<1> DEFINE h == <<Head(b)>>
           c == Tail(b)
           K == {i \in DOMAIN b : Speaks(b[i], d, s, known)}
           J == {i \in DOMAIN c : Speaks(c[i], d, s, known)}
           I == {1} \cap K
<1>1. /\ h \in Seq(Records) /\ c \in Seq(Records) /\ b = h \o c /\ Len(h) = 1 /\ h[1] = Head(b)
      /\ Head(b) = b[1] /\ DOMAIN h = {1} /\ 1 \in DOMAIN b
      /\ \A i \in DOMAIN c : 1 + i \in DOMAIN b /\ c[i] = b[1 + i]
  OBVIOUS
<1>2. (1 \in K) <=> Speaks(Head(b), d, s, known)
  BY <1>1
<1>3. \A i \in DOMAIN c : i \in J <=> Len(h) + i \in K
  BY <1>1
<1>4. \A i \in DOMAIN h : i \in I <=> i \in K
  BY <1>1
<1>5. LettersOf(b, d, s, known) = Picked(b, K) /\ LettersOf(c, d, s, known) = Picked(c, J)
  BY DEF LettersOf
<1>6. Picked(h, I) = IF 1 \in K THEN h ELSE <<>>
  BY PickedOne
<1>7. K \subseteq DOMAIN b /\ J \subseteq DOMAIN c
  OBVIOUS
<1> HIDE DEF I, K, J, h, c
<1>8. Picked(b, K) = Picked(h, I) \o Picked(c, J)
  <2>1. Picked(h \o c, K) = Picked(h, I) \o Picked(c, J)
    <3>1. h \in Seq(Records) /\ c \in Seq(Records)
      BY <1>1
    <3>2. /\ \A i \in DOMAIN h : i \in I <=> i \in K
          /\ \A i \in DOMAIN c : i \in J <=> Len(h) + i \in K
      BY <1>3, <1>4
    <3> QED BY ONLY <3>1, <3>2, PickedConcat
  <2> QED BY <1>1, <2>1
<1>9. Picked(b, K) \in Seq(Records) /\ Picked(c, J) \in Seq(Records)
  BY <1>1, <1>7, PickedPlaces
<1>10. <<>> \o Picked(c, J) = Picked(c, J)
  BY <1>9
<1> QED BY <1>2, <1>5, <1>6, <1>8, <1>9, <1>10 DEF h, c

LEMMA LettersEmpty ==
  ASSUME NEW d, NEW s, NEW known
  PROVE  LettersOf(<<>>, d, s, known) = <<>>
BY PickedEmpty DEF LettersOf

LEMMA StampedEmpty == ASSUME NEW x PROVE Stamped(x, <<>>) = <<>>
<1>1. DOMAIN <<>> = {} /\ Stamped(x, <<>>) = [i \in {} |-> [txid |-> x, body |-> <<>>[i]]]
  BY DEF Stamped
<1>2. [i \in {} |-> [txid |-> x, body |-> <<>>[i]]] = <<>>
  OBVIOUS
<1> QED BY <1>1, <1>2

----------------------------------------------------------------------------
(* What add_rootnet_msg does to the lines of a subnet.                     *)

Mail(box) == Numbered(box) /\ \A n \in DOMAIN box : box[n] \in Rootnet

LEMMA LinesType ==
  ASSUME NEW box, Mail(box)
  PROVE  /\ Lines(box) \in Seq(Entries)
         /\ Len(Lines(box)) = NextNonce(box) /\ NextNonce(box) \in Nat
         /\ \A i \in 1..NextNonce(box) : i - 1 \in DOMAIN box /\ Lines(box)[i] = Entry(box[i - 1])
<1> DEFINE n == NextNonce(box)
<1>1. n \in Nat /\ DOMAIN box = 0..(n - 1)
  BY CountIsNext DEF Mail
<1> HIDE DEF n
<1>2. \A i \in 1..n : i - 1 \in DOMAIN box
  BY <1>1
<1>3. \A i \in 1..n : Entry(box[i - 1]) \in Entries
  <2> SUFFICES ASSUME NEW i \in 1..n PROVE Entry(box[i - 1]) \in Entries
    OBVIOUS
  <2>1. box[i - 1] \in Rootnet
    BY <1>2 DEF Mail
  <2>2. box[i - 1].txid \in Positions /\ box[i - 1].body \in Records
    BY <2>1 DEF Rootnet
  <2>3. Positions \subseteq Nat \X Nat
    BY LedgerConstants DEF Positions
  <2> QED BY <2>2, <2>3 DEF Entry, Entries
<1>4. Lines(box) = [i \in 1..n |-> Entry(box[i - 1])]
  BY DEF Lines, n
<1>5. Lines(box) \in Seq(Entries) /\ Len(Lines(box)) = n
  BY <1>1, <1>3, <1>4
<1> QED BY <1>1, <1>2, <1>4, <1>5 DEF n

LEMMA PutLines ==
  ASSUME NEW box, Mail(box), NEW m \in Rootnet, m.nonce = NextNonce(box), NEW new,
         new = [k \in DOMAIN box \cup {NextNonce(box)} |-> IF k = NextNonce(box) THEN m ELSE box[k]]
  PROVE  Mail(new) /\ Lines(new) = Append(Lines(box), Entry(m))
<1> DEFINE n == NextNonce(box)
<1>1. n \in Nat /\ DOMAIN box = 0..(n - 1)
  BY CountIsNext DEF Mail
<1>2. Numbered(new)
  BY PutNext DEF Mail
<1> HIDE DEF n
<1>3. DOMAIN new = 0..n /\ new[n] = m /\ \A k \in DOMAIN box : new[k] = box[k] /\ k # n
  BY <1>1 DEF n
<1>4. Mail(new)
  BY <1>1, <1>2, <1>3 DEF Mail
<1>5. NextNonce(new) = n + 1
  <2>1. NextNonce(new) \in Nat /\ DOMAIN new = 0..(NextNonce(new) - 1)
    BY <1>2, CountIsNext
  <2>2. ASSUME NEW a \in Nat, 0..(a - 1) = 0..n PROVE a = n + 1
    <3>1. n \in 0..(a - 1) /\ a - 1 \in Int
      BY <1>1, <2>2
    <3>2. a - 1 \in 0..n
      BY <1>1, <2>2, <3>1
    <3> QED BY <1>1, <3>1, <3>2
  <2> QED BY <1>3, <2>1, <2>2
<1> DEFINE l == Lines(box)
           g == Lines(new)
           e == Entry(m)
<1>6. /\ l \in Seq(Entries) /\ Len(l) = n /\ \A i \in 1..n : i - 1 \in DOMAIN box /\ l[i] = Entry(box[i - 1])
  BY LinesType DEF n
<1>7. g \in Seq(Entries) /\ Len(g) = n + 1 /\ \A i \in 1..(n + 1) : g[i] = Entry(new[i - 1])
  BY <1>4, <1>5, LinesType
<1> HIDE DEF l, g
<1>8. g[n + 1] = e
  <2>1. n + 1 \in 1..(n + 1) /\ (n + 1) - 1 = n
    BY <1>1
  <2> QED BY <1>3, <1>7, <2>1, ZenonT(40)
<1>9. \A i \in 1..n : g[i] = l[i]
  <2> SUFFICES ASSUME NEW i \in 1..n PROVE g[i] = l[i]
    OBVIOUS
  <2>1. i \in 1..(n + 1)
    BY <1>1
  <2>2. g[i] = Entry(new[i - 1])
    BY <1>7, <2>1
  <2>3. i - 1 \in DOMAIN box /\ l[i] = Entry(box[i - 1])
    BY <1>6
  <2>4. new[i - 1] = box[i - 1]
    BY <1>3, <2>3
  <2> QED BY <2>2, <2>3, <2>4
<1> HIDE DEF e
<1>10. g = Append(l, e)
  BY <1>1, <1>6, <1>7, <1>8, <1>9
<1> QED BY <1>4, <1>10 DEF l, g, e

Mailed(f) == f = [s \in Subnets |-> f[s]] /\ \A s \in Subnets : Mail(f[s])

LEMMA MailIs == ASSUME NEW f, Boxes(f), Letterboxes(f) PROVE Mailed(f)
BY DEF Boxes, Letterboxes, Mail, Mailed

LEMMA PostLines ==
  ASSUME BlockInv, next \in DOMAIN block, NEW f, Mailed(f), NEW d \in Subnets, NEW body \in Records
  PROVE  /\ Mail(Post(f, d, body)[d])
         /\ Lines(Post(f, d, body)[d]) = Append(Lines(f[d]), [txid |-> Txid, body |-> body])
         /\ \A e \in Subnets : e # d => Post(f, d, body)[e] = f[e]
<1> DEFINE n == NextNonce(f[d])
           m == [nonce |-> n, height |-> Height, txid |-> Txid, body |-> body]
           new == [k \in DOMAIN f[d] \cup {n} |-> IF k = n THEN m ELSE f[d][k]]
           g == [f EXCEPT ![d] = new]
<1>1. Post(f, d, body) = g
  BY DEF Post
<1>2. Mail(f[d]) /\ DOMAIN f = Subnets
  BY DEF Mailed
<1>3. n \in Nat
  BY <1>2, LinesType
<1>4. Height \in Nat /\ Txid \in Positions
  BY PlaceIs
<1>5. m \in Rootnet /\ m.nonce = n /\ Entry(m) = [txid |-> Txid, body |-> body]
  BY <1>3, <1>4 DEF Rootnet, Entry
<1>6. Mail(new) /\ Lines(new) = Append(Lines(f[d]), Entry(m))
  BY <1>2, <1>5, PutLines
<1> HIDE DEF new
<1>7. g[d] = new /\ \A e \in Subnets : e # d => g[e] = f[e]
  BY <1>2
<1> QED BY <1>1, <1>5, <1>6, <1>7

----------------------------------------------------------------------------
(* The log.                                                                *)

\* What the applied messages have to say to d, message by message.
History(d) == [k \in DOMAIN applied |-> Stamped(applied[k].txid, Letters(applied[k], d))]

\* The log in the database is the history.
LogInv == \A d \in Subnets : Lines(msgs[d]) = FlattenSeq(History(d))

\* What the open transaction holds, and what its batch has still to say, are the
\* log and what the whole batch has to say.
TxnLog ==
  txn.open => \A d \in Subnets :
    Lines(txn.msgs[d]) \o Stamped(Txid, LettersOf(txn.todo, d, Source, Known))
    = Lines(msgs[d]) \o Stamped(Txid, LettersOf(InOrder(Whole), d, Source, Known))

LEMMA LettersType ==
  ASSUME NEW b \in Seq(Records), NEW d, NEW s, NEW known
  PROVE  LettersOf(b, d, s, known) \in Seq(Records)
<1> DEFINE K == {i \in DOMAIN b : Speaks(b[i], d, s, known)}
<1>1. K \subseteq DOMAIN b
  OBVIOUS
<1> HIDE DEF K
<1>2. Picked(b, K) \in Seq(Records)
  BY <1>1, PickedPlaces
<1> QED BY <1>2 DEF LettersOf, K

\* Record r is written: whom it is for has one more line.
AddsLine(l, new, x, r, d, s, known) ==
  /\ Speaks(r, d, s, known) => new = Append(l, [txid |-> x, body |-> r])
  /\ ~Speaks(r, d, s, known) => new = l

LEMMA OneMoreLine ==
  ASSUME NEW l \in Seq(Entries), NEW b \in Seq(Records), b # <<>>, NEW x \in Nat \X Nat,
         NEW d, NEW s, NEW known, NEW new,
         AddsLine(l, new, x, Head(b), d, s, known)
  PROVE  new \o Stamped(x, LettersOf(Tail(b), d, s, known)) = l \o Stamped(x, LettersOf(b, d, s, known))
<1> DEFINE h == Head(b)
           c == LettersOf(Tail(b), d, s, known)
           e == [txid |-> x, body |-> h]
<1>1. h \in Records /\ <<h>> \in Seq(Records) /\ c \in Seq(Records)
  <2>1. h \in Records /\ Tail(b) \in Seq(Records)
    BY HeadTail
  <2>2. c \in Seq(Records)
    BY <2>1, LettersType
  <2> HIDE DEF h, c
  <2> QED BY <2>1, <2>2
<1>2. CASE Speaks(h, d, s, known)
  <2>1. LettersOf(b, d, s, known) = <<h>> \o c
    BY <1>2, LettersStep
  <2> HIDE DEF h, c
  <2>2. Stamped(x, <<h>> \o c) = Stamped(x, <<h>>) \o Stamped(x, c)
    BY <1>1, StampedConcat
  <2>3. Stamped(x, <<h>>) = <<e>> /\ e \in Entries
    <3>1. /\ Stamped(x, <<h>>) \in Seq(Entries) /\ Len(Stamped(x, <<h>>)) = Len(<<h>>)
          /\ \A i \in 1..Len(<<h>>) : Stamped(x, <<h>>)[i] = [txid |-> x, body |-> <<h>>[i]]
      BY <1>1, StampedIs
    <3>2. Len(<<h>>) = 1 /\ <<h>>[1] = h
      OBVIOUS
    <3>3. e \in Entries
      BY <1>1 DEF Entries
    <3> QED BY <3>1, <3>2, <3>3
  <2>4. Stamped(x, c) \in Seq(Entries) /\ <<e>> \in Seq(Entries)
    BY <1>1, <2>3, StampedIs
  <2>5. new = Append(l, e)
    BY <1>2 DEF h, AddsLine
  <2> HIDE DEF e
  <2>6. new = l \o <<e>>
    BY <2>3, <2>5, AppendIsConcat
  <2>7. (l \o <<e>>) \o Stamped(x, c) = l \o (<<e>> \o Stamped(x, c))
    BY <2>4, ConcatAssociative
  <2> QED BY <2>1, <2>2, <2>3, <2>6, <2>7 DEF c
<1>3. CASE ~Speaks(h, d, s, known)
  <2>1. LettersOf(b, d, s, known) = c
    BY <1>3, LettersStep
  <2>2. new = l
    BY <1>3 DEF AddsLine
  <2> QED BY <2>1, <2>2, Zenon
<1> QED BY <1>2, <1>3

\* A step of the write transaction, by the lines it adds.
Tells(boxes) ==
  \A d \in Subnets :
    AddsLine(Lines(txn.msgs[d]), Lines(boxes[d]), Txid, Head(txn.todo), d, Source, Known)

LEMMA WritesTell ==
  ASSUME TransferInv, WriteFund \/ WriteRegistration \/ WriteMint \/ WriteBurn \/ WriteSend
  PROVE  /\ txn.open /\ txn.todo # <<>> /\ txn.todo \in Seq(Records) /\ At("batch")
         /\ Mailed(txn.msgs) /\ UNCHANGED <<next, processed, block, status, proposals, msgs, applied>>
         /\ \E boxes, bal, cut : Wrote(boxes, bal, cut) /\ Tells(boxes)
<1> DEFINE r == Head(txn.todo)
           f == txn.msgs
<1>1. /\ txn.open /\ txn.todo # <<>>
      /\ UNCHANGED <<processed, block, status, proposals, msgs, applied>>
  BY Writes DEF WriteStep, restOfWrite, TransferInv
<1>2. At("batch")
  BY <1>1 DEF PlaceInv, NoTxn, TransferInv
<1>3. Mailed(f)
  <2>1. Boxes(f) /\ Letterboxes(f)
    BY <1>1 DEF MessageInv, OpenTxn, NoTxn, RootnetInv, TransferInv
  <2> QED BY <2>1, MailIs
<1>4. r \in Records /\ r.dest \in Subnets /\ txn.todo \in Seq(Records)
  <2>1. BatchOK(Source, txn.todo)
    BY <1>1 DEF BatchInv, TransferInv
  <2> QED BY <1>1, <2>1, HeadOK DEF BatchOK
<1>5. UNCHANGED <<next, aborted>>
  BY WritesAdvance DEF Advanced, TransferInv
<1>6. ~Abort
  <2>1. next \in Nat
    BY <1>2 DEF At, BlockInv, TransferInv
  <2> QED BY <1>5, <2>1 DEF Abort
<1>7. \A d \in Subnets :
        /\ Lines(Post(f, d, r)[d]) = Append(Lines(f[d]), [txid |-> Txid, body |-> r])
        /\ \A e \in Subnets : e # d => Post(f, d, r)[e] = f[e]
  BY <1>2, <1>3, <1>4, PostLines DEF At, TransferInv
<1>8. ASSUME NEW boxes, NEW bal, NEW cut, Write(boxes, bal, cut), Tells(boxes)
      PROVE  \E x, y, z : Wrote(x, y, z) /\ Tells(x)
  <2>1. Wrote(boxes, bal, cut)
    BY <1>1, <1>8, WriteIs DEF TransferInv
  <2> QED BY <1>8, <2>1, Zenon
<1>9. CASE WriteFund \/ WriteSend
  <2>1. \E bal, cut : Write(Post(f, r.dest, r), bal, cut)
    BY <1>6, <1>9, Zenon DEF WriteFund, WriteSend
  <2>2. r.op \in {"fund", "send"}
    BY <1>9 DEF WriteFund, WriteSend, Writing
  <2>3. \A d : Speaks(r, d, Source, Known) <=> r.dest = d
    BY <2>2 DEF Speaks
  <2>4. Tells(Post(f, r.dest, r))
    BY <1>4, <1>7, <2>3 DEF Tells, AddsLine
  <2>5. \E x, y, z : Wrote(x, y, z) /\ Tells(x)
    BY <1>8, <2>1, <2>4
  <2> QED BY <1>1, <1>2, <1>3, <1>4, <1>5, <2>5, Zenon
<1>10. CASE WriteMint \/ WriteBurn
  <2>1. \E bal, cut : Write(f, bal, cut)
    BY <1>6, <1>10, Zenon DEF WriteMint, WriteBurn
  <2>2. r.op \in {"mint", "burn"}
    BY <1>10 DEF WriteMint, WriteBurn, Writing
  <2>3. \A d : ~Speaks(r, d, Source, Known)
    BY <2>2 DEF Speaks
  <2>4. Tells(f)
    BY <2>3 DEF Tells, AddsLine
  <2>5. \E x, y, z : Wrote(x, y, z) /\ Tells(x)
    BY <1>8, <2>1, <2>4
  <2> QED BY <1>1, <1>2, <1>3, <1>4, <1>5, <2>5, Zenon
<1>11. CASE WriteRegistration
  <2> DEFINE boxes == [d \in Subnets |-> IF d \in FanOut THEN Post(f, d, r)[d] ELSE f[d]]
  <2>1. \E bal, cut : Write(boxes, bal, cut)
    BY <1>11, Zenon DEF WriteRegistration
  <2>2. r.op = "register"
    BY <1>11 DEF WriteRegistration, Writing
  <2>3. \A d : Speaks(r, d, Source, Known) <=> d \in FanOut
    BY <2>2 DEF Speaks, FanOut
  <2>4. \A d \in Subnets : boxes[d] = IF d \in FanOut THEN Post(f, d, r)[d] ELSE f[d]
    OBVIOUS
  <2> HIDE DEF boxes
  <2>5. Tells(boxes)
    BY <1>7, <2>3, <2>4 DEF Tells, AddsLine
  <2>6. \E x, y, z : Wrote(x, y, z) /\ Tells(x)
    BY <1>8, <2>1, <2>5
  <2> QED BY <1>1, <1>2, <1>3, <1>4, <1>5, <2>6, Zenon
<1> QED BY <1>9, <1>10, <1>11

LEMMA StepTxnLog ==
  ASSUME TransferInv, TxnLog, [Next]_vars
  PROVE  TxnLog'
<1>1. ASSUME txn' = NoTxn PROVE TxnLog'
  BY <1>1 DEF TxnLog, NoTxn
<1>2. ASSUME ~txn.open, txn' = txn PROVE TxnLog'
  BY <1>2 DEF TxnLog
<1>3. ASSUME txn.open PROVE At("batch") /\ next \in 1..Len(block) /\ next # 0 /\ ~half
  <2>1. At("batch") /\ block \in Seq(Messages)
    BY <1>3 DEF PlaceInv, NoTxn, TransferInv, BlockInv
  <2>2. next \in 1..Len(block) /\ next # 0
    BY <2>1 DEF At
  <2>3. ~half
    BY <2>1 DEF PlaceInv, TransferInv, At
  <2> QED BY <2>1, <2>2, <2>3
<1>4. ASSUME UNCHANGED <<next, processed, block, status, msgs, txn>>,
             txn.open => Whole' = Whole
      PROVE  TxnLog'
  <2>1. Txid' = Txid /\ Source' = Source /\ Known' = Known
    BY <1>4 DEF Txid, Height, Source, Known
  <2>2. CASE ~txn.open
    BY <1>2, <1>4, <2>2
  <2>3. CASE txn.open
    BY <1>4, <2>1, <2>3 DEF TxnLog
  <2> QED BY <2>2, <2>3
<1>5. CASE UNCHANGED vars
  <2>1. UNCHANGED <<next, processed, block, status, msgs, txn, proposals>>
    BY <1>5 DEF vars, blockVars
  <2>2. Whole' = Whole
    BY <2>1 DEF Whole, Parsed, Known
  <2> QED BY <1>4, <2>1, <2>2
<1>6. ASSUME NEW p \in Plans, Propose(p.subnet, p.batch, p.conf) PROVE TxnLog'
  <2>1. UNCHANGED <<next, processed, block, status, msgs, txn>>
    BY <1>6 DEF Propose, blockVars
  <2>2. ASSUME txn.open PROVE Whole' = Whole
    <3> DEFINE j == block[next].tx
    <3>1. j \in DOMAIN proposals
      BY <1>3, <2>2, WholeIs DEF TransferInv
    <3>2. proposals \in Seq(Proposals) /\ \E q : proposals' = Append(proposals, q)
      BY <1>6 DEF Propose, BlockInv, TransferInv
    <3> HIDE DEF j
    <3>3. proposals'[j] = proposals[j]
      BY <3>1, <3>2
    <3>4. Known' = Known /\ block[next]' = block[next]
      BY <2>1 DEF Known
    <3> QED BY <3>3, <3>4 DEF Whole, Parsed, j
  <2> QED BY <1>4, <2>1, <2>2
<1>7. CASE Bitcoin
  <2>1. next = 0 /\ txn' = txn
    BY <1>7 DEF Bitcoin, MineMessage, MineProposal, Mined
  <2> QED BY <1>2, <1>3, <2>1
<1>8. CASE StartBlock \/ HandlePrefund \/ HandleStatus \/ HandleCheckpoint \/ SaveTransaction \/ Refuse
           \/ EndBlock \/ HandleFund
  <2>1. txn' = txn
    BY <1>8 DEF StartBlock, HandlePrefund, HandleStatus, HandleCheckpoint, SaveTransaction, Refuse,
       EndBlock, HandleFund
  <2>2. ~txn.open
    <3> SUFFICES ASSUME txn.open PROVE FALSE
      OBVIOUS
    <3>1. next \in 1..Len(block) /\ next # 0 /\ ~half /\ Len(block) \in Nat
      BY <1>3 DEF TransferInv, BlockInv
    <3>2. next # Len(block) + 1
      BY <3>1
    <3> QED BY <1>8, <3>1, <3>2 DEF StartBlock, HandlePrefund, HandleStatus, HandleCheckpoint,
          SaveTransaction, Refuse, EndBlock, HandleFund, Handling
  <2> QED BY <1>2, <2>1, <2>2
<1>9. CASE Crash
  BY <1>1, <1>9 DEF Crash
<1>10. CASE BeginBatch
  <2>1. /\ UNCHANGED <<next, processed, block, status, msgs, proposals>>
        /\ txn'.msgs = msgs /\ txn'.todo = InOrder(Whole)
    BY <1>10 DEF BeginBatch, blockVars, Whole
  <2>2. Txid' = Txid /\ Source' = Source /\ Known' = Known /\ Whole' = Whole
    BY <2>1 DEF Txid, Height, Source, Known, Whole, Parsed
  <2> QED BY <2>1, <2>2 DEF TxnLog
<1>11. CASE WriteFund \/ WriteRegistration \/ WriteMint \/ WriteBurn \/ WriteSend
  <2>1. /\ txn.open /\ txn.todo # <<>> /\ txn.todo \in Seq(Records) /\ At("batch")
        /\ Mailed(txn.msgs) /\ UNCHANGED <<next, processed, block, status, proposals, msgs, applied>>
    BY <1>11, WritesTell
  <2>2. PICK boxes, bal, cut : Wrote(boxes, bal, cut) /\ Tells(boxes)
    BY <1>11, WritesTell
  <2>3. txn'.msgs = boxes /\ txn'.todo = Tail(txn.todo)
    BY <2>2 DEF Wrote
  <2>4. Txid' = Txid /\ Source' = Source /\ Known' = Known /\ Whole' = Whole
    BY <2>1 DEF Txid, Height, Source, Known, Whole, Parsed
  <2>5. Txid \in Nat \X Nat
    <3>1. Txid \in Positions
      BY <2>1, PlaceIs DEF TransferInv, At
    <3> QED BY <3>1, LedgerConstants DEF Positions
  <2>6. ASSUME NEW d \in Subnets
        PROVE  Lines(boxes[d]) \o Stamped(Txid, LettersOf(Tail(txn.todo), d, Source, Known))
               = Lines(msgs[d]) \o Stamped(Txid, LettersOf(InOrder(Whole), d, Source, Known))
    <3> DEFINE l == Lines(txn.msgs[d])
               new == Lines(boxes[d])
    <3>1. l \in Seq(Entries)
      BY <2>1, LinesType DEF Mailed
    <3>2. AddsLine(l, new, Txid, Head(txn.todo), d, Source, Known)
      BY <2>2 DEF Tells
    <3> HIDE DEF l, new
    <3>3. new \o Stamped(Txid, LettersOf(Tail(txn.todo), d, Source, Known))
          = l \o Stamped(Txid, LettersOf(txn.todo, d, Source, Known))
      <4>1. txn.todo \in Seq(Records) /\ txn.todo # <<>>
        BY <2>1
      <4> DEFINE b == txn.todo
                 x == Txid
                 s == Source
                 known == Known
      <4>2. b \in Seq(Records) /\ b # <<>> /\ x \in Nat \X Nat /\ AddsLine(l, new, x, Head(b), d, s, known)
        BY <2>5, <3>2, <4>1
      <4> HIDE DEF b, x, s, known
      <4>3. new \o Stamped(x, LettersOf(Tail(b), d, s, known)) = l \o Stamped(x, LettersOf(b, d, s, known))
        BY ONLY <3>1, <4>2, OneMoreLine, SMTT(30)
      <4> QED BY <4>3 DEF b, x, s, known
    <3>4. l \o Stamped(Txid, LettersOf(txn.todo, d, Source, Known))
          = Lines(msgs[d]) \o Stamped(Txid, LettersOf(InOrder(Whole), d, Source, Known))
      BY <2>1 DEF TxnLog, l
    <3> QED BY <3>3, <3>4 DEF new
  <2> QED BY <2>1, <2>3, <2>4, <2>6 DEF TxnLog
<1>12. CASE CommitBatch
  BY <1>1, <1>12 DEF CommitBatch
<1>13. ASSUME NEW s \in Readers, ChildRead(s) PROVE TxnLog'
  <2>1. UNCHANGED <<next, processed, block, status, msgs, txn, proposals>>
    BY <1>13 DEF ChildRead, blockVars
  <2>2. Whole' = Whole
    BY <2>1 DEF Whole, Parsed, Known
  <2> QED BY <1>4, <2>1, <2>2
<1> QED BY <1>5, <1>6, <1>7, <1>8, <1>9, <1>10, <1>11, <1>12, <1>13 DEF Next, Monitor

LEMMA EffectLetters ==
  ASSUME NEW e \in Effects, NEW d \in Subnets
  PROVE  Letters(e, d) \in Seq(Records) /\ Stamped(e.txid, Letters(e, d)) \in Seq(Entries)
<1>1. e.subnet \in Subnets /\ e.amount \in Nat /\ e.batch \in Seq(Records) /\ e.txid \in Nat \X Nat
  BY DEF Effects
<1>2. Letters(e, d) \in Seq(Records)
  <2>1. FundRecord(d, e.amount) \in Records
    BY <1>1 DEF FundRecord, Records, Operations
  <2>2. <<FundRecord(d, e.amount)>> \in Seq(Records) /\ <<>> \in Seq(Records)
    BY <2>1
  <2>3. CASE e.kind = "fund"
    BY <2>2, <2>3 DEF Letters
  <2>4. CASE e.kind # "fund"
    <3>1. Letters(e, d) = LettersOf(e.batch, d, e.subnet, e.known)
      BY <2>4 DEF Letters, LettersOf, Speaks
    <3> QED BY <1>1, <3>1, LettersType
  <2> QED BY <2>3, <2>4
<1> QED BY <1>1, <1>2, StampedIs

LEMMA HistoryGrows ==
  ASSUME applied \in Seq(Effects), NEW e \in Effects, applied' = Append(applied, e), NEW d \in Subnets
  PROVE  /\ FlattenSeq(History(d)) \in Seq(Entries)
         /\ FlattenSeq(History(d))' = FlattenSeq(History(d)) \o Stamped(e.txid, Letters(e, d))
<1> DEFINE n == Len(applied)
           a == applied'
           h == History(d)
           x == Stamped(e.txid, Letters(e, d))
           g == [k \in 1..(n + 1) |-> Stamped(a[k].txid, Letters(a[k], d))]
<1>1. /\ n \in Nat /\ DOMAIN applied = 1..n /\ DOMAIN a = 1..(n + 1) /\ a[n + 1] = e
      /\ \A k \in 1..n : a[k] = applied[k] /\ applied[k] \in Effects
  OBVIOUS
<1>2. h = [k \in 1..n |-> Stamped(applied[k].txid, Letters(applied[k], d))] /\ History(d)' = g
  BY <1>1 DEF History, Letters
<1>3. x \in Seq(Entries)
  BY EffectLetters
<1>4. \A k \in 1..n : Stamped(applied[k].txid, Letters(applied[k], d)) \in Seq(Entries)
  BY <1>1, EffectLetters
<1>5. h \in Seq(Seq(Entries)) /\ Len(h) = n
      /\ \A k \in 1..n : h[k] = Stamped(applied[k].txid, Letters(applied[k], d))
  BY <1>1, <1>2, <1>4
<1>6. g[n + 1] = x
  BY <1>1
<1>7. \A k \in 1..n : g[k] = h[k]
  BY <1>1, <1>5
<1>8. DOMAIN g = 1..(n + 1)
  OBVIOUS
<1>9. g = [k \in DOMAIN g |-> g[k]]
  OBVIOUS
<1> HIDE DEF g, h, x
<1>10. g = Append(h, x)
  <2> DEFINE p == Append(h, x)
  <2>1. /\ DOMAIN p = 1..(n + 1) /\ p = [k \in DOMAIN p |-> p[k]]
        /\ p[n + 1] = x /\ \A k \in 1..n : p[k] = h[k]
    <3> DEFINE T == Seq(Entries)
    <3>1. h \in Seq(T) /\ Len(h) = n /\ x \in T
      BY <1>3, <1>5
    <3> HIDE DEF T, n
    <3>2. p \in Seq(T) /\ Len(p) = Len(h) + 1 /\ p[Len(h) + 1] = x /\ \A k \in 1..Len(h) : p[k] = h[k]
      BY <3>1, AppendProperties
    <3>3. DOMAIN p = 1..Len(p) /\ p = [k \in DOMAIN p |-> p[k]]
      <4>1. p \in Seq(T)
        BY <3>2
      <4> HIDE DEF p
      <4> QED BY <4>1
    <3> QED BY <3>1, <3>2, <3>3
  <2> HIDE DEF p, n
  <2>2. \A k \in 1..(n + 1) : k \in 1..n \/ k = n + 1
    BY <1>1
  <2>3. \A k \in 1..(n + 1) : g[k] = p[k]
    BY <1>6, <1>7, <2>1, <2>2
  <2>4. g = p
    BY <1>8, <1>9, <2>1, <2>3
  <2> QED BY <2>4 DEF p
<1>11. FlattenSeq(Append(h, x)) = FlattenSeq(h) \o x /\ FlattenSeq(h) \in Seq(Entries)
  BY <1>3, <1>5, FlattenAppend, FlattenSeqs
<1>12. FlattenSeq(History(d))' = FlattenSeq(g)
  BY <1>2
<1> QED BY <1>10, <1>11, <1>12 DEF h, x

\* What an applied message carries.
EffectOK(e) ==
  BatchOK(e.subnet, e.batch) /\ InTurn(e.batch) /\ (e.kind = "fund" => e.batch = <<>>)

\* Message e takes effect, and every subnet has its letters.
Takes(e) ==
  /\ applied' = Append(applied, e) /\ EffectOK(e)
  /\ \A d \in Subnets : Lines(msgs'[d]) = Lines(msgs[d]) \o Stamped(e.txid, Letters(e, d))

Told == (msgs' = msgs /\ applied' = applied) \/ \E e \in Effects : Takes(e)

\* A step leaves history and log alone, or applies one message and gives every
\* subnet its letters.
LEMMA StepHistory ==
  ASSUME TransferInv, TxnLog, [Next]_vars
  PROVE  Told
<1>0. /\ BlockInv /\ PlaceInv /\ StateInv /\ MessageInv /\ BatchInv /\ RootnetInv
      /\ applied \in Seq(Effects)
  BY DEF TransferInv, StateInv
<1>1. ASSUME msgs' = msgs, applied' = applied PROVE Told
  BY <1>1 DEF Told
<1>2. CASE UNCHANGED vars
  BY <1>1, <1>2 DEF vars, pastVars
<1>3. ASSUME NEW p \in Plans, Propose(p.subnet, p.batch, p.conf) PROVE Told
  BY <1>1, <1>3 DEF Propose, pastVars
<1>4. CASE Bitcoin
  BY <1>1, <1>4 DEF Bitcoin, MineMessage, MineProposal, Mined, pastVars
<1>5. CASE StartBlock \/ HandleStatus \/ HandleCheckpoint \/ SaveTransaction \/ Refuse
           \/ EndBlock \/ Crash \/ BeginBatch
  BY <1>1, <1>5 DEF StartBlock, HandleStatus, HandleCheckpoint, SaveTransaction, Refuse,
     EndBlock, Crash, BeginBatch, pastVars
<1>6. CASE WriteFund \/ WriteRegistration \/ WriteMint \/ WriteBurn \/ WriteSend
  BY <1>0, <1>1, <1>6, WritesTell
<1>7. ASSUME NEW s \in Readers, ChildRead(s) PROVE Told
  BY <1>1, <1>7 DEF ChildRead, pastVars
<1>8. ASSUME NEW e \in Effects, Takes(e) PROVE Told
  BY <1>8 DEF Told
<1>9. \A d \in Subnets : Lines(msgs[d]) \in Seq(Entries) /\ Mailed(msgs)
  <2>1. Mailed(msgs)
    BY <1>0, MailIs DEF MessageInv, RootnetInv
  <2> QED BY <2>1, LinesType DEF Mailed
<1>10. ASSUME NEW l \in Seq(Entries), NEW x PROVE l \o Stamped(x, <<>>) = l
  BY <1>10, StampedEmpty
<1>11. CASE HandlePrefund
  <2> DEFINE e == Effect(block[next], <<>>)
  <2>1. /\ applied' = Append(applied, e) /\ msgs' = msgs
        /\ next \in DOMAIN block /\ block[next].kind = "prefund"
    BY <1>0, <1>11 DEF HandlePrefund, Handling, Took, BlockInv
  <2>2. e \in Effects
    <3>1. <<>> \in Seq(Records)
      OBVIOUS
    <3> QED BY <1>0, <2>1, <3>1, EffectIs
  <2>3. e.kind = "prefund" /\ e.batch = <<>>
    BY <2>1 DEF Effect
  <2> HIDE DEF e
  <2>4. \A d \in Subnets : Letters(e, d) = <<>>
    BY <2>3, PickedEmpty DEF Letters
  <2>5. \A d \in Subnets : Lines(msgs'[d]) = Lines(msgs[d]) \o Stamped(e.txid, Letters(e, d))
    BY <1>9, <1>10, <2>1, <2>4
  <2>6. EffectOK(e)
    BY <2>3 DEF EffectOK, BatchOK, InTurn
  <2>7. Takes(e)
    BY <2>1, <2>5, <2>6 DEF Takes
  <2> QED BY <1>8, <2>2, <2>7
<1>12. CASE HandleFund
  <2> DEFINE m == block[next]
             e == Effect(m, <<>>)
             r == FundRecord(m.subnet, m.amount)
  <2>1. /\ applied' = Append(applied, e) /\ msgs' = Post(msgs, m.subnet, r)
        /\ next \in DOMAIN block /\ m.kind = "fund" /\ m \in Messages
    BY <1>0, <1>12 DEF HandleFund, Handling, Took, BlockInv
  <2>2. e \in Effects
    <3>1. <<>> \in Seq(Records)
      OBVIOUS
    <3> QED BY <1>0, <2>1, <3>1, EffectIs
  <2>3. e.kind = "fund" /\ e.subnet = m.subnet /\ e.amount = m.amount /\ e.txid = Txid
    BY <2>1 DEF Effect
  <2>4. m.subnet \in Subnets /\ m.amount \in Nat
    BY <2>1 DEF Messages
  <2>5. r \in Records
    BY <2>4 DEF FundRecord, Records, Operations
  <2>6. /\ Lines(Post(msgs, m.subnet, r)[m.subnet]) = Append(Lines(msgs[m.subnet]), [txid |-> Txid, body |-> r])
        /\ \A d \in Subnets : d # m.subnet => Post(msgs, m.subnet, r)[d] = msgs[d]
    BY <1>0, <1>9, <2>1, <2>4, <2>5, PostLines
  <2>7. ASSUME NEW d \in Subnets PROVE Lines(msgs'[d]) = Lines(msgs[d]) \o Stamped(e.txid, Letters(e, d))
    <3>1. CASE d = m.subnet
      <4> DEFINE y == [txid |-> Txid, body |-> r]
      <4>1. Letters(e, d) = <<r>>
        BY <2>3, <3>1 DEF Letters
      <4>2. Txid \in Nat \X Nat
        <5>1. Txid \in Positions
          BY <1>0, <2>1, PlaceIs
        <5> QED BY <5>1, LedgerConstants DEF Positions
      <4>3. Stamped(Txid, <<r>>) = <<y>> /\ y \in Entries
        <5> HIDE DEF r
        <5>1. /\ Stamped(Txid, <<r>>) \in Seq(Entries) /\ Len(Stamped(Txid, <<r>>)) = Len(<<r>>)
              /\ \A i \in 1..Len(<<r>>) : Stamped(Txid, <<r>>)[i] = [txid |-> Txid, body |-> <<r>>[i]]
          <6>1. <<r>> \in Seq(Records)
            BY <2>5
          <6> QED BY <4>2, <6>1, StampedIs
        <5>2. Len(<<r>>) = 1 /\ <<r>>[1] = r
          OBVIOUS
        <5>3. y \in Entries
          BY <2>5, <4>2 DEF Entries
        <5> QED BY <5>1, <5>2, <5>3
      <4> HIDE DEF y
      <4>4. Append(Lines(msgs[d]), y) = Lines(msgs[d]) \o <<y>>
        BY <1>9, <4>3, AppendIsConcat
      <4> QED BY <2>1, <2>3, <2>6, <3>1, <4>1, <4>3, <4>4 DEF y
    <3>2. CASE d # m.subnet
      <4>1. Letters(e, d) = <<>>
        BY <2>3, <3>2 DEF Letters
      <4>2. msgs'[d] = msgs[d]
        BY <2>1, <2>6, <3>2
      <4> QED BY <1>9, <1>10, <4>1, <4>2
    <3> QED BY <3>1, <3>2
  <2>8. EffectOK(e)
    <3>1. e.batch = <<>>
      BY DEF Effect
    <3> HIDE DEF e
    <3> QED BY <3>1 DEF EffectOK, BatchOK, InTurn
  <2> HIDE DEF e
  <2>9. Takes(e)
    BY <2>1, <2>7, <2>8 DEF Takes
  <2> QED BY <1>8, <2>2, <2>9
<1>13. CASE CommitBatch
  <2> DEFINE e == Effect(block[next], InOrder(Whole))
  <2>1. /\ applied' = Append(applied, e) /\ msgs' = txn.msgs /\ txn.open /\ txn.todo = <<>>
    BY <1>13 DEF CommitBatch, Took, Whole
  <2>2. At("batch")
    BY <1>0, <2>1 DEF PlaceInv, NoTxn
  <2>3. e \in Effects
    <3>1. InOrder(Whole) \in Seq(Records)
      BY <1>0, <2>2, WholeIs
    <3> QED BY <1>0, <2>2, <3>1, EffectIs DEF At
  <2>4. e.kind = "batch" /\ e.subnet = Source /\ e.known = Known /\ e.batch = InOrder(Whole) /\ e.txid = Txid
    BY <2>2 DEF Effect, At, Source
  <2> HIDE DEF e
  <2>5. ASSUME NEW d \in Subnets PROVE Lines(msgs'[d]) = Lines(msgs[d]) \o Stamped(e.txid, Letters(e, d))
    <3>1. Letters(e, d) = LettersOf(e.batch, d, e.subnet, e.known)
      BY <2>4 DEF Letters, LettersOf, Speaks
    <3>2. Lines(txn.msgs[d]) \o Stamped(Txid, LettersOf(<<>>, d, Source, Known))
          = Lines(msgs[d]) \o Stamped(Txid, LettersOf(InOrder(Whole), d, Source, Known))
      BY <1>0, <2>1 DEF TxnLog
    <3>3. Lines(txn.msgs[d]) \in Seq(Entries)
      <4>1. Boxes(txn.msgs) /\ Letterboxes(txn.msgs)
        BY <1>0, <2>1 DEF MessageInv, OpenTxn, NoTxn, RootnetInv
      <4> QED BY <4>1, MailIs, LinesType DEF Mailed
    <3>4. Lines(txn.msgs[d]) \o Stamped(Txid, LettersOf(<<>>, d, Source, Known)) = Lines(txn.msgs[d])
      BY <1>10, <3>3, LettersEmpty
    <3> QED BY <2>1, <2>4, <3>1, <3>2, <3>4
  <2>6. EffectOK(e)
    <3>1. BatchOK(Source, InOrder(Whole)) /\ InTurn(InOrder(Whole))
      BY <1>0, <2>2, WholeIs
    <3> QED BY <2>4, <3>1 DEF EffectOK
  <2>7. Takes(e)
    BY <2>1, <2>5, <2>6 DEF Takes
  <2> QED BY <1>8, <2>3, <2>7
<1> QED BY <1>2, <1>3, <1>4, <1>5, <1>6, <1>7, <1>11, <1>12, <1>13 DEF Next, Monitor

LEMMA StepLog ==
  ASSUME TransferInv, LogInv, Told
  PROVE  LogInv'
<1>1. CASE msgs' = msgs /\ applied' = applied
  BY <1>1, ZenonT(40) DEF LogInv, History, Letters
<1>2. ASSUME NEW e \in Effects, Takes(e) PROVE LogInv'
  <2> SUFFICES ASSUME NEW d \in Subnets
               PROVE  Lines(msgs'[d]) = FlattenSeq(History(d))'
    BY DEF LogInv
  <2>1. applied \in Seq(Effects) /\ applied' = Append(applied, e)
    BY <1>2 DEF Takes, TransferInv, StateInv
  <2>2. FlattenSeq(History(d))' = FlattenSeq(History(d)) \o Stamped(e.txid, Letters(e, d))
    BY <2>1, HistoryGrows
  <2>3. Lines(msgs[d]) = FlattenSeq(History(d))
    BY DEF LogInv
  <2> QED BY <1>2, <2>2, <2>3 DEF Takes
<1> QED BY <1>1, <1>2 DEF Told

HistoryInv == TransferInv /\ TxnLog /\ LogInv

----------------------------------------------------------------------------
LEMMA InitHistory == Init => HistoryInv
<1> SUFFICES ASSUME Init PROVE HistoryInv
  OBVIOUS
<1>1. TransferInv
  BY InitTransfer
<1>2. TxnLog
  BY DEF Init, NoTxn, TxnLog
<1>3. LogInv
  <2> SUFFICES ASSUME NEW d \in Subnets PROVE Lines(msgs[d]) = FlattenSeq(History(d))
    BY DEF LogInv
  <2>1. msgs[d] = <<>> /\ applied = <<>>
    BY DEF Init
  <2>2. Mail(msgs[d])
    BY <1>1, MailIs DEF TransferInv, MessageInv, RootnetInv, Mailed
  <2>3. Lines(msgs[d]) \in Seq(Entries) /\ Len(Lines(msgs[d])) = NextNonce(msgs[d])
    BY <2>2, LinesType
  <2>4. NextNonce(msgs[d]) = 0
    <3>1. DOMAIN msgs[d] = {}
      BY <2>1
    <3> QED BY <3>1, FS_EmptySet DEF NextNonce
  <2>5. Lines(msgs[d]) = <<>>
    BY <2>3, <2>4
  <2>6. History(d) = <<>>
    <3>1. DOMAIN applied = {}
      BY <2>1
    <3>2. History(d) = [k \in {} |-> Stamped(applied[k].txid, Letters(applied[k], d))]
      BY <3>1 DEF History
    <3> QED BY <3>2
  <2> QED BY <2>5, <2>6, FlattenEmpty
<1> QED BY <1>1, <1>2, <1>3 DEF HistoryInv

\* The inductive invariant: the log of each subnet is the history of what was
\* applied, and an open transaction goes on from it as far as it has come.
THEOREM Histories == Spec => []HistoryInv
<1>1. HistoryInv /\ [Next]_vars => HistoryInv'
  BY StepTransfer, StepTxnLog, StepHistory, StepLog DEF HistoryInv
<1> QED BY <1>1, InitHistory, PTL DEF Spec

\* LogIsHistory: the rootnet messages of a subnet are exactly the records of the
\* applied funds and batches that concern it, in order; save_to_db of a batch
\* that a stop interrupts leaves nothing, and handled again doubles nothing.
THEOREM LogFollowsHistory == Spec => []LogIsHistory
<1>1. HistoryInv => LogIsHistory
  <2> SUFFICES ASSUME HistoryInv, NEW d \in Subnets
               PROVE  [i \in DOMAIN Log(d) |-> [txid |-> Log(d)[i].txid, body |-> Log(d)[i].body]]
                      = FlattenSeq(History(d))
    BY DEF LogIsHistory, History, Stamped
  <2>1. Lines(msgs[d]) = FlattenSeq(History(d))
    BY DEF HistoryInv, LogInv
  <2>2. DOMAIN Log(d) = 1..NextNonce(msgs[d]) /\ \A i \in 1..NextNonce(msgs[d]) : Log(d)[i] = msgs[d][i - 1]
    BY DEF Log, NextNonce
  <2>3. Lines(msgs[d]) = [i \in DOMAIN Log(d) |-> [txid |-> Log(d)[i].txid, body |-> Log(d)[i].body]]
    BY <2>2 DEF Lines, Entry
  <2> QED BY <2>1, <2>3
<1> QED BY <1>1, Histories, PTL

----------------------------------------------------------------------------
(* Metadata before transfers.                                              *)

\* The box of a subnet with n messages, and the same after its letters L, which
\* come at its end.
Extends(box, new, n, L, x) ==
  /\ n \in Nat /\ DOMAIN box = 0..(n - 1) /\ DOMAIN new = 0..(n + Len(L) - 1)
  /\ \A k \in DOMAIN box : k \in DOMAIN new /\ Entry(new[k]) = Entry(box[k])
  /\ \A j \in 1..Len(L) : n + j - 1 \in DOMAIN new
                          /\ Entry(new[n + j - 1]) = [txid |-> x, body |-> L[j]]

LEMMA NewMail ==
  ASSUME NEW box, Mail(box), NEW new, Mail(new), NEW L \in Seq(Records), NEW x \in Nat \X Nat,
         Lines(new) = Lines(box) \o Stamped(x, L)
  PROVE  Extends(box, new, NextNonce(box), L, x)
<1> DEFINE n == NextNonce(box)
           a == NextNonce(new)
           l == Lines(box)
           g == Lines(new)
           t == Stamped(x, L)
           c == Len(L)
<1>1. /\ l \in Seq(Entries) /\ Len(l) = n /\ n \in Nat
      /\ \A i \in 1..n : i - 1 \in DOMAIN box /\ l[i] = Entry(box[i - 1])
  BY LinesType
<1>2. /\ g \in Seq(Entries) /\ Len(g) = a /\ a \in Nat
      /\ \A i \in 1..a : i - 1 \in DOMAIN new /\ g[i] = Entry(new[i - 1])
  BY LinesType
<1>3. DOMAIN box = 0..(n - 1) /\ DOMAIN new = 0..(a - 1)
  BY CountIsNext DEF Mail
<1>4. t \in Seq(Entries) /\ Len(t) = c /\ c \in Nat /\ \A i \in 1..c : t[i] = [txid |-> x, body |-> L[i]]
  BY StampedIs
<1>5. g = l \o t
  OBVIOUS
<1> HIDE DEF l, g, t, n, a, c
<1>6. /\ Len(g) = Len(l) + Len(t) /\ \A i \in 1..Len(l) : g[i] = l[i]
      /\ \A j \in 1..Len(t) : g[Len(l) + j] = t[j]
  <2>1. l \in Seq(Entries) /\ t \in Seq(Entries)
    BY <1>1, <1>4
  <2> QED BY <1>5, <2>1
<1>7. a = n + c
  BY <1>1, <1>2, <1>4, <1>6
<1>8. ASSUME NEW k \in DOMAIN box PROVE k \in DOMAIN new /\ Entry(new[k]) = Entry(box[k])
  <2>1. k + 1 \in 1..n /\ k + 1 \in 1..a /\ (k + 1) - 1 = k /\ k \in DOMAIN new
    <3>1. n \in Nat /\ c \in Nat /\ a = n + c /\ k \in 0..(n - 1)
      BY <1>1, <1>3, <1>4, <1>7
    <3> QED BY <1>3, <3>1
  <2>2. g[k + 1] = l[k + 1]
    BY <1>1, <1>6, <2>1
  <2>3. l[k + 1] = Entry(box[(k + 1) - 1]) /\ g[k + 1] = Entry(new[(k + 1) - 1])
    BY <1>1, <1>2, <2>1
  <2> QED BY <2>1, <2>2, <2>3
<1>9. ASSUME NEW j \in 1..c
      PROVE  n + j - 1 \in DOMAIN new /\ Entry(new[n + j - 1]) = [txid |-> x, body |-> L[j]]
  <2>1. n + j \in 1..a /\ (n + j) - 1 = n + j - 1 /\ n + j - 1 \in DOMAIN new
    <3>1. n \in Nat /\ c \in Nat /\ a = n + c
      BY <1>1, <1>4, <1>7
    <3> QED BY <1>3, <3>1
  <2>2. g[n + j] = t[j]
    BY <1>1, <1>4, <1>6
  <2>3. g[n + j] = Entry(new[(n + j) - 1])
    BY <1>2, <2>1
  <2>4. t[j] = [txid |-> x, body |-> L[j]]
    BY <1>4
  <2> QED BY <2>1, <2>2, <2>3, <2>4
<1> QED BY <1>1, <1>3, <1>7, <1>8, <1>9 DEF n, c, Extends

\* e registers token t of home where d hears of it.
Registered(e, d, home, t) ==
  e.subnet = home /\ d \in e.known \ {home} /\ Registers(e.batch, t) # {}

Announces(r, home, t) == r.op = "register" /\ r.home = home /\ r.token = t

\* The letters of a batch that registers a token: the registration is among them,
\* before every transfer of the token.
LEMMA LettersAnnounce ==
  ASSUME NEW e \in Effects, EffectOK(e), NEW d \in Subnets, NEW home, NEW t, Registered(e, d, home, t)
  PROVE  LET L == Letters(e, d) IN
         /\ \E i \in 1..Len(L) : Announces(L[i], home, t)
         /\ \A j \in 1..Len(L) : L[j].op = "send" =>
              \E i \in 1..Len(L) : i < j /\ Announces(L[i], home, t)
<1> DEFINE b == e.batch
           K == {i \in DOMAIN b : Speaks(b[i], d, e.subnet, e.known)}
           L == Letters(e, d)
<1>1. b \in Seq(Records) /\ BatchOK(home, b) /\ InTurn(b) /\ b # <<>> /\ e.subnet = home
  <2>1. b \in Seq(Records) /\ BatchOK(home, b) /\ InTurn(b) /\ e.subnet = home
    <3>1. b \in Seq(Records)
      BY DEF Effects
    <3>2. e.subnet = home
      BY DEF Registered
    <3>3. BatchOK(e.subnet, b) /\ InTurn(b)
      BY DEF EffectOK
    <3> QED BY <3>1, <3>2, <3>3
  <2>2. Registers(b, t) # {}
    BY DEF Registered
  <2> QED BY <2>1, <2>2 DEF Registers
<1>2. L = Picked(b, K)
  <2>1. e.kind # "fund"
    BY <1>1 DEF EffectOK
  <2> QED BY <2>1 DEF Letters, Speaks
<1>3. PICK i \in DOMAIN b : b[i].op = "register" /\ b[i].token = t
  BY DEF Registered, Registers
<1>4. i \in K
  BY <1>3 DEF Speaks, Registered
<1>5. Announces(b[i], home, t)
  BY <1>1, <1>3 DEF BatchOK, Announces
<1>6. K \subseteq DOMAIN b
  OBVIOUS
<1> HIDE DEF K, L, b
<1>7. L \in Seq(Records) /\ \E m : Enumerates(L, b, m, K)
  BY <1>1, <1>2, <1>6, PickedEnumerates
<1>8. PICK m : Enumerates(L, b, m, K)
  BY <1>7
<1>9. PICK p \in 1..Len(L) : m[p] = i
  BY <1>4, <1>8 DEF Enumerates
<1>10. L[p] = b[i]
  BY <1>8, <1>9 DEF Enumerates
<1>11. ASSUME NEW j \in 1..Len(L), L[j].op = "send" PROVE p < j
  <2>1. m[j] \in DOMAIN b /\ L[j] = b[m[j]]
    BY <1>6, <1>8 DEF Enumerates
  <2>2. b[m[j]].op = "send" /\ b[i].op = "register"
    BY <1>3, <1>11, <2>1
  <2>3. ~(m[j] < i)
    BY <1>1, <2>1, <2>2 DEF InTurn, Turn
  <2>4. m[j] # i
    BY <2>2
  <2>5. i \in Int /\ m[j] \in Int /\ j \in Int /\ p \in Int
    BY <1>1, <1>7, <2>1
  <2>6. j < p => m[j] < m[p]
    BY <1>8 DEF Enumerates
  <2>7. j = p => m[j] = m[p]
    OBVIOUS
  <2> QED BY <1>9, <2>3, <2>4, <2>5, <2>6, <2>7
<1> QED BY <1>5, <1>9, <1>10, <1>11 DEF L

\* Every message has the txid of what was applied.
Signed ==
  \A d \in Subnets : \A n \in DOMAIN msgs[d] : \E j \in DOMAIN applied : applied[j].txid = msgs[d][n].txid

\* Every registration is in the logs of those who hear of it.
Announced ==
  \A d \in Subnets, k \in DOMAIN applied : \A home, t :
    Registered(applied[k], d, home, t) =>
      \E n \in DOMAIN msgs[d] : Announces(msgs[d][n].body, home, t)

Earlier(box, n, home, t) == \E k \in DOMAIN box : k < n /\ Announces(box[k].body, home, t)

\* Registration k came after the message with txid x.
After(a, k, x) == \E j \in 1..(k - 1) : a[j].txid = x

\* The message n of d, if it transfers a token of which d heard, comes after the
\* metadata or before the registration.
Heard(box, a, d, n) ==
  LET r == box[n].body IN
  r.op = "send" =>
    \/ Earlier(box, n, r.home, r.token)
    \/ \A k \in DOMAIN a : Registered(a[k], d, r.home, r.token) => After(a, k, box[n].txid)

AllHeard == \A d \in Subnets : \A n \in DOMAIN msgs[d] : Heard(msgs[d], applied, d, n)

MetaInv == Signed /\ Announced /\ AllHeard

LEMMA TakesMeta ==
  ASSUME TransferInv, TransferInv', MetaInv, NEW e \in Effects, Takes(e)
  PROVE  MetaInv'
<1> DEFINE N == Len(applied)
           A == applied'
<1>0. applied \in Seq(Effects) /\ A = Append(applied, e)
  BY DEF TransferInv, StateInv, Takes
<1>1. /\ N \in Nat /\ DOMAIN applied = 1..N /\ DOMAIN A = 1..(N + 1) /\ A[N + 1] = e
      /\ \A k \in 1..N : A[k] = applied[k] /\ k \in 1..(N + 1)
  BY <1>0
<1>2. \A k \in 1..(N + 1) : k \in 1..N \/ k = N + 1
  BY <1>1
<1>3. \A d \in Subnets : Mail(msgs[d]) /\ Mail(msgs'[d])
  <2>1. Boxes(msgs) /\ Letterboxes(msgs)
    BY DEF TransferInv, MessageInv, RootnetInv
  <2>2. Boxes(msgs') /\ Letterboxes(msgs')
    BY DEF TransferInv, MessageInv, RootnetInv
  <2>3. Mailed(msgs) /\ Mailed(msgs')
    BY <2>1, <2>2, MailIs
  <2> QED BY <2>3 DEF Mailed
<1>4. e.txid \in Nat \X Nat /\ EffectOK(e)
  BY DEF Effects, Takes
<1> HIDE DEF N, A
<1>5. SUFFICES ASSUME NEW d \in Subnets
      PROVE  /\ \A n \in DOMAIN msgs'[d] : \E j \in DOMAIN A : A[j].txid = msgs'[d][n].txid
             /\ \A k \in DOMAIN A : \A home, t :
                  Registered(A[k], d, home, t) =>
                    \E n \in DOMAIN msgs'[d] : Announces(msgs'[d][n].body, home, t)
             /\ \A n \in DOMAIN msgs'[d] : Heard(msgs'[d], A, d, n)
  BY DEF MetaInv, Signed, Announced, AllHeard, A
<1> DEFINE box == msgs[d]
           new == msgs'[d]
           L == Letters(e, d)
           x == e.txid
           n0 == NextNonce(box)
<1>6. L \in Seq(Records) /\ Len(L) \in Nat
  BY EffectLetters
<1>7. /\ n0 \in Nat /\ DOMAIN box = 0..(n0 - 1) /\ DOMAIN new = 0..(n0 + Len(L) - 1)
      /\ \A k \in DOMAIN box : k \in DOMAIN new /\ Entry(new[k]) = Entry(box[k])
      /\ \A j \in 1..Len(L) : n0 + j - 1 \in DOMAIN new
                              /\ Entry(new[n0 + j - 1]) = [txid |-> x, body |-> L[j]]
  <2>1. Lines(new) = Lines(box) \o Stamped(x, L)
    BY DEF Takes
  <2>2. Mail(box) /\ Mail(new)
    BY <1>3
  <2> HIDE DEF box, new, L, x, n0
  <2>3. x \in Nat \X Nat
    BY <1>4 DEF x
  <2>4. Extends(box, new, NextNonce(box), L, x)
    BY <1>6, <2>1, <2>2, <2>3, NewMail
  <2> QED BY <2>4 DEF Extends, n0
<1>8. /\ \A n \in DOMAIN box : \E j \in DOMAIN applied : applied[j].txid = box[n].txid
      /\ \A k \in DOMAIN applied : \A home, t :
           Registered(applied[k], d, home, t) => \E n \in DOMAIN box : Announces(box[n].body, home, t)
      /\ \A n \in DOMAIN box : Heard(box, applied, d, n)
  BY DEF MetaInv, Signed, Announced, AllHeard
<1>9. \A home, t : Registered(e, d, home, t) =>
        /\ \E i \in 1..Len(L) : Announces(L[i], home, t)
        /\ \A j \in 1..Len(L) : L[j].op = "send" =>
             \E i \in 1..Len(L) : i < j /\ Announces(L[i], home, t)
  BY <1>4, LettersAnnounce
<1> HIDE DEF box, new, L, x, n0
<1>10. /\ \A k \in DOMAIN box : k \in DOMAIN new /\ new[k].txid = box[k].txid /\ new[k].body = box[k].body
       /\ \A j \in 1..Len(L) : n0 + j - 1 \in DOMAIN new
                               /\ new[n0 + j - 1].txid = x /\ new[n0 + j - 1].body = L[j]
  BY <1>7 DEF Entry
<1>11. ASSUME NEW n \in DOMAIN new, n \notin DOMAIN box
       PROVE  \E j \in 1..Len(L) : n = n0 + j - 1 /\ new[n].txid = x /\ new[n].body = L[j]
  <2>1. n - n0 + 1 \in 1..Len(L) /\ n = n0 + (n - n0 + 1) - 1
    BY <1>6, <1>7, <1>11
  <2> DEFINE j == n - n0 + 1
  <2> HIDE DEF j
  <2>2. j \in 1..Len(L) /\ n = n0 + j - 1
    BY <2>1 DEF j
  <2> QED BY <1>10, <2>2
<1>12. \A n \in DOMAIN new : \E j \in DOMAIN A : A[j].txid = new[n].txid
  <2> SUFFICES ASSUME NEW n \in DOMAIN new PROVE \E j \in DOMAIN A : A[j].txid = new[n].txid
    OBVIOUS
  <2>1. CASE n \in DOMAIN box
    <3>1. PICK j \in DOMAIN applied : applied[j].txid = box[n].txid
      BY <1>8, <2>1
    <3>2. j \in DOMAIN A /\ A[j] = applied[j]
      BY <1>1
    <3> QED BY <1>10, <2>1, <3>1, <3>2
  <2>2. CASE n \notin DOMAIN box
    <3>1. new[n].txid = x
      BY <1>11, <2>2
    <3>2. N + 1 \in DOMAIN A /\ A[N + 1].txid = x
      BY <1>1 DEF x
    <3> QED BY <3>1, <3>2
  <2> QED BY <2>1, <2>2
<1>13. ASSUME NEW k \in DOMAIN A, NEW home, NEW t, Registered(A[k], d, home, t)
       PROVE  \E n \in DOMAIN new : Announces(new[n].body, home, t)
  <2>1. CASE k \in 1..N
    <3>1. A[k] = applied[k] /\ k \in DOMAIN applied
      BY <1>1, <2>1
    <3>2. PICK n \in DOMAIN box : Announces(box[n].body, home, t)
      BY <1>8, <1>13, <3>1
    <3> QED BY <1>10, <3>2
  <2>2. CASE k = N + 1
    <3>1. Registered(e, d, home, t)
      BY <1>1, <1>13, <2>2
    <3>2. PICK i \in 1..Len(L) : Announces(L[i], home, t)
      BY <1>9, <3>1
    <3> QED BY <1>10, <3>2
  <2> QED BY <1>1, <1>2, <2>1, <2>2
<1>14. ASSUME NEW n \in DOMAIN new PROVE Heard(new, A, d, n)
  <2> DEFINE r == new[n].body
  <2> SUFFICES ASSUME r.op = "send",
                      NEW k \in DOMAIN A, Registered(A[k], d, r.home, r.token),
                      ~After(A, k, new[n].txid)
               PROVE  Earlier(new, n, r.home, r.token)
    BY DEF Heard
  <2>1. CASE n \in DOMAIN box
    <3>1. box[n].body = r /\ box[n].txid = new[n].txid
      BY <1>10, <2>1
    <3>2. k \in 1..N
      <4> SUFFICES ASSUME k = N + 1 PROVE FALSE
        BY <1>1, <1>2
      <4>1. PICK j \in DOMAIN applied : applied[j].txid = box[n].txid
        BY <1>8, <2>1
      <4>2. j \in 1..(k - 1) /\ A[j] = applied[j]
        BY <1>1
      <4> QED BY <3>1, <4>1, <4>2 DEF After
    <3>3. A[k] = applied[k] /\ k \in DOMAIN applied
      BY <1>1, <3>2
    <3>4. ~After(applied, k, box[n].txid)
      <4> SUFFICES ASSUME NEW j \in 1..(k - 1), applied[j].txid = box[n].txid PROVE FALSE
        BY DEF After
      <4>1. j \in 1..N
        BY <1>1, <3>2
      <4>2. A[j] = applied[j]
        BY <1>1, <4>1
      <4> QED BY <3>1, <4>2 DEF After
    <3>5. Heard(box, applied, d, n)
      BY <1>8, <2>1
    <3>6. Earlier(box, n, r.home, r.token)
      BY <3>1, <3>3, <3>4, <3>5 DEF Heard
    <3> QED BY <1>10, <3>6 DEF Earlier
  <2>2. CASE n \notin DOMAIN box
    <3>1. PICK j \in 1..Len(L) : n = n0 + j - 1 /\ r = L[j]
      BY <1>11, <2>2
    <3>2. CASE k \in 1..N
      <4>1. A[k] = applied[k] /\ k \in DOMAIN applied
        BY <1>1, <3>2
      <4>2. PICK i \in DOMAIN box : Announces(box[i].body, r.home, r.token)
        BY <1>8, <4>1
      <4>3. i < n
        BY <1>6, <1>7, <3>1
      <4>4. i \in DOMAIN new /\ new[i].body = box[i].body
        BY <1>10
      <4> QED BY <4>2, <4>3, <4>4 DEF Earlier
    <3>3. CASE k = N + 1
      <4>1. Registered(e, d, r.home, r.token)
        BY <1>1, <3>3
      <4>2. PICK i \in 1..Len(L) : i < j /\ Announces(L[i], r.home, r.token)
        BY <1>9, <3>1, <4>1
      <4>3. n0 + i - 1 < n
        BY <1>6, <1>7, <3>1, <4>2
      <4>4. n0 + i - 1 \in DOMAIN new /\ new[n0 + i - 1].body = L[i]
        BY <1>10
      <4> QED BY <4>2, <4>3, <4>4 DEF Earlier
    <3> QED BY <1>1, <1>2, <3>2, <3>3
  <2> QED BY <2>1, <2>2
<1> QED BY <1>12, <1>13, <1>14 DEF new

\* The inductive invariant of announcements.
THEOREM Announcements == Spec => [](HistoryInv /\ MetaInv)
<1>1. Init => MetaInv
  <2> SUFFICES ASSUME Init PROVE MetaInv
    OBVIOUS
  <2>1. applied = <<>> /\ \A d \in Subnets : DOMAIN msgs[d] = {}
    BY DEF Init
  <2>2. DOMAIN applied = {}
    BY <2>1
  <2> QED BY <2>1, <2>2 DEF MetaInv, Signed, Announced, AllHeard
<1>2. HistoryInv /\ MetaInv /\ [Next]_vars => (HistoryInv /\ MetaInv)'
  <2> SUFFICES ASSUME HistoryInv, MetaInv, [Next]_vars PROVE HistoryInv' /\ MetaInv'
    OBVIOUS
  <2>1. TransferInv /\ TxnLog /\ LogInv /\ TransferInv' /\ TxnLog'
    BY StepTransfer, StepTxnLog DEF HistoryInv
  <2>2. Told
    BY <2>1, StepHistory
  <2>3. LogInv'
    BY <2>1, <2>2, StepLog
  <2>4. ASSUME msgs' = msgs, applied' = applied PROVE MetaInv'
    BY <2>4 DEF MetaInv, Signed, Announced, AllHeard
  <2>5. ASSUME NEW e \in Effects, Takes(e) PROVE MetaInv'
    BY <2>1, <2>5, TakesMeta
  <2>6. MetaInv'
    BY <2>2, <2>4, <2>5 DEF Told
  <2> QED BY <2>1, <2>3, <2>6 DEF HistoryInv
<1> QED BY <1>1, <1>2, InitHistory, PTL DEF Spec

\* MetadataFirst: a subnet that was known when a token was registered finds the
\* metadata in its log before any transfer of the token that came later.
THEOREM MetadataPrecedes == Spec => []MetadataFirst
<1>1. MetaInv => MetadataFirst
  <2> SUFFICES ASSUME MetaInv, NEW d \in Subnets, NEW n \in DOMAIN msgs[d], msgs[d][n].body.op = "send"
      PROVE  LET r == msgs[d][n].body
                 registrations == {k \in DOMAIN applied :
                   /\ applied[k].subnet = r.home /\ d \in applied[k].known \ {r.home}
                   /\ Registers(applied[k].batch, r.token) # {}}
             IN  \/ \E k \in DOMAIN msgs[d] :
                      /\ k < n
                      /\ msgs[d][k].body.op = "register"
                      /\ msgs[d][k].body.home = r.home /\ msgs[d][k].body.token = r.token
                 \/ \A k \in registrations :
                      \E j \in 1..(k - 1) : applied[j].txid = msgs[d][n].txid
    BY DEF MetadataFirst
  <2>1. Heard(msgs[d], applied, d, n)
    BY DEF MetaInv, AllHeard
  <2> QED BY <2>1 DEF Heard, Earlier, Announces, Registered, After
<1> QED BY <1>1, Announcements, PTL
=============================================================================
