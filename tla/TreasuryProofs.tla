---------------------------- MODULE TreasuryProofs ----------------------------
(***************************************************************************)
(* The money of a subnet, for every set of validators, every committee and *)
(* every scenario: it follows the committee, a rotation or a kill takes    *)
(* all of it along, every transaction pays its fee and no more, a kill     *)
(* shares everything out, and monitors read back what was written.         *)
(*                                                                         *)
(* Every monitor replays the same chain, so the argument is about the      *)
(* states the chain goes through: D[i] is what a database says after the   *)
(* first i messages.  A checkpoint was written from one of these states;   *)
(* as no two checkpoints with one number are ever sent, no checkpoint      *)
(* comes between that state and the place where it confirms, and the       *)
(* committee it was written for is the one in force there.                 *)
(***************************************************************************)
EXTENDS Treasury, AggregateProofs

First == [conf |-> 0, recorded |-> 0, settled |-> 0, status |-> "running", count |-> 0]

IsDb(d) ==
  /\ d = [conf |-> d.conf, recorded |-> d.recorded, settled |-> d.settled, status |-> d.status,
          count |-> d.count]
  /\ d.conf \in Nat /\ d.recorded \in Nat /\ d.count \in Nat /\ d.settled \in Nat
  /\ d.conf <= d.recorded

\* What may come in between without a change to the committee.
Same(d, e) == e.count = d.count /\ e.conf = d.conf /\ e.recorded >= d.recorded

\* A checkpoint that may be written in state d, as far as rotations go.
Draft(d, tx) ==
  /\ tx.number = d.count + 1
  /\ tx.to # tx.from =>
       ~tx.meta.kill /\ tx.meta.conf \in (d.conf + 1)..d.recorded /\ tx.to = Here(tx.meta.conf)

IsCheckpoint(x) == x.kind = "checkpoint"

IsItem(x) == x.kind \in {"change", "mark", "checkpoint"}

----------------------------------------------------------------------------
(* What a monitor does with one message.                                   *)

LEMMA HandledOther ==
  ASSUME NEW d, IsDb(d), NEW x, x.kind \in {"change", "mark"}
  PROVE  /\ IsDb(Handled(d, x)) /\ Same(d, Handled(d, x))
         /\ Handled(d, x).recorded <= d.recorded + 1
<1> DEFINE D == [conf |-> d.conf, recorded |-> d.recorded, settled |-> d.settled, status |-> d.status,
                 count |-> d.count]
<1>1. d = D /\ d.conf \in Nat /\ d.recorded \in Nat /\ d.count \in Nat /\ d.settled \in Nat
      /\ d.conf <= d.recorded
  BY DEF IsDb
<1>2. CASE x.kind = "change"
  <2>1. Handled(d, x) = [D EXCEPT !.recorded = @ + 1]
    BY <1>1, <1>2 DEF Handled
  <2>2. Handled(d, x) = [conf |-> d.conf, recorded |-> d.recorded + 1, settled |-> d.settled,
                         status |-> d.status, count |-> d.count]
    BY <2>1
  <2> QED BY <1>1, <2>2 DEF IsDb, Same
<1>3. CASE x.kind = "mark"
  <2>1. Handled(d, x) = [D EXCEPT !.status = "marked"]
    BY <1>1, <1>3 DEF Handled
  <2>2. Handled(d, x) = [conf |-> d.conf, recorded |-> d.recorded, settled |-> d.settled,
                         status |-> "marked", count |-> d.count]
    BY <2>1
  <2> QED BY <1>1, <2>2 DEF IsDb, Same
<1> QED BY <1>2, <1>3

LEMMA LargerOfTwo ==
  ASSUME NEW a \in Int, NEW b \in Int
  PROVE  Max({a, b}) \in {a, b} /\ Max({a, b}) >= a /\ Max({a, b}) >= b
<1>1. \E x \in {a, b} : \A y \in {a, b} : x >= y
  OBVIOUS
<1> QED BY <1>1 DEF Max

LEMMA HandledCheckpoint ==
  ASSUME NEW d, IsDb(d), NEW x, x.kind = "checkpoint"
  PROVE  /\ IsDb(Handled(d, x)) /\ Handled(d, x).recorded = d.recorded
         /\ (Recognised(x) /\ ~x.meta.kill /\ x.meta.conf \in (d.conf + 1)..d.recorded) =>
              Here(Handled(d, x).conf) = Here(x.meta.conf)
<1> DEFINE D == [conf |-> d.conf, recorded |-> d.recorded, settled |-> d.settled, status |-> d.status,
                 count |-> d.count]
           c == x.meta.conf
           r == Rotated(d, c)
           st == IF x.meta.kill THEN "killed" ELSE r.status
<1>1. d = D /\ d.conf \in Nat /\ d.recorded \in Nat /\ d.count \in Nat /\ d.settled \in Nat
      /\ d.conf <= d.recorded
  BY DEF IsDb
<1>2. CASE Refused(d, x)
  <2>1. Handled(d, x) = d
    BY <1>2 DEF Handled
  <2>2. ~(Recognised(x) /\ ~x.meta.kill /\ c \in (d.conf + 1)..d.recorded)
    BY <1>1, <1>2 DEF Refused, KeepsCommittee
  <2> QED BY <2>1, <2>2
<1>3. CASE ~Refused(d, x)
  <2>1. Handled(d, x) = [r EXCEPT !.count = r.count + 1, !.status = st]
    BY <1>3 DEF Handled
  <2>2. CASE KeepsCommittee(d, c)
    <3>1. r = D
      BY <1>1, <2>2 DEF Rotated
    <3> HIDE DEF st, r
    <3>2. Handled(d, x) = [conf |-> d.conf, recorded |-> d.recorded, settled |-> d.settled,
                           status |-> st, count |-> d.count + 1]
      BY <2>1, <3>1
    <3>3. ~(c \in (d.conf + 1)..d.recorded)
      BY <1>1, <2>2 DEF KeepsCommittee
    <3> QED BY <1>1, <3>2, <3>3 DEF IsDb
  <2>3. CASE ~KeepsCommittee(d, c)
    <3> DEFINE s == Max({d.settled, c})
               f == IF Here(c) = Here(d.conf) THEN d.conf ELSE c
    <3>1. c \in 1..d.recorded
      BY <1>3, <2>3 DEF Refused
    <3>2. r = [D EXCEPT !.conf = f, !.settled = s]
      BY <1>1, <2>3 DEF Rotated
    <3> HIDE DEF s, f
    <3>3. r = [conf |-> f, recorded |-> d.recorded, settled |-> s, status |-> d.status, count |-> d.count]
      BY <3>2
    <3> HIDE DEF st, r
    <3>4. Handled(d, x) = [conf |-> f, recorded |-> d.recorded, settled |-> s, status |-> st,
                           count |-> d.count + 1]
      BY <2>1, <3>3
    <3>5. f \in Nat /\ f <= d.recorded /\ Here(f) = Here(c)
      BY <1>1, <3>1 DEF f
    <3>6. s \in Nat
      <4>1. d.settled \in Int /\ c \in Int /\ c >= 0
        BY <1>1, <3>1
      <4>2. s \in {d.settled, c}
        BY <4>1, LargerOfTwo DEF s
      <4> QED BY <1>1, <4>1, <4>2
    <3> QED BY <1>1, <3>4, <3>5, <3>6 DEF IsDb
  <2> QED BY <2>2, <2>3
<1> QED BY <1>2, <1>3

\* A draft stays one while no checkpoint comes in between.
LEMMA DraftStays ==
  ASSUME NEW d, IsDb(d), NEW e, IsDb(e), Same(d, e), NEW tx, Draft(d, tx)
  PROVE  Draft(e, tx)
<1>1. d.conf \in Nat /\ d.recorded \in Nat /\ e.conf = d.conf /\ e.recorded \in Nat
      /\ e.recorded >= d.recorded /\ e.count = d.count
  BY DEF IsDb, Same
<1> QED BY <1>1 DEF Draft

----------------------------------------------------------------------------
(* The states a chain goes through.                                        *)

\* D[i] is what a database says after the first i messages of c.
States(D, c) ==
  /\ D[0] = First
  /\ \A i \in 1..Len(c) : D[i] = Handled(D[i - 1], c[i])
  /\ \A i \in 0..Len(c) : IsDb(D[i])

\* From a to b, each message that finds the committee of a is no checkpoint.
Quiet(D, c, a, b) ==
  \A n \in (a + 1)..b : Same(D[a], D[n - 1]) => c[n].kind \in {"change", "mark"}

LEMMA QuietIsSame ==
  ASSUME NEW D, NEW c, Len(c) \in Nat, States(D, c), NEW a \in 0..Len(c), NEW b \in a..Len(c),
         Quiet(D, c, a, b)
  PROVE  Same(D[a], D[b])
<1> DEFINE N == {k \in Nat : a + k <= b => Same(D[a], D[a + k])}
<1>1. 0 \in N
  <2>1. a + 0 = a /\ IsDb(D[a])
    BY DEF States
  <2>2. Same(D[a], D[a])
    BY <2>1 DEF Same, IsDb
  <2> QED BY <2>1, <2>2
<1>2. ASSUME NEW k \in N PROVE k + 1 \in N
  <2>1. k \in Nat /\ (a + k <= b => Same(D[a], D[a + k]))
    OBVIOUS
  <2> HIDE DEF N
  <2>2. SUFFICES ASSUME a + (k + 1) <= b PROVE Same(D[a], D[a + (k + 1)])
    BY <2>1 DEF N
  <2>3. Same(D[a], D[a + k])
    BY <2>1, <2>2
  <2> DEFINE n == a + k + 1
  <2>4. n \in (a + 1)..b /\ n \in 1..Len(c) /\ n - 1 = a + k /\ a + (k + 1) = n /\ a + k \in 0..Len(c)
    BY <2>1, <2>2
  <2> HIDE DEF n
  <2>5. c[n].kind \in {"change", "mark"}
    BY <2>3, <2>4 DEF Quiet
  <2>6. D[n] = Handled(D[a + k], c[n]) /\ IsDb(D[a + k]) /\ IsDb(D[a]) /\ IsDb(D[n])
    BY <2>4 DEF States
  <2>7. Same(D[a + k], D[n])
    BY <2>5, <2>6, HandledOther
  <2>8. Same(D[a], D[n])
    BY <2>3, <2>6, <2>7 DEF Same, IsDb
  <2> QED BY <2>4, <2>8
<1>3. N = Nat
  <2> HIDE DEF N
  <2>1. N \subseteq Nat
    BY DEF N
  <2> QED BY <1>1, <1>2, <2>1, AllNumbers
<1>4. b - a \in Nat /\ a + (b - a) = b
  OBVIOUS
<1>5. b - a \in N
  <2> HIDE DEF N
  <2> QED BY <1>3, <1>4
<1> QED BY <1>4, <1>5

\* new is c and x after it, and E has the states of D and one more.
Longer(D, c, S, E, new, x) ==
  /\ States(E, new)
  /\ \A i \in 0..Len(c) : E[i] = D[i]
  /\ Len(new) = Len(c) + 1 /\ new \in Seq(S \cup {x})
  /\ \A i \in 1..Len(c) : new[i] = c[i]
  /\ new[Len(c) + 1] = x

LEMMA StatesExtend ==
  ASSUME NEW S, NEW c \in Seq(S), NEW D, States(D, c), NEW x, IsItem(x)
  PROVE  \E E : Longer(D, c, S, E, Append(c, x), x)
<1> DEFINE L == Len(c)
           new == Append(c, x)
           E == [i \in 0..(L + 1) |-> IF i <= L THEN D[i] ELSE Handled(D[L], x)]
<1>1. L \in Nat /\ Len(new) = L + 1 /\ (\A i \in 1..L : new[i] = c[i]) /\ new[L + 1] = x
  OBVIOUS
<1>2. new \in Seq(S \cup {x})
  <2>1. c \in Seq(S \cup {x})
    OBVIOUS
  <2> QED BY <2>1
<1>3. (\A i \in 0..L : E[i] = D[i]) /\ E[L + 1] = Handled(D[L], x)
  BY <1>1
<1>4. IsDb(D[L])
  BY <1>1 DEF States
<1>5. IsDb(Handled(D[L], x))
  <2>1. CASE x.kind = "checkpoint"
    BY <1>4, <2>1, HandledCheckpoint
  <2>2. CASE x.kind \in {"change", "mark"}
    BY <1>4, <2>2, HandledOther
  <2> QED BY <2>1, <2>2 DEF IsItem
<1> HIDE DEF new, E
<1>6. E[0] = First
  BY <1>1, <1>3 DEF States
<1>7. ASSUME NEW i \in 1..Len(new) PROVE E[i] = Handled(E[i - 1], new[i])
  <2>1. CASE i = L + 1
    BY <1>1, <1>3, <2>1
  <2>2. CASE i # L + 1
    <3>1. i \in 1..L /\ i - 1 \in 0..L /\ i \in 0..L
      BY <1>1, <2>2
    <3> QED BY <1>1, <1>3, <3>1 DEF States
  <2> QED BY <2>1, <2>2
<1>8. ASSUME NEW i \in 0..Len(new) PROVE IsDb(E[i])
  <2>1. CASE i = L + 1
    BY <1>3, <1>5, <2>1
  <2>2. CASE i # L + 1
    <3>1. i \in 0..L
      BY <1>1, <2>2
    <3> QED BY <1>3, <3>1 DEF States
  <2> QED BY <2>1, <2>2
<1>9. States(E, new)
  BY <1>6, <1>7, <1>8 DEF States
<1> QED BY <1>1, <1>2, <1>3, <1>9 DEF new, L, Longer

----------------------------------------------------------------------------
(* The invariant: the databases are states of the chain, and a checkpoint  *)
(* on the chain was written for the committee in force there.              *)

DraftOf(D, tx) == \E j \in 0..Len(chain) : Draft(D[j], tx)

\* Which states drafts were written from.
Written(D) ==
  /\ \A s \in signed : IsCheckpoint(s.tx) => DraftOf(D, s.tx)
  /\ \A tx \in mempool : IsCheckpoint(tx) => DraftOf(D, tx)
  /\ \A i \in 1..Len(chain) : IsCheckpoint(chain[i]) => Draft(D[i - 1], chain[i])

Follow(D) ==
  /\ States(D, chain)
  /\ seen \in [Validators -> 0..Len(chain)]
  /\ db = [v \in Validators |-> D[seen[v]]]
  /\ Written(D)
  /\ \A i \in 0..Len(chain) : 0..(D[i].recorded + Len(events)) \subseteq DOMAIN Configs

\* No two checkpoints that were sent have one number.
OneEach ==
  /\ \A t, u \in mempool : (IsCheckpoint(t) /\ IsCheckpoint(u) /\ t.number = u.number) => t = u
  /\ \A t \in mempool : \A i \in 1..Len(chain) :
       (IsCheckpoint(t) /\ IsCheckpoint(chain[i])) => chain[i].number # t.number

FollowInv ==
  /\ events \in Seq({"change", "mark"})
  /\ \E S : chain \in Seq(S)
  /\ \A i \in 1..Len(chain) : IsItem(chain[i])
  /\ OneEach
  /\ \E D : Follow(D)

LEMMA InitFollow == Init => FollowInv
<1> SUFFICES ASSUME Init PROVE FollowInv
  OBVIOUS
<1>1. chain = <<>> /\ signed = {} /\ mempool = {} /\ db = [v \in Validators |-> First]
      /\ seen = [v \in Validators |-> 0]
  BY DEF Init, First
<1>2. events \in Seq({"change", "mark"})
  <2>1. PICK sc \in Scenarios : events = sc.events
    BY DEF Init
  <2> QED BY <2>1, TreasuryConstants
<1>3. chain \in Seq({}) /\ Len(chain) = 0 /\ 1..Len(chain) = {} /\ 0..Len(chain) = {0}
  BY <1>1
<1> DEFINE D == [i \in {0} |-> First]
<1>4. IsDb(First)
  BY DEF IsDb, First
<1>5. D[0] = First
  OBVIOUS
<1> HIDE DEF D
<1>6. States(D, chain)
  BY <1>3, <1>4, <1>5 DEF States
<1>7. seen \in [Validators -> 0..Len(chain)]
  BY <1>1, <1>3
<1>8. db = [v \in Validators |-> D[seen[v]]]
  BY <1>1, <1>5
<1>9. Written(D) /\ OneEach
  BY <1>1, <1>3 DEF Written, OneEach
<1>10. 0..(First.recorded + Len(events)) \subseteq DOMAIN Configs
  <2>1. PICK sc \in Scenarios : events = sc.events
    BY DEF Init
  <2>2. 0..Len(events) \subseteq DOMAIN Configs
    BY <2>1, TreasuryConstants
  <2>3. First.recorded = 0 /\ 0 + Len(events) = Len(events)
    BY <1>2 DEF First
  <2> QED BY <2>2, <2>3
<1>11. Follow(D)
  BY <1>3, <1>5, <1>6, <1>7, <1>8, <1>9, <1>10 DEF Follow
<1> QED BY <1>2, <1>3, <1>9, <1>11 DEF FollowInv

\* The checkpoints a provider writes from d.
LEMMA WritesDraft ==
  ASSUME NEW d, IsDb(d), NEW v, NEW m, MayCheckpoint(v, d, m), NEW tx \in CheckpointTxs(d, m)
  PROVE  Draft(d, tx)
<1>1. tx.from = Here(d.conf) /\ tx.to = Here(NextConf(d, m)) /\ tx.meta = Metadata(m)
      /\ tx.number = d.count + 1
  BY DEF CheckpointTxs
<1>2. tx.meta.conf = m.conf /\ tx.meta.kill = m.kill
  BY <1>1 DEF Metadata
<1>3. ASSUME tx.to # tx.from
      PROVE  ~tx.meta.kill /\ tx.meta.conf \in (d.conf + 1)..d.recorded /\ tx.to = Here(tx.meta.conf)
  <2>1. ~m.kill /\ m.conf > d.conf /\ NextConf(d, m) = m.conf
    BY <1>1, <1>3 DEF NextConf
  <2>2. d.conf \in Nat /\ d.recorded \in Nat
    BY DEF IsDb
  <2>3. KeepsCommittee(d, m.conf) \/ m.conf \in (d.conf + 1)..d.recorded
    BY <2>1 DEF MayCheckpoint
  <2>4. ~KeepsCommittee(d, m.conf)
    BY <2>1, <2>2 DEF KeepsCommittee
  <2> QED BY <1>1, <1>2, <2>1, <2>3, <2>4
<1> QED BY <1>1, <1>3 DEF Draft

\* A step that leaves the chain and the databases: what it signs or sends is a
\* draft, and it sends no number twice.
LEMMA ChainStays ==
  ASSUME FollowInv, UNCHANGED <<chain, db, seen>>, events' = events, OneEach',
         NEW D, Follow(D),
         \A s \in signed' \ signed : IsCheckpoint(s.tx) => DraftOf(D, s.tx),
         \A tx \in mempool' \ mempool : IsCheckpoint(tx) => DraftOf(D, tx)
  PROVE  FollowInv'
<1>1. Written(D)'
  BY DEF Follow, Written, DraftOf
<1>2. Follow(D)'
  BY <1>1 DEF Follow
<1> QED BY <1>2 DEF FollowInv

LEMMA SignFollow ==
  ASSUME FollowInv, NEW v \in Validators, NEW tx, NEW all, Sign(v, tx, all),
         NEW D, Follow(D), IsCheckpoint(tx) => DraftOf(D, tx)
  PROVE  FollowInv'
<1>1. UNCHANGED <<chain, db, seen, mempool, events>>
  BY DEF Sign, outside
<1>2. ASSUME NEW s \in signed' \ signed PROVE s.tx = tx
  BY DEF Sign
<1>3. OneEach'
  BY <1>1 DEF FollowInv, OneEach
<1>4. \A s \in signed' \ signed : IsCheckpoint(s.tx) => DraftOf(D, s.tx)
  BY <1>2
<1>5. \A t \in mempool' \ mempool : IsCheckpoint(t) => DraftOf(D, t)
  BY <1>1
<1> QED BY <1>1, <1>3, <1>4, <1>5, ChainStays

LEMMA FinalizeFollow ==
  ASSUME FollowInv, NEW v \in Validators, NEW s \in signed, Finalize(v, s.tx)
  PROVE  FollowInv'
<1> DEFINE tx == s.tx
<1>1. PICK D : Follow(D)
  BY DEF FollowInv
<1>2. UNCHANGED <<chain, db, seen, signed, events>> /\ mempool' = mempool \cup {tx}
  BY DEF Finalize
<1>3. IsCheckpoint(tx) => ~Submitted(tx.number)
  BY DEF Finalize, IsCheckpoint
<1>4. IsCheckpoint(tx) => DraftOf(D, tx)
  BY <1>1 DEF Follow, Written
<1>5. PICK S : chain \in Seq(S)
  BY DEF FollowInv
<1>6. DOMAIN chain = 1..Len(chain)
  BY <1>5
<1> HIDE DEF tx
<1>7. ASSUME NEW t \in mempool, NEW u \in mempool', IsCheckpoint(t), IsCheckpoint(u), t.number = u.number
      PROVE  t = u
  <2>1. CASE u \in mempool
    BY <1>7, <2>1 DEF FollowInv, OneEach
  <2>2. CASE u = tx
    BY <1>3, <1>7, <2>2 DEF Submitted, IsCheckpoint
  <2> QED BY <1>2, <2>1, <2>2
<1>8. ASSUME NEW t \in mempool', NEW i \in 1..Len(chain), IsCheckpoint(t), IsCheckpoint(chain[i])
      PROVE  chain[i].number # t.number
  <2>1. CASE t \in mempool
    BY <1>8, <2>1 DEF FollowInv, OneEach
  <2>2. CASE t = tx
    BY <1>3, <1>6, <1>8, <2>2 DEF Submitted, IsCheckpoint
  <2> QED BY <1>2, <2>1, <2>2
<1>9. OneEach'
  BY <1>2, <1>7, <1>8 DEF OneEach
<1>10. \A t \in signed' \ signed : IsCheckpoint(t.tx) => DraftOf(D, t.tx)
  BY <1>2
<1>11. \A t \in mempool' \ mempool : IsCheckpoint(t) => DraftOf(D, t)
  BY <1>2, <1>4
<1> QED BY <1>1, <1>2, <1>9, <1>10, <1>11, ChainStays

LEMMA HandleFollow ==
  ASSUME FollowInv, NEW v \in Validators, Handle(v)
  PROVE  FollowInv'
<1>1. PICK D : Follow(D)
  BY DEF FollowInv
<1>2. UNCHANGED <<chain, signed, mempool, events>>
  BY DEF Handle, outside
<1>3. PICK S : chain \in Seq(S)
  BY DEF FollowInv
<1>4. Len(chain) \in Nat /\ seen[v] \in 0..Len(chain) /\ seen[v] < Len(chain)
  BY <1>1, <1>3 DEF Handle, Follow
<1>5. seen' = [seen EXCEPT ![v] = seen[v] + 1]
  BY DEF Handle
<1>6. seen' \in [Validators -> 0..Len(chain)]
  BY <1>1, <1>4, <1>5 DEF Follow
<1>7. db' = [db EXCEPT ![v] = Handled(db[v], chain[seen[v] + 1])]
  BY DEF Handle
<1>8. db[v] = D[seen[v]]
  BY <1>1 DEF Follow
<1>9. D[seen[v] + 1] = Handled(D[seen[v]], chain[seen[v] + 1])
  <2>1. seen[v] + 1 \in 1..Len(chain) /\ (seen[v] + 1) - 1 = seen[v]
    BY <1>4
  <2>2. \A i \in 1..Len(chain) : D[i] = Handled(D[i - 1], chain[i])
    BY <1>1 DEF Follow, States
  <2> QED BY <2>1, <2>2
<1>10. db' = [u \in Validators |-> D[seen'[u]]]
  <2>1. db = [u \in Validators |-> D[seen[u]]] /\ seen \in [Validators -> 0..Len(chain)]
    BY <1>1 DEF Follow
  <2>2. db' = [db EXCEPT ![v] = D[seen[v] + 1]]
    BY <1>7, <1>8, <1>9
  <2>3. \A u \in Validators : db'[u] = D[seen'[u]]
    BY <1>5, <2>1, <2>2
  <2>4. DOMAIN db' = Validators /\ db' = [u \in DOMAIN db' |-> db'[u]]
    BY <2>1, <2>2
  <2> QED BY <2>3, <2>4
<1>11. Written(D)' /\ States(D, chain')
  BY <1>1, <1>2 DEF Follow, Written, DraftOf
<1>12. Follow(D)'
  BY <1>1, <1>2, <1>6, <1>10, <1>11 DEF Follow
<1> QED BY <1>2, <1>12 DEF FollowInv, OneEach

\* The chain grows: by a stake change, a vote, or a checkpoint that was written
\* for the committee in force.
LEMMA GrowFollow ==
  ASSUME FollowInv, NEW x, IsItem(x), chain' = Append(chain, x), UNCHANGED <<db, seen, signed>>,
         mempool' \subseteq mempool, events' \in Seq({"change", "mark"}), OneEach',
         Len(events') + (IF IsCheckpoint(x) THEN 0 ELSE 1) = Len(events),
         NEW D, Follow(D), IsCheckpoint(x) => Draft(D[Len(chain)], x)
  PROVE  FollowInv'
<1> DEFINE L == Len(chain)
<1>1. PICK S : chain \in Seq(S)
  BY DEF FollowInv
<1>2. PICK E : /\ States(E, chain')
               /\ \A i \in 0..L : E[i] = D[i]
               /\ Len(chain') = L + 1
               /\ chain' \in Seq(S \cup {x})
               /\ \A i \in 1..L : chain'[i] = chain[i]
               /\ chain'[L + 1] = x
  <2>1. States(D, chain)
    BY DEF Follow
  <2>2. \E E : Longer(D, chain, S, E, chain', x)
    BY <1>1, <2>1, StatesExtend
  <2> QED BY <2>2 DEF Longer
<1>3. L \in Nat
  BY <1>1
<1> HIDE DEF L
<1>4. ASSUME NEW tx, DraftOf(D, tx) PROVE DraftOf(E, tx)'
  <2>1. PICK j \in 0..L : Draft(D[j], tx)
    BY <1>4 DEF DraftOf, L
  <2>2. j \in 0..Len(chain') /\ E[j] = D[j]
    BY <1>2, <1>3
  <2> QED BY <2>1, <2>2 DEF DraftOf
<1>5. \A s \in signed' : IsCheckpoint(s.tx) => DraftOf(E, s.tx)'
  BY <1>4 DEF Follow, Written
<1>6. \A tx \in mempool' : IsCheckpoint(tx) => DraftOf(E, tx)'
  BY <1>4 DEF Follow, Written
<1>7. ASSUME NEW i \in 1..Len(chain'), IsCheckpoint(chain'[i]) PROVE Draft(E[i - 1], chain'[i])
  <2>1. CASE i = L + 1
    <3>1. i - 1 = L /\ L \in 0..L
      BY <1>3, <2>1
    <3> QED BY <1>2, <1>7, <2>1, <3>1 DEF L
  <2>2. CASE i # L + 1
    <3>1. i \in 1..L /\ i - 1 \in 0..L
      BY <1>2, <1>3, <2>2
    <3>2. Draft(D[i - 1], chain[i])
      BY <1>2, <1>7, <3>1 DEF Follow, Written, L
    <3> QED BY <1>2, <3>1, <3>2
  <2> QED BY <2>1, <2>2
<1>8. Written(E)'
  BY <1>5, <1>6, <1>7 DEF Written, DraftOf
<1>9. seen' \in [Validators -> 0..Len(chain')] /\ db' = [v \in Validators |-> E[seen'[v]]]
  <2>1. seen \in [Validators -> 0..L] /\ db = [v \in Validators |-> D[seen[v]]]
    BY DEF Follow, L
  <2>2. 0..L \subseteq 0..Len(chain')
    BY <1>2, <1>3
  <2> QED BY <1>2, <2>1, <2>2
<1>12. ASSUME NEW i \in 0..Len(chain') PROVE 0..(E[i].recorded + Len(events')) \subseteq DOMAIN Configs
  <2>1. Len(events') \in Nat /\ Len(events) \in Nat /\ Len(events') <= Len(events)
    BY DEF FollowInv
  <2>2. \A j \in 0..L : /\ D[j].recorded \in Nat /\ IsDb(D[j])
                       /\ 0..(D[j].recorded + Len(events)) \subseteq DOMAIN Configs
    BY DEF Follow, States, IsDb, L
  <2>3. CASE i = L + 1
    <3>1. L \in 0..L /\ E[i] = Handled(D[L], x) /\ IsDb(D[L])
      <4>1. L \in 0..L /\ L + 1 \in 1..Len(chain') /\ (L + 1) - 1 = L
        BY <1>2, <1>3
      <4>2. E[L + 1] = Handled(E[L], x)
        BY <1>2, <4>1 DEF States
      <4> QED BY <1>2, <2>2, <2>3, <4>1, <4>2
    <3>2. E[i].recorded \in Nat /\ E[i].recorded + Len(events') <= D[L].recorded + Len(events)
      <4>1. CASE IsCheckpoint(x)
        <5>1. E[i].recorded = D[L].recorded
          BY <3>1, <4>1, HandledCheckpoint DEF IsCheckpoint
        <5> QED BY <2>1, <2>2, <3>1, <5>1
      <4>2. CASE ~IsCheckpoint(x)
        <5>1. x.kind \in {"change", "mark"} /\ Len(events') + 1 = Len(events)
          BY <4>2 DEF IsItem, IsCheckpoint
        <5>2. IsDb(E[i]) /\ E[i].recorded <= D[L].recorded + 1
          BY <3>1, <5>1, HandledOther
        <5>3. E[i].recorded \in Nat
          BY <5>2 DEF IsDb
        <5> QED BY <2>1, <2>2, <3>1, <5>1, <5>2, <5>3
      <4> QED BY <4>1, <4>2
    <3> QED BY <2>1, <2>2, <3>1, <3>2
  <2>4. CASE i # L + 1
    <3>1. i \in 0..L /\ E[i] = D[i]
      BY <1>2, <1>3, <2>4
    <3> QED BY <2>1, <2>2, <3>1
  <2> QED BY <2>3, <2>4
<1>10. Follow(E)'
  BY <1>2, <1>8, <1>9, <1>12 DEF Follow
<1>11. \A i \in 1..Len(chain') : IsItem(chain'[i])
  <2> SUFFICES ASSUME NEW i \in 1..Len(chain') PROVE IsItem(chain'[i])
    OBVIOUS
  <2>1. i = L + 1 \/ i \in 1..L
    BY <1>2, <1>3
  <2> QED BY <1>2, <2>1 DEF FollowInv, L
<1> QED BY <1>2, <1>10, <1>11 DEF FollowInv

LEMMA HappensFollow == ASSUME FollowInv, Happens PROVE FollowInv'
<1> DEFINE x == [kind |-> Head(events)]
<1>1. PICK D : Follow(D)
  BY DEF FollowInv
<1>2. events \in Seq({"change", "mark"}) /\ events # <<>>
  BY DEF FollowInv, Happens
<1>3. Head(events) \in {"change", "mark"} /\ events' \in Seq({"change", "mark"})
  BY <1>2 DEF Happens
<1>4. IsItem(x) /\ ~IsCheckpoint(x)
  BY <1>3 DEF IsItem, IsCheckpoint
<1>5. chain' = Append(chain, x) /\ UNCHANGED <<db, seen, signed, mempool>>
  BY DEF Happens
<1> HIDE DEF x
<1>6. PICK S : chain \in Seq(S)
  BY DEF FollowInv
<1>7. \A i \in 1..Len(chain') : (chain'[i] = x \/ (i \in 1..Len(chain) /\ chain'[i] = chain[i]))
  BY <1>5, <1>6
<1>8. OneEach'
  BY <1>4, <1>5, <1>7 DEF FollowInv, OneEach
<1>9. Len(events') + (IF IsCheckpoint(x) THEN 0 ELSE 1) = Len(events)
  BY <1>2, <1>4 DEF Happens
<1> QED BY <1>1, <1>3, <1>4, <1>5, <1>8, <1>9, GrowFollow

LEMMA ConfirmFollow == ASSUME FollowInv, NEW tx \in mempool, Confirm(tx) PROVE FollowInv'
<1> DEFINE L == Len(chain)
<1>1. PICK D : Follow(D)
  BY DEF FollowInv
<1>2. UNCHANGED <<db, seen, signed, events>> /\ mempool' = mempool \ {tx}
  BY DEF Confirm, outside
<1>3. CASE ~IsCheckpoint(tx)
  <2>1. chain' = chain
    BY <1>3 DEF Confirm, IsCheckpoint
  <2>2. OneEach'
    BY <1>2, <2>1 DEF FollowInv, OneEach
  <2>3. \A s \in signed' \ signed : IsCheckpoint(s.tx) => DraftOf(D, s.tx)
    BY <1>2
  <2>4. \A t \in mempool' \ mempool : IsCheckpoint(t) => DraftOf(D, t)
    BY <1>2
  <2> QED BY <1>1, <1>2, <2>1, <2>2, <2>3, <2>4, ChainStays
<1>4. CASE IsCheckpoint(tx)
  <2>1. chain' = Append(chain, tx) /\ IsItem(tx)
    BY <1>4 DEF Confirm, IsCheckpoint, IsItem
  <2>2. PICK S : chain \in Seq(S)
    BY DEF FollowInv
  <2>3. L \in Nat
    BY <2>2
  <2>4. \A i \in 1..Len(chain') : (chain'[i] = tx \/ (i \in 1..Len(chain) /\ chain'[i] = chain[i]))
    BY <2>1, <2>2
  <2>5. OneEach'
    BY <1>2, <1>4, <2>4 DEF FollowInv, OneEach
  <2>6. PICK j \in 0..L : Draft(D[j], tx)
    BY <1>1, <1>4 DEF Follow, Written, DraftOf
  <2>7. States(D, chain)
    BY <1>1 DEF Follow
  <2>8. L \in j..L
    BY <2>3
  <2>9. Quiet(D, chain, j, L)
    <3> SUFFICES ASSUME NEW n \in (j + 1)..L, Same(D[j], D[n - 1])
        PROVE  chain[n].kind \in {"change", "mark"}
      BY DEF Quiet
    <3>1. n \in 1..L
      BY <2>3
    <3>2. SUFFICES ASSUME IsCheckpoint(chain[n]) PROVE FALSE
      BY <3>1 DEF FollowInv, IsItem, IsCheckpoint
    <3>3. Draft(D[n - 1], chain[n])
      BY <1>1, <3>1, <3>2 DEF Follow, Written
    <3>4. chain[n].number = tx.number
      BY <2>6, <3>3 DEF Draft, Same
    <3> QED BY <1>4, <3>1, <3>2, <3>4 DEF FollowInv, OneEach
  <2> HIDE DEF L
  <2>10. Same(D[j], D[L])
    BY <2>3, <2>7, <2>8, <2>9, QuietIsSame DEF L
  <2>11. IsDb(D[j]) /\ IsDb(D[L])
    BY <2>3, <2>7 DEF States, L
  <2>12. Draft(D[L], tx)
    BY <2>6, <2>10, <2>11, DraftStays
  <2>13. mempool' \subseteq mempool /\ events' \in Seq({"change", "mark"})
    BY <1>2 DEF FollowInv
  <2>14. Len(events') + (IF IsCheckpoint(tx) THEN 0 ELSE 1) = Len(events)
    BY <1>2, <1>4 DEF FollowInv
  <2> QED BY <1>1, <1>2, <2>1, <2>5, <2>12, <2>13, <2>14, GrowFollow DEF L
<1> QED BY <1>3, <1>4

LEMMA StepFollow == ASSUME FollowInv, [Next]_vars PROVE FollowInv'
<1>1. PICK D : Follow(D)
  BY DEF FollowInv
<1>2. ASSUME UNCHANGED <<chain, db, seen, events, signed, mempool>> PROVE FollowInv'
  <2>1. OneEach'
    BY <1>2 DEF FollowInv, OneEach
  <2> QED BY <1>1, <1>2, <2>1, ChainStays
<1>3. ASSUME NEW v \in Validators, Deposit(v) PROVE FollowInv'
  BY <1>2, <1>3 DEF Deposit
<1>4. ASSUME NEW v \in Validators, GenCheckpoint(v) PROVE FollowInv'
  <2>0. PICK m : MayCheckpoint(v, db[v], m) /\
                 \E tx \in CheckpointTxs(db[v], m) : Sign(v, tx, m.kill \/ tx.to # tx.from)
    BY <1>4 DEF GenCheckpoint
  <2>1. PICK tx \in CheckpointTxs(db[v], m) : Sign(v, tx, m.kill \/ tx.to # tx.from)
    BY <2>0
  <2>2. seen[v] \in 0..Len(chain) /\ db[v] = D[seen[v]] /\ IsDb(db[v])
    BY <1>1 DEF Follow, States
  <2>3. Draft(db[v], tx)
    BY <2>0, <2>1, <2>2, WritesDraft
  <2>4. DraftOf(D, tx)
    BY <2>2, <2>3 DEF DraftOf
  <2> QED BY <1>1, <2>1, <2>4, SignFollow
<1>5. ASSUME NEW v \in Validators, GenBootstrapHandover(v) PROVE FollowInv'
  <2> DEFINE built == ConstructSpend(Unspent(WhitelistAddress), TRUE, <<>>, Here(db[v].conf), 0)
             tx == [kind |-> "handover", from |-> WhitelistAddress,
                    ins |-> {c.id : c \in built.ins}, outs |-> built.outs,
                    spent |-> Total(built.ins), to |-> Here(db[v].conf)]
  <2>1. Sign(v, tx, FALSE) /\ tx.kind = "handover"
    BY <1>5 DEF GenBootstrapHandover
  <2> HIDE DEF tx
  <2>2. ~IsCheckpoint(tx)
    BY <2>1 DEF IsCheckpoint
  <2> QED BY <1>1, <2>1, <2>2, SignFollow
<1>6. ASSUME NEW v \in Validators, NEW out \in spends, GenMultisigSpend(v, out) PROVE FollowInv'
  <2> DEFINE here == Here(db[v].conf)
             built == ConstructSpend(Unspent(here), FALSE, <<out>>, here, 0)
             tx == [kind |-> "spend", from |-> here, ins |-> {c.id : c \in built.ins},
                    outs |-> built.outs, spent |-> Total(built.ins), to |-> here]
  <2>1. Sign(v, tx, FALSE) /\ tx.kind = "spend"
    BY <1>6 DEF GenMultisigSpend
  <2> HIDE DEF tx
  <2>2. ~IsCheckpoint(tx)
    BY <2>1 DEF IsCheckpoint
  <2> QED BY <1>1, <2>1, <2>2, SignFollow
<1>7. ASSUME NEW v \in Validators, NEW s \in signed, Finalize(v, s.tx) PROVE FollowInv'
  BY <1>7, FinalizeFollow
<1>8. ASSUME NEW v \in Validators, Handle(v) PROVE FollowInv'
  BY <1>8, HandleFollow
<1>9. ASSUME NEW tx \in mempool, Confirm(tx) PROVE FollowInv'
  BY <1>9, ConfirmFollow
<1>10. ASSUME NEW tx \in reveals, ConfirmReveal(tx) PROVE FollowInv'
  BY <1>2, <1>10 DEF ConfirmReveal, outside
<1>11. CASE SendReveal
  BY <1>2, <1>11 DEF SendReveal, outside
<1>12. CASE Stop
  BY <1>2, <1>12 DEF Stop, outside
<1>13. CASE UNCHANGED vars
  BY <1>2, <1>13 DEF vars, outside
<1> QED BY <1>3, <1>4, <1>5, <1>6, <1>7, <1>8, <1>9, <1>10, <1>11, <1>12, <1>13, HappensFollow DEF Next

\* The databases are states of one history, and what was written is fit for it.
THEOREM CommitteeHistory == Spec => []FollowInv
<1>1. FollowInv /\ [Next]_vars => FollowInv'
  BY StepFollow
<1> QED BY <1>1, InitFollow, PTL DEF Spec

LEMMA FollowFunds == FollowInv => FundsFollowCommittee
<1> SUFFICES ASSUME FollowInv, NEW v \in Validators, NEW i \in 1..seen[v], IsCheckpoint(chain[i]),
                    chain[i].to # chain[i].from, Recognised(chain[i]),
                    \A j \in (i + 1)..seen[v] : ~IsCheckpoint(chain[j])
             PROVE  Here(db[v].conf) = chain[i].to
  BY DEF FundsFollowCommittee, IsCheckpoint
<1> DEFINE b == seen[v]
<1>1. PICK D : Follow(D)
  BY DEF FollowInv
<1>2. PICK S : chain \in Seq(S)
  BY DEF FollowInv
<1>3. Len(chain) \in Nat /\ b \in 0..Len(chain) /\ db[v] = D[b] /\ States(D, chain)
  BY <1>1, <1>2 DEF Follow
<1> HIDE DEF b
<1>4. i \in 1..Len(chain) /\ i - 1 \in 0..Len(chain) /\ i \in 0..Len(chain) /\ b \in i..Len(chain)
  BY <1>3 DEF b
<1>5. D[i] = Handled(D[i - 1], chain[i]) /\ IsDb(D[i - 1])
  BY <1>3, <1>4 DEF States
<1>6. Draft(D[i - 1], chain[i])
  BY <1>1, <1>4 DEF Follow, Written
<1>7. /\ ~chain[i].meta.kill /\ chain[i].to = Here(chain[i].meta.conf)
      /\ chain[i].meta.conf \in (D[i - 1].conf + 1)..D[i - 1].recorded
  BY <1>6 DEF Draft
<1>8. Here(D[i].conf) = chain[i].to
  BY <1>5, <1>7, HandledCheckpoint DEF IsCheckpoint
<1>9. Quiet(D, chain, i, b)
  BY <1>3, <1>4 DEF Quiet, FollowInv, IsItem, IsCheckpoint, b
<1>10. Same(D[i], D[b])
  BY <1>3, <1>4, <1>9, QuietIsSame
<1> QED BY <1>3, <1>8, <1>10 DEF Same

\* FundsFollowCommittee: the multisig a recognised rotation paid to is the one
\* every monitor that has handled it takes for the committee, until the next
\* checkpoint.
THEOREM FundsFollow == Spec => []FundsFollowCommittee
BY CommitteeHistory, FollowFunds, PTL

----------------------------------------------------------------------------
(* Outputs, and what they add up to.                                       *)

IsOuts(outs) == (\E S : outs \in Seq(S)) /\ \A i \in 1..Len(outs) : outs[i].value \in Int

LEMMA OutsFunction ==
  ASSUME NEW n \in Nat, NEW f, f = [i \in 1..n |-> f[i]], \A i \in 1..n : f[i].value \in Int
  PROVE  IsOuts(f) /\ Len(f) = n
<1> DEFINE S == {f[i] : i \in 1..n}
<1>1. f \in [1..n -> S]
  <2>1. \A i \in 1..n : f[i] \in S
    OBVIOUS
  <2> HIDE DEF S
  <2> QED BY <2>1
<1> HIDE DEF S
<1>2. f \in Seq(S) /\ Len(f) = n
  BY <1>1
<1> QED BY <1>2 DEF IsOuts

LEMMA OutsConcat == ASSUME NEW a, NEW b, IsOuts(a), IsOuts(b) PROVE IsOuts(a \o b)
<1>1. PICK S : a \in Seq(S)
  BY DEF IsOuts
<1>2. PICK T : b \in Seq(T)
  BY DEF IsOuts
<1>3. a \in Seq(S \cup T) /\ b \in Seq(S \cup T)
  BY <1>1, <1>2
<1>4. a \o b \in Seq(S \cup T) /\ Len(a \o b) = Len(a) + Len(b) /\ Len(a) \in Nat /\ Len(b) \in Nat
  BY <1>3
<1>5. ASSUME NEW i \in 1..Len(a \o b) PROVE (a \o b)[i].value \in Int
  <2>1. (a \o b)[i] = IF i <= Len(a) THEN a[i] ELSE b[i - Len(a)]
    BY <1>3, <1>4
  <2>2. CASE i <= Len(a)
    <3>1. i \in 1..Len(a)
      BY <1>4, <2>2
    <3> QED BY <2>1, <2>2, <3>1 DEF IsOuts
  <2>3. CASE ~(i <= Len(a))
    <3>1. i - Len(a) \in 1..Len(b)
      BY <1>4, <2>3
    <3> QED BY <2>1, <2>3, <3>1 DEF IsOuts
  <2> QED BY <2>2, <2>3
<1> QED BY <1>4, <1>5 DEF IsOuts

LEMMA OutsOne == ASSUME NEW o, o.value \in Int PROVE IsOuts(<<o>>)
<1> DEFINE t == <<o>>
<1>1. t \in Seq({o}) /\ Len(t) = 1 /\ t[1] = o
  OBVIOUS
<1> HIDE DEF t
<1>2. \A i \in 1..Len(t) : t[i].value \in Int
  BY <1>1
<1>3. IsOuts(t)
  BY <1>1, <1>2 DEF IsOuts
<1> QED BY <1>3 DEF t

LEMMA OutsEmpty == IsOuts(<<>>)
<1>1. <<>> \in Seq({}) /\ Len(<<>>) = 0
  OBVIOUS
<1> QED BY <1>1 DEF IsOuts

LEMMA PaidInt ==
  ASSUME NEW outs, IsOuts(outs)
  PROVE  Paid(outs) \in Int /\ Len(outs) \in Nat /\ DOMAIN outs = 1..Len(outs)
<1> DEFINE f == [i \in DOMAIN outs |-> outs[i].value]
<1>1. PICK S : outs \in Seq(S)
  BY DEF IsOuts
<1>2. Len(outs) \in Nat /\ DOMAIN outs = 1..Len(outs)
  BY <1>1
<1>3. IsFiniteSet(DOMAIN outs)
  BY <1>2, FS_Interval
<1>4. Ints(f, DOMAIN outs)
  BY <1>2 DEF IsOuts, Ints
<1> HIDE DEF f
<1>5. SumFunctionOnSet(f, DOMAIN outs) \in Int
  BY <1>3, <1>4, SumInt
<1> QED BY <1>2, <1>5 DEF Paid, f

LEMMA PaidAppend ==
  ASSUME NEW outs, IsOuts(outs), NEW o, o.value \in Int
  PROVE  /\ IsOuts(Append(outs, o)) /\ Len(Append(outs, o)) = Len(outs) + 1
         /\ Paid(Append(outs, o)) = Paid(outs) + o.value
<1> DEFINE n == Len(outs)
           new == Append(outs, o)
           f == [i \in DOMAIN outs |-> outs[i].value]
           g == [i \in DOMAIN new |-> new[i].value]
<1>1. PICK S : outs \in Seq(S)
  BY DEF IsOuts
<1>2. n \in Nat /\ DOMAIN outs = 1..n /\ new \in Seq(S \cup {o}) /\ Len(new) = n + 1
      /\ DOMAIN new = 1..(n + 1) /\ (\A i \in 1..n : new[i] = outs[i]) /\ new[n + 1] = o
  <2>1. outs \in Seq(S \cup {o})
    BY <1>1
  <2> QED BY <1>1, <2>1
<1> HIDE DEF n, new
<1>3. ASSUME NEW i \in 1..(n + 1) PROVE new[i].value \in Int
  <2>1. i \in 1..n \/ i = n + 1
    BY <1>2
  <2> QED BY <1>2, <2>1 DEF IsOuts, n
<1>4. IsOuts(new)
  BY <1>2, <1>3 DEF IsOuts
<1>5. Ints(g, 1..(n + 1)) /\ Ints(f, 1..n) /\ (\A i \in 1..n : f[i] = g[i]) /\ g[n + 1] = o.value
  <2>1. \A i \in 1..n : i \in 1..(n + 1)
    BY <1>2
  <2>2. n + 1 \in 1..(n + 1)
    BY <1>2
  <2> QED BY <1>2, <1>3, <2>1, <2>2 DEF Ints
<1>6. IsFiniteSet(1..n)
  BY <1>2, FS_Interval
<1> HIDE DEF f, g
<1>7. SumFunctionOnSet(g, 1..(n + 1)) = SumFunctionOnSet(g, 1..n) + o.value
  BY <1>2, <1>5, SumLast
<1>8. SumFunctionOnSet(g, 1..n) = SumFunctionOnSet(f, 1..n)
  BY <1>5, <1>6, SumSame
<1>9. Paid(new) = SumFunctionOnSet(g, 1..(n + 1)) /\ Paid(outs) = SumFunctionOnSet(f, 1..n)
  BY <1>2 DEF Paid, f, g
<1> QED BY <1>2, <1>4, <1>7, <1>8, <1>9 DEF n, new

\* A set of coins.
IsCoins(S) ==
  /\ IsFiniteSet(S)
  /\ \A c \in S : c.value \in Int /\ c.id \in Int
  /\ \A c, e \in S : c.id = e.id => c = e

LEMMA CoinsPart == ASSUME NEW S, IsCoins(S), NEW T, T \subseteq S PROVE IsCoins(T)
BY FS_Subset DEF IsCoins

LEMMA TotalInt == ASSUME NEW S, IsCoins(S) PROVE Total(S) \in Int /\ Cardinality(S) \in Nat
<1> DEFINE f == [c \in S |-> c.value]
<1>1. Ints(f, S) /\ IsFiniteSet(S)
  BY DEF Ints, IsCoins
<1> HIDE DEF f
<1>2. SumFunctionOnSet(f, S) \in Int
  BY <1>1, SumInt
<1> QED BY <1>1, <1>2, FS_CardinalityType DEF Total, f

\* As many ids as coins.
LEMMA AsManyIds ==
  ASSUME NEW S, IsCoins(S)
  PROVE  Cardinality({c.id : c \in S}) = Cardinality(S)
<1> DEFINE T == {c.id : c \in S}
           f == [c \in S |-> c.id]
<1>1. f \in Bijection(S, T)
  BY DEF IsCoins, Bijection, Injection, Surjection, IsInjective
<1>2. ExistsBijection(S, T)
  BY <1>1 DEF ExistsBijection
<1> HIDE DEF T
<1> QED BY <1>2, FS_Bijection DEF IsCoins, T

----------------------------------------------------------------------------
(* The transactions that pay outputs from coins.                           *)

\* The bounds of FeesCovered.
FeeOK(surplus, outs, ins) == surplus >= Fee(outs, ins) /\ surplus <= Fee(outs + 1, ins) + Dust

\* t takes ins and pays a fair fee.
Spends(t, ins) ==
  t.ok /\ t.ins = ins /\ IsOuts(t.outs) /\ FeeOK(Total(ins) - Paid(t.outs), Len(t.outs), Cardinality(ins))

LEMMA FeeGrows ==
  ASSUME NEW l \in Nat, NEW n \in Nat
  PROVE  Fee(l, n) \in Int /\ Fee(l + 1, n) = Fee(l, n) + OutFee /\ OutFee \in Nat /\ Dust \in Nat
<1>1. BaseFee \in Nat /\ OutFee \in Nat /\ InFee \in Nat /\ Dust \in Nat
  BY SpendingConstants
<1>2. OutFee * l \in Int /\ InFee * n \in Int /\ OutFee * (l + 1) = OutFee * l + OutFee
  BY <1>1
<1> QED BY <1>1, <1>2 DEF Fee

LEMMA ChangeIsFair ==
  ASSUME NEW ins, IsCoins(ins), NEW outs, IsOuts(outs), Covers(ins, outs), NEW change
  PROVE  Spends(WithChange(ins, outs, Total(ins) - Paid(outs) - FeeFor(ins, outs), change), ins)
<1> DEFINE T == Total(ins)
           P == Paid(outs)
           l == Len(outs)
           n == Cardinality(ins)
           F == FeeFor(ins, outs)
           rest == T - P - F
           t == WithChange(ins, outs, rest, change)
<1>1. T \in Int /\ n \in Nat /\ P \in Int /\ l \in Nat
  BY TotalInt, PaidInt
<1>2. /\ Fee(l, n) \in Int /\ Fee(l + 1, n) \in Int /\ Fee((l + 1) + 1, n) \in Int
      /\ Fee(l + 1, n) = Fee(l, n) + OutFee /\ Fee((l + 1) + 1, n) = Fee(l + 1, n) + OutFee
      /\ OutFee \in Nat /\ Dust \in Nat
  <2> HIDE DEF l, n
  <2>1. l + 1 \in Nat /\ (l + 1) + 1 \in Nat
    BY <1>1
  <2> QED BY <1>1, <2>1, FeeGrows
<1>3. F = Fee(l + 1, n) /\ T >= P + F
  BY DEF FeeFor, Covers
<1> HIDE DEF T, P, l, n, F
<1>4. rest \in Int /\ rest >= 0
  BY <1>1, <1>2, <1>3
<1>5. CASE rest > Dust
  <2> DEFINE o == Pay(change, rest)
  <2>1. o.value = rest
    BY DEF Pay
  <2>2. t = Built(ins, Append(outs, o))
    BY <1>5 DEF WithChange
  <2> HIDE DEF rest, o
  <2>3. IsOuts(Append(outs, o)) /\ Len(Append(outs, o)) = l + 1 /\ Paid(Append(outs, o)) = P + rest
    BY <1>4, <2>1, PaidAppend DEF P, l
  <2>4. t.ok /\ t.ins = ins /\ t.outs = Append(outs, o)
    BY <2>2 DEF Built
  <2>5. T - (P + rest) = F
    BY <1>1, <1>2, <1>3 DEF rest
  <2>6. FeeOK(F, l + 1, n)
    BY <1>2, <1>3 DEF FeeOK
  <2>7. FeeOK(Total(ins) - Paid(t.outs), Len(t.outs), Cardinality(ins))
    BY <2>3, <2>4, <2>5, <2>6 DEF T, n
  <2> QED BY <2>3, <2>4, <2>7 DEF Spends, rest, T, P, F
<1>6. CASE ~(rest > Dust)
  <2>1. t = Built(ins, outs)
    BY <1>6 DEF WithChange
  <2>2. t.ok /\ t.ins = ins /\ t.outs = outs
    BY <2>1 DEF Built
  <2>3. FeeOK(T - P, l, n)
    BY <1>1, <1>2, <1>3, <1>6 DEF FeeOK
  <2>4. FeeOK(Total(ins) - Paid(t.outs), Len(t.outs), Cardinality(ins))
    BY <2>2, <2>3 DEF T, n, P, l
  <2> QED BY <2>2, <2>4 DEF Spends, T, P, F
<1> QED BY <1>5, <1>6

LEMMA ExhaustSpends ==
  ASSUME NEW S, IsCoins(S), NEW outs, IsOuts(outs), NEW change, Exhaust(S, outs, change).ok
  PROVE  Spends(Exhaust(S, outs, change), S)
<1>1. ~Failed.ok
  BY DEF Failed
<1>2. Covers(S, outs) /\ Exhaust(S, outs, change)
                          = WithChange(S, outs, Total(S) - Paid(outs) - FeeFor(S, outs), change)
  BY <1>1 DEF Exhaust
<1> QED BY <1>2, ChangeIsFair

\* The largest number of a set that has one and a bound.
LEMMA MaxIsIn ==
  ASSUME NEW n \in Nat, NEW S, S \subseteq 0..n, S # {}
  PROVE  Max(S) \in S /\ \A y \in S : Max(S) >= y
<1> DEFINE N == {k \in Nat : n - k \in S}
<1>1. PICK a : a \in S
  OBVIOUS
<1>2. n - a \in N
  BY <1>1
<1>3. PICK k \in N : \A j \in N : ~(<<j, k>> \in OpToRel(<, Nat))
  <2>1. N \subseteq Nat /\ N # {}
    BY <1>2
  <2> HIDE DEF N
  <2> QED BY <2>1, NatLessThanWellFounded, WFMin
<1>4. \A y \in S : n - k >= y
  <2> SUFFICES ASSUME NEW y \in S, ~(n - k >= y) PROVE FALSE
    OBVIOUS
  <2>1. n - y \in N /\ n - y < k /\ k \in Nat
    OBVIOUS
  <2> QED BY <1>3, <2>1 DEF OpToRel
<1>5. n - k \in S
  OBVIOUS
<1> HIDE DEF N
<1> QED BY <1>4, <1>5 DEF Max

LEMMA MinIsIn ==
  ASSUME NEW S, S \subseteq Nat, S # {}
  PROVE  Min(S) \in S
<1>1. PICK k \in S : \A j \in S : ~(<<j, k>> \in OpToRel(<, Nat))
  BY NatLessThanWellFounded, WFMin
<1>2. ASSUME NEW j \in S PROVE k =< j
  <2>1. j \in Nat /\ k \in Nat
    OBVIOUS
  <2>2. ~(j < k)
    BY <1>1, <2>1 DEF OpToRel
  <2> QED BY <2>1, <2>2
<1> QED BY <1>2 DEF Min

LEMMA RankBound ==
  ASSUME NEW S, IsCoins(S), NEW c \in S
  PROVE  Rank(S, c) \in 1..Cardinality(S)
<1> DEFINE B == {d \in S : Before(d, c)}
<1>1. c \notin B
  BY DEF Before, IsCoins
<1>2. B \subseteq S \ {c} /\ IsFiniteSet(S) /\ IsFiniteSet(S \ {c}) /\ Cardinality(S) \in Nat
  BY <1>1, FS_Subset, FS_CardinalityType DEF IsCoins
<1>3. Cardinality(S \ {c}) = Cardinality(S) - 1
  BY <1>2, FS_RemoveElement
<1> HIDE DEF B
<1>4. Cardinality(B) \in Nat /\ Cardinality(B) <= Cardinality(S \ {c})
  BY <1>2, FS_Subset, FS_CardinalityType
<1>5. Rank(S, c) = Cardinality(B) + 1
  BY DEF Rank, B
<1> QED BY <1>2, <1>3, <1>4, <1>5

LEMMA SelectSpends ==
  ASSUME NEW S, IsCoins(S), NEW outs, IsOuts(outs), NEW change, NEW limit \in Nat,
         SelectCoins(S, outs, change, limit).ok
  PROVE  \E ins \in SUBSET S : Spends(SelectCoins(S, outs, change, limit), ins)
<1> DEFINE n == Cardinality(S)
           F(k) == {c \in S : Rank(S, c) <= k}
           enough == {k \in 1..n : Covers(F(k), outs)}
           needed == Min(enough)
           C(j) == F(needed) \cup {c \in S : Rank(S, c) > n - j}
           J == {j \in 0..Min({limit, n - needed}) : \A i \in 1..j : Sweeps(C(i), outs)}
           ins == C(Max(J))
<1>1. ~Failed.ok
  BY DEF Failed
<1>2. enough # {} /\ SelectCoins(S, outs, change, limit)
                       = WithChange(ins, outs, Total(ins) - Paid(outs) - FeeFor(ins, outs), change)
  BY <1>1 DEF SelectCoins
<1>3. n \in Nat
  BY TotalInt
<1>4. needed \in enough
  <2> HIDE DEF n
  <2>1. enough \subseteq Nat
    BY <1>3
  <2> HIDE DEF enough
  <2> QED BY <1>2, <2>1, MinIsIn
<1>5. needed \in 1..n /\ Covers(F(needed), outs)
  BY <1>4
<1>6. ins \subseteq S
  OBVIOUS
<1> HIDE DEF needed, n
<1>7. Max(J) \in J
  <2> DEFINE b == Min({limit, n - needed})
  <2>1. {limit, n - needed} \subseteq Nat /\ {limit, n - needed} # {}
    BY <1>3, <1>5
  <2>2. b \in {limit, n - needed}
    <3> HIDE DEF b
    <3> QED BY <2>1, MinIsIn DEF b
  <2>3. b \in Nat
    BY <2>1, <2>2
  <2> HIDE DEF b
  <2>4. 0 \in J
    BY <2>3 DEF b
  <2>5. J \subseteq 0..b
    BY DEF b
  <2> HIDE DEF J
  <2> QED BY <2>3, <2>4, <2>5, MaxIsIn
<1>8. Covers(ins, outs)
  <2> DEFINE j == Max(J)
  <2>1. j \in Nat /\ \A i \in 1..j : Sweeps(C(i), outs)
    BY <1>7
  <2> HIDE DEF j, J
  <2>2. CASE j = 0
    <3>1. {c \in S : Rank(S, c) > n - 0} = {}
      <4> SUFFICES ASSUME NEW c \in S, Rank(S, c) > n - 0 PROVE FALSE
        OBVIOUS
      <4>1. Rank(S, c) \in 1..n
        BY RankBound DEF n
      <4> QED BY <1>3, <4>1
    <3>2. ins = F(needed)
      BY <2>2, <3>1 DEF j
    <3> QED BY <1>5, <3>2
  <2>3. CASE j # 0
    <3>1. j \in 1..j
      BY <2>1, <2>3
    <3>2. Sweeps(C(j), outs)
      BY <2>1, <3>1
    <3>3. ins = C(j)
      BY DEF j
    <3>4. IsCoins(ins)
      BY <1>6, CoinsPart
    <3> HIDE DEF ins
    <3>5. Total(ins) \in Int /\ Cardinality(ins) \in Nat /\ Paid(outs) \in Int /\ Len(outs) \in Nat
      BY <3>4, TotalInt, PaidInt
    <3>6. FeeFor(ins, outs) \in Int /\ Dust \in Nat
      BY <3>5, FeeGrows DEF FeeFor
    <3> QED BY <3>2, <3>3, <3>5, <3>6 DEF Sweeps, Covers
  <2> QED BY <2>2, <2>3
<1>9. IsCoins(ins)
  BY <1>6, CoinsPart
<1> HIDE DEF ins
<1>10. Spends(SelectCoins(S, outs, change, limit), ins)
  BY <1>2, <1>8, <1>9, ChangeIsFair
<1> QED BY <1>6, <1>10

\* t takes coins of S, with all every one of them.
SpendsFrom(t, S, all) == \E ins \in SUBSET S : Spends(t, ins) /\ (all => ins = S)

\* What ConstructSpend gives: with exhaust, every coin is an input.
LEMMA ConstructSpends ==
  ASSUME NEW S, IsCoins(S), NEW exhaust \in BOOLEAN, NEW outs, IsOuts(outs), NEW change,
         NEW limit \in Nat, ConstructSpend(S, exhaust, outs, change, limit).ok
  PROVE  SpendsFrom(ConstructSpend(S, exhaust, outs, change, limit), S, exhaust)
<1>1. CASE exhaust
  BY <1>1, ExhaustSpends DEF ConstructSpend, SpendsFrom
<1>2. CASE ~exhaust
  BY <1>2, SelectSpends DEF ConstructSpend, SpendsFrom
<1> QED BY <1>1, <1>2

----------------------------------------------------------------------------
(* Proportions in floating point: every operation is off by at most one    *)
(* part in Significand, and amounts are far smaller than that.             *)

LEMMA Times == ASSUME NEW c \in Nat, NEW x \in Int, NEW y \in Int, x <= y PROVE c * x <= c * y
OBVIOUS

LEMMA Cancel == ASSUME NEW c \in Nat, c > 0, NEW x \in Int, NEW y \in Int, c * x <= c * y PROVE x <= y
<1> SUFFICES ASSUME x >= y + 1 PROVE FALSE
  OBVIOUS
<1>1. c * (y + 1) <= c * x
  BY Times
<1>2. c * (y + 1) = c * y + c
  OBVIOUS
<1>3. c * y \in Int /\ c * x \in Int
  OBVIOUS
<1> QED BY <1>1, <1>2, <1>3

LEMMA CancelLess == ASSUME NEW c \in Nat, c > 0, NEW x \in Int, NEW y \in Int, c * x < c * y PROVE x < y
<1> SUFFICES ASSUME y <= x PROVE FALSE
  OBVIOUS
<1>1. c * y <= c * x
  BY Times
<1> QED BY <1>1

LEMMA Above ==
  ASSUME NEW Q \in Nat, NEW t \in Nat, NEW s \in Nat, NEW r \in Nat, NEW p \in Nat, NEW b \in Nat,
         NEW a \in Nat, NEW m \in Nat, NEW u \in Nat, s > 0, r > 0,
         Q * (t * m) <= (Q + 1) * (u * s), Q * (s * b) <= (Q + 1) * ((a * m) * r), r * p <= b
  PROVE  (Q * Q) * (t * p) <= ((Q + 1) * (Q + 1)) * (a * u)
<1>1. (Q * Q * t * s) * (r * p) <= (Q * Q * t * s) * b
  BY Times
<1>2. (Q * t) * (Q * (s * b)) <= (Q * t) * ((Q + 1) * ((a * m) * r))
  BY Times
<1>3. ((Q + 1) * a * r) * (Q * (t * m)) <= ((Q + 1) * a * r) * ((Q + 1) * (u * s))
  BY Times
<1>4. (Q * Q * t * s) * b = (Q * t) * (Q * (s * b))
  OBVIOUS
<1>5. (Q * t) * ((Q + 1) * ((a * m) * r)) = ((Q + 1) * a * r) * (Q * (t * m))
  OBVIOUS
<1>6. (s * r) * ((Q * Q) * (t * p)) = (Q * Q * t * s) * (r * p)
  OBVIOUS
<1>7. (s * r) * (((Q + 1) * (Q + 1)) * (a * u)) = ((Q + 1) * a * r) * ((Q + 1) * (u * s))
  OBVIOUS
<1>8. (s * r) * ((Q * Q) * (t * p)) <= (s * r) * (((Q + 1) * (Q + 1)) * (a * u))
  BY <1>1, <1>2, <1>3, <1>4, <1>5, <1>6, <1>7
<1>9. s * r \in Nat /\ s * r > 0
  OBVIOUS
<1> QED BY <1>8, <1>9, Cancel

LEMMA Below ==
  ASSUME NEW Q \in Nat, Q > 0, NEW t \in Nat, NEW s \in Nat, NEW r \in Nat, NEW p \in Nat, NEW b \in Nat,
         NEW a \in Nat, NEW m \in Nat, NEW u \in Nat, s > 0, r > 0,
         (Q - 1) * (u * s) <= Q * (t * m), (Q - 1) * ((a * m) * r) <= Q * (s * b), b <= r * p + r
  PROVE  ((Q - 1) * (Q - 1)) * (a * u) <= (Q * Q) * (t * (p + 1))
<1> DEFINE k == Q - 1
<1>0. k \in Nat /\ k * (u * s) <= Q * (t * m) /\ k * ((a * m) * r) <= Q * (s * b)
  OBVIOUS
<1> HIDE DEF k
<1>1. (Q * Q * t * s) * b <= (Q * Q * t * s) * (r * p + r)
  BY Times
<1>2. (Q * t) * (k * ((a * m) * r)) <= (Q * t) * (Q * (s * b))
  BY <1>0, Times
<1>3. (k * a * r) * (k * (u * s)) <= (k * a * r) * (Q * (t * m))
  BY <1>0, Times
<1>4. (Q * Q * t * s) * b = (Q * t) * (Q * (s * b))
  OBVIOUS
<1>5. (Q * t) * (k * ((a * m) * r)) = (k * a * r) * (Q * (t * m))
  BY <1>0
<1>6. (s * r) * ((Q * Q) * (t * (p + 1))) = (Q * Q * t * s) * (r * p + r)
  OBVIOUS
<1>7. (s * r) * ((k * k) * (a * u)) = (k * a * r) * (k * (u * s))
  BY <1>0
<1>8. (s * r) * ((k * k) * (a * u)) <= (s * r) * ((Q * Q) * (t * (p + 1)))
  BY <1>0, <1>1, <1>2, <1>3, <1>4, <1>5, <1>6, <1>7
<1>9. s * r \in Nat /\ s * r > 0 /\ (k * k) * (a * u) \in Int
  BY <1>0
<1>10. (k * k) * (a * u) <= (Q * Q) * (t * (p + 1))
  BY <1>8, <1>9, Cancel
<1> QED BY <1>10 DEF k

\* The relative error of a rounded significand.
LEMMA RoundedBy ==
  ASSUME NEW Q \in Nat, Q > 0, NEW d \in Nat, NEW x \in Nat, NEW y \in Nat,
         2 * x <= 2 * y + d, 2 * y <= 2 * x + d, Q * d <= 2 * y
  PROVE  Q * x <= (Q + 1) * y /\ (Q - 1) * y <= Q * x
<1>1. Q * (2 * x) <= Q * (2 * y + d) /\ Q * (2 * y) <= Q * (2 * x + d)
  BY Times
<1>2. Q * (2 * y + d) = 2 * (Q * y) + Q * d /\ Q * (2 * x + d) = 2 * (Q * x) + Q * d
      /\ Q * (2 * x) = 2 * (Q * x) /\ Q * (2 * y) = 2 * (Q * y)
  OBVIOUS
<1>3. (Q + 1) * y = Q * y + y /\ (Q - 1) * y = Q * y - y
  OBVIOUS
<1>4. Q * x \in Nat /\ Q * y \in Nat /\ Q * d \in Nat
  OBVIOUS
<1> QED BY <1>1, <1>2, <1>3, <1>4

\* What is at hand for the second rounding.
LEMMA SecondInRange ==
  ASSUME NEW Q \in Nat, NEW M \in Nat, 4 * M <= Q, M > 0, NEW t \in Nat, NEW s \in Nat, NEW a \in Nat,
         NEW m \in Nat, NEW u \in Nat, s > 0, u > 0, u <= t, t <= M, a > 0, a <= M,
         Q * (t * m) <= (Q + 1) * (u * s), (Q - 1) * (u * s) <= Q * (t * m)
  PROVE  a * m > 0 /\ a * m < Q * s /\ Q * s <= 2 * (a * m) * (Q * M)
<1> DEFINE k == Q - 1
<1>0. k \in Nat /\ k > 0 /\ Q <= 2 * k /\ k * (u * s) <= Q * (t * m) /\ t > 0 /\ Q > 0
  OBVIOUS
<1> HIDE DEF k
<1>1. m <= 2 * s
  <2>1. (Q + 1) * s * u <= (Q + 1) * s * t
    BY Times
  <2>2. (t * Q) * m <= (t * (Q + 1)) * s
    <3>1. (Q + 1) * (u * s) = (Q + 1) * s * u /\ (t * (Q + 1)) * s = (Q + 1) * s * t /\ (t * Q) * m = Q * (t * m)
      OBVIOUS
    <3> QED BY <2>1, <3>1
  <2>3. (t * (Q + 1)) * s <= (t * (2 * Q)) * s
    <3>1. (t * s) * (Q + 1) <= (t * s) * (2 * Q)
      BY <1>0, Times
    <3>2. (t * s) * (Q + 1) = (t * (Q + 1)) * s /\ (t * s) * (2 * Q) = (t * (2 * Q)) * s
      OBVIOUS
    <3> QED BY <3>1, <3>2
  <2>4. (t * (2 * Q)) * s = (t * Q) * (2 * s)
    OBVIOUS
  <2>5. (t * Q) * m <= (t * Q) * (2 * s)
    BY <2>2, <2>3, <2>4
  <2>6. t * Q \in Nat /\ t * Q > 0
    BY <1>0
  <2> QED BY <2>5, <2>6, Cancel
<1>2. s <= 2 * (M * m)
  <2>1. k * s <= k * (u * s)
    <3>1. s * 1 <= s * u
      BY Times
    <3>2. k * (s * 1) <= k * (s * u)
      BY <1>0, <3>1, Times
    <3> QED BY <1>0, <3>2
  <2>2. (t * m) * Q <= (t * m) * (2 * k)
    BY <1>0, Times
  <2>3. (2 * k * m) * t <= (2 * k * m) * M
    BY <1>0, Times
  <2>4. k * s <= k * (2 * (M * m))
    <3>1. (t * m) * Q = Q * (t * m) /\ (t * m) * (2 * k) = (2 * k * m) * t
          /\ (2 * k * m) * M = k * (2 * (M * m))
      BY <1>0
    <3> QED BY <1>0, <2>1, <2>2, <2>3, <3>1
  <2> QED BY <1>0, <2>4, Cancel
<1>3. m > 0
  BY <1>2
<1>4. a * m \in Nat /\ a * m > 0
  BY <1>3
<1>5. a * m < Q * s
  <2>1. a * m <= a * (2 * s)
    BY <1>1, Times
  <2>2. (2 * s) * a <= (2 * s) * M
    BY Times
  <2>3. s * (4 * M) <= s * Q
    BY Times
  <2>4. a * (2 * s) = (2 * s) * a /\ s * (4 * M) = 2 * ((2 * s) * M) /\ s * Q = Q * s
    OBVIOUS
  <2>5. Q * s > 0 /\ Q * s \in Nat /\ (2 * s) * M \in Nat /\ a * m \in Nat
    BY <1>0
  <2> QED BY <2>1, <2>2, <2>3, <2>4, <2>5
<1>6. Q * s <= 2 * (a * m) * (Q * M)
  <2>1. Q * s <= Q * (2 * (M * m))
    BY <1>2, Times
  <2>2. (2 * (M * m) * Q) * 1 <= (2 * (M * m) * Q) * a
    BY Times
  <2>3. (2 * (M * m) * Q) * 1 = Q * (2 * (M * m)) /\ (2 * (M * m) * Q) * a = 2 * (a * m) * (Q * M)
    OBVIOUS
  <2> QED BY <2>1, <2>2, <2>3
<1> QED BY <1>4, <1>5, <1>6

\* Two relative errors are less than a satoshi.
LEMMA LessThanOne ==
  ASSUME NEW Q \in Nat, NEW t \in Nat, NEW a \in Nat, NEW u \in Nat, 4 * a <= Q, Q > 0, u <= t, t > 0
  PROVE  /\ ((Q + 1) * (Q + 1)) * (a * u) < (Q * Q) * (a * u + t)
         /\ (Q * Q) * (a * u - t) < ((Q - 1) * (Q - 1)) * (a * u)
<1> DEFINE x == a * u
           y == Q * Q
<1>1. x \in Nat /\ y \in Nat /\ Q * x \in Nat /\ y * x \in Nat /\ y * t \in Nat
  OBVIOUS
<1>2. ((Q + 1) * (Q + 1)) * x = y * x + 2 * (Q * x) + x /\ ((Q - 1) * (Q - 1)) * x = y * x - 2 * (Q * x) + x
      /\ y * (x + t) = y * x + y * t /\ y * (x - t) = y * x - y * t
  OBVIOUS
<1>3. 4 * (Q * x) <= y * t
  <2>1. (Q * u) * (4 * a) <= (Q * u) * Q
    BY Times
  <2>2. (Q * Q) * u <= (Q * Q) * t
    BY Times
  <2>3. (Q * u) * (4 * a) = 4 * (Q * x) /\ (Q * u) * Q = (Q * Q) * u
    OBVIOUS
  <2> QED BY <2>1, <2>2, <2>3
<1>4. x <= Q * x /\ y * t > 0
  <2>1. x * 1 <= x * Q
    BY <1>1, Times
  <2>2. y > 0
    OBVIOUS
  <2>3. y * t > 0
    BY <2>2
  <2> QED BY <2>1, <2>3
<1> HIDE DEF x, y
<1>5. y * x + 2 * (Q * x) + x < y * x + y * t /\ y * x - y * t < y * x - 2 * (Q * x) + x
  BY <1>1, <1>3, <1>4
<1> QED BY <1>2, <1>5 DEF x, y

LEMMA NearestIs ==
  ASSUME NEW n \in Int, NEW d \in Int, d > 0
  PROVE  /\ Nearest(n, d) \in Int
         /\ 2 * (d * Nearest(n, d)) <= 2 * n + d /\ 2 * n <= 2 * (d * Nearest(n, d)) + d
<1> DEFINE q == n \div d
           r == n % d
<1>1. q \in Int /\ r \in Int /\ n = d * q + r /\ r >= 0 /\ r < d
  OBVIOUS
<1>2. Nearest(n, d) = IF 2 * r > d \/ (2 * r = d /\ q % 2 = 1) THEN q + 1 ELSE q
  BY DEF Nearest
<1> HIDE DEF q, r
<1>3. d * q \in Int /\ d * (q + 1) = d * q + d
  BY <1>1
<1>4. CASE 2 * r > d \/ (2 * r = d /\ q % 2 = 1)
  <2>1. Nearest(n, d) = q + 1 /\ 2 * r >= d
    BY <1>1, <1>2, <1>4
  <2> QED BY <1>1, <1>3, <2>1
<1>5. CASE ~(2 * r > d \/ (2 * r = d /\ q % 2 = 1))
  <2>1. Nearest(n, d) = q /\ 2 * r <= d
    BY <1>1, <1>2, <1>5
  <2> QED BY <1>1, <1>3, <2>1
<1> QED BY <1>4, <1>5

\* The powers of two that fill the significand with n / d.
Scales(n, d) == {p \in Powers : n * p < Significand * d /\ Significand * d <= 2 * n * p}

LEMMA FloatIs ==
  ASSUME NEW n \in Int, NEW d \in Int, d > 0
  PROVE  /\ Scales(n, d) = {} => Float(n, d) = [n |-> 0, d |-> 1]
         /\ Scales(n, d) # {} => Float(n, d).d \in Scales(n, d) /\ Float(n, d).n = Nearest(n * Float(n, d).d, d)
         /\ Float(n, d).n \in Int /\ Float(n, d).d \in Nat /\ Float(n, d).d > 0
<1> DEFINE p == CHOOSE p \in Scales(n, d) : TRUE
<1>1. Float(n, d) = IF Scales(n, d) = {} THEN [n |-> 0, d |-> 1] ELSE [n |-> Nearest(n * p, d), d |-> p]
  BY DEF Float, Scales
<1>2. CASE Scales(n, d) = {}
  BY <1>1, <1>2
<1>3. CASE Scales(n, d) # {}
  <2>1. p \in Scales(n, d)
    BY <1>3
  <2>2. Float(n, d).n = Nearest(n * p, d) /\ Float(n, d).d = p
    BY <1>1, <1>3
  <2> HIDE DEF p
  <2>3. p \in Nat /\ p > 0
    BY <2>1, FloatConstants DEF Scales
  <2>4. n * p \in Int
    BY <2>3
  <2>5. Nearest(n * p, d) \in Int
    BY <2>4, NearestIs
  <2> QED BY <1>3, <2>1, <2>2, <2>3, <2>5
<1> QED BY <1>2, <1>3

LEMMA FloatZero ==
  ASSUME NEW d \in Int, d > 0
  PROVE  Float(0, d) = [n |-> 0, d |-> 1]
<1>1. Scales(0, d) = {}
  <2> SUFFICES ASSUME NEW p \in Scales(0, d) PROVE FALSE
    OBVIOUS
  <2>1. p \in Nat /\ 0 * p < Significand * d /\ Significand * d <= 2 * 0 * p
    BY FloatConstants DEF Scales
  <2>2. 0 * p = 0 /\ 2 * 0 * p = 0 /\ Significand * d \in Int
    BY <2>1, FloatConstants
  <2> QED BY <2>1, <2>2
<1> QED BY <1>1, FloatIs

\* Some power of two fills the significand.
LEMMA ScaleExists ==
  ASSUME NEW n \in Nat, NEW d \in Nat, n > 0, n < Significand * d,
         Significand * d <= 2 * n * (Significand * MaxMoney)
  PROVE  Scales(n, d) # {}
<1> DEFINE Q == Significand
           T == {p \in Powers : n * p < Q * d}
           p == Max(T)
<1>1. 1 \in T /\ T \subseteq 0..(Q * d) /\ Q * d \in Nat
  <2>1. n * 1 = n /\ Q * d \in Nat
    BY FloatConstants
  <2>2. ASSUME NEW x \in Nat, n * x < Q * d PROVE x \in 0..(Q * d)
    <3>1. x * 1 <= x * n
      BY Times
    <3> QED BY <2>1, <2>2, <3>1
  <2> QED BY <2>1, <2>2, FloatConstants
<1>2. p \in T /\ \A y \in T : p >= y
  <2> HIDE DEF T
  <2> QED BY <1>1, MaxIsIn
<1> HIDE DEF p
<1>3. p \in Powers /\ p \in Nat /\ p > 0 /\ n * p < Q * d /\ Q \in Nat /\ MaxMoney \in Nat
  BY <1>2, FloatConstants
<1>4. 2 * n * p = n * (2 * p)
  BY <1>3
<1>5. CASE 2 * p \in Powers
  <2>1. 2 * p \notin T
    BY <1>2, <1>3
  <2>2. ~(n * (2 * p) < Q * d)
    BY <1>5, <2>1
  <2>3. n * (2 * p) \in Int /\ Q * d \in Int
    BY <1>3
  <2>4. Q * d <= 2 * n * p
    BY <1>4, <2>2, <2>3
  <2> QED BY <1>3, <2>4 DEF Scales
<1>6. CASE p >= Q * MaxMoney
  <2>1. 2 * n \in Nat /\ Q * MaxMoney \in Int /\ p \in Int
    BY <1>3
  <2>2. 2 * n * (Q * MaxMoney) <= 2 * n * p
    BY <1>6, <2>1, Times
  <2>3. Q * d \in Int /\ 2 * n * p \in Int /\ 2 * n * (Q * MaxMoney) \in Int
    BY <1>3, <2>1
  <2>4. Q * d <= 2 * n * p
    BY <2>2, <2>3
  <2> QED BY <1>3, <2>4 DEF Scales
<1> QED BY <1>3, <1>5, <1>6, FloatConstants

LEMMA FloatClose ==
  ASSUME NEW n \in Nat, NEW d \in Nat, n > 0, d > 0, n < Significand * d,
         Significand * d <= 2 * n * (Significand * MaxMoney)
  PROVE  LET f == Float(n, d)
         IN  /\ f.n \in Nat /\ f.d \in Nat /\ f.d > 0
             /\ Significand * (d * f.n) <= (Significand + 1) * (n * f.d)
             /\ (Significand - 1) * (n * f.d) <= Significand * (d * f.n)
<1> DEFINE Q == Significand
           f == Float(n, d)
           p == f.d
           m == f.n
<1>1. p \in Scales(n, d) /\ m = Nearest(n * p, d) /\ m \in Int
  <2>1. Scales(n, d) # {}
    BY ScaleExists
  <2>2. n \in Int /\ d \in Int
    OBVIOUS
  <2> QED BY <2>1, <2>2, FloatIs
<1> HIDE DEF p, m
<1>2. p \in Nat /\ p > 0 /\ Q * d <= 2 * n * p /\ Q \in Nat /\ Q > 0
  <2>1. p \in Powers /\ Q * d <= 2 * n * p
    BY <1>1 DEF Scales
  <2> QED BY <2>1, FloatConstants
<1>3. n * p \in Nat /\ 2 * n * p = 2 * (n * p)
  BY <1>2
<1>4. 2 * (d * m) <= 2 * (n * p) + d /\ 2 * (n * p) <= 2 * (d * m) + d
  <2> DEFINE x == n * p
  <2>1. x \in Int /\ d \in Int /\ d > 0 /\ m = Nearest(x, d)
    BY <1>1, <1>3
  <2> HIDE DEF x
  <2>2. 2 * (d * m) <= 2 * x + d /\ 2 * x <= 2 * (d * m) + d
    BY <2>1, NearestIs
  <2> QED BY <2>2 DEF x
<1>5. m \in Nat
  <2>1. Q * d >= d /\ Q * d \in Nat
    BY <1>2
  <2>2. d * m \in Int /\ d * m >= 0
    BY <1>1, <1>2, <1>3, <1>4, <2>1
  <2>3. d * m > 0 - d
    BY <2>2
  <2> QED BY <1>1, <2>2, <2>3
<1>6. d * m \in Nat
  BY <1>5
<1>7. Q * (d * m) <= (Q + 1) * (n * p) /\ (Q - 1) * (n * p) <= Q * (d * m)
  <2>1. Q * d <= 2 * (n * p)
    BY <1>2, <1>3
  <2> HIDE DEF Q
  <2> QED BY <1>2, <1>3, <1>4, <1>6, <2>1, RoundedBy
<1> QED BY <1>2, <1>5, <1>7 DEF p, m

\* A part of the change is in proportion but for two rounding errors and less
\* than a satoshi that is cut off.
LEMMA PartClose ==
  ASSUME NEW a \in Nat, a <= MaxMoney, NEW t \in Nat, t <= MaxMoney, t > 0, NEW u \in Nat, u <= t
  PROVE  LET Q == Significand
             p == Part(a, u, t)
         IN  /\ p \in Nat
             /\ (Q * Q) * (t * p) <= ((Q + 1) * (Q + 1)) * (a * u)
             /\ ((Q - 1) * (Q - 1)) * (a * u) <= (Q * Q) * (t * (p + 1))
<1> DEFINE Q == Significand
           M == MaxMoney
           f == Float(u, t)
           g == Float(a * f.n, f.d)
           p == Part(a, u, t)
<1>1. p = g.n \div g.d
  BY DEF Part
<1>2. Q \in Nat /\ M \in Nat /\ M > 0 /\ 4 * M <= Q /\ Q > 0
  BY FloatConstants
<1>3. CASE u = 0 \/ a = 0
  <2>1. a * f.n = 0 /\ f.d \in Int /\ f.d > 0
    <3>1. f.n \in Int /\ f.d \in Int /\ f.d > 0
      BY FloatIs
    <3>2. u = 0 => f.n = 0
      BY FloatZero
    <3> HIDE DEF f
    <3> QED BY <1>3, <3>1, <3>2
  <2>2. g = [n |-> 0, d |-> 1]
    BY <2>1, FloatZero
  <2> HIDE DEF g, p
  <2>3. p = 0
    BY <1>1, <2>2
  <2>4. a * u = 0 /\ t * p = 0 /\ t * (p + 1) \in Nat
    BY <1>3, <2>3
  <2> HIDE DEF Q
  <2>5. (Q * Q) * (t * p) = 0 /\ ((Q + 1) * (Q + 1)) * (a * u) = 0 /\ ((Q - 1) * (Q - 1)) * (a * u) = 0
        /\ (Q * Q) * (t * (p + 1)) >= 0
    BY <1>2, <2>4
  <2> QED BY <2>3, <2>5 DEF Q, p
<1>4. CASE u > 0 /\ a > 0
  <2> DEFINE m == f.n
             s == f.d
             b == g.n
             r == g.d
  <2>1. u < Q * t /\ Q * t <= 2 * u * (Q * M)
    <3> HIDE DEF Q, M
    <3>1. t * 4 <= t * Q
      BY <1>2, Times
    <3>2. u < Q * t
      BY <1>2, <3>1
    <3>3. Q * t <= Q * M
      BY <1>2, Times DEF M
    <3>4. (Q * M) * 1 <= (Q * M) * (2 * u)
      BY <1>2, <1>4, Times
    <3>5. (Q * M) * (2 * u) = 2 * u * (Q * M) /\ (Q * M) * 1 = Q * M
      BY <1>2
    <3> QED BY <1>2, <3>2, <3>3, <3>4, <3>5
  <2>2. /\ m \in Nat /\ s \in Nat /\ s > 0
        /\ Q * (t * m) <= (Q + 1) * (u * s) /\ (Q - 1) * (u * s) <= Q * (t * m)
    BY <1>4, <2>1, FloatClose
  <2> HIDE DEF f
  <2>3. a * m > 0 /\ a * m < Q * s /\ Q * s <= 2 * (a * m) * (Q * M)
    <3> HIDE DEF Q, m, s
    <3>1. a <= M /\ t <= M
      OBVIOUS
    <3> HIDE DEF M
    <3> QED BY <1>2, <1>4, <2>2, <3>1, SecondInRange
  <2>4. a * m \in Nat
    BY <2>2
  <2>5. /\ b \in Nat /\ r \in Nat /\ r > 0
        /\ Q * (s * b) <= (Q + 1) * ((a * m) * r) /\ (Q - 1) * ((a * m) * r) <= Q * (s * b)
    BY <2>2, <2>3, <2>4, FloatClose
  <2> HIDE DEF g, p, m, s
  <2>6. p \in Nat /\ r * p <= b /\ b <= r * p + r
    <3> HIDE DEF b, r
    <3>1. p = b \div r
      BY <1>1 DEF b, r
    <3> QED BY <2>5, <3>1
  <2> HIDE DEF b, r, Q
  <2>7. (Q * Q) * (t * p) <= ((Q + 1) * (Q + 1)) * (a * u)
    BY <1>2, <2>2, <2>5, <2>6, Above
  <2>8. ((Q - 1) * (Q - 1)) * (a * u) <= (Q * Q) * (t * (p + 1))
    BY <1>2, <2>2, <2>5, <2>6, Below
  <2> QED BY <2>6, <2>7, <2>8 DEF Q, p
<1> QED BY <1>3, <1>4

LEMMA PartInt ==
  ASSUME NEW a \in Int, NEW t \in Int, t > 0, NEW u \in Int
  PROVE  Part(a, u, t) \in Int
<1> DEFINE f == Float(u, t)
           g == Float(a * f.n, f.d)
<1>1. f.n \in Int /\ f.d \in Nat /\ f.d > 0
  BY FloatIs
<1> HIDE DEF f
<1>2. a * f.n \in Int
  BY <1>1
<1>3. g.n \in Int /\ g.d \in Nat /\ g.d > 0
  BY <1>1, <1>2, FloatIs
<1>4. Part(a, u, t) = g.n \div g.d
  BY DEF Part, f
<1> HIDE DEF g
<1> QED BY <1>3, <1>4

----------------------------------------------------------------------------
(* Checkpoints.                                                            *)

IsMsg(m) ==
  IsOuts(m.withdrawals) /\ IsOuts(m.transfers) /\ IsOuts(m.unstakes) /\ m.kill \in BOOLEAN

LEMMA SentInt == ASSUME NEW m, IsMsg(m), NEW dest PROVE Sent(m, dest) \in Int
<1> DEFINE f == [i \in DOMAIN m.transfers |-> m.transfers[i].value]
           K == {i \in DOMAIN m.transfers : m.transfers[i].dest = dest}
<1>1. IsOuts(m.transfers)
  BY DEF IsMsg
<1>2. Len(m.transfers) \in Nat /\ DOMAIN m.transfers = 1..Len(m.transfers)
  BY <1>1, PaidInt
<1>3. IsFiniteSet(DOMAIN m.transfers) /\ K \subseteq DOMAIN m.transfers
  BY <1>2, FS_Interval
<1>4. Ints(f, K)
  BY <1>1, <1>2 DEF IsOuts, Ints
<1> HIDE DEF f, K
<1>5. IsFiniteSet(K)
  BY <1>3, FS_Subset
<1>6. SumFunctionOnSet(f, K) \in Int
  BY <1>4, <1>5, SumInt
<1> QED BY <1>6 DEF Sent, f, K

LEMMA FewDestinations ==
  ASSUME NEW m, IsMsg(m), NEW order \in SetToSeqs(Destinations(m))
  PROVE  \E n \in Nat : DOMAIN order = 1..n
<1> DEFINE T == m.transfers
           f == [i \in DOMAIN T |-> T[i].dest]
           D == Destinations(m)
<1>1. IsOuts(T)
  BY DEF IsMsg
<1>2. IsFiniteSet(DOMAIN T)
  <2>1. Len(T) \in Nat /\ DOMAIN T = 1..Len(T)
    BY <1>1, PaidInt
  <2> HIDE DEF T
  <2> QED BY <2>1, FS_Interval
<1>3. f \in Surjection(DOMAIN T, D)
  BY DEF Surjection, Destinations
<1> HIDE DEF f, D
<1>4. IsFiniteSet(D)
  BY <1>2, <1>3, FS_Surjection
<1>5. Cardinality(D) \in Nat
  BY <1>4, FS_CardinalityType
<1>6. DOMAIN order = 1..Cardinality(D)
  BY DEF SetToSeqs, D
<1> QED BY <1>5, <1>6

LEMMA OutputsOK ==
  ASSUME NEW m, IsMsg(m), NEW order \in SetToSeqs(Destinations(m)), NEW at
  PROVE  IsOuts(CheckpointOutputs(m, order, at))
<1> DEFINE o1 == <<Pay(DataOutput, Dust)>>
           o3 == IF HasBatch(m) THEN <<Pay(CommitOutput, CommitValue)>> ELSE <<>>
           o4 == [i \in DOMAIN order |-> Pay(at[order[i]], Sent(m, order[i]))]
<1>1. Dust \in Int /\ Dust + RevealFee \in Int
  BY SpendingConstants
<1>2. CommitValue \in Int
  BY <1>1, LargerOfTwo DEF CommitValue
<1>3. IsOuts(o1)
  BY <1>1, OutsOne DEF Pay
<1>4. IsOuts(o3)
  <2>1. Pay(CommitOutput, CommitValue).value \in Int
    BY <1>2 DEF Pay
  <2>2. IsOuts(<<Pay(CommitOutput, CommitValue)>>)
    BY <2>1, OutsOne
  <2> QED BY <2>2, OutsEmpty
<1>5. IsOuts(o4)
  <2>1. PICK n \in Nat : DOMAIN order = 1..n
    BY FewDestinations
  <2>2. ASSUME NEW i \in 1..n PROVE o4[i].value \in Int
    <3>1. o4[i] = Pay(at[order[i]], Sent(m, order[i]))
      BY <2>1
    <3>2. Sent(m, order[i]) \in Int
      BY SentInt
    <3> QED BY <3>1, <3>2 DEF Pay
  <2>3. o4 = [i \in 1..n |-> o4[i]]
    BY <2>1
  <2> HIDE DEF o4
  <2> QED BY <2>2, <2>3, OutsFunction
<1>6. IsOuts(m.withdrawals) /\ IsOuts(m.unstakes)
  BY DEF IsMsg
<1>7. CheckpointOutputs(m, order, at) = o1 \o m.withdrawals \o o3 \o o4 \o m.unstakes
  BY DEF CheckpointOutputs
<1> HIDE DEF o1, o3, o4
<1>8. IsOuts(o1 \o m.withdrawals)
  BY <1>3, <1>6, OutsConcat
<1>9. IsOuts(o1 \o m.withdrawals \o o3)
  BY <1>4, <1>8, OutsConcat
<1>10. IsOuts(o1 \o m.withdrawals \o o3 \o o4)
  BY <1>5, <1>9, OutsConcat
<1>11. IsOuts(o1 \o m.withdrawals \o o3 \o o4 \o m.unstakes)
  BY <1>6, <1>10, OutsConcat
<1> QED BY <1>7, <1>11

LEMMA ChangeAmountInt ==
  ASSUME NEW outs, IsOuts(outs), NEW change
  PROVE  ChangeAmount(outs, change) \in Int
<1> DEFINE at == {i \in DOMAIN outs : outs[i].to = change}
<1>1. Len(outs) \in Nat /\ DOMAIN outs = 1..Len(outs)
  BY PaidInt
<1>2. at \subseteq Nat /\ at \subseteq 1..Len(outs)
  BY <1>1
<1>3. CASE at = {}
  BY <1>3 DEF ChangeAmount
<1>4. CASE at # {}
  <2>1. Min(at) \in at
    <3> HIDE DEF at
    <3> QED BY <1>2, <1>4, MinIsIn
  <2>2. Min(at) \in 1..Len(outs)
    BY <1>2, <2>1
  <2>3. ChangeAmount(outs, change) = outs[Min(at)].value
    BY <1>4 DEF ChangeAmount
  <2> HIDE DEF at
  <2> QED BY <2>2, <2>3 DEF IsOuts
<1> QED BY <1>3, <1>4

LEMMA ShareInt ==
  ASSUME NEW m, IsMsg(m), Paid(m.unstakes) > 0, NEW amount \in Int, NEW i \in 1..Len(m.unstakes)
  PROVE  Share(m, i, amount) \in Int
<1> DEFINE u == m.unstakes
           P == Paid(u)
           part == [j \in DOMAIN u |-> Part(amount, u[j].value, P)]
           K == 1..(Len(u) - 1)
<1>1. IsOuts(u)
  BY DEF IsMsg
<1>2. P \in Int /\ P > 0 /\ Len(u) \in Nat /\ DOMAIN u = 1..Len(u)
  BY <1>1, PaidInt
<1> HIDE DEF P
<1>3. ASSUME NEW j \in 1..Len(u) PROVE part[j] \in Int
  <2>1. u[j].value \in Int
    BY <1>1 DEF IsOuts
  <2>2. part[j] = Part(amount, u[j].value, P)
    BY <1>2
  <2>3. Part(amount, u[j].value, P) \in Int
    BY <1>2, <2>1, PartInt
  <2> QED BY <2>2, <2>3
<1>4. IsFiniteSet(K) /\ K \subseteq 1..Len(u)
  <2> DEFINE l == Len(u)
  <2>1. l \in Nat
    BY <1>2
  <2> HIDE DEF l
  <2>2. 1 \in Int /\ l - 1 \in Int /\ 1..(l - 1) \subseteq 1..l
    BY <2>1
  <2>3. IsFiniteSet(1..(l - 1))
    BY <2>2, FS_Interval
  <2> QED BY <2>2, <2>3 DEF l
<1>5. Share(m, i, amount) = IF i < Len(u) THEN part[i] ELSE amount - SumFunctionOnSet(part, K)
  BY DEF Share, P
<1> HIDE DEF part, K, u
<1>6. Ints(part, K)
  BY <1>3, <1>4 DEF Ints
<1>7. SumFunctionOnSet(part, K) \in Int
  BY <1>4, <1>6, SumInt
<1>8. part[i] \in Int
  BY <1>3 DEF u
<1> QED BY <1>5, <1>7, <1>8

LEMMA RedistributedOK ==
  ASSUME NEW m, IsMsg(m), Paid(m.unstakes) > 0, NEW outs, IsOuts(outs), NEW amount \in Int
  PROVE  IsOuts(Redistributed(m, outs, amount))
<1> DEFINE k == Len(outs) - Len(m.unstakes)
           r == Redistributed(m, outs, amount)
<1>1. Len(outs) \in Nat /\ DOMAIN outs = 1..Len(outs) /\ Len(m.unstakes) \in Nat
  <2>1. IsOuts(m.unstakes)
    BY DEF IsMsg
  <2> QED BY <2>1, PaidInt
<1>2. r = [i \in 1..Len(outs) |-> IF i <= k THEN outs[i]
                                    ELSE Pay(outs[i].to, outs[i].value + Share(m, i - k, amount))]
  BY <1>1 DEF Redistributed
<1>3. ASSUME NEW i \in 1..Len(outs) PROVE r[i].value \in Int
  <2>1. outs[i].value \in Int
    BY DEF IsOuts
  <2>2. CASE i <= k
    BY <1>2, <2>1, <2>2
  <2>3. CASE ~(i <= k)
    <3>1. i - k \in 1..Len(m.unstakes)
      BY <1>1, <2>3
    <3> HIDE DEF k
    <3>2. Share(m, i - k, amount) \in Int
      BY <3>1, ShareInt
    <3>3. r[i] = Pay(outs[i].to, outs[i].value + Share(m, i - k, amount))
      BY <1>2, <2>3
    <3>4. r[i].value = outs[i].value + Share(m, i - k, amount)
      BY <3>3 DEF Pay
    <3> QED BY <2>1, <3>2, <3>4
  <2> QED BY <2>2, <2>3
<1>4. r = [i \in 1..Len(outs) |-> r[i]]
  BY <1>2
<1> HIDE DEF r
<1>5. IsOuts(r)
  BY <1>1, <1>3, <1>4, OutsFunction
<1> QED BY <1>5 DEF r

LEMMA CheckpointSpends ==
  ASSUME NEW m, IsMsg(m), NEW S, IsCoins(S), NEW exhaust \in BOOLEAN,
         NEW order \in SetToSeqs(Destinations(m)), NEW at, NEW change,
         ToCheckpointPsbt(m, S, exhaust, order, at, change).ok
  PROVE  SpendsFrom(ToCheckpointPsbt(m, S, exhaust, order, at, change), S, exhaust \/ m.kill)
<1> DEFINE outs == CheckpointOutputs(m, order, at)
           all == exhaust \/ m.kill
           first == ConstructSpend(S, all, outs, change, Consolidation)
           amount == ChangeAmount(first.outs, change)
           again == Redistributed(m, outs, amount)
           t == ToCheckpointPsbt(m, S, exhaust, order, at, change)
<1>1. IsOuts(outs)
  BY OutputsOK
<1>2. ~Failed.ok /\ Consolidation \in Nat
  BY SpendingConstants DEF Failed
<1>3. all \in BOOLEAN
  BY DEF IsMsg
<1>4. \/ first.ok /\ t = first
      \/ first.ok /\ Paid(m.unstakes) > 0 /\ t = ConstructSpend(S, all, again, change, Consolidation)
  BY <1>2, Zenon DEF ToCheckpointPsbt
<1> HIDE DEF outs, all
<1>5. ASSUME first.ok PROVE SpendsFrom(first, S, all)
  BY <1>1, <1>2, <1>3, <1>5, ConstructSpends
<1>6. CASE t = first
  BY <1>4, <1>5, <1>6 DEF all
<1>7. CASE first.ok /\ Paid(m.unstakes) > 0 /\ t = ConstructSpend(S, all, again, change, Consolidation)
  <2>1. IsOuts(first.outs)
    BY <1>5, <1>7 DEF SpendsFrom, Spends
  <2> HIDE DEF first
  <2>2. amount \in Int
    BY <2>1, ChangeAmountInt
  <2> HIDE DEF amount
  <2>3. IsOuts(again)
    BY <1>1, <1>7, <2>2, RedistributedOK
  <2> HIDE DEF again
  <2>4. ConstructSpend(S, all, again, change, Consolidation).ok
    BY <1>7
  <2> QED BY <1>2, <1>3, <1>7, <2>3, <2>4, ConstructSpends DEF all
<1> QED BY <1>4, <1>6, <1>7

LEMMA ListIsSequence ==
  ASSUME NEW S, IsFiniteSet(S)
  PROVE  Cardinality(S) \in Nat /\ SetToSeq(S) \in [1..Cardinality(S) -> S]
<1> DEFINE n == Cardinality(S)
<1>1. n \in Nat /\ ExistsBijection(1..n, S)
  BY FS_CardinalityType
<1>2. PICK f : f \in Bijection(1..n, S)
  BY <1>1 DEF ExistsBijection
<1>3. f \in [1..n -> S] /\ IsInjective(f)
  BY <1>2 DEF Bijection, Injection
<1> HIDE DEF n
<1>4. SetToSeq(S) = CHOOSE g \in [1..n -> S] : IsInjective(g)
  BY DEF SetToSeq, n
<1>5. SetToSeq(S) \in [1..n -> S]
  BY <1>3, <1>4
<1> QED BY <1>1, <1>5 DEF n

\* The configurations a database refers to are there.
IsKnown(d) == IsDb(d) /\ 0..d.recorded \subseteq DOMAIN Configs

LEMMA StakesOK ==
  ASSUME NEW n \in DOMAIN Configs, NEW v \in Validators
  PROVE  Committed(n)[v] \in Nat
BY TreasuryConstants DEF Committees, Stakes, Committed

\* Unstakes go to the backup addresses.
Backups == {Backup[v] : v \in Validators}

ToBackups(outs) == \A i \in 1..Len(outs) : outs[i].to \in Backups

LEMMA CommitteeUnstakesOK ==
  ASSUME NEW n \in DOMAIN Configs
  PROVE  /\ IsOuts(CommitteeUnstakes(n)) /\ ToBackups(CommitteeUnstakes(n))
         /\ \A i \in 1..Len(CommitteeUnstakes(n)) : /\ CommitteeUnstakes(n)[i].value \in Nat
                                                     /\ CommitteeUnstakes(n)[i].value > 0
         /\ Members(Configs[n]) # {} => CommitteeUnstakes(n) # <<>>
<1> DEFINE M == Members(Configs[n])
           l == SetToSeq(M)
           k == Cardinality(M)
           u == CommitteeUnstakes(n)
<1>1. M \subseteq Validators /\ IsFiniteSet(M)
  BY CommitteeConstants, FS_Subset DEF Members
<1>2. k \in Nat /\ l \in [1..k -> M]
  BY <1>1, ListIsSequence
<1>3. u = [i \in DOMAIN l |-> Pay(Backup[l[i]], Committed(n)[l[i]])]
  BY DEF CommitteeUnstakes
<1> HIDE DEF M, l, k, u
<1>4. ASSUME NEW i \in 1..k PROVE u[i].value \in Nat /\ u[i].value > 0 /\ u[i].to \in Backups
  <2>1. l[i] \in Validators /\ l[i] \in M
    BY <1>1, <1>2
  <2>2. u[i] = Pay(Backup[l[i]], Committed(n)[l[i]])
    BY <1>2, <1>3
  <2>3. Committed(n)[l[i]] \in Nat
    BY <2>1, StakesOK
  <2>4. Committed(n)[l[i]] > 0
    BY <2>1 DEF M, Members, Committed
  <2> QED BY <2>1, <2>2, <2>3, <2>4 DEF Pay, Backups
<1>5. u = [i \in 1..k |-> u[i]]
  BY <1>2, <1>3
<1>6. IsOuts(u) /\ Len(u) = k
  <2>1. \A i \in 1..k : u[i].value \in Int
    BY <1>4
  <2> QED BY <1>2, <1>5, <2>1, OutsFunction
<1>7. M # {} => u # <<>>
  <2>1. ASSUME M # {} PROVE k # 0
    BY <1>1, <2>1, FS_EmptySet DEF k
  <2>2. Len(<<>>) = 0
    OBVIOUS
  <2> QED BY <1>6, <2>1, <2>2
<1> QED BY <1>4, <1>6, <1>7 DEF u, M, ToBackups

LEMMA PendingUnstakesOK ==
  ASSUME NEW d, IsKnown(d)
  PROVE  IsOuts(PendingUnstakes(d)) /\ ToBackups(PendingUnstakes(d))
<1> DEFINE lowered(n) == {v \in Validators : Committed(n)[v] < Committed(n - 1)[v]}
           K == {n \in (d.settled + 1)..d.recorded :
                   lowered(n) # {} /\ lowered(n) \subseteq Members(Configs[d.conf])}
           all == [n \in 1..d.recorded |-> n]
           due == Picked(all, K)
           u == PendingUnstakes(d)
           who(i) == CHOOSE v \in Validators : v \in lowered(due[i])
<1>1. d.settled \in Nat /\ d.recorded \in Nat /\ 0..d.recorded \subseteq DOMAIN Configs
  BY DEF IsKnown, IsDb
<1>2. all \in Seq(Nat) /\ Len(all) = d.recorded /\ DOMAIN all = 1..d.recorded
  <2> DEFINE n == d.recorded
  <2>1. n \in Nat
    BY <1>1
  <2> HIDE DEF n
  <2>2. [i \in 1..n |-> i] \in [1..n -> Nat]
    BY <2>1
  <2>3. [i \in 1..n |-> i] \in Seq(Nat) /\ Len([i \in 1..n |-> i]) = n
    BY <2>1, <2>2
  <2> QED BY <2>3 DEF n
<1>3. K \subseteq DOMAIN all
  BY <1>1, <1>2
<1>4. u = [i \in DOMAIN due |-> Pay(Backup[who(i)], Committed(due[i] - 1)[who(i)] - Committed(due[i])[who(i)])]
  BY DEF PendingUnstakes
<1>5. ASSUME NEW i \in 1..Len(due), due[i] \in K
      PROVE  Committed(due[i] - 1)[who(i)] - Committed(due[i])[who(i)] \in Int /\ who(i) \in Validators
  <2> DEFINE n == due[i]
             v == who(i)
  <2>1. lowered(n) # {} /\ n \in (d.settled + 1)..d.recorded
    BY <1>5
  <2>2. v \in Validators
    BY <2>1
  <2> HIDE DEF due, K, who
  <2>3. n \in 0..d.recorded /\ n - 1 \in 0..d.recorded
    BY <1>1, <2>1
  <2> HIDE DEF n, v
  <2>4. Committed(n)[v] \in Nat /\ Committed(n - 1)[v] \in Nat
    BY <1>1, <2>2, <2>3, StakesOK
  <2>5. Committed(n - 1)[v] - Committed(n)[v] \in Int
    BY <2>4
  <2> QED BY <2>2, <2>5 DEF n, v
<1> HIDE DEF all, K, due, u, who
<1>6. due \in Seq(Nat) /\ \E m : Enumerates(due, all, m, K)
  BY <1>2, <1>3, PickedEnumerates DEF due
<1>7. PICK m : Enumerates(due, all, m, K)
  BY <1>6
<1>8. Len(due) \in Nat /\ DOMAIN due = 1..Len(due)
  BY <1>6
<1>9. ASSUME NEW i \in 1..Len(due) PROVE due[i] \in K
  <2>1. m[i] \in K /\ due[i] = all[m[i]]
    BY <1>7 DEF Enumerates
  <2>2. all[m[i]] = m[i]
    BY <1>2, <1>3, <2>1 DEF all
  <2> QED BY <2>1, <2>2
<1>10. ASSUME NEW i \in 1..Len(due) PROVE u[i].value \in Int /\ u[i].to \in Backups
  <2>1. u[i] = Pay(Backup[who(i)], Committed(due[i] - 1)[who(i)] - Committed(due[i])[who(i)])
    BY <1>4, <1>8
  <2>2. Committed(due[i] - 1)[who(i)] - Committed(due[i])[who(i)] \in Int /\ who(i) \in Validators
    BY <1>5, <1>9
  <2> QED BY <2>1, <2>2 DEF Pay, Backups
<1>11. u = [i \in 1..Len(due) |-> u[i]]
  BY <1>4, <1>8
<1>12. IsOuts(u) /\ Len(u) = Len(due)
  BY <1>8, <1>10, <1>11, OutsFunction
<1> QED BY <1>10, <1>12 DEF u, ToBackups

LEMMA CompletedOK ==
  ASSUME NEW d, IsKnown(d), NEW want \in Wants
  PROVE  IsMsg(Completed(d, want)) /\ ToBackups(Completed(d, want).unstakes)
<1> DEFINE m == Completed(d, want)
<1>1. want.withdrawals \in Seq(Payments) /\ want.transfers \in Seq([dest : {Self} \cup DOMAIN OtherAddress, value : Nat])
  BY DEF Wants
<1>2. IsOuts(want.withdrawals)
  <2> DEFINE t == want.withdrawals
  <2>1. t \in Seq(Payments) /\ \A x \in Payments : x.value \in Int
    BY <1>1 DEF Payments
  <2> HIDE DEF t
  <2>2. \A i \in 1..Len(t) : t[i] \in Payments
    BY <2>1
  <2>3. IsOuts(t)
    BY <2>1, <2>2 DEF IsOuts
  <2> QED BY <2>3 DEF t
<1>3. IsOuts(want.transfers)
  <2> DEFINE T == [dest : {Self} \cup DOMAIN OtherAddress, value : Nat]
             t == want.transfers
  <2>1. t \in Seq(T) /\ \A x \in T : x.value \in Int
    BY <1>1
  <2> HIDE DEF T, t
  <2>2. \A i \in 1..Len(t) : t[i] \in T
    BY <2>1
  <2>3. IsOuts(t)
    BY <2>1, <2>2 DEF IsOuts
  <2> QED BY <2>3 DEF t
<1>4. d.conf \in DOMAIN Configs
  BY DEF IsKnown, IsDb
<1>5. IsOuts(CommitteeUnstakes(d.conf)) /\ IsOuts(PendingUnstakes(d)) /\ IsOuts(<<>>)
  BY <1>4, CommitteeUnstakesOK, PendingUnstakesOK, OutsEmpty
<1>6. m.withdrawals = want.withdrawals /\ m.transfers = want.transfers /\ m.kill \in BOOLEAN
      /\ m.unstakes = IF m.kill THEN CommitteeUnstakes(d.conf)
                       ELSE IF want.conf > d.conf THEN PendingUnstakes(d) ELSE <<>>
  BY DEF Completed
<1> HIDE DEF m
<1>7. IsOuts(m.unstakes) /\ ToBackups(m.unstakes)
  <2>1. ToBackups(<<>>)
    BY DEF ToBackups
  <2> QED BY <1>4, <1>5, <1>6, <2>1, CommitteeUnstakesOK, PendingUnstakesOK
<1>8. IsMsg(m)
  BY <1>2, <1>3, <1>6, <1>7 DEF IsMsg
<1> QED BY <1>7, <1>8 DEF m

----------------------------------------------------------------------------
(* The invariant of the coins and of the transactions that spend them.     *)

Drafts == {s.tx : s \in signed}

Fair(tx) == FeeOK(tx.spent - Paid(tx.outs), Len(tx.outs), Cardinality(tx.ins))

IsTx(tx) == IsOuts(tx.outs) /\ \A x \in tx.ins : x \in Nat /\ x < nextId

TakesAll(tx) == IsCheckpoint(tx) /\ (tx.to # tx.from \/ tx.meta.kill)

\* What a rotation or a kill does not take, another transaction takes, or it was
\* not there yet.
Sweeping(s) ==
  TakesAll(s.tx) => \A c \in coins : (c.at = s.tx.from /\ c.id < s.since) =>
                      c.id \in s.tx.ins \/ \E ahead \in mempool : c.id \in ahead.ins

CoinInv ==
  /\ nextId \in Nat /\ IsCoins(coins)
  /\ \A c \in coins : c.id \in Nat /\ c.id < nextId
  /\ wants \in Seq(Wants) /\ deposits \in Seq(Nat) /\ spends \subseteq Payments

\* A coin that a checkpoint on the chain spent is gone for good.
Gone == \A i \in 1..Len(chain) : IsCheckpoint(chain[i]) =>
          chain[i] \in Drafts /\ \A c \in coins : c.id \notin chain[i].ins

TxInv ==
  /\ \A s \in signed : /\ IsTx(s.tx) /\ Fair(s.tx) /\ Sweeping(s)
                       /\ s.since \in Nat /\ s.since <= nextId
  /\ mempool \subseteq Drafts
  /\ Gone

LEMMA UnionOfCoins ==
  ASSUME NEW S, IsCoins(S), NEW T, IsCoins(T), \A c \in S, e \in T : c.id # e.id
  PROVE  IsCoins(S \cup T)
<1>1. IsFiniteSet(S \cup T)
  BY FS_Union DEF IsCoins
<1> QED BY <1>1 DEF IsCoins

\* new coins have ids from b on and below n.
NewCoins(new, b, n) == IsCoins(new) /\ \A c \in new : c.id \in Nat /\ c.id >= b /\ c.id < n

\* Coins are spent and others come.
LEMMA CoinsMove ==
  ASSUME CoinInv, TxInv, NEW gone, NEW new,
         coins' = {c \in coins : c.id \notin gone} \cup new,
         nextId' \in Nat, nextId <= nextId', NewCoins(new, nextId, nextId'),
         wants' = wants, spends' = spends, deposits' \in Seq(Nat), signed' = signed,
         mempool' \subseteq mempool,
         \A tx \in mempool \ mempool' : tx.ins \subseteq gone,
         \A i \in 1..Len(chain') : IsCheckpoint(chain'[i]) =>
            \/ \E j \in 1..Len(chain) : chain'[i] = chain[j]
            \/ chain'[i] \in mempool /\ chain'[i].ins \subseteq gone
  PROVE  CoinInv' /\ TxInv'
<1> DEFINE old == {c \in coins : c.id \notin gone}
<1>1. nextId \in Nat /\ IsCoins(coins) /\ \A c \in coins : c.id \in Nat /\ c.id < nextId
  BY DEF CoinInv
<1>2. IsCoins(old)
  BY <1>1, CoinsPart
<1>3. \A c \in old : c.id \in Nat /\ c.id < nextId /\ c \in coins /\ c.id \notin gone
  BY <1>1
<1>4. \A c \in new : c.id \in Nat /\ c.id >= nextId /\ c.id < nextId'
  BY DEF NewCoins
<1>5. coins' = old \cup new
  OBVIOUS
<1> HIDE DEF old
<1>6. \A c \in old, e \in new : c.id # e.id
  BY <1>1, <1>3, <1>4
<1>7. IsCoins(coins')
  BY <1>2, <1>5, <1>6, UnionOfCoins DEF NewCoins
<1>8. \A c \in coins' : c.id \in Nat /\ c.id < nextId'
  BY <1>1, <1>3, <1>4, <1>5
<1>9. CoinInv'
  BY <1>7, <1>8 DEF CoinInv
<1>10. Drafts' = Drafts
  BY DEF Drafts
<1>11. ASSUME NEW tx, IsTx(tx)
       PROVE  /\ IsTx(tx)' /\ \A c \in new : c.id \notin tx.ins
  <2>1. \A x \in tx.ins : x \in Nat /\ x < nextId
    BY <1>11 DEF IsTx
  <2>2. \A x \in tx.ins : x < nextId'
    BY <1>1, <2>1
  <2>3. \A c \in new : c.id \notin tx.ins
    BY <1>1, <1>4, <2>1
  <2> QED BY <1>11, <2>1, <2>2, <2>3 DEF IsTx
<1>12. ASSUME NEW s \in signed PROVE Sweeping(s)'
  <2> SUFFICES ASSUME TakesAll(s.tx), NEW c \in coins', c.at = s.tx.from, c.id < s.since
      PROVE  c.id \in s.tx.ins \/ \E ahead \in mempool' : c.id \in ahead.ins
    BY DEF Sweeping
  <2>1. s.since \in Nat /\ s.since <= nextId /\ Sweeping(s)
    BY DEF TxInv
  <2>2. c \in old
    BY <1>1, <1>4, <1>5, <2>1
  <2>3. c.id \in s.tx.ins \/ \E ahead \in mempool : c.id \in ahead.ins
    BY <1>3, <2>1, <2>2 DEF Sweeping
  <2> QED BY <1>3, <2>2, <2>3
<1>13. ASSUME NEW s \in signed
       PROVE IsTx(s.tx)' /\ Fair(s.tx) /\ s.since \in Nat /\ s.since <= nextId'
  <2>1. IsTx(s.tx) /\ Fair(s.tx) /\ s.since \in Nat /\ s.since <= nextId
    BY DEF TxInv
  <2>2. IsTx(s.tx)'
    BY <1>11, <2>1
  <2> QED BY <1>1, <2>1, <2>2
<1>14. Gone'
  <2> SUFFICES ASSUME NEW i \in 1..Len(chain'), IsCheckpoint(chain'[i])
      PROVE  chain'[i] \in Drafts /\ \A c \in coins' : c.id \notin chain'[i].ins
    BY <1>10 DEF Gone
  <2> DEFINE tx == chain'[i]
  <2>1. tx \in Drafts /\ \A c \in old : c.id \notin tx.ins
    <3>1. CASE \E j \in 1..Len(chain) : tx = chain[j]
      BY <1>3, <3>1 DEF TxInv, Gone
    <3>2. CASE tx \in mempool /\ tx.ins \subseteq gone
      BY <1>3, <3>2 DEF TxInv
    <3> QED BY <3>1, <3>2
  <2> HIDE DEF tx
  <2>2. IsTx(tx)
    BY <2>1 DEF TxInv, Drafts
  <2>3. \A c \in new : c.id \notin tx.ins
    BY <1>11, <2>2
  <2>4. \A c \in coins' : c.id \notin tx.ins
    BY <1>5, <2>1, <2>3
  <2> QED BY <2>1, <2>4 DEF tx
<1>15. mempool' \subseteq Drafts'
  BY <1>10 DEF TxInv
<1>16. \A s \in signed' : Fair(s.tx)'
  BY <1>13 DEF Fair
<1>17. TxInv'
  BY <1>12, <1>13, <1>14, <1>15, <1>16 DEF TxInv
<1> QED BY <1>9, <1>17

\* Nothing is spent: a draft may be signed or sent.
LEMMA CoinsStay ==
  ASSUME CoinInv, TxInv, UNCHANGED <<coins, nextId, wants, deposits>>, spends' \subseteq spends,
         signed \subseteq signed', mempool \subseteq mempool', mempool' \subseteq Drafts',
         \A i \in 1..Len(chain') : IsCheckpoint(chain'[i]) => \E j \in 1..Len(chain) : chain'[i] = chain[j],
         \A s \in signed' \ signed : /\ IsTx(s.tx) /\ Fair(s.tx) /\ Sweeping(s)
                                      /\ s.since \in Nat /\ s.since <= nextId
  PROVE  CoinInv' /\ TxInv'
<1>1. CoinInv'
  BY DEF CoinInv
<1>2. ASSUME NEW s \in signed'
      PROVE  IsTx(s.tx) /\ Fair(s.tx) /\ Sweeping(s) /\ s.since \in Nat /\ s.since <= nextId
  BY DEF TxInv
<1>3. ASSUME NEW s \in signed' PROVE IsTx(s.tx)' /\ Fair(s.tx)' /\ Sweeping(s)'
  BY <1>2, <1>3 DEF IsTx, Fair, Sweeping
<1>4. Gone'
  BY DEF Gone, TxInv, Drafts
<1>5. TxInv'
  BY <1>2, <1>3, <1>4 DEF TxInv
<1> QED BY <1>1, <1>5

\* Coins f[i], the one of index i with id b + i.
Numbered(f, K, b) == DOMAIN f = K /\ \A i \in K : f[i].id = b + i /\ f[i].value \in Int

LEMMA NumberedCoins ==
  ASSUME NEW K, IsFiniteSet(K), NEW n \in Nat, K \subseteq 1..n, NEW b \in Nat, NEW f,
         Numbered(f, K, b), NEW S, S = {f[i] : i \in K}
  PROVE  NewCoins(S, b, b + n + 1)
<1> DEFINE g == [i \in K |-> f[i]]
<1>1. g \in Surjection(K, S)
  BY DEF Surjection
<1>2. ASSUME NEW c \in S PROVE c.value \in Int /\ c.id \in Nat /\ c.id >= b /\ c.id < b + n + 1
  <2>1. PICK i \in K : c = f[i]
    OBVIOUS
  <2>2. i \in 1..n
    OBVIOUS
  <2> QED BY <2>1, <2>2 DEF Numbered
<1>3. ASSUME NEW c \in S, NEW e \in S, c.id = e.id PROVE c = e
  <2>1. PICK i \in K : c = f[i]
    OBVIOUS
  <2>2. PICK j \in K : e = f[j]
    OBVIOUS
  <2>3. i \in 1..n /\ j \in 1..n /\ b + i = b + j
    BY <1>3, <2>1, <2>2 DEF Numbered
  <2>4. i = j
    BY <2>3
  <2> QED BY <2>1, <2>2, <2>4
<1> HIDE DEF g
<1>4. IsFiniteSet(S)
  BY <1>1, FS_Surjection
<1> QED BY <1>2, <1>3, <1>4 DEF NewCoins, IsCoins

LEMMA OneCoin ==
  ASSUME NEW b \in Nat, NEW c, c.id = b, c.value \in Int
  PROVE  NewCoins({c}, b, b + 1)
BY FS_Singleton DEF NewCoins, IsCoins

LEMMA InitCoins == Init => CoinInv /\ TxInv
<1> SUFFICES ASSUME Init PROVE CoinInv /\ TxInv
  OBVIOUS
<1>1. PICK sc \in Scenarios :
        /\ coins = {[id |-> i, at |-> WhitelistAddress, value |-> sc.collateral[i]]
                      : i \in DOMAIN sc.collateral}
                   \cup {[id |-> Len(sc.collateral) + i, at |-> Here(0), value |-> sc.funds[i]]
                           : i \in DOMAIN sc.funds}
        /\ nextId = Len(sc.collateral) + Len(sc.funds) + 1
        /\ wants = sc.wants /\ deposits = sc.deposits /\ spends = sc.spends
  BY DEF Init
<1>2. sc.collateral \in Seq(Nat) /\ sc.funds \in Seq(Nat) /\ deposits \in Seq(Nat)
      /\ wants \in Seq(Wants) /\ spends \subseteq Payments
  BY <1>1, TreasuryConstants
<1> DEFINE k == Len(sc.collateral)
           l == Len(sc.funds)
           f == [i \in 1..k |-> [id |-> i, at |-> WhitelistAddress, value |-> sc.collateral[i]]]
           g == [i \in 1..l |-> [id |-> k + i, at |-> Here(0), value |-> sc.funds[i]]]
           S == {f[i] : i \in 1..k}
           T == {g[i] : i \in 1..l}
<1>3. k \in Nat /\ l \in Nat /\ DOMAIN sc.collateral = 1..k /\ DOMAIN sc.funds = 1..l
  BY <1>2
<1>4. coins = S \cup T
  <2>1. S = {[id |-> i, at |-> WhitelistAddress, value |-> sc.collateral[i]] : i \in DOMAIN sc.collateral}
    BY <1>3
  <2>2. T = {[id |-> Len(sc.collateral) + i, at |-> Here(0), value |-> sc.funds[i]] : i \in DOMAIN sc.funds}
    BY <1>3
  <2> HIDE DEF S, T
  <2> QED BY <1>1, <2>1, <2>2
<1>5. Numbered(f, 1..k, 0)
  <2>1. \A i \in 1..k : sc.collateral[i] \in Nat
    BY <1>2
  <2> HIDE DEF k
  <2> QED BY <1>3, <2>1 DEF Numbered
<1>6. Numbered(g, 1..l, k)
  <2>1. \A i \in 1..l : sc.funds[i] \in Nat
    BY <1>2
  <2> HIDE DEF k, l
  <2> QED BY <1>3, <2>1 DEF Numbered
<1> HIDE DEF f, g, k, l
<1>7. IsFiniteSet(1..k) /\ IsFiniteSet(1..l)
  BY <1>3, FS_Interval
<1>8. NewCoins(S, 0, 0 + k + 1)
  <2>1. S = {f[i] : i \in 1..k} /\ 1..k \subseteq 1..k /\ 0 \in Nat
    OBVIOUS
  <2> HIDE DEF S, T
  <2> QED BY ONLY <1>3, <1>5, <1>7, <2>1, NumberedCoins
<1>9. NewCoins(T, k, k + l + 1)
  <2>1. T = {g[i] : i \in 1..l} /\ 1..l \subseteq 1..l
    OBVIOUS
  <2> HIDE DEF S, T
  <2> QED BY ONLY <1>3, <1>6, <1>7, <2>1, NumberedCoins
<1>10. \A c \in S : \A e \in T : c.id # e.id
  <2> SUFFICES ASSUME NEW i \in 1..k, NEW j \in 1..l PROVE f[i].id # g[j].id
    OBVIOUS
  <2> QED BY <1>3, <1>5, <1>6 DEF Numbered
<1> HIDE DEF S, T
<1>11. IsCoins(coins)
  BY <1>4, <1>8, <1>9, <1>10, UnionOfCoins DEF NewCoins
<1>12. nextId = k + l + 1
  BY <1>1 DEF k, l
<1>13. \A c \in coins : c.id \in Nat /\ c.id < nextId
  BY <1>3, <1>4, <1>8, <1>9, <1>12 DEF NewCoins
<1>14. CoinInv
  <2>1. nextId \in Nat
    BY ONLY <1>3, <1>12
  <2>2. wants \in Seq(Wants) /\ deposits \in Seq(Nat) /\ spends \subseteq Payments
    BY <1>2
  <2> QED BY ONLY <2>1, <2>2, <1>11, <1>13 DEF CoinInv
<1>15. chain = <<>> /\ signed = {} /\ mempool = {}
  BY DEF Init
<1>16. 1..Len(chain) = {}
  BY <1>15
<1>17. TxInv
  BY <1>15, <1>16 DEF TxInv, Gone
<1> QED BY <1>14, <1>17

LEMMA DepositCoins ==
  ASSUME CoinInv, TxInv, NEW v \in Validators, Deposit(v)
  PROVE  CoinInv' /\ TxInv'
<1> DEFINE c == [id |-> nextId, at |-> Here(db[v].conf), value |-> Head(deposits)]
<1>1. nextId \in Nat /\ deposits \in Seq(Nat) /\ deposits # <<>>
  BY DEF CoinInv, Deposit
<1>2. Head(deposits) \in Nat /\ deposits' \in Seq(Nat)
  BY <1>1 DEF Deposit
<1>3. nextId' = nextId + 1 /\ UNCHANGED <<wants, spends, signed, mempool, chain>>
  BY DEF Deposit
<1>4. coins' = {e \in coins : e.id \notin {}} \cup {c}
  BY DEF Deposit
<1>5. c.id = nextId /\ c.value \in Int
  BY <1>2
<1> HIDE DEF c
<1>6. NewCoins({c}, nextId, nextId')
  BY <1>1, <1>3, <1>5, OneCoin
<1>7. nextId' \in Nat /\ nextId <= nextId'
  BY <1>1, <1>3
<1>8. \A tx \in mempool \ mempool' : tx.ins \subseteq {}
  BY <1>3
<1>9. \A i \in 1..Len(chain') : IsCheckpoint(chain'[i]) =>
            \/ \E j \in 1..Len(chain) : chain'[i] = chain[j]
            \/ chain'[i] \in mempool /\ chain'[i].ins \subseteq {}
  BY <1>3
<1> QED BY <1>2, <1>3, <1>4, <1>6, <1>7, <1>8, <1>9, CoinsMove

LEMMA RevealCoins ==
  ASSUME CoinInv, TxInv, NEW tx \in reveals, ConfirmReveal(tx)
  PROVE  CoinInv' /\ TxInv'
<1> DEFINE c == [id |-> nextId, at |-> tx.from, value |-> Dust]
<1>1. nextId \in Nat
  BY DEF CoinInv
<1>3. nextId' = nextId + 1 /\ UNCHANGED <<wants, spends, deposits, signed, mempool, chain>>
  BY DEF ConfirmReveal, outside
<1>2. deposits' \in Seq(Nat)
  BY <1>3 DEF CoinInv
<1>4. coins' = {e \in coins : e.id \notin {}} \cup {c}
  BY DEF ConfirmReveal
<1>5. c.id = nextId /\ c.value \in Int
  BY SpendingConstants
<1> HIDE DEF c
<1>6. NewCoins({c}, nextId, nextId')
  BY <1>1, <1>3, <1>5, OneCoin
<1>7. nextId' \in Nat /\ nextId <= nextId'
  BY <1>1, <1>3
<1>8. \A t \in mempool \ mempool' : t.ins \subseteq {}
  BY <1>3
<1>9. \A i \in 1..Len(chain') : IsCheckpoint(chain'[i]) =>
            \/ \E j \in 1..Len(chain) : chain'[i] = chain[j]
            \/ chain'[i] \in mempool /\ chain'[i].ins \subseteq {}
  BY <1>3
<1> QED BY <1>2, <1>3, <1>4, <1>6, <1>7, <1>8, <1>9, CoinsMove

LEMMA ConfirmCoins ==
  ASSUME FollowInv, CoinInv, TxInv, NEW tx \in mempool, Confirm(tx)
  PROVE  CoinInv' /\ TxInv'
<1> DEFINE n == Len(tx.outs)
           K == {i \in DOMAIN tx.outs : tx.outs[i].to \in Ours}
           f == [i \in K |-> [id |-> nextId + i, at |-> tx.outs[i].to, value |-> tx.outs[i].value]]
           new == {f[i] : i \in K}
<1>1. nextId \in Nat
  BY DEF CoinInv
<1>2. IsTx(tx)
  BY DEF TxInv, Drafts
<1>3. IsOuts(tx.outs)
  BY <1>2 DEF IsTx
<1>4. n \in Nat /\ DOMAIN tx.outs = 1..n
  BY <1>3, PaidInt
<1>5. K \subseteq 1..n /\ IsFiniteSet(1..n)
  BY <1>4, FS_Interval
<1>6. Numbered(f, K, nextId)
  BY <1>3, <1>4 DEF IsOuts, Numbered
<1>7. coins' = {c \in coins : c.id \notin tx.ins} \cup new
  <2>1. new = {[id |-> nextId + i, at |-> tx.outs[i].to, value |-> tx.outs[i].value] : i \in K}
    OBVIOUS
  <2> HIDE DEF new
  <2> QED BY <2>1 DEF Confirm
<1>8. nextId' = nextId + n + 1 /\ UNCHANGED <<wants, spends, deposits, signed>> /\ mempool' = mempool \ {tx}
  BY DEF Confirm, outside
<1> HIDE DEF n, K, f
<1>9. IsFiniteSet(K)
  BY <1>5, FS_Subset
<1>10. NewCoins(new, nextId, nextId')
  <2>1. new = {f[i] : i \in K}
    OBVIOUS
  <2> HIDE DEF new
  <2>2. NewCoins(new, nextId, nextId + n + 1)
    BY ONLY <1>1, <1>4, <1>5, <1>6, <1>9, <2>1, NumberedCoins
  <2> QED BY <1>8, <2>2
<1>11. nextId' \in Nat /\ nextId <= nextId'
  BY <1>1, <1>4, <1>8
<1>12. \A t \in mempool \ mempool' : t.ins \subseteq tx.ins
  BY <1>8
<1>13. \A i \in 1..Len(chain') : IsCheckpoint(chain'[i]) =>
            \/ \E j \in 1..Len(chain) : chain'[i] = chain[j]
            \/ chain'[i] \in mempool /\ chain'[i].ins \subseteq tx.ins
  <2>1. PICK S : chain \in Seq(S)
    BY DEF FollowInv
  <2>2. CASE chain' = chain
    BY <2>2
  <2>3. CASE chain' = Append(chain, tx)
    <3>1. \A i \in 1..Len(chain') : chain'[i] = tx \/ (i \in 1..Len(chain) /\ chain'[i] = chain[i])
      BY <2>1, <2>3
    <3> QED BY <3>1
  <2> QED BY <2>2, <2>3 DEF Confirm
<1>14. deposits' \in Seq(Nat) /\ mempool' \subseteq mempool
  BY <1>8 DEF CoinInv
<1> HIDE DEF new
<1> QED BY <1>7, <1>8, <1>10, <1>11, <1>12, <1>13, <1>14, CoinsMove

----------------------------------------------------------------------------
(* What a provider signs.                                                  *)

\* tx is t with the ids of its coins.
Carries(tx, t) == tx.ins = {c.id : c \in t.ins} /\ tx.outs = t.outs /\ tx.spent = Total(t.ins)

LEMMA CarriedIsFair ==
  ASSUME CoinInv, NEW S, S \subseteq coins, NEW all, NEW t, SpendsFrom(t, S, all), NEW tx, Carries(tx, t)
  PROVE  IsTx(tx) /\ Fair(tx) /\ (all => \A c \in S : c.id \in tx.ins)
<1>1. PICK ins \in SUBSET S : Spends(t, ins) /\ (all => ins = S)
  BY DEF SpendsFrom
<1>2. t.ins = ins /\ IsOuts(t.outs) /\ FeeOK(Total(ins) - Paid(t.outs), Len(t.outs), Cardinality(ins))
  BY <1>1 DEF Spends
<1>3. tx.ins = {c.id : c \in ins} /\ tx.outs = t.outs /\ tx.spent = Total(ins)
  BY <1>2 DEF Carries
<1>4. IsCoins(ins)
  BY CoinsPart DEF CoinInv
<1>5. Cardinality(tx.ins) = Cardinality(ins)
  BY <1>3, <1>4, AsManyIds
<1>6. Fair(tx)
  BY <1>2, <1>3, <1>5 DEF Fair
<1>7. IsTx(tx)
  BY <1>2, <1>3 DEF IsTx, CoinInv
<1> QED BY <1>1, <1>3, <1>6, <1>7

LEMMA SignCoins ==
  ASSUME CoinInv, TxInv, NEW v \in Validators, NEW tx, NEW all \in BOOLEAN, Sign(v, tx, all),
         IsTx(tx), Fair(tx), TakesAll(tx) => all,
         TakesAll(tx) => \A c \in Unspent(tx.from) : c.id \in tx.ins
  PROVE  CoinInv' /\ TxInv'
<1> DEFINE s == [tx |-> tx, by |-> v, since |-> IF all THEN nextId ELSE 0]
<1>1. UNCHANGED <<coins, nextId, wants, deposits, spends, chain, mempool>>
  BY DEF Sign, outside
<1>2. signed' = signed \cup {s}
  BY DEF Sign
<1>3. s.tx = tx /\ s.since = IF all THEN nextId ELSE 0
  OBVIOUS
<1> HIDE DEF s
<1>4. nextId \in Nat
  BY DEF CoinInv
<1>5. s.since \in Nat /\ s.since <= nextId
  BY <1>3, <1>4
<1>6. Sweeping(s)
  <2> SUFFICES ASSUME TakesAll(tx), NEW c \in coins, c.at = tx.from, c.id < s.since
      PROVE  c.id \in tx.ins \/ \E ahead \in mempool : c.id \in ahead.ins
    BY <1>3 DEF Sweeping
  <2>1. CASE c \in Unspent(tx.from)
    BY <2>1
  <2>2. CASE c \notin Unspent(tx.from)
    BY <2>2 DEF Unspent
  <2> QED BY <2>1, <2>2
<1>7. mempool' \subseteq Drafts'
  BY <1>1, <1>2 DEF TxInv, Drafts
<1>8. \A i \in 1..Len(chain') : IsCheckpoint(chain'[i]) => \E j \in 1..Len(chain) : chain'[i] = chain[j]
  BY <1>1
<1>9. \A r \in signed' \ signed : /\ IsTx(r.tx) /\ Fair(r.tx) /\ Sweeping(r)
                                      /\ r.since \in Nat /\ r.since <= nextId
  BY <1>2, <1>3, <1>5, <1>6
<1> QED BY <1>1, <1>2, <1>7, <1>8, <1>9, CoinsStay

LEMMA UnspentCoins == ASSUME CoinInv, NEW a PROVE Unspent(a) \subseteq coins /\ IsCoins(Unspent(a))
<1>1. Unspent(a) \subseteq coins
  BY DEF Unspent
<1> QED BY <1>1, CoinsPart DEF CoinInv

LEMMA KnownDb ==
  ASSUME FollowInv, NEW v \in Validators
  PROVE  IsKnown(db[v])
<1>1. PICK D : Follow(D)
  BY DEF FollowInv
<1>2. seen[v] \in 0..Len(chain) /\ db[v] = D[seen[v]]
  BY <1>1 DEF Follow
<1>3. IsDb(db[v]) /\ 0..(db[v].recorded + Len(events)) \subseteq DOMAIN Configs
  BY <1>1, <1>2 DEF Follow, States
<1>4. Len(events) \in Nat /\ db[v].recorded \in Nat
  BY <1>3 DEF FollowInv, IsDb
<1>5. 0..db[v].recorded \subseteq 0..(db[v].recorded + Len(events))
  BY <1>4
<1> QED BY <1>3, <1>5 DEF IsKnown

At(d, m) == [dest \in Destinations(m) |-> IF dest = Self THEN Here(d.conf) ELSE OtherAddress[dest]]

\* What is in a checkpoint transaction.
LEMMA CheckpointParts ==
  ASSUME NEW d, NEW m, NEW tx \in CheckpointTxs(d, m)
  PROVE  \E order, t :
           /\ order \in SetToSeqs(Destinations(m))
           /\ t = ToCheckpointPsbt(m, Unspent(Here(d.conf)), Here(NextConf(d, m)) # Here(d.conf), order, At(d, m),
                                   Here(NextConf(d, m)))
           /\ t.ok /\ Carries(tx, t) /\ tx.from = Here(d.conf) /\ tx.to = Here(NextConf(d, m))
           /\ tx.meta = Metadata(m) /\ tx.kind = "checkpoint" /\ tx.msg = m
<1> DEFINE at == At(d, m)
           rotates == Here(NextConf(d, m)) # Here(d.conf)
           built(order) == ToCheckpointPsbt(m, Unspent(Here(d.conf)), rotates, order, at, Here(NextConf(d, m)))
           all == {t \in {built(order) : order \in SetToSeqs(Destinations(m))} : t.ok}
<1>1. PICK t \in all :
        tx = [kind |-> "checkpoint", from |-> Here(d.conf), to |-> Here(NextConf(d, m)),
              ins |-> {c.id : c \in t.ins}, outs |-> t.outs, spent |-> Total(t.ins),
              meta |-> Metadata(m), number |-> d.count + 1, msg |-> m]
  BY DEF CheckpointTxs, At
<1>2. PICK order \in SetToSeqs(Destinations(m)) : t = built(order) /\ t.ok
  OBVIOUS
<1> HIDE DEF at, all
<1>3. Carries(tx, t) /\ tx.from = Here(d.conf) /\ tx.to = Here(NextConf(d, m))
      /\ tx.meta = Metadata(m) /\ tx.kind = "checkpoint" /\ tx.msg = m
  BY <1>1 DEF Carries
<1> QED BY <1>2, <1>3 DEF at

LEMMA GenCheckpointCoins ==
  ASSUME FollowInv, CoinInv, TxInv, NEW v \in Validators, GenCheckpoint(v)
  PROVE  CoinInv' /\ TxInv'
<1> DEFINE d == db[v]
           m == Completed(d, wants[d.count + 1])
<1>1. d.count < Len(wants) /\ \E tx \in CheckpointTxs(d, m) : Sign(v, tx, m.kill \/ tx.to # tx.from)
  BY DEF GenCheckpoint
<1>2. IsKnown(d)
  BY KnownDb
<1>3. wants[d.count + 1] \in Wants
  <2>1. d.count \in Nat /\ wants \in Seq(Wants)
    BY <1>2 DEF IsKnown, IsDb, CoinInv
  <2>2. d.count + 1 \in 1..Len(wants)
    BY <1>1, <2>1
  <2> QED BY <2>1, <2>2
<1>4. IsMsg(m)
  BY <1>2, <1>3, CompletedOK
<1> HIDE DEF m, d
<1>5. PICK tx \in CheckpointTxs(d, m) : Sign(v, tx, m.kill \/ tx.to # tx.from)
  BY <1>1
<1> DEFINE from == Here(d.conf)
           to == Here(NextConf(d, m))
           S == Unspent(from)
           rotates == to # from
<1>6. PICK order, t :
           /\ order \in SetToSeqs(Destinations(m))
           /\ t = ToCheckpointPsbt(m, S, rotates, order, At(d, m), to)
           /\ t.ok /\ Carries(tx, t) /\ tx.from = from /\ tx.to = to
           /\ tx.meta = Metadata(m) /\ tx.kind = "checkpoint"
  BY <1>5, CheckpointParts
<1>7. S \subseteq coins /\ IsCoins(S)
  BY UnspentCoins
<1>8. rotates \in BOOLEAN /\ m.kill \in BOOLEAN
  BY <1>4 DEF IsMsg
<1>9. tx.meta.kill = m.kill
  BY <1>6 DEF Metadata
<1>10. rotates = (tx.to # tx.from)
  BY <1>6
<1> HIDE DEF from, to, S, rotates
<1>11. SpendsFrom(t, S, rotates \/ m.kill)
  BY <1>4, <1>6, <1>7, <1>8, CheckpointSpends
<1>12. IsTx(tx) /\ Fair(tx) /\ ((rotates \/ m.kill) => \A c \in S : c.id \in tx.ins)
  BY <1>6, <1>7, <1>11, CarriedIsFair
<1>13. TakesAll(tx) => (m.kill \/ tx.to # tx.from)
  BY <1>9 DEF TakesAll
<1>14. TakesAll(tx) => \A c \in Unspent(tx.from) : c.id \in tx.ins
  BY <1>6, <1>10, <1>12, <1>13 DEF S
<1>15. (m.kill \/ tx.to # tx.from) \in BOOLEAN
  BY <1>8
<1> QED BY <1>5, <1>12, <1>13, <1>14, <1>15, SignCoins

LEMMA HandoverCoins ==
  ASSUME FollowInv, CoinInv, TxInv, NEW v \in Validators, GenBootstrapHandover(v)
  PROVE  CoinInv' /\ TxInv'
<1> DEFINE S == Unspent(WhitelistAddress)
           t == ConstructSpend(S, TRUE, <<>>, Here(db[v].conf), 0)
           tx == [kind |-> "handover", from |-> WhitelistAddress,
                  ins |-> {c.id : c \in t.ins}, outs |-> t.outs,
                  spent |-> Total(t.ins), to |-> Here(db[v].conf)]
<1>1. t.ok /\ Sign(v, tx, FALSE)
  BY DEF GenBootstrapHandover
<1>2. Carries(tx, t) /\ ~TakesAll(tx)
  BY DEF Carries, TakesAll, IsCheckpoint
<1>3. S \subseteq coins /\ IsCoins(S)
  BY UnspentCoins
<1> HIDE DEF tx, S
<1>4. SpendsFrom(t, S, TRUE)
  BY <1>1, <1>3, OutsEmpty, ConstructSpends
<1> HIDE DEF t
<1>5. IsTx(tx) /\ Fair(tx)
  BY <1>2, <1>3, <1>4, CarriedIsFair
<1> QED BY <1>1, <1>2, <1>5, SignCoins

LEMMA MultisigSpendCoins ==
  ASSUME FollowInv, CoinInv, TxInv, NEW v \in Validators, NEW out \in spends, GenMultisigSpend(v, out)
  PROVE  CoinInv' /\ TxInv'
<1> DEFINE here == Here(db[v].conf)
           S == Unspent(here)
           t == ConstructSpend(S, FALSE, <<out>>, here, 0)
           tx == [kind |-> "spend", from |-> here, ins |-> {c.id : c \in t.ins},
                  outs |-> t.outs, spent |-> Total(t.ins), to |-> here]
<1>1. t.ok /\ Sign(v, tx, FALSE)
  BY DEF GenMultisigSpend
<1>2. Carries(tx, t) /\ ~TakesAll(tx)
  BY DEF Carries, TakesAll, IsCheckpoint
<1>3. S \subseteq coins /\ IsCoins(S)
  BY UnspentCoins
<1>4. IsOuts(<<out>>)
  <2>1. out \in Payments
    BY DEF CoinInv
  <2>2. out.value \in Int
    BY <2>1 DEF Payments
  <2> QED BY <2>2, OutsOne
<1> HIDE DEF tx, S, here
<1>5. SpendsFrom(t, S, FALSE)
  BY <1>1, <1>3, <1>4, ConstructSpends
<1> HIDE DEF t
<1>6. IsTx(tx) /\ Fair(tx)
  BY <1>2, <1>3, <1>5, CarriedIsFair
<1> QED BY <1>1, <1>2, <1>6, SignCoins

LEMMA FinalizeCoins ==
  ASSUME CoinInv, TxInv, NEW v \in Validators, NEW s \in signed, Finalize(v, s.tx)
  PROVE  CoinInv' /\ TxInv'
<1>1. UNCHANGED <<coins, nextId, wants, deposits, chain, signed>> /\ mempool' = mempool \cup {s.tx}
  BY DEF Finalize
<1>2. spends' \subseteq spends
  BY DEF Finalize
<1>3. mempool' \subseteq Drafts'
  BY <1>1 DEF TxInv, Drafts
<1>4. \A i \in 1..Len(chain') : IsCheckpoint(chain'[i]) => \E j \in 1..Len(chain) : chain'[i] = chain[j]
  BY <1>1
<1> QED BY <1>1, <1>2, <1>3, <1>4, CoinsStay

LEMMA StepCoins == ASSUME FollowInv, CoinInv, TxInv, [Next]_vars PROVE CoinInv' /\ TxInv'
<1>1. ASSUME UNCHANGED <<coins, nextId, wants, deposits, spends, signed, mempool>>,
             \A i \in 1..Len(chain') : IsCheckpoint(chain'[i]) => \E j \in 1..Len(chain) : chain'[i] = chain[j]
      PROVE  CoinInv' /\ TxInv'
  <2>1. mempool' \subseteq Drafts'
    BY <1>1 DEF TxInv, Drafts
  <2> QED BY <1>1, <2>1, CoinsStay
<1>2. ASSUME UNCHANGED <<coins, nextId, wants, deposits, spends, signed, mempool, chain>> PROVE CoinInv' /\ TxInv'
  <2>1. \A i \in 1..Len(chain') : IsCheckpoint(chain'[i]) => \E j \in 1..Len(chain) : chain'[i] = chain[j]
    BY <1>2
  <2> QED BY <1>1, <1>2, <2>1
<1>3. ASSUME NEW v \in Validators, Deposit(v) PROVE CoinInv' /\ TxInv'
  BY <1>3, DepositCoins
<1>4. ASSUME NEW v \in Validators, GenCheckpoint(v) PROVE CoinInv' /\ TxInv'
  BY <1>4, GenCheckpointCoins
<1>5. ASSUME NEW v \in Validators, GenBootstrapHandover(v) PROVE CoinInv' /\ TxInv'
  BY <1>5, HandoverCoins
<1>6. ASSUME NEW v \in Validators, NEW out \in spends, GenMultisigSpend(v, out) PROVE CoinInv' /\ TxInv'
  BY <1>6, MultisigSpendCoins
<1>7. ASSUME NEW v \in Validators, NEW s \in signed, Finalize(v, s.tx) PROVE CoinInv' /\ TxInv'
  BY <1>7, FinalizeCoins
<1>8. ASSUME NEW v \in Validators, Handle(v) PROVE CoinInv' /\ TxInv'
  BY <1>2, <1>8 DEF Handle, outside
<1>9. CASE Happens
  <2> DEFINE x == [kind |-> Head(events)]
  <2>1. UNCHANGED <<coins, nextId, wants, deposits, spends, signed, mempool>> /\ chain' = Append(chain, x)
    BY <1>9 DEF Happens
  <2>2. ~IsCheckpoint(x)
    <3>1. Head(events) \in {"change", "mark"}
      BY <1>9 DEF Happens, FollowInv
    <3> QED BY <3>1 DEF IsCheckpoint
  <2> HIDE DEF x
  <2>3. PICK S : chain \in Seq(S)
    BY DEF FollowInv
  <2>4. \A i \in 1..Len(chain') : chain'[i] = x \/ (i \in 1..Len(chain) /\ chain'[i] = chain[i])
    BY <2>1, <2>3
  <2>5. \A i \in 1..Len(chain') : IsCheckpoint(chain'[i]) => \E j \in 1..Len(chain) : chain'[i] = chain[j]
    BY <2>2, <2>4
  <2> QED BY <1>1, <2>1, <2>5
<1>10. ASSUME NEW tx \in mempool, Confirm(tx) PROVE CoinInv' /\ TxInv'
  BY <1>10, ConfirmCoins
<1>11. ASSUME NEW tx \in reveals, ConfirmReveal(tx) PROVE CoinInv' /\ TxInv'
  BY <1>11, RevealCoins
<1>12. CASE SendReveal
  BY <1>2, <1>12 DEF SendReveal, outside
<1>13. CASE Stop
  BY <1>2, <1>13 DEF Stop, outside
<1>14. CASE UNCHANGED vars
  BY <1>2, <1>14 DEF vars, outside
<1> QED
  BY <1>3, <1>4, <1>5, <1>6, <1>7, <1>8, <1>9, <1>10, <1>11, <1>12, <1>13, <1>14 DEF Next

\* The inductive invariant of the coins and the transactions.
THEOREM Money == Spec => [](FollowInv /\ CoinInv /\ TxInv)
<1>1. FollowInv /\ CoinInv /\ TxInv /\ [Next]_vars => (FollowInv /\ CoinInv /\ TxInv)'
  BY StepFollow, StepCoins
<1> QED BY <1>1, InitFollow, InitCoins, PTL DEF Spec

\* SweptByRotation: a coin that is still at the address of a committee whose
\* rotation or kill has confirmed came after the signers listed its coins, or a
\* transaction in the mempool spends it.
THEOREM RotationSweeps == Spec => []SweptByRotation
<1>1. FollowInv /\ CoinInv /\ TxInv => SweptByRotation
  <2> SUFFICES ASSUME FollowInv, CoinInv, TxInv, NEW tx \in Checkpoints, tx.to # tx.from \/ tx.meta.kill,
                      NEW c \in coins, NEW s \in signed, c.at = tx.from, s.tx = tx, ~(c.id >= s.since)
               PROVE  \E ahead \in mempool : c.id \in ahead.ins
    BY DEF SweptByRotation
  <2>1. PICK i \in DOMAIN chain : chain[i] = tx /\ IsCheckpoint(tx)
    BY DEF Checkpoints, IsCheckpoint
  <2>2. PICK S : chain \in Seq(S)
    BY DEF FollowInv
  <2>3. i \in 1..Len(chain)
    BY <2>2
  <2>4. c.id \notin tx.ins
    BY <2>1, <2>3 DEF TxInv, Gone
  <2>5. Sweeping(s) /\ s.since \in Nat /\ c.id \in Nat
    BY DEF TxInv, CoinInv
  <2>6. c.id < s.since
    BY <2>5
  <2>7. TakesAll(s.tx)
    BY <2>1 DEF TakesAll
  <2> QED BY <2>4, <2>5, <2>6, <2>7 DEF Sweeping
<1> QED BY <1>1, Money, PTL

\* FeesCovered: whatever coins and outputs a transaction is written from, it
\* pays the fee of its size, and no more than the fee of one more output and
\* the change that would have been dust.
THEOREM FairFees == Spec => []FeesCovered
<1>1. TxInv => FeesCovered
  BY DEF TxInv, Fair, FeeOK, FeesCovered
<1> QED BY <1>1, Money, PTL

----------------------------------------------------------------------------
(* What the kill checkpoint shares out.                                    *)

\* The shares of a kill checkpoint add up to what there is to share.
LEMMA SharesSum ==
  ASSUME NEW m, IsMsg(m), Paid(m.unstakes) > 0, m.unstakes # <<>>, NEW amount \in Int
  PROVE  SumFunctionOnSet([i \in 1..Len(m.unstakes) |-> Share(m, i, amount)], 1..Len(m.unstakes)) = amount
<1> DEFINE u == m.unstakes
           P == Paid(u)
           L == Len(u)
           n == L - 1
           part == [j \in DOMAIN u |-> Part(amount, u[j].value, P)]
           A == SumFunctionOnSet(part, 1..n)
           h == [i \in 1..L |-> Share(m, i, amount)]
<1>1. PICK S : u \in Seq(S)
  BY DEF IsMsg, IsOuts
<1>2. L \in Nat /\ L # 0 /\ DOMAIN u = 1..L
  BY <1>1
<1>3. ASSUME NEW i \in 1..L PROVE h[i] \in Int /\ h[i] = IF i < L THEN part[i] ELSE amount - A
  <2>1. Share(m, i, amount) \in Int
    BY ShareInt
  <2> QED BY <2>1 DEF Share
<1> HIDE DEF L, h, part, A
<1>4. n \in Nat /\ L = n + 1 /\ 1..n \subseteq 1..L /\ L \in 1..L /\ 1..L = 1..(n + 1) /\ ~(L < L)
  BY <1>2
<1>5. Ints(h, 1..(n + 1)) /\ IsFiniteSet(1..n)
  BY <1>3, <1>4, FS_Interval DEF Ints
<1>6. Ints(h, 1..n) /\ \A i \in 1..n : part[i] = h[i]
  <2> SUFFICES ASSUME NEW i \in 1..n PROVE h[i] \in Int /\ part[i] = h[i]
    BY DEF Ints
  <2>1. i \in 1..L /\ i < L
    BY <1>4
  <2> QED BY <1>3, <2>1
<1> HIDE DEF n
<1>7. A = SumFunctionOnSet(h, 1..n) /\ A \in Int
  <2>1. SumFunctionOnSet(part, 1..n) = SumFunctionOnSet(h, 1..n)
    BY <1>5, <1>6, SumSame
  <2>2. SumFunctionOnSet(h, 1..n) \in Int
    BY <1>5, <1>6, SumInt
  <2> QED BY <2>1, <2>2 DEF A
<1>8. SumFunctionOnSet(h, 1..(n + 1)) = SumFunctionOnSet(h, 1..n) + h[n + 1]
  BY <1>4, <1>5, SumLast
<1>9. h[n + 1] = amount - A
  BY <1>3, <1>4
<1>10. SumFunctionOnSet(h, 1..L) = amount
  BY <1>4, <1>7, <1>8, <1>9
<1> QED BY <1>10 DEF h, L

\* How far each share is from its proportion.
LEMMA SharesFair ==
  ASSUME NEW m, IsOuts(m.unstakes), Paid(m.unstakes) > 0, m.unstakes # <<>>,
         \A i \in 1..Len(m.unstakes) : m.unstakes[i].value \in Nat, NEW amount \in Nat,
         amount <= MaxMoney, Paid(m.unstakes) <= MaxMoney
  PROVE  LET u == m.unstakes
             P == Paid(u)
         IN  \A i \in 1..Len(u) :
               /\ Share(m, i, amount) \in Nat
               /\ Share(m, i, amount) * P > amount * u[i].value - 2 * P
               /\ i < Len(u) => Share(m, i, amount) * P < amount * u[i].value + P
<1> DEFINE u == m.unstakes
           P == Paid(u)
           L == Len(u)
           n == L - 1
           Q == Significand
           part == [j \in DOMAIN u |-> Part(amount, u[j].value, P)]
           vals == [j \in DOMAIN u |-> u[j].value]
           A == SumFunctionOnSet(part, 1..n)
           V == SumFunctionOnSet(vals, 1..n)
           Sh(i) == Share(m, i, amount)
<1>1. P \in Nat /\ P > 0 /\ P <= MaxMoney /\ L \in Nat /\ DOMAIN u = 1..L
  BY PaidInt
<1>2. L # 0
  <2>1. PICK S : u \in Seq(S)
    BY DEF IsOuts
  <2> HIDE DEF u
  <2>2. u # <<>>
    BY DEF u
  <2> QED BY <2>1, <2>2
<1>3. n \in Nat /\ L = n + 1 /\ 1..n \subseteq 1..L /\ L \in 1..L /\ 1..L = 1..(n + 1)
  <2> HIDE DEF L
  <2> QED BY <1>1, <1>2
<1>4. ASSUME NEW i \in 1..L PROVE Sh(i) = IF i < L THEN part[i] ELSE amount - A
  BY DEF Share
<1>5. P = SumFunctionOnSet(vals, 1..L)
  BY <1>1 DEF Paid
<1>6. \A j \in 1..L : u[j].value \in Nat
  OBVIOUS
<1>7. \A j \in 1..L : vals[j] = u[j].value /\ part[j] = Part(amount, u[j].value, P)
  BY <1>1
<1>8. Q \in Nat /\ Q > 0 /\ 4 * amount <= Q /\ MaxMoney \in Nat
  BY FloatConstants
<1> HIDE DEF P, L, n, part, vals, A, V, Sh, u, Q
<1>9. IsFiniteSet(1..n) /\ IsFiniteSet(1..L)
  BY <1>1, <1>3, FS_Interval
<1>10. /\ Nats(vals, 1..L) /\ Nats(vals, 1..n)
       /\ Ints(vals, 1..L) /\ Ints(vals, 1..n) /\ Ints(vals, 1..(n + 1))
  <2>1. \A j \in 1..L : vals[j] \in Nat /\ vals[j] \in Int
    BY <1>6, <1>7
  <2> QED BY <1>3, <2>1 DEF Nats, Ints
<1>11. ASSUME NEW j \in 1..L PROVE u[j].value <= P
  <2> DEFINE T == 1..L
  <2>4. IsFiniteSet(T) /\ Ints(vals, T) /\ j \in T
    BY <1>9, <1>10
  <2> HIDE DEF T
  <2>5. SumFunctionOnSet(vals, T) = vals[j] + SumFunctionOnSet(vals, T \ {j})
    BY <2>4, SumRemove
  <2>1. SumFunctionOnSet(vals, 1..L) = vals[j] + SumFunctionOnSet(vals, (1..L) \ {j})
    BY <2>5 DEF T
  <2>2. IsFiniteSet((1..L) \ {j}) /\ Nats(vals, (1..L) \ {j})
    BY <1>9, <1>10, FS_Subset DEF Nats
  <2>3. SumFunctionOnSet(vals, (1..L) \ {j}) \in Nat
    BY <2>2, SumNat
  <2> QED BY <1>5, <1>6, <1>7, <2>1, <2>3
<1>12. ASSUME NEW j \in 1..L
       PROVE  /\ part[j] \in Nat
              /\ (Q * Q) * (P * part[j]) <= ((Q + 1) * (Q + 1)) * (amount * u[j].value)
              /\ ((Q - 1) * (Q - 1)) * (amount * u[j].value) <= (Q * Q) * (P * (part[j] + 1))
  <2> DEFINE w == u[j].value
  <2>1. w \in Nat /\ w <= P /\ part[j] = Part(amount, w, P)
    BY <1>6, <1>7, <1>11
  <2> HIDE DEF w
  <2>2. LET p == Part(amount, w, P)
        IN  /\ p \in Nat
            /\ (Q * Q) * (P * p) <= ((Q + 1) * (Q + 1)) * (amount * w)
            /\ ((Q - 1) * (Q - 1)) * (amount * w) <= (Q * Q) * (P * (p + 1))
    BY <1>1, <2>1, PartClose DEF Q
  <2> QED BY <2>1, <2>2 DEF w
<1>13. Q * Q \in Nat /\ Q * Q > 0
  BY <1>8
<1>14. ASSUME NEW j \in 1..L
       PROVE  P * part[j] < amount * u[j].value + P /\ P * part[j] > amount * u[j].value - 2 * P
  <2> DEFINE w == u[j].value
             p == part[j]
  <2>1. w \in Nat /\ w <= P /\ p \in Nat
    BY <1>6, <1>11, <1>12
  <2>2. /\ (Q * Q) * (P * p) <= ((Q + 1) * (Q + 1)) * (amount * w)
        /\ ((Q - 1) * (Q - 1)) * (amount * w) <= (Q * Q) * (P * (p + 1))
    BY <1>12
  <2> HIDE DEF w, p
  <2>3. /\ ((Q + 1) * (Q + 1)) * (amount * w) < (Q * Q) * (amount * w + P)
        /\ (Q * Q) * (amount * w - P) < ((Q - 1) * (Q - 1)) * (amount * w)
    BY <1>1, <1>8, <2>1, LessThanOne
  <2>4. P * p \in Int /\ P * (p + 1) \in Int /\ amount * w + P \in Int /\ amount * w - P \in Int
        /\ P * (p + 1) = P * p + P /\ amount * w \in Int
    BY <1>1, <2>1
  <2> DEFINE k == Q * Q
             x == P * p
             y == amount * w
             z == P * (p + 1)
  <2>5. k * x < k * (y + P) /\ k * (y - P) < k * z
    <3> DEFINE c == ((Q + 1) * (Q + 1)) * y
               d == ((Q - 1) * (Q - 1)) * y
    <3>1. c \in Int /\ d \in Int /\ k * x \in Int /\ k * z \in Int /\ k * (y + P) \in Int /\ k * (y - P) \in Int
      <4>1. k \in Int /\ x \in Int /\ y \in Int /\ z \in Int /\ Q \in Int /\ P \in Int
        BY <1>1, <1>8, <1>13, <2>4
      <4> HIDE DEF k, x, y, z
      <4> QED BY <4>1
    <3>2. k * x <= c /\ c < k * (y + P) /\ k * (y - P) < d /\ d <= k * z
      BY <2>2, <2>3
    <3> HIDE DEF c, d, k, x, y, z
    <3> QED BY <3>1, <3>2
  <2>6. k \in Nat /\ k > 0 /\ x \in Int /\ z \in Int /\ y + P \in Int /\ y - P \in Int /\ z = x + P /\ y \in Int
    BY <1>13, <2>4
  <2> HIDE DEF k, x, y, z
  <2>7. x < y + P /\ y - P < z
    BY <2>5, <2>6, CancelLess
  <2>8. x < y + P /\ x > y - 2 * P
    BY <1>1, <2>6, <2>7
  <2> QED BY <2>8 DEF x, y, p, w
<1> DEFINE b == Q * Q * P
           c == (Q + 1) * (Q + 1) * amount
           f == [j \in 1..n |-> b * part[j]]
           g == [j \in 1..n |-> c * vals[j]]
<1>15. Ints(part, 1..n) /\ A \in Int /\ V \in Nat
  <2>1. Ints(part, 1..n)
    BY <1>3, <1>12 DEF Ints
  <2> QED BY <1>9, <1>10, <2>1, SumInt, SumNat DEF A, V
<1>16. b \in Int /\ c \in Int
  BY <1>1, <1>8
<1>17. Ints(f, 1..n) /\ Ints(g, 1..n) /\ \A j \in 1..n : f[j] <= g[j]
  <2> SUFFICES ASSUME NEW j \in 1..n PROVE f[j] \in Int /\ g[j] \in Int /\ f[j] <= g[j]
    BY DEF Ints
  <2> DEFINE w == u[j].value
             p == part[j]
  <2>1. w \in Nat /\ p \in Nat /\ (Q * Q) * (P * p) <= ((Q + 1) * (Q + 1)) * (amount * w) /\ vals[j] = w
    BY <1>3, <1>6, <1>7, <1>12
  <2>2. f[j] = b * p /\ g[j] = c * w
    BY <2>1
  <2> HIDE DEF w, p, f, g
  <2>3. b * p = (Q * Q) * (P * p) /\ c * w = ((Q + 1) * (Q + 1)) * (amount * w)
    BY <1>1, <1>8, <2>1
  <2>4. b * p \in Int /\ c * w \in Int
    BY <1>16, <2>1
  <2> QED BY <2>1, <2>2, <2>3, <2>4
<1>18. SumFunctionOnSet(f, 1..n) = b * A
  <2>1. \A j \in 1..n : f[j] = b * part[j]
    OBVIOUS
  <2> HIDE DEF f, b
  <2> QED BY <1>9, <1>15, <1>16, <2>1, SumTimes, ZenonT(40) DEF A
<1>19. SumFunctionOnSet(g, 1..n) = c * V
  <2>1. \A j \in 1..n : g[j] = c * vals[j]
    OBVIOUS
  <2> HIDE DEF g, c
  <2> QED BY <1>9, <1>10, <1>16, <2>1, SumTimes, ZenonT(40) DEF V
<1> HIDE DEF f, g
<1>20. b * A <= c * V
  BY <1>9, <1>17, <1>18, <1>19, SumAtMost
<1> DEFINE z == u[L].value
           last == amount - A
<1>21. P = V + z /\ z \in Nat
  <2>1. SumFunctionOnSet(vals, 1..(n + 1)) = SumFunctionOnSet(vals, 1..n) + vals[n + 1]
    BY <1>3, <1>10, SumLast
  <2> QED BY <1>3, <1>5, <1>6, <1>7, <2>1 DEF V
<1> HIDE DEF z
<1>22. P * A < amount * V + P
  <2> DEFINE k == Q * Q
             y == amount * V
  <2>1. V <= P
    BY <1>15, <1>21
  <2>2. ((Q + 1) * (Q + 1)) * (amount * V) < (Q * Q) * (amount * V + P)
    BY <1>1, <1>8, <1>15, <2>1, LessThanOne
  <2>3. b * A = k * (P * A) /\ c * V = ((Q + 1) * (Q + 1)) * y /\ y \in Int /\ P * A \in Int
    BY <1>1, <1>8, <1>15
  <2>4. k * (P * A) \in Int /\ k * (y + P) \in Int /\ b * A \in Int /\ c * V \in Int
    BY <1>1, <1>13, <1>15, <1>16, <2>3
  <2>5. k * (P * A) < k * (y + P)
    <3> HIDE DEF k, y, b, c
    <3>1. c * V < k * (y + P)
      BY <2>2, <2>3 DEF k, y
    <3> QED BY <1>20, <2>3, <2>4, <3>1
  <2> DEFINE x == P * A
  <2>6. k \in Nat /\ k > 0 /\ x \in Int /\ y + P \in Int
    BY <1>1, <1>13, <2>3
  <2> HIDE DEF k, y, x
  <2>7. x < y + P
    BY <2>5, <2>6, CancelLess DEF x
  <2> QED BY <2>7 DEF x, y
<1>23. last \in Nat /\ P * last > amount * z - P
  <2>1. P * amount = amount * V + amount * z /\ amount * z \in Nat /\ amount * V \in Nat /\ P * amount \in Nat
    <3>1. amount * (V + z) = amount * V + amount * z
      BY <1>15, <1>21, Distributes
    <3>2. P * amount = amount * (V + z)
      <4>1. P * amount = amount * P
        BY <1>1, ProductInt
      <4> QED BY <1>21, <4>1
    <3>3. amount * z \in Nat /\ amount * V \in Nat /\ P * amount \in Nat
      BY <1>1, <1>15, <1>21, ProductNat
    <3> QED BY <3>1, <3>2, <3>3
  <2>2. last \in Int /\ A + last = amount
    BY <1>15
  <2> HIDE DEF last
  <2>3. P * (A + last) = P * A + P * last /\ P * last \in Int /\ P * A \in Int
    <3>1. P \in Int /\ A \in Int /\ last \in Int
      BY <1>1, <1>15, <2>2
    <3> HIDE DEF P, A
    <3> QED BY <3>1, Distributes, ProductInt
  <2>4. P * last > amount * z - P /\ P * last > 0 - P
    <3> DEFINE a == P * A
               b1 == P * last
               c1 == amount * z
               d1 == amount * V
               e1 == P * amount
    <3>1. e1 = a + b1
      BY <2>2, <2>3
    <3>2. e1 = d1 + c1 /\ c1 \in Nat /\ d1 \in Nat /\ a \in Int /\ b1 \in Int /\ a < d1 + P /\ P \in Int
      BY <1>1, <1>22, <2>1, <2>3
    <3> HIDE DEF a, b1, c1, d1, e1, P
    <3>3. b1 > c1 - P /\ b1 > 0 - P
      BY <3>1, <3>2
    <3> QED BY <3>3 DEF b1, c1
  <2>5. last >= 0
    BY <1>1, <2>2, <2>4, NotNegative
  <2> QED BY <2>2, <2>4, <2>5
<1> HIDE DEF last
<1>24. ASSUME NEW i \in 1..L
       PROVE  /\ Sh(i) \in Nat /\ Sh(i) * P > amount * u[i].value - 2 * P
              /\ i < L => Sh(i) * P < amount * u[i].value + P
  <2>1. CASE i < L
    <3>1. Sh(i) = part[i] /\ part[i] \in Nat
      BY <1>4, <1>12, <2>1
    <3>2. Sh(i) * P = P * part[i]
      BY <1>1, <3>1, ProductInt
    <3> QED BY <1>14, <3>1, <3>2
  <2>2. CASE ~(i < L)
    <3>1. i = L
      BY <1>1, <2>2
    <3>2. Sh(i) = last
      BY <1>4, <2>2 DEF last
    <3>3. Sh(i) * P = P * last /\ P * last \in Int /\ amount * z \in Int
      BY <1>1, <1>21, <1>23, <3>2, ProductInt
    <3>4. Sh(i) * P > amount * z - 2 * P
      BY <1>1, <1>23, <3>3
    <3> QED BY <1>23, <2>2, <3>1, <3>2, <3>4 DEF z
  <2> QED BY <2>1, <2>2
<1> QED BY <1>24 DEF P, L, Sh, u

----------------------------------------------------------------------------
(* Where the outputs of a checkpoint are.                                  *)

LEMMA OutsJoin ==
  ASSUME NEW a, NEW b, IsOuts(a), IsOuts(b)
  PROVE  /\ IsOuts(a \o b) /\ Len(a \o b) = Len(a) + Len(b) /\ Len(a) \in Nat /\ Len(b) \in Nat
         /\ \A i \in 1..Len(a) : (a \o b)[i] = a[i]
         /\ \A i \in 1..Len(b) : (a \o b)[Len(a) + i] = b[i]
<1>1. PICK S : a \in Seq(S)
  BY DEF IsOuts
<1>2. PICK T : b \in Seq(T)
  BY DEF IsOuts
<1>3. a \in Seq(S \cup T) /\ b \in Seq(S \cup T)
  BY <1>1, <1>2
<1>4. Len(a \o b) = Len(a) + Len(b) /\ Len(a) \in Nat /\ Len(b) \in Nat
  BY <1>3
<1>5. \A i \in 1..(Len(a) + Len(b)) : (a \o b)[i] = IF i <= Len(a) THEN a[i] ELSE b[i - Len(a)]
  BY <1>3, ConcatProperties
<1>6. ASSUME NEW i \in 1..Len(a) PROVE (a \o b)[i] = a[i]
  <2>1. i \in 1..(Len(a) + Len(b)) /\ i <= Len(a)
    BY <1>4
  <2> QED BY <1>5, <2>1
<1>7. ASSUME NEW i \in 1..Len(b) PROVE (a \o b)[Len(a) + i] = b[i]
  <2>1. Len(a) + i \in 1..(Len(a) + Len(b)) /\ ~(Len(a) + i <= Len(a)) /\ (Len(a) + i) - Len(a) = i
    BY <1>4
  <2> QED BY <1>5, <2>1
<1> QED BY <1>4, <1>6, <1>7, OutsConcat

\* The outputs in front of those to other subnets.
Ahead(m) == 1 + Len(m.withdrawals) + (IF HasBatch(m) THEN 1 ELSE 0)

LEMMA AheadOf ==
  ASSUME NEW m, Len(m.withdrawals) \in Nat
  PROVE  /\ Ahead(m) \in Nat /\ Ahead(m) >= 1 + Len(m.withdrawals)
         /\ HasBatch(m) => Ahead(m) = 2 + Len(m.withdrawals)
         /\ ~HasBatch(m) => Ahead(m) = 1 + Len(m.withdrawals)
<1>1. CASE HasBatch(m)
  <2>1. Ahead(m) = 1 + Len(m.withdrawals) + 1
    BY <1>1 DEF Ahead
  <2> QED BY <1>1, <2>1
<1>2. CASE ~HasBatch(m)
  <2>1. Ahead(m) = 1 + Len(m.withdrawals) + 0
    BY <1>2 DEF Ahead
  <2> QED BY <1>2, <2>1
<1> QED BY <1>1, <1>2

\* The outputs of m, q of them for the destinations of its transfers, with more
\* for the unstakes.
Layout(m, outs, q, at, more) ==
  /\ IsOuts(outs) /\ q \in Nat /\ Len(outs) = Ahead(m) + q + Len(m.unstakes)
  /\ outs[1].to = DataOutput
  /\ \A i \in 1..Len(m.withdrawals) : outs[1 + i] = m.withdrawals[i]
  /\ HasBatch(m) => outs[Ahead(m)].to = CommitOutput
  /\ ~HasBatch(m) => q = 0
  /\ \A i \in 1..q : \E dest \in Destinations(m) : outs[Ahead(m) + i].to = at[dest]
  /\ \A i \in 1..Len(m.unstakes) :
       /\ more[i] \in Int
       /\ outs[Ahead(m) + q + i].to = m.unstakes[i].to
       /\ outs[Ahead(m) + q + i].value = m.unstakes[i].value + more[i]

NoMore(m) == [i \in 1..Len(m.unstakes) |-> 0]

LEMMA LaidOut ==
  ASSUME NEW m, IsMsg(m), NEW order \in SetToSeqs(Destinations(m)), NEW at
  PROVE  \E q : Layout(m, CheckpointOutputs(m, order, at), q, at, NoMore(m))
<1> DEFINE W == m.withdrawals
           U == m.unstakes
           w == Len(W)
           b == IF HasBatch(m) THEN 1 ELSE 0
           o1 == <<Pay(DataOutput, Dust)>>
           o3 == IF HasBatch(m) THEN <<Pay(CommitOutput, CommitValue)>> ELSE <<>>
           o4 == [i \in DOMAIN order |-> Pay(at[order[i]], Sent(m, order[i]))]
           c1 == o1 \o W
           c2 == c1 \o o3
           c3 == c2 \o o4
           c4 == c3 \o U
<1>1. PICK q \in Nat : DOMAIN order = 1..q /\ q = Cardinality(Destinations(m)) /\ order \in [1..q -> Destinations(m)]
  <2>1. PICK q \in Nat : DOMAIN order = 1..q
    BY FewDestinations
  <2>2. order \in [1..Cardinality(Destinations(m)) -> Destinations(m)]
    BY DEF SetToSeqs
  <2>3. IsFiniteSet(Destinations(m))
    <3> DEFINE T == m.transfers
               f == [i \in DOMAIN T |-> T[i].dest]
    <3>1. Len(T) \in Nat /\ DOMAIN T = 1..Len(T)
      BY PaidInt DEF IsMsg
    <3>2. f \in Surjection(DOMAIN T, Destinations(m))
      BY DEF Surjection, Destinations
    <3>3. IsFiniteSet(DOMAIN T)
      <4> HIDE DEF T
      <4> QED BY <3>1, FS_Interval
    <3> HIDE DEF T, f
    <3> QED BY <3>2, <3>3, FS_Surjection
  <2>4. Cardinality(Destinations(m)) \in Nat
    BY <2>3, FS_CardinalityType
  <2> DEFINE k == Cardinality(Destinations(m))
  <2> HIDE DEF k
  <2>5. k \in Nat /\ order \in [1..k -> Destinations(m)] /\ DOMAIN order = 1..k
    BY <2>2, <2>4 DEF k
  <2> QED BY <2>5 DEF k
<1>2. ~HasBatch(m) => q = 0
  <2> SUFFICES ASSUME ~HasBatch(m) PROVE q = 0
    OBVIOUS
  <2>1. m.transfers = <<>>
    BY DEF HasBatch
  <2>2. Destinations(m) = {}
    BY <2>1 DEF Destinations
  <2> QED BY <1>1, <2>2, FS_EmptySet
<1>3. IsOuts(o1) /\ Len(o1) = 1 /\ o1[1].to = DataOutput
  <2>1. Pay(DataOutput, Dust).value \in Int /\ Pay(DataOutput, Dust).to = DataOutput
    BY SpendingConstants DEF Pay
  <2> QED BY <2>1, OutsOne
<1>4. IsOuts(o3) /\ Len(o3) = b /\ (HasBatch(m) => o3[1].to = CommitOutput)
  <2>1. Dust \in Int /\ Dust + RevealFee \in Int
    BY SpendingConstants
  <2>2. CommitValue \in Int
    BY <2>1, LargerOfTwo DEF CommitValue
  <2>3. Pay(CommitOutput, CommitValue).value \in Int /\ Pay(CommitOutput, CommitValue).to = CommitOutput
    BY <2>2 DEF Pay
  <2>4. IsOuts(<<Pay(CommitOutput, CommitValue)>>)
    BY <2>3, OutsOne
  <2>5. Len(<<Pay(CommitOutput, CommitValue)>>) = 1 /\ Len(<<>>) = 0
    OBVIOUS
  <2> QED BY <2>3, <2>4, <2>5, OutsEmpty
<1>5. IsOuts(o4) /\ Len(o4) = q /\ \A i \in 1..q : \E dest \in Destinations(m) : o4[i].to = at[dest]
  <2>1. ASSUME NEW i \in 1..q PROVE o4[i].value \in Int /\ \E dest \in Destinations(m) : o4[i].to = at[dest]
    <3>1. o4[i] = Pay(at[order[i]], Sent(m, order[i])) /\ order[i] \in Destinations(m)
      BY <1>1
    <3>2. Sent(m, order[i]) \in Int
      BY SentInt
    <3>3. o4[i].value \in Int /\ o4[i].to = at[order[i]]
      BY <3>1, <3>2 DEF Pay
    <3> QED BY <3>1, <3>3
  <2>2. o4 = [i \in 1..q |-> o4[i]]
    BY <1>1
  <2> HIDE DEF o4
  <2> QED BY <2>1, <2>2, OutsFunction
<1>6. IsOuts(W) /\ IsOuts(U)
  BY DEF IsMsg
<1>7. CheckpointOutputs(m, order, at) = c4
  BY DEF CheckpointOutputs
<1>8. w \in Nat /\ b \in Nat /\ Len(U) \in Nat
  <2>1. w \in Nat /\ Len(U) \in Nat
    BY <1>6, PaidInt
  <2> QED BY <2>1
<1>9. Ahead(m) = 1 + w + b
  BY DEF Ahead
<1> HIDE DEF o1, o3, o4, W, U
<1>10. /\ IsOuts(c1) /\ Len(c1) = 1 + w
       /\ \A i \in 1..1 : c1[i] = o1[i]
       /\ \A i \in 1..w : c1[1 + i] = W[i]
  <2> DEFINE k == Len(o1)
  <2>1. IsOuts(o1) /\ IsOuts(W)
    BY <1>3, <1>6
  <2>2. /\ IsOuts(c1) /\ Len(c1) = k + Len(W)
        /\ \A i \in 1..k : c1[i] = o1[i]
        /\ \A i \in 1..Len(W) : c1[k + i] = W[i]
    BY <2>1, OutsJoin
  <2>3. k = 1
    BY <1>3
  <2> HIDE DEF k, c1
  <2> QED BY <2>2, <2>3
<1> HIDE DEF c1, w
<1>11. /\ IsOuts(c2) /\ Len(c2) = 1 + w + b
       /\ \A i \in 1..(1 + w) : c2[i] = c1[i]
       /\ \A i \in 1..b : c2[1 + w + i] = o3[i]
  <2> DEFINE k == Len(c1)
             l == Len(o3)
  <2>3. IsOuts(c1) /\ IsOuts(o3)
    BY <1>4, <1>10
  <2>1. /\ IsOuts(c2) /\ Len(c2) = k + l
        /\ \A i \in 1..k : c2[i] = c1[i]
        /\ \A i \in 1..l : c2[k + i] = o3[i]
    <3> HIDE DEF b
    <3> QED BY <2>3, OutsJoin
  <2>2. k = 1 + w /\ l = b
    BY <1>4, <1>10
  <2> HIDE DEF k, l, c2, b
  <2> QED BY <2>1, <2>2
<1> HIDE DEF c2, b
<1>12. /\ IsOuts(c3) /\ Len(c3) = 1 + w + b + q
       /\ \A i \in 1..(1 + w + b) : c3[i] = c2[i]
       /\ \A i \in 1..q : c3[1 + w + b + i] = o4[i]
  <2> DEFINE k == Len(c2)
             l == Len(o4)
  <2>1. /\ IsOuts(c3) /\ Len(c3) = k + l
        /\ \A i \in 1..k : c3[i] = c2[i]
        /\ \A i \in 1..l : c3[k + i] = o4[i]
    BY <1>5, <1>11, OutsJoin
  <2>2. k = 1 + w + b /\ l = q
    BY <1>5, <1>11
  <2> HIDE DEF k, l, c3
  <2> QED BY <2>1, <2>2
<1> HIDE DEF c3
<1>13. /\ IsOuts(c4) /\ Len(c4) = 1 + w + b + q + Len(U)
       /\ \A i \in 1..(1 + w + b + q) : c4[i] = c3[i]
       /\ \A i \in 1..Len(U) : c4[1 + w + b + q + i] = U[i]
  BY <1>6, <1>12, OutsJoin
<1> HIDE DEF c4
<1>14. c4[1].to = DataOutput
  <2>1. 1 \in 1..1 /\ 1 \in 1..(1 + w) /\ 1 \in 1..(1 + w + b) /\ 1 \in 1..(1 + w + b + q)
    BY <1>8
  <2> QED BY <1>3, <1>10, <1>11, <1>12, <1>13, <2>1
<1>15. ASSUME NEW i \in 1..w PROVE c4[1 + i] = W[i]
  <2>1. 1 + i \in 1..(1 + w) /\ 1 + i \in 1..(1 + w + b) /\ 1 + i \in 1..(1 + w + b + q)
    BY <1>8
  <2> QED BY <1>10, <1>11, <1>12, <1>13, <2>1
<1>16. ASSUME HasBatch(m) PROVE c4[1 + w + b].to = CommitOutput
  <2>1. b = 1
    BY <1>16 DEF b
  <2>2. 1 \in 1..b /\ 1 + w + b \in 1..(1 + w + b) /\ 1 + w + b \in 1..(1 + w + b + q)
    BY <1>8, <2>1
  <2>3. c2[1 + w + 1] = o3[1]
    BY <1>11, <2>2
  <2> QED BY <1>4, <1>12, <1>13, <1>16, <2>1, <2>2, <2>3
<1>17. ASSUME NEW i \in 1..q PROVE \E dest \in Destinations(m) : c4[1 + w + b + i].to = at[dest]
  <2>1. 1 + w + b + i \in 1..(1 + w + b + q)
    BY <1>8
  <2>2. c4[1 + w + b + i] = o4[i]
    BY <1>12, <1>13, <2>1
  <2> QED BY <1>5, <2>2
<1>18. ASSUME NEW i \in 1..Len(U)
       PROVE  /\ NoMore(m)[i] \in Int
              /\ c4[1 + w + b + q + i].to = U[i].to
              /\ c4[1 + w + b + q + i].value = U[i].value + NoMore(m)[i]
  <2>1. NoMore(m)[i] = 0
    BY DEF NoMore, U
  <2>2. c4[1 + w + b + q + i] = U[i]
    BY <1>13
  <2>3. U[i].value \in Int
    BY <1>6 DEF IsOuts
  <2> QED BY <2>1, <2>2, <2>3
<1>19. Layout(m, c4, q, at, NoMore(m))
  <2>1. \A i \in 1..Len(U) : /\ NoMore(m)[i] \in Int
                             /\ c4[1 + w + b + q + i].to = U[i].to
                             /\ c4[1 + w + b + q + i].value = U[i].value + NoMore(m)[i]
    BY <1>18
  <2>2. \A i \in 1..w : c4[1 + i] = W[i]
    BY <1>15
  <2>3. HasBatch(m) => c4[1 + w + b].to = CommitOutput
    BY <1>16
  <2>4. \A i \in 1..q : \E dest \in Destinations(m) : c4[1 + w + b + i].to = at[dest]
    BY <1>17
  <2> QED BY <1>2, <1>9, <1>13, <1>14, <2>1, <2>2, <2>3, <2>4 DEF Layout, W, U, w
<1> QED BY <1>7, <1>19

\* What a kill checkpoint adds changes nothing else.
LEMMA LaidOutAgain ==
  ASSUME NEW m, IsMsg(m), NEW outs, NEW q, NEW at, Layout(m, outs, q, at, NoMore(m)), NEW amount \in Int,
         Paid(m.unstakes) > 0, m.unstakes # <<>>
  PROVE  LET again == Redistributed(m, outs, amount)
         IN  /\ Layout(m, again, q, at, [i \in 1..Len(m.unstakes) |-> Share(m, i, amount)])
             /\ Len(again) = Len(outs)
             /\ Paid(again) = Paid(outs) + amount
<1> DEFINE U == m.unstakes
           u == Len(U)
           k == Ahead(m) + q
           again == Redistributed(m, outs, amount)
           Sh(i) == Share(m, i, amount)
           more == [i \in 1..u |-> Sh(i)]
<1>1. IsOuts(outs) /\ IsOuts(U) /\ IsOuts(m.withdrawals) /\ q \in Nat
  BY DEF Layout, IsMsg
<1>2. Len(outs) \in Nat /\ DOMAIN outs = 1..Len(outs) /\ u \in Nat /\ DOMAIN U = 1..u /\ Len(m.withdrawals) \in Nat
  BY <1>1, PaidInt
<1>3. Ahead(m) \in Nat /\ Ahead(m) >= 1 + Len(m.withdrawals)
  BY <1>2, AheadOf
<1>4. k \in Nat /\ Len(outs) = k + u /\ Len(outs) - u = k
  <2>1. Len(outs) = Ahead(m) + q + u
    BY DEF Layout
  <2> HIDE DEF u
  <2> QED BY <1>1, <1>2, <1>3, <2>1
<1>5. /\ SumFunctionOnSet(more, 1..u) = amount
      /\ \A i \in 1..u : Sh(i) \in Int
  BY SharesSum, ShareInt
<1>6. again = [i \in DOMAIN outs |-> IF i <= Len(outs) - u THEN outs[i]
                                     ELSE Pay(outs[i].to, outs[i].value + Share(m, i - (Len(outs) - u), amount))]
  BY DEF Redistributed
<1>7. again = [i \in 1..(k + u) |-> IF i <= k THEN outs[i]
                                     ELSE Pay(outs[i].to, outs[i].value + Sh(i - k))]
  <2> HIDE DEF again, k, u
  <2>1. DOMAIN outs = 1..(k + u)
    BY <1>2, <1>4
  <2> QED BY <1>4, <1>6, <2>1
<1>8. IsOuts(again)
  BY <1>1, RedistributedOK
<1>9. \A i \in 1..u : more[i] = Sh(i)
  OBVIOUS
<1>10. \A i \in 1..u : outs[k + i].to = U[i].to /\ outs[k + i].value = U[i].value + 0 /\ U[i].value \in Int
  BY <1>1 DEF Layout, NoMore, IsOuts
<1> HIDE DEF again, Sh, more, u, U, k
<1>11. Len(again) = k + u
  BY <1>2, <1>4, <1>7, <1>8, PaidInt
<1>12. \A i \in 1..k : again[i] = outs[i]
  <2> SUFFICES ASSUME NEW i \in 1..k PROVE again[i] = outs[i]
    OBVIOUS
  <2>1. i \in 1..(k + u) /\ i <= k
    BY <1>2, <1>4
  <2> QED BY <1>7, <2>1
<1>13. \A i \in 1..u : again[k + i] = Pay(outs[k + i].to, outs[k + i].value + Sh(i))
  <2> SUFFICES ASSUME NEW i \in 1..u PROVE again[k + i] = Pay(outs[k + i].to, outs[k + i].value + Sh(i))
    OBVIOUS
  <2>1. k + i \in 1..(k + u) /\ ~(k + i <= k) /\ (k + i) - k = i
    BY <1>2, <1>4
  <2> QED BY <1>7, <2>1
<1>14. \A i \in 1..u : /\ again[k + i].to = U[i].to
                        /\ again[k + i].value = U[i].value + more[i]
                        /\ more[i] \in Int
  <2> SUFFICES ASSUME NEW i \in 1..u
               PROVE  again[k + i].to = U[i].to /\ again[k + i].value = U[i].value + more[i] /\ more[i] \in Int
    OBVIOUS
  <2>1. again[k + i].to = outs[k + i].to /\ again[k + i].value = outs[k + i].value + Sh(i)
    <3> DEFINE x == outs[k + i].value + Sh(i)
               o == outs[k + i].to
    <3>1. again[k + i] = Pay(o, x)
      BY <1>13
    <3> HIDE DEF x, o
    <3>2. again[k + i].to = o /\ again[k + i].value = x
      BY <3>1 DEF Pay
    <3> QED BY <3>2 DEF x, o
  <2>2. outs[k + i].to = U[i].to /\ outs[k + i].value = U[i].value /\ U[i].value \in Int
    BY <1>10
  <2> QED BY <1>5, <1>9, <2>1, <2>2
<1>15. Layout(m, again, q, at, more)
  <2>1. outs[1].to = DataOutput
    BY DEF Layout
  <2>2. \A i \in 1..Len(m.withdrawals) : outs[1 + i] = m.withdrawals[i]
    BY DEF Layout
  <2>3. /\ HasBatch(m) => outs[Ahead(m)].to = CommitOutput
        /\ ~HasBatch(m) => q = 0
    BY DEF Layout
  <2>4. \A i \in 1..q : \E dest \in Destinations(m) : outs[Ahead(m) + i].to = at[dest]
    BY DEF Layout
  <2>5. 1 \in 1..k /\ Ahead(m) \in 1..k /\ (\A i \in 1..Len(m.withdrawals) : 1 + i \in 1..k)
        /\ (\A i \in 1..q : Ahead(m) + i \in 1..k)
    BY <1>1, <1>2, <1>3 DEF k
  <2>6. again[1].to = DataOutput
    BY <1>12, <2>1, <2>5
  <2>7. \A i \in 1..Len(m.withdrawals) : again[1 + i] = m.withdrawals[i]
    BY <1>12, <2>2, <2>5
  <2>8. HasBatch(m) => again[Ahead(m)].to = CommitOutput
    BY <1>12, <2>3, <2>5
  <2>9. \A i \in 1..q : \E dest \in Destinations(m) : again[Ahead(m) + i].to = at[dest]
    BY <1>12, <2>4, <2>5
  <2>10. Len(again) = Ahead(m) + q + Len(m.unstakes)
    BY <1>11 DEF k, u, U
  <2>11. \A i \in 1..Len(m.unstakes) : /\ more[i] \in Int
                                        /\ again[Ahead(m) + q + i].to = m.unstakes[i].to
                                        /\ again[Ahead(m) + q + i].value = m.unstakes[i].value + more[i]
    BY <1>14 DEF k, u, U
  <2> QED BY <1>1, <1>8, <2>3, <2>6, <2>7, <2>8, <2>9, <2>10, <2>11 DEF Layout
<1>16. Paid(again) = Paid(outs) + amount
  <2> DEFINE N == k + u
             f == [i \in 1..N |-> outs[i].value]
             g == [i \in 1..N |-> again[i].value]
             h == [i \in 1..N |-> IF i <= k THEN 0 ELSE Sh(i - k)]
             K == (k + 1)..N
             T == 1..u
  <2>1. Paid(outs) = SumFunctionOnSet(f, 1..N) /\ Paid(again) = SumFunctionOnSet(g, 1..N)
    <3>1. DOMAIN outs = 1..N /\ DOMAIN again = 1..N
      BY <1>2, <1>4, <1>7
    <3> QED BY <3>1 DEF Paid
  <2>2. N \in Nat /\ K \subseteq 1..N /\ IsFiniteSet(1..N) /\ IsFiniteSet(T)
    <3>1. N \in Nat /\ K \subseteq 1..N
      BY <1>2, <1>4
    <3>2. u \in Nat
      BY <1>2
    <3> HIDE DEF N, u, K
    <3>5. 1 \in Int /\ N \in Int /\ u \in Int
      BY <3>1, <3>2, SMT
    <3>3. IsFiniteSet(1..N)
      BY <3>5, FS_Interval, ZenonT(30)
    <3>4. IsFiniteSet(1..u)
      BY <3>5, FS_Interval, ZenonT(30)
    <3> QED BY <3>1, <3>3, <3>4
  <2>3. ASSUME NEW i \in 1..N PROVE f[i] \in Int /\ h[i] \in Int /\ g[i] = f[i] + h[i]
    <3>1. outs[i].value \in Int
      BY <1>1, <1>4 DEF IsOuts
    <3>2. f[i] = outs[i].value /\ g[i] = again[i].value
      OBVIOUS
    <3>3. CASE i <= k
      <4>1. i \in 1..k /\ h[i] = 0
        BY <1>4, <3>3
      <4> HIDE DEF f, g, h
      <4> QED BY <1>12, <3>1, <3>2, <4>1
    <3>4. CASE ~(i <= k)
      <4>1. i - k \in 1..u /\ k + (i - k) = i /\ h[i] = Sh(i - k)
        BY <1>2, <1>4, <3>4
      <4>2. Sh(i - k) \in Int /\ again[i] = Pay(outs[i].to, outs[i].value + Sh(i - k))
        BY <1>5, <1>13, <4>1
      <4>3. again[i].value = outs[i].value + Sh(i - k)
        BY <4>2 DEF Pay
      <4> HIDE DEF f, g, h
      <4> QED BY <3>1, <3>2, <4>1, <4>2, <4>3
    <3> QED BY <3>3, <3>4
  <2>4. \A i \in (1..N) \ K : h[i] = 0
    BY <1>2, <1>4
  <2>5. (\A i \in T : h[k + i] = more[i]) /\ Ints(more, T)
    <3> SUFFICES ASSUME NEW i \in T PROVE h[k + i] = more[i] /\ more[i] \in Int
      BY DEF Ints
    <3>1. k + i \in 1..N /\ ~(k + i <= k) /\ (k + i) - k = i
      BY <1>2, <1>4
    <3> QED BY <1>5, <1>9, <3>1
  <2> HIDE DEF N, f, g, h
  <2>6. Ints(f, 1..N) /\ Ints(h, 1..N)
    BY <2>3 DEF Ints
  <2>7. SumFunctionOnSet(g, 1..N) = SumFunctionOnSet(f, 1..N) + SumFunctionOnSet(h, 1..N)
    BY <2>2, <2>3, <2>6, SumPlus
  <2>8. SumFunctionOnSet(h, 1..N) = SumFunctionOnSet(h, K)
    BY <2>2, <2>4, <2>6, SumSupport
  <2>10. SumFunctionOnSet(h, K) = SumFunctionOnSet(more, T)
    <3>1. k \in Nat
      BY <1>4
    <3>2. u \in Nat
      BY <1>2
    <3>3. Ints(more, 1..u)
      BY <2>5
    <3>4. \A i \in 1..u : h[k + i] = more[i]
      BY <2>5
    <3>5. SumFunctionOnSet(h, (k + 1)..(k + u)) = SumFunctionOnSet(more, 1..u)
      BY <3>1, <3>2, <3>3, <3>4, SumShifted, ZenonT(30)
    <3> QED BY <3>5 DEF N
  <2> QED BY <1>5, <2>1, <2>7, <2>8, <2>10
<1> QED BY <1>4, <1>11, <1>15, <1>16 DEF again, more, u, U, Sh

----------------------------------------------------------------------------
(* What is in a checkpoint transaction.                                    *)

Rest(S, outs) == Total(S) - Paid(outs) - FeeFor(S, outs)

\* The outputs and the change.
LEMMA ChangeLast ==
  ASSUME NEW S, NEW exhaust \in BOOLEAN, NEW outs, NEW change, NEW limit,
         ConstructSpend(S, exhaust, outs, change, limit).ok
  PROVE  \E ins : /\ ConstructSpend(S, exhaust, outs, change, limit) = WithChange(ins, outs, Rest(ins, outs), change)
                  /\ exhaust => ins = S /\ Covers(S, outs)
<1>1. ~Failed.ok
  BY DEF Failed
<1>2. CASE exhaust
  BY <1>1, <1>2, Zenon DEF ConstructSpend, Exhaust, Rest
<1>3. CASE ~exhaust
  <2>1. ConstructSpend(S, exhaust, outs, change, limit) = SelectCoins(S, outs, change, limit)
    BY <1>3 DEF ConstructSpend
  <2>2. \E ins : SelectCoins(S, outs, change, limit) = WithChange(ins, outs, Rest(ins, outs), change)
    <3> DEFINE n == Cardinality(S)
               F(k) == {c \in S : Rank(S, c) <= k}
               enough == {k \in 1..n : Covers(F(k), outs)}
               needed == Min(enough)
               C(j) == F(needed) \cup {c \in S : Rank(S, c) > n - j}
               J == {j \in 0..Min({limit, n - needed}) : \A i \in 1..j : Sweeps(C(i), outs)}
               ins == C(Max(J))
    <3>1. SelectCoins(S, outs, change, limit)
            = IF enough = {} THEN Failed
              ELSE WithChange(ins, outs, Total(ins) - Paid(outs) - FeeFor(ins, outs), change)
      BY DEF SelectCoins
    <3> HIDE DEF enough, ins
    <3>2. SelectCoins(S, outs, change, limit) = WithChange(ins, outs, Rest(ins, outs), change)
      BY <1>1, <2>1, <3>1 DEF Rest
    <3> QED BY <3>2
  <2> QED BY <1>3, <2>1, <2>2
<1> QED BY <1>2, <1>3

\* Change is an output after the others or none.
Followed(outs, base, change) == outs = base \/ \E x : outs = Append(base, Pay(change, x))

LEMMA ConstructFollows ==
  ASSUME NEW S, NEW exhaust \in BOOLEAN, NEW outs, NEW change, NEW limit,
         ConstructSpend(S, exhaust, outs, change, limit).ok
  PROVE  Followed(ConstructSpend(S, exhaust, outs, change, limit).outs, outs, change)
<1>1. PICK ins : ConstructSpend(S, exhaust, outs, change, limit) = WithChange(ins, outs, Rest(ins, outs), change)
  BY ChangeLast
<1> QED BY <1>1 DEF WithChange, Built, Followed

\* What each output of m is for.
LEMMA OutputsGo ==
  ASSUME NEW m, IsMsg(m), NEW outs, NEW q, NEW at, NEW more, Layout(m, outs, q, at, more),
         NEW i \in 1..Len(outs)
  PROVE  \/ i = 1 /\ outs[i].to = DataOutput
         \/ \E k \in 1..Len(m.withdrawals) : i = 1 + k /\ outs[i].to = m.withdrawals[k].to
         \/ HasBatch(m) /\ i = Ahead(m) /\ outs[i].to = CommitOutput
         \/ HasBatch(m) /\ i > Ahead(m) /\ \E dest \in Destinations(m) : outs[i].to = at[dest]
         \/ i > Ahead(m) /\ \E k \in 1..Len(m.unstakes) : outs[i].to = m.unstakes[k].to
<1> DEFINE w == Len(m.withdrawals)
           u == Len(m.unstakes)
           a == Ahead(m)
<1>1. w \in Nat /\ u \in Nat
  <2>1. IsOuts(m.withdrawals) /\ IsOuts(m.unstakes)
    BY DEF IsMsg
  <2> QED BY <2>1, PaidInt
<1>2. /\ a \in Nat /\ a >= 1 + w
      /\ HasBatch(m) => a = 2 + w
      /\ ~HasBatch(m) => a = 1 + w
  BY <1>1, AheadOf
<1>3. q \in Nat /\ Len(outs) = a + q + u /\ (~HasBatch(m) => q = 0)
  BY DEF Layout
<1> HIDE DEF w, u, a
<1>4. i = 1 \/ i - 1 \in 1..w \/ (HasBatch(m) /\ i = a) \/ (i > a /\ i - a \in 1..q) \/ (i > a /\ i - (a + q) \in 1..u)
  BY <1>1, <1>2, <1>3
<1>5. CASE i = 1
  BY <1>5 DEF Layout
<1>6. CASE i - 1 \in 1..w
  <2>1. outs[1 + (i - 1)] = m.withdrawals[i - 1] /\ 1 + (i - 1) = i
    BY <1>6 DEF Layout, w
  <2>2. i = 1 + (i - 1) /\ outs[i].to = m.withdrawals[i - 1].to
    BY <2>1
  <2> QED BY <1>6, <2>2 DEF w
<1>7. CASE HasBatch(m) /\ i = a
  BY <1>7 DEF Layout, a
<1>8. CASE i > a /\ i - a \in 1..q
  <2>1. HasBatch(m)
    BY <1>3, <1>8
  <2>2. PICK dest \in Destinations(m) : outs[a + (i - a)].to = at[dest]
    BY <1>8 DEF Layout, a
  <2>3. a + (i - a) = i
    BY <1>2
  <2> QED BY <1>8, <2>1, <2>2, <2>3 DEF a
<1>9. CASE i > a /\ i - (a + q) \in 1..u
  <2>1. outs[a + q + (i - (a + q))].to = m.unstakes[i - (a + q)].to
    BY <1>9 DEF Layout, a, u
  <2>2. a + q + (i - (a + q)) = i
    BY <1>2, <1>3
  <2> QED BY <1>9, <2>1, <2>2 DEF a, u
<1> QED BY <1>4, <1>5, <1>6, <1>7, <1>8, <1>9

\* Whatever is redistributed, the outputs are those of the message, in order.
LEMMA Shaped ==
  ASSUME NEW m, IsMsg(m), NEW S, IsCoins(S), NEW exhaust \in BOOLEAN,
         NEW order \in SetToSeqs(Destinations(m)), NEW at, NEW change,
         ToCheckpointPsbt(m, S, exhaust, order, at, change).ok
  PROVE  \E q, more, base : /\ Layout(m, base, q, at, more) /\ (~m.kill => more = NoMore(m))
                            /\ Followed(ToCheckpointPsbt(m, S, exhaust, order, at, change).outs, base, change)
<1> DEFINE outs == CheckpointOutputs(m, order, at)
           all == exhaust \/ m.kill
           first == ConstructSpend(S, all, outs, change, Consolidation)
           amount == ChangeAmount(first.outs, change)
           again == Redistributed(m, outs, amount)
           t == ToCheckpointPsbt(m, S, exhaust, order, at, change)
<1>1. PICK q : Layout(m, outs, q, at, NoMore(m))
  BY LaidOut
<1>2. ~Failed.ok /\ Consolidation \in Nat
  BY SpendingConstants DEF Failed
<1>3. all \in BOOLEAN
  BY DEF IsMsg
<1>4. \/ first.ok /\ t = first
      \/ /\ first.ok /\ m.kill /\ amount > 0 /\ m.unstakes # <<>> /\ Paid(m.unstakes) > 0
         /\ t = ConstructSpend(S, all, again, change, Consolidation)
  BY <1>2, Zenon DEF ToCheckpointPsbt
<1>5. IsOuts(outs)
  BY <1>1 DEF Layout
<1> HIDE DEF outs, all
<1>6. CASE first.ok /\ t = first
  <2>1. Followed(first.outs, outs, change)
    BY <1>3, <1>6, ConstructFollows
  <2> QED BY <1>1, <1>6, <2>1
<1>7. CASE /\ first.ok /\ m.kill /\ amount > 0 /\ m.unstakes # <<>> /\ Paid(m.unstakes) > 0
           /\ t = ConstructSpend(S, all, again, change, Consolidation)
  <2>1. SpendsFrom(first, S, all)
    BY <1>2, <1>3, <1>5, <1>7, ConstructSpends
  <2>2. IsOuts(first.outs)
    BY <2>1 DEF SpendsFrom, Spends
  <2> HIDE DEF first
  <2>3. amount \in Int
    BY <2>2, ChangeAmountInt
  <2> HIDE DEF amount
  <2>6. Layout(m, again, q, at, [i \in 1..Len(m.unstakes) |-> Share(m, i, amount)])
    BY <1>1, <1>7, <2>3, LaidOutAgain
  <2> HIDE DEF again
  <2>7. ConstructSpend(S, all, again, change, Consolidation).ok
    BY <1>7
  <2>8. Followed(t.outs, again, change)
    BY <1>3, <1>7, <2>7, ConstructFollows
  <2> HIDE DEF t
  <2> QED BY <1>7, <2>6, <2>8 DEF t
<1> QED BY <1>4, <1>6, <1>7

\* Less than two below the proportion, and less than one above it but for the
\* last, which has the rest.
Proportional(u, more) ==
  LET all == SumFunctionOnSet(more, 1..Len(u))
  IN  InSupply(u, all) =>
        \A i \in 1..Len(u) : /\ more[i] >= 0
                             /\ more[i] * Paid(u) > (all * u[i].value) - 2 * Paid(u)
                             /\ i < Len(u) => more[i] * Paid(u) < (all * u[i].value) + Paid(u)

LEMMA NothingIsProportional ==
  ASSUME NEW m, IsOuts(m.unstakes), Paid(m.unstakes) > 0
  PROVE  Proportional(m.unstakes, NoMore(m))
<1> DEFINE u == m.unstakes
           P == Paid(u)
           f == NoMore(m)
<1>1. P \in Int /\ P > 0 /\ Len(u) \in Nat
  BY PaidInt
<1>2. \A i \in 1..Len(u) : f[i] = 0
  BY DEF NoMore
<1>3. \A i \in 1..Len(u) : u[i].value \in Int
  BY DEF IsOuts
<1> HIDE DEF u, P, f
<1>4. IsFiniteSet(1..Len(u))
  BY <1>1, FS_Interval
<1>5. SumFunctionOnSet(f, 1..Len(u)) = 0
  BY <1>2, <1>4, SumZero
<1>6. ASSUME NEW i \in 1..Len(u) PROVE f[i] >= 0 /\ f[i] * P > (0 * u[i].value) - 2 * P /\ f[i] * P < (0 * u[i].value) + P
  <2>1. f[i] * P = 0 /\ 0 * u[i].value = 0
    BY <1>1, <1>2, <1>3
  <2> QED BY <1>1, <1>2, <2>1
<1>7. Proportional(u, f)
  BY <1>5, <1>6 DEF Proportional, P
<1> QED BY <1>7 DEF u, f

\* The change is what is left, when nothing else is paid to its address.
LEMMA ChangeIs ==
  ASSUME NEW outs, IsOuts(outs), NEW change, \A i \in 1..Len(outs) : outs[i].to # change, NEW x
  PROVE  ChangeAmount(outs, change) = 0 /\ ChangeAmount(Append(outs, Pay(change, x)), change) = x
<1> DEFINE o == Pay(change, x)
           new == Append(outs, o)
           n == Len(outs)
<1>1. PICK S : outs \in Seq(S)
  BY DEF IsOuts
<1>2. outs \in Seq(S \cup {o}) /\ o \in S \cup {o}
  BY <1>1
<1>3. n \in Nat /\ DOMAIN outs = 1..n
  BY <1>1
<1>4. o.to = change /\ o.value = x
  BY DEF Pay
<1> HIDE DEF o
<1>5. DOMAIN new = 1..(n + 1) /\ (\A i \in 1..n : new[i] = outs[i]) /\ new[n + 1] = o
  BY <1>2
<1> HIDE DEF new, n
<1>6. {i \in DOMAIN outs : outs[i].to = change} = {}
  BY <1>3 DEF n
<1>7. {i \in DOMAIN new : new[i].to = change} = {n + 1}
  <2>1. ASSUME NEW i \in 1..(n + 1) PROVE new[i].to = change <=> i = n + 1
    <3>1. i \in 1..n \/ i = n + 1
      BY <1>3
    <3>2. i \in 1..n => i # n + 1
      BY <1>3
    <3> QED BY <1>4, <1>5, <3>1, <3>2 DEF n
  <2>2. n + 1 \in 1..(n + 1)
    BY <1>3
  <2> QED BY <1>5, <2>1, <2>2
<1>8. Min({n + 1}) = n + 1
  <2>1. {n + 1} \subseteq Nat /\ {n + 1} # {}
    BY <1>3
  <2> DEFINE T == {n + 1}
  <2>2. \A y \in T : y = n + 1
    OBVIOUS
  <2> HIDE DEF T
  <2>3. Min(T) \in T
    BY <2>1, MinIsIn DEF T
  <2> QED BY <2>2, <2>3 DEF T
<1> QED BY <1>4, <1>5, <1>6, <1>7, <1>8 DEF ChangeAmount, new, o

\* The second construction of a kill has nothing left over.
LEMMA KillShaped ==
  ASSUME NEW m, IsMsg(m), NEW S, IsCoins(S), NEW exhaust \in BOOLEAN,
         NEW order \in SetToSeqs(Destinations(m)), NEW at, NEW change,
         ToCheckpointPsbt(m, S, exhaust, order, at, change).ok,
         m.kill, m.unstakes # <<>>, Paid(m.unstakes) > 0,
         \A i \in 1..Len(m.unstakes) : m.unstakes[i].value \in Nat,
         \A q, more, outs : Layout(m, outs, q, at, more) => \A i \in 1..Len(outs) : outs[i].to # change
  PROVE  \E q, more : /\ Layout(m, ToCheckpointPsbt(m, S, exhaust, order, at, change).outs, q, at, more)
                      /\ Proportional(m.unstakes, more)
<1> DEFINE outs == CheckpointOutputs(m, order, at)
           first == ConstructSpend(S, TRUE, outs, change, Consolidation)
           amount == ChangeAmount(first.outs, change)
           again == Redistributed(m, outs, amount)
           second == ConstructSpend(S, TRUE, again, change, Consolidation)
           t == ToCheckpointPsbt(m, S, exhaust, order, at, change)
           left == Rest(S, outs)
<1>1. PICK q : Layout(m, outs, q, at, NoMore(m))
  BY LaidOut
<1>2. ~Failed.ok
  BY DEF Failed
<1>3. IsOuts(outs) /\ IsOuts(m.unstakes)
  BY <1>1 DEF Layout, IsMsg
<1>4. (exhaust \/ m.kill) = TRUE
  OBVIOUS
<1>5. t = IF ~first.ok THEN Failed ELSE IF amount > 0 THEN second ELSE first
  BY <1>4 DEF ToCheckpointPsbt
<1>6. \A i \in 1..Len(outs) : outs[i].to # change
  BY <1>1
<1> HIDE DEF outs
<1>7. first.ok
  <2> HIDE DEF first, second
  <2> QED BY <1>2, <1>5
<1>8. first = WithChange(S, outs, left, change) /\ Covers(S, outs)
  <2>1. \E ins : first = WithChange(ins, outs, Rest(ins, outs), change) /\ (TRUE => ins = S /\ Covers(S, outs))
    BY <1>7, ChangeLast
  <2> HIDE DEF first
  <2> QED BY <2>1
<1>9. /\ left \in Int /\ left >= 0 /\ Total(S) \in Int /\ Paid(outs) \in Int
      /\ FeeFor(S, outs) \in Int /\ Dust \in Nat
  <2>1. Total(S) \in Int /\ Cardinality(S) \in Nat /\ Paid(outs) \in Int /\ Len(outs) \in Nat
    BY <1>3, TotalInt, PaidInt
  <2>2. Len(outs) + 1 \in Nat
    BY <2>1
  <2>3. FeeFor(S, outs) \in Int /\ Dust \in Nat
    BY <2>1, <2>2, FeeGrows DEF FeeFor
  <2> QED BY <1>8, <2>1, <2>3 DEF Covers, Rest
<1>10. /\ left > Dust => first.outs = Append(outs, Pay(change, left))
       /\ ~(left > Dust) => first.outs = outs
  <2> HIDE DEF first, left
  <2> QED BY <1>8 DEF WithChange, Built
<1> HIDE DEF first, left
<1>13. ChangeAmount(outs, change) = 0 /\ ChangeAmount(Append(outs, Pay(change, left)), change) = left
  <2>1. IsOuts(outs)
    BY <1>3
  <2> QED BY <1>6, <2>1, ChangeIs, ZenonT(30)
<1>11. CASE ~(left > Dust)
  <2>1. amount = 0
    <3>1. first.outs = outs
      BY <1>10, <1>11
    <3> QED BY <1>13, <3>1
  <2> HIDE DEF amount, second
  <2>2. t = first /\ first.outs = outs
    BY <1>5, <1>7, <1>10, <1>11, <2>1
  <2>3. Proportional(m.unstakes, NoMore(m))
    BY <1>3, NothingIsProportional
  <2> HIDE DEF t
  <2> QED BY <1>1, <2>2, <2>3 DEF t
<1>12. CASE left > Dust
  <2>1. amount = left
    <3>1. first.outs = Append(outs, Pay(change, left))
      BY <1>10, <1>12
    <3> QED BY <1>13, <3>1
  <2> HIDE DEF amount
  <2>2. amount \in Nat /\ amount > 0
    BY <1>9, <1>12, <2>1
  <2> DEFINE more == [i \in 1..Len(m.unstakes) |-> Share(m, i, amount)]
  <2>3. Layout(m, again, q, at, more) /\ Len(again) = Len(outs) /\ Paid(again) = Paid(outs) + amount
    BY <1>1, <2>2, LaidOutAgain
  <2>4. Proportional(m.unstakes, more)
    <3>3. SumFunctionOnSet(more, 1..Len(m.unstakes)) = amount
      BY <1>3, <2>2, SharesSum
    <3>1. ASSUME InSupply(m.unstakes, amount)
          PROVE  \A i \in 1..Len(m.unstakes) :
               /\ Share(m, i, amount) \in Nat
               /\ Share(m, i, amount) * Paid(m.unstakes) > amount * m.unstakes[i].value - 2 * Paid(m.unstakes)
               /\ i < Len(m.unstakes) =>
                    Share(m, i, amount) * Paid(m.unstakes) < amount * m.unstakes[i].value + Paid(m.unstakes)
      BY <1>3, <2>2, <3>1, SharesFair DEF InSupply
    <3>2. \A i \in 1..Len(m.unstakes) : more[i] = Share(m, i, amount)
      OBVIOUS
    <3> HIDE DEF more
    <3> QED BY <3>1, <3>2, <3>3 DEF Proportional
  <2> HIDE DEF again, more
  <2>5. t = second
    <3> HIDE DEF second
    <3> QED BY <1>5, <1>7, <2>2
  <2>6. second.ok
    <3> HIDE DEF second, t
    <3> QED BY <2>5 DEF t
  <2>7. second = WithChange(S, again, Rest(S, again), change)
    <3>1. \E ins : second = WithChange(ins, again, Rest(ins, again), change) /\ (TRUE => ins = S /\ Covers(S, again))
      BY <2>6, ChangeLast
    <3> HIDE DEF second
    <3> QED BY <3>1
  <2>8. Rest(S, again) = 0
    <3>1. FeeFor(S, again) = FeeFor(S, outs)
      BY <2>3 DEF FeeFor
    <3>2. left = Total(S) - Paid(outs) - FeeFor(S, outs)
      BY DEF left, Rest
    <3>3. Rest(S, again) = Total(S) - (Paid(outs) + amount) - FeeFor(S, outs)
      BY <2>3, <3>1 DEF Rest
    <3> QED BY <1>9, <2>1, <3>2, <3>3
  <2>9. ~(0 > Dust)
    BY <1>9
  <2> HIDE DEF second
  <2>10. second.outs = again
    BY <2>7, <2>8, <2>9 DEF WithChange, Built
  <2> HIDE DEF t
  <2> QED BY <2>3, <2>4, <2>5, <2>10 DEF t
<1> QED BY <1>11, <1>12

----------------------------------------------------------------------------
(* Where the money of a checkpoint goes.                                   *)

\* The destinations the child may name have an address.
Reachable(m) == Destinations(m) \subseteq {Self} \cup DOMAIN OtherAddress

LEMMA OutwardPays ==
  ASSUME NEW m, IsMsg(m), Reachable(m), Outward(m), NEW d, NEW outs, NEW q, NEW more,
         Layout(m, outs, q, At(d, m), more), NEW i \in 1..Len(outs)
  PROVE  outs[i].to \notin Ours
<1>0. IsOuts(m.withdrawals) /\ IsOuts(m.unstakes)
  BY DEF IsMsg
<1>1. DOMAIN m.withdrawals = 1..Len(m.withdrawals) /\ DOMAIN m.unstakes = 1..Len(m.unstakes)
  BY <1>0, PaidInt
<1>2. DataOutput \notin Ours /\ CommitOutput \notin Ours
  BY AddressesApart
<1>3. ASSUME NEW dest \in Destinations(m) PROVE At(d, m)[dest] \notin Ours
  <2>1. dest # Self /\ dest \in DOMAIN OtherAddress
    BY DEF Outward, Reachable
  <2>2. At(d, m)[dest] = OtherAddress[dest]
    BY <2>1 DEF At
  <2> QED BY <2>1, <2>2, AddressesApart
<1>4. \A k \in 1..Len(m.withdrawals) : m.withdrawals[k].to \notin Ours
  BY <1>1 DEF Outward
<1>5. \A k \in 1..Len(m.unstakes) : m.unstakes[k].to \notin Ours
  BY <1>1 DEF Outward
<1> QED BY <1>2, <1>3, <1>4, <1>5, OutputsGo

\* After the commitment to the batch no output looks like one.
LEMMA OneCommit ==
  ASSUME NEW m, IsMsg(m), Reachable(m), HasBatch(m), ToBackups(m.unstakes), NEW d, Here(d.conf) \in Ours,
         NEW outs, NEW q, NEW more,
         Layout(m, outs, q, At(d, m), more), NEW i \in 1..Len(outs), i > Len(m.withdrawals) + 2
  PROVE  outs[i].to # CommitOutput
<1>1. Len(m.withdrawals) \in Nat
  <2>1. IsOuts(m.withdrawals)
    BY DEF IsMsg
  <2> QED BY <2>1, PaidInt
<1>2. Ahead(m) = 2 + Len(m.withdrawals)
  BY <1>1, AheadOf
<1>3. i # 1 /\ i # Ahead(m) /\ ~\E k \in 1..Len(m.withdrawals) : i = 1 + k
  <2> DEFINE w == Len(m.withdrawals)
  <2> HIDE DEF w
  <2>1. w \in Nat /\ i > w + 2 /\ Ahead(m) = 2 + w
    BY <1>1, <1>2 DEF w
  <2>2. i # 1 /\ i # Ahead(m) /\ ~\E k \in 1..w : i = 1 + k
    BY <2>1
  <2> QED BY <2>2 DEF w
<1>4. \/ \E dest \in Destinations(m) : outs[i].to = At(d, m)[dest]
      \/ \E k \in 1..Len(m.unstakes) : outs[i].to = m.unstakes[k].to
  BY <1>3, OutputsGo
<1>5. ASSUME NEW dest \in Destinations(m) PROVE At(d, m)[dest] # CommitOutput
  <2>1. CASE dest = Self
    <3>1. At(d, m)[dest] = Here(d.conf)
      BY <2>1 DEF At
    <3> QED BY <3>1, AddressesApart
  <2>2. CASE dest # Self
    <3>1. At(d, m)[dest] = OtherAddress[dest] /\ dest \in DOMAIN OtherAddress
      BY <2>2 DEF At, Reachable
    <3> QED BY <3>1, AddressesApart
  <2> QED BY <2>1, <2>2
<1>6. \A k \in 1..Len(m.unstakes) : m.unstakes[k].to # CommitOutput
  <2>1. CommitOutput \notin Backups
    BY AddressesApart DEF Backups
  <2> QED BY <2>1 DEF ToBackups
<1> QED BY <1>4, <1>5, <1>6

LEMMA FollowedIs ==
  ASSUME NEW base, IsOuts(base), NEW outs, NEW change, Followed(outs, base, change)
  PROVE  /\ Len(outs) \in Nat /\ Len(base) \in Nat /\ Len(outs) >= Len(base)
         /\ \A i \in 1..Len(base) : outs[i] = base[i]
         /\ \A i \in 1..Len(outs) : i \in 1..Len(base) \/ outs[i].to = change
<1>1. PICK S : base \in Seq(S)
  BY DEF IsOuts
<1>2. Len(base) \in Nat
  BY <1>1
<1>3. CASE outs = base
  BY <1>2, <1>3
<1>4. CASE \E x : outs = Append(base, Pay(change, x))
  <2>1. PICK x : outs = Append(base, Pay(change, x))
    BY <1>4
  <2> DEFINE o == Pay(change, x)
  <2>2. o.to = change
    BY DEF Pay
  <2> HIDE DEF o
  <2>3. base \in Seq(S \cup {o}) /\ o \in S \cup {o} /\ outs = Append(base, o)
    BY <1>1, <2>1 DEF o
  <2>4. Len(outs) = Len(base) + 1 /\ (\A i \in 1..Len(base) : outs[i] = base[i]) /\ outs[Len(base) + 1] = o
    BY <2>3
  <2>5. ASSUME NEW i \in 1..Len(outs) PROVE i \in 1..Len(base) \/ i = Len(base) + 1
    BY <1>2, <2>4
  <2> QED BY <1>2, <2>2, <2>4, <2>5
<1> QED BY <1>3, <1>4 DEF Followed

\* The monitors find the outputs where the message has them.
Readable(tx) ==
  LET m == tx.msg
      w == Len(m.withdrawals)
      u == Len(m.unstakes)
  IN  /\ IsMsg(m) /\ ToBackups(m.unstakes) /\ tx.meta = Metadata(m) /\ w <= MaxCount
      /\ \A i \in 1..w : tx.outs[1 + i] = m.withdrawals[i]
      /\ 1 + w <= Len(tx.outs)
      /\ \E r \in Nat : /\ ~HasBatch(m) => r = 1 + w
                        /\ r + u <= Len(tx.outs)
                        /\ \A i \in 1..u : /\ tx.outs[r + i].to = m.unstakes[i].to
                                           /\ ~m.kill => tx.outs[r + i].value = m.unstakes[i].value
      /\ HasBatch(m) => \A j \in 1..Len(tx.outs) : j > w + 2 => tx.outs[j].to # CommitOutput

\* What KillPaysOut says of tx.
PaidOut(tx) ==
  LET m == tx.msg
      u == Len(m.unstakes)
  IN  m.kill /\ Outward(m) =>
        \E k \in Nat : \E more :
          /\ Len(tx.outs) = k + u
          /\ \A i \in 1..Len(tx.outs) : tx.outs[i].to \notin Ours
          /\ \A i \in 1..u : /\ more[i] \in Int
                             /\ tx.outs[k + i].to = m.unstakes[i].to
                             /\ tx.outs[k + i].value = m.unstakes[i].value + more[i]
          /\ Proportional(m.unstakes, more)

LEMMA IsReadable ==
  ASSUME NEW tx, NEW m, tx.msg = m, IsMsg(m), Reachable(m), ToBackups(m.unstakes), tx.meta = Metadata(m),
         Len(m.withdrawals) <= MaxCount, NEW d, Here(d.conf) \in Ours, NEW change \in Ours,
         NEW base, NEW q, NEW more, Layout(m, base, q, At(d, m), more), ~m.kill => more = NoMore(m),
         Followed(tx.outs, base, change)
  PROVE  Readable(tx)
<1> DEFINE outs == tx.outs
           w == Len(m.withdrawals)
           u == Len(m.unstakes)
           a == Ahead(m)
           r == a + q
           l == Len(base)
           n == Len(outs)
<1>1. IsOuts(base) /\ q \in Nat /\ l = a + q + u /\ (~HasBatch(m) => q = 0)
  BY DEF Layout
<1>2. /\ n \in Nat /\ l \in Nat /\ n >= l
      /\ \A i \in 1..l : outs[i] = base[i]
      /\ \A i \in 1..n : i \in 1..l \/ outs[i].to = change
  BY <1>1, FollowedIs
<1>3. w \in Nat /\ u \in Nat
  <2>1. IsOuts(m.withdrawals) /\ IsOuts(m.unstakes)
    BY DEF IsMsg
  <2> QED BY <2>1, PaidInt
<1>4. a \in Nat /\ a >= 1 + w /\ (~HasBatch(m) => a = 1 + w)
  BY <1>3, AheadOf
<1>5. \A i \in 1..w : base[1 + i] = m.withdrawals[i]
  BY DEF Layout
<1>6. \A i \in 1..u : /\ more[i] \in Int /\ base[r + i].to = m.unstakes[i].to
                      /\ base[r + i].value = m.unstakes[i].value + more[i]
  BY DEF Layout
<1>7. \A i \in 1..u : m.unstakes[i].value \in Int /\ (~m.kill => more[i] = 0)
  BY DEF IsMsg, IsOuts, NoMore
<1>14. w <= MaxCount
  OBVIOUS
<1>8. HasBatch(m) => \A j \in 1..n : j > w + 2 => outs[j].to # CommitOutput
  <2> SUFFICES ASSUME HasBatch(m), NEW j \in 1..n, j > w + 2 PROVE outs[j].to # CommitOutput
    OBVIOUS
  <2>1. CASE j \in 1..l
    <3>1. base[j].to # CommitOutput
      BY <2>1, OneCommit
    <3> QED BY <1>2, <2>1, <3>1
  <2>2. CASE j \notin 1..l
    <3>1. outs[j].to = change
      BY <1>2, <2>2
    <3> QED BY <3>1, AddressesApart
  <2> QED BY <2>1, <2>2
<1> HIDE DEF outs, w, u, a, r, l, n
<1>9. \A i \in 1..w : outs[1 + i] = m.withdrawals[i]
  <2>1. \A i \in 1..w : 1 + i \in 1..l
    BY <1>1, <1>3, <1>4
  <2> QED BY <1>2, <1>5, <2>1
<1>10. 1 + w <= n /\ r \in Nat /\ (~HasBatch(m) => r = 1 + w) /\ r + u <= n
  BY <1>1, <1>2, <1>3, <1>4 DEF r
<1>11. ASSUME NEW i \in 1..u PROVE outs[r + i].to = m.unstakes[i].to /\ (~m.kill => outs[r + i].value = m.unstakes[i].value)
  <2>1. r + i \in 1..l
    BY <1>1, <1>3, <1>4, <1>10 DEF r
  <2>2. outs[r + i] = base[r + i]
    BY <1>2, <2>1
  <2> QED BY <1>6, <1>7, <2>2
<1>12. \E k \in Nat : /\ ~HasBatch(m) => k = 1 + w
                      /\ k + u <= n
                      /\ \A i \in 1..u : /\ outs[k + i].to = m.unstakes[i].to
                                         /\ ~m.kill => outs[k + i].value = m.unstakes[i].value
  BY <1>10, <1>11
<1>13. 1 + w <= n
  BY <1>10
<1> QED BY <1>8, <1>9, <1>12, <1>13, <1>14 DEF Readable, outs, w, u, n

LEMMA PaidPositive ==
  ASSUME NEW u, IsOuts(u), u # <<>>, \A i \in 1..Len(u) : u[i].value \in Nat /\ u[i].value > 0
  PROVE  Paid(u) > 0
<1> DEFINE L == Len(u)
           n == L - 1
           f == [i \in DOMAIN u |-> u[i].value]
<1>1. PICK S : u \in Seq(S)
  BY DEF IsOuts
<1>2. L \in Nat /\ L # 0 /\ DOMAIN u = 1..L
  BY <1>1
<1>3. \A i \in 1..L : f[i] \in Nat /\ f[i] > 0
  BY <1>2
<1> HIDE DEF f, L
<1>4. n \in Nat /\ L = n + 1 /\ L \in 1..L /\ 1..n \subseteq 1..L
  BY <1>2
<1>5. Ints(f, 1..(n + 1)) /\ Nats(f, 1..n) /\ IsFiniteSet(1..n)
  <2>1. \A i \in 1..L : f[i] \in Int
    BY <1>3
  <2>2. Ints(f, 1..(n + 1)) /\ Nats(f, 1..n)
    BY <1>3, <1>4, <2>1 DEF Ints, Nats
  <2>3. IsFiniteSet(1..n)
    BY <1>4, FS_Interval
  <2> QED BY <2>2, <2>3
<1>6. SumFunctionOnSet(f, 1..(n + 1)) = SumFunctionOnSet(f, 1..n) + f[n + 1]
  BY <1>4, <1>5, SumLast
<1>7. SumFunctionOnSet(f, 1..n) \in Nat
  BY <1>5, SumNat
<1>8. f[n + 1] \in Nat /\ f[n + 1] > 0
  BY <1>3, <1>4
<1>9. Paid(u) = SumFunctionOnSet(f, 1..(n + 1))
  BY <1>2, <1>4 DEF Paid, f, L
<1> QED BY <1>6, <1>7, <1>8, <1>9

LEMMA WritesReadable ==
  ASSUME FollowInv, CoinInv, NEW v \in Validators, NEW m, db[v].count < Len(wants),
         m = Completed(db[v], wants[db[v].count + 1]), MayCheckpoint(v, db[v], m),
         NEW tx \in CheckpointTxs(db[v], m)
  PROVE  Readable(tx) /\ PaidOut(tx)
<1> DEFINE d == db[v]
           want == wants[d.count + 1]
<1>1. IsKnown(d)
  BY KnownDb
<1>2. want \in Wants
  <2>1. d.count \in Nat /\ wants \in Seq(Wants)
    BY <1>1 DEF IsKnown, IsDb, CoinInv
  <2>2. d.count + 1 \in 1..Len(wants)
    BY <2>1
  <2> QED BY <2>1, <2>2
<1>3. IsMsg(m) /\ ToBackups(m.unstakes)
  BY <1>1, <1>2, CompletedOK
<1>4. /\ m.transfers = want.transfers
      /\ m.kill => m.unstakes = CommitteeUnstakes(d.conf)
  BY DEF Completed
<1>5. v \in Members(Configs[d.conf]) /\ Valid(m)
      /\ (m.kill \/ KeepsCommittee(d, m.conf) \/ m.conf \in (d.conf + 1)..d.recorded)
  BY DEF MayCheckpoint
<1> HIDE DEF d, want
<1>6. Reachable(m)
  <2> DEFINE D == {Self} \cup DOMAIN OtherAddress
             t == want.transfers
             R == [dest : D, value : Nat]
  <2>1. t \in Seq(R) /\ \A x \in R : x.dest \in D
    BY <1>2 DEF Wants
  <2> HIDE DEF D, t, R
  <2>2. \A i \in DOMAIN t : t[i].dest \in D
    BY <2>1
  <2>3. Destinations(m) \subseteq D
    BY <1>4, <2>2 DEF Destinations, t
  <2> QED BY <2>3 DEF Reachable, D
<1>7. d.conf \in DOMAIN Configs /\ d.conf \in Nat /\ d.recorded \in Nat /\ 0..d.recorded \subseteq DOMAIN Configs
  BY <1>1 DEF IsKnown, IsDb
<1>8. NextConf(d, m) \in DOMAIN Configs
  <2>1. CASE ~m.kill /\ m.conf > d.conf
    <3>1. NextConf(d, m) = m.conf
      BY <2>1 DEF NextConf
    <3>2. m.conf \in (d.conf + 1)..d.recorded
      <4>1. ~KeepsCommittee(d, m.conf)
        <5> SUFFICES ASSUME KeepsCommittee(d, m.conf) PROVE FALSE
          OBVIOUS
        <5>1. m.conf = 0 \/ m.conf = d.conf
          BY DEF KeepsCommittee
        <5> QED BY <1>7, <2>1, <5>1
      <4> QED BY <1>5, <2>1, <4>1
    <3>3. m.conf \in 0..d.recorded
      BY <1>7, <3>2
    <3> QED BY <1>7, <3>1, <3>3
  <2>2. CASE ~(~m.kill /\ m.conf > d.conf)
    <3>1. NextConf(d, m) = d.conf
      BY <2>2 DEF NextConf
    <3> QED BY <1>7, <3>1
  <2> QED BY <2>1, <2>2
<1> DEFINE from == Here(d.conf)
           to == Here(NextConf(d, m))
           S == Unspent(from)
           rotates == to # from
<1>9. from \in Ours /\ to \in Ours
  BY <1>7, <1>8 DEF Ours
<1>10. PICK order, t :
           /\ order \in SetToSeqs(Destinations(m))
           /\ t = ToCheckpointPsbt(m, S, rotates, order, At(d, m), to)
           /\ t.ok /\ Carries(tx, t)
           /\ tx.meta = Metadata(m) /\ tx.msg = m
  BY CheckpointParts DEF d
<1>11. IsCoins(S) /\ rotates \in BOOLEAN
  BY UnspentCoins
<1>12. tx.outs = t.outs
  BY <1>10 DEF Carries
<1>13. ASSUME m.kill
       PROVE  /\ m.unstakes # <<>> /\ Paid(m.unstakes) > 0 /\ IsOuts(m.unstakes)
              /\ \A i \in 1..Len(m.unstakes) : m.unstakes[i].value \in Nat
  <2> DEFINE u == CommitteeUnstakes(d.conf)
  <2>1. m.unstakes = u
    BY <1>4, <1>13
  <2>2. IsOuts(u) /\ u # <<>> /\ \A i \in 1..Len(u) : u[i].value \in Nat /\ u[i].value > 0
    BY <1>5, <1>7, CommitteeUnstakesOK
  <2> HIDE DEF u
  <2>3. Paid(u) > 0
    BY <2>2, PaidPositive
  <2> QED BY <2>1, <2>2, <2>3
<1> HIDE DEF from, to, S, rotates
<1>14. Readable(tx)
  <2>2. PICK q, more, base : /\ Layout(m, base, q, At(d, m), more) /\ (~m.kill => more = NoMore(m))
                             /\ Followed(t.outs, base, to)
    BY <1>3, <1>10, <1>11, Shaped
  <2>3. Len(m.withdrawals) <= MaxCount
    BY <1>5 DEF Valid
  <2>4. Followed(tx.outs, base, to)
    BY <1>12, <2>2
  <2>5. Here(d.conf) \in Ours
    BY <1>9 DEF from
  <2> QED BY <1>3, <1>6, <1>9, <1>10, <2>2, <2>3, <2>4, <2>5, IsReadable
<1>15. PaidOut(tx)
  <2> SUFFICES ASSUME m.kill, Outward(m)
               PROVE  \E k \in Nat : \E more :
                        /\ Len(tx.outs) = k + Len(m.unstakes)
                        /\ \A i \in 1..Len(tx.outs) : tx.outs[i].to \notin Ours
                        /\ \A i \in 1..Len(m.unstakes) :
                             /\ more[i] \in Int
                             /\ tx.outs[k + i].to = m.unstakes[i].to
                             /\ tx.outs[k + i].value = m.unstakes[i].value + more[i]
                        /\ Proportional(m.unstakes, more)
    BY <1>10, ZenonT(40) DEF PaidOut
  <2>1. ASSUME NEW q, NEW more, NEW outs, Layout(m, outs, q, At(d, m), more)
        PROVE  \A i \in 1..Len(outs) : outs[i].to \notin Ours
    BY <1>3, <1>6, <2>1, OutwardPays
  <2>2. \A q, more, outs : Layout(m, outs, q, At(d, m), more) => \A i \in 1..Len(outs) : outs[i].to # to
    BY <1>9, <2>1
  <2>3. PICK q, more : /\ Layout(m, t.outs, q, At(d, m), more)
                       /\ Proportional(m.unstakes, more)
    BY <1>3, <1>10, <1>11, <1>13, <2>2, KillShaped
  <2> DEFINE k == Ahead(m) + q
  <2>4. k \in Nat
    <3>1. IsOuts(m.withdrawals)
      BY <1>3 DEF IsMsg
    <3>2. Len(m.withdrawals) \in Nat
      BY <3>1, PaidInt
    <3>3. Ahead(m) \in Nat /\ q \in Nat
      BY <2>3, <3>2, AheadOf DEF Layout
    <3> QED BY <3>3
  <2>5. /\ Len(t.outs) = k + Len(m.unstakes)
        /\ \A i \in 1..Len(m.unstakes) : /\ more[i] \in Int
                                         /\ t.outs[k + i].to = m.unstakes[i].to
                                         /\ t.outs[k + i].value = m.unstakes[i].value + more[i]
    BY <2>3 DEF Layout
  <2>6. \A i \in 1..Len(t.outs) : t.outs[i].to \notin Ours
    BY <2>1, <2>3
  <2> HIDE DEF k
  <2>7. Len(tx.outs) = k + Len(m.unstakes)
    BY <1>12, <2>5
  <2>8. \A i \in 1..Len(m.unstakes) : /\ more[i] \in Int
                                       /\ tx.outs[k + i].to = m.unstakes[i].to
                                       /\ tx.outs[k + i].value = m.unstakes[i].value + more[i]
    BY <1>12, <2>5
  <2>9. \A i \in 1..Len(tx.outs) : tx.outs[i].to \notin Ours
    BY <1>12, <2>6
  <2> QED BY <2>3, <2>4, <2>7, <2>8, <2>9, Zenon
<1> QED BY <1>14, <1>15

----------------------------------------------------------------------------
(* The invariant of the checkpoints.                                       *)

Spent(tx) == IsCheckpoint(tx) => RevealSpends(tx.msg, tx.outs)

DraftInv ==
  /\ \A s \in signed : IsCheckpoint(s.tx) => Readable(s.tx) /\ PaidOut(s.tx)
  /\ \A tx \in mempool : Spent(tx)
  /\ \A i \in 1..Len(chain) : Spent(chain[i])

LEMMA InitDraft == Init => DraftInv
<1> SUFFICES ASSUME Init PROVE DraftInv
  OBVIOUS
<1>1. signed = {} /\ mempool = {} /\ chain = <<>>
  BY DEF Init
<1> QED BY <1>1 DEF DraftInv

LEMMA DraftsMove ==
  ASSUME DraftInv,
         \A s \in signed' : s \in signed \/ (IsCheckpoint(s.tx) => Readable(s.tx) /\ PaidOut(s.tx)),
         \A tx \in mempool' : tx \in mempool \/ Spent(tx),
         \A i \in 1..Len(chain') : (\E j \in 1..Len(chain) : chain'[i] = chain[j]) \/ Spent(chain'[i])
  PROVE  DraftInv'
<1>1. \A s \in signed' : IsCheckpoint(s.tx) => Readable(s.tx) /\ PaidOut(s.tx)
  BY DEF DraftInv
<1>2. \A tx \in mempool' : Spent(tx)
  BY DEF DraftInv
<1>3. \A i \in 1..Len(chain') : Spent(chain'[i])
  BY DEF DraftInv
<1> QED BY <1>1, <1>2, <1>3 DEF DraftInv

LEMMA SignDraft ==
  ASSUME DraftInv, NEW v, NEW tx, NEW all, Sign(v, tx, all), IsCheckpoint(tx) => Readable(tx) /\ PaidOut(tx)
  PROVE  DraftInv'
<1>1. UNCHANGED <<chain, mempool>>
  BY DEF Sign
<1>2. \A s \in signed' : s \in signed \/ s.tx = tx
  BY DEF Sign
<1> QED BY <1>1, <1>2, DraftsMove

LEMMA ChainDraft ==
  ASSUME FollowInv, DraftInv, NEW x, Spent(x), chain' = Append(chain, x), mempool' \subseteq mempool, signed' = signed
  PROVE  DraftInv'
<1>1. PICK S : chain \in Seq(S)
  BY DEF FollowInv
<1>2. \A i \in 1..Len(chain') : chain'[i] = x \/ (i \in 1..Len(chain) /\ chain'[i] = chain[i])
  BY <1>1
<1>3. \A i \in 1..Len(chain') : (\E j \in 1..Len(chain) : chain'[i] = chain[j]) \/ Spent(chain'[i])
  BY <1>2
<1> QED BY <1>3, DraftsMove

LEMMA StepDraft == ASSUME FollowInv, CoinInv, DraftInv, [Next]_vars PROVE DraftInv'
<1>1. ASSUME UNCHANGED <<signed, mempool, chain>> PROVE DraftInv'
  BY <1>1, DraftsMove
<1>2. ASSUME NEW v \in Validators, Deposit(v) PROVE DraftInv'
  BY <1>1, <1>2 DEF Deposit
<1>3. ASSUME NEW v \in Validators, GenCheckpoint(v) PROVE DraftInv'
  <2> DEFINE m == Completed(db[v], wants[db[v].count + 1])
  <2>1. db[v].count < Len(wants) /\ MayCheckpoint(v, db[v], m)
        /\ \E tx \in CheckpointTxs(db[v], m) : Sign(v, tx, m.kill \/ tx.to # tx.from)
    BY <1>3 DEF GenCheckpoint
  <2>2. PICK tx \in CheckpointTxs(db[v], m) : Sign(v, tx, m.kill \/ tx.to # tx.from)
    BY <2>1
  <2>3. Readable(tx) /\ PaidOut(tx)
    BY <2>1, WritesReadable
  <2> QED BY <2>2, <2>3, SignDraft
<1>4. ASSUME NEW v \in Validators, GenBootstrapHandover(v) PROVE DraftInv'
  <2> DEFINE t == ConstructSpend(Unspent(WhitelistAddress), TRUE, <<>>, Here(db[v].conf), 0)
             tx == [kind |-> "handover", from |-> WhitelistAddress,
                    ins |-> {c.id : c \in t.ins}, outs |-> t.outs,
                    spent |-> Total(t.ins), to |-> Here(db[v].conf)]
  <2>1. Sign(v, tx, FALSE)
    BY <1>4 DEF GenBootstrapHandover
  <2>2. ~IsCheckpoint(tx)
    BY DEF IsCheckpoint
  <2> HIDE DEF tx
  <2> QED BY <2>1, <2>2, SignDraft
<1>5. ASSUME NEW v \in Validators, NEW out \in spends, GenMultisigSpend(v, out) PROVE DraftInv'
  <2> DEFINE here == Here(db[v].conf)
             t == ConstructSpend(Unspent(here), FALSE, <<out>>, here, 0)
             tx == [kind |-> "spend", from |-> here, ins |-> {c.id : c \in t.ins},
                    outs |-> t.outs, spent |-> Total(t.ins), to |-> here]
  <2>1. Sign(v, tx, FALSE)
    BY <1>5 DEF GenMultisigSpend
  <2>2. ~IsCheckpoint(tx)
    BY DEF IsCheckpoint
  <2> HIDE DEF tx
  <2> QED BY <2>1, <2>2, SignDraft
<1>6. ASSUME NEW v \in Validators, NEW s \in signed, Finalize(v, s.tx) PROVE DraftInv'
  <2>1. UNCHANGED <<chain, signed>> /\ mempool' = mempool \cup {s.tx} /\ Acceptable(s.tx)
    BY <1>6 DEF Finalize
  <2>2. Spent(s.tx)
    BY <2>1 DEF Acceptable, Spent, IsCheckpoint
  <2> QED BY <2>1, <2>2, DraftsMove
<1>7. ASSUME NEW v \in Validators, Handle(v) PROVE DraftInv'
  BY <1>1, <1>7 DEF Handle
<1>8. CASE Happens
  <2> DEFINE x == [kind |-> Head(events)]
  <2>1. UNCHANGED <<signed, mempool>> /\ chain' = Append(chain, x)
    BY <1>8 DEF Happens
  <2>2. Spent(x)
    <3>1. Head(events) \in {"change", "mark"}
      BY <1>8 DEF Happens, FollowInv
    <3> QED BY <3>1 DEF IsCheckpoint, Spent
  <2> HIDE DEF x
  <2> QED BY <2>1, <2>2, ChainDraft
<1>9. ASSUME NEW tx \in mempool, Confirm(tx) PROVE DraftInv'
  <2>1. signed' = signed /\ mempool' \subseteq mempool
        /\ chain' = IF tx.kind = "checkpoint" THEN Append(chain, tx) ELSE chain
    BY <1>9 DEF Confirm
  <2>2. CASE tx.kind = "checkpoint"
    <3>1. Spent(tx)
      BY DEF DraftInv
    <3> QED BY <2>1, <2>2, <3>1, ChainDraft
  <2>3. CASE tx.kind # "checkpoint"
    BY <2>1, <2>3, DraftsMove
  <2> QED BY <2>2, <2>3
<1>10. ASSUME NEW tx \in reveals, ConfirmReveal(tx) PROVE DraftInv'
  BY <1>1, <1>10 DEF ConfirmReveal
<1>11. CASE SendReveal
  BY <1>1, <1>11 DEF SendReveal
<1>12. CASE Stop
  BY <1>1, <1>12 DEF Stop
<1>13. CASE UNCHANGED vars
  BY <1>1, <1>13 DEF vars
<1> QED
  BY <1>2, <1>3, <1>4, <1>5, <1>6, <1>7, <1>8, <1>9, <1>10, <1>11, <1>12, <1>13 DEF Next

\* The inductive invariant of the checkpoints that are drafted, sent and confirmed.
THEOREM CheckpointsKept == Spec => [](FollowInv /\ CoinInv /\ TxInv /\ DraftInv)
<1>1. FollowInv /\ CoinInv /\ TxInv /\ DraftInv /\ [Next]_vars => (FollowInv /\ CoinInv /\ TxInv /\ DraftInv)'
  BY StepFollow, StepCoins, StepDraft
<1> QED BY <1>1, InitFollow, InitCoins, InitDraft, PTL DEF Spec

\* KillPaysOut: the checkpoint that ends a subnet leaves nothing at an address of
\* the subnet, repays every member of the committee its collateral and shares
\* what else there was in proportion, off by less than two satoshi for all but
\* the last, who has the rest, when nothing it was asked to pay goes to the
\* subnet itself.  The proportions are those of the code's floating point, of
\* any precision that has two bits more than the amounts.
THEOREM KillPays == Spec => []KillPaysOut
<1>1. TxInv /\ DraftInv => KillPaysOut
  <2> SUFFICES ASSUME TxInv, DraftInv, NEW s \in signed, IsCheckpoint(s.tx), s.tx.meta.kill, Outward(s.tx.msg)
               PROVE  LET tx == s.tx
                          u == tx.msg.unstakes
                          n == Len(tx.outs) - Len(u)
                          extra(i) == tx.outs[n + i].value - u[i].value
                          all == SumFunctionOnSet([i \in DOMAIN u |-> extra(i)], DOMAIN u)
                      IN  /\ \A i \in DOMAIN tx.outs : tx.outs[i].to \notin Ours
                          /\ \A i \in DOMAIN u : tx.outs[n + i].to = u[i].to
                          /\ InSupply(u, all) =>
                               \A i \in DOMAIN u :
                                 /\ extra(i) >= 0
                                 /\ extra(i) * Paid(u) > (all * u[i].value) - 2 * Paid(u)
                                 /\ i < Len(u) => extra(i) * Paid(u) < (all * u[i].value) + Paid(u)
    BY Zenon DEF KillPaysOut, IsCheckpoint
  <2> DEFINE tx == s.tx
             m == tx.msg
             u == m.unstakes
             U == Len(u)
             n == Len(tx.outs) - Len(u)
             extra(i) == tx.outs[n + i].value - u[i].value
             f == [i \in DOMAIN u |-> extra(i)]
             all == SumFunctionOnSet(f, DOMAIN u)
  <2>1. Readable(tx) /\ PaidOut(tx) /\ IsOuts(tx.outs)
    BY DEF DraftInv, TxInv, IsTx
  <2>2. IsMsg(m) /\ tx.meta = Metadata(m)
    BY <2>1 DEF Readable
  <2>3. IsOuts(u) /\ m.kill
    BY <2>2 DEF IsMsg, Metadata
  <2>4. U \in Nat /\ DOMAIN u = 1..U /\ DOMAIN tx.outs = 1..Len(tx.outs)
    BY <2>1, <2>3, PaidInt
  <2>5. PICK k, more :
          /\ k \in Nat /\ Len(tx.outs) = k + U
          /\ \A i \in 1..Len(tx.outs) : tx.outs[i].to \notin Ours
          /\ \A i \in 1..U : /\ more[i] \in Int
                             /\ tx.outs[k + i].to = u[i].to
                             /\ tx.outs[k + i].value = u[i].value + more[i]
          /\ Proportional(u, more)
    BY <2>1, <2>3 DEF PaidOut
  <2>6. n = k
    <3> HIDE DEF U
    <3>1. n = Len(tx.outs) - U
      BY DEF U
    <3> HIDE DEF n
    <3> QED BY <2>4, <2>5, <3>1
  <2>7. \A i \in 1..U : u[i].value \in Int
    BY <2>3 DEF IsOuts
  <2>8. \A i \in 1..U : extra(i) = more[i]
    <3> HIDE DEF n, u, U
    <3> SUFFICES ASSUME NEW i \in 1..U PROVE tx.outs[n + i].value - u[i].value = more[i]
      OBVIOUS
    <3>1. tx.outs[n + i].value = u[i].value + more[i] /\ u[i].value \in Int /\ more[i] \in Int
      BY <2>5, <2>6, <2>7
    <3> QED BY <3>1
  <2>9. \A i \in 1..U : f[i] = extra(i)
    BY <2>4
  <2> HIDE DEF f, extra
  <2>10. SumFunctionOnSet(f, 1..U) = SumFunctionOnSet(more, 1..U)
    <3>1. Ints(more, 1..U) /\ \A i \in 1..U : f[i] = more[i]
      <4>1. \A i \in 1..U : more[i] \in Int
        BY <2>5
      <4>2. \A i \in 1..U : f[i] = more[i]
        BY <2>8, <2>9
      <4> QED BY <4>1, <4>2 DEF Ints
    <3>2. IsFiniteSet(1..U)
      BY <2>4, FS_Interval
    <3> HIDE DEF U
    <3> QED BY <3>1, <3>2, SumSame
  <2>11. all = SumFunctionOnSet(more, 1..U)
    BY <2>4, <2>10
  <2> HIDE DEF all
  <2>12. InSupply(u, all) =>
           \A i \in 1..U : /\ more[i] >= 0
                           /\ more[i] * Paid(u) > (all * u[i].value) - 2 * Paid(u)
                           /\ i < U => more[i] * Paid(u) < (all * u[i].value) + Paid(u)
    BY <2>5, <2>11 DEF Proportional
  <2>13. ASSUME InSupply(u, all), NEW i \in DOMAIN u
         PROVE  /\ extra(i) >= 0
                /\ extra(i) * Paid(u) > (all * u[i].value) - 2 * Paid(u)
                /\ i < Len(u) => extra(i) * Paid(u) < (all * u[i].value) + Paid(u)
    <3>1. i \in 1..U
      BY <2>4
    <3>3. extra(i) = more[i]
      BY <2>8, <3>1
    <3>4. extra(i) >= 0
      BY <2>12, <2>13, <3>1, <3>3
    <3>5. /\ more[i] * Paid(u) > (all * u[i].value) - 2 * Paid(u)
          /\ i < U => more[i] * Paid(u) < (all * u[i].value) + Paid(u)
      BY <2>12, <2>13, <3>1
    <3> HIDE DEF u, n, U
    <3> QED BY <3>3, <3>4, <3>5 DEF U
  <2>14. \A i \in DOMAIN u : tx.outs[n + i].to = u[i].to
    <3> HIDE DEF n
    <3> QED BY <2>4, <2>5, <2>6
  <2>15. \A i \in DOMAIN tx.outs : tx.outs[i].to \notin Ours
    BY <2>4, <2>5
  <2> QED BY <2>13, <2>14, <2>15, Zenon DEF extra, all, f
<1> QED BY <1>1, CheckpointsKept, PTL

\* n outputs after the first a.
LEMMA Window ==
  ASSUME NEW s, IsOuts(s), NEW a \in Nat, NEW n \in Nat, a + n <= Len(s)
  PROVE  /\ IsOuts(SubSeq(s, a + 1, a + n)) /\ Len(SubSeq(s, a + 1, a + n)) = n
         /\ \A i \in 1..n : SubSeq(s, a + 1, a + n)[i] = s[a + i]
<1> DEFINE r == SubSeq(s, a + 1, a + n)
<1>1. PICK S : s \in Seq(S)
  BY DEF IsOuts
<1>2. \A i \in (a + 1)..(a + n) : i \in 1..Len(s) /\ s[i] \in S
  BY <1>1
<1>3. a + 1 \in Int /\ a + n \in Int
  OBVIOUS
<1>4. /\ r \in Seq(S)
      /\ Len(r) = IF a + 1 <= a + n THEN (a + n) - (a + 1) + 1 ELSE 0
      /\ \A i \in 1..((a + n) - (a + 1) + 1) : r[i] = s[(a + 1) + i - 1]
  <2> DEFINE b == a + 1
             c == a + n
  <2>1. b \in Int /\ c \in Int /\ \A i \in b..c : s[i] \in S
    BY <1>2, <1>3
  <2> HIDE DEF b, c
  <2>2. /\ SubSeq(s, b, c) \in Seq(S)
        /\ Len(SubSeq(s, b, c)) = IF b <= c THEN c - b + 1 ELSE 0
        /\ \A i \in 1..(c - b + 1) : SubSeq(s, b, c)[i] = s[b + i - 1]
    BY <2>1, SubSeqProperties
  <2> QED BY <2>2 DEF b, c
<1> HIDE DEF r
<1>5. Len(r) = n
  BY <1>4
<1>6. \A i \in 1..n : r[i] = s[a + i]
  <2> SUFFICES ASSUME NEW i \in 1..n PROVE r[i] = s[a + i]
    OBVIOUS
  <2>1. i \in 1..((a + n) - (a + 1) + 1) /\ (a + 1) + i - 1 = a + i
    OBVIOUS
  <2> QED BY <1>4, <2>1
<1>7. \A i \in 1..n : r[i].value \in Int
  <2> SUFFICES ASSUME NEW i \in 1..n PROVE r[i].value \in Int
    OBVIOUS
  <2>1. a + i \in 1..Len(s)
    BY <1>1
  <2> QED BY <1>6, <2>1 DEF IsOuts
<1> QED BY <1>4, <1>5, <1>6, <1>7 DEF IsOuts, r

LEMMA SmallerOfTwo ==
  ASSUME NEW x \in Nat, NEW y \in Nat, x <= y
  PROVE  Min({x, y}) = x
<1> DEFINE S == {x, y}
<1>1. S \subseteq Nat /\ S # {}
  OBVIOUS
<1>2. Min(S) \in S /\ \A z \in S : Min(S) <= z
  BY DEF Min
<1> QED BY <1>1, <1>2

\* ReadBack: a confirmed checkpoint the monitors recognise has as its outputs, where
\* they look for them, the withdrawals and the unstakes it was written for.
THEOREM ReadsBack == Spec => []ReadBack
<1>1. FollowInv /\ TxInv /\ DraftInv => ReadBack
  <2> SUFFICES ASSUME FollowInv, TxInv, DraftInv, NEW tx \in Checkpoints, Len(tx.msg.unstakes) <= MaxCount
               PROVE  /\ ReadWithdrawals(tx) = tx.msg.withdrawals
                      /\ LET read == ReadUnstakes(tx, Backups)
                         IN  /\ Len(read) = Len(tx.msg.unstakes)
                             /\ \A i \in DOMAIN read :
                                  /\ read[i].to = tx.msg.unstakes[i].to
                                  /\ ~tx.meta.kill => read[i].value = tx.msg.unstakes[i].value
    BY DEF ReadBack, Backups
  <2> DEFINE m == tx.msg
             W == m.withdrawals
             U == m.unstakes
             w == Len(W)
             u == Len(U)
             outs == tx.outs
             l == Len(outs)
  <2>1. IsCheckpoint(tx) /\ Spent(tx) /\ tx \in Drafts
    <3>1. PICK i \in DOMAIN chain : chain[i] = tx /\ IsCheckpoint(tx)
      BY DEF Checkpoints, IsCheckpoint
    <3>2. PICK S : chain \in Seq(S)
      BY DEF FollowInv
    <3>3. i \in 1..Len(chain)
      BY <3>2
    <3> QED BY <3>1, <3>3 DEF TxInv, Gone, DraftInv
  <2>2. Readable(tx) /\ IsOuts(outs)
    BY <2>1 DEF Drafts, DraftInv, TxInv, IsTx
  <2>3. IsMsg(m) /\ ToBackups(U) /\ tx.meta = Metadata(m) /\ w <= MaxCount /\ 1 + w <= l
        /\ \A i \in 1..w : outs[1 + i] = W[i]
    BY <2>2 DEF Readable
  <2>4. IsOuts(W) /\ IsOuts(U)
    BY <2>3 DEF IsMsg
  <2>5. w \in Nat /\ u \in Nat /\ l \in Nat /\ DOMAIN outs = 1..l
    BY <2>2, <2>4, PaidInt
  <2>6. tx.meta.withdrawals = w /\ tx.meta.unstakes = u /\ tx.meta.kill = m.kill
    <3>1. Min({w, MaxCount}) = w /\ Min({u, MaxCount}) = u
      <4> HIDE DEF w, u
      <4>1. w <= MaxCount /\ u <= MaxCount /\ MaxCount \in Nat
        BY <2>3, SpendingConstants DEF u
      <4> QED BY <2>5, <4>1, SmallerOfTwo
    <3> QED BY <2>3, <3>1 DEF Metadata
  <2>7. PICK r \in Nat : /\ ~HasBatch(m) => r = 1 + w
                         /\ r + u <= l
                         /\ \A i \in 1..u : /\ outs[r + i].to = U[i].to
                                            /\ ~m.kill => outs[r + i].value = U[i].value
    BY <2>2 DEF Readable
  <2>8. HasBatch(m) => \A j \in 1..l : j > w + 2 => outs[j].to # CommitOutput
    BY <2>2 DEF Readable
  <2>9. HasBatch(m) => 1 + w + u + 1 \in 1..l /\ outs[1 + w + u + 1].to = CommitOutput
    BY <2>1, <2>5 DEF Spent, RevealSpends, RevealVout
  <2> HIDE DEF m, W, U, w, u, outs, l
  <2>10. u = 0 \/ r = 1 + w
    <3> SUFFICES ASSUME HasBatch(m) PROVE u = 0
      BY <2>7
    <3>1. ~(1 + w + u + 1 > w + 2)
      BY <2>8, <2>9
    <3> QED BY <2>5, <3>1
  <2>11. /\ 1 + w + u <= l
         /\ \A i \in 1..u : /\ outs[1 + w + i].to = U[i].to
                            /\ ~m.kill => outs[1 + w + i].value = U[i].value
    <3>1. CASE u = 0
      BY <2>3, <2>5, <3>1
    <3>2. CASE r = 1 + w
      BY <2>7, <3>2
    <3> QED BY <2>10, <3>1, <3>2
  <2>12. ReadWithdrawals(tx) = W
    <3> DEFINE s == SubSeq(outs, 1 + 1, 1 + w)
    <3>1. ReadWithdrawals(tx) = s
      <4>1. ReadWithdrawals(tx) = SubSeq(outs, 2, 1 + w)
        BY <2>6 DEF ReadWithdrawals, outs
      <4>2. 1 + 1 = 2
        OBVIOUS
      <4> QED BY <4>1, <4>2
    <3>2. IsOuts(s) /\ Len(s) = w /\ \A i \in 1..w : s[i] = outs[1 + i]
      <4>1. 1 \in Nat /\ 1 + w <= l
        BY <2>3
      <4> QED BY <2>2, <2>5, <4>1, Window DEF l
    <3> HIDE DEF s
    <3>3. PICK S : s \in Seq(S)
      BY <3>2 DEF IsOuts
    <3>4. PICK T : W \in Seq(T)
      BY <2>4 DEF IsOuts
    <3>5. s \in Seq(S \cup T) /\ W \in Seq(S \cup T)
      BY <3>3, <3>4
    <3>6. Len(s) = Len(W) /\ \A i \in 1..Len(s) : s[i] = W[i]
      BY <2>3, <3>2 DEF w
    <3>7. s = W
      BY <3>5, <3>6, SeqEqual
    <3> QED BY <3>1, <3>7
  <2> DEFINE b == 1 + w
             s == SubSeq(outs, b + 1, b + u)
  <2>13. IsOuts(s) /\ Len(s) = u /\ \A i \in 1..u : s[i] = outs[b + i]
    <3>1. b \in Nat /\ b + u <= l
      BY <2>5, <2>11
    <3> HIDE DEF b
    <3> QED BY <2>2, <2>5, <3>1, Window DEF l
  <2>14. ReadUnstakes(tx, Backups) = Picked(s, {i \in DOMAIN s : s[i].to \in Backups})
    <3>1. 2 + w = b + 1
      BY <2>5
    <3>2. ReadUnstakes(tx, Backups)
            = LET o == SubSeq(outs, 2 + w, 1 + w + u) IN Picked(o, {i \in DOMAIN o : o[i].to \in Backups})
      BY <2>6 DEF ReadUnstakes, outs
    <3> QED BY <3>1, <3>2
  <2> HIDE DEF s
  <2>15. DOMAIN s = 1..u
    BY <2>13, PaidInt
  <2>16. ASSUME NEW i \in 1..u PROVE s[i].to = U[i].to /\ (~m.kill => s[i].value = U[i].value) /\ s[i].to \in Backups
    <3>1. s[i] = outs[1 + w + i]
      BY <2>13
    <3>2. U[i].to \in Backups
      BY <2>3 DEF ToBackups, u
    <3> QED BY <2>11, <3>1, <3>2
  <2>17. {i \in DOMAIN s : s[i].to \in Backups} = DOMAIN s
    BY <2>15, <2>16
  <2>18. ReadUnstakes(tx, Backups) = s
    <3>1. PICK S : s \in Seq(S)
      BY <2>13 DEF IsOuts
    <3>2. Picked(s, DOMAIN s) = s
      BY <3>1, PickedAll
    <3> QED BY <2>14, <2>17, <3>2
  <2> QED BY <2>6, <2>12, <2>13, <2>15, <2>16, <2>18 DEF m, W, U, u
<1> QED BY <1>1, CheckpointsKept, PTL
=============================================================================
