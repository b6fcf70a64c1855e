----------------------------- MODULE RewardProofs -----------------------------
(***************************************************************************)
(* Rewards, for every set of subnets and validators, every length of a     *)
(* snapshot, every block, any number of stops and of heights that could    *)
(* not be written: nobody is rewarded for more than the collateral of the  *)
(* first block unless that block is handled again, and without a stop      *)
(* exactly the least collateral over the snapshot is rewarded.             *)
(***************************************************************************)
EXTENDS Rewards, AggregateProofs

----------------------------------------------------------------------------
(* Heights and snapshots.                                                  *)

LEMMA Bounds ==
  ASSUME NEW k \in Nat
  PROVE  StartOf(k) \in Nat /\ EndOf(k) \in Nat /\ StartOf(k) <= EndOf(k)
         /\ EndOf(k) = StartOf(k) + SnapshotLength - 1
<1>1. Activation \in Nat /\ SnapshotLength \in Nat \ {0}
  BY RewardConstants
<1> DEFINE p == k * SnapshotLength
<1>2. p \in Nat
  BY <1>1
<1>3. StartOf(k) = Activation + p /\ EndOf(k) = Activation + p + SnapshotLength - 1
  BY DEF StartOf, EndOf
<1> HIDE DEF p
<1> QED BY <1>1, <1>2, <1>3

\* A height belongs to its snapshot, and to no other.
LEMMA InSnapshot ==
  ASSUME NEW h \in Nat, h >= Activation
  PROVE  Snapshot(h) \in Nat /\ StartOf(Snapshot(h)) <= h /\ h <= EndOf(Snapshot(h))
<1>1. Activation \in Nat /\ SnapshotLength \in Nat \ {0}
  BY RewardConstants
<1> DEFINE x == h - Activation
           q == x \div SnapshotLength
           p == q * SnapshotLength
<1>2. x \in Nat
  BY <1>1
<1>3. q \in Nat /\ p <= x /\ x < p + SnapshotLength /\ p \in Nat
  BY <1>1, <1>2
<1>4. Snapshot(h) = q
  BY DEF Snapshot
<1>5. StartOf(q) = Activation + p /\ EndOf(q) = Activation + p + SnapshotLength - 1
  BY DEF StartOf, EndOf
<1> HIDE DEF q, p
<1> QED BY <1>1, <1>2, <1>3, <1>4, <1>5

LEMMA Disjoint ==
  ASSUME NEW k \in Nat, NEW q \in Nat, NEW h \in Nat,
         StartOf(k) <= h, h <= EndOf(k), StartOf(q) <= h, h <= EndOf(q)
  PROVE  k = q
<1>1. Activation \in Nat /\ SnapshotLength \in Nat \ {0}
  BY RewardConstants
<1>2. ASSUME NEW a \in Nat, NEW b \in Nat, a < b PROVE EndOf(a) < StartOf(b)
  <2>1. \E d \in Nat : b = a + 1 + d
    <3>1. b - a - 1 \in Nat /\ b = a + 1 + (b - a - 1)
      BY <1>2
    <3> QED BY <3>1
  <2>2. PICK d \in Nat : b = a + 1 + d
    BY <2>1
  <2> DEFINE L == SnapshotLength
             x == a * L
             y == d * L
  <2>3. x \in Nat /\ y \in Nat /\ L \in Nat
    BY <1>1
  <2>4. b * L = x + L + y
    BY <1>1, <2>2
  <2>5. EndOf(a) = Activation + x + L - 1 /\ StartOf(b) = Activation + b * L
    BY DEF StartOf, EndOf
  <2> HIDE DEF x, y, L
  <2> QED BY <1>1, <2>3, <2>4, <2>5
<1>3. StartOf(k) \in Nat /\ EndOf(k) \in Nat /\ StartOf(q) \in Nat /\ EndOf(q) \in Nat
  BY Bounds
<1>4. ~(k < q) /\ ~(q < k)
  BY <1>2, <1>3
<1> QED BY <1>4

LEMMA SnapshotOf ==
  ASSUME NEW k \in Nat, NEW h \in Nat, StartOf(k) <= h, h <= EndOf(k)
  PROVE  h >= Activation /\ Snapshot(h) = k
<1>1. h >= Activation
  <2> DEFINE p == k * SnapshotLength
  <2>1. p \in Nat /\ Activation \in Nat
    BY RewardConstants
  <2>2. StartOf(k) = Activation + p
    BY DEF StartOf
  <2> HIDE DEF p
  <2> QED BY <2>1, <2>2
<1>2. Snapshot(h) \in Nat /\ StartOf(Snapshot(h)) <= h /\ h <= EndOf(Snapshot(h))
  BY <1>1, InSnapshot
<1>3. Snapshot(h) = k
  BY <1>2, Disjoint
<1> QED BY <1>1, <1>3

LEMMA SnapshotsNat ==
  /\ \A k \in Snapshots : k \in Nat
  /\ \A h \in Nat : h >= Activation /\ h <= MaxHeight => Snapshot(h) \in Snapshots
<1>1. Activation \in Nat /\ MaxHeight \in Nat
  BY RewardConstants
<1>2. ASSUME NEW k \in Snapshots PROVE k \in Nat
  <2>1. PICK h \in Activation..(Activation + MaxHeight) : k = Snapshot(h)
    BY DEF Snapshots
  <2>2. h \in Nat /\ h >= Activation
    BY <1>1, <2>1
  <2> QED BY <2>1, <2>2, InSnapshot
<1>3. ASSUME NEW h \in Nat, h >= Activation, h <= MaxHeight PROVE Snapshot(h) \in Snapshots
  <2>1. h \in Activation..(Activation + MaxHeight)
    BY <1>1, <1>3
  <2> QED BY <2>1 DEF Snapshots
<1> QED BY <1>2, <1>3

----------------------------------------------------------------------------
(* The state of the subnets and the block.                                 *)

Stakings == UNION {[S -> Nat] : S \in SUBSET Validators}

Reigns == [since : Nat, stake : Stakings]

AllMessages ==
  [kind : {"bootstrap"}, subnet : Subnets]
  \cup [kind : {"checkpoint"}, subnet : Subnets, conf : Nat, kill : BOOLEAN]

States == [born : Nat \cup {None}, committee : Committees \cup {NoCommittee}, number : Nat,
           killed : Nat \cup {None}]

\* The last height that was ever processed, and the block after it.
Tip == Len(chain) - 1

Newest == chain[Len(chain)]

\* Where the monitor is: it is behind the tip only to handle blocks again.
PlaceInv ==
  /\ height \in 0..MaxHeight /\ saved \in 0..height /\ height <= Tip
  /\ chain \in Seq(Seq(AllMessages)) /\ block = chain[height + 1]
  /\ (height + 1)..Tip \subseteq again
  /\ crashes = 0 => height = Tip /\ again = {}

Types ==
  /\ PlaceInv /\ named \in [Subnets -> Nat] /\ crashes \in Nat
  /\ handled \in 0..Len(block)
  /\ states \in [Subnets -> States] /\ DOMAIN committees = Subnets
  /\ reigns \in [Subnets -> Seq(Reigns)]
  /\ DOMAIN candidates = Snapshots

\* What holds of message i of block h: a checkpoint names no number that the
\* child has passed, and a kill checkpoint is the last of its subnet.
Expected(h, i) ==
  LET m == chain[h][i]
      s == m.subnet
  IN  m.kind = "checkpoint" =>
        /\ m.conf \in DOMAIN Configs[s] /\ m.conf <= named[s] /\ states[s].born # None
        /\ (m.kill \/ (h = Len(chain) /\ i = Len(chain[h]))) => m.conf \in {0, named[s]}
        /\ m.kill => states[s].killed \in {None, h}

IsKill(m, s) == m.kind = "checkpoint" /\ m.subnet = s /\ m.kill

\* To handle the message of block h again changes no subnet.
Applied(m, h) ==
  LET s == m.subnet
      c == states[s].committee
  IN  /\ states[s].born # None
      /\ m.kind = "checkpoint" =>
           /\ m.conf = 0 \/ m.conf <= c.conf \/ SameCommittee(c, Configs[s][m.conf])
           /\ m.kill => states[s].killed = h

\* All messages but the last one have been handled before; that one if the
\* monitor is past it.
Seen(h, i) == h < Len(chain) \/ i < Len(chain[h]) \/ (height = Tip /\ i <= handled)

BlockInv ==
  \A h \in 1..Len(chain) : \A i \in 1..Len(chain[h]) :
    Expected(h, i) /\ (Seen(h, i) => Applied(chain[h][i], h))

\* The hook of a checkpoint runs for the message that is being handled.
Hooking ==
  /\ handled < Len(block) /\ hook.subnet \in Subnets
  /\ block[handled + 1].kind = "checkpoint"
  /\ block[handled + 1].subnet = hook.subnet
  /\ block[handled + 1].kill = hook.kill
  /\ Applied(block[handled + 1], height + 1)
  /\ hook.next \in DOMAIN committees[hook.subnet] /\ hook.next \in Nat

HookInv ==
  /\ hook.kind = "none" => hook = NoHook
  /\ hook.kind = "block" => (height \notin again => height = Tip /\ block = <<>>)
  /\ hook.kind \in {"none", "block", "checkpoint"}
  /\ hook.kind = "checkpoint" => Hooking

\* The last height that anything can be dated with.
Recent == IF Newest = <<>> THEN Tip ELSE Tip + 1

\* The first n committees of r are those that came up to h.
Upto(r, h, n) == n \in 0..Len(r) /\ \A i \in 1..Len(r) : r[i].since <= h <=> i <= n

Ordered(r) == \A h \in Nat : \E n : Upto(r, h, n)

\* The state of a bootstrapped subnet, its committees and its history agree.
Current(s) ==
  LET st == states[s]
  IN  /\ st.committee.conf \in DOMAIN Configs[s] /\ st.committee = Configs[s][st.committee.conf]
      /\ st.committee.conf <= named[s]
      /\ st.number \in DOMAIN committees[s] /\ committees[s][st.number] = st.committee
      /\ reigns[s] # <<>> /\ reigns[s][1].since = st.born
      /\ reigns[s][Len(reigns[s])].stake = Collateral(st.committee)

StateInv(s) ==
  /\ states[s].born <= Recent /\ states[s].killed <= Recent
  /\ \A n \in DOMAIN committees[s] : committees[s][n] \in Committees
  /\ \A i \in 1..Len(reigns[s]) : reigns[s][i].since <= Recent
  /\ Ordered(reigns[s])
  /\ states[s].born = None => reigns[s] = <<>> /\ states[s].killed = None
  /\ states[s].born # None => Current(s)

BaseInv == Types /\ BlockInv /\ HookInv /\ \A s \in Subnets : StateInv(s)

LEMMA CollateralIs ==
  ASSUME NEW c \in Committees PROVE Collateral(c) \in Stakings
<1>1. Members(c) \in SUBSET Validators /\ Collateral(c) \in [Members(c) -> Nat]
  BY DEF Collateral, Members, Committees, Stakes
<1> QED BY <1>1 DEF Stakings

LEMMA StakingIs ==
  ASSUME NEW f \in Stakings PROVE DOMAIN f \subseteq Validators /\ \A v \in DOMAIN f : f[v] \in Nat
BY DEF Stakings

LEMMA ConfigIs ==
  ASSUME NEW s \in Subnets, NEW n \in DOMAIN Configs[s]
  PROVE  n \in Nat /\ Configs[s][n] \in Committees /\ Configs[s][n].conf = n
BY RewardConstants

LEMMA BaseInit == Init => BaseInv
<1> SUFFICES ASSUME Init PROVE BaseInv
  OBVIOUS
<1>1. Types
  <2>1. NoState \in States
    BY DEF NoState, States, None
  <2>2. chain = <<<<>>>> /\ Len(chain) = 1 /\ chain[1] = <<>> /\ chain \in Seq(Seq(AllMessages))
    BY DEF Init
  <2>3. PlaceInv
    BY <2>2, RewardConstants DEF Init, PlaceInv, Tip
  <2> QED BY <2>1, <2>3, RewardConstants DEF Init, Types
<1>2. BlockInv
  BY DEF Init, BlockInv
<1>3. HookInv
  BY DEF Init, HookInv, NoHook
<1>4. ASSUME NEW s \in Subnets PROVE StateInv(s)
  <2>1. states[s].born = None /\ states[s].killed = None /\ reigns[s] = <<>> /\ committees[s] = <<>>
    BY DEF Init, NoState
  <2>2. Recent = 0
    BY DEF Recent, Newest, Tip, Init
  <2>3. Ordered(reigns[s])
    <3>1. ASSUME NEW h \in Nat PROVE Upto(reigns[s], h, 0)
      BY <2>1 DEF Upto
    <3> QED BY <3>1 DEF Ordered
  <2>4. Len(reigns[s]) = 0 /\ DOMAIN committees[s] = {}
    BY <2>1
  <2> QED BY <2>1, <2>2, <2>3, <2>4 DEF StateInv, None
<1> QED BY <1>1, <1>2, <1>3, <1>4 DEF BaseInv

----------------------------------------------------------------------------
(* The handlers, by what they do to the subnet of the message.             *)

\* Only subnet s is touched.
Only(s) == \A t \in Subnets \ {s} : /\ states'[t] = states[t] /\ committees'[t] = committees[t]
                                    /\ reigns'[t] = reigns[t]

Reign(c) == [since |-> height + 1, stake |-> Collateral(c)]

Refused(m) == m.kind = "checkpoint" /\ m.conf # 0 /\ m.conf < states[m.subnet].committee.conf

Skips(m) ==
  /\ (m.kind = "bootstrap" /\ states[m.subnet].born # None) \/ Refused(m)
  /\ handled' = handled + 1 /\ hook' = hook
  /\ UNCHANGED <<states, committees, reigns>>

Boots(m) ==
  LET s == m.subnet
      genesis == Configs[s][0]
  IN  /\ m.kind = "bootstrap" /\ states[s].born = None /\ Only(s)
      /\ states'[s] = [born |-> height + 1, committee |-> genesis, number |-> 1, killed |-> None]
      /\ committees'[s] = With(committees[s], 1, genesis)
      /\ reigns'[s] = Append(reigns[s], Reign(genesis))
      /\ handled' = handled + 1 /\ hook' = hook

\* What is common to the checkpoints that are recorded, for the number n.
Records(m, n) ==
  LET s == m.subnet
  IN  /\ m.kind = "checkpoint" /\ ~Refused(m) /\ Only(s)
      /\ states'[s].born = states[s].born
      /\ states'[s].killed = IF m.kill THEN height + 1 ELSE states[s].killed
      /\ hook' = [kind |-> "checkpoint", subnet |-> s, signed |-> states[s].number, next |-> n,
                  kill |-> m.kill]
      /\ handled' = handled

Keeps(m) ==
  LET s == m.subnet
  IN  /\ Records(m, states[s].number) /\ KeepsCommittee(s, m.conf)
      /\ states'[s].committee = states[s].committee /\ states'[s].number = states[s].number
      /\ committees'[s] = committees[s] /\ reigns'[s] = reigns[s]

Hides(m) ==
  LET s == m.subnet
  IN  /\ Records(m, states[s].number + 1) /\ ~KeepsCommittee(s, m.conf)
      /\ SameCommittee(states[s].committee, Configs[s][m.conf])
      /\ states'[s].committee = states[s].committee /\ states'[s].number = states[s].number
      /\ committees'[s] = With(committees[s], states[s].number + 1, Configs[s][m.conf])
      /\ reigns'[s] = reigns[s]

Rotates(m) ==
  LET s == m.subnet
  IN  /\ Records(m, states[s].number + 1) /\ ~KeepsCommittee(s, m.conf)
      /\ ~SameCommittee(states[s].committee, Configs[s][m.conf])
      /\ states'[s].committee = Configs[s][m.conf] /\ states'[s].number = states[s].number + 1
      /\ committees'[s] = With(committees[s], states[s].number + 1, Configs[s][m.conf])
      /\ reigns'[s] = Append(reigns[s], Reign(Configs[s][m.conf]))

Now == block[handled + 1]

LEMMA SameEnd ==
  ASSUME NEW a \in Nat, NEW b \in Nat, 1..a = 1..b
  PROVE  a = b
<1>1. a # 0 => a \in 1..b
  OBVIOUS
<1>2. b # 0 => b \in 1..a
  OBVIOUS
<1> QED BY <1>1, <1>2

\* The block is one of the chain, the newest one at the tip.
LEMMA PlaceIs ==
  ASSUME PlaceInv
  PROVE  /\ height \in Nat /\ saved \in Nat /\ Tip \in Nat /\ Len(chain) \in Nat /\ Len(chain) = Tip + 1
         /\ height + 1 \in 1..Len(chain) /\ Len(chain) \in 1..Len(chain)
         /\ block \in Seq(AllMessages) /\ Len(block) \in Nat /\ Newest \in Seq(AllMessages)
         /\ \A h \in 1..Len(chain) : chain[h] \in Seq(AllMessages)
         /\ height = Tip => block = Newest
<1>1. height \in Nat /\ saved \in Nat /\ height <= Tip /\ chain \in Seq(Seq(AllMessages)) /\ block = chain[height + 1]
  BY RewardConstants DEF PlaceInv
<1>2. Len(chain) \in Nat /\ Len(chain) = Tip + 1 /\ Tip \in Nat
  BY <1>1 DEF Tip
<1>3. height + 1 \in 1..Len(chain) /\ Len(chain) \in 1..Len(chain)
  BY <1>1, <1>2
<1>4. \A h \in 1..Len(chain) : chain[h] \in Seq(AllMessages)
  BY <1>1
<1>5. block \in Seq(AllMessages) /\ Newest \in Seq(AllMessages)
  BY <1>1, <1>3, <1>4 DEF Newest
<1>6. Len(block) \in Nat
  BY <1>5
<1>7. height = Tip => block = Newest
  BY <1>1, <1>2 DEF Newest
<1> QED BY <1>1, <1>2, <1>3, <1>4, <1>5, <1>6, <1>7

LEMMA PlaceNext ==
  ASSUME PlaceInv'
  PROVE  height' \in Nat /\ Tip' \in Nat /\ Len(chain') \in Nat /\ Len(chain') = Tip' + 1
         /\ height' <= Tip' /\ Recent' \in Nat /\ Tip' <= Recent' /\ Recent' <= Tip' + 1
<1>1. chain' \in Seq(Seq(AllMessages)) /\ height' \in Nat /\ height' <= Tip'
  BY RewardConstants DEF PlaceInv
<1>2. Len(chain') \in Nat
  BY <1>1
<1>3. Tip' = Len(chain') - 1
  BY DEF Tip
<1>4. Tip' \in Nat /\ Len(chain') = Tip' + 1
  BY <1>1, <1>2, <1>3
<1>5. Recent' = Tip' \/ Recent' = Tip' + 1
  BY DEF Recent
<1>6. \A x \in Nat : \A r : r = x \/ r = x + 1 => r \in Nat /\ x <= r /\ r <= x + 1
  OBVIOUS
<1>7. Recent' \in Nat /\ Tip' <= Recent' /\ Recent' <= Tip' + 1
  BY <1>4, <1>5, <1>6
<1> QED BY <1>1, <1>2, <1>4, <1>7

LEMMA NowIs ==
  ASSUME Types, handled < Len(block)
  PROVE  /\ Now \in AllMessages /\ Now.subnet \in Subnets /\ handled + 1 \in 1..Len(block)
         /\ Now.kind \in {"bootstrap", "checkpoint"}
         /\ Now.kind = "checkpoint" => Now.conf \in Nat /\ Now.kill \in BOOLEAN
         /\ Now = chain[height + 1][handled + 1] /\ Len(block) = Len(chain[height + 1])
<1>1. handled + 1 \in 1..Len(block) /\ block \in Seq(AllMessages) /\ block = chain[height + 1]
  BY PlaceIs DEF Types, PlaceInv
<1>2. Now \in AllMessages
  BY <1>1 DEF Now
<1> QED BY <1>1, <1>2 DEF AllMessages, Now

LEMMA HandleCases ==
  ASSUME BaseInv, Handle
  PROVE  /\ handled < Len(block) /\ hook = NoHook
         /\ UNCHANGED <<placeVars, candidates, results, named, faultVars>>
         /\ states' \in [Subnets -> States] /\ DOMAIN committees' = Subnets
         /\ reigns' = [t \in Subnets |-> reigns'[t]]
         /\ Skips(Now) \/ Boots(Now) \/ Keeps(Now) \/ Hides(Now) \/ Rotates(Now)
<1> DEFINE m == Now
           s == m.subnet
           st == states[s]
<1>1. handled < Len(block) /\ hook = NoHook /\ UNCHANGED <<placeVars, candidates, results, named, faultVars>>
  BY DEF Handle
<1>2. s \in Subnets /\ m.kind \in {"bootstrap", "checkpoint"}
  BY <1>1, NowIs DEF BaseInv
<1>3. /\ states \in [Subnets -> States] /\ reigns = [t \in Subnets |-> reigns[t]]
      /\ DOMAIN committees = Subnets /\ st \in States /\ height + 1 \in Nat
  BY <1>2, PlaceIs DEF BaseInv, Types
<1>6. /\ Configs[s][0] \in Committees
      /\ m.kind = "checkpoint" => Configs[s][m.conf] \in Committees /\ m.kill \in BOOLEAN
  <2>1. /\ m = chain[height + 1][handled + 1] /\ handled + 1 \in 1..Len(chain[height + 1])
        /\ height + 1 \in 1..Len(chain) /\ (m.kind = "checkpoint" => m.kill \in BOOLEAN)
    BY <1>1, NowIs, PlaceIs DEF BaseInv, Types
  <2>3. Expected(height + 1, handled + 1)
    BY <2>1 DEF BaseInv, BlockInv
  <2>2. 0 \in DOMAIN Configs[s] /\ (m.kind = "checkpoint" => m.conf \in DOMAIN Configs[s])
    BY <1>2, <2>1, <2>3, RewardConstants DEF Expected
  <2> QED BY <1>2, <2>1, <2>2, ConfigIs
<1> HIDE DEF m
<1>4. CASE m.kind = "bootstrap"
  <2>1. Bootstrap(m)
    BY <1>4 DEF Handle, m, Now
  <2>2. CASE st.born = None
    <3>1. /\ states' = [states EXCEPT ![s] = [born |-> height + 1, committee |-> Configs[s][0], number |-> 1, killed |-> None]]
          /\ committees' = [committees EXCEPT ![s] = With(committees[s], 1, Configs[s][0])]
          /\ reigns' = [reigns EXCEPT ![s] = Append(reigns[s], Reign(Configs[s][0]))]
          /\ handled' = handled + 1 /\ hook' = hook
      BY <1>2, <1>3, <2>1, <2>2 DEF Bootstrap, SavedCommittee, Reigned, Reign
    <3>2. Boots(m)
      BY <1>2, <1>3, <1>4, <2>2, <3>1 DEF Boots, Only
    <3>3. states' \in [Subnets -> States]
      BY <1>2, <1>3, <1>6, <3>1 DEF States, None
    <3> QED BY <1>1, <1>3, <3>1, <3>2, <3>3 DEF m
  <2>3. CASE st.born # None
    <3>1. Skips(m)
      BY <1>4, <2>1, <2>3 DEF Bootstrap, Skips
    <3> QED BY <1>1, <1>3, <3>1 DEF m, Skips
  <2> QED BY <2>2, <2>3
<1>5. CASE m.kind = "checkpoint"
  <2>1. SaveCheckpoint(m)
    BY <1>5 DEF Handle, m, Now
  <2>2. CASE Refused(m)
    <3>1. Skips(m)
      BY <1>5, <2>1, <2>2 DEF SaveCheckpoint, Skips, Refused
    <3> QED BY <1>1, <1>3, <3>1 DEF m, Skips
  <2>3. CASE ~Refused(m)
    <3> DEFINE next == Configs[s][m.conf]
               n == IF KeepsCommittee(s, m.conf) THEN st.number ELSE st.number + 1
               rotates == ~KeepsCommittee(s, m.conf) /\ ~SameCommittee(st.committee, next)
               dead == IF m.kill THEN height + 1 ELSE st.killed
               kept == [st EXCEPT !.killed = dead]
    <3>1. /\ states' = [states EXCEPT ![s] =
                         IF rotates THEN [kept EXCEPT !.committee = next, !.number = n] ELSE kept]
          /\ committees' = IF KeepsCommittee(s, m.conf) THEN committees ELSE SavedCommittee(s, n, next)
          /\ IF rotates THEN Reigned(s, next) ELSE UNCHANGED reigns
          /\ hook' = [kind |-> "checkpoint", subnet |-> s, signed |-> st.number, next |-> n,
                      kill |-> m.kill]
          /\ UNCHANGED handled
      BY <1>5, <2>1, <2>3 DEF SaveCheckpoint, Refused
    <3>2. st = [born |-> st.born, committee |-> st.committee, number |-> st.number, killed |-> st.killed]
      BY <1>3 DEF States
    <3>6. kept \in States /\ [kept EXCEPT !.committee = next, !.number = st.number + 1] \in States
      <4>1. dead \in Nat \cup {None}
        BY <1>3 DEF States
      <4>2. next \in Committees /\ st.number + 1 \in Nat
        BY <1>3, <1>5, <1>6 DEF States
      <4> HIDE DEF dead, next
      <4>3. kept \in States
        BY <1>3, <4>1 DEF States
      <4> HIDE DEF kept
      <4> QED BY <4>2, <4>3 DEF States
    <3>3. CASE KeepsCommittee(s, m.conf)
      <4>1. states' = [states EXCEPT ![s] = kept] /\ committees' = committees /\ reigns' = reigns
        BY <3>1, <3>3
      <4>2. Keeps(m)
        BY <1>2, <1>3, <1>5, <2>3, <3>1, <3>2, <3>3, <4>1 DEF Keeps, Records, Only
      <4>10. states' \in [Subnets -> States]
        BY <1>2, <1>3, <3>6, <4>1
      <4> QED BY <1>1, <1>3, <4>1, <4>2, <4>10 DEF m
    <3>4. CASE ~KeepsCommittee(s, m.conf) /\ SameCommittee(st.committee, next)
      <4>1. states' = [states EXCEPT ![s] = kept] /\ reigns' = reigns
            /\ committees' = [committees EXCEPT ![s] = With(committees[s], st.number + 1, next)]
        BY <3>1, <3>4 DEF SavedCommittee
      <4>3. Only(s) /\ states'[s] = kept
        BY <1>2, <1>3, <4>1 DEF Only
      <4>4. /\ committees'[s] = With(committees[s], st.number + 1, next) /\ reigns'[s] = reigns[s]
        BY <1>2, <1>3, <4>1
      <4>5. n = st.number + 1
        BY <3>4
      <4>6. /\ kept.born = st.born /\ kept.killed = dead /\ kept.committee = st.committee
            /\ kept.number = st.number
        BY <3>2
      <4> HIDE DEF kept, n
      <4>7. Records(m, st.number + 1)
        BY <1>5, <2>3, <3>1, <4>3, <4>5, <4>6 DEF Records
      <4>2. Hides(m)
        BY <3>4, <4>3, <4>4, <4>6, <4>7 DEF Hides
      <4>10. states' \in [Subnets -> States]
        BY <1>2, <1>3, <3>6, <4>1
      <4> QED BY <1>1, <1>3, <4>1, <4>2, <4>10 DEF m
    <3>5. CASE rotates
      <4>1. /\ states' = [states EXCEPT ![s] = [kept EXCEPT !.committee = next, !.number = st.number + 1]]
            /\ reigns' = [reigns EXCEPT ![s] = Append(reigns[s], Reign(next))]
            /\ committees' = [committees EXCEPT ![s] = With(committees[s], st.number + 1, next)]
        BY <3>1, <3>5 DEF SavedCommittee, Reigned, Reign
      <4> DEFINE new == [kept EXCEPT !.committee = next, !.number = st.number + 1]
      <4>3. Only(s) /\ states'[s] = new
        BY <1>2, <1>3, <4>1 DEF Only
      <4>4. /\ committees'[s] = With(committees[s], st.number + 1, next)
            /\ reigns'[s] = Append(reigns[s], Reign(next))
        BY <1>2, <1>3, <4>1
      <4>5. n = st.number + 1 /\ ~KeepsCommittee(s, m.conf)
        BY <3>5
      <4>6. /\ new.born = st.born /\ new.killed = dead /\ new.committee = next
            /\ new.number = st.number + 1
        BY <3>2
      <4> HIDE DEF new, n
      <4>7. Records(m, st.number + 1)
        BY <1>5, <2>3, <3>1, <4>3, <4>5, <4>6 DEF Records
      <4>2. Rotates(m)
        BY <3>5, <4>3, <4>4, <4>5, <4>6, <4>7 DEF Rotates
      <4>10. states' \in [Subnets -> States]
        BY <1>2, <1>3, <3>6, <4>1
      <4> QED BY <1>1, <1>3, <4>1, <4>2, <4>10 DEF m
    <3> QED BY <3>3, <3>4, <3>5
  <2> QED BY <2>2, <2>3
<1> QED BY <1>2, <1>4, <1>5

----------------------------------------------------------------------------
(* BaseInv is inductive.                                                   *)

\* What a step may do to a subnet: it is born and killed once and in the newest
\* block, and its committees and its history are only added to.
Grown(s) ==
  /\ states[s].born # None =>
       /\ states'[s].born = states[s].born /\ states[s].number <= states'[s].number
       /\ \A n \in DOMAIN committees[s] :
            n <= states[s].number => n \in DOMAIN committees'[s] /\ committees'[s][n] = committees[s][n]
  /\ states[s].born = None => states'[s].born \in {None, Tip + 1}
  /\ states'[s].killed = states[s].killed
     \/ (states[s].killed = None /\ states'[s].killed = Tip + 1)
  /\ reigns'[s] = reigns[s]
     \/ \E c \in Stakings : reigns'[s] = Append(reigns[s], [since |-> Tip + 1, stake |-> c])

Same(s) ==
  states'[s] = states[s] /\ committees'[s] = committees[s] /\ reigns'[s] = reigns[s]

LEMMA SameGrows ==
  ASSUME BaseInv, NEW s \in Subnets, Same(s) PROVE Grown(s)
<1>1. states[s].number \in Nat /\ states[s] \in States
  BY DEF BaseInv, Types, States
<1>2. states[s].number <= states[s].number
  BY <1>1
<1> QED BY <1>2 DEF Same, Grown

LEMMA RecentIs ==
  ASSUME PlaceInv PROVE Recent \in Nat /\ Tip <= Recent /\ Recent <= Tip + 1
<1>1. Tip \in Nat
  BY PlaceIs
<1> QED BY <1>1 DEF Recent

LEMMA Frame ==
  ASSUME BaseInv, NEW s \in Subnets, Same(s), Recent <= Recent', named[s] <= named'[s],
         Recent \in Nat, Recent' \in Nat, named'[s] \in Nat
  PROVE  StateInv(s)'
<1>1. StateInv(s) /\ states[s] \in States /\ named[s] \in Nat /\ reigns[s] \in Seq(Reigns)
  BY DEF BaseInv, Types
<1>2. states'[s].born <= Recent' /\ states'[s].killed <= Recent'
  <2>1. states[s].born \in Int /\ states[s].killed \in Int
    BY <1>1 DEF States, None
  <2>2. states[s].born <= Recent /\ states[s].killed <= Recent
    BY <1>1 DEF StateInv
  <2>3. states[s].born <= Recent' /\ states[s].killed <= Recent'
    BY <2>1, <2>2
  <2> QED BY <2>3 DEF Same
<1>3. \A i \in 1..Len(reigns'[s]) : reigns'[s][i].since <= Recent'
  <2> SUFFICES ASSUME NEW i \in 1..Len(reigns[s]) PROVE reigns[s][i].since <= Recent'
    BY DEF Same
  <2>1. reigns[s][i] \in Reigns /\ reigns[s][i].since <= Recent
    BY <1>1 DEF StateInv
  <2>2. reigns[s][i].since \in Nat
    BY <2>1 DEF Reigns
  <2> QED BY <2>1, <2>2
<1>4. states[s].born # None => Current(s)'
  <2> SUFFICES ASSUME states[s].born # None PROVE Current(s)'
    OBVIOUS
  <2>1. Current(s)
    BY <1>1 DEF StateInv
  <2>2. states[s].committee.conf \in Nat
    BY <2>1, ConfigIs DEF Current
  <2>3. states'[s].committee.conf <= named'[s]
    BY <1>1, <2>1, <2>2 DEF Current, Same
  <2> QED BY <2>1, <2>3 DEF Current, Same
<1> QED BY <1>1, <1>2, <1>3, <1>4 DEF StateInv, Same

LEMMA OrderedAppend ==
  ASSUME NEW r \in Seq(Reigns), Ordered(r), NEW x \in Reigns,
         \A i \in 1..Len(r) : r[i].since <= x.since
  PROVE  Ordered(Append(r, x))
<1> DEFINE q == Append(r, x)
           n == Len(r)
<1>1. n \in Nat /\ Len(q) = n + 1 /\ q[n + 1] = x /\ \A i \in 1..n : q[i] = r[i]
  OBVIOUS
<1>2. x.since \in Nat /\ \A i \in 1..n : r[i].since \in Nat
  <2>1. \A i \in 1..n : r[i] \in Reigns
    OBVIOUS
  <2> QED BY <2>1 DEF Reigns
<1> HIDE DEF q
<1>3. ASSUME NEW h \in Nat PROVE \E j : Upto(q, h, j)
  <2>1. PICK j : Upto(r, h, j)
    BY DEF Ordered
  <2>2. CASE x.since <= h
    <3>1. Upto(q, h, n + 1)
      <4>1. ASSUME NEW i \in 1..(n + 1) PROVE q[i].since <= h
        <5>1. i \in 1..n \/ i = n + 1
          BY <1>1
        <5> QED BY <1>1, <1>2, <2>2, <5>1
      <4> QED BY <1>1, <4>1 DEF Upto
    <3> QED BY <3>1
  <2>3. CASE ~(x.since <= h)
    <3>1. Upto(q, h, j)
      <4>1. j \in 0..n /\ \A i \in 1..n : r[i].since <= h <=> i <= j
        BY <2>1 DEF Upto
      <4>2. ASSUME NEW i \in 1..(n + 1) PROVE q[i].since <= h <=> i <= j
        <5>1. i \in 1..n \/ i = n + 1
          BY <1>1
        <5> QED BY <1>1, <2>3, <4>1, <5>1
      <4> QED BY <1>1, <4>1, <4>2 DEF Upto
    <3> QED BY <3>1
  <2> QED BY <2>2, <2>3
<1> QED BY <1>3 DEF Ordered, q

\* A committee that starts to reign, of a new subnet or by a rotation.
Enthroned(s, c) ==
  /\ c.conf \in DOMAIN Configs[s] /\ c = Configs[s][c.conf] /\ c.conf <= named[s]
  /\ states'[s].committee = c
  /\ committees'[s] = With(committees[s], states'[s].number, c)
  /\ reigns'[s] = Append(reigns[s], Reign(c))
  /\ states'[s].born = IF reigns[s] = <<>> THEN height + 1 ELSE states[s].born
  /\ states'[s].born # None

\* At the tip, before a message is handled, the newest block is not empty.
LEMMA AtTip ==
  ASSUME BaseInv, height = Tip, chain' = chain, handled < Len(block)
  PROVE  Recent = height + 1 /\ Recent' = height + 1
<1>1. block = Newest /\ handled \in Nat
  BY PlaceIs DEF BaseInv, Types
<1>2. Newest # <<>>
  BY <1>1
<1> QED BY <1>2 DEF Recent, Newest, Tip

LEMMA Enthroning ==
  ASSUME BaseInv, NEW s \in Subnets, NEW c, Enthroned(s, c), handled < Len(block), states'[s] \in States,
         height = Tip, chain' = chain, named' = named,
         states'[s].killed <= height + 1
  PROVE  StateInv(s)' /\ reigns'[s] \in Seq(Reigns) /\ Reign(c).stake \in Stakings
<1> DEFINE n == states'[s].number
           r == reigns[s]
           x == Reign(c)
<1>1. StateInv(s) /\ height \in Nat /\ r \in Seq(Reigns) /\ named[s] \in Nat
  BY PlaceIs DEF BaseInv, Types
<1>2. Recent = height + 1 /\ Recent' = height + 1
  BY AtTip
<1>3. c \in Committees /\ c.conf \in Nat
  BY ConfigIs DEF Enthroned
<1>4. x \in Reigns /\ x.since = height + 1 /\ x.stake = Collateral(c) /\ x.stake \in Stakings
  BY <1>1, <1>3, CollateralIs DEF Reign, Reigns
<1>5. \A i \in 1..Len(r) : r[i].since <= height + 1
  BY <1>1, <1>2 DEF StateInv
<1>6. Ordered(Append(r, x))
  BY <1>1, <1>4, <1>5, OrderedAppend DEF StateInv
<1> DEFINE q == Append(r, x)
<1>7. /\ Len(r) \in Nat /\ q \in Seq(Reigns) /\ Len(q) = Len(r) + 1 /\ q[Len(r) + 1] = x
      /\ q # <<>> /\ \A i \in 1..Len(r) : q[i] = r[i]
  <2> HIDE DEF r, x
  <2>1. Len(r) \in Nat /\ q \in Seq(Reigns) /\ Len(q) = Len(r) + 1 /\ q[Len(r) + 1] = x
    BY <1>1, <1>4
  <2>2. \A i \in 1..Len(r) : q[i] = r[i]
    BY <1>1, <1>4
  <2> QED BY <2>1, <2>2
<1>8. reigns'[s] = q
  BY DEF Enthroned
<1> HIDE DEF r, x, q, n
<1>9. \A i \in 1..Len(q) : q[i].since <= height + 1
  <2> TAKE i \in 1..Len(q)
  <2>1. i \in 1..Len(r) \/ i = Len(r) + 1
    BY <1>7
  <2> QED BY <1>1, <1>4, <1>5, <1>7, <2>1
<1>10. states'[s].born <= height + 1
  <2>1. CASE r = <<>>
    BY <1>1, <2>1 DEF Enthroned, r
  <2>2. CASE r # <<>>
    BY <1>1, <1>2, <2>2 DEF Enthroned, StateInv, r
  <2> QED BY <2>1, <2>2
<1>11. q[1].since = states'[s].born
  <2>1. CASE r = <<>>
    <3>1. Len(r) = 0
      BY <2>1
    <3> QED BY <1>4, <1>7, <2>1, <3>1 DEF Enthroned, r
  <2>2. CASE r # <<>>
    <3>1. Len(r) # 0 /\ 1 \in 1..Len(r)
      BY <1>1, <1>7, <2>2 DEF r
    <3>2. states[s].born # None
      BY <1>1, <2>2 DEF StateInv, r
    <3>3. r[1].since = states[s].born
      BY <1>1, <3>2 DEF StateInv, Current, r
    <3> QED BY <1>7, <2>2, <3>1, <3>3 DEF Enthroned, r
  <2> QED BY <2>1, <2>2
<1>12. committees'[s] = [z \in DOMAIN committees[s] \cup {n} |-> IF z = n THEN c ELSE committees[s][z]]
  BY DEF Enthroned, With, n
<1>13. n \in DOMAIN committees'[s] /\ committees'[s][n] = c
  BY <1>12
<1>14. \A z \in DOMAIN committees'[s] : committees'[s][z] \in Committees
  BY <1>1, <1>3, <1>12 DEF StateInv
<1>15. Current(s)'
  <2>1. states'[s].committee = c /\ c.conf \in DOMAIN Configs[s] /\ c = Configs[s][c.conf] /\ c.conf <= named'[s]
    BY DEF Enthroned
  <2>2. q[Len(q)].stake = Collateral(c)
    BY <1>4, <1>7
  <2> QED BY <1>7, <1>8, <1>11, <1>13, <2>1, <2>2 DEF Current, n
<1>16. StateInv(s)'
  BY <1>2, <1>6, <1>8, <1>9, <1>10, <1>14, <1>15 DEF StateInv, Enthroned, q, r, x
<1> QED BY <1>4, <1>7, <1>8, <1>16 DEF x

LEMMA Enlarged ==
  ASSUME BaseInv, NEW s \in Subnets, NEW c, states[s].born # None,
         committees'[s] = With(committees[s], states[s].number + 1, c)
  PROVE  \A n \in DOMAIN committees[s] :
           n <= states[s].number => n \in DOMAIN committees'[s] /\ committees'[s][n] = committees[s][n]
<1> DEFINE x == states[s].number
<1>1. x \in Nat
  BY DEF BaseInv, Types, States
<1> HIDE DEF x
<1>2. committees'[s] = [z \in DOMAIN committees[s] \cup {x + 1} |-> IF z = x + 1 THEN c ELSE committees[s][z]]
  BY DEF With, x
<1>3. ASSUME NEW n \in DOMAIN committees[s], n <= x PROVE n # x + 1
  BY <1>1, <1>3
<1>4. ASSUME NEW n \in DOMAIN committees[s], n <= x
      PROVE  n \in DOMAIN committees'[s] /\ committees'[s][n] = committees[s][n]
  BY <1>2, <1>3, <1>4
<1> QED BY <1>4 DEF x

\* The message that is handled was expected, and is a new one or changes nothing.
LEMMA NowExpected ==
  ASSUME BaseInv, handled < Len(block)
  PROVE  /\ Now.kind = "checkpoint" =>
              /\ Now.subnet \in Subnets /\ Now.conf \in DOMAIN Configs[Now.subnet]
              /\ Now.conf <= named[Now.subnet] /\ Now.conf \in Nat /\ Now.kill \in BOOLEAN
              /\ Now.kill => Now.conf \in {0, named[Now.subnet]}
              /\ states[Now.subnet].born # None
              /\ Now.kill => states[Now.subnet].killed \in {None, height + 1}
              /\ StateInv(Now.subnet) /\ Current(Now.subnet)
         /\ \/ Applied(Now, height + 1)
            \/ /\ height = Tip /\ handled + 1 = Len(block)
               /\ Now.kind = "checkpoint" => Now.conf \in {0, named[Now.subnet]}
<1>1. /\ Now.subnet \in Subnets /\ handled + 1 \in 1..Len(chain[height + 1]) /\ Now = chain[height + 1][handled + 1]
      /\ Now.kind = "checkpoint" => Now.conf \in Nat /\ Now.kill \in BOOLEAN
  BY NowIs DEF BaseInv
<1>2. /\ height + 1 \in 1..Len(chain) /\ block = chain[height + 1] /\ height \in Nat /\ Len(chain) = Tip + 1
      /\ handled \in Nat /\ Len(block) \in Nat /\ Tip \in Nat /\ height <= Tip
  BY PlaceIs DEF BaseInv, Types, PlaceInv
<1>3. /\ Expected(height + 1, handled + 1)
      /\ Seen(height + 1, handled + 1) => Applied(Now, height + 1)
  BY <1>1, <1>2 DEF BaseInv, BlockInv
<1>4. Now.kind = "checkpoint" =>
        /\ Now.conf \in DOMAIN Configs[Now.subnet] /\ Now.conf <= named[Now.subnet]
        /\ Now.kill => Now.conf \in {0, named[Now.subnet]}
        /\ states[Now.subnet].born # None
        /\ Now.kill => states[Now.subnet].killed \in {None, height + 1}
        /\ (height + 1 = Len(chain) /\ handled + 1 = Len(chain[height + 1])) => Now.conf \in {0, named[Now.subnet]}
  BY <1>1, <1>3 DEF Expected
<1>5. CASE Seen(height + 1, handled + 1)
  BY <1>1, <1>3, <1>4, <1>5 DEF BaseInv, StateInv
<1>6. CASE ~Seen(height + 1, handled + 1)
  <2>1. ~(height + 1 < Len(chain)) /\ ~(handled + 1 < Len(block))
    BY <1>2, <1>6 DEF Seen
  <2>2. height = Tip /\ height + 1 = Len(chain) /\ handled + 1 = Len(block)
    BY <1>2, <2>1
  <2> QED BY <1>1, <1>2, <1>4, <2>2 DEF BaseInv, StateInv
<1> QED BY <1>5, <1>6

\* A message that was applied before changes no subnet but for the committees.
LEMMA AppliedAgain ==
  ASSUME BaseInv, Handle, Applied(Now, height + 1)
  PROVE  /\ ~Boots(Now) /\ ~Rotates(Now)
         /\ Keeps(Now) \/ Hides(Now) => states'[Now.subnet].killed = states[Now.subnet].killed
<1>1. states[Now.subnet].born # None
  BY DEF Applied
<1>2. ~Boots(Now)
  BY <1>1 DEF Boots
<1>3. ~Rotates(Now)
  <2> SUFFICES ASSUME Rotates(Now) PROVE FALSE
    OBVIOUS
  <2> DEFINE c == states[Now.subnet].committee
  <2>1. /\ Now.kind = "checkpoint" /\ ~Refused(Now) /\ ~KeepsCommittee(Now.subnet, Now.conf)
        /\ ~SameCommittee(c, Configs[Now.subnet][Now.conf])
    BY DEF Rotates, Records
  <2>2. handled < Len(block)
    BY HandleCases
  <2>3. Now.conf \in Nat /\ Current(Now.subnet) /\ Now.subnet \in Subnets
    BY <2>1, <2>2, NowExpected
  <2>4. c.conf \in Nat
    BY <2>3, ConfigIs DEF Current
  <2>5. Now.conf # 0 /\ Now.conf # c.conf /\ ~(Now.conf < c.conf)
    BY <2>1 DEF Refused, KeepsCommittee
  <2>6. ~(Now.conf <= c.conf)
    BY <2>3, <2>4, <2>5
  <2> QED BY <2>1, <2>5, <2>6 DEF Applied
<1>4. ASSUME NEW n, Records(Now, n) PROVE states'[Now.subnet].killed = states[Now.subnet].killed
  BY <1>4 DEF Records, Applied
<1> QED BY <1>2, <1>3, <1>4 DEF Keeps, Hides

LEMMA HandledState ==
  ASSUME BaseInv, Handle, NEW s \in Subnets, s = Now.subnet
  PROVE  /\ StateInv(s)' /\ reigns'[s] \in Seq(Reigns) /\ Grown(s)
         /\ \A t \in Subnets \ {s} : Same(t)
<1> DEFINE m == Now
<1>11. m.subnet = s
  OBVIOUS
<1>1. /\ handled < Len(block) /\ chain' = chain /\ named' = named
      /\ states' \in [Subnets -> States]
      /\ Skips(m) \/ Boots(m) \/ Keeps(m) \/ Hides(m) \/ Rotates(m)
  BY HandleCases DEF placeVars
<1>2. s \in Subnets /\ handled \in Nat /\ height \in Nat /\ reigns[s] \in Seq(Reigns) /\ states[s] \in States
      /\ states'[s] \in States /\ named[s] \in Nat
  BY <1>1, NowIs, PlaceIs DEF BaseInv, Types
<1>3. StateInv(s) /\ Recent' = Recent /\ Recent \in Nat
  <2>1. Recent' = Recent
    BY <1>1 DEF Recent, Newest, Tip
  <2>2. Recent \in Nat
    BY RecentIs DEF BaseInv, Types
  <2> QED BY <2>1, <2>2 DEF BaseInv
<1>4. m.kind = "checkpoint" =>
        /\ m.conf \in DOMAIN Configs[s] /\ m.conf <= named[s] /\ m.conf \in Nat /\ m.kill \in BOOLEAN
        /\ states[s].born # None /\ Current(s) /\ (m.kill => states[s].killed \in {None, height + 1})
  BY <1>1, NowExpected
<1>5. Recent <= Recent' /\ named[s] <= named'[s] /\ Recent \in Nat /\ Recent' \in Nat /\ named'[s] \in Nat
  BY <1>1, <1>2, <1>3
<1>12. Applied(m, height + 1) \/ (height = Tip /\ Recent = height + 1)
  BY <1>1, NowExpected, AtTip
<1>13. Boots(m) \/ Rotates(m) => height = Tip /\ Recent = height + 1
  BY <1>12, AppliedAgain
<1>14. ASSUME m.kind = "checkpoint", Keeps(m) \/ Hides(m) \/ Rotates(m)
       PROVE  /\ states'[s].killed <= Recent
              /\ states'[s].killed = states[s].killed
                 \/ (states[s].killed = None /\ states'[s].killed = Tip + 1)
  <2>1. states'[s].killed = IF m.kill THEN height + 1 ELSE states[s].killed
    BY <1>11, <1>14 DEF Keeps, Hides, Rotates, Records
  <2>2. CASE states'[s].killed = states[s].killed
    BY <1>3, <2>2 DEF StateInv
  <2>3. CASE states'[s].killed # states[s].killed
    <3>1. m.kill /\ states[s].killed = None /\ states'[s].killed = height + 1
      BY <1>4, <1>14, <2>1, <2>3
    <3>2. ~Applied(m, height + 1)
      BY <1>11, <1>14, <2>3, <3>1 DEF Applied
    <3>3. height = Tip /\ Recent = height + 1
      BY <1>12, <3>2
    <3> QED BY <1>2, <3>1, <3>3
  <2> QED BY <2>2, <2>3
<1> HIDE DEF m
<1>6. CASE Skips(m)
  <2>1. Same(s) /\ \A t \in Subnets \ {s} : Same(t)
    BY <1>11, <1>6 DEF Skips, Same
  <2>2. StateInv(s)' /\ Grown(s)
    BY <1>2, <1>5, <2>1, Frame, SameGrows
  <2> QED BY <1>2, <2>1, <2>2 DEF m, Same
<1>7. CASE Boots(m)
  <2> DEFINE c == Configs[s][0]
  <2>1. \A t \in Subnets \ {s} : Same(t)
    BY <1>11, <1>7 DEF Boots, Only, Same
  <2>2. 0 \in DOMAIN Configs[s] /\ c.conf = 0
    BY <1>2, RewardConstants
  <2>3. reigns[s] = <<>>
    BY <1>3, <1>7, <1>11 DEF StateInv, Boots
  <2>4. /\ states'[s].born = height + 1 /\ states'[s].committee = c /\ states'[s].number = 1
        /\ states'[s].killed = None /\ states[s].born = None
        /\ committees'[s] = With(committees[s], 1, c) /\ reigns'[s] = Append(reigns[s], Reign(c))
    BY <1>11, <1>7 DEF Boots
  <2>5. height + 1 # None /\ None <= height + 1
    BY <1>2 DEF None
  <2>6. Enthroned(s, c)
    BY <1>2, <2>2, <2>3, <2>4, <2>5 DEF Enthroned
  <2>7. states'[s].killed <= height + 1 /\ height = Tip /\ chain' = chain /\ named' = named
    BY <1>1, <1>7, <1>13, <2>4, <2>5
  <2> HIDE DEF c
  <2>8. StateInv(s)' /\ reigns'[s] \in Seq(Reigns) /\ Reign(c).stake \in Stakings
    BY <1>1, <1>2, <2>6, <2>7, Enthroning
  <2>9. Grown(s)
    <3>1. states[s].killed = None
      BY <1>3, <2>4 DEF StateInv
    <3>2. Reign(c) = [since |-> height + 1, stake |-> Reign(c).stake]
      BY DEF Reign
    <3> QED BY <2>4, <2>7, <2>8, <3>1, <3>2 DEF Grown
  <2> QED BY <2>1, <2>8, <2>9 DEF m
<1>8. CASE Keeps(m)
  <2>1. /\ \A t \in Subnets \ {s} : Same(t)
        /\ states'[s].born = states[s].born /\ states'[s].committee = states[s].committee
        /\ states'[s].number = states[s].number /\ committees'[s] = committees[s]
        /\ reigns'[s] = reigns[s] /\ m.kind = "checkpoint"
        /\ states'[s].killed = IF m.kill THEN height + 1 ELSE states[s].killed
    BY <1>11, <1>8 DEF Keeps, Records, Only, Same
  <2>2. /\ states'[s].killed <= Recent
        /\ states'[s].killed = states[s].killed
           \/ (states[s].killed = None /\ states'[s].killed = Tip + 1)
    BY <1>8, <1>14, <2>1
  <2>3. Current(s)'
    BY <1>1, <1>4, <2>1 DEF Current
  <2>4. StateInv(s)'
    BY <1>3, <1>4, <2>1, <2>2, <2>3 DEF StateInv
  <2>5. Grown(s)
    <3>1. states[s].number <= states'[s].number
      BY <1>2, <2>1 DEF States
    <3> QED BY <1>4, <2>1, <2>2, <3>1 DEF Grown
  <2> QED BY <1>2, <2>1, <2>4, <2>5 DEF m
<1>9. CASE Hides(m)
  <2> DEFINE c == Configs[s][m.conf]
             n == states[s].number
  <2>1. /\ \A t \in Subnets \ {s} : Same(t)
        /\ states'[s].born = states[s].born /\ states'[s].committee = states[s].committee
        /\ states'[s].number = n /\ committees'[s] = With(committees[s], n + 1, c)
        /\ reigns'[s] = reigns[s] /\ m.kind = "checkpoint"
        /\ states'[s].killed = IF m.kill THEN height + 1 ELSE states[s].killed
    BY <1>11, <1>9 DEF Hides, Records, Only, Same
  <2>2. /\ states'[s].killed <= Recent
        /\ states'[s].killed = states[s].killed
           \/ (states[s].killed = None /\ states'[s].killed = Tip + 1)
    BY <1>9, <1>14, <2>1
  <2>3. n \in Nat /\ n <= n
    BY <1>2 DEF States
  <2>4. c \in Committees
    BY <1>2, <1>4, <2>1, ConfigIs
  <2> HIDE DEF c
  <2>5. \A z \in DOMAIN committees[s] : z <= n => z \in DOMAIN committees'[s] /\ committees'[s][z] = committees[s][z]
    BY <1>2, <1>4, <2>1, Enlarged
  <2>6. \A z \in DOMAIN committees'[s] : committees'[s][z] \in Committees
    BY <1>3, <2>1, <2>4 DEF With, StateInv
  <2> HIDE DEF n
  <2>7. Current(s)'
    BY <1>1, <1>4, <2>1, <2>3, <2>5 DEF Current, n
  <2>8. StateInv(s)'
    BY <1>3, <1>4, <2>1, <2>2, <2>6, <2>7 DEF StateInv
  <2>9. Grown(s)
    BY <1>4, <2>1, <2>2, <2>3, <2>5 DEF Grown, n
  <2> QED BY <1>2, <2>1, <2>8, <2>9 DEF m
<1>10. CASE Rotates(m)
  <2> DEFINE c == Configs[s][m.conf]
             n == states[s].number
  <2>1. /\ \A t \in Subnets \ {s} : Same(t)
        /\ states'[s].born = states[s].born /\ states'[s].committee = c
        /\ states'[s].number = n + 1 /\ committees'[s] = With(committees[s], n + 1, c)
        /\ reigns'[s] = Append(reigns[s], Reign(c)) /\ m.kind = "checkpoint"
        /\ states'[s].killed = IF m.kill THEN height + 1 ELSE states[s].killed
    BY <1>11, <1>10 DEF Rotates, Records, Only, Same
  <2>2. /\ states'[s].killed <= Recent
        /\ states'[s].killed = states[s].killed
           \/ (states[s].killed = None /\ states'[s].killed = Tip + 1)
    BY <1>10, <1>14, <2>1
  <2>3. n \in Nat /\ n <= n + 1
    BY <1>2 DEF States
  <2>4. c.conf = m.conf
    BY <1>2, <1>4, <2>1, ConfigIs
  <2>5. reigns[s] # <<>>
    BY <1>4, <2>1 DEF Current
  <2>6. Enthroned(s, c)
    BY <1>4, <2>1, <2>4, <2>5 DEF Enthroned
  <2> HIDE DEF c
  <2>7. height = Tip /\ Recent = height + 1 /\ chain' = chain /\ named' = named
    BY <1>1, <1>10, <1>13
  <2>8. StateInv(s)' /\ reigns'[s] \in Seq(Reigns) /\ Reign(c).stake \in Stakings
    BY <1>1, <1>2, <2>2, <2>6, <2>7, Enthroning
  <2>9. Grown(s)
    <3>1. \A z \in DOMAIN committees[s] : z <= n => z \in DOMAIN committees'[s] /\ committees'[s][z] = committees[s][z]
      BY <1>2, <1>4, <2>1, Enlarged
    <3>2. Reign(c) = [since |-> height + 1, stake |-> Reign(c).stake]
      BY DEF Reign
    <3> HIDE DEF n
    <3> QED BY <1>4, <2>1, <2>2, <2>3, <2>7, <2>8, <3>1, <3>2 DEF Grown, n
  <2> QED BY <2>1, <2>8, <2>9 DEF m
<1> QED BY <1>1, <1>6, <1>7, <1>8, <1>9, <1>10 DEF m

\* A kill checkpoint is never refused.
LEMMA NotSkipped ==
  ASSUME BaseInv, Handle, handled' = handled + 1, NEW s \in Subnets
  PROVE  ~IsKill(Now, s)
<1> SUFFICES ASSUME IsKill(Now, s) PROVE FALSE
  OBVIOUS
<1>1. /\ handled < Len(block)
      /\ Skips(Now) \/ Boots(Now) \/ Keeps(Now) \/ Hides(Now) \/ Rotates(Now)
  BY HandleCases
<1>2. handled # handled + 1 /\ named[s] \in Nat
  BY DEF BaseInv, Types
<1>3. Refused(Now)
  BY <1>1, <1>2 DEF Skips, Boots, Keeps, Hides, Rotates, Records, IsKill
<1>4. Now.conf \in {0, named[s]} /\ Now.conf # 0 /\ Now.conf < states[s].committee.conf /\ Current(s)
  BY <1>1, <1>3, NowExpected DEF IsKill, Refused
<1>5. states[s].committee.conf <= named[s] /\ states[s].committee.conf \in Nat
  BY <1>4, ConfigIs DEF Current
<1> QED BY <1>2, <1>4, <1>5

\* What was applied stays so: a rotation goes to the last number that was named.
LEMMA AppliedStays ==
  ASSUME BaseInv, Handle, NEW h \in 1..Len(chain), NEW i \in 1..Len(chain[h]),
         NEW m, m = chain[h][i], Applied(m, h)
  PROVE  Applied(m, h)'
<1> DEFINE t == m.subnet
<1>1. m \in AllMessages /\ h \in Nat /\ Expected(h, i)
  <2>0. PlaceInv
    BY Zenon DEF BaseInv, Types
  <2>1. chain[h] \in Seq(AllMessages) /\ h \in Nat
    <3>1. Len(chain) \in Nat /\ \A j \in 1..Len(chain) : chain[j] \in Seq(AllMessages)
      BY <2>0, PlaceIs, ZenonT(30)
    <3> QED BY <3>1
  <2>2. m \in AllMessages
    BY <2>1, ElementOfSeq
  <2>3. Expected(h, i)
    BY DEF BaseInv, BlockInv
  <2> QED BY <2>1, <2>2, <2>3
<1>2. t \in Subnets /\ (m.kind = "checkpoint" => m.conf \in Nat)
  BY <1>1 DEF AllMessages
<1>3. PICK s \in Subnets : s = Now.subnet
  BY HandleCases, NowIs DEF BaseInv
<1>4. Grown(s) /\ \A x \in Subnets \ {s} : Same(x)
  BY <1>3, HandledState
<1>5. Grown(t)
  BY <1>2, <1>4, SameGrows
<1>6. states[t].born # None /\ states'[t].born # None
  <2>1. states[t].born # None
    BY DEF Applied
  <2> QED BY <1>5, <2>1 DEF Grown
<1>7. ASSUME m.kind = "checkpoint", m.kill PROVE states'[t].killed = h
  <2>1. states[t].killed = h
    BY <1>7 DEF Applied
  <2>3. h # None
    BY <1>1 DEF None
  <2>2. states[t].killed # None
    BY <2>1, <2>3
  <2> QED BY <1>5, <2>1, <2>2 DEF Grown
<1>8. ASSUME m.kind = "checkpoint", states'[t].committee # states[t].committee
      PROVE  m.conf <= states'[t].committee.conf
  <2>1. t = s
    BY <1>2, <1>4, <1>8 DEF Same
  <2>2. handled < Len(block) /\ (Skips(Now) \/ Boots(Now) \/ Keeps(Now) \/ Hides(Now) \/ Rotates(Now))
    BY HandleCases
  <2>3. Rotates(Now)
    BY <1>3, <1>6, <1>8, <2>1, <2>2 DEF Skips, Boots, Keeps, Hides
  <2>4. Now.kind = "checkpoint" /\ Now.conf # 0 /\ states'[t].committee = Configs[t][Now.conf]
    BY <1>3, <2>1, <2>3 DEF Rotates, Records, KeepsCommittee
  <2>5. ~Applied(Now, height + 1)
    BY <2>3, AppliedAgain
  <2>6. Now.conf = named[t] /\ Now.conf \in DOMAIN Configs[t]
    BY <1>3, <2>1, <2>2, <2>4, <2>5, NowExpected
  <2>7. states'[t].committee.conf = named[t]
    BY <1>2, <2>4, <2>6, ConfigIs
  <2>8. m.conf <= named[t]
    BY <1>1, <1>8 DEF Expected
  <2> QED BY <2>7, <2>8
<1>9. m.kind = "checkpoint" =>
        /\ m.conf = 0 \/ m.conf <= states[t].committee.conf
                       \/ SameCommittee(states[t].committee, Configs[t][m.conf])
  BY DEF Applied
<1>10. m.kind = "checkpoint" =>
        /\ m.conf = 0 \/ m.conf <= states'[t].committee.conf
                       \/ SameCommittee(states'[t].committee, Configs[t][m.conf])
  BY <1>8, <1>9
<1> HIDE DEF t
<1> QED BY <1>6, <1>7, <1>10 DEF Applied, SameCommittee, t

LEMMA NowApplied ==
  ASSUME BaseInv, Handle, NEW m, m = Now, NEW h, h = height + 1
  PROVE  Applied(m, h)'
<1> DEFINE s == m.subnet
<1>1. /\ handled < Len(block)
      /\ Skips(Now) \/ Boots(Now) \/ Keeps(Now) \/ Hides(Now) \/ Rotates(Now)
  BY HandleCases
<1>2. s \in Subnets /\ m.kind \in {"bootstrap", "checkpoint"} /\ height \in Nat
  BY <1>1, NowIs, PlaceIs DEF BaseInv, Types
<1>3. m.kind = "checkpoint" =>
        /\ m.conf \in DOMAIN Configs[s] /\ m.conf \in Nat /\ m.kill \in BOOLEAN
        /\ states[s].born # None /\ Current(s) /\ Configs[s][m.conf].conf = m.conf
  BY <1>1, <1>2, NowExpected, ConfigIs
<1>4. CASE Skips(m)
  <2>1. states' = states /\ handled' = handled + 1
    BY <1>4 DEF Skips
  <2>2. CASE m.kind = "bootstrap" /\ states[s].born # None
    BY <2>1, <2>2 DEF Applied
  <2>3. CASE Refused(m)
    <3>1. ~m.kill
      BY <1>2, <2>1, <2>3, NotSkipped DEF IsKill, Refused
    <3>2. m.kind = "checkpoint" /\ m.conf < states[s].committee.conf /\ states[s].committee.conf \in Nat
      BY <1>2, <1>3, <2>3, ConfigIs DEF Refused, Current
    <3>3. m.conf <= states[s].committee.conf
      BY <1>3, <3>2
    <3> QED BY <1>3, <2>1, <3>1, <3>2, <3>3 DEF Applied
  <2> QED BY <1>4, <2>2, <2>3 DEF Skips
<1>5. CASE Boots(m)
  <2>1. states'[s].born = height + 1 /\ height + 1 # None /\ m.kind = "bootstrap"
    BY <1>2, <1>5 DEF Boots, None
  <2> QED BY <2>1 DEF Applied
<1>6. CASE Keeps(m) \/ Hides(m) \/ Rotates(m)
  <2>1. /\ m.kind = "checkpoint" /\ states'[s].born # None
        /\ m.kill => states'[s].killed = h
    BY <1>3, <1>6 DEF Keeps, Hides, Rotates, Records
  <2>2. m.conf = 0 \/ m.conf <= states'[s].committee.conf
        \/ SameCommittee(states'[s].committee, Configs[s][m.conf])
    <3>1. m.conf <= m.conf
      BY <1>3, <2>1
    <3>2. CASE Keeps(m)
      BY <3>1, <3>2 DEF Keeps, KeepsCommittee
    <3>3. CASE Hides(m)
      BY <3>3 DEF Hides
    <3>4. CASE Rotates(m)
      BY <1>3, <2>1, <3>1, <3>4 DEF Rotates
    <3> QED BY <1>6, <3>2, <3>3, <3>4
  <2> QED BY <2>1, <2>2 DEF Applied, SameCommittee
<1> QED BY <1>1, <1>4, <1>5, <1>6

LEMMA HandleBase ==
  ASSUME BaseInv, Handle
  PROVE  BaseInv' /\ \A s \in Subnets : Grown(s)
<1>1. PICK s \in Subnets : s = Now.subnet
  <2>1. handled < Len(block)
    BY HandleCases
  <2> QED BY <2>1, NowIs DEF BaseInv
<1>2. /\ handled < Len(block) /\ hook = NoHook
      /\ UNCHANGED <<height, saved, chain, block, candidates, results, named, crashes, again>>
      /\ states' \in [Subnets -> States] /\ DOMAIN committees' = Subnets
      /\ reigns' = [t \in Subnets |-> reigns'[t]]
      /\ Skips(Now) \/ Boots(Now) \/ Keeps(Now) \/ Hides(Now) \/ Rotates(Now)
  BY HandleCases DEF placeVars, faultVars
<1>3. /\ StateInv(s)' /\ reigns'[s] \in Seq(Reigns) /\ Grown(s)
      /\ \A t \in Subnets \ {s} : Same(t)
  BY <1>1, HandledState
<1>4. height \in Nat /\ handled \in Nat /\ Len(block) \in Nat /\ named \in [Subnets -> Nat]
      /\ reigns \in [Subnets -> Seq(Reigns)] /\ states \in [Subnets -> States]
      /\ Tip \in Nat /\ Len(chain) = Tip + 1 /\ height <= Tip /\ block = chain[height + 1]
  BY PlaceIs DEF BaseInv, Types, PlaceInv
<1>5. Recent \in Nat /\ Recent' = Recent
  BY <1>2, RecentIs DEF Recent, Newest, Tip, BaseInv, Types
<1>6. ASSUME NEW t \in Subnets PROVE StateInv(t)' /\ Grown(t) /\ reigns'[t] \in Seq(Reigns)
  <2>1. CASE t = s
    BY <1>3, <2>1
  <2>2. CASE t # s
    <3>1. Same(t)
      BY <1>3, <2>2
    <3>2. Recent <= Recent' /\ named[t] <= named'[t] /\ Recent' \in Nat /\ named'[t] \in Nat
      BY <1>2, <1>4, <1>5
    <3> QED BY <1>4, <1>5, <3>1, <3>2, Frame, SameGrows DEF Same
  <2> QED BY <2>1, <2>2
<1>13. handled' = handled \/ handled' = handled + 1
  BY <1>2 DEF Skips, Boots, Keeps, Hides, Rotates, Records
<1>7. handled' \in 0..Len(block)
  BY <1>2, <1>4, <1>13
<1>8. Types'
  <2>1. reigns' \in [Subnets -> Seq(Reigns)]
    BY <1>2, <1>6
  <2>2. PlaceInv'
    BY <1>2 DEF BaseInv, Types, PlaceInv, Tip
  <2> QED BY <1>2, <1>7, <2>1, <2>2 DEF BaseInv, Types
<1>9. ASSUME NEW h \in 1..Len(chain), NEW i \in 1..Len(chain[h])
      PROVE  Expected(h, i)'
  <2> DEFINE m == chain[h][i]
             t == m.subnet
  <2> SUFFICES ASSUME m.kind = "checkpoint" PROVE Expected(h, i)'
    BY <1>2 DEF Expected
  <2>1. Expected(h, i) /\ m \in AllMessages /\ (Seen(h, i) => Applied(m, h)) /\ h \in Nat
    BY PlaceIs DEF BaseInv, BlockInv, Types
  <2>2. t \in Subnets
    BY <2>1 DEF AllMessages
  <2>3. Grown(t)
    BY <1>6, <2>2
  <2>4. ASSUME m.kill PROVE states'[t].killed \in {None, h}
    <3>1. states[t].killed \in {None, h}
      BY <2>1, <2>4 DEF Expected
    <3>2. CASE states'[t].killed = states[t].killed
      BY <3>1, <3>2
    <3>3. CASE states'[t].killed # states[t].killed
      <4>1. states[t].killed = None /\ states'[t].killed = Tip + 1
        BY <2>3, <3>3 DEF Grown
      <4>2. ~Applied(m, h)
        BY <2>1, <2>4, <4>1 DEF Applied, None
      <4>3. ~(h < Len(chain))
        BY <2>1, <4>2 DEF Seen
      <4>4. h = Tip + 1
        BY <1>4, <4>3
      <4> QED BY <4>1, <4>4
    <3> QED BY <3>2, <3>3
  <2>5. states'[t].born # None
    BY <2>1, <2>3 DEF Expected, Grown
  <2> QED BY <1>2, <2>1, <2>4, <2>5 DEF Expected
<1>10. ASSUME NEW h \in 1..Len(chain), NEW i \in 1..Len(chain[h]), Seen(h, i)'
       PROVE  Applied(chain[h][i], h)'
  <2>1. PICK m : m = chain[h][i]
    OBVIOUS
  <2>2. Applied(m, h)'
    <3>1. CASE Seen(h, i)
      <4>1. Applied(m, h)
        BY <2>1, <3>1 DEF BaseInv, BlockInv
      <4> QED BY <2>1, <4>1, AppliedStays
    <3>2. CASE ~Seen(h, i)
      <4>1. /\ ~(h < Len(chain)) /\ ~(i < Len(chain[h])) /\ height = Tip /\ i <= handled' /\ ~(i <= handled)
        BY <1>2, <1>10, <3>2 DEF Seen, Tip
      <4>2. h = height + 1 /\ i = handled + 1
        <5>1. h = height + 1
          BY <1>4, <4>1
        <5>2. i \in Nat
          BY <1>4, <5>1
        <5> QED BY <1>4, <1>13, <4>1, <5>1, <5>2
      <4>3. m = Now
        BY <1>4, <2>1, <4>2 DEF Now
      <4> QED BY <4>2, <4>3, NowApplied
    <3> QED BY <3>1, <3>2
  <2>3. chain'[h][i] = m
    BY <1>2, <2>1
  <2> QED BY <2>2, <2>3 DEF Applied
<1>11. BlockInv'
  <2>1. ASSUME NEW h \in 1..Len(chain'), NEW i \in 1..Len(chain'[h])
        PROVE  (Expected(h, i) /\ (Seen(h, i) => Applied(chain[h][i], h)))'
    BY <1>2, <1>9, <1>10
  <2> QED BY <2>1 DEF BlockInv
<1>12. HookInv'
  <2>1. CASE Skips(Now) \/ Boots(Now)
    BY <1>2, <2>1 DEF Skips, Boots, HookInv, NoHook
  <2>5. states[s].number \in Nat /\ states[s].number + 1 \in Nat
    BY <1>4 DEF States
  <2>2. ASSUME NEW n \in Nat, Records(Now, n), n \in DOMAIN committees'[s] PROVE HookInv'
    <3>1. /\ hook' = [kind |-> "checkpoint", subnet |-> s, signed |-> states[s].number, next |-> n,
                       kill |-> Now.kill]
          /\ Now.kind = "checkpoint" /\ handled' = handled
      BY <1>1, <2>2 DEF Records
    <3>2. PICK m : m = Now
      OBVIOUS
    <3>4. PICK h : h = height + 1
      OBVIOUS
    <3>5. Applied(m, h)'
      BY <3>2, <3>4, NowApplied
    <3>6. block'[handled' + 1] = m /\ height' + 1 = h
      BY <1>2, <3>1, <3>2, <3>4 DEF Now
    <3>7. Applied(block[handled + 1], height + 1)'
      BY <3>5, <3>6 DEF Applied
    <3>3. Hooking'
      BY <1>1, <1>2, <2>2, <3>1, <3>2, <3>6, <3>7 DEF Hooking
    <3> QED BY <3>1, <3>3 DEF HookInv
  <2>3. CASE Keeps(Now)
    <3>1. states[s].born # None /\ Current(s)
      BY <1>1, <1>2, <2>3, NowExpected DEF Keeps, Records
    <3> QED BY <1>1, <2>2, <2>3, <2>5, <3>1 DEF Keeps, Current
  <2>4. CASE Hides(Now) \/ Rotates(Now)
    BY <1>1, <2>2, <2>4, <2>5 DEF Hides, Rotates, With
  <2> QED BY <1>2, <2>1, <2>3, <2>4
<1> QED BY <1>6, <1>8, <1>11, <1>12 DEF BaseInv

\* The other steps leave the subnets alone.
LEMMA IdleBase ==
  ASSUME BaseInv, UNCHANGED <<states, committees, reigns>>, Types', BlockInv', HookInv',
         Recent <= Recent', \A s \in Subnets : named[s] <= named'[s]
  PROVE  BaseInv' /\ \A s \in Subnets : Grown(s)
<1>1. Recent \in Nat /\ Recent' \in Nat
  <2>1. PlaceInv /\ PlaceInv'
    BY DEF BaseInv, Types
  <2>2. Recent \in Nat
    BY <2>1, RecentIs
  <2>3. Tip' \in Nat
    <3>1. chain' \in Seq(Seq(AllMessages)) /\ height' \in Nat /\ height' <= Tip'
      BY <2>1, RewardConstants DEF PlaceInv
    <3>2. Len(chain') \in Nat
      BY <3>1
    <3> QED BY <3>1, <3>2 DEF Tip
  <2>4. Recent' = Tip' \/ Recent' = Tip' + 1
    BY DEF Recent
  <2>5. Recent' \in Nat
    BY <2>3, <2>4
  <2> QED BY <2>2, <2>5
<1>2. ASSUME NEW s \in Subnets PROVE StateInv(s)' /\ Grown(s)
  <2>1. Same(s)
    BY DEF Same
  <2>2. named[s] <= named'[s] /\ named'[s] \in Nat
    BY DEF Types
  <2> QED BY <1>1, <2>1, <2>2, Frame, SameGrows
<1> QED BY <1>2 DEF BaseInv

LEMMA MessageIs ==
  ASSUME BaseInv, NEW m \in Messages
  PROVE  /\ m.subnet \in Subnets /\ m \in AllMessages /\ m.kind \in {"bootstrap", "checkpoint"}
         /\ m.kind = "checkpoint" =>
              /\ states[m.subnet].born # None /\ states[m.subnet].killed = None
              /\ m.conf \in DOMAIN Configs[m.subnet] /\ m.conf \in Nat /\ m.kill \in BOOLEAN
              /\ m.conf = 0 \/ m.conf >= named[m.subnet]
<1>1. CASE m \in [kind : {"bootstrap"}, subnet : {t \in Subnets : states[t].born = None}]
  BY <1>1 DEF AllMessages
<1>2. CASE m \in UNION {[kind : {"checkpoint"}, subnet : {t}, conf : Nameable(t), kill : BOOLEAN]
                         : t \in {t \in Subnets : Alive(t)}}
  <2>1. PICK t \in Subnets : Alive(t) /\ m \in [kind : {"checkpoint"}, subnet : {t}, conf : Nameable(t), kill : BOOLEAN]
    BY <1>2
  <2>2. /\ m = [kind |-> m.kind, subnet |-> m.subnet, conf |-> m.conf, kill |-> m.kill]
        /\ m.kind = "checkpoint" /\ m.subnet = t /\ m.conf \in Nameable(t) /\ m.kill \in BOOLEAN
    BY <2>1
  <2>3. m.conf \in DOMAIN Configs[t] /\ (m.conf = 0 \/ m.conf >= named[t])
    BY <2>2, RewardConstants DEF Nameable
  <2>4. m.conf \in Nat
    BY <2>3, ConfigIs
  <2>5. m \in AllMessages
    BY <2>2, <2>4 DEF AllMessages
  <2> QED BY <2>1, <2>2, <2>3, <2>4, <2>5 DEF Alive
<1> QED BY <1>1, <1>2 DEF Messages

LEMMA MineBase ==
  ASSUME BaseInv, NEW m \in Messages, Mine(m)
  PROVE  BaseInv' /\ \A s \in Subnets : Grown(s)
<1> DEFINE s == m.subnet
           n == Len(chain)
<1>1. /\ hook = NoHook /\ handled = Len(block) /\ block' = Append(block, m) /\ height + 1 = n
      /\ chain' = [chain EXCEPT ![height + 1] = block']
      /\ UNCHANGED <<height, saved, handled, hook, states, committees, candidates, results, crashes, again, reigns>>
      /\ named' = IF m.kind = "checkpoint" /\ m.conf # 0 THEN [named EXCEPT ![s] = m.conf] ELSE named
  BY DEF Mine, faultVars
<1>2. /\ height \in Nat /\ handled \in Nat /\ named \in [Subnets -> Nat] /\ block \in Seq(AllMessages)
      /\ Len(block) \in Nat /\ chain \in Seq(Seq(AllMessages)) /\ n \in Nat /\ n \in 1..n /\ height = Tip
      /\ block = chain[n] /\ Tip \in Nat
  <2>1. PlaceInv /\ named \in [Subnets -> Nat] /\ handled \in 0..Len(block)
    BY DEF BaseInv, Types
  <2>2. chain \in Seq(Seq(AllMessages)) /\ block = chain[height + 1]
    BY <2>1 DEF PlaceInv
  <2> QED BY <1>1, <2>1, <2>2, PlaceIs
<1>3. /\ s \in Subnets /\ m \in AllMessages
      /\ m.kind = "checkpoint" => /\ states[s].born # None /\ states[s].killed = None
                                  /\ m.conf \in DOMAIN Configs[s] /\ m.conf \in Nat /\ m.kill \in BOOLEAN
                                  /\ m.conf = 0 \/ m.conf >= named[s]
  BY MessageIs
<1>11. ASSUME m.kind = "checkpoint"
       PROVE  /\ states[s].born # None /\ states[s].killed = None
              /\ m.conf \in DOMAIN Configs[s] /\ m.conf \in Nat /\ m.kill \in BOOLEAN
              /\ m.conf = 0 \/ m.conf >= named[s]
  BY <1>3, <1>11
<1> HIDE DEF s
<1>4. named' \in [Subnets -> Nat] /\ \A t \in Subnets : named[t] <= named'[t] /\ (t # s => named'[t] = named[t])
  <2>1. CASE m.kind = "checkpoint" /\ m.conf # 0
    <3>1. named' = [named EXCEPT ![s] = m.conf] /\ m.conf \in Nat /\ m.conf >= named[s]
      BY <1>1, <1>11, <2>1
    <3>2. named' \in [Subnets -> Nat] /\ \A t \in Subnets : named'[t] = IF t = s THEN m.conf ELSE named[t]
      BY <1>2, <1>3, <3>1
    <3>3. \A t \in Subnets : named[t] \in Nat
      BY <1>2
    <3> QED BY <1>3, <3>1, <3>2, <3>3
  <2>2. CASE ~(m.kind = "checkpoint" /\ m.conf # 0)
    <3>1. named' = named /\ \A t \in Subnets : named[t] \in Nat
      BY <1>1, <1>2, <2>2
    <3> QED BY <1>2, <3>1
  <2> QED BY <2>1, <2>2
<1>5. /\ block' \in Seq(AllMessages) /\ Len(block') = Len(block) + 1 /\ block'[Len(block) + 1] = m
      /\ \A i \in 1..Len(block) : block'[i] = block[i]
  BY <1>1, <1>2, <1>3
<1>12. /\ chain' \in Seq(Seq(AllMessages)) /\ Len(chain') = n /\ chain'[n] = block'
       /\ \A h \in 1..n : h # n => chain'[h] = chain[h]
  <2>1. chain' = [chain EXCEPT ![n] = block']
    BY <1>1
  <2> HIDE DEF n
  <2>2. /\ [chain EXCEPT ![n] = block'] \in Seq(Seq(AllMessages))
        /\ Len([chain EXCEPT ![n] = block']) = Len(chain)
        /\ \A j \in 1..Len(chain) : [chain EXCEPT ![n] = block'][j] = IF j = n THEN block' ELSE chain[j]
    <3>1. n \in 1..Len(chain)
      BY <1>2 DEF n
    <3> QED BY <1>2, <1>5, <3>1, ExceptSeq
  <2>3. Len(chain) = n
    BY DEF n
  <2> QED BY <1>2, <2>1, <2>2, <2>3
<1> HIDE DEF n
<1>6. Types'
  <2>1. handled' \in 0..Len(block')
    BY <1>1, <1>2, <1>5
  <2>2. Tip' = Tip /\ block' = chain'[height' + 1]
    BY <1>1, <1>12 DEF Tip, n
  <2>3. PlaceInv'
    BY <1>1, <1>12, <2>2 DEF BaseInv, Types, PlaceInv
  <2> QED BY <1>1, <1>4, <2>1, <2>3 DEF BaseInv, Types
<1>7. ASSUME NEW h \in 1..n, NEW i \in 1..Len(chain'[h])
      PROVE  (Expected(h, i) /\ (Seen(h, i) => Applied(chain[h][i], h)))'
  <2>1. CASE h = n /\ i = Len(block) + 1
    <3>1. chain'[h][i] = m /\ Len(chain'[h]) = i
      BY <1>5, <1>12, <2>1
    <3>2. ~Seen(h, i)'
      <4>1. ~(h < Len(chain')) /\ ~(i < Len(chain'[h])) /\ ~(i <= handled')
        BY <1>1, <1>2, <1>12, <2>1, <3>1
      <4> QED BY <4>1 DEF Seen
    <3>3. Expected(h, i)'
      <4> SUFFICES ASSUME m.kind = "checkpoint"
                   PROVE  /\ m.conf \in DOMAIN Configs[s] /\ m.conf <= named'[s] /\ states'[s].born # None
                          /\ m.conf \in {0, named'[s]} /\ states'[s].killed = None
        BY <3>1 DEF Expected, s
      <4>1. named'[s] = (IF m.conf # 0 THEN m.conf ELSE named[s]) /\ named[s] \in Nat
        BY <1>1, <1>2, <1>3
      <4>2. m.conf <= named'[s] /\ m.conf \in {0, named'[s]}
        BY <1>11, <4>1
      <4> QED BY <1>1, <1>11, <4>2
    <3> QED BY <3>2, <3>3
  <2>2. CASE ~(h = n /\ i = Len(block) + 1)
    <3>1. i \in 1..Len(chain[h]) /\ chain'[h][i] = chain[h][i] /\ (h = n => i # Len(chain'[h]))
      <4>1. CASE h = n
        BY <1>2, <1>5, <1>12, <2>2, <4>1
      <4>2. CASE h # n
        BY <1>12, <4>2
      <4> QED BY <4>1, <4>2
    <3>2. PICK x : x = chain[h][i]
      OBVIOUS
    <3>3. Seen(h, i)
      <4>1. CASE h = n
        BY <1>1, <1>2, <3>1, <4>1 DEF Seen
      <4>2. CASE h # n
        <5>1. h < n
          BY <1>2, <4>2
        <5> QED BY <5>1 DEF Seen, n
      <4> QED BY <4>1, <4>2
    <3>4. Expected(h, i) /\ Applied(x, h) /\ x \in AllMessages /\ h \in Nat /\ h # None
      BY <3>1, <3>2, <3>3, PlaceIs DEF BaseInv, Types, BlockInv, n, None
    <3>5. x.subnet \in Subnets /\ (x.kind = "checkpoint" => x.conf \in Nat)
      BY <3>4 DEF AllMessages
    <3>6. Applied(chain[h][i], h)'
      BY <1>1, <3>1, <3>2, <3>4 DEF Applied, SameCommittee
    <3>7. ASSUME x.kind = "checkpoint" PROVE x.conf <= named'[x.subnet]
      <4>1. x.conf <= named[x.subnet] /\ named[x.subnet] <= named'[x.subnet]
            /\ named[x.subnet] \in Nat /\ named'[x.subnet] \in Nat /\ x.conf \in Nat
        BY <1>2, <1>4, <3>2, <3>4, <3>5, <3>7 DEF Expected
      <4> QED BY <4>1
    <3>8. ASSUME x.kind = "checkpoint", x.kill PROVE x.conf \in {0, named'[x.subnet]}
      <4>1. states[x.subnet].killed # None
        BY <3>4, <3>8 DEF Applied
      <4>2. named'[x.subnet] = named[x.subnet]
        <5>1. CASE x.subnet = s
          <6>1. m.kind # "checkpoint"
            BY <1>11, <4>1, <5>1
          <6> QED BY <1>1, <6>1
        <5>2. CASE x.subnet # s
          BY <1>4, <3>5, <5>2
        <5> QED BY <5>1, <5>2
      <4> QED BY <3>2, <3>4, <3>8, <4>2 DEF Expected
    <3>9. Expected(h, i)'
      <4>1. chain'[h][i] = x /\ ~(h = Len(chain') /\ i = Len(chain'[h]))
        BY <1>12, <3>1, <3>2
      <4>2. x.kind = "checkpoint" =>
              /\ x.conf \in DOMAIN Configs[x.subnet] /\ states'[x.subnet].born # None
              /\ x.kill => states'[x.subnet].killed \in {None, h}
        BY <1>1, <3>2, <3>4 DEF Expected
      <4> QED BY <3>7, <3>8, <4>1, <4>2 DEF Expected
    <3> QED BY <3>6, <3>9
  <2> QED BY <2>1, <2>2
<1>8. BlockInv'
  BY <1>7, <1>12 DEF BlockInv
<1>9. HookInv'
  BY <1>1 DEF HookInv, NoHook
<1>10. Recent <= Recent'
  <2>1. Newest' = block' /\ block' # <<>> /\ Tip' = Tip
    BY <1>2, <1>5, <1>12 DEF Newest, Tip, n
  <2>2. Recent' = Tip + 1
    BY <2>1 DEF Recent
  <2> QED BY <1>2, <2>2 DEF Recent
<1> QED BY <1>1, <1>4, <1>6, <1>8, <1>9, <1>10, IdleBase

\* Steps that stay in the block and in the chain, except for the messages seen.
LEMMA StillBase ==
  ASSUME BaseInv, UNCHANGED <<height, saved, chain, block, states, committees, named, crashes, again, reigns>>,
         DOMAIN candidates' = Snapshots, handled' \in 0..Len(block), HookInv',
         \/ handled' = handled
         \/ handled' = handled + 1 /\ Applied(Now, height + 1)
  PROVE  BaseInv' /\ \A s \in Subnets : Grown(s)
<1>1. /\ height \in Nat /\ Tip \in Nat /\ Len(chain) = Tip + 1 /\ block = chain[height + 1] /\ handled \in Nat
      /\ named \in [Subnets -> Nat]
  BY PlaceIs DEF BaseInv, Types, PlaceInv
<1>2. Types'
  <2>1. PlaceInv'
    BY DEF BaseInv, Types, PlaceInv, Tip
  <2> QED BY <2>1 DEF BaseInv, Types
<1>3. ASSUME NEW h \in 1..Len(chain), NEW i \in 1..Len(chain[h])
      PROVE  (Expected(h, i) /\ (Seen(h, i) => Applied(chain[h][i], h)))'
  <2>1. Expected(h, i) /\ (Seen(h, i) => Applied(chain[h][i], h))
    BY DEF BaseInv, BlockInv
  <2>2. Expected(h, i)'
    BY <2>1 DEF Expected
  <2>3. ASSUME Seen(h, i)' PROVE Applied(chain[h][i], h)
    <3>1. CASE Seen(h, i)
      BY <2>1, <3>1
    <3>2. CASE ~Seen(h, i)
      <4>1. /\ ~(h < Len(chain)) /\ height = Tip /\ i <= handled' /\ ~(i <= handled)
        BY <2>3, <3>2 DEF Seen, Tip
      <4>2. h = height + 1
        BY <1>1, <4>1
      <4>3. i \in Nat
        BY <1>1
      <4>4. i = handled + 1 /\ handled' = handled + 1
        BY <1>1, <4>1, <4>3
      <4>5. handled' # handled
        BY <1>1, <4>4
      <4> QED BY <1>1, <4>2, <4>4, <4>5 DEF Now
    <3> QED BY <3>1, <3>2
  <2>4. Applied(chain[h][i], h) => Applied(chain[h][i], h)'
    BY DEF Applied, SameCommittee
  <2> QED BY <2>2, <2>3, <2>4
<1>4. BlockInv'
  BY <1>3 DEF BlockInv
<1>5. Recent <= Recent' /\ \A s \in Subnets : named[s] <= named'[s]
  <2>1. Recent \in Nat /\ Recent' = Recent
    BY RecentIs DEF BaseInv, Types, Recent, Newest, Tip
  <2>2. \A s \in Subnets : named[s] \in Nat
    BY <1>1
  <2> QED BY <2>1, <2>2
<1> QED BY <1>2, <1>4, <1>5, IdleBase

LEMMA CheckpointBase ==
  ASSUME BaseInv, UpdateAfterCheckpoint
  PROVE  BaseInv' /\ \A s \in Subnets : Grown(s)
<1>1. /\ hook.kind = "checkpoint" /\ hook' = NoHook /\ handled' = handled + 1
      /\ UNCHANGED <<height, saved, chain, block, states, committees, named, crashes, again, reigns>>
  BY DEF UpdateAfterCheckpoint, placeVars, faultVars
<1>2. Hooking /\ handled \in Nat /\ Len(block) \in Nat
  BY <1>1, PlaceIs DEF BaseInv, Types, HookInv
<1>3. DOMAIN candidates' = Snapshots
  BY DEF UpdateAfterCheckpoint, BaseInv, Types
<1>4. handled' \in 0..Len(block) /\ Applied(Now, height + 1)
  BY <1>1, <1>2 DEF Hooking, Now
<1>5. HookInv'
  BY <1>1 DEF HookInv, NoHook
<1> QED BY <1>1, <1>3, <1>4, <1>5, StillBase

\* The chain after a block: it is longer if the block was new.
Known == IF height + 1 = Len(chain) THEN Append(chain, <<>>) ELSE chain

LEMMA EndChain ==
  ASSUME BaseInv, EndBlock
  PROVE  /\ saved' \in 0..(height + 1) /\ chain' \in Seq(Seq(AllMessages)) /\ block' = chain'[height + 2]
         /\ height = Tip => Tip' = Tip + 1 /\ Newest' = <<>>
         /\ height # Tip => Tip' = Tip /\ Newest' = Newest
         /\ \A h \in 1..Len(chain') :
              \/ chain'[h] = <<>>
              \/ h \in 1..Len(chain) /\ chain'[h] = chain[h] /\ h > saved'
         /\ \A h \in 1..Len(chain) : h > height + 1 => h \in 1..Len(chain') /\ chain'[h] = chain[h]
<1> DEFINE n == Len(Known)
<1>1. /\ height \in Nat /\ Tip \in Nat /\ Len(chain) = Tip + 1 /\ height <= Tip /\ saved \in 0..height
      /\ chain \in Seq(Seq(AllMessages)) /\ Len(chain) \in Nat
  BY PlaceIs DEF BaseInv, Types, PlaceInv
<1>2. /\ block' = Known[height + 2]
      /\ chain' = [h \in DOMAIN Known |-> IF h <= saved' THEN <<>> ELSE Known[h]]
      /\ saved' = height + 1 \/ saved' = saved
  BY DEF EndBlock, Known
<1>3. saved' \in 0..(height + 1)
  BY <1>1, <1>2
<1>4. /\ Known \in Seq(Seq(AllMessages)) /\ n \in Nat /\ DOMAIN Known = 1..n
      /\ \A h \in 1..Len(chain) : Known[h] = chain[h]
      /\ n >= height + 2 /\ height + 2 \in 1..n
      /\ height = Tip => n = Len(chain) + 1 /\ Known[n] = <<>>
      /\ height # Tip => n = Len(chain)
  <2>1. CASE height + 1 = Len(chain)
    <3>1. <<>> \in Seq(AllMessages)
      OBVIOUS
    <3>2. Known = Append(chain, <<>>)
      BY <2>1 DEF Known
    <3>3. /\ Known \in Seq(Seq(AllMessages)) /\ n = Len(chain) + 1
          /\ \A h \in 1..Len(chain) : Known[h] = chain[h]
          /\ Known[Len(chain) + 1] = <<>>
      BY <1>1, <3>1, <3>2, AppendProperties
    <3>4. DOMAIN Known = 1..n
      BY <3>3, LenProperties
    <3> HIDE DEF n
    <3> QED BY <1>1, <2>1, <3>3, <3>4
  <2>2. CASE height + 1 # Len(chain)
    <3>1. Known = chain
      BY <2>2 DEF Known
    <3>2. DOMAIN Known = 1..n
      BY <1>1, <3>1, LenProperties
    <3> QED BY <1>1, <2>2, <3>1, <3>2
  <2> QED BY <2>1, <2>2
<1> HIDE DEF n
<1>5. ASSUME NEW h \in 1..n
      PROVE  chain'[h] = (IF h <= saved' THEN <<>> ELSE Known[h]) /\ chain'[h] \in Seq(AllMessages)
  <2>1. chain'[h] = IF h <= saved' THEN <<>> ELSE Known[h]
    BY <1>2, <1>4
  <2>2. Known[h] \in Seq(AllMessages)
    BY <1>4, ElementOfSeq DEF n
  <2>3. <<>> \in Seq(AllMessages)
    OBVIOUS
  <2> QED BY <2>1, <2>2, <2>3
<1>6. chain' \in Seq(Seq(AllMessages)) /\ Len(chain') = n
  <2>1. DOMAIN chain' = 1..n
    BY <1>2, <1>4
  <2>2. chain' \in [1..n -> Seq(AllMessages)]
    BY <1>2, <1>5, <2>1
  <2>3. chain' \in Seq(Seq(AllMessages))
    BY <1>4, <2>2
  <2>4. DOMAIN chain' = 1..Len(chain') /\ Len(chain') \in Nat
    BY <2>3, LenProperties
  <2> QED BY <1>4, <2>1, <2>3, <2>4, SameEnd
<1>7. block' = chain'[height + 2]
  <2>1. ~(height + 2 <= saved')
    BY <1>1, <1>3
  <2> QED BY <1>2, <1>4, <1>5, <2>1
<1>8. ASSUME height = Tip PROVE Tip' = Tip + 1 /\ Newest' = <<>>
  <2>1. n = Len(chain) + 1 /\ Known[n] = <<>> /\ n \in 1..n
    BY <1>1, <1>4, <1>8
  <2>2. chain'[n] = <<>>
    BY <1>5, <2>1
  <2> QED BY <1>1, <1>6, <2>1, <2>2 DEF Tip, Newest
<1>9. ASSUME height # Tip PROVE Tip' = Tip /\ Newest' = Newest
  <2>1. n = Len(chain) /\ n \in 1..n /\ ~(n <= saved')
    BY <1>1, <1>3, <1>4, <1>9
  <2>2. chain'[n] = chain[n]
    BY <1>4, <1>5, <2>1
  <2> QED BY <1>1, <1>6, <2>1, <2>2 DEF Tip, Newest
<1>10. ASSUME NEW h \in 1..Len(chain')
       PROVE  chain'[h] = <<>> \/ (h \in 1..Len(chain) /\ chain'[h] = chain[h] /\ h > saved')
  <2>1. h \in 1..n /\ h \in Nat
    BY <1>4, <1>6
  <2>2. CASE h <= saved'
    BY <1>5, <2>1, <2>2
  <2>3. CASE ~(h <= saved')
    <3>1. chain'[h] = Known[h] /\ h > saved'
      BY <1>1, <1>3, <1>5, <2>1, <2>3
    <3>2. CASE h \in 1..Len(chain)
      BY <1>4, <3>1, <3>2
    <3>3. CASE h \notin 1..Len(chain)
      BY <1>1, <1>4, <2>1, <3>1, <3>3
    <3> QED BY <3>2, <3>3
  <2> QED BY <2>2, <2>3
<1>11. ASSUME NEW h \in 1..Len(chain), h > height + 1 PROVE h \in 1..Len(chain') /\ chain'[h] = chain[h]
  <2>1. h \in 1..n /\ ~(h <= saved')
    BY <1>1, <1>3, <1>4, <1>11
  <2> QED BY <1>4, <1>5, <1>6, <2>1
<1> QED BY <1>3, <1>6, <1>7, <1>8, <1>9, <1>10, <1>11

LEMMA EndBase ==
  ASSUME BaseInv, EndBlock
  PROVE  BaseInv' /\ \A s \in Subnets : Grown(s)
<1>1. /\ height < MaxHeight /\ height' = height + 1 /\ handled = Len(block) /\ handled' = 0
      /\ hook' = [kind |-> "block"]
      /\ UNCHANGED <<states, committees, candidates, results, named, crashes, again, reigns>>
  BY DEF EndBlock
<1>2. /\ height \in Nat /\ MaxHeight \in Nat /\ named \in [Subnets -> Nat] /\ Tip \in Nat /\ height <= Tip
      /\ Len(chain) = Tip + 1 /\ block = chain[height + 1] /\ Len(block) \in Nat
      /\ (height + 1)..Tip \subseteq again
      /\ (crashes = 0 => height = Tip /\ again = {})
  BY RewardConstants, PlaceIs DEF BaseInv, Types, PlaceInv
<1>3. /\ saved' \in 0..(height + 1) /\ chain' \in Seq(Seq(AllMessages)) /\ block' = chain'[height + 2]
      /\ height = Tip => Tip' = Tip + 1 /\ Newest' = <<>>
      /\ height # Tip => Tip' = Tip /\ Newest' = Newest
      /\ \A h \in 1..Len(chain') :
           \/ chain'[h] = <<>>
           \/ h \in 1..Len(chain) /\ chain'[h] = chain[h] /\ h > saved'
  BY EndChain
<1>4. Len(chain') = Tip' + 1 /\ Len(chain') \in Nat /\ Tip' \in Nat /\ height' <= Tip'
  <2>1. Len(chain') \in Nat
    BY <1>3, LenProperties
  <2>2. Tip' = Len(chain') - 1
    BY DEF Tip
  <2>3. Tip' = Tip \/ Tip' = Tip + 1
    BY <1>3
  <2>4. height + 1 <= Tip'
    <3>1. CASE height = Tip
      BY <1>2, <1>3, <3>1
    <3>2. CASE height # Tip
      <4>1. Tip' = Tip
        BY <1>3, <3>2
      <4>2. height \in Nat /\ Tip \in Nat /\ height <= Tip
        BY <1>2
      <4> QED BY <3>2, <4>1, <4>2
    <3> QED BY <3>1, <3>2
  <2>5. Tip' \in Nat /\ Tip \in Nat /\ height' = height + 1
    BY <1>1, <1>2, <2>3
  <2> QED BY <2>1, <2>2, <2>4, <2>5
<1>5. Types'
  <2>1. height' \in 0..MaxHeight /\ saved' \in 0..height' /\ block' = chain'[height' + 1]
    BY <1>1, <1>2, <1>3
  <2>2. (height' + 1)..Tip' \subseteq again'
    <3>1. CASE height = Tip
      BY <1>1, <1>2, <1>3, <3>1
    <3>2. CASE height # Tip
      BY <1>1, <1>2, <1>3, <3>2
    <3> QED BY <3>1, <3>2
  <2>3. crashes' = 0 => height' = Tip' /\ again' = {}
    BY <1>1, <1>2, <1>3
  <2>4. PlaceInv'
    BY <1>3, <1>4, <2>1, <2>2, <2>3 DEF PlaceInv
  <2>5. Len(block') \in Nat
    <3>1. height + 2 \in 1..Len(chain')
      <4>1. height \in Nat /\ height + 1 <= Tip'
        BY <1>1, <1>2, <1>4
      <4>2. Len(chain') \in Nat /\ Len(chain') = Tip' + 1 /\ Tip' \in Nat
        BY <1>4
      <4>3. \A h, x \in Nat : h + 1 <= x => h + 2 \in 1..(x + 1)
        OBVIOUS
      <4> QED BY <4>1, <4>2, <4>3
    <3>2. block' \in Seq(AllMessages)
      BY <1>3, <3>1, ElementOfSeq
    <3> QED BY <3>2, LenProperties
  <2>6. handled' \in 0..Len(block')
    BY <1>1, <2>5
  <2> QED BY <1>1, <2>4, <2>6 DEF BaseInv, Types
<1>6. ASSUME NEW h \in 1..Len(chain'), NEW i \in 1..Len(chain'[h])
      PROVE  (Expected(h, i) /\ (Seen(h, i) => Applied(chain[h][i], h)))'
  <2>1. h \in 1..Len(chain) /\ chain'[h] = chain[h] /\ i \in 1..Len(chain[h])
    <3>1. chain'[h] # <<>>
      OBVIOUS
    <3> QED BY <1>3, <3>1
  <2>2. Expected(h, i) /\ (Seen(h, i) => Applied(chain[h][i], h))
    BY <2>1 DEF BaseInv, BlockInv
  <2>3. CASE height = Tip
    <3>1. Seen(h, i)
      <4>1. CASE h = Len(chain)
        <5>1. i <= handled
          BY <1>1, <1>2, <2>1, <2>3, <4>1
        <5> QED BY <2>3, <5>1 DEF Seen
      <4>2. CASE h # Len(chain)
        BY <1>2, <2>1, <4>2 DEF Seen
      <4> QED BY <4>1, <4>2
    <3>2. h # Len(chain')
      BY <1>2, <1>3, <1>4, <2>1, <2>3
    <3>3. Expected(h, i)'
      BY <1>1, <2>1, <2>2, <3>2 DEF Expected
    <3>4. Applied(chain[h][i], h)'
      BY <1>1, <2>1, <2>2, <3>1 DEF Applied, SameCommittee
    <3> QED BY <3>3, <3>4
  <2>4. CASE height # Tip
    <3>1. Len(chain') = Len(chain)
      BY <1>2, <1>3, <1>4, <2>4
    <3>2. Expected(h, i)'
      BY <1>1, <2>1, <2>2, <3>1 DEF Expected
    <3>3. Seen(h, i)' => Seen(h, i)
      <4>1. ~(i <= handled')
        <5>1. i \in Nat /\ i >= 1
          <6>1. Len(chain[h]) \in Nat
            <7>1. chain[h] \in Seq(AllMessages)
              BY <2>1, PlaceIs DEF BaseInv, Types
            <7> QED BY <7>1, LenProperties
          <6> QED BY <2>1, <6>1
        <5> QED BY <1>1, <5>1
      <4> QED BY <2>1, <3>1, <4>1 DEF Seen
    <3>4. Applied(chain[h][i], h) => Applied(chain[h][i], h)'
      BY <1>1, <2>1 DEF Applied, SameCommittee
    <3> QED BY <2>2, <3>2, <3>3, <3>4
  <2> QED BY <2>3, <2>4
<1>7. BlockInv'
  BY <1>6 DEF BlockInv
<1>8. HookInv'
  <2>1. ASSUME height' \notin again' PROVE height' = Tip' /\ block' = <<>>
    <3>1. height = Tip
      BY <1>1, <1>2, <2>1
    <3>2. Tip' = Tip + 1 /\ Newest' = <<>>
      BY <1>3, <3>1
    <3>3. block' = Newest'
      BY <1>2, <1>3, <1>4, <3>1, <3>2 DEF Newest
    <3> QED BY <1>1, <3>1, <3>2, <3>3
  <2> QED BY <1>1, <2>1 DEF HookInv
<1>9. Recent <= Recent' /\ \A s \in Subnets : named[s] <= named'[s]
  <2>1. Recent \in Nat /\ Tip <= Recent /\ Recent <= Tip + 1
    BY RecentIs DEF BaseInv, Types
  <2>2. CASE height = Tip
    <3>1. Recent' = Tip + 1
      BY <1>3, <2>2 DEF Recent
    <3> QED BY <1>1, <1>2, <2>1, <3>1
  <2>3. CASE height # Tip
    <3>1. Recent' = Recent
      BY <1>3, <2>3 DEF Recent
    <3> QED BY <1>1, <1>2, <2>1, <3>1
  <2> QED BY <2>2, <2>3
<1> QED BY <1>1, <1>5, <1>7, <1>8, <1>9, IdleBase

LEMMA CrashBase ==
  ASSUME BaseInv, Crash
  PROVE  BaseInv' /\ \A s \in Subnets : Grown(s)
<1>1. /\ crashes' = crashes + 1 /\ again' = again \cup (saved + 1)..height
      /\ height' = saved /\ block' = chain[saved + 1] /\ hook' = NoHook /\ handled' = 0
      /\ UNCHANGED <<saved, chain, states, committees, candidates, named, reigns>>
  BY DEF Crash
<1>2. /\ height \in 0..MaxHeight /\ saved \in 0..height /\ Tip \in Nat /\ height <= Tip /\ MaxHeight \in Nat
      /\ Len(chain) = Tip + 1 /\ named \in [Subnets -> Nat] /\ crashes \in Nat
      /\ (height + 1)..Tip \subseteq again /\ chain \in Seq(Seq(AllMessages))
  BY RewardConstants, PlaceIs DEF BaseInv, Types, PlaceInv
<1>3. Tip' = Tip /\ Recent' = Recent /\ Recent \in Nat
  BY <1>1, RecentIs DEF Tip, Recent, Newest, BaseInv, Types
<1>4. Types'
  <2>1. height' \in 0..MaxHeight /\ saved' \in 0..height' /\ height' <= Tip' /\ crashes' \in Nat /\ crashes' # 0
    BY <1>1, <1>2, <1>3
  <2>2. (height' + 1)..Tip' \subseteq again'
    <3>1. ASSUME NEW h \in (saved + 1)..Tip PROVE h \in again'
      <4>1. h \in (saved + 1)..height \/ h \in (height + 1)..Tip
        BY <1>2
      <4> QED BY <1>1, <1>2, <4>1
    <3> QED BY <1>1, <1>3, <3>1
  <2>3. PlaceInv'
    BY <1>1, <1>2, <2>1, <2>2 DEF PlaceInv
  <2>4. Len(block') \in Nat
    <3>1. saved + 1 \in 1..Len(chain)
      BY <1>2
    <3>2. block' \in Seq(AllMessages)
      BY <1>1, <1>2, <3>1, ElementOfSeq
    <3> QED BY <3>2, LenProperties
  <2>5. handled' \in 0..Len(block')
    BY <1>1, <2>4
  <2> QED BY <1>1, <2>1, <2>3, <2>5 DEF BaseInv, Types
<1>5. ASSUME NEW h \in 1..Len(chain), NEW i \in 1..Len(chain[h])
      PROVE  (Expected(h, i) /\ (Seen(h, i) => Applied(chain[h][i], h)))'
  <2>1. Expected(h, i) /\ (Seen(h, i) => Applied(chain[h][i], h))
    BY DEF BaseInv, BlockInv
  <2>2. Expected(h, i)'
    BY <1>1, <2>1 DEF Expected
  <2>3. Seen(h, i)' => Seen(h, i)
    <3>1. i \in Nat /\ i >= 1
      <4>1. Len(chain[h]) \in Nat
        BY <1>2, ElementOfSeq, LenProperties
      <4> QED BY <4>1
    <3>2. ~(i <= handled')
      BY <1>1, <3>1
    <3> QED BY <1>1, <3>2 DEF Seen
  <2>4. Applied(chain[h][i], h) => Applied(chain[h][i], h)'
    BY <1>1 DEF Applied, SameCommittee
  <2> QED BY <2>1, <2>2, <2>3, <2>4
<1>6. BlockInv'
  BY <1>1, <1>5 DEF BlockInv
<1>7. HookInv'
  BY <1>1 DEF HookInv, NoHook
<1>8. Recent <= Recent' /\ \A s \in Subnets : named[s] <= named'[s]
  BY <1>1, <1>2, <1>3
<1> QED BY <1>1, <1>4, <1>6, <1>7, <1>8, IdleBase

LEMMA BaseStep ==
  ASSUME BaseInv, [Next]_vars
  PROVE  BaseInv' /\ \A s \in Subnets : Grown(s)
<1>1. DOMAIN candidates = Snapshots /\ handled \in 0..Len(block)
  BY DEF BaseInv, Types
<1>2. CASE \E m \in Messages : Mine(m)
  BY <1>2, MineBase
<1>3. CASE Handle
  BY <1>3, HandleBase
<1>4. CASE UpdateAfterCheckpoint
  BY <1>4, CheckpointBase
<1>5. CASE EndBlock
  BY <1>5, EndBase
<1>6. CASE UpdateAfterBlock
  <2>1. DOMAIN candidates' = Snapshots
    BY <1>1, <1>6 DEF UpdateAfterBlock
  <2>2. /\ UNCHANGED <<height, saved, chain, block, states, committees, named, crashes, again, reigns>>
        /\ hook' = NoHook /\ handled' = handled
    BY <1>6 DEF UpdateAfterBlock, placeVars, faultVars
  <2>3. HookInv'
    BY <2>2 DEF HookInv, NoHook
  <2> QED BY <1>1, <2>1, <2>2, <2>3, StillBase
<1>7. CASE Crash
  BY <1>7, CrashBase
<1>8. CASE UNCHANGED vars
  <2>1. /\ UNCHANGED <<height, saved, chain, block, states, committees, named, crashes, again, reigns>>
        /\ hook' = hook /\ handled' = handled /\ candidates' = candidates
    BY <1>8 DEF vars, placeVars, faultVars
  <2>2. HookInv'
    BY <2>1 DEF BaseInv, HookInv, Hooking, Applied, SameCommittee, Tip
  <2> QED BY <1>1, <2>1, <2>2, StillBase
<1> QED BY <1>2, <1>3, <1>4, <1>5, <1>6, <1>7, <1>8 DEF Next

----------------------------------------------------------------------------
(* The committee of the first block.                                       *)

LEMMA UptoMax ==
  ASSUME NEW r \in Seq(Reigns), NEW h, NEW n \in Nat, n >= 1, Upto(r, h, n)
  PROVE  Max({i \in DOMAIN r : r[i].since <= h}) = n
<1>1. Len(r) \in Nat /\ DOMAIN r = 1..Len(r) /\ n <= Len(r)
  BY DEF Upto
<1> DEFINE S == {i \in DOMAIN r : r[i].since <= h}
<1>2. S = 1..n
  BY <1>1 DEF Upto
<1> HIDE DEF S
<1>3. n \in S /\ \A y \in S : n >= y
  BY <1>2
<1>4. ASSUME NEW x \in S, \A y \in S : x >= y PROVE x = n
  BY <1>2, <1>3, <1>4
<1>5. Max(S) = n
  BY <1>3, <1>4 DEF Max
<1> QED BY <1>5 DEF S

LEMMA UptoAppend ==
  ASSUME NEW r \in Seq(Reigns), NEW x \in Reigns, NEW h \in Nat, NEW n \in Nat, Upto(r, h, n),
         x.since > h
  PROVE  Upto(Append(r, x), h, n)
<1> DEFINE q == Append(r, x)
<1>1. Len(r) \in Nat /\ Len(q) = Len(r) + 1 /\ q[Len(r) + 1] = x /\ x.since \in Nat
  BY DEF Reigns
<1>2. \A i \in 1..Len(r) : q[i] = r[i]
  OBVIOUS
<1> HIDE DEF q
<1>3. n \in 0..Len(r) /\ \A i \in 1..Len(r) : r[i].since <= h <=> i <= n
  BY DEF Upto
<1>4. ASSUME NEW i \in 1..Len(q) PROVE q[i].since <= h <=> i <= n
  <2>1. CASE i \in 1..Len(r)
    BY <1>2, <1>3, <2>1
  <2>2. CASE i \notin 1..Len(r)
    <3>1. i = Len(r) + 1
      BY <1>1, <2>2
    <3> QED BY <1>1, <1>3, <3>1
  <2> QED BY <2>1, <2>2
<1>5. n \in 0..Len(q)
  BY <1>1, <1>3
<1> QED BY <1>4, <1>5 DEF Upto, q

\* The subnet was there at the first block of the snapshot.
Started(s, k) == states[s].born # None /\ states[s].born <= StartOf(k)

LEMMA AtStartIs ==
  ASSUME BaseInv, NEW s \in Subnets, NEW k \in Nat, Started(s, k)
  PROVE  /\ AtStart(s, k) \in 1..Len(reigns[s]) /\ AtStart(s, k) \in Nat
         /\ Upto(reigns[s], StartOf(k), AtStart(s, k))
         /\ reigns[s][AtStart(s, k)].stake \in Stakings
<1> DEFINE r == reigns[s]
<1>1. r \in Seq(Reigns) /\ StartOf(k) \in Nat /\ states[s] \in States
  BY Bounds DEF BaseInv, Types
<1>2. r # <<>> /\ r[1].since = states[s].born /\ Ordered(r)
  BY DEF Started, BaseInv, StateInv, Current
<1>3. PICK n : Upto(r, StartOf(k), n)
  BY <1>1, <1>2 DEF Ordered
<1> HIDE DEF r
<1>4. Len(r) \in Nat /\ 1 \in 1..Len(r) /\ n \in 0..Len(r)
  BY <1>1, <1>2, <1>3 DEF Upto
<1>5. r[1].since <= StartOf(k)
  BY <1>2 DEF Started
<1>6. 1 <= n
  BY <1>3, <1>4, <1>5 DEF Upto
<1>7. AtStart(s, k) = n
  <2>1. n \in Nat /\ n >= 1
    BY <1>4, <1>6
  <2> QED BY <1>1, <1>3, <2>1, UptoMax DEF AtStart, r
<1>8. n \in 1..Len(r) /\ n \in Nat
  BY <1>4, <1>6
<1>9. r[n] \in Reigns
  BY <1>1, <1>8
<1> QED BY <1>3, <1>7, <1>8, <1>9 DEF r, Reigns

\* Once a snapshot has started, no step changes the committee of its first block.
LEMMA AtStartStays ==
  ASSUME BaseInv, BaseInv', NEW s \in Subnets, NEW k \in Nat, Started(s, k), StartOf(k) <= Tip, Grown(s)
  PROVE  /\ Started(s, k)' /\ AtStart(s, k)' = AtStart(s, k)
         /\ reigns'[s][AtStart(s, k)] = reigns[s][AtStart(s, k)]
<1> DEFINE n == AtStart(s, k)
           r == reigns[s]
           q == reigns'[s]
<1>1. n \in 1..Len(r) /\ n \in Nat /\ Upto(r, StartOf(k), n)
  BY AtStartIs
<1>2. /\ r \in Seq(Reigns) /\ q \in Seq(Reigns) /\ StartOf(k) \in Nat /\ Tip \in Nat /\ Len(r) \in Nat
  BY Bounds, PlaceIs DEF BaseInv, Types
<1>3. Started(s, k)'
  BY DEF Started, Grown, StartOf
<1>4. q[n] = r[n] /\ Upto(q, StartOf(k), n)
  <2>1. CASE q = r
    BY <1>1, <2>1
  <2>2. CASE q # r
    <3>1. PICK c \in Stakings : q = Append(r, [since |-> Tip + 1, stake |-> c])
      BY <2>2 DEF Grown
    <3> DEFINE x == [since |-> Tip + 1, stake |-> c]
    <3>2. x \in Reigns /\ x.since > StartOf(k)
      BY <1>2 DEF Reigns
    <3> HIDE DEF n, r, q, x
    <3>3. q = Append(r, x)
      BY <3>1 DEF x
    <3>4. Upto(q, StartOf(k), n)
      BY <1>1, <1>2, <3>2, <3>3, UptoAppend
    <3>5. q[n] = r[n]
      BY <1>1, <1>2, <3>2, <3>3
    <3> QED BY <3>4, <3>5
  <2> QED BY <2>1, <2>2
<1> HIDE DEF n, r, q
<1>5. n >= 1
  BY <1>1, <1>2
<1>6. Max({i \in DOMAIN q : q[i].since <= StartOf(k)}) = n
  BY <1>1, <1>2, <1>4, <1>5, UptoMax
<1>7. AtStart(s, k)' = n
  BY <1>6 DEF AtStart, StartOf, q
<1> QED BY <1>3, <1>4, <1>7 DEF n, r, q

----------------------------------------------------------------------------
(* The candidates.                                                         *)

\* The kill checkpoint, message i of block h, is not behind the monitor.
Ahead(h, i) == h > height + 1 \/ (h = height + 1 /\ i > handled)

\* Killed in a block whose kill checkpoint is still to be handled, or hooked.
Pending(s) ==
  \E h \in 1..Len(chain) : \E i \in 1..Len(chain[h]) :
    states[s].killed = h /\ IsKill(chain[h][i], s) /\ Ahead(h, i)

Surviving(s, k) ==
  \/ states[s].killed = None \/ states[s].killed > EndOf(k)
  \/ states[s].killed > StartOf(k) /\ Pending(s)

Below(a, b) == a \in Stakings /\ DOMAIN a \subseteq DOMAIN b /\ \A v \in DOMAIN a : a[v] <= b[v]

\* A candidate was there at the first block, was not killed, and its amounts are
\* no more than its collateral at the first block.
CandidateInv(s, k) ==
  LET info == candidates[k][s]
  IN  /\ s \in Subnets /\ StartOf(k) <= Tip /\ Started(s, k) /\ Surviving(s, k)
      /\ info.number \in Nat
      /\ info.amounts = <<>> => info.number \in DOMAIN committees[s] /\ info.number <= states[s].number
      /\ Below(RewardAmounts(s, info), reigns[s][AtStart(s, k)].stake)

CandidatesInv ==
  \A k \in Snapshots : StartOf(k) \notin again => \A s \in DOMAIN candidates[k] : CandidateInv(s, k)

LEMMA Carried ==
  ASSUME BaseInv, BaseInv', NEW k \in Snapshots, NEW s \in DOMAIN candidates[k], CandidateInv(s, k),
         Grown(s), Tip <= Tip', candidates'[k][s] = candidates[k][s], Surviving(s, k)'
  PROVE  CandidateInv(s, k)' /\ RewardAmounts(s, candidates[k][s])' = RewardAmounts(s, candidates[k][s])
<1> DEFINE info == candidates[k][s]
<1>1. /\ s \in Subnets /\ StartOf(k) <= Tip /\ Started(s, k)
      /\ info.number \in Nat
      /\ info.amounts = <<>> => info.number \in DOMAIN committees[s] /\ info.number <= states[s].number
      /\ Below(RewardAmounts(s, info), reigns[s][AtStart(s, k)].stake)
  BY DEF CandidateInv
<1>2. k \in Nat /\ StartOf(k) \in Nat /\ Tip \in Nat /\ Tip' \in Nat
  <2>1. k \in Nat
    BY SnapshotsNat
  <2>2. Tip \in Nat /\ Tip' \in Nat
    BY PlaceIs, PlaceNext DEF BaseInv, Types
  <2> QED BY <2>1, <2>2, Bounds
<1>3. /\ Started(s, k)' /\ AtStart(s, k)' = AtStart(s, k)
      /\ reigns'[s][AtStart(s, k)] = reigns[s][AtStart(s, k)]
  BY <1>1, <1>2, AtStartStays
<1>4. ASSUME info.amounts = <<>>
      PROVE  /\ info.number \in DOMAIN committees'[s] /\ info.number <= states'[s].number
             /\ committees'[s][info.number] = committees[s][info.number]
             /\ info.number \in DOMAIN committees[s]
  <2>1. info.number \in DOMAIN committees'[s] /\ committees'[s][info.number] = committees[s][info.number]
    BY <1>1, <1>4 DEF Grown, Started
  <2>2. states[s].number \in Nat /\ states'[s].number \in Nat /\ states[s].number <= states'[s].number
    BY <1>1 DEF BaseInv, Types, States, Grown, Started
  <2>3. info.number <= states'[s].number
    BY <1>1, <1>4, <2>2
  <2> QED BY <1>1, <1>4, <2>1, <2>3
<1>5. RewardAmounts(s, info)' = RewardAmounts(s, info)
  BY <1>4 DEF RewardAmounts
<1>6. StartOf(k) <= Tip'
  BY <1>1, <1>2
<1>7. CandidateInv(s, k)'
  <2>1. Below(RewardAmounts(s, info), reigns[s][AtStart(s, k)].stake)'
    BY <1>1, <1>3, <1>5 DEF Below
  <2> QED BY <1>1, <1>3, <1>4, <1>6, <2>1 DEF CandidateInv
<1> QED BY <1>5, <1>7

\* The block that is processed lies in the snapshot, after its first block.
Within(k) == StartOf(k) < height + 1 /\ height + 1 <= EndOf(k)

\* Only the hook of its kill checkpoint ends that a subnet survives.
Dropped(s, k) ==
  UpdateAfterCheckpoint /\ hook.subnet = s /\ hook.kill /\ Within(k)

LEMMA SurvivesStep ==
  ASSUME BaseInv, BaseInv', [Next]_vars, NEW k \in Nat, NEW s \in Subnets, Surviving(s, k), Grown(s),
         StartOf(k) <= Tip
  PROVE  Surviving(s, k)' \/ Dropped(s, k)
<1>1. /\ height \in Nat /\ handled \in Nat /\ Len(block) \in Nat /\ EndOf(k) \in Nat /\ StartOf(k) \in Nat
      /\ states[s] \in States /\ states'[s] \in States /\ block \in Seq(AllMessages) /\ Tip \in Nat
      /\ block = chain[height + 1] /\ height + 1 \in 1..Len(chain) /\ Len(chain) = Tip + 1
  <2>1. PlaceInv /\ handled \in 0..Len(block) /\ states[s] \in States /\ states'[s] \in States
    BY DEF BaseInv, Types
  <2>2. block = chain[height + 1]
    BY <2>1 DEF PlaceInv
  <2> QED BY <2>1, <2>2, Bounds, PlaceIs
<1>2. states'[s].killed = states[s].killed \/ states'[s].killed = Tip + 1
  BY DEF Grown
<1>3. CASE states'[s].killed # states[s].killed
  <2>1. Handle
    BY <1>3 DEF Next, vars, Mine, UpdateAfterCheckpoint, EndBlock, UpdateAfterBlock, Crash
  <2>2. /\ handled < Len(block) /\ height' = height /\ block' = block /\ chain' = chain
        /\ Skips(Now) \/ Boots(Now) \/ Keeps(Now) \/ Hides(Now) \/ Rotates(Now)
    BY <2>1, HandleCases DEF placeVars
  <2>3. IsKill(Now, s) /\ handled' = handled /\ states'[s].killed = height + 1
    <3>1. ASSUME NEW n, Records(Now, n) PROVE IsKill(Now, s) /\ handled' = handled /\ states'[s].killed = height + 1
      <4>1. handled' = handled /\ Only(Now.subnet) /\ Now.kind = "checkpoint"
        BY <3>1 DEF Records
      <4>2. s = Now.subnet
        BY <1>3, <4>1 DEF Only
      <4>3. Now.kill /\ states'[s].killed = height + 1
        BY <1>3, <3>1, <4>2 DEF Records
      <4> QED BY <4>1, <4>2, <4>3 DEF IsKill
    <3>2. CASE Skips(Now)
      BY <1>3, <3>2 DEF Skips
    <3>3. CASE Boots(Now)
      <4>1. s = Now.subnet
        BY <1>3, <3>3 DEF Boots, Only
      <4>2. states[s].killed = None /\ states'[s].killed = None
        BY <3>3, <4>1 DEF Boots, BaseInv, StateInv
      <4> QED BY <1>3, <4>2
    <3> QED BY <2>2, <3>1, <3>2, <3>3 DEF Keeps, Hides, Rotates
  <2>4. PICK h, i : h = height + 1 /\ i = handled + 1
    OBVIOUS
  <2>5. Pending(s)'
    <3>1. /\ h \in 1..Len(chain') /\ i \in 1..Len(chain'[h]) /\ chain'[h][i] = Now
          /\ h = height' + 1 /\ i > handled'
      BY <1>1, <2>2, <2>3, <2>4 DEF Now
    <3>2. states'[s].killed = h /\ IsKill(chain'[h][i], s)
      BY <2>3, <2>4, <3>1
    <3>3. Ahead(h, i)'
      BY <3>1 DEF Ahead
    <3> QED BY <3>1, <3>2, <3>3 DEF Pending, IsKill
  <2>6. states'[s].killed > StartOf(k)
    <3>1. states'[s].killed = Tip + 1
      BY <1>2, <1>3
    <3> QED BY <1>1, <3>1
  <2> QED BY <2>5, <2>6 DEF Surviving, StartOf
<1>4. CASE states'[s].killed = states[s].killed
  <2>1. CASE states[s].killed = None \/ states[s].killed > EndOf(k)
    BY <1>4, <2>1 DEF Surviving, EndOf, StartOf
  <2>2. CASE ~(states[s].killed = None \/ states[s].killed > EndOf(k))
    <3>0. states[s].killed > StartOf(k) /\ Pending(s)
      BY <2>2 DEF Surviving
    <3>1. PICK h \in 1..Len(chain) : \E i \in 1..Len(chain[h]) :
            states[s].killed = h /\ IsKill(chain[h][i], s) /\ Ahead(h, i)
      BY <3>0 DEF Pending
    <3>2. PICK i \in 1..Len(chain[h]) : states[s].killed = h /\ IsKill(chain[h][i], s) /\ Ahead(h, i)
      BY <3>1
    <3>12. h \in Nat /\ i \in Nat /\ h > StartOf(k) /\ h <= EndOf(k) /\ h >= height + 1
      BY <1>1, <2>2, <3>0, <3>2 DEF Ahead
    <3>3. ASSUME h \in 1..Len(chain'), i \in 1..Len(chain'[h]), chain'[h][i] = chain[h][i], Ahead(h, i)'
          PROVE  Surviving(s, k)'
      <4>1. Pending(s)'
        BY <1>4, <3>2, <3>3 DEF Pending, IsKill
      <4>2. states'[s].killed > StartOf(k)
        BY <1>4, <3>0
      <4> QED BY <4>1, <4>2 DEF Surviving, StartOf
    <3>13. ASSUME height' = height, chain' = chain, handled' \in Nat, h = height + 1 => i > handled'
           PROVE  Surviving(s, k)'
      <4>1. Ahead(h, i)'
        BY <3>2, <3>13 DEF Ahead
      <4> QED BY <3>3, <3>13, <4>1
    <3>4. CASE \E m \in Messages : Mine(m)
      <4>1. PICK m \in Messages : Mine(m)
        BY <3>4
      <4>2. /\ height' = height /\ handled' = handled /\ block' = Append(block, m)
            /\ handled = Len(block) /\ height + 1 = Len(chain)
        BY <4>1 DEF Mine
      <4>3. h = height + 1 /\ i > handled
        BY <1>1, <3>2, <3>12, <4>2 DEF Ahead
      <4>4. FALSE
        BY <1>1, <3>2, <4>2, <4>3
      <4> QED BY <4>4
    <3>5. CASE Handle
      <4>1. /\ height' = height /\ block' = block /\ chain' = chain
            /\ Skips(Now) \/ Boots(Now) \/ Keeps(Now) \/ Hides(Now) \/ Rotates(Now)
        BY <3>5, HandleCases DEF placeVars
      <4>2. CASE handled' = handled
        BY <1>1, <3>2, <3>13, <4>1, <4>2 DEF Ahead
      <4>3. CASE handled' # handled
        <5>1. handled' = handled + 1
          BY <4>1, <4>3 DEF Skips, Boots, Keeps, Hides, Rotates, Records
        <5>2. ~(h = height + 1 /\ i = handled + 1)
          BY <1>1, <3>2, <3>5, <5>1, NotSkipped DEF Now
        <5>3. h = height + 1 => i > handled'
          BY <1>1, <3>2, <3>12, <5>1, <5>2 DEF Ahead
        <5> QED BY <1>1, <3>13, <4>1, <5>1, <5>3
      <4> QED BY <4>2, <4>3
    <3>6. CASE UpdateAfterCheckpoint
      <4>1. height' = height /\ chain' = chain /\ handled' = handled + 1 /\ hook.kind = "checkpoint"
        BY <3>6 DEF UpdateAfterCheckpoint, placeVars
      <4>2. CASE ~(h = height + 1 /\ i = handled + 1)
        <5>1. h = height + 1 => i > handled'
          BY <1>1, <3>2, <3>12, <4>1, <4>2 DEF Ahead
        <5> QED BY <1>1, <3>13, <4>1, <5>1
      <4>3. CASE h = height + 1 /\ i = handled + 1
        <5>1. hook.subnet = s /\ hook.kill
          BY <1>1, <3>2, <4>1, <4>3 DEF BaseInv, HookInv, Hooking, IsKill
        <5>2. Within(k)
          BY <3>12, <4>3 DEF Within
        <5> QED BY <3>6, <5>1, <5>2 DEF Dropped
      <4> QED BY <4>2, <4>3
    <3>7. CASE EndBlock
      <4>1. height' = height + 1 /\ handled' = 0 /\ handled = Len(block)
        BY <3>7 DEF EndBlock
      <4>2. h > height + 1
        BY <1>1, <3>2, <3>12, <4>1 DEF Ahead
      <4>3. h \in 1..Len(chain') /\ chain'[h] = chain[h]
        BY <3>7, <4>2, EndChain
      <4>4. Ahead(h, i)'
        <5>1. h > height + 1 + 1 \/ (h = height + 1 + 1 /\ i > 0)
          BY <1>1, <3>12, <4>2
        <5> QED BY <4>1, <5>1 DEF Ahead
      <4> QED BY <3>3, <4>3, <4>4
    <3>8. CASE UpdateAfterBlock \/ UNCHANGED vars
      <4>1. height' = height /\ chain' = chain /\ handled' = handled
        BY <3>8 DEF UpdateAfterBlock, vars, placeVars
      <4> QED BY <1>1, <3>2, <3>13, <4>1 DEF Ahead
    <3>9. CASE Crash
      <4>1. height' = saved /\ chain' = chain /\ handled' = 0
        BY <3>9 DEF Crash
      <4>2. saved \in Nat /\ saved <= height
        BY <1>1 DEF BaseInv, Types, PlaceInv
      <4>3. h > saved + 1 \/ (h = saved + 1 /\ i > 0)
        BY <1>1, <3>12, <4>2
      <4>4. Ahead(h, i)'
        BY <4>1, <4>3 DEF Ahead
      <4> QED BY <3>3, <4>1, <4>4
    <3> QED BY <3>4, <3>5, <3>6, <3>7, <3>8, <3>9 DEF Next
  <2> QED BY <2>1, <2>2
<1> QED BY <1>3, <1>4

LEMMA TipGrows ==
  ASSUME BaseInv, [Next]_vars
  PROVE  /\ Tip \in Nat /\ Tip' \in {Tip, Tip + 1} /\ Tip <= Tip' /\ again \subseteq again'
         /\ Tip' # Tip => EndBlock /\ height = Tip
<1>1. Tip \in Nat
  BY PlaceIs DEF BaseInv, Types
<1>2. again \subseteq again'
  BY DEF Next, vars, Mine, Handle, UpdateAfterCheckpoint, EndBlock, UpdateAfterBlock, Crash, faultVars
<1>3. CASE EndBlock
  BY <1>1, <1>2, <1>3, EndChain
<1>4. CASE ~EndBlock
  <2>1. Len(chain') = Len(chain)
    <3>1. CASE \E m \in Messages : Mine(m)
      <4>1. PICK m \in Messages : Mine(m)
        BY <3>1
      <4>2. chain' = [chain EXCEPT ![height + 1] = block'] /\ chain \in Seq(Seq(AllMessages))
        BY <4>1 DEF Mine, BaseInv, Types, PlaceInv
      <4>3. DOMAIN chain' = DOMAIN chain
        BY <4>2
      <4>4. DOMAIN chain = 1..Len(chain) /\ Len(chain) \in Nat
        BY <4>2
      <4>5. PlaceInv'
        BY BaseStep DEF BaseInv, Types
      <4>6. chain' \in Seq(Seq(AllMessages))
        BY <4>5 DEF PlaceInv
      <4>7. DOMAIN chain' = 1..Len(chain') /\ Len(chain') \in Nat
        BY <4>6
      <4> QED BY <4>3, <4>4, <4>7, SameEnd
    <3>2. CASE ~(\E m \in Messages : Mine(m))
      BY <1>4, <3>2 DEF Next, vars, placeVars, Handle, UpdateAfterCheckpoint, UpdateAfterBlock, Crash
    <3> QED BY <3>1, <3>2
  <2>2. Tip' = Tip
    BY <2>1 DEF Tip
  <2> QED BY <1>1, <1>2, <2>2
<1> QED BY <1>3, <1>4

LEMMA AfterCheckpoint ==
  ASSUME BaseInv, UpdateAfterCheckpoint, NEW k \in Snapshots
  PROVE  /\ ~Within(k) => candidates'[k] = candidates[k]
         /\ Within(k) => candidates'[k] = UpdatedCandidates(k, hook)
<1> DEFINE h == height + 1
           q == Snapshot(h)
<1>1. /\ k \in Nat /\ h \in Nat /\ DOMAIN candidates = Snapshots /\ Activation \in Nat
  BY SnapshotsNat, RewardConstants, PlaceIs DEF BaseInv, Types
<1>2. candidates' = IF h < Activation \/ h = StartOf(q) THEN candidates
                    ELSE [candidates EXCEPT ![q] = UpdatedCandidates(q, hook)]
  BY DEF UpdateAfterCheckpoint
<1>3. StartOf(k) \in Nat /\ EndOf(k) \in Nat
  BY <1>1, Bounds
<1> HIDE DEF h, q
<1>4. CASE Within(k)
  <2>1. StartOf(k) < h /\ StartOf(k) <= h /\ h <= EndOf(k)
    BY <1>1, <1>3, <1>4 DEF Within, h
  <2>2. h >= Activation /\ q = k
    BY <1>1, <2>1, SnapshotOf DEF q
  <2>3. ~(h < Activation) /\ h # StartOf(q)
    BY <1>1, <1>3, <2>1, <2>2
  <2>4. candidates'[k] = UpdatedCandidates(k, hook)
    BY <1>1, <1>2, <2>2, <2>3
  <2> QED BY <1>4, <2>4
<1>5. CASE ~Within(k)
  <2>1. candidates'[k] = candidates[k]
    <3>1. CASE h < Activation \/ h = StartOf(q)
      BY <1>2, <3>1
    <3>2. CASE ~(h < Activation \/ h = StartOf(q))
      <4>1. h >= Activation
        BY <1>1, <3>2
      <4>2. StartOf(q) <= h /\ h <= EndOf(q)
        BY <1>1, <4>1, InSnapshot DEF q
      <4>3. q # k
        BY <1>1, <1>3, <1>5, <3>2, <4>2 DEF Within, h
      <4> QED BY <1>1, <1>2, <3>2, <4>3
    <3> QED BY <3>1, <3>2
  <2> QED BY <1>5, <2>1
<1> QED BY <1>4, <1>5

LEMMA AfterBlock ==
  ASSUME BaseInv, UpdateAfterBlock, NEW k \in Snapshots
  PROVE  /\ height = StartOf(k) => candidates'[k] = Noted(candidates[k], StartOf(k), EndOf(k))
         /\ height # StartOf(k) => candidates'[k] = candidates[k]
         /\ height = EndOf(k) => results' = With(results, k, Summed(candidates'[k]))
<1> DEFINE q == Snapshot(height)
           cs == IF height = StartOf(q) THEN Noted(candidates[q], StartOf(q), EndOf(q)) ELSE candidates[q]
<1>1. /\ k \in Nat /\ height \in Nat /\ DOMAIN candidates = Snapshots /\ Activation \in Nat
  BY SnapshotsNat, RewardConstants, PlaceIs DEF BaseInv, Types
<1>2. IF height < Activation THEN UNCHANGED <<candidates, results>>
      ELSE /\ candidates' = [candidates EXCEPT ![q] = cs]
           /\ results' = IF height = EndOf(q) THEN With(results, q, Summed(cs)) ELSE results
  BY DEF UpdateAfterBlock
<1>3. StartOf(k) \in Nat /\ EndOf(k) \in Nat /\ StartOf(k) <= EndOf(k)
  BY <1>1, Bounds
<1>4. ASSUME height = StartOf(k) \/ height = EndOf(k)
      PROVE  ~(height < Activation) /\ q = k
  <2>1. StartOf(k) <= height /\ height <= EndOf(k)
    BY <1>3, <1>4
  <2>2. height >= Activation /\ Snapshot(height) = k
    BY <1>1, <2>1, SnapshotOf
  <2> QED BY <1>1, <2>2
<1> HIDE DEF q
<1>5. ASSUME height = StartOf(k) PROVE candidates'[k] = Noted(candidates[k], StartOf(k), EndOf(k))
  BY <1>1, <1>2, <1>4, <1>5
<1>6. ASSUME height # StartOf(k) PROVE candidates'[k] = candidates[k]
  BY <1>1, <1>2, <1>6
<1>7. ASSUME height = EndOf(k) PROVE results' = With(results, k, Summed(candidates'[k]))
  <2>1. /\ candidates' = [candidates EXCEPT ![k] = cs] /\ results' = With(results, k, Summed(cs))
    BY <1>2, <1>4, <1>7
  <2>2. candidates'[k] = cs
    BY <1>1, <2>1
  <2> QED BY <2>1, <2>2
<1> QED BY <1>5, <1>6, <1>7

LEMMA LowerIs ==
  ASSUME NEW a \in Stakings, NEW b \in Stakings
  PROVE  /\ Lower(a, b) \in Stakings /\ DOMAIN Lower(a, b) = DOMAIN a \cap DOMAIN b
         /\ \A v \in DOMAIN Lower(a, b) :
              /\ a[v] \in Nat /\ b[v] \in Nat /\ Lower(a, b)[v] \in {a[v], b[v]}
              /\ Lower(a, b)[v] <= a[v] /\ Lower(a, b)[v] <= b[v]
<1>1. ASSUME NEW x \in Nat, NEW y \in Nat
      PROVE  Min({x, y}) \in {x, y} /\ Min({x, y}) <= x /\ Min({x, y}) <= y
  <2>1. \E z \in {x, y} : \A w \in {x, y} : z <= w
    BY x <= y \/ y <= x
  <2> QED BY <2>1 DEF Min
<1>2. DOMAIN Lower(a, b) = DOMAIN a \cap DOMAIN b
  BY DEF Lower
<1>3. ASSUME NEW v \in DOMAIN a \cap DOMAIN b
      PROVE  /\ a[v] \in Nat /\ b[v] \in Nat /\ v \in Validators
             /\ Lower(a, b)[v] = Min({a[v], b[v]})
  BY StakingIs DEF Lower
<1>4. \A v \in DOMAIN a \cap DOMAIN b :
        /\ a[v] \in Nat /\ b[v] \in Nat /\ Lower(a, b)[v] \in {a[v], b[v]}
        /\ Lower(a, b)[v] <= a[v] /\ Lower(a, b)[v] <= b[v] /\ Lower(a, b)[v] \in Nat
  BY <1>1, <1>3
<1>5. Lower(a, b) \in [DOMAIN a \cap DOMAIN b -> Nat]
  BY <1>4 DEF Lower
<1>6. DOMAIN a \cap DOMAIN b \in SUBSET Validators
  BY <1>3
<1>7. Lower(a, b) \in Stakings
  BY <1>5, <1>6 DEF Stakings
<1> QED BY <1>2, <1>4, <1>7

\* A candidate whose amounts are lowered by the hook of a rotation.
Lowered(s, k) ==
  /\ hook.subnet = s /\ hook.signed # hook.next /\ s \in DOMAIN candidates[k] /\ Within(k)
  /\ hook.next # candidates[k][s].number
  /\ candidates'[k][s] =
       [number |-> hook.next,
        amounts |-> <<Lower(RewardAmounts(s, candidates[k][s]), Collateral(committees[s][hook.next]))>>]

LEMMA CheckpointCandidates ==
  ASSUME BaseInv, UpdateAfterCheckpoint, NEW k \in Snapshots, NEW s \in DOMAIN candidates'[k]
  PROVE  /\ s \in DOMAIN candidates[k] /\ ~Dropped(s, k)
         /\ candidates'[k][s] = candidates[k][s] \/ Lowered(s, k)
<1> DEFINE cs == candidates[k]
<1>1. k \in Nat /\ StartOf(k) \in Nat /\ EndOf(k) \in Nat /\ height \in Nat
  <2>1. k \in Nat
    BY SnapshotsNat
  <2> QED BY <2>1, Bounds, PlaceIs DEF BaseInv, Types
<1>2. CASE ~Within(k)
  <2>1. candidates'[k] = cs
    BY <1>2, AfterCheckpoint
  <2>3. ~Dropped(s, k)
    BY <1>2 DEF Dropped
  <2> QED BY <2>1, <2>3
<1>3. CASE Within(k)
  <2>1. candidates'[k] = UpdatedCandidates(k, hook)
    BY <1>3, AfterCheckpoint
  <2>2. CASE hook.kill
    <3>1. candidates'[k] = [t \in DOMAIN cs \ {hook.subnet} |-> cs[t]]
      BY <2>1, <2>2 DEF UpdatedCandidates, DropsKilled
    <3>2. s \in DOMAIN cs /\ s # hook.subnet /\ candidates'[k][s] = cs[s]
      BY <3>1
    <3> QED BY <3>2 DEF Dropped
  <2>3. CASE ~hook.kill
    <3> DEFINE new == [number |-> hook.next,
                       amounts |-> <<Lower(RewardAmounts(hook.subnet, cs[hook.subnet]),
                                           Collateral(committees[hook.subnet][hook.next]))>>]
    <3>1. candidates'[k] = IF hook.signed = hook.next \/ hook.subnet \notin DOMAIN cs THEN cs
                           ELSE IF hook.next = cs[hook.subnet].number THEN cs
                           ELSE [cs EXCEPT ![hook.subnet] = new]
      BY <2>1, <2>3 DEF UpdatedCandidates, DropsKilled, NeverHappens
    <3>2. CASE candidates'[k] = cs
      BY <2>3, <3>2 DEF Dropped
    <3>3. CASE candidates'[k] # cs
      <4>1. /\ candidates'[k] = [cs EXCEPT ![hook.subnet] = new] /\ hook.signed # hook.next
            /\ hook.subnet \in DOMAIN cs /\ hook.next # cs[hook.subnet].number
        BY <3>1, <3>3
      <4> HIDE DEF new
      <4>2. s \in DOMAIN cs /\ (s # hook.subnet => candidates'[k][s] = cs[s])
            /\ (s = hook.subnet => candidates'[k][s] = new)
        BY <4>1
      <4>3. s = hook.subnet => Lowered(s, k)
        BY <1>3, <4>1, <4>2 DEF Lowered, new
      <4> QED BY <2>3, <4>2, <4>3 DEF Dropped
    <3> QED BY <3>2, <3>3
  <2> QED BY <2>2, <2>3
<1> QED BY <1>2, <1>3

LEMMA LoweredCandidate ==
  ASSUME BaseInv, UpdateAfterCheckpoint, NEW k \in Snapshots, NEW s, Lowered(s, k), CandidateInv(s, k),
         Surviving(s, k)'
  PROVE  /\ CandidateInv(s, k)'
         /\ RewardAmounts(s, candidates[k][s])'
              = Lower(RewardAmounts(s, candidates[k][s]), Collateral(committees[s][hook.next]))
         /\ Collateral(committees[s][hook.next]) \in Stakings
<1> DEFINE a == RewardAmounts(s, candidates[k][s])
           b == Collateral(committees[s][hook.next])
           base == reigns[s][AtStart(s, k)].stake
           info == candidates'[k][s]
<1>1. UNCHANGED <<height, chain, block, states, committees, results, named, crashes, reigns>> /\ hook.kind = "checkpoint"
  BY DEF UpdateAfterCheckpoint, placeVars, faultVars
<1>2. s \in Subnets /\ hook.next \in DOMAIN committees[s] /\ hook.next \in Nat
  BY <1>1 DEF BaseInv, HookInv, Hooking, Lowered
<1>3. committees[s][hook.next] \in Committees
  BY <1>2 DEF BaseInv, StateInv
<1>4. b \in Stakings
  BY <1>3, CollateralIs
<1>5. Below(a, base) /\ k \in Nat /\ Started(s, k)
  BY SnapshotsNat DEF CandidateInv
<1>6. base \in Stakings
  BY <1>2, <1>5, AtStartIs
<1>7. info = [number |-> hook.next, amounts |-> <<Lower(a, b)>>]
  BY DEF Lowered
<1>8. info.number = hook.next /\ info.amounts = <<Lower(a, b)>> /\ info.amounts # <<>>
      /\ info.amounts[1] = Lower(a, b)
  BY <1>7
<1>9. RewardAmounts(s, candidates[k][s])' = Lower(a, b)
  BY <1>8 DEF RewardAmounts
<1>10. Below(Lower(a, b), base)
  <2> HIDE DEF a, b, base
  <2>1. a \in Stakings /\ DOMAIN a \subseteq DOMAIN base /\ \A v \in DOMAIN a : a[v] <= base[v]
    BY <1>5 DEF Below
  <2>2. /\ Lower(a, b) \in Stakings /\ DOMAIN Lower(a, b) = DOMAIN a \cap DOMAIN b
        /\ \A v \in DOMAIN Lower(a, b) : a[v] \in Nat /\ Lower(a, b)[v] <= a[v]
    BY <1>4, <2>1, LowerIs
  <2>3. ASSUME NEW v \in DOMAIN Lower(a, b) PROVE Lower(a, b)[v] <= base[v]
    <3>1. v \in DOMAIN a /\ a[v] \in Nat /\ Lower(a, b)[v] <= a[v] /\ a[v] <= base[v]
      BY <2>1, <2>2
    <3>2. base[v] \in Nat /\ Lower(a, b)[v] \in Nat
      BY <1>6, <2>1, <2>2, <3>1, StakingIs
    <3> QED BY <3>1, <3>2
  <2> QED BY <2>1, <2>2, <2>3 DEF Below
<1>11. /\ StartOf(k) <= Tip' /\ Started(s, k)' /\ reigns'[s][AtStart(s, k)'].stake = base
  <2>1. StartOf(k) <= Tip
    BY DEF CandidateInv
  <2> QED BY <1>1, <1>5, <2>1 DEF Started, AtStart, StartOf, Tip
<1>12. Below(RewardAmounts(s, candidates[k][s]), reigns[s][AtStart(s, k)].stake)'
  BY <1>9, <1>10, <1>11 DEF Below
<1>13. CandidateInv(s, k)'
  BY <1>2, <1>8, <1>11, <1>12 DEF CandidateInv
<1> QED BY <1>4, <1>9, <1>13

\* A subnet is noted with its committee of the first block.
LEMMA NotedCandidate ==
  ASSUME BaseInv, UpdateAfterBlock, NEW k \in Snapshots, height = StartOf(k), height \notin again,
         NEW s \in ActiveSubnets(StartOf(k), EndOf(k))
  PROVE  /\ CandidateInv(s, k)'
         /\ candidates'[k][s].number = states[s].number
         /\ RewardAmounts(s, candidates[k][s])' = reigns[s][AtStart(s, k)].stake
         /\ AtStart(s, k) = Len(reigns[s])
<1> DEFINE info == candidates'[k][s]
           r == reigns[s]
<1>1. UNCHANGED <<height, chain, block, handled, states, committees, named, crashes, reigns>> /\ hook.kind = "block"
  BY DEF UpdateAfterBlock, placeVars, faultVars
<1>2. candidates'[k] = Noted(candidates[k], StartOf(k), EndOf(k)) /\ k \in Nat
  BY AfterBlock, SnapshotsNat
<1>3. /\ s \in Subnets /\ states[s].born # None /\ states[s].born <= StartOf(k)
      /\ states[s].killed = None \/ states[s].killed > EndOf(k)
      /\ info = [number |-> states[s].number, amounts |-> <<>>]
  BY <1>2 DEF Noted, ActiveSubnets
<1>4. Current(s) /\ StateInv(s) /\ states[s].number \in Nat /\ r \in Seq(Reigns)
  BY <1>3 DEF BaseInv, StateInv, Types, States
<1>5. Recent = height /\ height = Tip
  <2>1. height = Tip /\ block = <<>>
    BY <1>1 DEF BaseInv, HookInv
  <2>2. Newest = <<>>
    BY <2>1, PlaceIs DEF BaseInv, Types
  <2> QED BY <2>1, <2>2 DEF Recent
<1>6. Started(s, k)
  BY <1>3 DEF Started
<1>7. AtStart(s, k) \in 1..Len(r) /\ Upto(r, StartOf(k), AtStart(s, k)) /\ r[AtStart(s, k)].stake \in Stakings
  BY <1>2, <1>3, <1>6, AtStartIs
<1>8. AtStart(s, k) = Len(r)
  <2>1. Len(r) \in 1..Len(r) /\ r[Len(r)].since <= StartOf(k)
    BY <1>4, <1>5, <1>7 DEF StateInv
  <2>2. Len(r) <= AtStart(s, k)
    BY <1>7, <2>1 DEF Upto
  <2> HIDE DEF r
  <2> QED BY <1>4, <1>7, <2>2
<1>9. RewardAmounts(s, candidates[k][s])' = Collateral(committees[s][states[s].number])
  BY <1>1, <1>3 DEF RewardAmounts
<1>10. RewardAmounts(s, candidates[k][s])' = r[AtStart(s, k)].stake
  BY <1>4, <1>8, <1>9 DEF Current
<1>11. info.number = states[s].number /\ info.number <= states[s].number
       /\ info.number \in DOMAIN committees[s] /\ info.number \in Nat
  BY <1>3, <1>4 DEF Current
<1>12. AtStart(s, k)' = AtStart(s, k) /\ Started(s, k)' /\ StartOf(k) <= Tip'
  <2>1. StartOf(k) \in Nat
    BY <1>2, Bounds
  <2>2. Tip' = Tip
    BY <1>1 DEF Tip
  <2> QED BY <1>1, <1>5, <1>6, <2>1, <2>2 DEF AtStart, Started, StartOf
<1>13. Below(RewardAmounts(s, candidates[k][s]), reigns[s][AtStart(s, k)].stake)'
  <2> DEFINE base == r[AtStart(s, k)].stake
  <2>1. base \in Stakings
    BY <1>7
  <2>2. reigns'[s][AtStart(s, k)'].stake = base
    BY <1>1, <1>12
  <2> HIDE DEF base
  <2>3. \A v \in DOMAIN base : base[v] <= base[v]
    BY <2>1, StakingIs
  <2> QED BY <1>10, <2>1, <2>2, <2>3 DEF Below, base
<1>14. Surviving(s, k)'
  BY <1>1, <1>3 DEF Surviving, EndOf, StartOf
<1>15. CandidateInv(s, k)'
  BY <1>1, <1>3, <1>11, <1>12, <1>13, <1>14 DEF CandidateInv
<1> QED BY <1>8, <1>10, <1>11, <1>15

LEMMA CandidatesStep ==
  ASSUME BaseInv, CandidatesInv, [Next]_vars
  PROVE  CandidatesInv'
<1> SUFFICES ASSUME NEW k \in Snapshots, StartOf(k) \notin again', NEW s \in DOMAIN candidates'[k]
             PROVE  CandidateInv(s, k)'
  BY DEF CandidatesInv, Snapshots, Snapshot, StartOf
<1>1. BaseInv' /\ \A t \in Subnets : Grown(t)
  BY BaseStep
<1>2. Tip <= Tip' /\ k \in Nat /\ StartOf(k) \notin again
  BY TipGrows, SnapshotsNat
<1>3. ASSUME s \in DOMAIN candidates[k], ~Dropped(s, k) PROVE CandidateInv(s, k) /\ s \in Subnets /\ Surviving(s, k)'
  <2>1. CandidateInv(s, k) /\ s \in Subnets /\ Surviving(s, k) /\ StartOf(k) <= Tip
    BY <1>2, <1>3 DEF CandidatesInv, CandidateInv
  <2> QED BY <1>1, <1>2, <1>3, <2>1, SurvivesStep
<1>4. ASSUME s \in DOMAIN candidates[k], ~Dropped(s, k), candidates'[k][s] = candidates[k][s]
      PROVE  CandidateInv(s, k)'
  <2>1. CandidateInv(s, k) /\ s \in Subnets /\ Surviving(s, k)' /\ Grown(s)
    BY <1>1, <1>3, <1>4
  <2> QED BY <1>1, <1>2, <1>4, <2>1, Carried
<1>5. CASE UpdateAfterCheckpoint
  <2>1. /\ s \in DOMAIN candidates[k] /\ ~Dropped(s, k)
        /\ candidates'[k][s] = candidates[k][s] \/ Lowered(s, k)
    BY <1>5, CheckpointCandidates
  <2>2. CASE Lowered(s, k)
    BY <1>3, <1>5, <2>1, <2>2, LoweredCandidate
  <2> QED BY <1>4, <2>1, <2>2
<1>6. CASE UpdateAfterBlock
  <2>3. ~Dropped(s, k)
    BY <1>6 DEF Dropped, UpdateAfterBlock, UpdateAfterCheckpoint
  <2>1. CASE height = StartOf(k)
    <3>1. candidates'[k] = Noted(candidates[k], StartOf(k), EndOf(k)) /\ height \notin again
      BY <1>2, <1>6, <2>1, AfterBlock
    <3>2. CASE s \in ActiveSubnets(StartOf(k), EndOf(k))
      BY <1>6, <2>1, <3>1, <3>2, NotedCandidate
    <3>3. CASE s \notin ActiveSubnets(StartOf(k), EndOf(k))
      <4>1. s \in DOMAIN candidates[k] /\ candidates'[k][s] = candidates[k][s]
        BY <3>1, <3>3 DEF Noted
      <4> QED BY <1>4, <2>3, <4>1
    <3> QED BY <3>2, <3>3
  <2>2. CASE height # StartOf(k)
    <3>1. candidates'[k] = candidates[k]
      BY <1>6, <2>2, AfterBlock
    <3> QED BY <1>4, <2>3, <3>1
  <2> QED BY <2>1, <2>2
<1>7. CASE ~UpdateAfterCheckpoint /\ ~UpdateAfterBlock
  <2>1. candidates' = candidates
    BY <1>7 DEF Next, vars, Mine, Handle, EndBlock, Crash
  <2>2. ~Dropped(s, k)
    BY <1>7 DEF Dropped
  <2> QED BY <1>4, <2>1, <2>2
<1> QED BY <1>5, <1>6, <1>7

LEMMA CandidatesInit == Init => CandidatesInv
BY DEF Init, CandidatesInv

----------------------------------------------------------------------------
(* The results.                                                            *)

\* What Summed adds up, for the amounts a of the subnets in D.
Total(D, a) ==
  [v \in UNION {DOMAIN a[s] : s \in D} |->
     LET paid == {s \in D : v \in DOMAIN a[s]}
     IN  SumFunctionOnSet([s \in paid |-> a[s][v]], paid)]

LEMMA TotalIs ==
  ASSUME NEW D, IsFiniteSet(D), NEW a, \A s \in D : a[s] \in Stakings
  PROVE  /\ Total(D, a) \in Stakings
         /\ \A v : StakeOf(Total(D, a), v) = SumFunctionOnSet([s \in D |-> StakeOf(a[s], v)], D)
<1> DEFINE all == UNION {DOMAIN a[s] : s \in D}
           paid(v) == {s \in D : v \in DOMAIN a[s]}
           part(v) == [s \in paid(v) |-> a[s][v]]
           full(v) == [s \in D |-> StakeOf(a[s], v)]
<1>1. ASSUME NEW v
      PROVE  /\ IsFiniteSet(paid(v)) /\ Ints(full(v), D) /\ paid(v) \subseteq D /\ Nats(part(v), paid(v))
             /\ SumFunctionOnSet(full(v), D) = SumFunctionOnSet(part(v), paid(v))
             /\ SumFunctionOnSet(part(v), paid(v)) \in Nat
  <2>1. IsFiniteSet(paid(v)) /\ paid(v) \subseteq D
    BY FS_Subset
  <2>2. ASSUME NEW s \in D PROVE full(v)[s] \in Nat /\ (s \notin paid(v) => full(v)[s] = 0)
                                 /\ (s \in paid(v) => full(v)[s] = part(v)[s])
    <3>1. full(v)[s] = StakeOf(a[s], v) /\ a[s] \in Stakings
      OBVIOUS
    <3>2. CASE v \in DOMAIN a[s]
      <4>1. s \in paid(v) /\ a[s][v] \in Nat
        BY <3>1, <3>2, StakingIs
      <4> QED BY <3>1, <3>2, <4>1 DEF StakeOf
    <3>3. CASE v \notin DOMAIN a[s]
      BY <3>1, <3>3 DEF StakeOf
    <3> QED BY <3>2, <3>3
  <2> HIDE DEF full, part, paid
  <2>3. \A s \in D : full(v)[s] \in Int
    BY <2>2
  <2>4. \A s \in paid(v) : full(v)[s] \in Int /\ part(v)[s] = full(v)[s] /\ part(v)[s] \in Nat
    BY <2>1, <2>2
  <2>5. \A s \in D \ paid(v) : full(v)[s] = 0
    BY <2>2
  <2>6. Ints(full(v), D) /\ Ints(full(v), paid(v)) /\ Nats(part(v), paid(v))
    BY <2>3, <2>4 DEF Ints, Nats
  <2>7. SumFunctionOnSet(full(v), D) = SumFunctionOnSet(full(v), paid(v))
    BY <2>1, <2>5, <2>6, SumSupport
  <2>8. \A s \in paid(v) : part(v)[s] = full(v)[s]
    BY <2>4
  <2>9. SumFunctionOnSet(part(v), paid(v)) = SumFunctionOnSet(full(v), paid(v))
    BY <2>1, <2>6, <2>8, SumSame
  <2>10. SumFunctionOnSet(part(v), paid(v)) \in Nat
    BY <2>1, <2>6, SumNat
  <2> QED BY <2>1, <2>6, <2>7, <2>9, <2>10
<1>2. Total(D, a) = [v \in all |-> SumFunctionOnSet(part(v), paid(v))]
  BY DEF Total
<1>3. all \in SUBSET Validators
  BY StakingIs
<1>4. ASSUME NEW v, v \notin all PROVE SumFunctionOnSet(full(v), D) = 0
  <2>1. \A s \in D : full(v)[s] = 0
    BY <1>4 DEF StakeOf
  <2> HIDE DEF full
  <2> QED BY <2>1, SumZero
<1> HIDE DEF all, part, paid
<1>5. Total(D, a) \in [all -> Nat]
  BY <1>1, <1>2
<1>6. Total(D, a) \in Stakings
  BY <1>3, <1>5 DEF Stakings
<1>7. ASSUME NEW v PROVE StakeOf(Total(D, a), v) = SumFunctionOnSet(full(v), D)
  <2> HIDE DEF full
  <2>1. CASE v \in all
    BY <1>1, <1>2, <2>1 DEF StakeOf
  <2>2. CASE v \notin all
    BY <1>2, <1>4, <2>2 DEF StakeOf
  <2> QED BY <2>1, <2>2
<1> QED BY <1>6, <1>7

\* Every result is of a snapshot that is over.
ResultsInv == \A k \in DOMAIN results : k \in Snapshots /\ EndOf(k) <= Tip

LEMMA ResultCases ==
  ASSUME BaseInv, [Next]_vars, NEW k \in DOMAIN results'
  PROVE  \/ k \in DOMAIN results /\ results'[k] = results[k]
         \/ /\ UpdateAfterBlock /\ k \in Snapshots /\ height = EndOf(k)
            /\ results'[k] = Summed(candidates'[k])
<1>1. CASE ~UpdateAfterBlock
  <2>1. results' = results
    BY <1>1 DEF Next, vars, Mine, Handle, UpdateAfterCheckpoint, EndBlock, Crash
  <2> QED BY <2>1
<1>2. CASE UpdateAfterBlock
  <2> DEFINE q == Snapshot(height)
  <2>1. height \in Nat /\ height <= MaxHeight /\ Activation \in Nat
    BY RewardConstants DEF BaseInv, Types, PlaceInv
  <2>2. results' = results \/ (~(height < Activation) /\ height = EndOf(q))
    BY <1>2 DEF UpdateAfterBlock
  <2>3. CASE results' = results
    BY <2>3
  <2>4. CASE ~(height < Activation) /\ height = EndOf(q)
    <3>1. q \in Snapshots
      BY <2>1, <2>4, SnapshotsNat
    <3> HIDE DEF q
    <3>2. results' = With(results, q, Summed(candidates'[q]))
      BY <1>2, <2>4, <3>1, AfterBlock
    <3>3. k = q => results'[k] = Summed(candidates'[k])
      BY <3>2 DEF With
    <3>4. k # q => k \in DOMAIN results /\ results'[k] = results[k]
      BY <3>2 DEF With
    <3> QED BY <1>2, <2>4, <3>1, <3>3, <3>4
  <2> QED BY <2>2, <2>3, <2>4
<1> QED BY <1>1, <1>2

\* The candidates of the last block are subnets that lived through the snapshot.
LEMMA SummedIs ==
  ASSUME BaseInv, CandidatesInv, UpdateAfterBlock, NEW k \in Snapshots, height = EndOf(k),
         StartOf(k) \notin again
  PROVE  LET D == DOMAIN candidates'[k]
             a == [s \in D |-> RewardAmounts(s, candidates[k][s])']
         IN  /\ D \subseteq Throughout(k) /\ IsFiniteSet(D)
             /\ \A s \in D : a[s] \in Stakings /\ Below(a[s], reigns[s][AtStart(s, k)].stake)
             /\ Summed(candidates'[k]) = Total(D, a)
<1> DEFINE D == DOMAIN candidates'[k]
           a == [s \in D |-> RewardAmounts(s, candidates[k][s])']
<1>1. UNCHANGED <<height, chain, block, handled, states, committees, named, again, reigns>>
  BY DEF UpdateAfterBlock, placeVars, faultVars
<1>2. CandidatesInv'
  BY CandidatesStep DEF Next
<1>3. ASSUME NEW s \in D PROVE CandidateInv(s, k)'
  BY <1>1, <1>2 DEF CandidatesInv, Snapshots, Snapshot, StartOf
<1>4. ASSUME NEW s \in D PROVE s \in Throughout(k)
  <2>1. s \in Subnets /\ Started(s, k)' /\ Surviving(s, k)'
    BY <1>3 DEF CandidateInv
  <2>2. Pending(s)' => states[s].killed > EndOf(k)
    <3> SUFFICES ASSUME Pending(s)' PROVE states[s].killed > EndOf(k)
      OBVIOUS
    <3>1. PICK h \in 1..Len(chain') : \E i \in 1..Len(chain'[h]) : states'[s].killed = h /\ Ahead(h, i)'
      BY DEF Pending
    <3>2. height \in Nat /\ h \in Nat
      BY PlaceIs DEF BaseInv, Types
    <3>3. h >= height + 1
      BY <1>1, <3>1, <3>2 DEF Ahead
    <3>4. h > height /\ states[s].killed = h
      BY <1>1, <3>1, <3>2, <3>3
    <3> QED BY <3>4
  <2>3. states[s].killed = None \/ states[s].killed > EndOf(k)
    BY <1>1, <2>1, <2>2 DEF Surviving, EndOf, StartOf
  <2> QED BY <1>1, <2>1, <2>3 DEF Started, Throughout, StartOf
<1>5. IsFiniteSet(D)
  <2>1. D \subseteq Subnets
    BY <1>4 DEF Throughout
  <2> QED BY <2>1, RewardConstants, FS_Subset
<1>6. ASSUME NEW s \in D PROVE a[s] \in Stakings /\ Below(a[s], reigns[s][AtStart(s, k)].stake)
  <2>1. Below(RewardAmounts(s, candidates[k][s]), reigns[s][AtStart(s, k)].stake)'
    BY <1>3 DEF CandidateInv
  <2>2. reigns'[s][AtStart(s, k)'].stake = reigns[s][AtStart(s, k)].stake
    BY <1>1 DEF AtStart, StartOf
  <2> QED BY <2>1, <2>2 DEF Below
<1>7. ASSUME NEW s \in D PROVE a[s] = RewardAmounts(s, candidates'[k][s])
  BY <1>1 DEF RewardAmounts
<1>8. a = [s \in D |-> RewardAmounts(s, candidates'[k][s])]
  BY <1>7
<1>9. Summed(candidates'[k]) = Total(D, [s \in D |-> RewardAmounts(s, candidates'[k][s])])
  BY Zenon DEF Summed, Total
<1> QED BY <1>4, <1>5, <1>6, <1>8, <1>9

LEMMA ThroughoutStays ==
  ASSUME BaseInv, \A s \in Subnets : Grown(s), NEW k \in Nat, EndOf(k) <= Tip
  PROVE  Throughout(k)' = Throughout(k)
<1>1. StartOf(k) \in Nat /\ EndOf(k) \in Nat /\ StartOf(k) <= EndOf(k) /\ Tip \in Nat
  BY Bounds, PlaceIs DEF BaseInv, Types
<1>2. ASSUME NEW s \in Subnets
      PROVE  /\ (states'[s].born # None /\ states'[s].born <= StartOf(k))
                 <=> (states[s].born # None /\ states[s].born <= StartOf(k))
             /\ states[s].born # None =>
                  ((states'[s].killed = None \/ states'[s].killed > EndOf(k))
                    <=> (states[s].killed = None \/ states[s].killed > EndOf(k)))
  <2>1. states[s] \in States /\ Grown(s)
    BY DEF BaseInv, Types
  <2>2. Tip + 1 > EndOf(k) /\ ~(Tip + 1 <= StartOf(k)) /\ None # Tip + 1
    BY <1>1 DEF None
  <2>3. CASE states[s].born = None
    <3>1. states'[s].born \in {None, Tip + 1}
      BY <2>1, <2>3 DEF Grown
    <3> QED BY <2>2, <2>3, <3>1
  <2>4. CASE states[s].born # None
    <3>1. states'[s].born = states[s].born
      BY <2>1, <2>4 DEF Grown
    <3>2. states'[s].killed = states[s].killed
          \/ (states[s].killed = None /\ states'[s].killed = Tip + 1)
      BY <2>1 DEF Grown
    <3>3. CASE states'[s].killed = states[s].killed
      BY <3>1, <3>3
    <3>4. CASE states[s].killed = None /\ states'[s].killed = Tip + 1
      BY <2>2, <3>1, <3>4
    <3> QED BY <3>2, <3>3, <3>4
  <2> QED BY <2>3, <2>4
<1> QED BY <1>2 DEF Throughout, EndOf, StartOf

AtFirst(s, k, v) == StakeOf(reigns[s][AtStart(s, k)].stake, v)

LEMMA FirstIs ==
  ASSUME BaseInv, NEW k \in Snapshots, NEW v
  PROVE  /\ IsFiniteSet(Throughout(k))
         /\ \A s \in Throughout(k) : /\ s \in Subnets /\ Started(s, k) /\ AtFirst(s, k, v) \in Nat
                                     /\ reigns[s][AtStart(s, k)].stake \in Stakings
<1>1. k \in Nat /\ Throughout(k) \subseteq Subnets
  BY SnapshotsNat DEF Throughout
<1>2. IsFiniteSet(Throughout(k))
  BY <1>1, RewardConstants, FS_Subset
<1>3. ASSUME NEW s \in Throughout(k)
      PROVE  /\ s \in Subnets /\ Started(s, k) /\ AtFirst(s, k, v) \in Nat
             /\ reigns[s][AtStart(s, k)].stake \in Stakings
  <2> DEFINE c == reigns[s][AtStart(s, k)].stake
  <2>1. s \in Subnets /\ Started(s, k)
    BY DEF Throughout, Started
  <2>2. c \in Stakings
    BY <1>1, <2>1, AtStartIs
  <2> HIDE DEF c
  <2>3. StakeOf(c, v) \in Nat
    <3>1. CASE v \in DOMAIN c
      BY <2>2, <3>1, StakingIs DEF StakeOf
    <3>2. CASE v \notin DOMAIN c
      BY <3>2 DEF StakeOf
    <3> QED BY <3>1, <3>2
  <2> QED BY <2>1, <2>2, <2>3 DEF AtFirst, c
<1> QED BY <1>2, <1>3

LEMMA BoundedStep ==
  ASSUME BaseInv, CandidatesInv, ResultsInv, RewardBounded, [Next]_vars
  PROVE  ResultsInv' /\ RewardBounded'
<1>1. BaseInv' /\ \A s \in Subnets : Grown(s)
  BY BaseStep
<1>2. Tip \in Nat /\ Tip' \in Nat /\ Tip <= Tip' /\ again \subseteq again'
  BY <1>1, TipGrows, PlaceNext DEF BaseInv, Types
<1>3. ASSUME NEW k \in DOMAIN results'
      PROVE  /\ k \in Snapshots /\ EndOf(k) <= Tip'
             /\ StartOf(k) \notin again' => \A v \in Validators :
                  Amount(k, v)' <= SumFunctionOnSet([s \in Throughout(k) |-> AtFirst(s, k, v)], Throughout(k))'
  <2>1. CASE k \in DOMAIN results /\ results'[k] = results[k]
    <3>1. k \in Snapshots /\ EndOf(k) <= Tip
      BY <2>1 DEF ResultsInv
    <3>2. k \in Nat /\ EndOf(k) \in Nat /\ StartOf(k) <= Tip
      <4>1. k \in Nat
        BY <3>1, SnapshotsNat
      <4>2. EndOf(k) \in Nat /\ StartOf(k) \in Nat /\ StartOf(k) <= EndOf(k)
        BY <4>1, Bounds
      <4> QED BY <1>2, <3>1, <4>1, <4>2
    <3>3. Throughout(k)' = Throughout(k)
      BY <1>1, <3>1, <3>2, ThroughoutStays
    <3>4. ASSUME NEW v \in Validators, StartOf(k) \notin again'
          PROVE  Amount(k, v)' <= SumFunctionOnSet([s \in Throughout(k) |-> AtFirst(s, k, v)], Throughout(k))'
      <4>1. ASSUME NEW s \in Throughout(k) PROVE AtFirst(s, k, v)' = AtFirst(s, k, v)
        <5>1. s \in Subnets /\ Started(s, k)
          BY <3>1, FirstIs
        <5>2. AtStart(s, k)' = AtStart(s, k) /\ reigns'[s][AtStart(s, k)] = reigns[s][AtStart(s, k)]
          BY <1>1, <3>2, <5>1, AtStartStays
        <5> QED BY <5>2 DEF AtFirst, StakeOf
      <4>2. [s \in Throughout(k)' |-> AtFirst(s, k, v)'] = [s \in Throughout(k) |-> AtFirst(s, k, v)]
        BY <3>3, <4>1
      <4>3. Amount(k, v)' = Amount(k, v)
        BY <2>1 DEF Amount, StakeOf
      <4>4. Amount(k, v) <= SumFunctionOnSet([s \in Throughout(k) |-> AtFirst(s, k, v)], Throughout(k))
        BY <1>2, <2>1, <3>4 DEF RewardBounded, AtFirst
      <4> QED BY <3>3, <4>2, <4>3, <4>4
    <3>5. EndOf(k) <= Tip'
      BY <1>2, <3>1, <3>2
    <3> QED BY <2>1, <3>1, <3>4, <3>5
  <2>2. CASE /\ UpdateAfterBlock /\ k \in Snapshots /\ height = EndOf(k)
             /\ results'[k] = Summed(candidates'[k])
    <3>6. EndOf(k) <= Tip'
      <4>1. height' = height /\ height' <= Tip'
        BY <1>1, <2>2, PlaceNext DEF UpdateAfterBlock, placeVars, BaseInv, Types
      <4> QED BY <2>2, <4>1
    <3>7. CASE StartOf(k) \in again'
      BY <2>2, <3>6, <3>7
    <3>8. CASE StartOf(k) \notin again'
      <4>0. StartOf(k) \notin again
        BY <1>2, <3>8
      <4> DEFINE D == DOMAIN candidates'[k]
                 a == [s \in D |-> RewardAmounts(s, candidates[k][s])']
                 T == Throughout(k)
      <4>1. /\ D \subseteq T /\ IsFiniteSet(D) /\ Summed(candidates'[k]) = Total(D, a)
            /\ \A s \in D : a[s] \in Stakings /\ Below(a[s], reigns[s][AtStart(s, k)].stake)
        BY <2>2, <4>0, SummedIs
      <4> HIDE DEF D, a
      <4>2. /\ Total(D, a) \in Stakings
            /\ \A v : StakeOf(Total(D, a), v) = SumFunctionOnSet([s \in D |-> StakeOf(a[s], v)], D)
        BY <4>1, TotalIs
      <4>3. UNCHANGED <<height, states, reigns>>
        BY <2>2 DEF UpdateAfterBlock, placeVars
      <4>4. ASSUME NEW v \in Validators
            PROVE  Amount(k, v)' <= SumFunctionOnSet([s \in Throughout(k) |-> AtFirst(s, k, v)], Throughout(k))'
        <5> DEFINE f == [s \in D |-> StakeOf(a[s], v)]
                   g == [s \in T |-> AtFirst(s, k, v)]
        <5>1. IsFiniteSet(T) /\ \A s \in T : g[s] \in Nat /\ reigns[s][AtStart(s, k)].stake \in Stakings
          BY <2>2, FirstIs
        <5>2. ASSUME NEW s \in D PROVE f[s] \in Nat /\ f[s] <= g[s] /\ g[s] \in Nat
          <6>1. a[s] \in Stakings /\ s \in T /\ g[s] \in Nat
            BY <4>1, <5>1
          <6>2. f[s] = StakeOf(a[s], v) /\ g[s] = StakeOf(reigns[s][AtStart(s, k)].stake, v)
            BY <6>1 DEF AtFirst
          <6> DEFINE b == reigns[s][AtStart(s, k)].stake
          <6>3. Below(a[s], b)
            BY <4>1
          <6> HIDE DEF b, f, g
          <6>4. CASE v \in DOMAIN a[s]
            <7>1. a[s][v] \in Nat /\ v \in DOMAIN b /\ a[s][v] <= b[v]
              BY <6>1, <6>3, <6>4, StakingIs DEF Below
            <7> QED BY <6>1, <6>2, <6>4, <7>1 DEF StakeOf, b
          <6>5. CASE v \notin DOMAIN a[s]
            <7>1. f[s] = 0
              BY <6>2, <6>5 DEF StakeOf
            <7> QED BY <6>1, <7>1
          <6> QED BY <6>4, <6>5
        <5> HIDE DEF f, g, T
        <5>3. Ints(f, D) /\ Ints(g, D) /\ Nats(g, T) /\ Nats(g, D)
          BY <5>1, <5>2 DEF Ints, Nats
        <5>4. SumFunctionOnSet(f, D) <= SumFunctionOnSet(g, D)
          BY <4>1, <5>2, <5>3, SumAtMost
        <5>5. SumFunctionOnSet(g, D) <= SumFunctionOnSet(g, T)
          BY <4>1, <5>1, <5>3, SumPart
        <5>6. SumFunctionOnSet(f, D) \in Int /\ SumFunctionOnSet(g, D) \in Int /\ SumFunctionOnSet(g, T) \in Nat
          BY <4>1, <5>1, <5>3, SumInt, SumNat
        <5>7. SumFunctionOnSet(f, D) <= SumFunctionOnSet(g, T)
          BY <5>4, <5>5, <5>6
        <5>8. Amount(k, v)' = SumFunctionOnSet(f, D)
          BY <2>2, <4>1, <4>2 DEF Amount, StakeOf, f
        <5>9. Throughout(k)' = T /\ \A s \in T : AtFirst(s, k, v)' = AtFirst(s, k, v)
          BY <4>3 DEF Throughout, EndOf, StartOf, AtFirst, AtStart, StakeOf, T
        <5>10. [s \in Throughout(k) |-> AtFirst(s, k, v)]' = g
          BY <5>9 DEF g
        <5> QED BY <5>7, <5>8, <5>9, <5>10
      <4> QED BY <2>2, <3>6, <4>4
    <3> QED BY <3>7, <3>8
  <2> QED BY <2>1, <2>2, ResultCases
<1>4. ResultsInv'
  BY <1>3 DEF ResultsInv, Snapshots, Snapshot, EndOf, StartOf
<1>5. RewardBounded'
  BY <1>3 DEF RewardBounded, AtFirst, StartOf
<1> QED BY <1>4, <1>5

LEMMA BoundedInit == Init => ResultsInv /\ RewardBounded
BY DEF Init, ResultsInv, RewardBounded

\* RewardBounded, for every set of subnets and validators, all snapshot lengths,
\* and any number of stops, of heights that could not be written and of blocks
\* that are handled again for it.
THEOREM Bounded == Spec => []RewardBounded
<1> DEFINE Inv == BaseInv /\ CandidatesInv /\ ResultsInv /\ RewardBounded
<1>1. Init => Inv
  BY BaseInit, CandidatesInit, BoundedInit
<1>2. Inv /\ [Next]_vars => Inv'
  BY BaseStep, CandidatesStep, BoundedStep
<1>3. Inv => RewardBounded
  OBVIOUS
<1> QED BY <1>1, <1>2, <1>3, PTL DEF Spec

----------------------------------------------------------------------------
(* Without a stop: the least collateral of the snapshot.                   *)

\* a has the least stake over the stakings of S, of those who are in all.
LeastOf(a, S) ==
  /\ DOMAIN a = {v \in Validators : \A c \in S : v \in DOMAIN c}
  /\ \A v \in DOMAIN a : (\E c \in S : a[v] = c[v]) /\ \A c \in S : a[v] <= c[v]

LEMMA LeastOne ==
  ASSUME NEW a \in Stakings PROVE LeastOf(a, {a})
<1>1. DOMAIN a \subseteq Validators /\ \A v \in DOMAIN a : a[v] \in Nat
  BY StakingIs
<1>2. \A v \in DOMAIN a : a[v] <= a[v]
  BY <1>1
<1> QED BY <1>1, <1>2 DEF LeastOf

LEMMA LeastLower ==
  ASSUME NEW a \in Stakings, NEW b \in Stakings, NEW S, S \subseteq Stakings, LeastOf(a, S)
  PROVE  LeastOf(Lower(a, b), S \cup {b})
<1> DEFINE l == Lower(a, b)
<1>1. /\ l \in Stakings /\ DOMAIN l = DOMAIN a \cap DOMAIN b
      /\ \A v \in DOMAIN l : /\ a[v] \in Nat /\ b[v] \in Nat /\ l[v] \in {a[v], b[v]}
                             /\ l[v] <= a[v] /\ l[v] <= b[v]
  BY LowerIs
<1> HIDE DEF l
<1>2. DOMAIN l = {v \in Validators : \A c \in S \cup {b} : v \in DOMAIN c}
  <2>1. DOMAIN b \subseteq Validators
    BY StakingIs
  <2> QED BY <1>1, <2>1 DEF LeastOf
<1>3. ASSUME NEW v \in DOMAIN l
      PROVE  (\E c \in S \cup {b} : l[v] = c[v]) /\ \A c \in S \cup {b} : l[v] <= c[v]
  <2>1. v \in DOMAIN a /\ (\E c \in S : a[v] = c[v]) /\ \A c \in S : a[v] <= c[v] /\ v \in DOMAIN c
    BY <1>1 DEF LeastOf
  <2>2. \E c \in S \cup {b} : l[v] = c[v]
    BY <1>1, <2>1
  <2>3. ASSUME NEW c \in S PROVE l[v] <= c[v]
    <3>1. c \in Stakings /\ v \in DOMAIN c /\ a[v] <= c[v]
      BY <2>1
    <3>2. c[v] \in Nat /\ a[v] \in Nat /\ l[v] \in Nat /\ l[v] <= a[v]
      BY <1>1, <3>1, StakingIs
    <3> QED BY <3>1, <3>2
  <2> QED BY <1>1, <2>2, <2>3
<1> QED BY <1>2, <1>3 DEF LeastOf, l

LEMMA LeastStake ==
  ASSUME NEW a \in Stakings, NEW S, S \subseteq Stakings, LeastOf(a, S), NEW v \in Validators
  PROVE  StakeOf(a, v) = Least(S, v)
<1> DEFINE M == {StakeOf(c, v) : c \in S}
<1>1. ASSUME NEW c \in S PROVE StakeOf(c, v) \in Nat
  <2>1. CASE v \in DOMAIN c
    BY <2>1, StakingIs DEF StakeOf
  <2>2. CASE v \notin DOMAIN c
    BY <2>2 DEF StakeOf
  <2> QED BY <2>1, <2>2
<1>2. StakeOf(a, v) \in M /\ \A y \in M : StakeOf(a, v) <= y
  <2>1. CASE v \in DOMAIN a
    <3>1. /\ \A c \in S : v \in DOMAIN c /\ a[v] <= c[v]
          /\ \E c \in S : a[v] = c[v]
      BY <2>1 DEF LeastOf
    <3> QED BY <2>1, <3>1 DEF StakeOf
  <2>2. CASE v \notin DOMAIN a
    <3>1. PICK c \in S : v \notin DOMAIN c
      BY <2>2 DEF LeastOf
    <3>2. StakeOf(a, v) = 0 /\ StakeOf(c, v) = 0
      BY <2>2, <3>1 DEF StakeOf
    <3> QED BY <1>1, <3>2
  <2> QED BY <2>1, <2>2
<1>3. \A y \in M : y \in Nat
  BY <1>1
<1> HIDE DEF M
<1>4. ASSUME NEW x \in M, \A y \in M : x <= y PROVE x = StakeOf(a, v)
  <2>1. x <= StakeOf(a, v) /\ StakeOf(a, v) <= x /\ x \in Nat /\ StakeOf(a, v) \in Nat
    BY <1>2, <1>3, <1>4
  <2> QED BY <2>1
<1>5. Min(M) = StakeOf(a, v)
  BY <1>2, <1>4 DEF Min
<1> QED BY <1>5 DEF Least, M

\* The committees that count in a snapshot, and their collaterals.
Counted(s, k) ==
  {i \in DOMAIN reigns[s] : reigns[s][i].since \in (StartOf(k) + 1)..EndOf(k)} \cup {AtStart(s, k)}

Collaterals(s, I) == {reigns[s][i].stake : i \in I}

LEMMA CountedIs ==
  ASSUME BaseInv, NEW s \in Subnets, NEW k \in Nat, Started(s, k)
  PROVE  /\ Counted(s, k) \subseteq 1..Len(reigns[s])
         /\ Counting(s, k) = Collaterals(s, Counted(s, k))
         /\ \A I \in SUBSET (1..Len(reigns[s])) : Collaterals(s, I) \subseteq Stakings
<1>1. AtStart(s, k) \in 1..Len(reigns[s])
  BY AtStartIs
<1>2. reigns[s] \in Seq(Reigns) /\ DOMAIN reigns[s] = 1..Len(reigns[s])
  BY DEF BaseInv, Types
<1>3. Counted(s, k) \subseteq 1..Len(reigns[s])
  BY <1>1, <1>2 DEF Counted
<1>4. Counting(s, k) = Collaterals(s, Counted(s, k))
  BY DEF Counting, Collaterals, Counted
<1>5. ASSUME NEW i \in 1..Len(reigns[s]) PROVE reigns[s][i].stake \in Stakings
  <2>1. reigns[s][i] \in Reigns
    BY <1>2
  <2> QED BY <2>1 DEF Reigns
<1>6. \A I \in SUBSET (1..Len(reigns[s])) : Collaterals(s, I) \subseteq Stakings
  BY <1>5 DEF Collaterals
<1> QED BY <1>3, <1>4, <1>6

\* A rotation adds its committee to those that count, if the snapshot is not over.
LEMMA CountedGrows ==
  ASSUME BaseInv, BaseInv', NEW s \in Subnets, NEW k \in Nat, Started(s, k), StartOf(k) <= Tip, Grown(s)
  PROVE  /\ Started(s, k)'
         /\ \A i \in 1..Len(reigns[s]) : reigns'[s][i] = reigns[s][i]
         /\ reigns'[s] = reigns[s] => Counted(s, k)' = Counted(s, k)
         /\ reigns'[s] # reigns[s] =>
              /\ Len(reigns'[s]) = Len(reigns[s]) + 1
              /\ reigns'[s][Len(reigns[s]) + 1].since = Tip + 1
              /\ Counted(s, k)' \subseteq Counted(s, k) \cup {Len(reigns[s]) + 1}
              /\ Counted(s, k) \subseteq Counted(s, k)'
              /\ Tip + 1 > EndOf(k) => Counted(s, k)' = Counted(s, k)
<1> DEFINE r == reigns[s]
           q == reigns'[s]
           n == Len(r)
           A == AtStart(s, k)
           C == Counted(s, k)
           later(x) == {i \in DOMAIN x : x[i].since \in (StartOf(k) + 1)..EndOf(k)}
<1>1. AtStart(s, k)' = A /\ Started(s, k)'
  BY AtStartStays
<1>2. /\ Tip \in Nat /\ StartOf(k) \in Nat /\ EndOf(k) \in Nat /\ r \in Seq(Reigns) /\ q \in Seq(Reigns)
      /\ n \in Nat
  BY Bounds, PlaceIs DEF BaseInv, Types
<1>3. C = later(r) \cup {A} /\ Counted(s, k)' = later(q) \cup {A}
  BY <1>1 DEF Counted, StartOf, EndOf
<1>4. CASE q = r
  BY <1>1, <1>3, <1>4
<1>5. CASE q # r
  <2>1. PICK c \in Stakings : q = Append(r, [since |-> Tip + 1, stake |-> c])
    BY <1>5 DEF Grown
  <2> DEFINE x == [since |-> Tip + 1, stake |-> c]
  <2>2. x.since = Tip + 1
    OBVIOUS
  <2> HIDE DEF r, q, x, A, C
  <2>3. q = Append(r, x)
    BY <2>1 DEF x
  <2>4. Len(q) = n + 1 /\ q[n + 1] = x /\ DOMAIN q = 1..(n + 1) /\ DOMAIN r = 1..n
    BY <1>2, <2>3
  <2>5. \A i \in 1..n : q[i] = r[i]
    BY <1>2, <2>3
  <2> HIDE DEF n
  <2>6. \A i \in 1..(n + 1) : i \in 1..n \/ i = n + 1
    BY <1>2
  <2>7. \A i \in 1..n : i \in 1..(n + 1)
    BY <1>2
  <2>8. later(q) \subseteq later(r) \cup {n + 1} /\ later(r) \subseteq later(q)
    BY <2>4, <2>5, <2>6, <2>7
  <2>9. ASSUME Tip + 1 > EndOf(k) PROVE later(q) = later(r)
    <3>1. ~(Tip + 1 \in (StartOf(k) + 1)..EndOf(k))
      BY <1>2, <2>9
    <3>2. n + 1 \notin later(q) \/ n + 1 \in later(r)
      BY <2>2, <2>4, <3>1
    <3> QED BY <2>8, <3>2
  <2> HIDE DEF later
  <2>10. /\ Counted(s, k)' \subseteq C \cup {n + 1} /\ C \subseteq Counted(s, k)'
         /\ Tip + 1 > EndOf(k) => Counted(s, k)' = C
    BY <1>3, <2>8, <2>9
  <2> QED BY <1>1, <1>5, <2>2, <2>4, <2>5, <2>10 DEF r, q, n, C
<1> QED BY <1>4, <1>5

\* The hook of a rotation of s is still to run, or that of its kill checkpoint.
Rotating(s) == hook.kind = "checkpoint" /\ hook.subnet = s /\ hook.signed # hook.next

Hooked(s) == hook.kind = "checkpoint" /\ hook.subnet = s /\ hook.kill

\* Every message is handled before the next one is known, and once.
FreshInv ==
  /\ Len(block) <= handled + 1
  /\ (hook = NoHook /\ handled < Len(block) /\ Now.kind = "checkpoint") =>
       states[Now.subnet].killed = None

RotatingInv ==
  \A s \in Subnets :
    Rotating(s) => /\ hook.next = states[s].number /\ hook.next = hook.signed + 1 /\ hook.signed \in Nat
                   /\ reigns[s][Len(reigns[s])].since = height + 1

\* A snapshot whose last block is hooked has its result.
DoneInv ==
  \A k \in Snapshots :
    (EndOf(k) \in 1..height /\ ~(hook.kind = "block" /\ height = EndOf(k))) => k \in DOMAIN results

\* The first block of the snapshot is hooked.
Begun(k) == StartOf(k) <= height /\ ~(hook.kind = "block" /\ height = StartOf(k))

Living(k) ==
  {s \in Subnets : /\ Started(s, k)
                   /\ states[s].killed = None \/ states[s].killed > EndOf(k) \/ Hooked(s)}

\* The committees that count and whose hook has run.
Done(s, k) == Counted(s, k) \ (IF Rotating(s) THEN {Len(reigns[s])} ELSE {})

LeastInv(s, k) ==
  /\ LeastOf(RewardAmounts(s, candidates[k][s]), Collaterals(s, Done(s, k)))
  /\ EndOf(k) > height =>
       candidates[k][s].number = IF Rotating(s) THEN hook.signed ELSE states[s].number

\* Nothing is noted before that.
UnbegunInv == \A k \in Snapshots : ~Begun(k) => DOMAIN candidates[k] = {}

SnapshotInv(k) ==
  Begun(k) => DOMAIN candidates[k] = Living(k) /\ \A s \in Living(k) : LeastInv(s, k)

MinInv == FreshInv /\ RotatingInv /\ DoneInv /\ UnbegunInv /\ \A k \in Snapshots : SnapshotInv(k)

\* A stop is counted for good.
LEMMA CrashesGrow ==
  ASSUME BaseInv, [Next]_vars, crashes' = 0
  PROVE  crashes = 0 /\ ~Crash
<1>1. crashes \in Nat
  BY DEF BaseInv, Types
<1>2. ~Crash
  BY <1>1 DEF Crash
<1>3. crashes' = crashes
  BY <1>2 DEF Next, vars, faultVars, Mine, Handle, UpdateAfterCheckpoint, EndBlock, UpdateAfterBlock
<1> QED BY <1>2, <1>3

LEMMA HeightGrows ==
  ASSUME BaseInv, [Next]_vars, ~Crash
  PROVE  height \in Nat /\ height' \in {height, height + 1} /\ height <= height'
<1>1. height \in Nat
  BY PlaceIs DEF BaseInv, Types
<1>2. height' \in {height, height + 1}
  BY DEF Next, vars, placeVars, Mine, Handle, UpdateAfterCheckpoint, EndBlock, UpdateAfterBlock
<1> QED BY <1>1, <1>2

\* Without a stop the monitor is at the tip and handles nothing again.
LEMMA Unstopped ==
  ASSUME BaseInv, crashes = 0
  PROVE  /\ height = Tip /\ again = {} /\ height \in Nat /\ Tip \in Nat
         /\ hook.kind = "block" => block = <<>> /\ Recent = height
<1>1. height = Tip /\ again = {} /\ PlaceInv
  BY DEF BaseInv, Types, PlaceInv
<1>2. height \in Nat /\ Tip \in Nat /\ block = Newest
  BY <1>1, PlaceIs
<1>3. hook.kind = "block" => block = <<>>
  BY <1>1 DEF BaseInv, HookInv
<1> QED BY <1>1, <1>2, <1>3 DEF Recent

LEMMA UnstoppedNext ==
  ASSUME BaseInv', crashes' = 0
  PROVE  height' = Tip' /\ again' = {}
BY DEF BaseInv, Types, PlaceInv

LEMMA MessageAlive ==
  ASSUME NEW m \in Messages, m.kind = "checkpoint"
  PROVE  m.subnet \in Subnets /\ Alive(m.subnet)
<1>1. CASE m \in [kind : {"bootstrap"}, subnet : {t \in Subnets : states[t].born = None}]
  BY <1>1
<1>2. CASE m \in UNION {[kind : {"checkpoint"}, subnet : {t}, conf : Nameable(t), kill : BOOLEAN]
                         : t \in {t \in Subnets : Alive(t)}}
  <2>1. PICK t \in Subnets :
          Alive(t) /\ m \in [kind : {"checkpoint"}, subnet : {t}, conf : Nameable(t), kill : BOOLEAN]
    BY <1>2
  <2> QED BY <2>1
<1> QED BY <1>1, <1>2 DEF Messages

LEMMA HidesNot ==
  ASSUME BaseInv, EveryChangeShows, handled < Len(block) PROVE ~Hides(Now)
<1> SUFFICES ASSUME Hides(Now) PROVE FALSE
  OBVIOUS
<1> DEFINE s == Now.subnet
           c == states[s].committee
<1>1. /\ Now.kind = "checkpoint" /\ ~KeepsCommittee(s, Now.conf)
      /\ SameCommittee(c, Configs[s][Now.conf])
  BY DEF Hides, Records
<1>2. s \in Subnets /\ Now.conf \in DOMAIN Configs[s] /\ Current(s)
  BY <1>1, NowExpected
<1>3. c.conf \in DOMAIN Configs[s] /\ c = Configs[s][c.conf]
  BY <1>2 DEF Current
<1>4. c.conf = Now.conf
  <2>1. SameCommittee(Configs[s][c.conf], Configs[s][Now.conf])
    BY <1>1, <1>3
  <2> QED BY <1>2, <1>3, <2>1 DEF EveryChangeShows
<1> QED BY <1>1, <1>4 DEF KeepsCommittee

LEMMA FreshStep ==
  ASSUME BaseInv, FreshInv, [Next]_vars, crashes = 0, ~Crash PROVE FreshInv'
<1>1. handled \in Nat /\ Len(block) \in Nat /\ Len(block) <= handled + 1 /\ block \in Seq(AllMessages)
  BY PlaceIs DEF BaseInv, Types, FreshInv
<1>2. CASE \E m \in Messages : Mine(m)
  <2>1. PICK m \in Messages : Mine(m)
    BY <1>2
  <2>2. /\ handled = Len(block) /\ handled' = handled /\ block' = Append(block, m) /\ states' = states
    BY <2>1 DEF Mine
  <2>3. Len(block') = Len(block) + 1 /\ block'[Len(block) + 1] = m
    BY <1>1, <2>2
  <2>4. Now' = m /\ Len(block') <= handled' + 1
    BY <1>1, <2>2, <2>3 DEF Now
  <2>5. m.kind = "checkpoint" => states[m.subnet].killed = None
    BY MessageAlive DEF Alive
  <2>6. states'[Now'.subnet] = states[m.subnet]
    BY <2>2, <2>4
  <2> QED BY <2>4, <2>5, <2>6 DEF FreshInv
<1>3. CASE Handle
  <2>1. /\ block' = block
        /\ Skips(Now) \/ Boots(Now) \/ Keeps(Now) \/ Hides(Now) \/ Rotates(Now)
    BY <1>3, HandleCases DEF placeVars
  <2>2. handled' = handled + 1 \/ (handled' = handled /\ hook'.kind = "checkpoint")
    BY <2>1 DEF Skips, Boots, Keeps, Hides, Rotates, Records
  <2>3. CASE handled' = handled + 1
    <3>1. Len(block') <= handled' + 1 /\ ~(handled' < Len(block'))
      BY <1>1, <2>1, <2>3
    <3> QED BY <3>1 DEF FreshInv
  <2>4. CASE handled' = handled /\ hook'.kind = "checkpoint"
    BY <1>1, <2>1, <2>4 DEF FreshInv, NoHook
  <2> QED BY <2>2, <2>3, <2>4
<1>4. CASE UpdateAfterCheckpoint
  <2>1. handled' = handled + 1 /\ block' = block
    BY <1>4 DEF UpdateAfterCheckpoint, placeVars
  <2>2. Len(block') <= handled' + 1 /\ ~(handled' < Len(block'))
    BY <1>1, <2>1
  <2> QED BY <2>2 DEF FreshInv
<1>5. CASE EndBlock
  <2>1. handled' = 0 /\ Len(block') = 0
    <3>1. /\ Len(chain') = Tip' + 1 /\ block' = chain'[height + 2] /\ height = Tip
          /\ Tip' = Tip + 1 /\ Newest' = <<>> /\ Tip \in Nat
      BY <1>5, BaseStep, PlaceNext, EndChain, Unstopped DEF BaseInv, Types
    <3>2. Newest' = chain'[Len(chain')]
      BY DEF Newest
    <3>3. height + 2 = Len(chain')
      <4>1. \A x, y, z : x \in Nat /\ y = x + 1 /\ z = y + 1 => x + 2 = z
        OBVIOUS
      <4> QED BY <3>1, <4>1
    <3>4. block' = <<>>
      BY <3>1, <3>2, <3>3
    <3> QED BY <1>5, <3>4 DEF EndBlock
  <2> QED BY <2>1 DEF FreshInv
<1>6. CASE UpdateAfterBlock
  <2>1. handled' = handled /\ block' = block /\ block = <<>>
    BY <1>6, Unstopped DEF UpdateAfterBlock, placeVars
  <2>2. Len(block') = 0 /\ handled' \in Nat
    BY <1>1, <2>1
  <2>3. Len(block') <= handled' + 1 /\ ~(handled' < Len(block'))
    BY <1>1, <2>1, <2>2
  <2> QED BY <2>3 DEF FreshInv
<1>7. CASE UNCHANGED vars
  BY <1>7 DEF FreshInv, vars, placeVars, Now
<1> QED BY <1>2, <1>3, <1>4, <1>5, <1>6, <1>7 DEF Next

LEMMA RotatingStep ==
  ASSUME BaseInv, RotatingInv, EveryChangeShows, [Next]_vars PROVE RotatingInv'
<1> SUFFICES ASSUME NEW s \in Subnets, Rotating(s)'
             PROVE  /\ hook'.next = states'[s].number /\ hook'.next = hook'.signed + 1 /\ hook'.signed \in Nat
                    /\ reigns'[s][Len(reigns'[s])].since = height' + 1
  BY DEF RotatingInv
<1>1. hook'.kind = "checkpoint" /\ hook'.subnet = s /\ hook'.signed # hook'.next
  BY DEF Rotating
<1>2. CASE UNCHANGED vars
  <2>1. Rotating(s)
    BY <1>2 DEF Rotating, vars
  <2> QED BY <1>2, <2>1 DEF RotatingInv, vars, placeVars
<1>3. CASE ~UNCHANGED vars
  <2>1. Handle
    BY <1>1, <1>3 DEF Next, Mine, UpdateAfterCheckpoint, EndBlock, UpdateAfterBlock, Crash, NoHook
  <2>2. /\ handled < Len(block) /\ hook = NoHook /\ height' = height
        /\ Skips(Now) \/ Boots(Now) \/ Keeps(Now) \/ Hides(Now) \/ Rotates(Now)
    BY <2>1, HandleCases DEF placeVars
  <2>3. Rotates(Now)
    <3>1. ~Skips(Now) /\ ~Boots(Now)
      BY <1>1, <2>2 DEF Skips, Boots, NoHook
    <3>2. ~Keeps(Now)
      BY <1>1 DEF Keeps, Records
    <3> QED BY <2>2, <3>1, <3>2, HidesNot
  <2>4. hook'.subnet = Now.subnet
    BY <2>3 DEF Rotates, Records
  <2>5. /\ hook'.signed = states[s].number /\ hook'.next = states[s].number + 1
        /\ states'[s].number = states[s].number + 1
        /\ reigns'[s] = Append(reigns[s], Reign(Configs[s][Now.conf]))
    BY <1>1, <2>3, <2>4 DEF Rotates, Records
  <2>6. states[s].number \in Nat /\ reigns[s] \in Seq(Reigns)
    BY DEF BaseInv, Types, States
  <2>7. Reign(Configs[s][Now.conf]).since = height + 1
    BY DEF Reign
  <2>8. reigns'[s][Len(reigns'[s])] = Reign(Configs[s][Now.conf])
    <3> HIDE DEF Reign
    <3>1. ASSUME NEW r \in Seq(Reigns), NEW x PROVE Append(r, x)[Len(Append(r, x))] = x
      OBVIOUS
    <3> QED BY <2>5, <2>6, <3>1
  <2> QED BY <2>2, <2>5, <2>6, <2>7, <2>8
<1> QED BY <1>2, <1>3

LEMMA DoneStep ==
  ASSUME BaseInv, DoneInv, [Next]_vars, ~Crash PROVE DoneInv'
<1> SUFFICES ASSUME NEW k \in Snapshots, EndOf(k) \in 1..height', ~(hook'.kind = "block" /\ height' = EndOf(k))
             PROVE  k \in DOMAIN results'
  BY DEF DoneInv, Snapshots, Snapshot, EndOf, StartOf
<1>1. k \in Nat /\ EndOf(k) \in Nat /\ height \in Nat
  <2>1. k \in Nat
    BY SnapshotsNat
  <2> QED BY <2>1, Bounds, PlaceIs DEF BaseInv, Types
<1>2. CASE UpdateAfterBlock
  <2>1. height' = height /\ hook.kind = "block"
    BY <1>2 DEF UpdateAfterBlock, placeVars
  <2>2. CASE height = EndOf(k)
    <3>1. results' = With(results, k, Summed(candidates'[k]))
      BY <1>2, <2>2, AfterBlock
    <3> QED BY <3>1 DEF With
  <2>3. CASE height # EndOf(k)
    <3>1. k \in DOMAIN results
      BY <2>1, <2>3 DEF DoneInv
    <3>2. \E q : results' = results \/ results' = With(results, q, Summed(candidates'[q]))
      <4>1. CASE height < Activation \/ height # EndOf(Snapshot(height))
        BY <1>2, <4>1 DEF UpdateAfterBlock
      <4>2. CASE ~(height < Activation) /\ height = EndOf(Snapshot(height))
        <5>1. Snapshot(height) \in Snapshots
          <6>1. Activation \in Nat /\ height <= MaxHeight
            BY RewardConstants DEF BaseInv, Types, PlaceInv
          <6> QED BY <1>1, <4>2, <6>1, SnapshotsNat
        <5> QED BY <1>2, <4>2, <5>1, AfterBlock
      <4> QED BY <4>1, <4>2
    <3> QED BY <3>1, <3>2 DEF With
  <2> QED BY <2>2, <2>3
<1>3. CASE ~UpdateAfterBlock
  <2>1. results' = results
    BY <1>3 DEF Next, vars, Mine, Handle, UpdateAfterCheckpoint, EndBlock, Crash
  <2>2. EndOf(k) \in 1..height /\ ~(hook.kind = "block" /\ height = EndOf(k))
    <3>1. CASE EndBlock
      <4>1. height' = height + 1 /\ hook'.kind = "block" /\ hook.kind = "none"
        BY <3>1 DEF EndBlock, NoHook
      <4> QED BY <1>1, <4>1
    <3>2. CASE UNCHANGED vars
      BY <3>2 DEF vars, placeVars
    <3>3. CASE ~EndBlock /\ ~UNCHANGED vars
      <4>1. height' = height /\ (hook.kind = "checkpoint" \/ hook.kind = "none")
        BY <1>3, <3>3 DEF Next, Mine, Handle, UpdateAfterCheckpoint, NoHook, placeVars
      <4> QED BY <4>1
    <3> QED BY <3>1, <3>2, <3>3
  <2> QED BY <2>1, <2>2 DEF DoneInv
<1> QED BY <1>2, <1>3

LEMMA LeastCarried ==
  ASSUME BaseInv, CandidatesInv, [Next]_vars, crashes' = 0, NEW k \in Snapshots, NEW s \in DOMAIN candidates[k],
         s \in DOMAIN candidates'[k], candidates'[k][s] = candidates[k][s],
         LeastInv(s, k), Done(s, k)' = Done(s, k),
         EndOf(k) > height' =>
           candidates[k][s].number = IF Rotating(s)' THEN hook'.signed ELSE states'[s].number
  PROVE  LeastInv(s, k)'
<1>1. BaseInv' /\ \A t \in Subnets : Grown(t)
  BY BaseStep
<1>2. CandidateInv(s, k)'
  <2>1. CandidatesInv' /\ again' = {}
    BY <1>1, CandidatesStep, UnstoppedNext
  <2> QED BY <2>1 DEF CandidatesInv, Snapshots, Snapshot, StartOf
<1>3. CandidateInv(s, k) /\ Surviving(s, k)' /\ s \in Subnets /\ Started(s, k) /\ StartOf(k) <= Tip
  <2>1. again = {}
    BY CrashesGrow, Unstopped
  <2> QED BY <1>2, <2>1 DEF CandidatesInv, CandidateInv
<1>4. k \in Nat /\ Tip <= Tip'
  BY SnapshotsNat, TipGrows
<1>5. RewardAmounts(s, candidates[k][s])' = RewardAmounts(s, candidates[k][s])
  BY <1>1, <1>3, <1>4, Carried
<1>6. Counted(s, k) \subseteq 1..Len(reigns[s]) /\ \A i \in 1..Len(reigns[s]) : reigns'[s][i] = reigns[s][i]
  BY <1>1, <1>3, <1>4, CountedIs, CountedGrows
<1>7. Done(s, k) \subseteq 1..Len(reigns[s])
  BY <1>6 DEF Done
<1>8. Collaterals(s, Done(s, k))' = Collaterals(s, Done(s, k))
  <2> DEFINE I == Done(s, k)
  <2>1. Collaterals(s, Done(s, k))' = {reigns'[s][i].stake : i \in I}
    BY DEF Collaterals
  <2>2. \A i \in I : reigns'[s][i].stake = reigns[s][i].stake
    BY <1>6, <1>7
  <2> HIDE DEF I
  <2>3. {reigns'[s][i].stake : i \in I} = {reigns[s][i].stake : i \in I}
    BY <2>2
  <2> QED BY <2>1, <2>3 DEF Collaterals, I
<1>9. LeastOf(RewardAmounts(s, candidates[k][s]), Collaterals(s, Done(s, k)))'
  BY <1>5, <1>8 DEF LeastInv, LeastOf
<1> QED BY <1>9 DEF LeastInv, EndOf, StartOf

\* A step that leaves the subnets and the candidates alone.
LEMMA SnapshotQuiet ==
  ASSUME BaseInv, CandidatesInv, [Next]_vars, crashes' = 0, NEW k \in Snapshots, SnapshotInv(k), Begun(k),
         candidates'[k] = candidates[k], states' = states, reigns' = reigns,
         hook' = hook \/ (hook.kind # "checkpoint" /\ hook'.kind # "checkpoint")
  PROVE  SnapshotInv(k)'
<1>1. \A s : Rotating(s)' = Rotating(s) /\ Hooked(s)' = Hooked(s)
  BY DEF Rotating, Hooked
<1>2. Living(k)' = Living(k)
  BY <1>1 DEF Living, Started, StartOf, EndOf
<1>3. DOMAIN candidates[k] = Living(k) /\ \A s \in Living(k) : LeastInv(s, k)
  BY DEF SnapshotInv
<1>4. height \in Nat /\ height <= height' /\ height' \in Nat /\ EndOf(k) \in Nat
  <2>1. k \in Nat
    BY SnapshotsNat
  <2> QED BY <2>1, CrashesGrow, HeightGrows, Bounds
<1>5. ASSUME NEW s \in Living(k) PROVE LeastInv(s, k)'
  <2>1. Done(s, k)' = Done(s, k)
    <3>1. Counted(s, k)' = Counted(s, k)
      BY DEF Counted, AtStart, StartOf, EndOf
    <3> QED BY <1>1, <3>1 DEF Done
  <2>2. EndOf(k) > height' =>
          candidates[k][s].number = IF Rotating(s)' THEN hook'.signed ELSE states'[s].number
    <3> SUFFICES ASSUME EndOf(k) > height'
                 PROVE  candidates[k][s].number = IF Rotating(s)' THEN hook'.signed ELSE states'[s].number
      OBVIOUS
    <3>1. EndOf(k) > height
      BY <1>4
    <3>2. candidates[k][s].number = IF Rotating(s) THEN hook.signed ELSE states[s].number
      BY <1>3, <3>1 DEF LeastInv
    <3>3. CASE Rotating(s)
      <4>1. hook' = hook
        BY <3>3 DEF Rotating
      <4> QED BY <1>1, <3>2, <3>3, <4>1
    <3>4. CASE ~Rotating(s)
      BY <1>1, <3>2, <3>4
    <3> QED BY <3>3, <3>4
  <2> QED BY <1>3, <2>1, <2>2, LeastCarried
<1> QED BY <1>2, <1>3, <1>5 DEF SnapshotInv

LEMMA SnapshotNoted ==
  ASSUME BaseInv, CandidatesInv, UpdateAfterBlock, NEW k \in Snapshots, height = StartOf(k),
         crashes = 0, UnbegunInv
  PROVE  SnapshotInv(k)'
<1>1. /\ UNCHANGED <<height, block, handled, states, committees, named, crashes, reigns>>
      /\ hook' = NoHook /\ hook.kind = "block"
  BY DEF UpdateAfterBlock, placeVars, faultVars
<1>2. k \in Nat /\ StartOf(k) \in Nat /\ EndOf(k) \in Nat /\ candidates'[k] = Noted(candidates[k], StartOf(k), EndOf(k))
  <2>1. k \in Nat
    BY SnapshotsNat
  <2> QED BY <2>1, Bounds, AfterBlock
<1>3. \A s : ~Rotating(s)' /\ ~Hooked(s)'
  BY <1>1 DEF Rotating, Hooked, NoHook
<1>6. DOMAIN candidates[k] = {} /\ height \notin again
  BY <1>1, Unstopped DEF UnbegunInv, Begun
<1>7. DOMAIN candidates'[k] = ActiveSubnets(StartOf(k), EndOf(k))
  BY <1>2, <1>6 DEF Noted
<1>4. DOMAIN candidates'[k] = Living(k)'
  BY <1>1, <1>2, <1>3, <1>7 DEF ActiveSubnets, Living, Started, StartOf, EndOf
<1>5. ASSUME NEW s \in Living(k)' PROVE LeastInv(s, k)'
  <2> DEFINE c == reigns[s][AtStart(s, k)].stake
             r == reigns[s]
  <2>1. /\ candidates'[k][s].number = states[s].number /\ RewardAmounts(s, candidates[k][s])' = c
        /\ AtStart(s, k) = Len(r)
    BY <1>4, <1>6, <1>7, NotedCandidate
  <2>2. s \in Subnets /\ Started(s, k)
    BY <1>1 DEF Living, Started, StartOf
  <2>3. c \in Stakings
    BY <1>2, <2>2, AtStartIs
  <2>4. Recent = height
    BY <1>1, Unstopped
  <2>5. Counted(s, k) = {AtStart(s, k)}
    <3>1. r \in Seq(Reigns) /\ DOMAIN r = 1..Len(r) /\ \A i \in 1..Len(r) : r[i].since <= StartOf(k)
      BY <2>2, <2>4 DEF BaseInv, StateInv, Types
    <3>2. ASSUME NEW i \in DOMAIN r PROVE ~(r[i].since \in (StartOf(k) + 1)..EndOf(k))
      <4>1. r[i] \in Reigns /\ r[i].since <= StartOf(k)
        BY <3>1
      <4>2. r[i].since \in Nat
        BY <4>1 DEF Reigns
      <4> QED BY <1>2, <4>1, <4>2
    <3> QED BY <3>2 DEF Counted
  <2>6. Done(s, k)' = {AtStart(s, k)}
    <3>1. Counted(s, k)' = Counted(s, k)
      BY <1>1 DEF Counted, AtStart, StartOf, EndOf
    <3> QED BY <1>3, <2>5, <3>1 DEF Done
  <2>7. Collaterals(s, Done(s, k))' = {c}
    BY <1>1, <2>6 DEF Collaterals
  <2> HIDE DEF c
  <2>8. LeastOf(c, {c})
    BY <2>3, LeastOne
  <2>9. LeastOf(RewardAmounts(s, candidates[k][s]), Collaterals(s, Done(s, k)))'
    BY <2>1, <2>7, <2>8 DEF LeastOf
  <2> QED BY <1>1, <1>3, <2>1, <2>9 DEF LeastInv
<1> QED BY <1>4, <1>5 DEF SnapshotInv

LEMMA SnapshotHandled ==
  ASSUME BaseInv, CandidatesInv, FreshInv, EveryChangeShows, Handle,
         crashes = 0, NEW k \in Snapshots, SnapshotInv(k), Begun(k)
  PROVE  SnapshotInv(k)'
<1>1. /\ handled < Len(block) /\ hook = NoHook /\ height' = height /\ candidates' = candidates
      /\ Skips(Now) \/ Boots(Now) \/ Keeps(Now) \/ Rotates(Now)
      /\ crashes' = 0
  BY HandleCases, HidesNot DEF placeVars, faultVars
<1>2. [Next]_vars
  BY DEF Next
<1>3. BaseInv' /\ \A t \in Subnets : Grown(t)
  BY <1>2, BaseStep
<1>4. PICK x \in Subnets : x = Now.subnet
  BY <1>1, NowIs DEF BaseInv
<1>5. \A s : ~Rotating(s) /\ ~Hooked(s)
  BY <1>1 DEF Rotating, Hooked, NoHook
<1>6. DOMAIN candidates[k] = Living(k) /\ \A s \in Living(k) : LeastInv(s, k)
  BY DEF SnapshotInv
<1>7. k \in Nat /\ StartOf(k) \in Nat /\ EndOf(k) \in Nat /\ height \in Nat /\ StartOf(k) <= height /\ height = Tip
  <2>1. k \in Nat
    BY SnapshotsNat
  <2> QED BY <2>1, Bounds, Unstopped DEF Begun
<1>8. CASE Skips(Now)
  <2>1. hook' = hook /\ states' = states /\ reigns' = reigns /\ candidates'[k] = candidates[k]
    BY <1>1, <1>8 DEF Skips
  <2> QED BY <1>1, <1>2, <2>1, SnapshotQuiet
<1>9. CASE ~Skips(Now)
  <2>1. \A t \in Subnets \ {x} : states'[t] = states[t] /\ reigns'[t] = reigns[t] /\ ~Rotating(t)' /\ ~Hooked(t)'
    <3>1. CASE Boots(Now)
      BY <1>1, <1>4, <3>1 DEF Boots, Only, Rotating, Hooked, NoHook
    <3>2. CASE Keeps(Now) \/ Rotates(Now)
      BY <1>4, <3>2 DEF Keeps, Rotates, Records, Only, Rotating, Hooked
    <3> QED BY <1>1, <1>9, <3>1, <3>2
  <2>2. x \in Living(k)' <=> x \in Living(k)
    <3>1. CASE Boots(Now)
      <4>1. states[x].born = None /\ states'[x].born = height + 1
        BY <1>4, <3>1 DEF Boots
      <4>2. ~(height + 1 <= StartOf(k))
        BY <1>7
      <4> QED BY <4>1, <4>2 DEF Living, Started, StartOf
    <3>2. CASE Keeps(Now) \/ Rotates(Now)
      <4>1. PICK n : Records(Now, n)
        BY <3>2 DEF Keeps, Rotates
      <4>2. /\ Now.kind = "checkpoint" /\ states'[x].born = states[x].born
            /\ states'[x].killed = IF Now.kill THEN height + 1 ELSE states[x].killed
            /\ hook'.kind = "checkpoint" /\ hook'.subnet = x /\ hook'.kill = Now.kill
        BY <1>4, <4>1 DEF Records
      <4>3. states[x].killed = None
        BY <1>1, <1>4, <4>2 DEF FreshInv
      <4>4. Started(x, k)' <=> Started(x, k)
        BY <4>2 DEF Started, StartOf
      <4>5. states'[x].killed = None \/ Hooked(x)'
        BY <4>2, <4>3 DEF Hooked
      <4> QED BY <4>3, <4>4, <4>5 DEF Living
    <3> QED BY <1>1, <1>9, <3>1, <3>2
  <2>3. ASSUME NEW t \in Subnets \ {x} PROVE t \in Living(k)' <=> t \in Living(k)
    BY <1>5, <2>1 DEF Living, Started, StartOf, EndOf
  <2>4. Living(k)' = Living(k)
    <3>1. Living(k) \subseteq Subnets /\ Living(k)' \subseteq Subnets
      BY DEF Living
    <3> QED BY <2>2, <2>3, <3>1
  <2>5. ASSUME NEW s \in Living(k) PROVE LeastInv(s, k)'
    <3>1. s \in Subnets /\ Started(s, k) /\ LeastInv(s, k) /\ s \in DOMAIN candidates[k] /\ Grown(s)
      BY <1>3, <1>6 DEF Living
    <3>2. Done(s, k) = Counted(s, k) /\ Counted(s, k) \subseteq 1..Len(reigns[s])
      BY <1>5, <1>7, <3>1, CountedIs DEF Done
    <3>3. EndOf(k) > height => candidates[k][s].number = states[s].number
      BY <1>5, <3>1 DEF LeastInv
    <3>4. ASSUME reigns'[s] = reigns[s], ~Rotating(s)', states'[s].number = states[s].number
          PROVE  LeastInv(s, k)'
      <4>1. Counted(s, k)' = Counted(s, k)
        BY <1>3, <1>7, <3>1, <3>4, CountedGrows
      <4>2. Done(s, k)' = Done(s, k)
        BY <3>2, <3>4, <4>1 DEF Done
      <4>3. EndOf(k) > height' =>
              candidates[k][s].number = IF Rotating(s)' THEN hook'.signed ELSE states'[s].number
        BY <1>1, <3>3, <3>4
      <4> QED BY <1>1, <1>2, <3>1, <4>2, <4>3, LeastCarried
    <3>5. CASE s # x
      BY <2>1, <3>1, <3>4, <3>5
    <3>6. CASE s = x /\ Boots(Now)
      BY <1>4, <3>1, <3>6 DEF Boots, Started
    <3>7. CASE s = x /\ Keeps(Now)
      <4>1. /\ reigns'[s] = reigns[s] /\ states'[s].number = states[s].number
            /\ hook'.signed = states[s].number /\ hook'.next = states[s].number
        BY <1>4, <3>7 DEF Keeps, Records
      <4> QED BY <3>4, <4>1 DEF Rotating
    <3>8. CASE s = x /\ Rotates(Now)
      <4> DEFINE n == Len(reigns[s])
      <4>1. /\ reigns'[s] = Append(reigns[s], Reign(Configs[s][Now.conf]))
            /\ hook'.kind = "checkpoint" /\ hook'.subnet = s
            /\ hook'.signed = states[s].number /\ hook'.next = states[s].number + 1
        BY <1>4, <3>8 DEF Rotates, Records
      <4>2. states[s].number \in Nat /\ reigns[s] \in Seq(Reigns) /\ n \in Nat
        BY <3>1 DEF BaseInv, Types, States
      <4>3. Rotating(s)'
        <5>1. hook'.signed # hook'.next
          BY <4>1, <4>2
        <5> QED BY <4>1, <5>1 DEF Rotating
      <4>4. reigns'[s] # reigns[s]
        <5>1. ASSUME NEW r \in Seq(Reigns), NEW y PROVE Len(Append(r, y)) # Len(r)
          OBVIOUS
        <5> QED BY <4>1, <4>2, <5>1
      <4>5. /\ Len(reigns'[s]) = n + 1 /\ Counted(s, k)' \subseteq Counted(s, k) \cup {n + 1}
            /\ Counted(s, k) \subseteq Counted(s, k)'
        BY <1>3, <1>7, <3>1, <4>4, CountedGrows
      <4>6. n + 1 \notin Counted(s, k)
        <5>1. n + 1 \notin 1..n
          BY <4>2
        <5> QED BY <3>2, <5>1
      <4> HIDE DEF n
      <4>7. Done(s, k)' = Counted(s, k)' \ {n + 1}
        BY <4>3, <4>5 DEF Done
      <4>8. Done(s, k)' = Done(s, k)
        BY <3>2, <4>5, <4>6, <4>7
      <4>9. EndOf(k) > height' =>
              candidates[k][s].number = IF Rotating(s)' THEN hook'.signed ELSE states'[s].number
        BY <1>1, <3>3, <4>1, <4>3
      <4> QED BY <1>1, <1>2, <3>1, <4>8, <4>9, LeastCarried
    <3> QED BY <1>1, <1>9, <3>5, <3>6, <3>7, <3>8
  <2> QED BY <1>1, <1>6, <2>4, <2>5 DEF SnapshotInv
<1> QED BY <1>8, <1>9

\* The hook of a rotation within the snapshot takes its committee into account.
LEMMA LeastLowered ==
  ASSUME BaseInv, CandidatesInv, RotatingInv, UpdateAfterCheckpoint, NEW k \in Snapshots,
         crashes = 0, NEW s \in DOMAIN candidates'[k], Lowered(s, k), LeastInv(s, k)
  PROVE  LeastInv(s, k)'
<1> DEFINE a == RewardAmounts(s, candidates[k][s])
           b == Collateral(committees[s][hook.next])
           r == reigns[s]
           n == Len(r)
<1>1. /\ UNCHANGED <<height, block, states, committees, results, named, crashes, reigns>>
      /\ hook' = NoHook /\ hook.kind = "checkpoint"
  BY DEF UpdateAfterCheckpoint, placeVars, faultVars
<1>2. s \in DOMAIN candidates[k] /\ Rotating(s) /\ Within(k)
  BY <1>1 DEF Lowered, Rotating
<1>3. CandidateInv(s, k) /\ s \in Subnets /\ Started(s, k) /\ a \in Stakings
  BY <1>2, Unstopped DEF CandidatesInv, CandidateInv, Below
<1>4. [Next]_vars
  BY DEF Next
<1>5. Surviving(s, k)'
  <2>1. BaseInv' /\ CandidatesInv' /\ crashes' = 0
    BY <1>1, <1>4, BaseStep, CandidatesStep
  <2>2. again' = {}
    BY <2>1, UnstoppedNext
  <2> QED BY <2>1, <2>2 DEF CandidatesInv, CandidateInv, Snapshots, Snapshot, StartOf
<1>6. RewardAmounts(s, candidates[k][s])' = Lower(a, b) /\ b \in Stakings
  BY <1>3, <1>5, LoweredCandidate
<1>7. hook.next = states[s].number /\ r[n].since = height + 1
  BY <1>2, <1>3 DEF RotatingInv
<1>8. r[n].stake = b
  BY <1>3, <1>7 DEF BaseInv, StateInv, Current, Started
<1>9. k \in Nat /\ StartOf(k) \in Nat /\ EndOf(k) \in Nat /\ height \in Nat /\ n \in Nat /\ r \in Seq(Reigns)
      /\ r # <<>>
  <2>1. k \in Nat
    BY SnapshotsNat
  <2>2. height \in Nat /\ r \in Seq(Reigns) /\ r # <<>>
    BY <1>3, PlaceIs DEF BaseInv, Types, StateInv, Current, Started
  <2>3. n \in Nat
    BY <2>2
  <2>4. StartOf(k) \in Nat /\ EndOf(k) \in Nat
    BY <2>1, Bounds
  <2> QED BY <2>1, <2>2, <2>3, <2>4
<1>10. n \in DOMAIN r /\ r[n].since \in (StartOf(k) + 1)..EndOf(k)
  <2> HIDE DEF r
  <2>1. n \in 1..n /\ DOMAIN r = 1..n
    BY <1>9
  <2> QED BY <1>2, <1>7, <1>9, <2>1 DEF Within
<1>11. n \in Counted(s, k)
  BY <1>10 DEF Counted
<1>12. Done(s, k) = Counted(s, k) \ {n}
  BY <1>2 DEF Done
<1>13. Done(s, k)' = Counted(s, k)
  <2>1. ~Rotating(s)'
    BY <1>1 DEF Rotating, NoHook
  <2>2. Counted(s, k)' = Counted(s, k)
    BY <1>1 DEF Counted, AtStart, StartOf, EndOf
  <2> QED BY <2>1, <2>2 DEF Done
<1>14. Collaterals(s, Done(s, k))' = Collaterals(s, Done(s, k)) \cup {b}
  <2>1. Collaterals(s, Done(s, k))' = {r[i].stake : i \in Counted(s, k)}
    BY <1>1, <1>13 DEF Collaterals
  <2>2. Collaterals(s, Done(s, k)) = {r[i].stake : i \in Counted(s, k) \ {n}}
    BY <1>12 DEF Collaterals
  <2> HIDE DEF r, n, b
  <2> QED BY <1>8, <1>11, <2>1, <2>2
<1>15. Collaterals(s, Done(s, k)) \subseteq Stakings
  <2>1. Done(s, k) \in SUBSET (1..n)
    BY <1>3, <1>9, CountedIs DEF Done
  <2> QED BY <1>3, <1>9, <2>1, CountedIs
<1>16. LeastOf(a, Collaterals(s, Done(s, k)))
  BY DEF LeastInv
<1> HIDE DEF a, b
<1>17. LeastOf(Lower(a, b), Collaterals(s, Done(s, k)) \cup {b})
  BY <1>3, <1>6, <1>15, <1>16, LeastLower
<1>18. LeastOf(RewardAmounts(s, candidates[k][s]), Collaterals(s, Done(s, k)))'
  BY <1>6, <1>14, <1>17 DEF LeastOf
<1>19. candidates'[k][s].number = states'[s].number /\ ~Rotating(s)'
  BY <1>1, <1>7 DEF Lowered, Rotating, NoHook
<1> QED BY <1>18, <1>19 DEF LeastInv

LEMMA SnapshotHooked ==
  ASSUME BaseInv, CandidatesInv, RotatingInv, UpdateAfterCheckpoint,
         crashes = 0, NEW k \in Snapshots, SnapshotInv(k), Begun(k)
  PROVE  SnapshotInv(k)'
<1> DEFINE cs == candidates[k]
<1>1. /\ UNCHANGED <<height, block, states, committees, results, named, crashes, reigns>>
      /\ hook' = NoHook /\ hook.kind = "checkpoint"
  BY DEF UpdateAfterCheckpoint, placeVars, faultVars
<1>2. [Next]_vars
  BY DEF Next
<1>3. PICK x \in Subnets : x = hook.subnet
  BY <1>1 DEF BaseInv, HookInv, Hooking
<1>4. hook.kill => states[x].killed = height + 1
  <2>1. /\ block[handled + 1].kind = "checkpoint" /\ block[handled + 1].subnet = x
        /\ block[handled + 1].kill = hook.kill /\ Applied(block[handled + 1], height + 1)
    BY <1>1, <1>3 DEF BaseInv, HookInv, Hooking
  <2> QED BY <2>1 DEF Applied
<1>5. /\ \A s : ~Rotating(s)' /\ ~Hooked(s)'
      /\ \A s : s # x => ~Rotating(s) /\ ~Hooked(s)
      /\ Hooked(x) <=> hook.kill
      /\ Rotating(x) <=> hook.signed # hook.next
  BY <1>1, <1>3 DEF Rotating, Hooked, NoHook
<1>6. DOMAIN cs = Living(k) /\ \A s \in Living(k) : LeastInv(s, k)
  BY DEF SnapshotInv
<1>7. k \in Nat /\ StartOf(k) \in Nat /\ EndOf(k) \in Nat /\ height \in Nat /\ StartOf(k) <= height
  <2>1. k \in Nat
    BY SnapshotsNat
  <2> QED BY <2>1, Bounds, PlaceIs DEF BaseInv, Types, Begun
<1>8. \A s : Counted(s, k)' = Counted(s, k) /\ Done(s, k)' = Counted(s, k)
  <2>1. \A s : Counted(s, k)' = Counted(s, k)
    BY <1>1 DEF Counted, AtStart, StartOf, EndOf
  <2> QED BY <1>5, <2>1 DEF Done
<1>9. Living(k)' = {s \in Living(k) : ~(s = x /\ hook.kill /\ Within(k))}
  <2>1. height + 1 # None
    BY <1>7 DEF None
  <2>2. Within(k) <=> ~(height + 1 > EndOf(k))
    BY <1>7 DEF Within
  <2>3. ASSUME NEW s \in Subnets
        PROVE  s \in Living(k)' <=> (s \in Living(k) /\ ~(s = x /\ hook.kill /\ Within(k)))
    <3>1. s \in Living(k)' <=> /\ Started(s, k)
                               /\ states[s].killed = None \/ states[s].killed > EndOf(k)
      BY <1>1, <1>5 DEF Living, Started, StartOf, EndOf
    <3>2. CASE s # x
      BY <1>5, <3>1, <3>2 DEF Living
    <3>3. CASE s = x /\ ~hook.kill
      BY <1>5, <3>1, <3>3 DEF Living
    <3>4. CASE s = x /\ hook.kill
      BY <1>4, <1>5, <2>1, <2>2, <3>1, <3>4 DEF Living
    <3> QED BY <3>2, <3>3, <3>4
  <2>4. Living(k) \subseteq Subnets /\ Living(k)' \subseteq Subnets
    BY DEF Living
  <2> QED BY <2>3, <2>4
<1>10. ASSUME NEW s \in Living(k), s \in DOMAIN candidates'[k], candidates'[k][s] = cs[s], ~Rotating(s)
       PROVE  LeastInv(s, k)'
  <2>1. LeastInv(s, k) /\ s \in DOMAIN candidates[k]
    BY <1>6
  <2>2. Done(s, k)' = Done(s, k)
    BY <1>8, <1>10 DEF Done
  <2>3. EndOf(k) > height' =>
          candidates[k][s].number = IF Rotating(s)' THEN hook'.signed ELSE states'[s].number
    BY <1>1, <1>5, <1>10, <2>1 DEF LeastInv
  <2> QED BY <1>1, <1>2, <1>10, <2>1, <2>2, <2>3, LeastCarried
<1>11. CASE ~Within(k)
  <2>1. candidates'[k] = cs
    BY <1>11, AfterCheckpoint
  <2>2. DOMAIN candidates'[k] = Living(k)' /\ Living(k)' = Living(k)
    BY <1>6, <1>9, <1>11, <2>1
  <2>3. ~(EndOf(k) > height)
    BY <1>7, <1>11 DEF Within
  <2>4. ASSUME NEW s \in Living(k) PROVE LeastInv(s, k)'
    <3>1. CASE ~Rotating(s)
      BY <1>6, <1>10, <2>1, <3>1
    <3>2. CASE Rotating(s)
      <4> DEFINE r == reigns[s]
                 n == Len(r)
      <4>1. s \in Subnets /\ Started(s, k) /\ r[n].since = height + 1
        BY <3>2 DEF Living, RotatingInv
      <4>2. n \notin Counted(s, k)
        <5>1. ~(height + 1 \in (StartOf(k) + 1)..EndOf(k)) /\ ~(height + 1 <= StartOf(k))
          BY <1>7, <2>3
        <5>2. AtStart(s, k) \in 1..n /\ Upto(r, StartOf(k), AtStart(s, k)) /\ AtStart(s, k) \in Nat
          BY <1>7, <4>1, AtStartIs
        <5>3. r[AtStart(s, k)].since <= StartOf(k)
          BY <5>2 DEF Upto
        <5> QED BY <4>1, <5>1, <5>3 DEF Counted
      <4>3. Done(s, k)' = Done(s, k)
        BY <1>8, <4>2 DEF Done
      <4>4. LeastInv(s, k) /\ s \in DOMAIN candidates[k] /\ s \in DOMAIN candidates'[k]
        BY <1>6, <2>1
      <4>5. EndOf(k) > height' =>
              candidates[k][s].number = IF Rotating(s)' THEN hook'.signed ELSE states'[s].number
        BY <1>1, <2>3
      <4> QED BY <1>1, <1>2, <2>1, <4>3, <4>4, <4>5, LeastCarried
    <3> QED BY <3>1, <3>2
  <2> QED BY <2>2, <2>4 DEF SnapshotInv
<1>12. CASE Within(k) /\ hook.kill
  <2>1. candidates'[k] = [t \in DOMAIN cs \ {x} |-> cs[t]]
    BY <1>3, <1>12, AfterCheckpoint DEF UpdatedCandidates, DropsKilled
  <2>2. Living(k)' = Living(k) \ {x}
    BY <1>9, <1>12
  <2>3. DOMAIN candidates'[k] = Living(k)'
    BY <1>6, <2>1, <2>2
  <2>4. ASSUME NEW s \in Living(k)' PROVE LeastInv(s, k)'
    <3>1. s \in Living(k) /\ s # x /\ s \in DOMAIN candidates'[k]
      BY <2>2, <2>3
    <3>2. candidates'[k][s] = cs[s]
      BY <2>1, <3>1
    <3> QED BY <1>5, <1>10, <3>1, <3>2
  <2> QED BY <2>3, <2>4 DEF SnapshotInv
<1>13. CASE Within(k) /\ ~hook.kill
  <2> DEFINE new == [number |-> hook.next,
                     amounts |-> <<Lower(RewardAmounts(x, cs[x]), Collateral(committees[x][hook.next]))>>]
  <2>1. candidates'[k] = IF hook.signed = hook.next \/ x \notin DOMAIN cs THEN cs
                         ELSE IF hook.next = cs[x].number THEN cs
                         ELSE [cs EXCEPT ![x] = new]
    BY <1>3, <1>13, AfterCheckpoint DEF UpdatedCandidates, DropsKilled, NeverHappens
  <2> HIDE DEF new
  <2>2. DOMAIN candidates'[k] = DOMAIN cs /\ \A s \in DOMAIN cs : s # x => candidates'[k][s] = cs[s]
    BY <2>1
  <2>3. Living(k)' = Living(k)
    BY <1>9, <1>13
  <2>4. ASSUME NEW s \in Living(k) PROVE LeastInv(s, k)'
    <3>1. s \in DOMAIN candidates'[k] /\ s \in DOMAIN cs
      BY <1>6, <2>2
    <3>2. CASE s # x
      BY <1>5, <1>10, <2>2, <3>1, <3>2
    <3>3. CASE s = x /\ hook.signed = hook.next
      <4>1. candidates'[k] = cs
        BY <2>1, <3>3
      <4> QED BY <1>5, <1>10, <3>1, <3>3, <4>1
    <3>4. CASE s = x /\ hook.signed # hook.next
      <4>1. Rotating(s)
        BY <1>5, <3>4
      <4>2. hook.next = hook.signed + 1 /\ hook.signed \in Nat
        BY <3>4, <4>1 DEF RotatingInv
      <4>3. cs[x].number = hook.signed
        <5>1. EndOf(k) > height
          BY <1>7, <1>13 DEF Within
        <5> QED BY <1>6, <3>4, <4>1, <5>1 DEF LeastInv
      <4>4. hook.next # cs[x].number
        BY <4>2, <4>3
      <4>5. candidates'[k] = [cs EXCEPT ![x] = new]
        BY <2>1, <3>1, <3>4, <4>4
      <4>6. candidates'[k][x] = new
        BY <3>1, <3>4, <4>5
      <4>7. Lowered(s, k)
        BY <1>3, <1>13, <3>1, <3>4, <4>4, <4>6 DEF Lowered, new
      <4> QED BY <1>6, <3>1, <4>7, LeastLowered
    <3> QED BY <3>2, <3>3, <3>4
  <2> QED BY <1>6, <2>2, <2>3, <2>4 DEF SnapshotInv
<1> QED BY <1>11, <1>12, <1>13

LEMMA UnbegunStep ==
  ASSUME BaseInv, UnbegunInv, [Next]_vars, ~Crash PROVE UnbegunInv'
<1> SUFFICES ASSUME NEW k \in Snapshots, ~Begun(k)' PROVE DOMAIN candidates'[k] = {}
  BY DEF UnbegunInv, Snapshots, Snapshot
<1>1. height \in Nat /\ StartOf(k) \in Nat
  <2>1. k \in Nat
    BY SnapshotsNat
  <2> QED BY <2>1, Bounds, PlaceIs DEF BaseInv, Types
<1>2. ~Begun(k) => DOMAIN candidates[k] = {}
  BY DEF UnbegunInv
<1>3. CASE UpdateAfterBlock
  <2>1. height' = height /\ hook'.kind = "none"
    BY <1>3 DEF UpdateAfterBlock, placeVars, NoHook
  <2>2. ~(StartOf(k) <= height)
    BY <2>1 DEF Begun, StartOf
  <2>3. height # StartOf(k)
    BY <1>1, <2>2
  <2>4. candidates'[k] = candidates[k]
    BY <1>3, <2>3, AfterBlock
  <2> QED BY <1>2, <2>2, <2>4 DEF Begun
<1>4. CASE UpdateAfterCheckpoint
  <2>1. height' = height /\ hook'.kind = "none"
    BY <1>4 DEF UpdateAfterCheckpoint, placeVars, NoHook
  <2>2. ~(StartOf(k) <= height)
    BY <2>1 DEF Begun, StartOf
  <2>3. ~Within(k)
    BY <1>1, <2>2 DEF Within
  <2>4. candidates'[k] = candidates[k]
    BY <1>4, <2>3, AfterCheckpoint
  <2> QED BY <1>2, <2>2, <2>4 DEF Begun
<1>5. CASE EndBlock
  <2>1. height' = height + 1 /\ candidates' = candidates
    BY <1>5 DEF EndBlock
  <2>2. ~(StartOf(k) <= height + 1) \/ height + 1 = StartOf(k)
    BY <2>1 DEF Begun, StartOf
  <2>3. ~(StartOf(k) <= height)
    BY <1>1, <2>2
  <2> QED BY <1>2, <2>1, <2>3 DEF Begun
<1>6. CASE Handle
  <2>1. /\ height' = height /\ candidates' = candidates /\ hook = NoHook
        /\ Skips(Now) \/ Boots(Now) \/ Keeps(Now) \/ Hides(Now) \/ Rotates(Now)
    BY <1>6, HandleCases DEF placeVars
  <2>2. hook'.kind # "block"
    BY <2>1 DEF Skips, Boots, Keeps, Hides, Rotates, Records, NoHook
  <2>3. ~(StartOf(k) <= height)
    BY <2>1, <2>2 DEF Begun, StartOf
  <2> QED BY <1>2, <2>1, <2>3 DEF Begun
<1>7. CASE (\E m \in Messages : Mine(m)) \/ UNCHANGED vars
  <2>1. height' = height /\ hook' = hook /\ candidates' = candidates
    BY <1>7 DEF Mine, vars, placeVars
  <2> QED BY <1>2, <2>1 DEF Begun, StartOf
<1> QED BY <1>3, <1>4, <1>5, <1>6, <1>7 DEF Next

LEMMA MinStep ==
  ASSUME BaseInv, CandidatesInv, MinInv, EveryChangeShows, [Next]_vars, crashes' = 0
  PROVE  MinInv'
<1>3. crashes = 0 /\ ~Crash
  BY CrashesGrow
<1>1. FreshInv' /\ RotatingInv' /\ DoneInv' /\ UnbegunInv'
  BY <1>3, FreshStep, RotatingStep, DoneStep, UnbegunStep DEF MinInv
<1>2. ASSUME NEW k \in Snapshots PROVE SnapshotInv(k)'
  <2> SUFFICES ASSUME Begun(k)' PROVE SnapshotInv(k)'
    BY DEF SnapshotInv
  <2>1. SnapshotInv(k) /\ FreshInv /\ RotatingInv /\ UnbegunInv
    BY DEF MinInv
  <2>2. height \in Nat /\ StartOf(k) \in Nat
    <3>1. k \in Nat
      BY SnapshotsNat
    <3> QED BY <3>1, Bounds, PlaceIs DEF BaseInv, Types
  <2>3. CASE UpdateAfterBlock
    <3>1. CASE height = StartOf(k)
      BY <1>3, <2>1, <2>3, <3>1, SnapshotNoted
    <3>2. CASE height # StartOf(k)
      <4>1. /\ height' = height /\ states' = states /\ reigns' = reigns /\ hook.kind = "block"
            /\ hook'.kind = "none"
        BY <2>3 DEF UpdateAfterBlock, NoHook, placeVars
      <4>2. Begun(k)
        BY <3>2, <4>1 DEF Begun, StartOf
      <4>3. candidates'[k] = candidates[k]
        BY <2>3, <3>2, AfterBlock
      <4> QED BY <2>1, <4>1, <4>2, <4>3, SnapshotQuiet
    <3> QED BY <3>1, <3>2
  <2>4. CASE EndBlock
    <3>1. /\ height' = height + 1 /\ states' = states /\ reigns' = reigns /\ hook.kind = "none"
          /\ hook'.kind = "block" /\ candidates' = candidates
      BY <2>4 DEF EndBlock, NoHook
    <3>2. StartOf(k) <= height' /\ height' # StartOf(k)
      BY <3>1 DEF Begun, StartOf
    <3>3. Begun(k)
      BY <2>2, <3>1, <3>2 DEF Begun
    <3> QED BY <2>1, <3>1, <3>3, SnapshotQuiet
  <2>5. CASE Handle
    <3>1. height' = height /\ hook.kind = "none"
      BY <2>5 DEF Handle, NoHook, placeVars
    <3>2. Begun(k)
      BY <3>1 DEF Begun, StartOf
    <3> QED BY <1>3, <2>1, <2>5, <3>2, SnapshotHandled
  <2>6. CASE UpdateAfterCheckpoint
    <3>1. height' = height /\ hook.kind = "checkpoint"
      BY <2>6 DEF UpdateAfterCheckpoint, placeVars
    <3>2. Begun(k)
      BY <3>1 DEF Begun, StartOf
    <3> QED BY <1>3, <2>1, <2>6, <3>2, SnapshotHooked
  <2>7. CASE (\E m \in Messages : Mine(m)) \/ UNCHANGED vars
    <3>1. /\ height' = height /\ states' = states /\ reigns' = reigns /\ hook' = hook
          /\ candidates' = candidates
      BY <2>7 DEF Mine, vars, placeVars
    <3>2. Begun(k)
      BY <3>1 DEF Begun, StartOf
    <3> QED BY <2>1, <3>1, <3>2, SnapshotQuiet
  <2> QED BY <1>3, <2>3, <2>4, <2>5, <2>6, <2>7 DEF Next
<1> QED BY <1>1, <1>2 DEF MinInv, Snapshots, Snapshot

LEMMA MinInit == Init => MinInv
<1> SUFFICES ASSUME Init PROVE MinInv
  OBVIOUS
<1>1. /\ height = 0 /\ block = <<>> /\ handled = 0 /\ hook = NoHook
      /\ \A s \in Subnets : states[s].born = None
      /\ \A k \in Snapshots : candidates[k] = <<>>
  BY DEF Init, NoState
<1>2. FreshInv
  BY <1>1 DEF FreshInv
<1>3. RotatingInv
  BY <1>1 DEF RotatingInv, Rotating, NoHook
<1>4. DoneInv
  <2>1. 1..height = {}
    BY <1>1
  <2> QED BY <2>1 DEF DoneInv
<1>5. ASSUME NEW k \in Snapshots PROVE SnapshotInv(k)
  <2>1. Living(k) = {}
    BY <1>1 DEF Living, Started
  <2>2. DOMAIN candidates[k] = {}
    BY <1>1
  <2> QED BY <2>1, <2>2 DEF SnapshotInv
<1>6. UnbegunInv
  BY <1>1 DEF UnbegunInv
<1> QED BY <1>2, <1>3, <1>4, <1>5, <1>6 DEF MinInv

\* The reward of a validator in the snapshots that have their result.
IsMinimum(k) ==
  \A v \in Validators :
    Amount(k, v) = SumFunctionOnSet([s \in Throughout(k) |-> Least(Counting(s, k), v)], Throughout(k))

LEMMA MinimumStays ==
  ASSUME BaseInv, BaseInv', \A s \in Subnets : Grown(s),
         NEW k \in DOMAIN results, k \in Snapshots, EndOf(k) <= Tip, IsMinimum(k),
         results'[k] = results[k]
  PROVE  IsMinimum(k)'
<1>1. k \in Nat /\ StartOf(k) <= Tip /\ EndOf(k) \in Nat /\ Tip \in Nat
  <2>1. k \in Nat
    BY SnapshotsNat
  <2>2. StartOf(k) \in Nat /\ EndOf(k) \in Nat /\ StartOf(k) <= EndOf(k)
    BY <2>1, Bounds
  <2>3. Tip \in Nat
    BY PlaceIs DEF BaseInv, Types
  <2> QED BY <2>1, <2>2, <2>3
<1>2. Throughout(k)' = Throughout(k)
  BY <1>1, ThroughoutStays
<1>3. ASSUME NEW s \in Throughout(k) PROVE Counting(s, k)' = Counting(s, k)
  <2>1. s \in Subnets /\ Started(s, k)
    BY FirstIs
  <2>2. Started(s, k)' /\ \A i \in 1..Len(reigns[s]) : reigns'[s][i] = reigns[s][i]
    BY <1>1, <2>1, CountedGrows
  <2>3. Counted(s, k)' = Counted(s, k)
    <3>1. Tip + 1 > EndOf(k)
      BY <1>1
    <3> QED BY <1>1, <2>1, <3>1, CountedGrows
  <2>4. Counting(s, k) = Collaterals(s, Counted(s, k)) /\ Counted(s, k) \subseteq 1..Len(reigns[s])
    BY <1>1, <2>1, CountedIs
  <2>5. Counting(s, k)' = Collaterals(s, Counted(s, k))'
    BY DEF Counting, Collaterals, Counted
  <2>6. Collaterals(s, Counted(s, k))' = {reigns'[s][i].stake : i \in Counted(s, k)}
    BY <2>3 DEF Collaterals
  <2> QED BY <2>2, <2>4, <2>5, <2>6, ZenonT(40) DEF Collaterals
<1>4. ASSUME NEW v \in Validators
      PROVE  Amount(k, v)' = SumFunctionOnSet([s \in Throughout(k) |-> Least(Counting(s, k), v)], Throughout(k))'
  <2>1. Amount(k, v)' = Amount(k, v)
    BY DEF Amount, StakeOf
  <2>2. ASSUME NEW s \in Throughout(k) PROVE Least(Counting(s, k), v)' = Least(Counting(s, k), v)
    BY <1>3 DEF Least, StakeOf
  <2>3. [s \in Throughout(k) |-> Least(Counting(s, k), v)]' = [s \in Throughout(k) |-> Least(Counting(s, k), v)]
    BY <1>2, <2>2
  <2> QED BY <1>2, <2>1, <2>3 DEF IsMinimum
<1> QED BY <1>4 DEF IsMinimum

LEMMA MinimumReached ==
  ASSUME BaseInv, CandidatesInv, MinInv', UpdateAfterBlock, NEW k \in Snapshots, height = EndOf(k),
         crashes = 0, results'[k] = Summed(candidates'[k])
  PROVE  IsMinimum(k)'
<1> DEFINE D == DOMAIN candidates'[k]
           a == [s \in D |-> RewardAmounts(s, candidates[k][s])']
           T == Throughout(k)
<1>1. /\ D \subseteq T /\ IsFiniteSet(D) /\ Summed(candidates'[k]) = Total(D, a)
      /\ \A s \in D : a[s] \in Stakings /\ Below(a[s], reigns[s][AtStart(s, k)].stake)
  BY SummedIs, Unstopped
<1>2. UNCHANGED <<height, states, reigns>> /\ hook' = NoHook
  BY DEF UpdateAfterBlock, placeVars
<1>3. k \in Nat /\ StartOf(k) <= height /\ EndOf(k) \in Nat /\ height \in Nat
  <2>1. k \in Nat
    BY SnapshotsNat
  <2>2. StartOf(k) \in Nat /\ EndOf(k) \in Nat /\ StartOf(k) <= EndOf(k)
    BY <2>1, Bounds
  <2> QED BY <2>1, <2>2
<1>4. D = Living(k)' /\ \A s \in Living(k)' : LeastInv(s, k)'
  <2>1. SnapshotInv(k)'
    BY DEF MinInv, Snapshots, Snapshot
  <2>2. Begun(k)'
    BY <1>2, <1>3 DEF Begun, NoHook, StartOf
  <2> QED BY <2>1, <2>2 DEF SnapshotInv
<1>5. D = T
  <2>1. T \subseteq Living(k)'
    BY <1>2 DEF Living, Throughout, Started, StartOf, EndOf
  <2> QED BY <1>1, <1>4, <2>1
<1>6. ASSUME NEW s \in T
      PROVE  LeastOf(a[s], Counting(s, k)) /\ Counting(s, k) \subseteq Stakings /\ a[s] \in Stakings
  <2>1. s \in Subnets /\ Started(s, k)
    BY FirstIs
  <2>2. /\ Counted(s, k) \subseteq 1..Len(reigns[s]) /\ Counting(s, k) = Collaterals(s, Counted(s, k))
        /\ \A I \in SUBSET (1..Len(reigns[s])) : Collaterals(s, I) \subseteq Stakings
    BY <1>3, <2>1, CountedIs
  <2>3. Done(s, k)' = Counted(s, k)
    <3>1. ~Rotating(s)'
      BY <1>2 DEF Rotating, NoHook
    <3>2. Counted(s, k)' = Counted(s, k)
      BY <1>2 DEF Counted, AtStart, StartOf, EndOf
    <3> QED BY <3>1, <3>2 DEF Done
  <2>4. Collaterals(s, Done(s, k))' = Counting(s, k)
    <3>1. Collaterals(s, Done(s, k))' = {reigns[s][i].stake : i \in Counted(s, k)}
      BY <1>2, <2>3 DEF Collaterals
    <3> QED BY <2>2, <3>1 DEF Collaterals
  <2>5. LeastOf(RewardAmounts(s, candidates[k][s]), Collaterals(s, Done(s, k)))'
    BY <1>4, <1>5 DEF LeastInv
  <2>6. a[s] = RewardAmounts(s, candidates[k][s])'
    BY <1>5
  <2>7. LeastOf(a[s], Counting(s, k))
    <3> HIDE DEF a
    <3> QED BY <2>4, <2>5, <2>6 DEF LeastOf
  <2> QED BY <1>1, <1>5, <2>2, <2>7
<1> HIDE DEF D, a
<1>7. ASSUME NEW v \in Validators
      PROVE  Amount(k, v)' = SumFunctionOnSet([s \in Throughout(k) |-> Least(Counting(s, k), v)], Throughout(k))'
  <2>1. Amount(k, v)' = SumFunctionOnSet([s \in D |-> StakeOf(a[s], v)], D)
    BY <1>1, TotalIs DEF Amount, StakeOf
  <2>2. ASSUME NEW s \in T PROVE StakeOf(a[s], v) = Least(Counting(s, k), v)
    BY <1>6, LeastStake
  <2>3. Throughout(k)' = T /\ \A s \in T : Counting(s, k)' = Counting(s, k)
    BY <1>2 DEF Throughout, EndOf, StartOf, Counting, AtStart
  <2>4. ASSUME NEW s \in T PROVE Least(Counting(s, k), v)' = StakeOf(a[s], v)
    BY <2>2, <2>3 DEF Least, StakeOf
  <2> HIDE DEF T
  <2>5. [s \in Throughout(k) |-> Least(Counting(s, k), v)]' = [s \in D |-> StakeOf(a[s], v)]
    BY <1>5, <2>3, <2>4
  <2> QED BY <1>5, <2>1, <2>3, <2>5
<1> QED BY <1>7 DEF IsMinimum

LEMMA MinimumStep ==
  ASSUME BaseInv, CandidatesInv, ResultsInv, MinInv, EveryChangeShows, [Next]_vars, crashes' = 0,
         \A k \in DOMAIN results : IsMinimum(k)
  PROVE  MinInv' /\ (\A k \in DOMAIN results : IsMinimum(k))'
<1>1. BaseInv' /\ \A s \in Subnets : Grown(s)
  BY BaseStep
<1>2. MinInv'
  BY MinStep
<1>3. ASSUME NEW k \in DOMAIN results' PROVE IsMinimum(k)'
  <2>1. CASE k \in DOMAIN results /\ results'[k] = results[k]
    <3>1. k \in Snapshots /\ EndOf(k) <= Tip /\ IsMinimum(k)
      BY <2>1 DEF ResultsInv
    <3> QED BY <1>1, <2>1, <3>1, MinimumStays
  <2>2. CASE /\ UpdateAfterBlock /\ k \in Snapshots /\ height = EndOf(k)
             /\ results'[k] = Summed(candidates'[k])
    BY <1>2, <2>2, CrashesGrow, MinimumReached
  <2> QED BY <2>1, <2>2, ResultCases
<1> QED BY <1>2, <1>3

\* RewardIsMinimum, for every set of subnets and validators, every choice of
\* configurations and all snapshot lengths.
THEOREM Minimum == Spec => []RewardIsMinimum
<1> DEFINE Least0 == crashes = 0 => MinInv /\ \A k \in DOMAIN results : IsMinimum(k)
           Inv == BaseInv /\ CandidatesInv /\ ResultsInv /\ RewardBounded /\ (EveryChangeShows => Least0)
<1>1. Init => Inv
  <2> SUFFICES ASSUME Init PROVE Inv
    OBVIOUS
  <2>1. DOMAIN results = {}
    BY DEF Init
  <2> QED BY <2>1, BaseInit, CandidatesInit, BoundedInit, MinInit
<1>2. Inv /\ [Next]_vars => Inv'
  <2> SUFFICES ASSUME Inv, [Next]_vars PROVE Inv'
    OBVIOUS
  <2>1. (BaseInv /\ CandidatesInv /\ ResultsInv /\ RewardBounded)'
    BY BaseStep, CandidatesStep, BoundedStep
  <2>2. ASSUME EveryChangeShows, crashes' = 0
        PROVE  MinInv' /\ (\A k \in DOMAIN results : IsMinimum(k))'
    <3>1. crashes = 0 /\ ~Crash
      BY <2>2, CrashesGrow
    <3> QED BY <2>2, <3>1, MinimumStep
  <2>3. EveryChangeShows' <=> EveryChangeShows
    BY DEF EveryChangeShows, SameCommittee
  <2> QED BY <2>1, <2>2, <2>3
<1>3. Inv => RewardIsMinimum
  <2> SUFFICES ASSUME Inv, crashes = 0, EveryChangeShows
               PROVE  /\ hook.kind # "block" =>
                            \A k \in Snapshots : EndOf(k) \in 1..height => k \in DOMAIN results
                      /\ \A k \in DOMAIN results : IsMinimum(k)
    BY DEF RewardIsMinimum, IsMinimum
  <2>1. DoneInv
    BY DEF MinInv
  <2> QED BY <2>1 DEF DoneInv
<1> QED BY <1>1, <1>2, <1>3, PTL DEF Spec

=============================================================================
