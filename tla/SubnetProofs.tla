----------------------------- MODULE SubnetProofs -----------------------------
(***************************************************************************)
(* The safety invariants of Subnet for every value of its constants.  None *)
(* of them is inductive alone; each section states the strengthening that  *)
(* is, and proves it one action at a time over the typing invariant.       *)
(***************************************************************************)
EXTENDS SubnetTypeProofs

\* The variables that only bootstrapping and a checkpoint write.
effective == <<status, committee, committeeNumber, committees, lastCheckpoint, checkpoints>>

LEMMA EffectiveFrame ==
  ASSUME [Next]_vars
  PROVE  \/ UNCHANGED effective
         \/ CreateSubnet
         \/ \E v \in Validators, amount \in Amounts : JoinPreBootstrap(v, amount)
         \/ \E p \in psbts : Checkpoint(p)
<1> USE DEF effective, genesisVars, stateVars
<1>1. CASE NewBlock
  BY <1>1 DEF NewBlock
<1>2. CASE ChildSync
  BY <1>2 DEF ChildSync
<1>3. ASSUME NEW v \in Validators, NEW amount \in Amounts,
             \/ JoinPostBootstrap(v, amount)
             \/ Stake(v, amount)
             \/ Unstake(v, amount)
      PROVE  UNCHANGED effective
  BY <1>3 DEF JoinPostBootstrap, Stake, Unstake, RecordChanges
<1>4. ASSUME NEW v \in Validators, Kill(v)
      PROVE  UNCHANGED effective
  BY <1>4 DEF Kill
<1>5. ASSUME NEW c \in {0, childConf}, GenCheckpoint(c)
      PROVE  UNCHANGED effective
  BY <1>5 DEF GenCheckpoint
<1>6. CASE UNCHANGED vars
  BY <1>6 DEF vars
<1> QED
  BY <1>1, <1>2, <1>3, <1>4, <1>5, <1>6 DEF Next

\* A checkpoint that the monitor refuses changes none of them.
LEMMA RejectedFrame ==
  ASSUME NEW p \in psbts, Checkpoint(p), Rejected(p.conf)
  PROVE  UNCHANGED effective
BY DEF Checkpoint, effective, genesisVars, stateVars

----------------------------------------------------------------------------
(* The committee in force and its snapshots.                               *)

\* Bootstrapping starts the numbering from a database without snapshots and
\* checkpoints, and the records are counted from 0.
Numbered ==
  /\ EffectiveCommitteeRecorded
  /\ Len(checkpoints) = lastCheckpoint + 1

LEMMA NumberedInit == Init => Numbered
BY EmptySeq DEF Init, Numbered, EffectiveCommitteeRecorded, None

LEMMA NumberedBootstrap ==
  ASSUME TypeInv, Numbered, NEW v \in Validators, NEW amount \in Amounts,
         JoinPreBootstrap(v, amount)
  PROVE  Numbered'
<1> DEFINE stake == [genesisStake EXCEPT ![v] = amount]
           first == [conf |-> 0, stake |-> stake]
<1>1. checkpoints = <<>> /\ UNCHANGED <<checkpoints, lastCheckpoint>> /\ status = "genesis"
  BY DEF JoinPreBootstrap, TypeInv, Bootstrapped
<1>2. \/ status' # "active"
      \/ /\ committee' = first
         /\ committeeNumber' = 1
         /\ committees' = [n \in {1} |-> first]
  <2>1. \/ ToSubnet(stake)
        \/ UNCHANGED status
    BY DEF JoinPreBootstrap
  <2> QED
    BY <1>1, <2>1 DEF ToSubnet, genesisVars
<1> HIDE DEF first
<1> QED
  BY <1>1, <1>2 DEF Numbered, EffectiveCommitteeRecorded

LEMMA NumberedCheckpoint ==
  ASSUME TypeInv, Numbered, NEW p \in psbts, Checkpoint(p), ~Rejected(p.conf)
  PROVE  Numbered'
<1> DEFINE next == stakeChanges[p.conf].committee
           num  == committeeNumber + 1
           rec  == checkpoints'[Len(checkpoints')]
<1>1. /\ status = "active" /\ UNCHANGED status
      /\ committeeNumber \in Nat
      /\ committeeNumber \in DOMAIN committees
      /\ committees[committeeNumber] = committee
      /\ checkpoints \in Seq(Checkpoints)
  BY DEF TypeInv, TypeOK, Bootstrapped, Numbered, EffectiveCommitteeRecorded, Checkpoint,
     genesisVars
<1>2. lastCheckpoint' = lastCheckpoint + 1 /\ lastCheckpoint \in Int
  BY DEF Checkpoint, SaveCheckpoint, TypeInv, TypeOK, None
<1>3. ASSUME NEW n \in Nat, checkpoints' = Append(checkpoints, CheckpointRecord(p, n))
      PROVE  /\ rec = CheckpointRecord(p, n)
             /\ rec.next = n
             /\ Len(checkpoints') = Len(checkpoints) + 1
  <2>1. CheckpointRecord(p, n) \in Checkpoints
    BY <1>1, TypeCheckpoint, CheckpointRecordType DEF TypeInv, Bootstrapped
  <2>2. Len(checkpoints) \in Nat
    BY <1>1, LenProperties
  <2>3. rec = CheckpointRecord(p, n) /\ Len(checkpoints') = Len(checkpoints) + 1
    BY <1>1, <1>3, <2>1, <2>2, AppendProperties
  <2> QED
    BY <2>3 DEF CheckpointRecord
<1>4. Len(checkpoints') = lastCheckpoint' + 1
  BY <1>1, <1>2, <1>3, CheckpointCases DEF Numbered
<1>5. CASE KeepsCommittee(p.conf)
  <2>1. rec.next = committeeNumber
    BY <1>1, <1>3, <1>5, CheckpointCases
  <2>2. UNCHANGED <<committee, committeeNumber, committees>>
    BY <1>5, CheckpointCases
  <2> QED
    BY <1>1, <1>4, <2>1, <2>2 DEF Numbered, EffectiveCommitteeRecorded, SameCommittee
<1>6. CASE ~KeepsCommittee(p.conf)
  <2>1. rec.next = num
    BY <1>1, <1>3, <1>6, CheckpointCases
  <2>2. /\ num \in DOMAIN committees' /\ committees'[num] = next
        /\ committeeNumber \in DOMAIN committees'
        /\ committees'[committeeNumber] = committees[committeeNumber]
    BY <1>1, <1>6, CheckpointCases
  <2>3. \/ /\ SameCommittee(committee, next)
           /\ UNCHANGED <<committee, committeeNumber>>
        \/ /\ committee' = next
           /\ committeeNumber' = num
    BY <1>6, CheckpointCases
  <2> QED
    BY <1>1, <1>4, <2>1, <2>2, <2>3 DEF Numbered, EffectiveCommitteeRecorded, SameCommittee
<1> QED
  BY <1>5, <1>6

LEMMA NumberedNext == TypeInv /\ Numbered /\ [Next]_vars => Numbered'
<1> SUFFICES ASSUME TypeInv, Numbered, [Next]_vars PROVE Numbered'
  OBVIOUS
<1>1. CASE UNCHANGED effective
  BY <1>1 DEF effective, Numbered, EffectiveCommitteeRecorded, SameCommittee, Address,
     Members, Power
<1>2. CASE CreateSubnet
  BY <1>2 DEF CreateSubnet, Numbered, EffectiveCommitteeRecorded, stateVars
<1>3. ASSUME NEW p \in psbts, Checkpoint(p) PROVE Numbered'
  BY <1>1, <1>3, RejectedFrame, NumberedCheckpoint
<1> QED
  BY <1>1, <1>2, <1>3, NumberedBootstrap, EffectiveFrame

LEMMA NumberedAlways == Spec => []Numbered
BY NumberedInit, NumberedNext, TypeSafety, PTL DEF Spec

\* In every reachable state the committee in force is the snapshot under its
\* number, and the last checkpoint record leads to its multisig address.
THEOREM CommitteeRecorded == Spec => []EffectiveCommitteeRecorded
<1>1. Numbered => EffectiveCommitteeRecorded
  BY DEF Numbered
<1> QED
  BY <1>1, NumberedAlways, PTL

\* The committee of a bootstrapped subnet changes only in a step that records a
\* checkpoint announcing the next committee number, and the number moves by one.
THEOREM Rotation == Spec => RotationIsNumbered
<1> DEFINE Step == (status = "active" /\ committee' # committee) =>
                     /\ committeeNumber' = committeeNumber + 1
                     /\ lastCheckpoint' = lastCheckpoint + 1
                     /\ checkpoints'[Len(checkpoints')].signed = committeeNumber
                     /\ checkpoints'[Len(checkpoints')].next = committeeNumber'
<1>1. TypeInv /\ Numbered /\ [Next]_vars => [Step]_vars
  <2> SUFFICES ASSUME TypeInv, [Next]_vars, status = "active", committee' # committee
               PROVE  /\ committeeNumber' = committeeNumber + 1
                      /\ lastCheckpoint' = lastCheckpoint + 1
                      /\ checkpoints'[Len(checkpoints')].signed = committeeNumber
                      /\ checkpoints'[Len(checkpoints')].next = committeeNumber'
    OBVIOUS
  <2>1. PICK p \in psbts : Checkpoint(p)
    BY EffectiveFrame DEF effective, CreateSubnet, JoinPreBootstrap
  <2>2. ~Rejected(p.conf)
    BY <2>1, RejectedFrame DEF effective
  <2> DEFINE num == committeeNumber + 1
  <2>3. /\ committeeNumber' = num
        /\ checkpoints' = Append(checkpoints, CheckpointRecord(p, num))
    BY <2>1, <2>2, CheckpointCases
  <2>4. checkpoints \in Seq(Checkpoints) /\ Len(checkpoints) \in Nat /\ committeeNumber \in Nat
    BY LenProperties DEF TypeInv, TypeOK
  <2>5. CheckpointRecord(p, num) \in Checkpoints
    <3>1. committee' \in Committees
      BY <2>1, TypeCheckpoint DEF TypeInv, Bootstrapped, Checkpoint, genesisVars
    <3> QED
      BY <2>4, <3>1, CheckpointRecordType
  <2>6. checkpoints'[Len(checkpoints')] = CheckpointRecord(p, num)
    BY <2>3, <2>4, <2>5, AppendProperties
  <2>7. lastCheckpoint' = lastCheckpoint + 1
    BY <2>1, <2>2 DEF Checkpoint, SaveCheckpoint
  <2> QED
    BY <2>3, <2>6, <2>7 DEF CheckpointRecord
<1> QED
  BY <1>1, TypeSafety, NumberedAlways, PTL DEF Spec, RotationIsNumbered

----------------------------------------------------------------------------
(* Configuration numbers.                                                  *)

\* A number at which the changes of a message are complete: a join records two
\* changes, and the child never stops between them.
Complete(c) == c = 0 \/ (c \in DOMAIN stakeChanges /\ stakeChanges[c].kind # "Join")

\* No committee is ahead of the changes that led to it.
ConfBound ==
  /\ committee.conf <= childConf
  /\ childConf <= Len(stakeChanges)
  /\ waiting.conf <= Len(stakeChanges)
  /\ \A n \in DOMAIN stakeChanges :
       /\ stakeChanges[n].kind # "Join" => stakeChanges[n].committee.conf <= n
       /\ stakeChanges[n].kind = "Join" => stakeChanges[n].committee.conf <= n + 1

\* A signed checkpoint names a complete number that the child has applied and
\* the committee has not passed.
PsbtBound ==
  \A p \in psbts :
    /\ Complete(p.conf)
    /\ p.conf <= childConf
    /\ p.conf = 0 \/ committee.conf <= p.conf

Configured ==
  /\ ConfBound
  /\ PsbtBound
  /\ Complete(childConf)
  /\ Complete(Len(stakeChanges))
  /\ PendingIsAhead

LEMMA ConfiguredInit == Init => Configured
BY EmptySeq DEF Init, Configured, ConfBound, PsbtBound, Complete, PendingIsAhead, NoCommittee

\* The handlers of the stake changes: one message appends one change, or a join
\* and its deposit, and the committee after it counts at most those.
LEMMA ConfiguredRecord ==
  ASSUME TypeInv, Configured, status = "active", NEW next, NEW changes,
         MessageChanges(next, changes), RecordChanges(next, changes)
  PROVE  Configured'
<1> DEFINE len == Len(stakeChanges)
           more == Len(changes)
           both == stakeChanges \o changes
<1>1. /\ stakeChanges \in Seq(Changes)
      /\ len \in Nat /\ DOMAIN stakeChanges = 1..len
      /\ more \in Nat \ {0} /\ DOMAIN changes = 1..more
      /\ next \in Committees
  BY LenProperties, EmptySeq DEF TypeInv, TypeOK, MessageChanges
<1>2. UNCHANGED <<committee, childConf, psbts>>
  BY DEF RecordChanges, stateVars, outsideVars
<1>3. CASE UNCHANGED changeVars
  BY <1>2, <1>3 DEF changeVars, Configured, ConfBound, PsbtBound, Complete, PendingIsAhead
<1>4. CASE waiting' = next /\ stakeChanges' = both
  <2>1. /\ both \in Seq(Changes)
        /\ Len(both) = len + more
        /\ \A n \in 1..(len + more) :
             both[n] = IF n <= len THEN stakeChanges[n] ELSE changes[n - len]
    BY <1>1, ConcatProperties DEF MessageChanges
  <2>2. DOMAIN both = 1..(len + more)
    <3> HIDE DEF both
    <3> QED
      BY <2>1, LenProperties
  <2>3. /\ next.conf <= len + more
        /\ \A i \in 1..more :
             /\ changes[i].committee = next
             /\ changes[i].confirmed = FALSE
             /\ i = more => changes[i].kind # "Join"
             /\ i # more => changes[i].kind = "Join" /\ i + 1 = more
    <3>1. Latest.conf <= len /\ Latest.conf \in Nat
      <4>1. Latest \in Committees
        BY LatestType
      <4>2. /\ committee.conf <= childConf /\ childConf <= len /\ waiting.conf <= len
            /\ committee \in Committees /\ childConf \in Nat
        BY DEF Configured, ConfBound, TypeInv, TypeOK, Bootstrapped
      <4> HIDE DEF len
      <4> QED
        BY <1>1, <4>1, <4>2 DEF Latest, Committees
    <3>2. /\ next.conf = Latest.conf + more
          /\ \A i \in 1..more :
               /\ changes[i].committee = next
               /\ changes[i].confirmed = FALSE
               /\ i = more => changes[i].kind # "Join"
               /\ i # more => changes[i].kind = "Join" /\ i + 1 = more
      BY DEF MessageChanges
    <3> HIDE DEF len, more
    <3> QED
      BY <1>1, <3>1, <3>2
  <2>4. /\ committee.conf \in Int /\ childConf \in Nat /\ next.conf \in Nat
        /\ committee.conf <= childConf /\ childConf <= len
    BY <1>1 DEF TypeInv, TypeOK, Committees, NoCommittee, Configured, ConfBound
  <2>5. Len(stakeChanges') = len + more
    BY <1>4, <2>1
  <2> HIDE DEF both, len, more
  <2>6. /\ DOMAIN stakeChanges' = 1..(len + more)
        /\ \A n \in 1..len : stakeChanges'[n] = stakeChanges[n]
        /\ \A n \in (len + 1)..(len + more) : stakeChanges'[n] = changes[n - len]
    BY <1>1, <1>4, <2>1, <2>2
  <2>7. \A n \in (len + 1)..(len + more) :
          /\ stakeChanges'[n].committee = next
          /\ stakeChanges'[n].confirmed = FALSE
          /\ n = len + more => stakeChanges'[n].kind # "Join"
          /\ n # len + more => stakeChanges'[n].kind = "Join" /\ n + 1 = len + more
    <3> SUFFICES ASSUME NEW n \in (len + 1)..(len + more)
                 PROVE  /\ stakeChanges'[n].committee = next
                        /\ stakeChanges'[n].confirmed = FALSE
                        /\ n = len + more => stakeChanges'[n].kind # "Join"
                        /\ n # len + more => stakeChanges'[n].kind = "Join" /\ n + 1 = len + more
      OBVIOUS
    <3>1. n - len \in 1..more
      BY <1>1
    <3> QED
      BY <1>1, <2>3, <2>6, <3>1
  <2>8. ConfBound'
    <3>1. \A n \in 1..len :
            /\ stakeChanges[n].kind # "Join" => stakeChanges[n].committee.conf <= n
            /\ stakeChanges[n].kind = "Join" => stakeChanges[n].committee.conf <= n + 1
      BY <1>1 DEF Configured, ConfBound
    <3>2. ASSUME NEW n \in 1..(len + more)
          PROVE  /\ stakeChanges'[n].kind # "Join" => stakeChanges'[n].committee.conf <= n
                 /\ stakeChanges'[n].kind = "Join" => stakeChanges'[n].committee.conf <= n + 1
      <4>1. n \in 1..len \/ n \in (len + 1)..(len + more)
        BY <1>1
      <4> QED
        BY <1>1, <2>3, <2>4, <2>6, <2>7, <3>1, <4>1
    <3> QED
      BY <1>1, <1>2, <1>4, <2>3, <2>4, <2>5, <2>6, <3>2 DEF ConfBound
  <2>9. \A c : Complete(c) => (c = 0 \/ (c \in DOMAIN stakeChanges' /\ stakeChanges'[c].kind # "Join"))
    BY <1>1, <2>6 DEF Complete
  <2>10. PsbtBound'
    BY <1>2, <2>9 DEF Configured, PsbtBound, Complete
  <2>11. Complete(childConf)'
    BY <1>2, <2>9 DEF Configured, Complete
  <2>12. Complete(Len(stakeChanges))'
    BY <1>1, <2>5, <2>6, <2>7 DEF Complete
  <2>13. PendingIsAhead'
    <3> SUFFICES ASSUME NEW n \in 1..(len + more), ~stakeChanges'[n].confirmed
                 PROVE  /\ n > committee.conf
                        /\ \A m \in 1..(len + more) : m > n => ~stakeChanges'[m].confirmed
      BY <1>2, <2>6 DEF PendingIsAhead
    <3>1. \A m \in (len + 1)..(len + more) : ~stakeChanges'[m].confirmed
      BY <2>7
    <3>2. CASE n \in 1..len
      <4>1. /\ n > committee.conf
            /\ \A m \in 1..len : m > n => ~stakeChanges[m].confirmed
        BY <1>1, <2>6, <3>2 DEF Configured, PendingIsAhead
      <4> QED
        BY <1>1, <2>6, <3>1, <4>1
    <3>3. CASE n \in (len + 1)..(len + more)
      BY <1>1, <2>4, <3>1, <3>3
    <3> QED
      BY <1>1, <3>2, <3>3
  <2> QED
    BY <2>8, <2>10, <2>11, <2>12, <2>13 DEF Configured
<1> QED
  BY <1>3, <1>4 DEF RecordChanges

LEMMA ConfiguredStakeChange ==
  ASSUME TypeInv, Configured, NEW v \in Validators, NEW amount \in Amounts,
         \/ JoinPostBootstrap(v, amount)
         \/ Stake(v, amount)
         \/ Unstake(v, amount)
  PROVE  Configured'
<1>1. status = "active"
  BY DEF JoinPostBootstrap, Stake, Unstake
<1> QED
  BY <1>1, StakeChangeMessage, ConfiguredRecord

LEMMA ConfiguredGenCheckpoint ==
  ASSUME TypeInv, Configured, NEW c \in {0, childConf}, GenCheckpoint(c)
  PROVE  Configured'
<1>1. UNCHANGED <<committee, childConf, waiting, stakeChanges>>
  BY DEF GenCheckpoint, stateVars, changeVars
<1>2. PICK unstakes, kill : psbts' = psbts \cup {[conf |-> c, kill |-> kill, unstakes |-> unstakes]}
  BY DEF GenCheckpoint
<1>3. /\ committee.conf <= childConf
      /\ childConf \in Nat
      /\ Complete(0) /\ Complete(childConf)
  BY DEF Configured, ConfBound, Complete, TypeInv, TypeOK
<1>4. \A p \in psbts' : p \in psbts \/ p.conf = c
  BY <1>2
<1>5. PsbtBound'
  BY <1>1, <1>3, <1>4 DEF Configured, PsbtBound, Complete
<1> QED
  BY <1>1, <1>5 DEF Configured, ConfBound, Complete, PendingIsAhead

LEMMA ConfiguredCheckpoint ==
  ASSUME TypeInv, Configured, NEW p \in psbts, Checkpoint(p)
  PROVE  Configured'
<1> DEFINE c == p.conf
           next == stakeChanges[c].committee
           len == Len(stakeChanges)
<1>1. /\ p \in Psbts /\ c \in Nat
      /\ stakeChanges \in Seq(Changes) /\ len \in Nat /\ DOMAIN stakeChanges = 1..len
      /\ childConf \in Nat /\ committee.conf \in Nat
      /\ psbts' = {} /\ UNCHANGED childConf
  BY LenProperties DEF TypeInv, TypeOK, Bootstrapped, Psbts, Committees, Checkpoint
<1>2. CASE Rejected(c)
  BY <1>1, <1>2 DEF Checkpoint, stateVars, changeVars, Configured, ConfBound, PsbtBound,
     Complete, PendingIsAhead
<1>3. CASE ~Rejected(c)
  <2>1. stakeChanges' = SettleChanges(p)
    BY <1>3 DEF Checkpoint, SaveCheckpoint
  <2>2. /\ Len(stakeChanges') = len /\ DOMAIN stakeChanges' = 1..len
        /\ \A n \in 1..len : /\ stakeChanges'[n].kind = stakeChanges[n].kind
                             /\ stakeChanges'[n].committee = stakeChanges[n].committee
    BY <1>1, <2>1, SettleChangesType
  <2>3. \A n \in 1..len : stakeChanges'[n].confirmed =
          (stakeChanges[n].confirmed \/ (~KeepsCommittee(c) /\ n <= c))
    BY <1>1, <2>1 DEF SettleChanges, SettledChange, ConfirmUpTo
  <2>4. waiting' \in {waiting, NoCommittee}
    BY <1>3, CheckpointCases
  <2>5. \/ committee' = committee
        \/ /\ committee' = next /\ ~KeepsCommittee(c)
           /\ c \in 1..len /\ next \in Committees
    BY <1>1, <1>3, CheckpointCases
  <2>6. c # 0 => next.conf <= c
    BY <1>1 DEF Configured, PsbtBound, Complete, ConfBound
  <2>7. committee'.conf \in Nat /\ c <= childConf
    BY <1>1, <2>5 DEF Committees, Configured, PsbtBound
  <2>8. committee'.conf <= childConf /\ (committee' # committee => committee'.conf <= c)
    BY <1>1, <2>5, <2>6, <2>7 DEF Configured, ConfBound, Committees
  <2> HIDE DEF c, next, len
  <2>9. ConfBound'
    <3>1. childConf <= len /\ waiting.conf <= len
      BY DEF Configured, ConfBound, len
    <3>2. waiting'.conf <= len
      BY <1>1, <2>4, <3>1 DEF NoCommittee
    <3>3. \A n \in 1..len :
            /\ stakeChanges[n].kind # "Join" => stakeChanges[n].committee.conf <= n
            /\ stakeChanges[n].kind = "Join" => stakeChanges[n].committee.conf <= n + 1
      BY <1>1 DEF Configured, ConfBound
    <3> QED
      BY <1>1, <2>2, <2>8, <3>1, <3>2, <3>3 DEF ConfBound
  <2>10. PsbtBound' /\ Complete(childConf)' /\ Complete(Len(stakeChanges))'
    <3>1. Complete(len) /\ Complete(childConf)
      BY DEF Configured, len
    <3> QED
      BY <1>1, <2>2, <3>1 DEF PsbtBound, Complete
  <2>11. PendingIsAhead'
    <3> SUFFICES ASSUME NEW n \in 1..len, ~stakeChanges'[n].confirmed
                 PROVE  /\ n > committee'.conf
                        /\ \A m \in 1..len : m > n => ~stakeChanges'[m].confirmed
      BY <2>2 DEF PendingIsAhead
    <3>0. ~stakeChanges[n].confirmed /\ (KeepsCommittee(c) \/ ~(n <= c))
      BY <2>3, Zenon
    <3>1. ~stakeChanges[n].confirmed /\ (KeepsCommittee(c) \/ n > c)
      <4>1. ~(n <= c) => n > c
        BY <1>1
      <4> QED
        BY <3>0, <4>1, Zenon
    <3>2. /\ n > committee.conf
          /\ \A m \in 1..len : m > n => ~stakeChanges[m].confirmed
      BY <1>1, <3>1 DEF Configured, PendingIsAhead
    <3>3. n > committee'.conf
      BY <1>1, <2>5, <2>7, <2>8, <3>1, <3>2
    <3>4. ASSUME NEW m \in 1..len, m > n
          PROVE  ~stakeChanges'[m].confirmed
      BY <1>1, <2>3, <3>1, <3>2, <3>4
    <3> QED
      BY <3>3, <3>4
  <2> QED
    BY <2>9, <2>10, <2>11 DEF Configured
<1> QED
  BY <1>2, <1>3

LEMMA ConfiguredNext == TypeInv /\ Configured /\ [Next]_vars => Configured'
<1> SUFFICES ASSUME TypeInv, Configured, [Next]_vars PROVE Configured'
  OBVIOUS
<1>1. CASE UNCHANGED <<committee, waiting, childConf, stakeChanges, psbts>>
  BY <1>1 DEF Configured, ConfBound, PsbtBound, Complete, PendingIsAhead
<1>2. CASE ChildSync
  <2>1. UNCHANGED <<committee, waiting, stakeChanges, psbts>> /\ childConf' = Len(stakeChanges)
    BY <1>2 DEF ChildSync, stateVars, changeVars
  <2>2. Len(stakeChanges) \in Nat /\ committee.conf \in Int /\ childConf \in Nat
    BY LenProperties DEF TypeInv, TypeOK, Committees, NoCommittee
  <2>3. \A p \in psbts : p.conf \in Nat
    BY DEF TypeInv, TypeOK, Psbts
  <2> QED
    BY <2>1, <2>2, <2>3 DEF Configured, ConfBound, PsbtBound, Complete, PendingIsAhead
<1>3. ASSUME NEW v \in Validators, NEW amount \in Amounts, JoinPreBootstrap(v, amount)
      PROVE  Configured'
  <2>1. /\ UNCHANGED <<waiting, childConf, stakeChanges, psbts>>
        /\ psbts = {} /\ stakeChanges = <<>> /\ childConf \in Nat
    BY <1>3 DEF JoinPreBootstrap, changeVars, outsideVars, TypeInv, TypeOK, Bootstrapped
  <2>2. committee' = committee \/ committee'.conf = 0
    BY <1>3 DEF JoinPreBootstrap, ToSubnet
  <2>3. committee'.conf <= childConf'
    BY <2>1, <2>2 DEF Configured, ConfBound
  <2> QED
    BY <2>1, <2>3 DEF Configured, ConfBound, PsbtBound, Complete, PendingIsAhead
<1>4. CASE NewBlock \/ CreateSubnet \/ UNCHANGED vars
  BY <1>1, <1>4 DEF NewBlock, CreateSubnet, vars, stateVars, changeVars, outsideVars
<1>5. ASSUME NEW v \in Validators, Kill(v) PROVE Configured'
  BY <1>1, <1>5 DEF Kill, stateVars, changeVars, outsideVars
<1> QED
  BY <1>2, <1>3, <1>4, <1>5, ConfiguredStakeChange, ConfiguredGenCheckpoint,
     ConfiguredCheckpoint DEF Next

LEMMA ConfiguredAlways == Spec => []Configured
BY ConfiguredInit, ConfiguredNext, TypeSafety, PTL DEF Spec

\* In every reachable state the confirmed stake changes are a prefix of those
\* recorded, and each that waits is numbered above the committee in force.
THEOREM PendingAhead == Spec => []PendingIsAhead
<1>1. Configured => PendingIsAhead
  BY DEF Configured
<1> QED
  BY <1>1, ConfiguredAlways, PTL

\* The monitor never refuses a checkpoint that the provider built.
THEOREM Accepted == Spec => []CheckpointAccepted
<1>1. TypeInv /\ Configured => CheckpointAccepted
  BY DEF TypeInv, TypeOK, Bootstrapped, Psbts, Committees, Configured, PsbtBound, Complete,
     CheckpointAccepted, Rejected, KeepsCommittee
<1> QED
  BY <1>1, TypeSafety, ConfiguredAlways, PTL

----------------------------------------------------------------------------
(* The kill vote and the kill checkpoint.                                  *)

\* Votes are dated with the height of their block.
Voted ==
  /\ \A r \in killRequests : r.height <= height
  /\ NoDoubleKillVote

LEMMA VotedInit == Init => Voted
BY DEF Init, Voted, NoDoubleKillVote

LEMMA VotedKill ==
  ASSUME TypeInv, Voted, NEW v \in Validators, Kill(v)
  PROVE  Voted'
<1> DEFINE request == [validator |-> v, height |-> height]
<1>1. /\ killRequests' = killRequests \cup {request}
      /\ \A r \in killRequests : r.validator = v => ~(r.height >= height - KillWindow)
      /\ UNCHANGED height
  BY DEF Kill, ValidKillRequests, outsideVars
<1>2. height \in Nat /\ KillWindow \in Nat /\ \A r \in killRequests : r.height \in Nat
  BY SubnetConstants DEF TypeInv, TypeOK, KillRequests
<1>3. \A r \in killRequests' : r.height <= height'
  BY <1>1, <1>2 DEF Voted
<1>4. ASSUME NEW r \in killRequests', NEW s \in killRequests',
             r.validator = s.validator, r.height < s.height
      PROVE  s.height - r.height > KillWindow
  <2>1. CASE r \in killRequests /\ s \in killRequests
    BY <1>4, <2>1 DEF Voted, NoDoubleKillVote
  <2>2. CASE r \in killRequests /\ s = request
    BY <1>1, <1>2, <1>4, <2>2
  <2>3. CASE r = request
    BY <1>1, <1>2, <1>3, <1>4, <2>3
  <2> QED
    BY <1>1, <2>1, <2>2, <2>3
<1> QED
  BY <1>3, <1>4 DEF Voted, NoDoubleKillVote

LEMMA VotedNext == TypeInv /\ Voted /\ [Next]_vars => Voted'
<1> SUFFICES ASSUME TypeInv, Voted, [Next]_vars PROVE Voted'
  OBVIOUS
<1>1. CASE UNCHANGED <<killRequests, height>>
  BY <1>1 DEF Voted, NoDoubleKillVote
<1>2. CASE NewBlock
  <2>1. height \in Nat /\ \A r \in killRequests : r.height \in Nat
    BY DEF TypeInv, TypeOK, KillRequests
  <2> QED
    BY <1>2, <2>1 DEF NewBlock, killVars, Voted, NoDoubleKillVote
<1>3. CASE ChildSync \/ CreateSubnet \/ UNCHANGED vars
  BY <1>1, <1>3 DEF ChildSync, CreateSubnet, vars, killVars, outsideVars
<1>4. ASSUME NEW v \in Validators, NEW amount \in Amounts,
             \/ JoinPreBootstrap(v, amount)
             \/ JoinPostBootstrap(v, amount)
             \/ Stake(v, amount)
             \/ Unstake(v, amount)
      PROVE  Voted'
  BY <1>1, <1>4 DEF JoinPreBootstrap, JoinPostBootstrap, Stake, Unstake, RecordChanges,
     killVars, outsideVars
<1>5. ASSUME NEW c \in {0, childConf}, GenCheckpoint(c) PROVE Voted'
  BY <1>1, <1>5 DEF GenCheckpoint, killVars
<1>6. ASSUME NEW p \in psbts, Checkpoint(p) PROVE Voted'
  BY <1>1, <1>6 DEF Checkpoint
<1> QED
  BY <1>2, <1>3, <1>4, <1>5, <1>6, VotedKill DEF Next

\* In every reachable state no validator has two kill requests that one vote
\* could count together.
THEOREM OneVoteEach == Spec => []NoDoubleKillVote
<1>1. Voted => NoDoubleKillVote
  BY DEF Voted
<1> QED
  BY <1>1, VotedInit, VotedNext, TypeSafety, PTL DEF Spec

\* A signed kill checkpoint waits only for a marked subnet whose delay has
\* passed, and after the kill nothing waits.
Marked ==
  /\ killed = "NotKilled" => markedForKill = None /\ \A p \in psbts : ~p.kill
  /\ killed = "Killed" => psbts = {}
  /\ \A p \in psbts : p.kill => lastCheckpoint - markedForKill >= KillPeriod
  /\ KillDelay

LEMMA MarkedInit == Init => Marked
BY DEF Init, Marked, KillDelay

LEMMA MarkedCheckpoint ==
  ASSUME TypeInv, Numbered, Marked, NEW p \in psbts, Checkpoint(p)
  PROVE  Marked'
<1>1. /\ psbts' = {} /\ UNCHANGED markedForKill
      /\ killed # "Killed" /\ status = "active"
      /\ lastCheckpoint \in Int /\ markedForKill \in Int /\ KillPeriod \in Nat
  BY SubnetConstants DEF Checkpoint, Marked, TypeInv, TypeOK, Bootstrapped, None
<1>2. CASE Rejected(p.conf)
  BY <1>1, <1>2 DEF Checkpoint, Marked, KillDelay
<1>3. CASE ~Rejected(p.conf) /\ ~p.kill
  BY <1>1, <1>3 DEF Checkpoint, SaveCheckpoint, Marked, KillDelay
<1>4. CASE ~Rejected(p.conf) /\ p.kill
  <2>1. /\ killed' = "Killed"
        /\ lastCheckpoint' = lastCheckpoint + 1
        /\ lastCheckpoint - markedForKill >= KillPeriod
    BY <1>4 DEF Checkpoint, SaveCheckpoint, Marked
  <2>2. Len(checkpoints') = lastCheckpoint' + 1
    BY <1>4, NumberedCheckpoint DEF Numbered
  <2>3. checkpoints' # <<>> /\ checkpoints'[Len(checkpoints')].kill
    <3>1. checkpoints \in Seq(Checkpoints) /\ Len(checkpoints) \in Nat /\ committeeNumber \in Nat
      BY LenProperties DEF TypeInv, TypeOK
    <3>2. PICK n \in Nat : checkpoints' = Append(checkpoints, CheckpointRecord(p, n))
      BY <1>4, <3>1, CheckpointCases
    <3>3. CheckpointRecord(p, n) \in Checkpoints
      <4>1. committee' \in Committees
        BY <1>1, TypeCheckpoint DEF TypeInv, Bootstrapped, Checkpoint, genesisVars
      <4> QED
        BY <4>1, CheckpointRecordType
    <3>4. checkpoints'[Len(checkpoints')] = CheckpointRecord(p, n) /\ checkpoints' # <<>>
      BY <3>1, <3>2, <3>3, AppendProperties
    <3> QED
      BY <1>4, <3>4 DEF CheckpointRecord
  <2> QED
    BY <1>1, <2>1, <2>2, <2>3 DEF Marked, KillDelay
<1> QED
  BY <1>2, <1>3, <1>4

LEMMA MarkedGenCheckpoint ==
  ASSUME TypeInv, Marked, NEW c \in {0, childConf}, GenCheckpoint(c)
  PROVE  Marked'
<1>1. /\ UNCHANGED <<killed, markedForKill, lastCheckpoint, checkpoints>>
      /\ killed # "Killed"
      /\ lastCheckpoint \in Int /\ markedForKill \in Int /\ KillPeriod \in Nat
  BY SubnetConstants DEF GenCheckpoint, killVars, stateVars, TypeInv, TypeOK, None
<1>2. CASE ShouldKill
  <2>1. /\ killed = "ToBeKilled"
        /\ lastCheckpoint - markedForKill >= KillPeriod
    BY <1>1, <1>2 DEF ShouldKill, None
  <2> QED
    BY <1>1, <1>2, <2>1 DEF GenCheckpoint, Marked, KillDelay
<1>3. CASE ~ShouldKill
  <2>1. \A p \in psbts' : p \in psbts \/ p.kill = FALSE
    BY <1>3 DEF GenCheckpoint
  <2> QED
    BY <1>1, <2>1 DEF Marked, KillDelay
<1> QED
  BY <1>2, <1>3

LEMMA MarkedNext == TypeInv /\ Numbered /\ Marked /\ [Next]_vars => Marked'
<1> SUFFICES ASSUME TypeInv, Numbered, Marked, [Next]_vars PROVE Marked'
  OBVIOUS
<1>1. CASE UNCHANGED <<killed, markedForKill, psbts, lastCheckpoint, checkpoints>>
  BY <1>1 DEF Marked, KillDelay
<1>2. CASE NewBlock \/ ChildSync \/ CreateSubnet \/ UNCHANGED vars
  BY <1>1, <1>2 DEF NewBlock, ChildSync, CreateSubnet, vars, killVars, stateVars, outsideVars
<1>3. ASSUME NEW v \in Validators, NEW amount \in Amounts,
             \/ JoinPreBootstrap(v, amount)
             \/ JoinPostBootstrap(v, amount)
             \/ Stake(v, amount)
             \/ Unstake(v, amount)
      PROVE  Marked'
  BY <1>1, <1>3 DEF JoinPreBootstrap, JoinPostBootstrap, Stake, Unstake, RecordChanges,
     killVars, stateVars, outsideVars
<1>4. ASSUME NEW v \in Validators, Kill(v) PROVE Marked'
  <2>1. UNCHANGED <<psbts, lastCheckpoint, checkpoints>>
    BY <1>4 DEF Kill, stateVars, outsideVars
  <2>2. \/ UNCHANGED <<killed, markedForKill>>
        \/ killed = "NotKilled" /\ killed' = "ToBeKilled"
    BY <1>4 DEF Kill, NotKilled
  <2> QED
    BY <1>1, <2>1, <2>2 DEF Marked, KillDelay
<1> QED
  BY <1>2, <1>3, <1>4, MarkedGenCheckpoint, MarkedCheckpoint DEF Next

LEMMA MarkedAlways == Spec => []Marked
BY MarkedInit, MarkedNext, TypeSafety, NumberedAlways, PTL DEF Spec

\* In every reachable state a killed subnet ended with its kill checkpoint, and
\* KillPeriod checkpoints or more lie between the vote and that checkpoint.
THEOREM KillDelayed == Spec => []KillDelay
<1>1. Marked => KillDelay
  BY DEF Marked
<1> QED
  BY <1>1, MarkedAlways, PTL

\* A set of votes with one vote per validator.
OneEach(V) == \A r, s \in V : r.validator = s.validator => r = s

\* When no validator votes twice the power of the votes is the power of those
\* who cast them: VotePower counts requests, the threshold counts validators.
LEMMA VotesWeigh ==
  ASSUME Latest \in Committees, NEW V \in SUBSET KillRequests, OneEach(V)
  PROVE  VotePower(V) = PowerOfSet(Latest, {r.validator : r \in V})
<1> DEFINE c == Latest
           M == Members(c)
           R == {r \in V : r.validator \in M}
           U == {r.validator : r \in V} \cap M
           m == [r \in R |-> r.validator]
           f == [r \in V |-> Power(c, r.validator)]
           g == Powers(c)
<1>1. m \in [R -> U] /\ \A z \in U : \E x \in R : m[x] = z
  OBVIOUS
<1>2. \A x, y \in R : m[x] = m[y] => x = y
  BY DEF OneEach
<1>3. IsFiniteSet(U)
  BY PowersOK
<1>4. IsFiniteSet(R)
  <2>1. m \in Injection(R, U)
    BY <1>1, <1>2 DEF Injection, IsInjective
  <2> HIDE DEF m, R, U
  <2> QED BY <1>3, <2>1, FS_Injection
<1>5. \A x \in R : g[m[x]] = f[x] /\ f[x] \in Nat
  BY PowerNat DEF Powers, Members
<1>6. Ints(f, R)
  <2> HIDE DEF f, R
  <2> QED BY <1>5 DEF Ints
<1>7. VotePower(V) = SumFunctionOnSet(f, R)
  BY DEF VotePower
<1>8. PowerOfSet(c, {r.validator : r \in V}) = SumFunctionOnSet(g, U)
  BY PowersOK
<1>9. \A x \in R : g[m[x]] = f[x]
  BY <1>5
<1> HIDE DEF c, M, R, U, m, f, g
<1>10. SumFunctionOnSet(g, U) = SumFunctionOnSet(f, R)
  BY <1>1, <1>2, <1>4, <1>6, <1>9, SumRenamed
<1> QED BY <1>7, <1>8, <1>10 DEF c

\* Among the requests that a vote counts there is one per validator.
LEMMA CountedOnce ==
  ASSUME TypeInv, Voted
  PROVE  ValidKillRequests \in SUBSET KillRequests /\ OneEach(ValidKillRequests)
<1>1. ValidKillRequests \in SUBSET KillRequests
  BY DEF TypeInv, TypeOK, ValidKillRequests
<1>2. ASSUME NEW r \in ValidKillRequests, NEW s \in ValidKillRequests, r.validator = s.validator
      PROVE  r = s
  <2>1. height \in Nat /\ KillWindow \in Nat /\ r.height \in Nat /\ s.height \in Nat
    BY <1>1, SubnetConstants DEF TypeInv, TypeOK, KillRequests
  <2>2. /\ r.height <= height /\ s.height <= height
        /\ r.height >= height - KillWindow /\ s.height >= height - KillWindow
        /\ r.height < s.height => s.height - r.height > KillWindow
        /\ s.height < r.height => r.height - s.height > KillWindow
    BY <1>2 DEF Voted, NoDoubleKillVote, ValidKillRequests
  <2>3. r.height = s.height
    BY <2>1, <2>2
  <2> QED BY <1>1, <1>2, <2>3 DEF KillRequests
<1> QED BY <1>1, <1>2 DEF OneEach

\* The vote that marks a subnet has distinct validators behind it that hold more
\* than two thirds of the latest committee's power, whatever the order in which
\* requests, stake changes and blocks arrived: IpcKillSubnetMsg weighs the
\* requests of the window, each of which is some validator's only one.
THEOREM KillQuorum == Spec => KillNeedsQuorum
<1> DEFINE Step == (NotKilled /\ killed' # "NotKilled") =>
                     3 * PowerOfSet(Latest, {r.validator : r \in ValidKillRequests'})
                       > 2 * TotalPower(Latest)
<1>1. TypeInv /\ Voted /\ TypeInv' /\ Voted' /\ Marked /\ [Next]_vars => [Step]_vars
  <2> SUFFICES ASSUME TypeInv, Voted, TypeInv', Voted', Marked, [Next]_vars,
                      NotKilled, killed' # "NotKilled"
               PROVE  3 * PowerOfSet(Latest, {r.validator : r \in ValidKillRequests'})
                        > 2 * TotalPower(Latest)
    OBVIOUS
  <2>1. killed' # killed
    BY DEF NotKilled
  <2>2. ~(NewBlock \/ ChildSync \/ CreateSubnet \/ UNCHANGED vars)
    BY <2>1 DEF NewBlock, ChildSync, CreateSubnet, vars, killVars
  <2>3. ASSUME NEW v \in Validators, NEW amount \in Amounts,
               \/ JoinPreBootstrap(v, amount)
               \/ JoinPostBootstrap(v, amount)
               \/ Stake(v, amount)
               \/ Unstake(v, amount)
        PROVE  FALSE
    BY <2>1, <2>3 DEF JoinPreBootstrap, JoinPostBootstrap, Stake, Unstake, RecordChanges, killVars
  <2>4. ASSUME NEW c \in {0, childConf}, GenCheckpoint(c) PROVE FALSE
    BY <2>1, <2>4 DEF GenCheckpoint, killVars
  <2>5. ASSUME NEW p \in psbts, Checkpoint(p) PROVE FALSE
    BY <2>1, <2>5 DEF Checkpoint, SaveCheckpoint, Marked, NotKilled
  <2>6. PICK v \in Validators : Kill(v)
    BY <2>2, <2>3, <2>4, <2>5 DEF Next
  <2> DEFINE V == ValidKillRequests'
             A == {r.validator : r \in V}
             t == TotalPower(Latest)
             a == PowerOfSet(Latest, A)
  <2>7. V = ValidKillRequests \cup {[validator |-> v, height |-> height]}
    <3>1. height \in Nat /\ KillWindow \in Nat /\ height' = height
          /\ killRequests' = killRequests \cup {[validator |-> v, height |-> height]}
      BY <2>6, SubnetConstants DEF Kill, outsideVars, TypeInv, TypeOK
    <3> QED BY <3>1 DEF ValidKillRequests
  <2>8. VotePower(V) >= MultisigThreshold(t)
    BY <2>1, <2>6, <2>7 DEF Kill
  <2>9. V \in SUBSET KillRequests /\ OneEach(V)
    <3>1. (TypeInv /\ Voted)' => (ValidKillRequests \in SUBSET KillRequests /\ OneEach(ValidKillRequests))'
      BY CountedOnce, PTL
    <3> QED BY <3>1 DEF OneEach
  <2>10. Latest \in Committees
    BY <2>6, LatestType DEF Kill, TypeInv, Bootstrapped
  <2> HIDE DEF V
  <2>11. VotePower(V) = a
    BY <2>9, <2>10, VotesWeigh
  <2>12. a \in Nat /\ t \in Nat
    BY <2>10, PowersOK DEF TotalPower
  <2> HIDE DEF a, t
  <2>13. 3 * a > 2 * t
    BY <2>8, <2>11, <2>12 DEF MultisigThreshold
  <2> QED BY <2>13 DEF a, t, V
<1>2. Spec => []Voted
  BY VotedInit, VotedNext, TypeSafety, PTL DEF Spec
<1> QED
  BY <1>1, <1>2, TypeSafety, MarkedAlways, PTL DEF Spec, KillNeedsQuorum

\* A marked subnet records no stake change and stays marked, and a killed one
\* changes neither its committee nor its checkpoints: the kill checkpoint is
\* the last transaction of the committee that the monitor accepts.
THEOREM Frozen == Spec => FrozenOnceMarked
<1> DEFINE Step == /\ killed # "NotKilled" =>
                        Len(stakeChanges') = Len(stakeChanges) /\ killed' # "NotKilled"
                   /\ killed = "Killed" => UNCHANGED stateVars /\ killed' = "Killed"
<1>1. TypeInv /\ Marked /\ [Next]_vars => [Step]_vars
  <2> SUFFICES ASSUME TypeInv, Marked, [Next]_vars, killed # "NotKilled" PROVE Step
    OBVIOUS
  <2>1. CASE UNCHANGED <<killed, stakeChanges, stateVars>>
    BY <2>1
  <2>2. CASE NewBlock \/ ChildSync \/ CreateSubnet \/ UNCHANGED vars
    BY <2>1, <2>2 DEF NewBlock, ChildSync, CreateSubnet, vars, killVars, changeVars
  <2>3. ASSUME NEW v \in Validators, NEW amount \in Amounts,
               \/ JoinPreBootstrap(v, amount)
               \/ JoinPostBootstrap(v, amount)
               \/ Stake(v, amount)
               \/ Unstake(v, amount)
        PROVE  FALSE
    BY <2>3 DEF JoinPreBootstrap, JoinPostBootstrap, Stake, Unstake, ValidatePostBootstrap,
           ValidateStake, ValidateUnstake, NotKilled, TypeInv,
       Bootstrapped
  <2>4. ASSUME NEW v \in Validators, Kill(v) PROVE Step
    BY <2>1, <2>4 DEF Kill, NotKilled, changeVars
  <2>5. ASSUME NEW c \in {0, childConf}, GenCheckpoint(c) PROVE Step
    BY <2>1, <2>5 DEF GenCheckpoint, killVars, changeVars
  <2>6. ASSUME NEW p \in psbts, Checkpoint(p) PROVE Step
    <3>1. killed # "Killed"
      BY <2>6 DEF Marked
    <3>2. killed' \in {killed, "Killed"}
      BY <2>6 DEF Checkpoint, SaveCheckpoint
    <3>3. Len(stakeChanges') = Len(stakeChanges)
      <4>1. p \in Psbts /\ stakeChanges \in Seq(Changes)
        BY DEF TypeInv, TypeOK
      <4>2. stakeChanges' \in {stakeChanges, SettleChanges(p)}
        BY <2>6 DEF Checkpoint, SaveCheckpoint, changeVars
      <4> QED
        BY <4>1, <4>2, SettleChangesType
    <3> QED
      BY <3>1, <3>2, <3>3
  <2> QED
    BY <2>2, <2>3, <2>4, <2>5, <2>6 DEF Next
<1> QED
  BY <1>1, TypeSafety, MarkedAlways, PTL DEF Spec, FrozenOnceMarked

----------------------------------------------------------------------------
(* Committees can spend.                                                   *)

LEMMA SpendableInit == Init => SpendableCommittees
BY DEF Init, SpendableCommittees

LEMMA SpendableNext == TypeInv /\ SpendableCommittees /\ [Next]_vars
                         => SpendableCommittees'
<1> SUFFICES ASSUME TypeInv, SpendableCommittees, [Next]_vars PROVE SpendableCommittees'
  OBVIOUS
<1>1. CASE UNCHANGED <<committees, stakeChanges, waiting>>
  BY <1>1 DEF SpendableCommittees
<1>2. CASE NewBlock \/ ChildSync \/ CreateSubnet \/ UNCHANGED vars
  BY <1>1, <1>2 DEF NewBlock, ChildSync, CreateSubnet, vars, stateVars, changeVars
<1>3. ASSUME NEW v \in Validators, NEW amount \in Amounts, JoinPreBootstrap(v, amount)
      PROVE  SpendableCommittees'
  <2> DEFINE first == [conf |-> 0, stake |-> [genesisStake EXCEPT ![v] = amount]]
  <2>1. UNCHANGED <<stakeChanges, waiting>>
    BY <1>3 DEF JoinPreBootstrap, changeVars
  <2>2. \/ UNCHANGED committees
        \/ MultisigValid(first) /\ committees' = [n \in {1} |-> first]
    BY <1>3 DEF JoinPreBootstrap, ToSubnet
  <2> HIDE DEF first
  <2> QED
    BY <2>1, <2>2 DEF SpendableCommittees
<1>4. ASSUME NEW next, NEW changes, MessageChanges(next, changes), RecordChanges(next, changes)
      PROVE  SpendableCommittees'
  <2>1. stakeChanges \in Seq(Changes) /\ changes \in Seq(Changes) /\ UNCHANGED committees
    BY <1>4 DEF TypeInv, TypeOK, RecordChanges, stateVars, MessageChanges
  <2>2. CASE UNCHANGED changeVars
    BY <1>1, <2>1, <2>2 DEF changeVars
  <2>3. CASE MultisigValid(next) /\ waiting' = next /\ stakeChanges' = stakeChanges \o changes
    <3> DEFINE both == stakeChanges \o changes
               len == Len(stakeChanges)
               more == Len(changes)
    <3>1. /\ both \in Seq(Changes) /\ Len(both) = len + more /\ len \in Nat /\ more \in Nat
          /\ \A n \in 1..(len + more) :
               both[n] = IF n <= len THEN stakeChanges[n] ELSE changes[n - len]
          /\ DOMAIN stakeChanges = 1..len
      BY <2>1, ConcatProperties, LenProperties
    <3>2. DOMAIN both = 1..(len + more)
      <4> HIDE DEF both
      <4> QED
        BY <3>1, LenProperties
    <3>3. \A i \in 1..more : changes[i].committee = next
      BY <1>4 DEF MessageChanges
    <3>4. stakeChanges' = both
      BY <2>3
    <3> HIDE DEF both, len, more
    <3>5. ASSUME NEW n \in 1..(len + more)
          PROVE  MultisigValid(both[n].committee)
      <4>1. CASE n <= len
        BY <3>1, <4>1 DEF SpendableCommittees
      <4>2. CASE ~(n <= len)
        <5>1. n - len \in 1..more
          BY <3>1, <4>2
        <5>2. both[n].committee = next
          BY <3>1, <3>3, <4>2, <5>1
        <5> QED
          BY <2>3, <5>2
      <4> QED
        BY <4>1, <4>2
    <3> QED
      BY <2>1, <2>3, <3>2, <3>4, <3>5 DEF SpendableCommittees
  <2> QED
    BY <1>4, <2>2, <2>3 DEF RecordChanges
<1>5. ASSUME NEW v \in Validators, Kill(v) PROVE SpendableCommittees'
  BY <1>1, <1>5 DEF Kill, stateVars, changeVars
<1>6. ASSUME NEW c \in {0, childConf}, GenCheckpoint(c) PROVE SpendableCommittees'
  BY <1>1, <1>6 DEF GenCheckpoint, stateVars, changeVars
<1>7. ASSUME NEW p \in psbts, Checkpoint(p) PROVE SpendableCommittees'
  <2> DEFINE next == stakeChanges[p.conf].committee
             num == committeeNumber + 1
  <2>1. CASE Rejected(p.conf)
    BY <1>1, <1>7, <2>1 DEF Checkpoint, stateVars, changeVars
  <2>2. CASE ~Rejected(p.conf)
    <3>1. /\ waiting' \in {waiting, NoCommittee}
          /\ \/ UNCHANGED committees
             \/ /\ p.conf \in DOMAIN stakeChanges
                /\ committees' = [n \in DOMAIN committees \cup {num} |->
                                    IF n = num THEN next ELSE committees[n]]
      BY <1>7, <2>2, CheckpointCases
    <3>2. p.conf \in DOMAIN stakeChanges => MultisigValid(next)
      BY DEF SpendableCommittees
    <3> HIDE DEF next
    <3>3. \A n \in DOMAIN committees' : MultisigValid(committees'[n])
      BY <3>1, <3>2 DEF SpendableCommittees
    <3>4. \A n \in DOMAIN stakeChanges' : MultisigValid(stakeChanges'[n].committee)
      <4>1. p \in Psbts /\ stakeChanges \in Seq(Changes)
        BY DEF TypeInv, TypeOK
      <4>2. stakeChanges' = SettleChanges(p)
        BY <1>7, <2>2 DEF Checkpoint, SaveCheckpoint
      <4> QED
        BY <4>1, <4>2, SettleChangesType DEF SpendableCommittees
    <3> QED
      BY <3>1, <3>3, <3>4 DEF SpendableCommittees
  <2> QED
    BY <2>1, <2>2
<1> QED
  BY <1>2, <1>3, <1>4, <1>5, <1>6, <1>7, StakeChangeMessage DEF Next

\* In every reachable state each committee that is, was or may become the owner
\* of the funds can reach its own signing threshold.
THEOREM Spendable == Spec => []SpendableCommittees
BY SpendableInit, SpendableNext, TypeSafety, PTL DEF Spec

----------------------------------------------------------------------------
(* No withdrawal counts as applied without having been paid.  The provider *)
(* pays the pending withdrawals of the members of the committee in force,  *)
(* so the argument is about who can be a member of which committee while   *)
(* changes wait.                                                           *)

\* Change n is recorded and not applied yet.
Pending(n) == n \in DOMAIN stakeChanges /\ ~stakeChanges[n].confirmed

\* The members once change n is applied, and now.
After(n) == Members(stakeChanges[n].committee)

Now == Members(committee)

\* Of two pending changes: who is a member now and after the later one is one
\* after the earlier one (who left cannot come back before leaving takes
\* effect), and who comes with the earlier one is still there after the later
\* one (who waits to become a member cannot leave).
Steady ==
  \A k, l \in DOMAIN stakeChanges : (Pending(k) /\ Pending(l) /\ k <= l) =>
    /\ \A v \in Now : v \in After(l) => v \in After(k)
    /\ \A v \in After(k) : v \notin Now => v \in After(l)

\* The members of the committee that the handlers build upon are those after
\* the last pending change, though waiting_committee may have been dropped.
LatestIsLast ==
  /\ status # "active" => waiting = NoCommittee
  /\ status = "active" =>
       Members(Latest) = IF Pending(Len(stakeChanges)) THEN After(Len(stakeChanges)) ELSE Now

\* Who withdraws is a member until the withdrawal is applied.
WithdrawersStay ==
  \A n \in DOMAIN stakeChanges : (Pending(n) /\ stakeChanges[n].kind = "Withdraw") =>
    /\ stakeChanges[n].validator \in Now
    /\ \A k \in DOMAIN stakeChanges :
         (Pending(k) /\ k < n) => stakeChanges[n].validator \in After(k)

\* No transaction in flight names a change before the last one applied, and
\* that one led to the members in force.
LastApplied ==
  \A n \in DOMAIN stakeChanges : stakeChanges[n].confirmed =>
    /\ n <= childConf
    /\ \A p \in psbts : p.conf = 0 \/ n <= p.conf
    /\ (\A m \in DOMAIN stakeChanges : m > n => ~stakeChanges[m].confirmed)
         => SameCommittee(stakeChanges[n].committee, committee)

\* A transaction in flight pays every pending withdrawal it applies.
PsbtPays ==
  \A p \in psbts : p.kill \/ KeepsCommittee(p.conf) \/
    \A n \in DOMAIN stakeChanges :
      (Pending(n) /\ stakeChanges[n].kind = "Withdraw" /\ n <= p.conf) => n \in p.unstakes

PayInv ==
  /\ Steady /\ LatestIsLast /\ WithdrawersStay
  /\ LastApplied /\ PsbtPays
  /\ WithdrawalPaid

----------------------------------------------------------------------------

\* Committees with one address have the same members.
LEMMA SameMembers ==
  ASSUME NEW c, NEW d, SameCommittee(c, d)
  PROVE  Members(c) = Members(d)
<1>1. Members(c) = DOMAIN Address(c) /\ Members(d) = DOMAIN Address(d)
  BY DEF Address
<1> QED
  BY <1>1 DEF SameCommittee

LEMMA PayInit == Init => PayInv
BY EmptySeq DEF Init, PayInv, Steady, LatestIsLast, WithdrawersStay, LastApplied, PsbtPays,
   WithdrawalPaid

\* A step that neither records nor applies a change and makes no transaction.
LEMMA PayFrame ==
  ASSUME TypeInv, PayInv, UNCHANGED <<committee, waiting>>,
         status' = status \/ (status # "active" /\ status' # "active"),
         psbts' \subseteq psbts, childConf' \in Nat, childConf <= childConf',
         killed = "Killed" => killed' = "Killed",
         DOMAIN stakeChanges' = DOMAIN stakeChanges,
         Len(stakeChanges') = Len(stakeChanges),
         \A n \in DOMAIN stakeChanges :
           /\ stakeChanges'[n].kind = stakeChanges[n].kind
           /\ stakeChanges'[n].validator = stakeChanges[n].validator
           /\ stakeChanges'[n].committee = stakeChanges[n].committee
           /\ stakeChanges'[n].confirmed = stakeChanges[n].confirmed
           /\ stakeChanges[n].paid >= 1 => stakeChanges'[n].paid >= 1
  PROVE  PayInv'
<1>1. Steady'
  BY DEF PayInv, Steady, Pending, After, Now
<1>2. LatestIsLast'
  BY DEF PayInv, LatestIsLast, Pending, After, Now, Latest
<1>3. WithdrawersStay'
  BY DEF PayInv, WithdrawersStay, Pending, After, Now
<1>4. LastApplied'
  <2>1. childConf \in Nat /\ DOMAIN stakeChanges \subseteq Nat
    BY LenProperties DEF TypeInv, TypeOK
  <2> QED
    BY <2>1 DEF PayInv, LastApplied
<1>5. PsbtPays'
  BY DEF PayInv, PsbtPays, Pending, KeepsCommittee
<1>6. WithdrawalPaid'
  BY DEF PayInv, WithdrawalPaid
<1> QED
  BY <1>1, <1>2, <1>3, <1>4, <1>5, <1>6 DEF PayInv

\* If anything is pending then the last change is, and the latest committee
\* has the members after it.
LEMMA LatestAfterLast ==
  ASSUME TypeInv, Configured, PayInv, status = "active",
         NEW k \in DOMAIN stakeChanges, ~stakeChanges[k].confirmed
  PROVE  /\ Len(stakeChanges) \in DOMAIN stakeChanges /\ k <= Len(stakeChanges)
         /\ ~stakeChanges[Len(stakeChanges)].confirmed
         /\ Members(Latest) = After(Len(stakeChanges))
<1> DEFINE len == Len(stakeChanges)
<1>1. len \in Nat /\ DOMAIN stakeChanges = 1..len
  BY LenProperties DEF TypeInv, TypeOK
<1>2. \A m \in DOMAIN stakeChanges : m > k => ~stakeChanges[m].confirmed
  BY DEF Configured, PendingIsAhead
<1> HIDE DEF len
<1>3. len \in DOMAIN stakeChanges /\ k <= len /\ (len = k \/ len > k)
  BY <1>1
<1>4. ~stakeChanges[len].confirmed
  BY <1>2, <1>3, Zenon
<1> QED
  BY <1>3, <1>4 DEF PayInv, LatestIsLast, Pending, len

\* The handlers of the stake changes: the appended changes lead to the members
\* of the next committee, which MemberChanges relates to the latest one.
LEMMA PayRecord ==
  ASSUME TypeInv, Configured, PayInv, status = "active", NEW next, NEW changes,
         MessageChanges(next, changes), MemberChanges(next, changes),
         RecordChanges(next, changes)
  PROVE  PayInv'
<1> DEFINE len == Len(stakeChanges)
           more == Len(changes)
           both == stakeChanges \o changes
<1>1. /\ stakeChanges \in Seq(Changes)
      /\ len \in Nat /\ DOMAIN stakeChanges = 1..len
      /\ more \in Nat \ {0}
      /\ next \in Committees
  BY LenProperties, EmptySeq DEF TypeInv, TypeOK, MessageChanges
<1>2. UNCHANGED <<committee, childConf, psbts, status, killed>> /\ childConf \in Nat
  BY DEF RecordChanges, stateVars, outsideVars, genesisVars, killVars, TypeInv, TypeOK
<1>3. CASE UNCHANGED changeVars
  BY <1>2, <1>3, PayFrame DEF changeVars
<1>4. CASE waiting' = next /\ stakeChanges' = both
  <2>1. /\ both \in Seq(Changes)
        /\ Len(both) = len + more
        /\ \A n \in 1..(len + more) :
             both[n] = IF n <= len THEN stakeChanges[n] ELSE changes[n - len]
    BY <1>1, ConcatProperties DEF MessageChanges
  <2>2. DOMAIN both = 1..(len + more)
    <3> HIDE DEF both
    <3> QED
      BY <2>1, LenProperties
  <2>3. \A i \in 1..more :
          /\ changes[i].committee = next
          /\ changes[i].confirmed = FALSE
          /\ changes[i].kind = "Withdraw" =>
               /\ changes[i].validator \in Now
               /\ changes[i].validator \in Members(Latest)
    BY DEF MessageChanges, MemberChanges, Now
  <2>4. /\ \A w \in Now : w \in Members(next) => w \in Members(Latest)
        /\ \A w \in Members(Latest) : w \notin Now => w \in Members(next)
    BY DEF MemberChanges, Now
  <2>5. Len(stakeChanges') = len + more
    BY <1>4, <2>1
  <2>6. childConf <= len /\ \A p \in psbts : p.conf <= childConf /\ p.conf \in Nat
    BY DEF Configured, ConfBound, PsbtBound, TypeInv, TypeOK, Psbts
  <2>7. \A k \in 1..len : ~stakeChanges[k].confirmed =>
          /\ len \in 1..len /\ k <= len /\ ~stakeChanges[len].confirmed
          /\ Members(Latest) = After(len)
    BY <1>1, LatestAfterLast
  <2> HIDE DEF both, len, more
  <2>8. /\ DOMAIN stakeChanges' = 1..(len + more)
        /\ \A n \in 1..len : n \in 1..(len + more) /\ stakeChanges'[n] = stakeChanges[n]
        /\ \A n \in (len + 1)..(len + more) : stakeChanges'[n] = changes[n - len]
        /\ \A n \in 1..(len + more) : n \in 1..len \/ n \in (len + 1)..(len + more)
    BY <1>1, <1>4, <2>1, <2>2
  <2>9. \A n \in (len + 1)..(len + more) :
          /\ stakeChanges'[n].committee = next
          /\ stakeChanges'[n].confirmed = FALSE
          /\ stakeChanges'[n].kind = "Withdraw" =>
               /\ stakeChanges'[n].validator \in Now
               /\ stakeChanges'[n].validator \in Members(Latest)
    <3> SUFFICES ASSUME NEW n \in (len + 1)..(len + more)
                 PROVE  /\ stakeChanges'[n].committee = next
                        /\ stakeChanges'[n].confirmed = FALSE
                        /\ stakeChanges'[n].kind = "Withdraw" =>
                             /\ stakeChanges'[n].validator \in Now
                             /\ stakeChanges'[n].validator \in Members(Latest)
      OBVIOUS
    <3>1. n - len \in 1..more
      BY <1>1
    <3> QED
      BY <2>3, <2>8, <3>1
  <2>10. \A k, l \in 1..len : (~stakeChanges[k].confirmed /\ ~stakeChanges[l].confirmed /\ k <= l) =>
           /\ \A v \in Now : v \in After(l) => v \in After(k)
           /\ \A v \in After(k) : v \notin Now => v \in After(l)
    BY <1>1 DEF PayInv, Steady, Pending
  <2>11. ASSUME NEW k \in 1..len, ~stakeChanges[k].confirmed
         PROVE  /\ \A v \in Now : v \in Members(Latest) => v \in After(k)
                /\ \A v \in After(k) : v \notin Now => v \in Members(Latest)
    BY <2>7, <2>10, <2>11
  <2>12. Steady'
    <3> SUFFICES ASSUME NEW k \in 1..(len + more), NEW l \in 1..(len + more),
                        ~stakeChanges'[k].confirmed, ~stakeChanges'[l].confirmed, k <= l
                 PROVE  /\ \A v \in Now : v \in Members(stakeChanges'[l].committee) =>
                                            v \in Members(stakeChanges'[k].committee)
                        /\ \A v \in Members(stakeChanges'[k].committee) : v \notin Now =>
                                            v \in Members(stakeChanges'[l].committee)
      BY <1>2, <2>8 DEF Steady, Pending, After, Now
    <3>1. CASE k \in 1..len /\ l \in 1..len
      BY <2>8, <2>10, <3>1 DEF After
    <3>2. CASE k \in 1..len /\ l \in (len + 1)..(len + more)
      BY <2>4, <2>8, <2>9, <2>11, <3>2 DEF After
    <3>3. CASE k \in (len + 1)..(len + more)
      <4>1. l \in (len + 1)..(len + more)
        BY <1>1, <3>3
      <4> QED
        BY <2>9, <3>3, <4>1
    <3> QED
      BY <2>8, <3>1, <3>2, <3>3
  <2>13. LatestIsLast'
    <3>1. len + more \in (len + 1)..(len + more) /\ len + more \in 1..(len + more)
      BY <1>1
    <3>2. Latest' = next
      BY <1>1, <1>4, NoCommitteeIsNone DEF Latest
    <3> QED
      BY <1>2, <2>5, <2>8, <2>9, <3>1, <3>2 DEF LatestIsLast, Pending, After
  <2>14. WithdrawersStay'
    <3> SUFFICES ASSUME NEW n \in 1..(len + more), ~stakeChanges'[n].confirmed,
                        stakeChanges'[n].kind = "Withdraw"
                 PROVE  /\ stakeChanges'[n].validator \in Now
                        /\ \A k \in 1..(len + more) : (~stakeChanges'[k].confirmed /\ k < n) =>
                             stakeChanges'[n].validator \in Members(stakeChanges'[k].committee)
      BY <1>2, <2>8 DEF WithdrawersStay, Pending, After, Now
    <3>1. CASE n \in 1..len
      <4>1. /\ stakeChanges[n].validator \in Now
            /\ \A k \in 1..len : (~stakeChanges[k].confirmed /\ k < n) =>
                 stakeChanges[n].validator \in Members(stakeChanges[k].committee)
        BY <1>1, <2>8, <3>1 DEF PayInv, WithdrawersStay, Pending, After
      <4>2. \A k \in 1..(len + more) : k < n => k \in 1..len
        BY <1>1, <3>1
      <4> QED
        BY <2>8, <3>1, <4>1, <4>2
    <3>2. CASE n \in (len + 1)..(len + more)
      <4>1. stakeChanges'[n].validator \in Now /\ stakeChanges'[n].validator \in Members(Latest)
        BY <2>9, <3>2
      <4>2. ASSUME NEW k \in 1..len, ~stakeChanges'[k].confirmed
            PROVE  stakeChanges'[n].validator \in Members(stakeChanges'[k].committee)
        BY <2>8, <2>11, <4>1, <4>2 DEF After
      <4>3. ASSUME NEW k \in (len + 1)..(len + more)
            PROVE  ~(k < n)
        <5>1. more = 1
          <6>1. n - len \in 1..more /\ stakeChanges'[n] = changes[n - len]
            BY <1>1, <2>8, <3>2
          <6> QED
            BY <6>1 DEF MemberChanges, more
        <5> QED
          BY <1>1, <3>2, <4>3, <5>1
      <4> QED
        BY <2>8, <4>1, <4>2, <4>3
    <3> QED
      BY <2>8, <3>1, <3>2
  <2>15. ASSUME NEW n \in 1..(len + more), stakeChanges'[n].confirmed
         PROVE  n \in 1..len /\ stakeChanges'[n] = stakeChanges[n]
    BY <2>8, <2>9, <2>15
  <2>16. LastApplied'
    <3> SUFFICES ASSUME NEW n \in 1..(len + more), stakeChanges'[n].confirmed
                 PROVE  /\ n <= childConf
                        /\ \A p \in psbts : p.conf = 0 \/ n <= p.conf
                        /\ (\A m \in 1..(len + more) : m > n => ~stakeChanges'[m].confirmed)
                             => SameCommittee(stakeChanges'[n].committee, committee)
      BY <1>2, <2>8 DEF LastApplied
    <3> QED
      BY <1>1, <2>8, <2>15 DEF PayInv, LastApplied
  <2>17. PsbtPays'
    <3> SUFFICES ASSUME NEW p \in psbts, ~p.kill, ~KeepsCommittee(p.conf),
                        NEW n \in 1..(len + more), ~stakeChanges'[n].confirmed,
                        stakeChanges'[n].kind = "Withdraw", n <= p.conf
                 PROVE  n \in p.unstakes
      BY <1>2, <2>8 DEF PsbtPays, Pending, KeepsCommittee
    <3>1. n \in 1..len
      BY <1>1, <1>2, <2>6
    <3> QED
      BY <1>1, <2>8, <3>1 DEF PayInv, PsbtPays, Pending
  <2>18. WithdrawalPaid'
    BY <1>1, <1>2, <2>8, <2>15 DEF PayInv, WithdrawalPaid
  <2> QED
    BY <2>12, <2>13, <2>14, <2>16, <2>17, <2>18 DEF PayInv
<1> QED
  BY <1>3, <1>4 DEF RecordChanges

\* The provider pays every pending withdrawal, as those who made them are still
\* members.
LEMMA PayGenCheckpoint ==
  ASSUME TypeInv, PayInv, NEW c \in {0, childConf}, GenCheckpoint(c)
  PROVE  PayInv'
<1>1. UNCHANGED <<committee, childConf, waiting, stakeChanges, status, killed>>
  BY DEF GenCheckpoint, stateVars, changeVars, genesisVars, killVars
<1>2. PICK kill, unstakes :
        /\ psbts' = psbts \cup {[conf |-> c, kill |-> kill, unstakes |-> unstakes]}
        /\ kill \/ KeepsCommittee(c) \/ unstakes = PendingUnstakes
  <2>1. CASE ShouldKill
    BY <2>1 DEF GenCheckpoint
  <2>2. CASE ~ShouldKill
    BY <2>2 DEF GenCheckpoint
  <2> QED
    BY <2>1, <2>2
<1>3. Steady' /\ LatestIsLast' /\ WithdrawersStay' /\ WithdrawalPaid'
  BY <1>1 DEF PayInv, Steady, LatestIsLast, WithdrawersStay, WithdrawalPaid, Pending, After,
     Now, Latest
<1>4. LastApplied'
  BY <1>1, <1>2 DEF PayInv, LastApplied
<1>5. ASSUME NEW n \in DOMAIN stakeChanges, ~stakeChanges[n].confirmed,
             stakeChanges[n].kind = "Withdraw"
      PROVE  n \in PendingUnstakes
  BY <1>5 DEF PayInv, WithdrawersStay, Pending, Now, PendingUnstakes
<1>6. PsbtPays'
  BY <1>1, <1>2, <1>5 DEF PayInv, PsbtPays, Pending, KeepsCommittee
<1> QED
  BY <1>3, <1>4, <1>6 DEF PayInv

\* The checkpoint that applies the changes up to the one it names.
LEMMA PayCheckpoint ==
  ASSUME TypeInv, Configured, PayInv, NEW p \in psbts, Checkpoint(p)
  PROVE  PayInv'
<1> DEFINE c == p.conf
           next == stakeChanges[c].committee
           len == Len(stakeChanges)
<1>1. /\ p \in Psbts /\ c \in Nat /\ c <= childConf
      /\ stakeChanges \in Seq(Changes) /\ len \in Nat /\ DOMAIN stakeChanges = 1..len
      /\ childConf \in Nat /\ psbts' = {} /\ UNCHANGED <<childConf, status>>
      /\ status = "active"
  BY LenProperties DEF TypeInv, TypeOK, Bootstrapped, Psbts, Checkpoint, genesisVars, Configured,
     PsbtBound
<1>0. \A n \in 1..len : stakeChanges[n] \in Changes
  BY <1>1, ElementOfSeq
<1>2. CASE Rejected(c)
  BY <1>1, <1>2, PayFrame DEF Checkpoint, stateVars, changeVars
<1>3. ASSUME ~Rejected(c)
      PROVE  /\ SaveCheckpoint(p)
             /\ Len(stakeChanges') = len /\ DOMAIN stakeChanges' = 1..len
             /\ \A n \in 1..len :
                  /\ stakeChanges'[n].kind = stakeChanges[n].kind
                  /\ stakeChanges'[n].validator = stakeChanges[n].validator
                  /\ stakeChanges'[n].committee = stakeChanges[n].committee
                  /\ stakeChanges[n].paid >= 1 => stakeChanges'[n].paid >= 1
                  /\ n \in p.unstakes => stakeChanges'[n].paid >= 1
                  /\ stakeChanges'[n].confirmed =
                       (stakeChanges[n].confirmed \/ (~KeepsCommittee(c) /\ n <= c))
             /\ killed = "Killed" \/ p.kill => killed' = "Killed"
  <2>1. SaveCheckpoint(p) /\ stakeChanges' = SettleChanges(p)
    BY <1>3 DEF Checkpoint, SaveCheckpoint
  <2>2. /\ Len(stakeChanges') = len /\ DOMAIN stakeChanges' = 1..len
        /\ \A n \in 1..len : /\ stakeChanges'[n].kind = stakeChanges[n].kind
                             /\ stakeChanges'[n].committee = stakeChanges[n].committee
    BY <1>1, <2>1, SettleChangesType
  <2>3. \A n \in 1..len : stakeChanges'[n].confirmed =
          (stakeChanges[n].confirmed \/ (~KeepsCommittee(c) /\ n <= c))
    BY <1>1, <2>1 DEF SettleChanges, SettledChange, ConfirmUpTo
  <2>4. \A n \in 1..len :
          /\ stakeChanges'[n].validator = stakeChanges[n].validator
          /\ stakeChanges'[n].paid = IF n \in p.unstakes THEN stakeChanges[n].paid + 1
                                                         ELSE stakeChanges[n].paid
    BY <1>1, <2>1 DEF SettleChanges, SettledChange
  <2>5. \A n \in 1..len : stakeChanges[n].paid \in Nat
    BY <1>0 DEF Changes
  <2>6. killed = "Killed" \/ p.kill => killed' = "Killed"
    BY <2>1 DEF SaveCheckpoint
  <2> HIDE DEF len
  <2>7. \A n \in 1..len : /\ stakeChanges[n].paid >= 1 => stakeChanges'[n].paid >= 1
                          /\ n \in p.unstakes => stakeChanges'[n].paid >= 1
    BY <2>4, <2>5
  <2> QED
    BY <2>1, <2>2, <2>3, <2>4, <2>6, <2>7
<1>4. CASE ~Rejected(c) /\ KeepsCommittee(c)
  <2>1. UNCHANGED <<committee, waiting>>
    BY <1>4, CheckpointCases
  <2>2. \A n \in 1..len : stakeChanges'[n].confirmed = stakeChanges[n].confirmed
    <3>1. \A n \in 1..len : stakeChanges[n].confirmed \in BOOLEAN
      BY <1>0 DEF Changes
    <3> QED
      BY <1>3, <1>4, <3>1, Zenon
  <2> HIDE DEF len
  <2> QED
    BY <1>1, <1>3, <1>4, <2>1, <2>2, PayFrame DEF len
<1>5. CASE ~Rejected(c) /\ ~KeepsCommittee(c)
  <2>1. /\ c \in 1..len /\ c # 0
        /\ next \in Committees
        /\ \/ /\ SameCommittee(committee, next)
              /\ UNCHANGED <<committee, waiting>>
           \/ /\ ~SameCommittee(committee, next)
              /\ committee' = next
              /\ waiting' = IF SameCommittee(waiting, next) THEN NoCommittee ELSE waiting
    <3>1. RotateToCommittee(next)
      BY <1>3, <1>5 DEF SaveCheckpoint
    <3> QED
      BY <1>1, <1>5, <3>1, CheckpointCases DEF RotateToCommittee
  <2>2. \A n \in 1..len : stakeChanges[n].confirmed => n <= c
    BY <1>1, <2>1 DEF PayInv, LastApplied
  <2>3. \A n \in 1..len : stakeChanges'[n].confirmed <=> n <= c
    BY <1>3, <1>5, <2>2, Zenon
  <2>4. \A n \in 1..len : ~stakeChanges'[n].confirmed => n > c /\ ~stakeChanges[n].confirmed
    <3>1. \A n \in 1..len : ~(n <= c) => n > c
      BY <1>1
    <3> QED
      BY <2>2, <2>3, <3>1, Zenon
  <2>5. \A k, l \in 1..len : (~stakeChanges[k].confirmed /\ ~stakeChanges[l].confirmed /\ k <= l) =>
          /\ \A v \in Now : v \in After(l) => v \in After(k)
          /\ \A v \in After(k) : v \notin Now => v \in After(l)
    BY <1>1 DEF PayInv, Steady, Pending
  <2>6. stakeChanges[c].confirmed => SameCommittee(next, committee)
    <3>1. \A m \in 1..len : m > c => ~stakeChanges[m].confirmed
      BY <1>1, <2>2
    <3> QED
      BY <1>1, <2>1, <3>1 DEF PayInv, LastApplied
  <2>7. Members(next) = After(c)
    BY DEF After
  <2>8. Members(committee') = After(c)
    BY <2>1, <2>7, SameMembers
  <2>9. stakeChanges[c].confirmed => Now = After(c)
    BY <2>6, <2>7, SameMembers DEF Now
  <2>10. committee' # committee => ~stakeChanges[c].confirmed
    BY <2>1, <2>6 DEF SameCommittee
  <2> HIDE DEF c, next, len
  <2>11. Steady'
    <3> SUFFICES ASSUME NEW k \in 1..len, NEW l \in 1..len,
                        ~stakeChanges'[k].confirmed, ~stakeChanges'[l].confirmed, k <= l
                 PROVE  /\ \A v \in After(c) : v \in After(l) => v \in After(k)
                        /\ \A v \in After(k) : v \notin After(c) => v \in After(l)
      BY <1>3, <1>5, <2>8 DEF Steady, Pending, After, Now
    <3>1. k > c /\ ~stakeChanges[k].confirmed /\ l > c /\ ~stakeChanges[l].confirmed
      BY <2>4
    <3>2. CASE stakeChanges[c].confirmed
      BY <2>5, <2>9, <3>1, <3>2
    <3>3. CASE ~stakeChanges[c].confirmed
      <4>1. c <= k /\ c <= l
        BY <1>1, <3>1
      <4> QED
        BY <2>1, <2>5, <3>1, <3>3, <4>1
    <3> QED
      BY <3>2, <3>3
  <2>12. LatestIsLast'
    <3>1. len \in 1..len /\ (len = c \/ len > c)
      BY <1>1, <2>1
    <3>2. stakeChanges'[len].confirmed <=> len = c
      <4>1. len = c => len <= c
        BY <1>1
      <4>2. len > c => ~(len <= c) /\ len # c
        BY <1>1
      <4> QED
        BY <2>3, <3>1, <4>1, <4>2, Zenon
    <3>3. Members(Latest) = IF ~stakeChanges[len].confirmed THEN After(len) ELSE Now
      BY <1>1, <3>1 DEF PayInv, LatestIsLast, Pending, len
    <3>4. ~stakeChanges[c].confirmed => ~stakeChanges[len].confirmed
      BY <2>1, <3>1, <1>1 DEF Configured, PendingIsAhead
    <3>5. Members(Latest') = After(len)
      <4>1. CASE UNCHANGED <<committee, waiting>>
        <5>1. Members(Latest') = Members(Latest) /\ Now = After(c)
          BY <2>8, <4>1 DEF Latest, Now
        <5>2. stakeChanges[len].confirmed => len = c
          BY <1>1, <2>2, <3>1
        <5> QED
          BY <3>3, <5>1, <5>2
      <4>2. CASE committee' = next /\ ~stakeChanges[c].confirmed
                 /\ waiting' = IF SameCommittee(waiting, next) THEN NoCommittee ELSE waiting
        <5>1. Members(Latest) = After(len)
          BY <3>3, <3>4, <4>2
        <5>2. CASE waiting = NoCommittee
          <6>1. Latest' = next /\ Latest = committee
            BY <4>2, <5>2 DEF Latest
          <6>2. Now = After(len)
            BY <5>1, <6>1 DEF Now
          <6>3. c <= len /\ ~stakeChanges[len].confirmed
            BY <1>1, <3>1, <3>4, <4>2
          <6>4. After(c) = After(len)
            BY <2>1, <2>5, <3>1, <4>2, <6>2, <6>3
          <6> QED
            BY <2>7, <6>1, <6>4
        <5>3. CASE waiting # NoCommittee /\ SameCommittee(waiting, next)
          <6>1. Latest' = next /\ Latest = waiting
            BY <4>2, <5>3 DEF Latest
          <6> QED
            BY <5>1, <5>3, <6>1, SameMembers
        <5>4. CASE waiting # NoCommittee /\ ~SameCommittee(waiting, next)
          <6>1. Latest' = Latest
            BY <4>2, <5>4 DEF Latest
          <6> QED
            BY <5>1, <6>1
        <5> QED
          BY <5>2, <5>3, <5>4
      <4> QED
        BY <2>1, <2>6, <4>1, <4>2 DEF SameCommittee
    <3>6. Members(Latest') = IF ~stakeChanges'[len].confirmed
                             THEN Members(stakeChanges'[len].committee) ELSE Members(committee')
      BY <1>3, <1>5, <2>8, <3>1, <3>2, <3>5 DEF After
    <3>7. Len(stakeChanges') = len /\ DOMAIN stakeChanges' = 1..len
      BY <1>3, <1>5
    <3> QED
      BY <1>1, <3>1, <3>6, <3>7 DEF LatestIsLast, Pending, After, Now
  <2>13. WithdrawersStay'
    <3> SUFFICES ASSUME NEW n \in 1..len, ~stakeChanges'[n].confirmed,
                        stakeChanges[n].kind = "Withdraw"
                 PROVE  /\ stakeChanges[n].validator \in After(c)
                        /\ \A k \in 1..len : (~stakeChanges'[k].confirmed /\ k < n) =>
                             stakeChanges[n].validator \in After(k)
      BY <1>3, <1>5, <2>8 DEF WithdrawersStay, Pending, After, Now
    <3>1. n > c /\ ~stakeChanges[n].confirmed
      BY <2>4
    <3>2. /\ stakeChanges[n].validator \in Now
          /\ \A k \in 1..len : (~stakeChanges[k].confirmed /\ k < n) =>
               stakeChanges[n].validator \in After(k)
      BY <1>1, <3>1 DEF PayInv, WithdrawersStay, Pending
    <3>3. c < n
      BY <1>1, <3>1
    <3> QED
      BY <2>1, <2>4, <2>9, <3>2, <3>3
  <2>14. LastApplied'
    <3> SUFFICES ASSUME NEW n \in 1..len, stakeChanges'[n].confirmed
                 PROVE  /\ n <= childConf
                        /\ (\A m \in 1..len : m > n => ~stakeChanges'[m].confirmed)
                             => SameCommittee(stakeChanges[n].committee, committee')
      BY <1>1, <1>3, <1>5 DEF LastApplied
    <3>1. n <= c
      BY <2>3
    <3>2. n <= childConf
      BY <1>1, <3>1
    <3>3. ASSUME \A m \in 1..len : m > n => ~stakeChanges'[m].confirmed
          PROVE  n = c
      <4>1. c <= c /\ (n = c \/ c > n)
        BY <1>1, <3>1
      <4>2. stakeChanges'[c].confirmed
        BY <2>1, <2>3, <4>1
      <4> QED
        BY <2>1, <3>3, <4>1, <4>2
    <3>4. SameCommittee(next, committee')
      BY <2>1 DEF SameCommittee
    <3> QED
      BY <3>2, <3>3, <3>4 DEF next
  <2>15. PsbtPays'
    BY <1>1 DEF PsbtPays
  <2>16. WithdrawalPaid'
    <3> SUFFICES ASSUME NEW n \in 1..len, stakeChanges[n].kind = "Withdraw",
                        stakeChanges'[n].confirmed
                 PROVE  stakeChanges'[n].paid >= 1 \/ killed' = "Killed"
      BY <1>3, <1>5 DEF WithdrawalPaid
    <3>1. CASE stakeChanges[n].confirmed
      BY <1>1, <1>3, <1>5, <3>1 DEF PayInv, WithdrawalPaid
    <3>2. CASE ~stakeChanges[n].confirmed
      <4>1. n <= c
        BY <2>3
      <4>2. p.kill \/ n \in p.unstakes
        BY <1>1, <1>5, <3>2, <4>1 DEF PayInv, PsbtPays, Pending, c
      <4> QED
        BY <1>3, <1>5, <4>2
    <3> QED
      BY <3>1, <3>2
  <2> QED
    BY <2>11, <2>12, <2>13, <2>14, <2>15, <2>16 DEF PayInv
<1> QED
  BY <1>2, <1>4, <1>5

LEMMA PayNext == TypeInv /\ Configured /\ PayInv /\ [Next]_vars => PayInv'
<1> SUFFICES ASSUME TypeInv, Configured, PayInv, [Next]_vars PROVE PayInv'
  OBVIOUS
<1>0. childConf \in Nat /\ Len(stakeChanges) \in Nat /\ childConf <= Len(stakeChanges)
  BY LenProperties DEF TypeInv, TypeOK, Configured, ConfBound
<1>1. ASSUME UNCHANGED <<committee, waiting, stakeChanges, psbts>>,
             status' = status \/ (status # "active" /\ status' # "active"),
             childConf' \in {childConf, Len(stakeChanges)},
             killed = "Killed" => killed' = "Killed"
      PROVE  PayInv'
  BY <1>0, <1>1, PayFrame
<1>2. CASE NewBlock \/ ChildSync \/ CreateSubnet \/ UNCHANGED vars
  BY <1>1, <1>2 DEF NewBlock, ChildSync, CreateSubnet, vars, genesisVars, killVars, stateVars,
     changeVars, outsideVars
<1>3. ASSUME NEW v \in Validators, Kill(v) PROVE PayInv'
  BY <1>1, <1>3 DEF Kill, NotKilled, genesisVars, stateVars, changeVars, outsideVars
<1>4. ASSUME NEW v \in Validators, NEW amount \in Amounts, JoinPreBootstrap(v, amount)
      PROVE  PayInv'
  <2>1. /\ UNCHANGED <<waiting, childConf, stakeChanges, psbts>>
        /\ psbts = {} /\ stakeChanges = <<>> /\ status # "active"
    BY <1>4 DEF JoinPreBootstrap, changeVars, outsideVars, TypeInv, Bootstrapped
  <2>2. waiting' = NoCommittee /\ Latest' = committee'
    BY <2>1 DEF PayInv, LatestIsLast, Latest
  <2> QED
    BY <2>1, <2>2 DEF PayInv, Steady, LatestIsLast, WithdrawersStay, LastApplied, PsbtPays,
       WithdrawalPaid, Pending, Now
<1>5. ASSUME NEW v \in Validators, NEW amount \in Amounts,
             \/ JoinPostBootstrap(v, amount)
             \/ Stake(v, amount)
             \/ Unstake(v, amount)
      PROVE  PayInv'
  <2>1. status = "active"
    BY <1>5 DEF JoinPostBootstrap, Stake, Unstake
  <2> QED
    BY <1>5, <2>1, StakeChangeMessage, PayRecord
<1> QED
  BY <1>2, <1>3, <1>4, <1>5, PayGenCheckpoint, PayCheckpoint DEF Next

\* In every reachable state a withdrawal that counts as applied was paid by a
\* confirmed checkpoint, or the kill checkpoint repaid all the collateral.
THEOREM WithdrawalsPaid == Spec => []WithdrawalPaid
<1>1. PayInv => WithdrawalPaid
  BY DEF PayInv
<1> QED
  BY <1>1, PayInit, PayNext, TypeSafety, ConfiguredAlways, PTL DEF Spec
=============================================================================
