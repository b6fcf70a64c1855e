--------------------------- MODULE SubnetTypeProofs ---------------------------
(***************************************************************************)
(* The signing threshold of a committee and its quorums, and typing of a   *)
(* subnet's life, for every set of validators, every amount and every      *)
(* bound.                                                                  *)
(***************************************************************************)
EXTENDS Subnet, AggregateProofs

LEMMA PowerNat ==
  ASSUME NEW c \in Committees, NEW v \in Validators
  PROVE  Power(c, v) \in Nat
<1> DEFINE a == IF c.stake[v] < MaxPower THEN c.stake[v] ELSE MaxPower
<1>1. c.stake[v] \in Nat /\ MaxPower \in Nat /\ Scale \in Nat \ {0}
  BY CommitteeConstants DEF Committees, Stakes
<1>2. a \in Nat
  BY <1>1
<1>3. Power(c, v) = a \div Scale
  BY DEF Power, PowerOf
<1> HIDE DEF a
<1> QED BY <1>1, <1>2, <1>3

Powers(c) == [v \in Validators |-> Power(c, v)]

LEMMA PowersOK ==
  ASSUME NEW c \in Committees, NEW S
  PROVE  /\ IsFiniteSet(S \cap Members(c)) /\ Nats(Powers(c), S \cap Members(c))
         /\ Ints(Powers(c), S \cap Members(c))
         /\ PowerOfSet(c, S) = SumFunctionOnSet(Powers(c), S \cap Members(c))
         /\ PowerOfSet(c, S) \in Nat
<1>1. S \cap Members(c) \subseteq Validators
  BY DEF Members
<1>2. IsFiniteSet(S \cap Members(c))
  BY <1>1, CommitteeConstants, FS_Subset
<1>3. Nats(Powers(c), S \cap Members(c)) /\ Ints(Powers(c), S \cap Members(c))
  BY <1>1, PowerNat DEF Powers, Nats, Ints
<1>4. PowerOfSet(c, S) = SumFunctionOnSet(Powers(c), S \cap Members(c))
  BY DEF PowerOfSet, Powers
<1> QED BY <1>2, <1>3, <1>4, SumNat

\* The power of two sets of signers together, and of those in both.
LEMMA PowerOfBoth ==
  ASSUME NEW c \in Committees, NEW A, NEW B
  PROVE  PowerOfSet(c, A) + PowerOfSet(c, B) <= TotalPower(c) + PowerOfSet(c, A \cap B)
<1> DEFINE f == Powers(c)
           M == Members(c)
           P == A \cap M
           Q == B \cap M
           R == Q \ P
           I == (A \cap B) \cap M
<1>1. /\ IsFiniteSet(P) /\ IsFiniteSet(Q) /\ IsFiniteSet(I) /\ IsFiniteSet(R) /\ IsFiniteSet(Validators \cap M)
      /\ Ints(f, P) /\ Ints(f, Q) /\ Ints(f, I) /\ Ints(f, R) /\ Nats(f, Validators \cap M)
  <2>1. IsFiniteSet(P) /\ IsFiniteSet(Q) /\ IsFiniteSet(I) /\ IsFiniteSet(Validators \cap M)
    BY PowersOK
  <2>2. Ints(f, P) /\ Ints(f, Q) /\ Ints(f, I) /\ Nats(f, Validators \cap M)
    BY PowersOK
  <2>3. R \subseteq Q
    OBVIOUS
  <2>4. IsFiniteSet(R)
    BY <2>1, <2>3, FS_Subset
  <2>5. Ints(f, R)
    BY <2>2, <2>3 DEF Ints
  <2> QED BY <2>1, <2>2, <2>4, <2>5
<1>2. Q = I \cup R /\ I \cap R = {} /\ P \cap R = {} /\ P \cup R \subseteq Validators \cap M
  BY DEF Members
<1>3. /\ PowerOfSet(c, A) = SumFunctionOnSet(f, P) /\ PowerOfSet(c, B) = SumFunctionOnSet(f, Q)
      /\ PowerOfSet(c, A \cap B) = SumFunctionOnSet(f, I)
      /\ TotalPower(c) = SumFunctionOnSet(f, Validators \cap M)
  BY PowersOK DEF TotalPower
<1> HIDE DEF f, M, P, Q, R, I
<1>4. SumFunctionOnSet(f, Q) = SumFunctionOnSet(f, I) + SumFunctionOnSet(f, R)
  BY <1>1, <1>2, SumUnion
<1>5. SumFunctionOnSet(f, P \cup R) = SumFunctionOnSet(f, P) + SumFunctionOnSet(f, R)
  BY <1>1, <1>2, SumUnion
<1>6. SumFunctionOnSet(f, P \cup R) <= SumFunctionOnSet(f, Validators \cap M)
  BY <1>1, <1>2, SumPart
<1>7. /\ SumFunctionOnSet(f, P) \in Int /\ SumFunctionOnSet(f, I) \in Int /\ SumFunctionOnSet(f, R) \in Int
      /\ SumFunctionOnSet(f, Validators \cap M) \in Int
  BY <1>1, SumInt, SumNat
<1> QED BY <1>3, <1>4, <1>5, <1>6, <1>7

\* multisig_threshold never asks for more than a positive total, so a committee
\* with any power at all can sign, and one without power never can.
THEOREM ThresholdReachable ==
  ASSUME NEW total \in Nat
  PROVE  MultisigThreshold(total) <= total <=> total > 0
BY DEF MultisigThreshold

\* The check that SubnetValidators::multisig_address expects to succeed fails
\* exactly for a committee without power.
THEOREM ValidMeansPower ==
  ASSUME NEW c \in Committees
  PROVE  MultisigValid(c) <=> TotalPower(c) > 0
<1>1. TotalPower(c) \in Nat
  BY PowersOK DEF TotalPower
<1> QED BY <1>1, ThresholdReachable DEF MultisigValid, MultisigThreshold

\* Two sets of signers that both reach the threshold of a committee
\* (multisig_threshold) share validators with more than a third of its power: of
\* two conflicting checkpoints at most one gathers signatures as long as the
\* validators that sign both hold a third or less.
THEOREM QuorumsIntersect ==
  ASSUME NEW c \in Committees, NEW A, NEW B,
         PowerOfSet(c, A) >= MultisigThreshold(TotalPower(c)),
         PowerOfSet(c, B) >= MultisigThreshold(TotalPower(c))
  PROVE  3 * PowerOfSet(c, A \cap B) > TotalPower(c)
<1> DEFINE a == PowerOfSet(c, A)
           b == PowerOfSet(c, B)
           i == PowerOfSet(c, A \cap B)
           t == TotalPower(c)
<1>1. a \in Nat /\ b \in Nat /\ i \in Nat /\ t \in Nat
  BY PowersOK DEF TotalPower
<1>2. a + b <= t + i
  BY PowerOfBoth
<1>3. a >= MultisigThreshold(t) /\ b >= MultisigThreshold(t)
  OBVIOUS
<1> HIDE DEF a, b, i, t
<1>4. 3 * i > t
  BY <1>1, <1>2, <1>3 DEF MultisigThreshold
<1> QED BY <1>4 DEF i, t

----------------------------------------------------------------------------
(* Types.                                                                  *)

\* What typing rests on: a bootstrapped subnet has a committee, and nothing is
\* recorded for a subnet before it is bootstrapped.
Bootstrapped ==
  /\ status = "active" => committee \in Committees
  /\ status # "active" => /\ psbts = {}
                          /\ stakeChanges = <<>>
                          /\ checkpoints = <<>>
                          /\ killRequests = {}
                          /\ killed = "NotKilled"

TypeInv == TypeOK /\ Bootstrapped

----------------------------------------------------------------------------
(* Types of the operators the handlers are built from.                     *)

LEMMA NoCommitteeIsNone == NoCommittee \notin Committees
BY DEF NoCommittee, Committees

LEMMA LatestType ==
  ASSUME TypeInv, status = "active"
  PROVE  Latest \in Committees
BY NoCommitteeIsNone DEF TypeInv, TypeOK, Bootstrapped, Latest

LEMMA ChangedCommitteeType ==
  ASSUME NEW c \in Committees, NEW v \in Validators, NEW amount \in Nat
  PROVE  /\ JoinNewValidator(c, v, amount) \in Committees
         /\ ModifyValidator(c, v, amount) \in Committees
         /\ RemoveValidator(c, v) \in Committees
BY DEF Committees, Stakes, JoinNewValidator, ModifyValidator, RemoveValidator

LEMMA ChangeType ==
  ASSUME NEW kind \in {"Join", "Deposit", "Withdraw"}, NEW v \in Validators,
         NEW amount \in Nat, NEW next \in Committees
  PROVE  Change(kind, v, amount, next) \in Changes
BY DEF Change, Changes

\* A function on 1..n is a sequence.
LEMMA FunctionIsSeq ==
  ASSUME NEW S, NEW n \in Nat, NEW f \in [1..n -> S]
  PROVE  f \in Seq(S) /\ Len(f) = n
<1>1. f \in Seq(S)
  BY SeqDef
<1> QED
  BY <1>1, LenProperties

\* Settling a checkpoint keeps the recorded changes and their number.
LEMMA SettleChangesType ==
  ASSUME stakeChanges \in Seq(Changes), NEW p \in Psbts
  PROVE  /\ SettleChanges(p) \in Seq(Changes)
         /\ Len(SettleChanges(p)) = Len(stakeChanges)
         /\ DOMAIN SettleChanges(p) = DOMAIN stakeChanges
         /\ \A n \in DOMAIN stakeChanges :
              /\ SettleChanges(p)[n].kind = stakeChanges[n].kind
              /\ SettleChanges(p)[n].committee = stakeChanges[n].committee
<1> DEFINE f == SettleChanges(p)
           d == Len(stakeChanges)
<1>1. d \in Nat /\ DOMAIN stakeChanges = 1..d
  BY LenProperties
<1>2. \A n \in 1..d : stakeChanges[n] \in Changes
  BY ElementOfSeq
<1>3. ASSUME NEW n \in 1..d
      PROVE  /\ SettledChange(p, n) \in Changes
             /\ SettledChange(p, n).kind = stakeChanges[n].kind
             /\ SettledChange(p, n).committee = stakeChanges[n].committee
  <2> DEFINE ch == stakeChanges[n]
  <2>1. ch \in Changes
    BY <1>2
  <2>2. (ch.confirmed \/ (~KeepsCommittee(p.conf) /\ ConfirmUpTo(p.conf, n))) \in BOOLEAN
    OBVIOUS
  <2>3. (IF n \in p.unstakes THEN ch.paid + 1 ELSE ch.paid) \in Nat
    BY <2>1 DEF Changes
  <2> QED
    BY <2>1, <2>2, <2>3 DEF SettledChange, Changes
<1>4. \A n \in DOMAIN stakeChanges : f[n] = SettledChange(p, n)
  BY DEF SettleChanges
<1>5. f \in [1..d -> Changes]
  BY <1>1, <1>3 DEF SettleChanges
<1>6. f \in Seq(Changes) /\ Len(f) = d /\ DOMAIN f = 1..d
  <2> HIDE DEF f
  <2> QED
    BY <1>1, <1>5, FunctionIsSeq
<1> HIDE DEF f
<1>7. /\ f \in Seq(Changes)
      /\ Len(f) = d
      /\ DOMAIN f = DOMAIN stakeChanges
      /\ \A n \in DOMAIN stakeChanges :
           f[n].kind = stakeChanges[n].kind /\ f[n].committee = stakeChanges[n].committee
  BY <1>1, <1>3, <1>4, <1>6
<1> QED
  BY <1>7 DEF f

----------------------------------------------------------------------------
(* Typing.                                                                 *)

LEMMA TypeInit == Init => TypeInv
<1> SUFFICES ASSUME Init PROVE TypeInv
  OBVIOUS
<1>1. <<>> \in Seq(Changes) /\ <<>> \in Seq(Checkpoints)
  BY EmptySeq
<1>2. genesisStake \in Stakes
  BY DEF Init, Stakes
<1>3. committees \in [DOMAIN committees -> Committees] /\ DOMAIN committees \subseteq Nat
  BY DEF Init
<1> QED
  BY <1>1, <1>2, <1>3 DEF Init, TypeInv, TypeOK, Bootstrapped, None

\* The tail shared by the three stake change handlers.
LEMMA RecordChangesType ==
  ASSUME TypeInv, status = "active", NEW next \in Committees,
         NEW changes \in Seq(Changes), RecordChanges(next, changes)
  PROVE  TypeInv'
<1>1. stakeChanges' \in Seq(Changes)
  <2>1. stakeChanges \o changes \in Seq(Changes)
    BY ConcatProperties DEF TypeInv, TypeOK
  <2> QED
    BY <2>1 DEF TypeInv, TypeOK, RecordChanges, changeVars
<1>2. waiting' \in Committees \cup {NoCommittee} /\ halted' \in BOOLEAN
  BY DEF TypeInv, TypeOK, RecordChanges, changeVars
<1> QED
  BY <1>1, <1>2 DEF TypeInv, TypeOK, Bootstrapped, RecordChanges, genesisVars,
     killVars, stateVars, outsideVars

LEMMA OneTwoSeq ==
  ASSUME NEW S, NEW a \in S, NEW b \in S
  PROVE  <<a>> \in Seq(S) /\ <<a, b>> \in Seq(S)
OBVIOUS

LEMMA TypeJoinPreBootstrap ==
  ASSUME TypeInv, NEW v \in Validators, NEW amount \in Amounts,
         JoinPreBootstrap(v, amount)
  PROVE  TypeInv'
<1> DEFINE stake == [genesisStake EXCEPT ![v] = amount]
           first == [conf |-> 0, stake |-> stake]
<1>1. stake \in Stakes
  BY SubnetConstants DEF TypeInv, TypeOK, Stakes
<1>2. first \in Committees
  BY <1>1 DEF Committees
<1> HIDE DEF stake
<1>3. \/ ToSubnet(stake)
      \/ /\ genesisStake' = stake
         /\ UNCHANGED <<status, committee, committeeNumber, committees, halted>>
  BY DEF JoinPreBootstrap, stake
<1>4. /\ genesisStake' \in Stakes
      /\ status' \in {"genesis", "active"}
      /\ committee' \in Committees \cup {NoCommittee}
      /\ committeeNumber' \in Nat
      /\ DOMAIN committees' \subseteq Nat
      /\ committees' \in [DOMAIN committees' -> Committees]
      /\ halted' \in BOOLEAN
      /\ status' = "active" => committee' \in Committees
  <2>1. CASE ToSubnet(stake) /\ MultisigValid(first)
    BY <1>1, <1>2, <2>1 DEF ToSubnet, TypeInv, TypeOK
  <2>2. CASE ToSubnet(stake) /\ ~MultisigValid(first)
    BY <2>2 DEF ToSubnet, JoinPreBootstrap, TypeInv, TypeOK, genesisVars
  <2>3. CASE ~ToSubnet(stake)
    BY <1>1, <1>3, <2>3 DEF JoinPreBootstrap, TypeInv, TypeOK
  <2> QED
    BY <2>1, <2>2, <2>3
<1>5. UNCHANGED <<killVars, lastCheckpoint, checkpoints, changeVars, outsideVars>>
  BY DEF JoinPreBootstrap
<1>6. status = "genesis"
  BY DEF JoinPreBootstrap
<1> QED
  BY <1>4, <1>5, <1>6 DEF TypeInv, TypeOK, Bootstrapped, killVars, changeVars, outsideVars

\* What the three handlers of stake changes have in common: the changes of one
\* message carry the committee after it, which counts each of them, and only a
\* join comes before another change.
MessageChanges(next, changes) ==
  /\ next \in Committees
  /\ changes \in Seq(Changes)
  /\ changes # <<>>
  /\ next.conf = Latest.conf + Len(changes)
  /\ \A i \in 1..Len(changes) :
       /\ changes[i].committee = next
       /\ changes[i].confirmed = FALSE
       /\ i = Len(changes) => changes[i].kind # "Join"
       /\ i # Len(changes) => changes[i].kind = "Join" /\ i + 1 = Len(changes)

\* What they do to the members: who is in force and not in the latest committee
\* does not come back, who waits to be in force stays, and who withdraws is in
\* both.
MemberChanges(next, changes) ==
  /\ \A w \in Members(next) : w \in Members(committee) => w \in Members(Latest)
  /\ \A w \in Members(Latest) : w \notin Members(committee) => w \in Members(next)
  /\ \A i \in 1..Len(changes) : changes[i].kind = "Withdraw" =>
       /\ Len(changes) = 1
       /\ changes[i].validator \in Members(committee)
       /\ changes[i].validator \in Members(Latest)

LEMMA StakeChangeMessage ==
  ASSUME TypeInv, NEW v \in Validators, NEW amount \in Amounts,
         \/ JoinPostBootstrap(v, amount)
         \/ Stake(v, amount)
         \/ Unstake(v, amount)
  PROVE  \E next, changes : /\ MessageChanges(next, changes)
                            /\ MemberChanges(next, changes)
                            /\ RecordChanges(next, changes)
<1>1. amount \in Nat /\ amount > 0 /\ status = "active"
  BY SubnetConstants DEF JoinPostBootstrap, Stake, Unstake
<1>2. Latest \in Committees /\ Latest.stake[v] \in Nat /\ Latest.conf \in Nat
  BY <1>1, LatestType DEF Committees, Stakes
<1>0. ASSUME NEW x \in Nat, NEW c, c.stake = [Latest.stake EXCEPT ![v] = x]
      PROVE  /\ \A w \in Validators : w # v => (w \in Members(c) <=> w \in Members(Latest))
             /\ v \in Members(c) <=> x > 0
  BY <1>0, <1>2 DEF Members, Committees, Stakes
<1>3. CASE JoinPostBootstrap(v, amount)
  <2> DEFINE next == JoinNewValidator(Latest, v, amount)
             ch1 == Change("Join", v, amount, next)
             ch2 == Change("Deposit", v, amount, next)
             changes == <<ch1, ch2>>
  <2>1. next \in Committees /\ next.conf = Latest.conf + 2
    BY <1>1, <1>2, ChangedCommitteeType DEF JoinNewValidator
  <2>2. RecordChanges(next, changes)
    BY <1>3 DEF JoinPostBootstrap
  <2>7. /\ \A w \in Members(next) : w \in Members(committee) => w \in Members(Latest)
        /\ \A w \in Members(Latest) : w \notin Members(committee) => w \in Members(next)
    <3>1. v \notin Members(committee)
      BY <1>3 DEF JoinPostBootstrap, ValidatePostBootstrap
    <3>2. next.stake = [Latest.stake EXCEPT ![v] = amount]
      BY DEF JoinNewValidator
    <3>3. Members(next) \subseteq Validators /\ Members(Latest) \subseteq Validators
      BY DEF Members
    <3> HIDE DEF next
    <3> QED
      BY <1>0, <1>1, <3>1, <3>2, <3>3
  <2> HIDE DEF next
  <2>3. /\ ch1 \in Changes /\ ch1.committee = next /\ ch1.confirmed = FALSE /\ ch1.kind = "Join"
        /\ ch2 \in Changes /\ ch2.committee = next /\ ch2.confirmed = FALSE /\ ch2.kind = "Deposit"
    BY <1>1, <2>1, ChangeType DEF Change
  <2> HIDE DEF ch1, ch2
  <2>4. changes \in Seq(Changes) /\ changes # <<>> /\ Len(changes) = 2
    BY <2>3, OneTwoSeq
  <2>5. \A i \in 1..2 :
          /\ changes[i].committee = next
          /\ changes[i].confirmed = FALSE
          /\ i = 2 => changes[i].kind # "Join"
          /\ i # 2 => changes[i].kind = "Join" /\ i + 1 = 2
    BY <2>3
  <2> HIDE DEF changes
  <2>6. MessageChanges(next, changes)
    BY <2>1, <2>4, <2>5 DEF MessageChanges
  <2>8. MemberChanges(next, changes)
    <3>1. \A i \in 1..2 : changes[i].kind # "Withdraw"
      BY <2>3 DEF changes
    <3> QED
      BY <2>4, <2>7, <3>1 DEF MemberChanges
  <2> QED
    BY <2>2, <2>6, <2>8
<1>4. ASSUME NEW next \in Committees, next.conf = Latest.conf + 1,
             NEW kind \in {"Deposit", "Withdraw"},
             \A w \in Members(next) : w \in Members(committee) => w \in Members(Latest),
             \A w \in Members(Latest) : w \notin Members(committee) => w \in Members(next),
             kind = "Withdraw" => v \in Members(committee) /\ v \in Members(Latest)
      PROVE  /\ MessageChanges(next, <<Change(kind, v, amount, next)>>)
             /\ MemberChanges(next, <<Change(kind, v, amount, next)>>)
  <2> DEFINE ch == Change(kind, v, amount, next)
             changes == <<ch>>
  <2>1. /\ ch \in Changes /\ ch.committee = next /\ ch.confirmed = FALSE /\ ch.kind # "Join"
        /\ ch.kind = kind /\ ch.validator = v
    BY <1>1, <1>4, ChangeType DEF Change
  <2> HIDE DEF ch
  <2>2. changes \in Seq(Changes) /\ changes # <<>> /\ Len(changes) = 1
    BY <2>1, OneTwoSeq
  <2>3. \A i \in 1..1 :
          /\ changes[i].committee = next
          /\ changes[i].confirmed = FALSE
          /\ i = 1 => changes[i].kind # "Join"
          /\ i # 1 => changes[i].kind = "Join" /\ i + 1 = 1
    BY <2>1
  <2> HIDE DEF changes
  <2>4. MessageChanges(next, changes)
    BY <1>4, <2>2, <2>3 DEF MessageChanges
  <2>5. MemberChanges(next, changes)
    <3>1. \A i \in 1..1 : changes[i].kind = kind /\ changes[i].validator = v
      BY <2>1 DEF changes
    <3> QED
      BY <1>4, <2>2, <3>1 DEF MemberChanges
  <2> QED
    BY <2>4, <2>5 DEF changes, ch
<1>5. CASE Stake(v, amount)
  <2> DEFINE next == ModifyValidator(Latest, v, Latest.stake[v] + amount)
  <2>1. next \in Committees /\ next.conf = Latest.conf + 1
    <3>1. Latest.stake[v] + amount \in Nat
      BY <1>1, <1>2
    <3>2. next \in Committees
      BY <1>2, <3>1, ChangedCommitteeType
    <3> QED
      BY <3>2 DEF ModifyValidator
  <2>2. RecordChanges(next, <<Change("Deposit", v, amount, next)>>)
    BY <1>5 DEF Stake
  <2>4. /\ \A w \in Members(next) : w \in Members(committee) => w \in Members(Latest)
        /\ \A w \in Members(Latest) : w \notin Members(committee) => w \in Members(next)
    <3>1. v \in Members(Latest) /\ Latest.stake[v] + amount \in Nat /\ Latest.stake[v] + amount > 0
      BY <1>1, <1>2, <1>5 DEF Stake, ValidateStake
    <3>2. next.stake = [Latest.stake EXCEPT ![v] = Latest.stake[v] + amount]
      BY DEF ModifyValidator
    <3>3. Members(next) \subseteq Validators /\ Members(Latest) \subseteq Validators
      BY DEF Members
    <3> HIDE DEF next
    <3> QED
      BY <1>0, <3>1, <3>2, <3>3
  <2> HIDE DEF next
  <2>3. /\ MessageChanges(next, <<Change("Deposit", v, amount, next)>>)
        /\ MemberChanges(next, <<Change("Deposit", v, amount, next)>>)
    BY <1>4, <2>1, <2>4
  <2> QED
    BY <2>2, <2>3
<1>6. CASE Unstake(v, amount)
  <2> DEFINE next == AfterUnstake(Latest, v, amount)
  <2>1. next \in Committees /\ next.conf = Latest.conf + 1
    <3>1. Latest.stake[v] - amount \in Nat
      BY <1>1, <1>2, <1>6 DEF Unstake, ValidateUnstake
    <3> QED
      BY <1>2, <3>1, ChangedCommitteeType DEF AfterUnstake, ModifyValidator, RemoveValidator
  <2>2. RecordChanges(next, <<Change("Withdraw", v, amount, next)>>)
    BY <1>6 DEF Unstake
  <2>4. v \in Members(Latest) /\ v \in Members(committee)
    BY <1>6 DEF Unstake, SignerFromTx, ValidateUnstake
  <2>5. /\ \A w \in Members(next) : w \in Members(committee) => w \in Members(Latest)
        /\ \A w \in Members(Latest) : w \notin Members(committee) => w \in Members(next)
    <3>1. PICK x \in Nat : next.stake = [Latest.stake EXCEPT ![v] = x]
      <4>1. Latest.stake[v] - amount \in Nat
        BY <1>1, <1>2, <1>6 DEF Unstake, ValidateUnstake
      <4> QED
        BY <4>1 DEF AfterUnstake, ModifyValidator, RemoveValidator
    <3>2. Members(next) \subseteq Validators /\ Members(Latest) \subseteq Validators
      BY DEF Members
    <3> HIDE DEF next
    <3> QED
      BY <1>0, <2>4, <3>1, <3>2
  <2> HIDE DEF next
  <2>3. /\ MessageChanges(next, <<Change("Withdraw", v, amount, next)>>)
        /\ MemberChanges(next, <<Change("Withdraw", v, amount, next)>>)
    BY <1>4, <2>1, <2>4, <2>5
  <2> QED
    BY <2>2, <2>3
<1> QED
  BY <1>3, <1>5, <1>6

LEMMA TypeStakeChange ==
  ASSUME TypeInv, NEW v \in Validators, NEW amount \in Amounts,
         \/ JoinPostBootstrap(v, amount)
         \/ Stake(v, amount)
         \/ Unstake(v, amount)
  PROVE  TypeInv'
<1>1. status = "active"
  BY DEF JoinPostBootstrap, Stake, Unstake
<1>2. PICK next, changes : MessageChanges(next, changes) /\ RecordChanges(next, changes)
  BY StakeChangeMessage
<1> QED
  BY <1>1, <1>2, RecordChangesType DEF MessageChanges

LEMMA TypeKill ==
  ASSUME TypeInv, NEW v \in Validators, Kill(v)
  PROVE  TypeInv'
<1> DEFINE request == [validator |-> v, height |-> height]
<1>1. request \in KillRequests
  BY DEF TypeInv, TypeOK, KillRequests
<1>2. killRequests' = killRequests \cup {request}
  BY DEF Kill
<1> HIDE DEF request
<1>3. killRequests' \subseteq KillRequests
  BY <1>1, <1>2 DEF TypeInv, TypeOK
<1>4. \/ killed' = "ToBeKilled" /\ markedForKill' = lastCheckpoint
      \/ UNCHANGED <<killed, markedForKill>>
  BY DEF Kill
<1>5. UNCHANGED <<genesisVars, stateVars, changeVars, outsideVars, halted>>
      /\ status = "active"
  BY DEF Kill
<1> QED
  BY <1>3, <1>4, <1>5 DEF TypeInv, TypeOK, Bootstrapped, genesisVars, stateVars,
     changeVars, outsideVars

LEMMA TypeGenCheckpoint ==
  ASSUME TypeInv, NEW c \in {0, childConf}, GenCheckpoint(c)
  PROVE  TypeInv'
<1>1. PendingUnstakes \subseteq Nat
  <2>1. DOMAIN stakeChanges \subseteq Nat
    BY LenProperties DEF TypeInv, TypeOK
  <2> QED
    BY <2>1 DEF PendingUnstakes
<1>2. c \in Nat
  BY DEF TypeInv, TypeOK
<1>3. PICK unstakes \in SUBSET Nat, kill \in BOOLEAN :
        psbts' = psbts \cup {[conf |-> c, kill |-> kill, unstakes |-> unstakes]}
  BY <1>1 DEF GenCheckpoint
<1>4. psbts' \subseteq Psbts
  BY <1>2, <1>3 DEF TypeInv, TypeOK, Psbts
<1> QED
  BY <1>4 DEF GenCheckpoint, TypeInv, TypeOK, Bootstrapped, genesisVars, killVars,
     stateVars, changeVars

\* What save_to_db does to the committee: either it keeps everything, or it
\* takes the committee of the stake change the checkpoint names.
LEMMA CheckpointCases ==
  ASSUME TypeInv, NEW p \in psbts, Checkpoint(p), ~Rejected(p.conf),
         NEW next, next = stakeChanges[p.conf].committee
  PROVE  /\ status = "active"
         /\ \/ /\ KeepsCommittee(p.conf)
               /\ UNCHANGED <<committee, committeeNumber, waiting, committees>>
               /\ checkpoints' = Append(checkpoints, CheckpointRecord(p, committeeNumber))
            \/ /\ ~KeepsCommittee(p.conf)
               /\ p.conf \in DOMAIN stakeChanges
               /\ p.conf > committee.conf
               /\ next \in Committees
               /\ \/ /\ SameCommittee(committee, next)
                     /\ UNCHANGED <<committee, committeeNumber, waiting>>
                  \/ /\ ~SameCommittee(committee, next)
                     /\ waiting' \in {waiting, NoCommittee}
                     /\ committee' = next
                     /\ committeeNumber' = committeeNumber + 1
               /\ checkpoints' = Append(checkpoints, CheckpointRecord(p, committeeNumber + 1))
               /\ committees' = [n \in DOMAIN committees \cup {committeeNumber + 1} |->
                                   IF n = committeeNumber + 1 THEN next ELSE committees[n]]
<1>1. status = "active"
  BY DEF TypeInv, Bootstrapped
<1>2. SaveCheckpoint(p)
  BY DEF Checkpoint
<1>3. CASE KeepsCommittee(p.conf)
  BY <1>1, <1>2, <1>3 DEF SaveCheckpoint
<1>4. CASE ~KeepsCommittee(p.conf)
  <2>1. p.conf \in DOMAIN stakeChanges /\ ~(p.conf < committee.conf)
    BY <1>4 DEF Rejected
  <2>2. p.conf \in Nat /\ committee.conf \in Nat
    BY <1>1 DEF TypeInv, TypeOK, Bootstrapped, Psbts, Committees
  <2>3. p.conf > committee.conf
    BY <1>4, <2>1, <2>2 DEF KeepsCommittee
  <2>4. next \in Committees
    <3>1. stakeChanges[p.conf] \in Changes
      BY <2>1, LenProperties, ElementOfSeq DEF TypeInv, TypeOK
    <3> QED
      BY <3>1 DEF Changes
  <2>5. /\ RotateToCommittee(next)
        /\ checkpoints' = Append(checkpoints, CheckpointRecord(p, committeeNumber + 1))
        /\ committees' = [n \in DOMAIN committees \cup {committeeNumber + 1} |->
                            IF n = committeeNumber + 1 THEN next ELSE committees[n]]
    BY <1>2, <1>4 DEF SaveCheckpoint
  <2>6. \/ /\ SameCommittee(committee, next)
           /\ UNCHANGED <<committee, committeeNumber, waiting>>
        \/ /\ ~SameCommittee(committee, next)
           /\ waiting' \in {waiting, NoCommittee}
           /\ committee' = next
           /\ committeeNumber' = committeeNumber + 1
    BY <2>5 DEF RotateToCommittee
  <2> QED
    BY <1>1, <1>4, <2>1, <2>3, <2>4, <2>5, <2>6
<1> QED
  BY <1>3, <1>4

LEMMA CheckpointRecordType ==
  ASSUME TypeInv, NEW p \in psbts, committee' \in Committees, NEW n \in Nat
  PROVE  CheckpointRecord(p, n) \in Checkpoints
<1>1. p \in Psbts /\ committee \in Committees /\ committeeNumber \in Nat
  BY DEF TypeInv, TypeOK, Bootstrapped
<1>2. (IF KeepsCommittee(p.conf) THEN committee.conf ELSE p.conf) \in Nat
  BY <1>1 DEF Psbts, Committees
<1> QED
  BY <1>1, <1>2 DEF CheckpointRecord, Checkpoints, Psbts

LEMMA TypeCheckpoint ==
  ASSUME TypeInv, NEW p \in psbts, Checkpoint(p)
  PROVE  TypeInv'
<1>1. p \in Psbts /\ status = "active"
  BY DEF TypeInv, TypeOK, Bootstrapped
<1>2. CASE Rejected(p.conf)
  BY <1>1, <1>2 DEF Checkpoint, TypeInv, TypeOK, Bootstrapped, genesisVars, stateVars, changeVars
<1>3. CASE ~Rejected(p.conf)
  <2> DEFINE next == stakeChanges[p.conf].committee
  <2>1. SaveCheckpoint(p)
    BY <1>3 DEF Checkpoint
  <2>2. /\ committee' \in Committees
        /\ committeeNumber' \in Nat
        /\ waiting' \in Committees \cup {NoCommittee}
        /\ DOMAIN committees' \subseteq Nat
        /\ committees' \in [DOMAIN committees' -> Committees]
    <3> DEFINE num == committeeNumber + 1
    <3>1. /\ committee \in Committees
          /\ committeeNumber \in Nat
          /\ waiting \in Committees \cup {NoCommittee}
          /\ DOMAIN committees \subseteq Nat
          /\ committees \in [DOMAIN committees -> Committees]
      BY <1>1 DEF TypeInv, TypeOK, Bootstrapped
    <3>2. CASE UNCHANGED <<committee, committeeNumber, waiting, committees>>
      BY <3>1, <3>2
    <3>3. CASE ~UNCHANGED <<committee, committeeNumber, waiting, committees>>
      <4>1. /\ next \in Committees
            /\ \/ UNCHANGED <<committee, committeeNumber, waiting>>
               \/ /\ waiting' \in {waiting, NoCommittee}
                  /\ committee' = next
                  /\ committeeNumber' = committeeNumber + 1
            /\ committees' = [n \in DOMAIN committees \cup {num} |->
                                IF n = num THEN next ELSE committees[n]]
        BY <1>3, <3>3, CheckpointCases
      <4> HIDE DEF next
      <4> QED
        BY <3>1, <4>1
    <3> QED
      BY <3>2, <3>3
  <2>3. checkpoints' \in Seq(Checkpoints)
    <3>1. \A n \in Nat : CheckpointRecord(p, n) \in Checkpoints
      BY <2>2, CheckpointRecordType
    <3>2. \/ checkpoints' = Append(checkpoints, CheckpointRecord(p, committeeNumber))
          \/ checkpoints' = Append(checkpoints, CheckpointRecord(p, committeeNumber + 1))
      BY <1>3, CheckpointCases
    <3>3. committeeNumber \in Nat /\ checkpoints \in Seq(Checkpoints)
      BY DEF TypeInv, TypeOK
    <3> QED
      BY <3>1, <3>2, <3>3, AppendProperties
  <2>4. stakeChanges' \in Seq(Changes)
    BY <1>1, <2>1, SettleChangesType DEF SaveCheckpoint, TypeInv, TypeOK
  <2>5. lastCheckpoint' \in Nat \cup {None} /\ killed' \in {"NotKilled", "ToBeKilled", "Killed"}
    BY <2>1 DEF SaveCheckpoint, TypeInv, TypeOK, None
  <2> QED
    BY <1>1, <2>2, <2>3, <2>4, <2>5 DEF Checkpoint, TypeInv, TypeOK, Bootstrapped, genesisVars
<1> QED
  BY <1>2, <1>3

LEMMA TypeNext == TypeInv /\ [Next]_vars => TypeInv'
<1> SUFFICES ASSUME TypeInv, [Next]_vars PROVE TypeInv'
  OBVIOUS
<1>1. CASE NewBlock
  BY <1>1 DEF NewBlock, TypeInv, TypeOK, Bootstrapped, genesisVars, killVars,
     stateVars, changeVars
<1>2. CASE ChildSync
  <2>1. Len(stakeChanges) \in Nat
    BY LenProperties DEF TypeInv, TypeOK
  <2> QED
    BY <1>2, <2>1 DEF ChildSync, TypeInv, TypeOK, Bootstrapped, genesisVars, killVars,
       stateVars, changeVars
<1>3. CASE CreateSubnet
  BY <1>3 DEF CreateSubnet, TypeInv, TypeOK, Bootstrapped, killVars, stateVars,
     changeVars, outsideVars
<1>4. ASSUME NEW v \in Validators, NEW amount \in Amounts, JoinPreBootstrap(v, amount)
      PROVE  TypeInv'
  BY <1>4, TypeJoinPreBootstrap
<1>5. ASSUME NEW v \in Validators, NEW amount \in Amounts,
             \/ JoinPostBootstrap(v, amount)
             \/ Stake(v, amount)
             \/ Unstake(v, amount)
      PROVE  TypeInv'
  BY <1>5, TypeStakeChange
<1>6. ASSUME NEW v \in Validators, Kill(v)
      PROVE  TypeInv'
  BY <1>6, TypeKill
<1>7. ASSUME NEW c \in {0, childConf}, GenCheckpoint(c)
      PROVE  TypeInv'
  BY <1>7, TypeGenCheckpoint
<1>8. ASSUME NEW p \in psbts, Checkpoint(p)
      PROVE  TypeInv'
  BY <1>8, TypeCheckpoint
<1>9. CASE UNCHANGED vars
  BY <1>9 DEF vars, TypeInv, TypeOK, Bootstrapped, genesisVars, killVars, stateVars,
     changeVars, outsideVars
<1> QED
  BY <1>1, <1>2, <1>3, <1>4, <1>5, <1>6, <1>7, <1>8, <1>9 DEF Next

\* Every reachable state is well typed, and a subnet that is not bootstrapped
\* has no stake changes, checkpoints or kill requests.
THEOREM TypeSafety == Spec => []TypeInv
BY TypeInit, TypeNext, PTL DEF Spec

\* Every reachable state is well typed: no collateral, power or number that the
\* handlers compute in unsigned integers goes below zero.
THEOREM TypeCorrect == Spec => []TypeOK
<1>1. TypeInv => TypeOK
  BY DEF TypeInv
<1> QED
  BY <1>1, TypeSafety, PTL
=============================================================================
