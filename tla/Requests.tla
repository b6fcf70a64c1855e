------------------------------ MODULE Requests ------------------------------
(***************************************************************************)
(* The requests that users and validators make to the provider, from the   *)
(* call to the monitor's verdict.  A handler looks at the database, has    *)
(* the node's wallet fund a transaction, and submits it; create and join   *)
(* are two transactions, a commit and the reveal that carries the message. *)
(* The message confirms some time later, among others and in any order,    *)
(* and the monitor looks at the database again: it has to find the subnet  *)
(* by what the transaction pays and the signer by its signature, and       *)
(* passes over what it cannot place or no longer finds valid.              *)
(*                                                                         *)
(* This module puts requests in front of the handlers of module Subnet,    *)
(* whose variables are the database.  Handlers of one provider run side by *)
(* side and share the wallet, which picks coins without reserving them.    *)
(* What the messages do beyond Subnet (balances) is in module Ledger.      *)
(***************************************************************************)
EXTENDS Subnet, SequencesExt

CONSTANTS
  Scenarios,      \* requests in the order they are made, and the state at the start
  GenesisStakes,  \* the genesis committee of the subnet that is running at the start
  Coins,          \* the coins of the wallet
  MaxFailures     \* bound: calls to the node that fail, and stops of the provider

Kinds == {"create", "join", "prefund", "fund", "stake", "unstake", "kill"}

Asks == [kind : Kinds, validator : Validators, amount : Nat]

ASSUME RequestsConstants ==
  /\ \A sc \in Scenarios : sc.asks \in Seq(Asks) /\ sc.running \in BOOLEAN
  /\ GenesisStakes \in Stakes
  /\ MaxFailures \in Nat

VARIABLES
  asks,       \* the requests that are still to be made
  requests,   \* the requests that passed their check, in order
  wallet,     \* how often each coin was spent: the change takes its place
  failures    \* failures so far

requestVars == <<asks, requests, wallet, failures>>
allVars == <<vars, requestVars>>

\* A running subnet, as its last genesis join left it.
Bootstrapped ==
  LET first == [conf |-> 0, stake |-> GenesisStakes]
  IN  /\ height = 0
      /\ status = "active" /\ genesisStake = GenesisStakes
      /\ committee = first /\ committeeNumber = 1 /\ committees = [n \in {1} |-> first]
      /\ waiting = NoCommittee /\ stakeChanges = <<>>
      /\ lastCheckpoint = None /\ checkpoints = <<>>
      /\ killed = "NotKilled" /\ markedForKill = None /\ killRequests = {}
      /\ childConf = 0 /\ psbts = {} /\ halted = FALSE

RequestsInit ==
  /\ \E sc \in Scenarios : asks = sc.asks /\ IF sc.running THEN Bootstrapped ELSE Init
  /\ requests = <<>>
  /\ wallet = [c \in Coins |-> 0]
  /\ failures = 0

----------------------------------------------------------------------------
(* The check of each handler.                                              *)

\* create_subnet: the subnet id comes with the transaction.
CheckCreate == status = "absent"

CheckJoin(v, amount) ==
  \/ status = "genesis" /\ ValidatePreBootstrap(v, amount)
  \/ status = "active" /\ ValidatePostBootstrap(v, amount)

CheckPrefund(amount) == amount > 0 /\ status = "genesis"

\* fund_subnet does not call validate_for_subnet.
CheckFund(amount) == amount > 0 /\ status = "active"

CheckStake(v, amount) == status = "active" /\ ValidateStake(v, amount)

CheckUnstake(v, amount) == status = "active" /\ ValidateUnstake(v, amount)

\* The votes are those at the last block that was processed.
CheckKill(v) ==
  /\ status = "active" /\ v \in Members(Latest)
  /\ \A r \in ValidKillRequests : r.validator # v

Checked(ask) ==
  LET v == ask.validator
  IN  CASE ask.kind = "create"  -> CheckCreate
        [] ask.kind = "join"    -> CheckJoin(v, ask.amount)
        [] ask.kind = "prefund" -> CheckPrefund(ask.amount)
        [] ask.kind = "fund"    -> CheckFund(ask.amount)
        [] ask.kind = "stake"   -> CheckStake(v, ask.amount)
        [] ask.kind = "unstake" -> CheckUnstake(v, ask.amount)
        [] ask.kind = "kill"    -> CheckKill(v)

----------------------------------------------------------------------------
(* The transaction of each message.  create and join travel in the witness *)
(* of a reveal; the others are found by the tag in their first output.     *)
(* Stake, unstake and kill do not carry the subnet's id but pay the        *)
(* committee's address; unstake and kill carry a signature, not the key.   *)
(* The signature covers the first input, so it holds for one transaction.  *)

CreateMsg == [tag |-> "CreateSubnet", in |-> "witness"]

JoinMsg(v, amount) == [tag |-> "JoinSubnet", in |-> "witness", validator |-> v, amount |-> amount]

PrefundTx == [tag |-> "PrefundSubnet", in |-> "output"]

FundTx == [tag |-> "FundSubnet", in |-> "output"]

StakeTx(v, amount) ==
  [tag |-> "StakeCollateral", in |-> "output", to |-> Address(committee),
   validator |-> v, amount |-> amount]

UnstakeTx(v, amount) ==
  [tag |-> "UnstakeCollateral", in |-> "output", to |-> Address(committee),
   signer |-> v, amount |-> amount]

KillTx(v) ==
  [tag |-> "KillSubnet", in |-> "output", to |-> Address(committee), signer |-> v]

ToTx(ask) ==
  CASE ask.kind = "create"  -> CreateMsg
    [] ask.kind = "join"    -> JoinMsg(ask.validator, ask.amount)
    [] ask.kind = "prefund" -> PrefundTx
    [] ask.kind = "fund"    -> FundTx
    [] ask.kind = "stake"   -> StakeTx(ask.validator, ask.amount)
    [] ask.kind = "unstake" -> UnstakeTx(ask.validator, ask.amount)
    [] ask.kind = "kill"    -> KillTx(ask.validator)

----------------------------------------------------------------------------
(* A request is made.                                                      *)

Honoured == {i \in DOMAIN requests : requests[i].tx = "honoured"}

\* History: what the handler saw.
Sight == [status |-> status, killed |-> killed, committee |-> committee, honoured |-> Honoured]

\* A request arrives and passes its check; its message is made from the same
\* reading of the database.
Ask ==
  /\ asks # <<>> /\ ~halted
  /\ Checked(Head(asks))
  /\ asks' = Tail(asks)
  /\ requests' = Append(requests,
       [ask |-> Head(asks), msg |-> ToTx(Head(asks)), step |-> "checked", coin |-> <<>>,
        tx |-> "none", sight |-> Sight])
  /\ UNCHANGED <<vars, wallet, failures>>

\* A request that fails its check is answered with an error.
AskRefused ==
  /\ asks # <<>> /\ ~halted
  /\ ~Checked(Head(asks))
  /\ asks' = Tail(asks)
  /\ UNCHANGED <<vars, requests, wallet, failures>>

----------------------------------------------------------------------------
(* Funding and submission.                                                 *)

\* create and join go through create_commit_reveal_txs.
CommitReveal(r) == r.msg.in = "witness"

\* fund_tx and sign_tx: the wallet picks a coin, and does not lock it.
Fund(i) ==
  /\ requests[i].step = "checked"
  /\ \E c \in Coins :
       requests' = [requests EXCEPT ![i].step = "funded", ![i].coin = <<c, wallet[c]>>]
  /\ UNCHANGED <<vars, asks, wallet, failures>>

\* The coin of r has not been spent by another request meanwhile.
Unspent(r) == wallet[r.coin[1]] = r.coin[2]

\* submit_to_mempool: testmempoolaccept for all transactions of the message.
Test(i) ==
  /\ requests[i].step = "funded"
  /\ requests' = [requests EXCEPT ![i].step = IF Unspent(requests[i]) THEN "tested" ELSE "failed"]
  /\ UNCHANGED <<vars, asks, wallet, failures>>

\* What the first sendrawtransaction leaves on the node.
FirstSent(r) == IF CommitReveal(r) THEN "commit" ELSE "waiting"

\* A mutant of Send: a message with a commit is answered after the commit.
SendCommit(i) ==
  /\ requests[i].step = "tested"
  /\ IF Unspent(requests[i])
     THEN /\ requests' = [requests EXCEPT ![i].step = "answered", ![i].tx = FirstSent(requests[i])]
          /\ wallet' = [wallet EXCEPT ![requests[i].coin[1]] = @ + 1]
     ELSE /\ requests' = [requests EXCEPT ![i].step = "failed"]
          /\ UNCHANGED wallet
  /\ UNCHANGED <<vars, asks, failures>>

\* The transactions are sent one after the other; an error returns at once.
Send(i) ==
  /\ requests[i].step = "tested"
  /\ IF Unspent(requests[i])
     THEN /\ requests' = [requests EXCEPT
               ![i].step = IF CommitReveal(requests[i]) THEN "half" ELSE "answered",
               ![i].tx = FirstSent(requests[i])]
          /\ wallet' = [wallet EXCEPT ![requests[i].coin[1]] = @ + 1]
     ELSE /\ requests' = [requests EXCEPT ![i].step = "failed"]
          /\ UNCHANGED wallet
  /\ UNCHANGED <<vars, asks, failures>>

SendReveal(i) ==
  /\ requests[i].step = "half"
  /\ requests' = [requests EXCEPT ![i].step = "answered", ![i].tx = "waiting"]
  /\ UNCHANGED <<vars, asks, wallet, failures>>

\* A call to the node fails or the provider stops; what was to be sent may
\* have arrived all the same.
Fail(i) ==
  /\ failures < MaxFailures
  /\ failures' = failures + 1
  /\ \/ /\ requests[i].step \in {"checked", "funded", "tested", "half"}
        /\ requests' = [requests EXCEPT ![i].step = "failed"]
        /\ UNCHANGED wallet
     \/ /\ requests[i].step = "tested" /\ Unspent(requests[i])
        /\ requests' = [requests EXCEPT ![i].step = "failed", ![i].tx = FirstSent(requests[i])]
        /\ wallet' = [wallet EXCEPT ![requests[i].coin[1]] = @ + 1]
     \/ /\ requests[i].step = "half"
        /\ requests' = [requests EXCEPT ![i].step = "failed", ![i].tx = "waiting"]
        /\ UNCHANGED wallet
  /\ UNCHANGED <<vars, asks>>

----------------------------------------------------------------------------
(* The monitor, when the message is confirmed.                             *)

\* get_subnet_by_multisig_address, of the current committee only.
Placed(msg) == status = "active" /\ msg.to = Address(committee)

\* IpcMessage::from_witness takes two tags and skips the others.
CreateFromWitness(msg) == msg.in = "witness" /\ msg.tag = "CreateSubnet"
JoinFromWitness(msg)   == msg.in = "witness" /\ msg.tag = "JoinSubnet"

PrefundFromTx(msg) == msg.in = "output" /\ msg.tag = "PrefundSubnet"

FundFromTx(msg) == msg.in = "output" /\ msg.tag = "FundSubnet"

StakeFromTx(msg) == msg.in = "output" /\ msg.tag = "StakeCollateral" /\ Placed(msg)

\* The signature is tried with the key of each member of the current committee.
UnstakeFromTx(msg) ==
  /\ msg.in = "output" /\ msg.tag = "UnstakeCollateral"
  /\ Placed(msg) /\ SignerFromTx(msg.signer)

KillFromTx(msg) ==
  /\ msg.in = "output" /\ msg.tag = "KillSubnet"
  /\ Placed(msg) /\ SignerFromTx(msg.signer)

\* process_ipc_msg for each message: the handler of module Subnet, if it takes it.
TakesJoin(msg) ==
  \/ JoinPreBootstrap(msg.validator, msg.amount)
  \/ JoinPostBootstrap(msg.validator, msg.amount)

\* genesis_balance_entries and the rootnet messages are in module Ledger.
TakesPrefund == status = "genesis" /\ UNCHANGED vars

TakesFund == status = "active" /\ NotKilled /\ UNCHANGED vars

\* A mutant of TakesStake: stake is added to members of the current committee.
TakesStakeOfCommittee(msg) ==
  msg.validator \in Members(committee) /\ Stake(msg.validator, msg.amount)

TakesStake(msg) == Stake(msg.validator, msg.amount)

TakesUnstake(msg) == Unstake(msg.signer, msg.amount)

TakesKill(msg) == Kill(msg.signer)

\* process_transaction: a message is found in the transaction and handled.
Takes(msg) ==
  \/ CreateFromWitness(msg) /\ CreateSubnet
  \/ JoinFromWitness(msg) /\ TakesJoin(msg)
  \/ PrefundFromTx(msg) /\ TakesPrefund
  \/ FundFromTx(msg) /\ TakesFund
  \/ StakeFromTx(msg) /\ TakesStake(msg)
  \/ UnstakeFromTx(msg) /\ TakesUnstake(msg)
  \/ KillFromTx(msg) /\ TakesKill(msg)

Honour(i) ==
  /\ requests[i].tx = "waiting" /\ ~halted
  /\ Takes(requests[i].msg)
  /\ requests' = [requests EXCEPT ![i].tx = IF halted' THEN "waiting" ELSE "honoured"]
  /\ UNCHANGED <<asks, wallet, failures>>

\* The message is not recognised, or refused and logged.
PassOver(i) ==
  /\ requests[i].tx = "waiting" /\ ~halted
  /\ ~ENABLED Takes(requests[i].msg)
  /\ requests' = [requests EXCEPT ![i].tx = "passed"]
  /\ UNCHANGED <<vars, asks, wallet, failures>>

Submission(i) == Fund(i) \/ Test(i) \/ Send(i) \/ SendReveal(i)

Verdict(i) == Honour(i) \/ PassOver(i)

\* Checkpoints rotate the committee and end the subnet meanwhile.
Meanwhile ==
  /\ \/ NewBlock \/ ChildSync
     \/ \E c \in {0, childConf} : GenCheckpoint(c)
     \/ \E p \in psbts : Checkpoint(p)
  /\ UNCHANGED requestVars

RequestsNext ==
  \/ Ask \/ AskRefused
  \/ \E i \in DOMAIN requests : Submission(i) \/ Fail(i) \/ Verdict(i)
  \/ Meanwhile

RequestsSpec == RequestsInit /\ [][RequestsNext]_allVars

\* A handler runs to its end, and what the node accepted confirms.
RequestsFairness ==
  /\ WF_allVars(\E i \in DOMAIN requests : Submission(i))
  /\ WF_allVars(\E i \in DOMAIN requests : Verdict(i))

RequestsLiveSpec == RequestsSpec /\ RequestsFairness

----------------------------------------------------------------------------
(* Properties.                                                             *)

\* Since r was checked: the vote to end the subnet passed; the committee
\* rotated; the subnet was bootstrapped; another message of the same validator
\* was honoured.
Ended(r)    == killed # r.sight.killed
Rotated(r)  == committee # r.sight.committee
Started(r)  == status # r.sight.status
OwnOther(r) == \E i \in Honoured \ r.sight.honoured :
                 requests[i].ask.validator = r.ask.validator

\* What may cost a message its effect, for each kind.
Overtaken(r) ==
  CASE r.ask.kind = "create"  -> FALSE
    [] r.ask.kind = "join"    -> Ended(r) \/ OwnOther(r)
    [] r.ask.kind = "prefund" -> Started(r)
    [] r.ask.kind = "fund"    -> Ended(r)
    [] r.ask.kind = "stake"   -> Ended(r) \/ Rotated(r) \/ OwnOther(r)
    [] r.ask.kind = "unstake" -> Ended(r) \/ Rotated(r) \/ OwnOther(r)
    [] r.ask.kind = "kill"    -> Rotated(r) \/ OwnOther(r)

\* What the handlers do not check: fund_subnet takes funds for a subnet that is
\* ending, and unstake_collateral and kill_subnet take requests of a validator
\* that still waits for its committee, whose signature the monitor does not know.
Unchecked(r) ==
  \/ r.ask.kind = "fund" /\ r.sight.killed # "NotKilled"
  \/ r.ask.kind \in {"unstake", "kill"}
     /\ r.ask.validator \notin Members(r.sight.committee)

\* The handlers' checks and the monitor's agree: a message is passed over only
\* if something of its kind's list happened to the subnet between the two, or
\* if it is one of the two the handlers let through.
HonouredUnlessOvertaken ==
  [][\A i \in DOMAIN requests :
       (requests[i].tx = "waiting" /\ requests'[i].tx = "passed") =>
         Overtaken(requests[i]) \/ Unchecked(requests[i])]_allVars

\* A request that was answered with a transaction id reaches the monitor, its
\* reveal included, however many handlers competed for the wallet's coins.
AnsweredArrives ==
  \A i \in 1..Max({Len(sc.asks) : sc \in Scenarios}) :
    (i \in DOMAIN requests /\ requests[i].step = "answered") ~>
      \/ halted
      \/ i \in DOMAIN requests /\ requests[i].tx \in {"honoured", "passed"}
=============================================================================
