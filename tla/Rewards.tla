-------------------------------- MODULE Rewards --------------------------------
(***************************************************************************)
(* The reward tracker of the emission chain (src/rewards.rs) as the        *)
(* monitor drives it.  Bitcoin heights from Activation on are divided into *)
(* snapshots of SnapshotLength blocks.  A validator is rewarded for the    *)
(* collateral it had all through the snapshot: candidates are noted at the *)
(* first block, checkpoints lower or drop them, the last block adds up.    *)
(*                                                                         *)
(* Messages of a block are saved first and hooked after: a stop between    *)
(* the two replays the block, one after the block was noted as processed   *)
(* skips the hook of the block, and one after the note was lost replays    *)
(* every block since the last note (module Monitor has the rest of the     *)
(* monitor).  Configs[s][n] is the committee of subnet s after stake       *)
(* change n, 0 the genesis committee (module Subnet has its source); the   *)
(* subnets are created before the first block.                             *)
(***************************************************************************)
EXTENDS Committee, Sequences

CONSTANTS
  Subnets,         \* the subnets of the rootnet
  Configs,         \* their committees by configuration number
  Activation,      \* activation_height
  SnapshotLength,  \* snapshot_length
  MaxHeight,       \* bound: blocks
  MaxMessages,     \* bound: messages in one block
  MaxCrashes,      \* bound: stops of the monitor
  MaxLost          \* bound: heights that could not be written

\* validate of RewardConfig, and what the configurations have to be.
ASSUME RewardConstants ==
  /\ Activation \in Nat /\ SnapshotLength \in Nat \ {0}
  /\ MaxHeight \in Nat /\ MaxMessages \in Nat /\ MaxCrashes \in Nat
  /\ MaxLost \in Nat
  /\ IsFiniteSet(Subnets) /\ DOMAIN Configs = Subnets
  /\ \A s \in Subnets : /\ 0 \in DOMAIN Configs[s] /\ DOMAIN Configs[s] \subseteq Nat
                        /\ \A n \in DOMAIN Configs[s] : Configs[s][n] \in Committees
                                                        /\ Configs[s][n].conf = n

VARIABLES
  height,          \* current_height
  saved,           \* last_processed_block of the database
  chain,           \* the blocks by height, empty once they are on record as processed
  block,           \* the messages of the next block that are known
  handled,         \* how many of them the monitor has handled
  hook,            \* the hook that runs next: none, of a checkpoint, of the block
  states,          \* SubnetState of each subnet
  committees,      \* the committees saved under each committee number
  candidates,      \* reward_candidates_db
  results,         \* reward_results_db
  named,           \* the last configuration number each child has named
  crashes,         \* stops so far
  lost,            \* heights that could not be written so far
  again,           \* history: the blocks that were handled, and then handled again
  reigns           \* history: the committees of each subnet and since when

placeVars == <<height, saved, chain, block>>
faultVars == <<crashes, lost, again>>
vars == <<placeVars, handled, hook, states, committees, candidates, results, named, faultVars,
          reigns>>

None == -1
NoHook == [kind |-> "none"]

\* snapshot_boundaries_from_height and snapshot_boundaries.
Snapshot(h) == (h - Activation) \div SnapshotLength

StartOf(k) == Activation + k * SnapshotLength

EndOf(k) == StartOf(k) + SnapshotLength - 1

Snapshots == {Snapshot(h) : h \in Activation..(Activation + MaxHeight)}

Collateral(c) == [v \in Members(c) |-> c.stake[v]]

NoState == [born |-> None, committee |-> NoCommittee, number |-> 0, killed |-> None]

Init ==
  /\ height = 0 /\ saved = 0 /\ chain = <<<<>>>> /\ block = <<>> /\ handled = 0 /\ hook = NoHook
  /\ states = [s \in Subnets |-> NoState]
  /\ committees = [s \in Subnets |-> <<>>]
  /\ candidates = [k \in Snapshots |-> <<>>]
  /\ results = <<>>
  /\ named = [s \in Subnets |-> 0]
  /\ crashes = 0 /\ lost = 0 /\ again = {}
  /\ reigns = [s \in Subnets |-> <<>>]

----------------------------------------------------------------------------
(* The block that is being processed.                                      *)

Alive(s) == states[s].born # None /\ states[s].killed = None

\* The child names no configuration, or one that it did not pass before: it
\* applies the stake changes in their order (childConf of Subnet).
Nameable(s) == {0} \cup {n \in DOMAIN Configs[s] : n >= named[s]}

Messages ==
  [kind : {"bootstrap"}, subnet : {s \in Subnets : states[s].born = None}]
  \cup UNION {[kind : {"checkpoint"}, subnet : {s}, conf : Nameable(s), kill : BOOLEAN]
                : s \in {s \in Subnets : Alive(s)}}

\* The next message of the block (external), as long as no later one is known.
Mine(m) ==
  /\ hook = NoHook /\ handled = Len(block)
  /\ height < MaxHeight /\ height + 1 = Len(chain) /\ Len(block) < MaxMessages
  /\ block' = Append(block, m)
  /\ chain' = [chain EXCEPT ![height + 1] = block']
  /\ named' = IF m.kind = "checkpoint" /\ m.conf # 0 THEN [named EXCEPT ![m.subnet] = m.conf]
              ELSE named
  /\ UNCHANGED <<height, saved, handled, hook, states, committees, candidates, results, faultVars,
                 reigns>>

With(f, x, y) == [z \in DOMAIN f \cup {x} |-> IF z = x THEN y ELSE f[z]]

\* save_committee.
SavedCommittee(s, n, c) == [committees EXCEPT ![s] = With(@, n, c)]

Reigned(s, c) ==
  reigns' = [reigns EXCEPT ![s] = Append(@, [since |-> height + 1, stake |-> Collateral(c)])]

\* The last join of the genesis committee; a replay finds it done.
Bootstrap(m) ==
  LET genesis == Configs[m.subnet][0]
  IN  /\ IF states[m.subnet].born = None
         THEN /\ states' = [states EXCEPT ![m.subnet] =
                              [born |-> height + 1, committee |-> genesis, number |-> 1,
                               killed |-> None]]
              /\ committees' = SavedCommittee(m.subnet, 1, genesis)
              /\ Reigned(m.subnet, genesis)
         ELSE UNCHANGED <<states, committees, reigns>>
      /\ handled' = handled + 1
      /\ UNCHANGED hook

KeepsCommittee(s, conf) == conf = 0 \/ conf = states[s].committee.conf

\* IpcCheckpointSubnetMsg::save_to_db (SaveCheckpoint of Subnet).  The number
\* grows in the record whether or not rotate_to_committee changes the state.
SaveCheckpoint(m) ==
  LET s    == m.subnet
      st   == states[s]
      next == Configs[s][m.conf]
      n    == IF KeepsCommittee(s, m.conf) THEN st.number ELSE st.number + 1
      rotates == ~KeepsCommittee(s, m.conf) /\ ~SameCommittee(st.committee, next)
      kept == [st EXCEPT !.killed = IF m.kill THEN height + 1 ELSE @]
  IN  IF m.conf # 0 /\ m.conf < st.committee.conf
      THEN handled' = handled + 1 /\ UNCHANGED <<hook, states, committees, reigns>>
      ELSE /\ states' = [states EXCEPT ![s] =
                           IF rotates THEN [kept EXCEPT !.committee = next, !.number = n]
                           ELSE kept]
           /\ committees' = IF KeepsCommittee(s, m.conf) THEN committees
                            ELSE SavedCommittee(s, n, next)
           /\ IF rotates THEN Reigned(s, next) ELSE UNCHANGED reigns
           /\ hook' = [kind |-> "checkpoint", subnet |-> s, signed |-> st.number, next |-> n,
                       kill |-> m.kill]
           /\ UNCHANGED handled

Handle ==
  /\ hook = NoHook /\ handled < Len(block)
  /\ LET m == block[handled + 1]
     IN  IF m.kind = "bootstrap" THEN Bootstrap(m) ELSE SaveCheckpoint(m)
  /\ UNCHANGED <<placeVars, candidates, results, named, faultVars>>

----------------------------------------------------------------------------
(* RewardTracker.                                                          *)

\* get_or_init_reward_amounts: what has been accumulated, or the collateral of
\* the committee that the candidate was noted with.
RewardAmounts(s, info) ==
  IF info.amounts # <<>> THEN info.amounts[1] ELSE Collateral(committees[s][info.number])

\* A mutant of Lower: the collateral of the new committee.
LowerToNew(amounts, stake) == [v \in DOMAIN amounts \cap DOMAIN stake |-> stake[v]]

\* Who left loses all, who has less now counts with that.
Lower(amounts, stake) ==
  [v \in DOMAIN amounts \cap DOMAIN stake |-> Min({amounts[v], stake[v]})]

NeverHappens(cp, info) == cp.next = info.number

\* A mutant of DropsKilled: a kill checkpoint is an ordinary one.
DropsKilledNot(cp) == FALSE

\* A kill checkpoint ends the candidacy.
DropsKilled(cp) == cp.kill

UpdatedCandidates(k, cp) ==
  LET cs == candidates[k]
      s  == cp.subnet
  IN  IF DropsKilled(cp) THEN [t \in DOMAIN cs \ {s} |-> cs[t]]
      ELSE IF cp.signed = cp.next \/ s \notin DOMAIN cs THEN cs
      ELSE IF NeverHappens(cp, cs[s]) THEN cs
      ELSE [cs EXCEPT ![s] =
              [number |-> cp.next,
               amounts |-> <<Lower(RewardAmounts(s, @), Collateral(committees[s][cp.next]))>>]]

UpdateAfterCheckpoint ==
  LET h == height + 1
      k == Snapshot(h)
  IN  /\ hook.kind = "checkpoint"
      /\ candidates' = IF h < Activation \/ h = StartOf(k) THEN candidates
                       ELSE [candidates EXCEPT ![k] = UpdatedCandidates(k, hook)]
      /\ hook' = NoHook
      /\ handled' = handled + 1
      /\ UNCHANGED <<placeVars, states, committees, results, named, faultVars, reigns>>

\* current_height and set_last_processed_block, whose failure sync only logs.
EndBlock ==
  /\ hook = NoHook /\ handled = Len(block) /\ height < MaxHeight
  /\ height' = height + 1
  /\ \/ saved' = height + 1 /\ UNCHANGED lost
     \/ lost < MaxLost /\ lost' = lost + 1 /\ UNCHANGED saved
  /\ LET known == IF height + 1 = Len(chain) THEN Append(chain, <<>>) ELSE chain
     IN  /\ block' = known[height + 2]
         /\ chain' = [h \in DOMAIN known |-> IF h <= saved' THEN <<>> ELSE known[h]]
  /\ handled' = 0
  /\ hook' = [kind |-> "block"]
  /\ UNCHANGED <<states, committees, candidates, results, named, crashes, again, reigns>>

\* get_all_active_subnets; a subnet is bootstrapped no earlier than created.
ActiveSubnets(from, to) ==
  {s \in Subnets : /\ states[s].born # None /\ states[s].born <= from
                   /\ states[s].killed = None \/ states[s].killed > to}

\* The candidates of the first block: the active subnets are put over those that
\* are there.
Noted(cs, from, to) ==
  [s \in ActiveSubnets(from, to) \cup DOMAIN cs |->
     IF s \in ActiveSubnets(from, to) THEN [number |-> states[s].number, amounts |-> <<>>]
     ELSE cs[s]]

\* The validators with their amounts summed over the candidates.
Summed(cs) ==
  LET amounts == [s \in DOMAIN cs |-> RewardAmounts(s, cs[s])]
  IN  [v \in UNION {DOMAIN amounts[s] : s \in DOMAIN cs} |->
         LET paid == {s \in DOMAIN cs : v \in DOMAIN amounts[s]}
         IN  SumFunctionOnSet([s \in paid |-> amounts[s][v]], paid)]

UpdateAfterBlock ==
  LET k == Snapshot(height)
      cs == IF height = StartOf(k) THEN Noted(candidates[k], StartOf(k), EndOf(k))
            ELSE candidates[k]
  IN  /\ hook.kind = "block"
      /\ IF height < Activation THEN UNCHANGED <<candidates, results>>
         ELSE /\ candidates' = [candidates EXCEPT ![k] = cs]
              /\ results' = IF height = EndOf(k) THEN With(results, k, Summed(cs)) ELSE results
      /\ hook' = NoHook
      /\ UNCHANGED <<placeVars, handled, states, committees, named, faultVars, reigns>>

\* The monitor stops and starts after the height on record: it goes on after the
\* block, replays the block, or several.
Crash ==
  /\ crashes < MaxCrashes
  /\ hook # NoHook \/ handled > 0 \/ saved < height
  /\ crashes' = crashes + 1
  /\ again' = again \cup (saved + 1)..height
  /\ height' = saved /\ block' = chain[saved + 1]
  /\ hook' = NoHook /\ handled' = 0
  /\ UNCHANGED <<saved, chain, states, committees, candidates, results, named, lost, reigns>>

Next ==
  \/ \E m \in Messages : Mine(m)
  \/ Handle \/ UpdateAfterCheckpoint \/ EndBlock \/ UpdateAfterBlock
  \/ Crash

Spec == Init /\ [][Next]_vars

----------------------------------------------------------------------------
(* Properties.                                                             *)

\* The number of the committee that s had at the first block of a snapshot.
AtStart(s, k) == Max({i \in DOMAIN reigns[s] : reigns[s][i].since <= StartOf(k)})

\* The collaterals of s that count in a snapshot: that of its first block, and
\* those of all rotations after it.
Counting(s, k) ==
  LET later == {i \in DOMAIN reigns[s] : reigns[s][i].since \in (StartOf(k) + 1)..EndOf(k)}
  IN  {reigns[s][i].stake : i \in later \cup {AtStart(s, k)}}

Throughout(k) ==
  {s \in Subnets : /\ states[s].born # None /\ states[s].born <= StartOf(k)
                   /\ states[s].killed = None \/ states[s].killed > EndOf(k)}

StakeOf(c, v) == IF v \in DOMAIN c THEN c[v] ELSE 0

Least(S, v) == Min({StakeOf(c, v) : c \in S})

Amount(k, v) == StakeOf(results[k], v)

\* No two configurations of a subnet have the same address.  A change that does
\* not show in the address is announced under a number that the next one takes
\* again, and update_after_checkpoint then takes the next one for known.
EveryChangeShows ==
  \A s \in Subnets : \A m, n \in DOMAIN Configs[s] :
    SameCommittee(Configs[s][m], Configs[s][n]) => m = n

\* As long as the monitor is not stopped, every snapshot that ended in a block it
\* has processed (from height 1 on) has its result, and a validator is rewarded
\* for the least collateral it had at any time of it, summed over the subnets that
\* were there all through it: the lazy accumulator, committees that rotate twice
\* in a block and a validator that leaves and comes back included.
RewardIsMinimum ==
  (crashes = 0 /\ EveryChangeShows) =>
    /\ hook.kind # "block" =>
         \A k \in Snapshots : EndOf(k) \in 1..height => k \in DOMAIN results
    /\ \A k \in DOMAIN results : \A v \in Validators :
         Amount(k, v) = SumFunctionOnSet([s \in Throughout(k) |-> Least(Counting(s, k), v)],
                                         Throughout(k))

\* Whenever the monitor stops, and whatever it handles again: it may miss a hook
\* or handle a checkpoint twice, but it never rewards a validator beyond its
\* collateral at the first block of the snapshot in subnets that lived through
\* it.  The exception is a snapshot whose first block is handled again because
\* its height was lost: update_after_block then notes the committees anew, as
\* later checkpoints have left them.
RewardBounded ==
  \A k \in DOMAIN results : \A v \in Validators :
    StartOf(k) \notin again =>
      Amount(k, v) <=
        SumFunctionOnSet([s \in Throughout(k) |-> StakeOf(reigns[s][AtStart(s, k)].stake, v)],
                         Throughout(k))

================================================================================
