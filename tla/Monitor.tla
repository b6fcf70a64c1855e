------------------------------- MODULE Monitor -------------------------------
(***************************************************************************)
(* The monitor process: it polls a Bitcoin node for the confirmed height,  *)
(* fetches the blocks it has not handled, in batched windows while it      *)
(* catches up (sync) and one at a time afterwards (listen), hands their    *)
(* IPC messages to the handlers in order, marks each block as processed,   *)
(* runs the reward hook, and imports the addresses the messages queued     *)
(* into a watch-only wallet.  Around it RPC calls fail, the node falls     *)
(* behind, blocks that are not confirmed are replaced, the database        *)
(* refuses a write, and the process is stopped and started again.          *)
(*                                                                         *)
(* A message is reduced to what its handler does when it is handled once   *)
(* more: Applies and QueuesImport.                                         *)
(***************************************************************************)
EXTENDS Integers, Sequences, FiniteSets

CONSTANTS
  Blocks,           \* possible contents of a block: sequences of message kinds
  Confirmations,    \* BTC_CONFIRMATIONS
  Batch,            \* sync_batch_size
  MaxHeight,        \* bound: blocks mined
  MaxMsgs,          \* bound: messages in a block
  MaxInterrupts,    \* bound: stops of the process and failed writes
  MaxDrops          \* bound: times the node comes back with a lower tip

Kinds == {"create", "join", "checkpoint", "fund", "invalid"}

ASSUME MonitorConstants ==
  /\ Confirmations \in Nat
  /\ Batch \in Nat \ {0}
  /\ MaxHeight \in Nat
  /\ MaxMsgs \in Nat
  /\ MaxInterrupts \in Nat
  /\ MaxDrops \in Nat
  /\ Blocks \subseteq Seq(Kinds)
  /\ \A b \in Blocks : Len(b) <= MaxMsgs

VARIABLES
  chain,            \* Bitcoin's best chain, by height
  tip,              \* getblockcount of the node
  lastProcessed,    \* the database's last_processed_block
  applied,          \* how often each message changed the database
  done,             \* the messages handled at least once
  hooked,           \* the blocks the reward hook ran for
  pc,               \* where the process is
  phase,            \* "sync" or "listen"
  target,           \* latest_block_height, block_count
  current,          \* current_height
  window,           \* the blocks fetched and not yet finished, from current + 1
  index,            \* the message of the first of them that is next
  effects,          \* side_effects: the imports queued in memory
  imported,         \* the addresses registered in the wallet
  interrupts,       \* stops and failed writes so far
  drops             \* times the node came back behind so far

nodeVars == <<chain, tip, drops>>
dbVars   == <<lastProcessed, applied, done, hooked>>
readVars == <<target, current, window, index>>
vars     == <<nodeVars, dbVars, pc, phase, readVars, effects, imported, interrupts>>

Positions == (1..MaxHeight) \X (1..MaxMsgs)

Places == {"down", "start", "poll", "fetch", "check", "handle", "hook",
           "effects", "backoff"}

TypeOK ==
  /\ chain \in Seq(Blocks) /\ Len(chain) <= MaxHeight
  /\ tip \in 0..Len(chain)
  /\ lastProcessed \in 0..MaxHeight
  /\ applied \in [Positions -> Nat]
  /\ done \subseteq Positions
  /\ hooked \subseteq 1..MaxHeight
  /\ pc \in Places
  /\ phase \in {"sync", "listen"}
  /\ target \in 0..MaxHeight
  /\ current \in 0..MaxHeight
  /\ window \in Seq(Blocks)
  /\ index \in 1..(MaxMsgs + 1)
  /\ effects \subseteq Positions
  /\ imported \subseteq Positions
  /\ interrupts \in 0..MaxInterrupts
  /\ drops \in 0..MaxDrops

Init ==
  /\ chain = <<>> /\ tip = 0 /\ drops = 0
  /\ lastProcessed = 0 /\ applied = [p \in Positions |-> 0]
  /\ done = {} /\ hooked = {}
  /\ pc = "down" /\ phase = "sync"
  /\ target = 0 /\ current = 0 /\ window = <<>> /\ index = 1
  /\ effects = {} /\ imported = {} /\ interrupts = 0

----------------------------------------------------------------------------
(* Bitcoin and the node.                                                   *)

Mine ==
  /\ Len(chain) < MaxHeight
  /\ \E b \in Blocks : chain' = Append(chain, b)
  /\ UNCHANGED <<tip, drops, dbVars, pc, phase, readVars, effects, imported, interrupts>>

\* A block with fewer than Confirmations blocks on top is replaced.
Reorg ==
  /\ \E h \in DOMAIN chain, b \in Blocks :
       /\ h > Len(chain) - Confirmations
       /\ chain' = [chain EXCEPT ![h] = b]
  /\ UNCHANGED <<tip, drops, dbVars, pc, phase, readVars, effects, imported, interrupts>>

NodeSync ==
  /\ tip < Len(chain)
  /\ tip' = tip + 1
  /\ UNCHANGED <<chain, drops, dbVars, pc, phase, readVars, effects, imported, interrupts>>

\* The node restarts without the blocks it had not flushed, or reindexes.
NodeRestart ==
  /\ drops < MaxDrops
  /\ drops' = drops + 1
  /\ \E t \in 0..tip : t < tip /\ tip' = t
  /\ UNCHANGED <<chain, dbVars, pc, phase, readVars, effects, imported, interrupts>>

----------------------------------------------------------------------------
(* The process and its polls.                                              *)

\* Mutants of Confirmed: the tip counts as confirmed; a young chain underflows;
\* one confirmation too many.
ConfirmedAtTip == tip

ConfirmedUnguarded == tip - Confirmations

ConfirmedLate == IF tip <= Confirmations THEN 0 ELSE tip - Confirmations - 1

\* get_latest_confirmed_height.
Confirmed == IF tip < Confirmations THEN 0 ELSE tip - Confirmations

\* main, up to the first call of sync_and_listen.
Start ==
  /\ pc = "down"
  /\ pc' = "start"
  /\ UNCHANGED <<nodeVars, dbVars, phase, readVars, effects, imported, interrupts>>

\* A mutant of SyncEntry: starts at the last processed block itself.
SyncEntryAgain ==
  /\ pc = "start"
  /\ pc' = "poll" /\ phase' = "sync"
  /\ current' = IF lastProcessed = 0 THEN 0 ELSE lastProcessed - 1
  /\ target' = 0 /\ window' = <<>> /\ index' = 1
  /\ UNCHANGED <<nodeVars, dbVars, effects, imported, interrupts>>

\* sync reads where to resume.  Queued imports survive a retry.
SyncEntry ==
  /\ pc = "start"
  /\ pc' = "poll" /\ phase' = "sync"
  /\ current' = lastProcessed
  /\ target' = 0 /\ window' = <<>> /\ index' = 1
  /\ UNCHANGED <<nodeVars, dbVars, effects, imported, interrupts>>

\* The process ends and its memory is gone.
Ends ==
  /\ pc' = "down" /\ phase' = "sync"
  /\ target' = 0 /\ current' = 0 /\ window' = <<>> /\ index' = 1
  /\ effects' = {}

\* The height is read at the head of either loop.  A sync that finds the node
\* behind gives up for good: the error is not one main retries.
Poll ==
  /\ pc = "poll"
  /\ IF phase = "sync" /\ current > Confirmed
     THEN Ends
     ELSE /\ pc' = "fetch"
          /\ target' = Confirmed
          /\ UNCHANGED <<phase, current, window, index, effects>>
  /\ UNCHANGED <<nodeVars, dbVars, imported, interrupts>>

\* sync propagates a failed poll to main, listen logs it and goes on to the
\* queued imports.
PollFails ==
  /\ pc = "poll"
  /\ pc' = IF phase = "sync" THEN "backoff" ELSE "effects"
  /\ UNCHANGED <<nodeVars, dbVars, phase, readVars, effects, imported, interrupts>>

\* sync is complete if no further block was confirmed meanwhile.
SyncCheck ==
  /\ pc = "check"
  /\ pc' = IF current = Confirmed THEN "effects" ELSE "poll"
  /\ UNCHANGED <<nodeVars, dbVars, phase, readVars, effects, imported, interrupts>>

\* main sleeps and calls sync_and_listen again.
Backoff ==
  /\ pc = "backoff"
  /\ pc' = "start"
  /\ UNCHANGED <<nodeVars, dbVars, phase, readVars, effects, imported, interrupts>>

----------------------------------------------------------------------------
(* Blocks.                                                                 *)

\* The last block of the next window: sync asks for up to Batch blocks in one
\* round-trip, listen for one.
WindowEnd ==
  IF phase = "listen" THEN current + 1
  ELSE IF current + Batch < target THEN current + Batch ELSE target

\* fetch_blocks_batched, or get_block_hash and get_block.
Fetch ==
  /\ pc = "fetch" /\ current < target
  /\ WindowEnd <= tip
  /\ window' = [k \in 1..(WindowEnd - current) |-> chain[current + k]]
  /\ index' = 1
  /\ pc' = "handle"
  /\ UNCHANGED <<nodeVars, dbVars, phase, target, current, effects, imported, interrupts>>

\* The fetch or the check fails and main retries.
FetchFails ==
  /\ pc = "check" \/ (pc = "fetch" /\ current < target)
  /\ pc' = "backoff"
  /\ UNCHANGED <<nodeVars, dbVars, phase, readVars, effects, imported, interrupts>>

CaughtUp ==
  /\ pc = "fetch" /\ current >= target
  /\ pc' = IF phase = "sync" THEN "check" ELSE "effects"
  /\ UNCHANGED <<nodeVars, dbVars, phase, readVars, effects, imported, interrupts>>

\* handle_ipc_msg_error lets the block go on after an invalid message.
Ignored(kind) == kind = "invalid"

\* Whether handling a message changes the database, if it did so n times: a
\* create does so always.  Handled again, a fund, a stake or a checkpoint is
\* recorded once more, unless what came after it is in the way; the join of a
\* validator who is registered is refused, unless the create, handled again
\* too, has emptied the genesis committee.
Outcomes(kind, n) ==
  IF Ignored(kind) THEN {FALSE}
  ELSE IF n = 0 \/ kind = "create" THEN {TRUE} ELSE BOOLEAN

\* Whether it queues an import.  A join does so when it bootstraps the subnet,
\* a checkpoint when it rotates the committee: never the second time.
QueuesImport(kind, n, applies) ==
  \/ kind = "create"
  \/ kind = "join" /\ applies
  \/ kind = "checkpoint" /\ n = 0

\* A mutant of Handle: an invalid message ends the block.
HandleToInvalid ==
  LET p    == <<current + 1, index>>
      kind == window[1][index]
  IN  /\ pc = "handle" /\ index <= Len(window[1])
      /\ done' = done \cup {p}
      /\ \E applies \in Outcomes(kind, applied[p]) :
           /\ applied' = IF applies THEN [applied EXCEPT ![p] = @ + 1] ELSE applied
           /\ effects' = IF QueuesImport(kind, applied[p], applies)
                         THEN effects \cup {p} ELSE effects
      /\ index' = IF Ignored(kind) THEN Len(window[1]) + 1 ELSE index + 1
      /\ UNCHANGED <<nodeVars, lastProcessed, hooked, pc, phase, target, current,
                     window, imported, interrupts>>

\* process_ipc_msg for the next message of the first block of the window.  The
\* errors of an invalid message are ignored.
Handle ==
  LET p    == <<current + 1, index>>
      kind == window[1][index]
  IN  /\ pc = "handle" /\ index <= Len(window[1])
      /\ done' = done \cup {p}
      /\ \E applies \in Outcomes(kind, applied[p]) :
           /\ applied' = IF applies THEN [applied EXCEPT ![p] = @ + 1] ELSE applied
           /\ effects' = IF QueuesImport(kind, applied[p], applies)
                         THEN effects \cup {p} ELSE effects
      /\ index' = index + 1
      /\ UNCHANGED <<nodeVars, lastProcessed, hooked, pc, phase, target, current,
                     window, imported, interrupts>>

\* All messages of the first block of the window are handled.
BlockHandled == pc = "handle" /\ index > Len(window[1])

\* The loop counts the block and goes on to the hook.
Advance ==
  /\ pc' = "hook"
  /\ current' = current + 1
  /\ window' = Tail(window)
  /\ index' = 1
  /\ UNCHANGED <<phase, target, effects>>

\* set_last_processed_block.
FinishBlock ==
  /\ BlockHandled
  /\ Advance
  /\ lastProcessed' = current + 1
  /\ UNCHANGED <<nodeVars, applied, done, hooked, imported, interrupts>>

\* The database refuses the write.  sync logs it and goes on, listen returns
\* the error and the process ends.
FinishUnsaved ==
  /\ BlockHandled
  /\ interrupts < MaxInterrupts
  /\ interrupts' = interrupts + 1
  /\ IF phase = "sync" THEN Advance ELSE Ends
  /\ UNCHANGED <<nodeVars, dbVars, imported>>

\* The next block of the window, or the head of the loop.
AfterHook == pc' = IF window = <<>> THEN "fetch" ELSE "handle"

\* A mutant of Hook: only sync calls it.
HookInSync ==
  /\ pc = "hook"
  /\ hooked' = IF phase = "sync" THEN hooked \cup {current} ELSE hooked
  /\ AfterHook
  /\ UNCHANGED <<nodeVars, lastProcessed, applied, done, phase, readVars, effects,
                 imported, interrupts>>

\* update_after_block.
Hook ==
  /\ pc = "hook"
  /\ hooked' = hooked \cup {current}
  /\ AfterHook
  /\ UNCHANGED <<nodeVars, lastProcessed, applied, done, phase, readVars, effects,
                 imported, interrupts>>

\* Its database error is only logged.
HookFails ==
  /\ pc = "hook"
  /\ interrupts < MaxInterrupts
  /\ interrupts' = interrupts + 1
  /\ AfterHook
  /\ UNCHANGED <<nodeVars, dbVars, phase, readVars, effects, imported>>

----------------------------------------------------------------------------
(* Imports.                                                                *)

\* The loops go on: from sync to listen, or after the poll interval.
EffectsDone == pc' = "poll" /\ phase' = "listen"

\* is_address_imported for all of them, then import_address_batch.
Import ==
  /\ pc = "effects"
  /\ imported' = imported \cup effects
  /\ effects' = {}
  /\ EffectsDone
  /\ UNCHANGED <<nodeVars, dbVars, readVars, interrupts>>

\* A mutant of ImportSwallowed: an import that timed out counts as done.
ImportForgotten ==
  /\ pc = "effects" /\ effects # {}
  /\ \E registered \in {{}, effects} : imported' = imported \cup registered
  /\ effects' = {}
  /\ EffectsDone
  /\ UNCHANGED <<nodeVars, dbVars, readVars, interrupts>>

\* The import times out, with the descriptors registered or not, or the wallet
\* is rescanning: the error is swallowed and the queue kept.
ImportSwallowed ==
  /\ pc = "effects" /\ effects # {}
  /\ \E registered \in {{}, effects} : imported' = imported \cup registered
  /\ EffectsDone
  /\ UNCHANGED <<nodeVars, dbVars, readVars, effects, interrupts>>

\* Any other RPC error is returned to main, which retries.
ImportFails ==
  /\ pc = "effects" /\ effects # {}
  /\ pc' = "backoff"
  /\ UNCHANGED <<nodeVars, dbVars, phase, readVars, effects, imported, interrupts>>

----------------------------------------------------------------------------
\* The process is killed, crashes, is cancelled at the head of a loop, or meets
\* a database error in a handler, which main does not retry.
Stop ==
  /\ pc # "down"
  /\ interrupts < MaxInterrupts
  /\ interrupts' = interrupts + 1
  /\ Ends
  /\ UNCHANGED <<nodeVars, dbVars, imported>>

Next ==
  \/ Mine \/ Reorg \/ NodeSync \/ NodeRestart
  \/ Start \/ SyncEntry \/ Poll \/ PollFails \/ SyncCheck \/ Backoff
  \/ Fetch \/ FetchFails \/ CaughtUp
  \/ Handle \/ FinishBlock \/ FinishUnsaved \/ Hook \/ HookFails
  \/ Import \/ ImportSwallowed \/ ImportFails
  \/ Stop

Spec == Init /\ [][Next]_vars

----------------------------------------------------------------------------
(* Safety.                                                                 *)

\* The messages of the confirmed blocks are handled in the order of the chain
\* and none is left out, through windows, retries, restarts and lost writes;
\* and no block is replaced once one of its messages was handled.
Reader == INSTANCE BlockReader

HandlesInOrder == Reader!Spec

\* The blocks the process holds in memory are still those of the chain, however
\* long ago it fetched them.
ReadsFinal ==
  \A k \in DOMAIN window :
    /\ current + k \in DOMAIN chain
    /\ window[k] = chain[current + k]

\* A message changes the database once, and once more at most for each time the
\* process was stopped or a write failed: RPC errors and retries never repeat one.
AppliedAgain == \A p \in Positions : applied[p] <= 1 + interrupts

\* The reward hook runs for every block marked as processed; each interruption
\* makes it miss one at most.
HookMissed ==
  LET missed == {h \in 1..lastProcessed : h \notin hooked}
  IN  Cardinality(missed) <= interrupts + (IF pc = "hook" THEN 1 ELSE 0)

----------------------------------------------------------------------------
(* Liveness.                                                               *)

\* The process is restarted when it ends (the containers' restart policy), the
\* node catches up, and an RPC call that is tried again and again succeeds.
Fairness ==
  /\ WF_vars(NodeSync)
  /\ WF_vars(Start) /\ WF_vars(SyncEntry) /\ WF_vars(Backoff) /\ WF_vars(CaughtUp)
  /\ WF_vars(Handle) /\ WF_vars(FinishBlock) /\ WF_vars(Hook)
  /\ SF_vars(Poll) /\ SF_vars(SyncCheck) /\ SF_vars(Fetch) /\ SF_vars(Import)

LiveSpec == Spec /\ Fairness

\* All messages of block h were handled.
Handled(h) == h \in DOMAIN chain /\ \A i \in DOMAIN chain[h] : <<h, i>> \in done

\* Every block that has its confirmations is handled.
ConfirmedHandled ==
  \A h \in 1..MaxHeight : (h + Confirmations <= Len(chain)) ~> Handled(h)

\* A queued import reaches the wallet unless the process ends first.
ImportedEventually ==
  \A p \in Positions : (p \in effects) ~> (p \in imported \/ pc = "down")
=============================================================================
