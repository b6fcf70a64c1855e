---------------------------- MODULE MonitorProofs ----------------------------
(***************************************************************************)
(* The monitor's safety for every chain, number of confirmations, window   *)
(* size and number of failures.                                            *)
(***************************************************************************)
EXTENDS Monitor, SequenceTheorems, FiniteSetTheorems, TLAPS

\* No block up to h can be replaced any more.
Frozen(h) == h + Confirmations <= Len(chain)

\* What the process reads is confirmed: the height it works towards, the blocks
\* in memory, and every block of which a message was handled.
ReadsConfirmed ==
  /\ target > 0 => Frozen(target)
  /\ \A k \in DOMAIN window : Frozen(current + k) /\ window[k] = chain[current + k]
  /\ \A p \in done : Frozen(p[1])

\* The place of the process fits what it holds.
PlaceFits ==
  /\ pc = "handle" => window # <<>> /\ index <= Len(window[1]) + 1
  /\ pc # "handle" => index = 1
  /\ pc = "hook" => current >= 1
  /\ pc \notin {"down", "start"} => lastProcessed <= current

\* Nothing was left out behind the process, nor behind where it would resume.
NothingLeftOut ==
  /\ \A h \in 1..lastProcessed : Frozen(h) /\ Handled(h)
  /\ \A h \in 1..current : Frozen(h) /\ Handled(h)
  /\ \A i \in 1..(index - 1) : <<current + 1, i>> \in done

\* The messages that a restart would handle again, and those still ahead, have
\* changed the database at most once per interruption.
Ahead(p) == p[1] > lastProcessed /\ ~(p[1] = current + 1 /\ p[2] < index)

AheadApplied == \A p \in Positions : Ahead(p) => applied[p] <= interrupts

ReadInv == TypeOK /\ ReadsConfirmed /\ PlaceFits

OrderInv == ReadInv /\ NothingLeftOut

ApplyInv == ReadInv /\ AppliedAgain /\ AheadApplied

----------------------------------------------------------------------------
(* Types and what is read.                                                 *)

LEMMA ConfirmedType ==
  ASSUME TypeOK
  PROVE  /\ Confirmed \in 0..MaxHeight
         /\ Confirmed > 0 => Frozen(Confirmed)
BY MonitorConstants DEF TypeOK, Confirmed, Frozen

\* The ranges that the arithmetic below needs.
LEMMA Ranges ==
  ASSUME TypeOK
  PROVE  /\ Len(chain) \in Nat /\ DOMAIN chain = 1..Len(chain) /\ Len(chain) <= MaxHeight
         /\ Len(window) \in Nat /\ DOMAIN window = 1..Len(window)
         /\ current \in Nat /\ target \in Nat /\ lastProcessed \in Nat /\ index \in Nat
         /\ index >= 1 /\ Confirmations \in Nat /\ MaxHeight \in Nat /\ MaxMsgs \in Nat
BY LenProperties, MonitorConstants DEF TypeOK

\* The blocks in memory stand below the last Confirmations ones.
LEMMA WindowFits ==
  ASSUME ReadInv, NEW k \in DOMAIN window
  PROVE  /\ k \in Nat /\ k >= 1 /\ current + k \in 1..Len(chain)
         /\ current + k <= Len(chain) - Confirmations
         /\ window[k] = chain[current + k]
<1>1. TypeOK /\ current + k + Confirmations <= Len(chain) /\ window[k] = chain[current + k]
  BY DEF ReadInv, ReadsConfirmed, Frozen
<1>2. k \in 1..Len(window)
  BY <1>1, Ranges
<1> QED
  BY <1>1, <1>2, Ranges

\* A frozen block stays frozen and the same in a chain that is no shorter and
\* agrees below the last Confirmations blocks.
LEMMA StaysFrozen ==
  ASSUME TypeOK, Len(chain') \in Nat, Len(chain') >= Len(chain),
         NEW h \in Nat, Frozen(h)
  PROVE  Frozen(h)'
<1>1. Len(chain) \in Nat /\ Confirmations \in Nat
  BY Ranges
<1>2. h + Confirmations <= Len(chain)
  BY DEF Frozen
<1>3. h + Confirmations <= Len(chain')
  BY <1>1, <1>2
<1> QED
  BY <1>3 DEF Frozen

\* The window a successful fetch brings.
LEMMA FetchedWindow ==
  ASSUME ReadInv, Fetch
  PROVE  /\ window' \in Seq(Blocks) /\ window' # <<>>
         /\ \A k \in DOMAIN window' : Frozen(current + k) /\ window'[k] = chain[current + k]
<1> DEFINE n == WindowEnd - current
<1>1. n \in Nat /\ n >= 1 /\ current + n <= target /\ target \in Nat
  BY MonitorConstants DEF ReadInv, TypeOK, Fetch, WindowEnd
<1>2. Frozen(target) /\ target > 0
  BY <1>1 DEF ReadInv, TypeOK, ReadsConfirmed, Fetch
<1>3. \A k \in 1..n : Frozen(current + k) /\ current + k \in DOMAIN chain
  <2>1. Len(chain) \in Nat /\ DOMAIN chain = 1..Len(chain) /\ current \in Nat
    BY LenProperties DEF ReadInv, TypeOK
  <2>2. target + Confirmations <= Len(chain)
    BY <1>2 DEF Frozen
  <2> HIDE DEF n
  <2>3. SUFFICES ASSUME NEW k \in 1..n
                 PROVE  Frozen(current + k) /\ current + k \in DOMAIN chain
    OBVIOUS
  <2>4. k \in Nat /\ 1 <= k /\ current + k <= target
    BY <1>1, <2>1
  <2>5. current + k + Confirmations <= Len(chain)
    BY <1>1, <2>1, <2>2, <2>4, MonitorConstants
  <2> QED
    BY <2>1, <2>4, <2>5, MonitorConstants DEF Frozen
<1>4. window' = [k \in 1..n |-> chain[current + k]]
  BY DEF Fetch
<1>5. \A k \in 1..n : chain[current + k] \in Blocks
  BY <1>3 DEF ReadInv, TypeOK
<1>6. window' \in [1..n -> Blocks]
  BY <1>4, <1>5
<1>7. window' \in Seq(Blocks) /\ DOMAIN window' = 1..n /\ Len(window') = n
  BY <1>1, <1>6, SeqDef, LenProperties
<1> QED
  BY <1>1, <1>3, <1>4, <1>7

\* The end of the process leaves nothing in memory.
LEMMA EndsInv ==
  ASSUME ReadInv, Ends, UNCHANGED <<nodeVars, dbVars, imported>>,
         interrupts' \in 0..MaxInterrupts
  PROVE  ReadInv'
BY MonitorConstants DEF ReadInv, TypeOK, ReadsConfirmed, PlaceFits, Frozen, Ends, nodeVars,
   dbVars, Places

\* Steps that move the process from place to place and leave the rest alone.
LEMMA MoveInv ==
  ASSUME ReadInv, index = 1, pc' \in Places \ {"handle", "hook", "down", "start"},
         lastProcessed <= current, phase' \in {"sync", "listen"},
         UNCHANGED <<nodeVars, dbVars, readVars, interrupts>>,
         effects' \subseteq Positions, imported' \subseteq Positions
  PROVE  ReadInv'
BY MonitorConstants DEF ReadInv, TypeOK, ReadsConfirmed, PlaceFits, Frozen, nodeVars, dbVars,
   readVars, Places

LEMMA ReadInit == Init => ReadInv
<1> SUFFICES ASSUME Init PROVE ReadInv
  OBVIOUS
<1>1. chain = <<>> /\ chain \in Seq(Blocks) /\ window = <<>> /\ window \in Seq(Blocks)
  BY DEF Init
<1>2. Len(chain) = 0 /\ DOMAIN window = {}
  BY <1>1
<1>3. TypeOK
  BY <1>1, <1>2, MonitorConstants DEF Init, TypeOK, Places
<1> QED
  BY <1>1, <1>2, <1>3 DEF Init, ReadInv, ReadsConfirmed, PlaceFits

\* A new chain that is no shorter and agrees with the old one below its last
\* Confirmations blocks.
ChainKept ==
  /\ chain' \in Seq(Blocks)
  /\ Len(chain') >= Len(chain) /\ Len(chain') <= MaxHeight
  /\ \A h \in 1..Len(chain) : h <= Len(chain) - Confirmations => chain'[h] = chain[h]

LEMMA ChainKeptInv ==
  ASSUME ReadInv, ChainKept,
         UNCHANGED <<tip, drops, dbVars, pc, phase, readVars, effects, imported, interrupts>>
  PROVE  ReadInv'
<1>1. TypeOK /\ Len(chain') \in Nat /\ Len(chain') >= Len(chain)
  BY LenProperties DEF ReadInv, ChainKept
<1>2. TypeOK'
  <2>1. tip' \in 0..Len(chain')
    BY <1>1, Ranges DEF TypeOK
  <2> QED
    BY <1>1, <2>1 DEF TypeOK, ChainKept, dbVars, readVars
<1>3. ReadsConfirmed'
  <2>1. (target > 0 => Frozen(target))'
    BY <1>1, Ranges, StaysFrozen DEF ReadInv, ReadsConfirmed, readVars
  <2>2. ASSUME NEW k \in DOMAIN window
        PROVE  Frozen(current + k)' /\ window'[k] = chain'[(current + k)']
    <3>1. k \in Nat /\ current + k \in Nat /\ Frozen(current + k)
      BY <1>1, <2>2, WindowFits, Ranges DEF ReadInv, ReadsConfirmed
    <3>2. Frozen(current + k)'
      BY <1>1, <3>1, Ranges DEF Frozen, readVars
    <3>3. chain'[current + k] = chain[current + k] /\ window[k] = chain[current + k]
      BY <2>2, WindowFits DEF ChainKept
    <3> QED
      BY <3>2, <3>3 DEF readVars
  <2>3. ASSUME NEW p \in done PROVE Frozen(p[1])'
    <3>1. p[1] \in Nat /\ Frozen(p[1])
      BY <1>1 DEF ReadInv, ReadsConfirmed, TypeOK, Positions
    <3> QED
      BY <1>1, <3>1, Ranges DEF Frozen
  <2> QED
    BY <2>1, <2>2, <2>3 DEF ReadsConfirmed, readVars, dbVars
<1>4. PlaceFits'
  BY DEF ReadInv, PlaceFits, dbVars, readVars
<1> QED
  BY <1>2, <1>3, <1>4 DEF ReadInv

LEMMA MineKeeps == ASSUME TypeOK, Mine PROVE ChainKept
<1>1. PICK b \in Blocks : chain' = Append(chain, b)
  BY DEF Mine
<1>2. chain \in Seq(Blocks) /\ Len(chain) < MaxHeight /\ Len(chain) \in Nat /\ MaxHeight \in Nat
  BY Ranges DEF TypeOK, Mine
<1>3. /\ chain' \in Seq(Blocks) /\ Len(chain') = Len(chain) + 1
      /\ \A h \in 1..Len(chain) : chain'[h] = chain[h]
  BY <1>1, <1>2, AppendProperties
<1> QED
  BY <1>2, <1>3 DEF ChainKept

LEMMA ReorgKeeps == ASSUME TypeOK, Reorg PROVE ChainKept
<1>1. PICK h \in DOMAIN chain, b \in Blocks :
        h > Len(chain) - Confirmations /\ chain' = [chain EXCEPT ![h] = b]
  BY DEF Reorg
<1>2. chain \in Seq(Blocks) /\ h \in 1..Len(chain) /\ Len(chain) \in Nat /\ Len(chain) <= MaxHeight
  BY <1>1, Ranges DEF TypeOK
<1>3. /\ chain' \in Seq(Blocks) /\ Len(chain') = Len(chain)
      /\ \A g \in 1..Len(chain) : chain'[g] = IF g = h THEN b ELSE chain[g]
  BY <1>1, <1>2, ExceptSeq
<1>4. ASSUME NEW g \in 1..Len(chain), g <= Len(chain) - Confirmations
      PROVE  chain'[g] = chain[g]
  BY <1>1, <1>2, <1>3, <1>4, Ranges
<1> QED
  BY <1>2, <1>3, <1>4, Ranges DEF ChainKept

\* A message is handled: its block is in memory, hence frozen.
LEMMA HandleInv == ASSUME ReadInv, Handle PROVE ReadInv'
<1> USE MonitorConstants
<1> DEFINE p == <<current + 1, index>>
<1>1. /\ pc = "handle" /\ window # <<>> /\ window \in Seq(Blocks)
      /\ index \in Nat /\ index >= 1 /\ index <= Len(window[1]) /\ current \in Nat
  BY DEF ReadInv, TypeOK, PlaceFits, Handle
<1>2. 1 \in DOMAIN window /\ window[1] \in Blocks
  BY <1>1, EmptySeq, LenProperties
<1>3. Frozen(current + 1) /\ Len(window[1]) \in Nat /\ Len(window[1]) <= MaxMsgs
  BY <1>2, LenProperties DEF ReadInv, ReadsConfirmed
<1>4. p \in Positions
  <2>1. current + 1 \in 1..MaxHeight
    BY <1>2, WindowFits, Ranges DEF ReadInv
  <2>2. index \in 1..MaxMsgs
    BY <1>1, <1>3
  <2> QED
    BY <2>1, <2>2 DEF Positions
<1>5. TypeOK'
  <2>1. done' \subseteq Positions /\ effects' \subseteq Positions
    BY <1>4 DEF ReadInv, TypeOK, Handle
  <2>2. applied' \in [Positions -> Nat]
    <3>1. applied' = applied \/ applied' = [applied EXCEPT ![p] = @ + 1]
      BY DEF Handle
    <3>2. applied \in [Positions -> Nat]
      BY DEF ReadInv, TypeOK
    <3>3. applied[p] + 1 \in Nat
      BY <1>4, <3>2
    <3> HIDE DEF p
    <3> QED
      BY <1>4, <3>1, <3>2, <3>3
  <2>3. index' \in 1..(MaxMsgs + 1)
    BY <1>1, <1>3 DEF Handle
  <2> QED
    BY <2>1, <2>2, <2>3 DEF ReadInv, TypeOK, Handle, nodeVars
<1>6. ReadsConfirmed'
  BY <1>3 DEF ReadInv, ReadsConfirmed, Frozen, Handle, nodeVars
<1>7. PlaceFits'
  <2>1. pc' = pc /\ window' = window /\ index' = index + 1 /\ current' = current
        /\ lastProcessed' = lastProcessed
    BY DEF Handle
  <2>2. index + 1 <= Len(window[1]) + 1
    BY <1>1, <1>3
  <2> QED
    BY <1>1, <2>1, <2>2 DEF ReadInv, PlaceFits
<1> QED
  BY <1>5, <1>6, <1>7 DEF ReadInv

\* A block is finished: the window moves on by one.
LEMMA AdvanceInv ==
  ASSUME ReadInv, BlockHandled, Advance, UNCHANGED <<nodeVars, applied, done, hooked, imported>>,
         lastProcessed' \in {lastProcessed, current + 1}, interrupts' \in 0..MaxInterrupts
  PROVE  ReadInv'
<1>1. TypeOK /\ pc = "handle" /\ window # <<>> /\ window \in Seq(Blocks) /\ lastProcessed <= current
  BY DEF ReadInv, TypeOK, PlaceFits, BlockHandled
<1>2. /\ window' \in Seq(Blocks) /\ Len(window') = Len(window) - 1 /\ Len(window') \in Nat
      /\ DOMAIN window' = 1..Len(window')
      /\ \A i \in 1..Len(window') : window'[i] = window[i + 1]
  BY <1>1, HeadTailProperties, LenProperties DEF Advance
<1>3. 1 \in DOMAIN window
  BY <1>1, EmptySeq, Ranges
<1>4. current' = current + 1 /\ current' \in 0..MaxHeight
  <2>1. current + 1 \in 1..Len(chain)
    BY <1>3, WindowFits
  <2> QED
    BY <1>1, <2>1, Ranges DEF Advance
<1>5. TypeOK'
  BY <1>1, <1>2, <1>4, MonitorConstants DEF TypeOK, Advance, nodeVars, Places
<1>6. ReadsConfirmed'
  <2>1. ASSUME NEW k \in DOMAIN window'
        PROVE  Frozen(current + k)' /\ window'[k] = chain'[(current + k)']
    <3>1. k \in Nat /\ k + 1 \in DOMAIN window /\ window'[k] = window[k + 1]
      BY <1>1, <1>2, <2>1, Ranges, SMTT(30)
    <3>2. Frozen(current + (k + 1)) /\ window[k + 1] = chain[current + (k + 1)]
      BY <3>1 DEF ReadInv, ReadsConfirmed
    <3>3. current + (k + 1) = current' + k
      <4>1. current \in Nat
        BY <1>1, Ranges
      <4> QED
        BY <1>4, <3>1, <4>1
    <3> QED
      BY <3>1, <3>2, <3>3 DEF Frozen, nodeVars
  <2> QED
    BY <2>1 DEF ReadInv, ReadsConfirmed, Frozen, Advance, nodeVars
<1>7. PlaceFits'
  BY <1>1, <1>4, Ranges DEF PlaceFits, Advance
<1> QED
  BY <1>5, <1>6, <1>7 DEF ReadInv

LEMMA ReadNext == ReadInv /\ [Next]_vars => ReadInv'
<1> SUFFICES ASSUME ReadInv, [Next]_vars PROVE ReadInv'
  OBVIOUS
<1>0. TypeOK /\ (pc # "handle" => index = 1)
      /\ (pc \notin {"down", "start"} => lastProcessed <= current)
  BY DEF ReadInv, PlaceFits
<1>1. CASE Mine
  BY <1>0, <1>1, MineKeeps, ChainKeptInv DEF Mine
<1>2. CASE Reorg
  BY <1>0, <1>2, ReorgKeeps, ChainKeptInv DEF Reorg
<1>3. CASE NodeSync
  <2>1. tip' \in 0..Len(chain)
    BY <1>0, <1>3, Ranges DEF TypeOK, NodeSync
  <2> QED
    BY <1>3, <2>1 DEF ReadInv, TypeOK, ReadsConfirmed, PlaceFits, Frozen, NodeSync, dbVars, readVars
<1>4. CASE NodeRestart
  <2>1. tip' \in 0..Len(chain)
    BY <1>0, <1>4, Ranges DEF TypeOK, NodeRestart
  <2>2. drops' \in 0..MaxDrops
    BY <1>0, <1>4, MonitorConstants DEF TypeOK, NodeRestart
  <2> QED
    BY <1>4, <2>1, <2>2 DEF ReadInv, TypeOK, ReadsConfirmed, PlaceFits, Frozen, NodeRestart, dbVars,
       readVars
<1>5. CASE Start \/ Backoff
  BY <1>5 DEF ReadInv, TypeOK, ReadsConfirmed, PlaceFits, Frozen, Start, Backoff, Places, nodeVars,
     dbVars, readVars
<1>6. CASE SyncEntry
  BY <1>6, MonitorConstants DEF ReadInv, TypeOK, ReadsConfirmed, PlaceFits, Frozen, SyncEntry, Places,
     nodeVars, dbVars
<1>7. CASE Poll
  <2>1. CASE phase = "sync" /\ current > Confirmed
    BY <1>0, <1>7, <2>1, EndsInv DEF Poll, TypeOK
  <2>2. CASE ~(phase = "sync" /\ current > Confirmed)
    <3>1. target' \in 0..MaxHeight /\ (target' > 0 => Frozen(target'))
      BY <1>0, <1>7, <2>2, ConfirmedType DEF Poll
    <3> QED
      BY <1>7, <2>2, <3>1 DEF ReadInv, TypeOK, ReadsConfirmed, PlaceFits, Frozen, Poll, Places,
         nodeVars, dbVars
  <2> QED
    BY <2>1, <2>2
<1>8. CASE PollFails \/ SyncCheck \/ FetchFails \/ CaughtUp
  BY <1>0, <1>8, MoveInv DEF PollFails, SyncCheck, FetchFails, CaughtUp, Places, TypeOK
<1>9. CASE Import \/ ImportSwallowed \/ ImportFails
  <2>1. imported' \subseteq Positions /\ effects' \subseteq Positions
    BY <1>0, <1>9 DEF TypeOK, Import, ImportSwallowed, ImportFails
  <2> QED
    BY <1>0, <1>9, <2>1, MoveInv DEF Import, ImportSwallowed, ImportFails, EffectsDone, Places, TypeOK
<1>10. CASE Fetch
  <2>1. /\ window' \in Seq(Blocks) /\ window' # <<>>
        /\ \A k \in DOMAIN window' : Frozen(current + k) /\ window'[k] = chain[current + k]
    BY <1>10, FetchedWindow
  <2>2. window'[1] \in Blocks /\ Len(window'[1]) \in Nat
    <3>1. 1 \in DOMAIN window'
      BY <2>1, EmptySeq, LenProperties
    <3>2. window'[1] \in Blocks
      BY <2>1, <3>1, LenProperties
    <3> QED
      BY <3>2, LenProperties, MonitorConstants
  <2>3. TypeOK'
    BY <1>0, <1>10, <2>1, MonitorConstants DEF TypeOK, Fetch, Places, nodeVars, dbVars
  <2>4. ReadsConfirmed'
    BY <1>10, <2>1 DEF ReadInv, ReadsConfirmed, Frozen, Fetch, nodeVars, dbVars
  <2>5. PlaceFits'
    BY <1>0, <1>10, <2>1, <2>2 DEF PlaceFits, Fetch, dbVars
  <2> QED
    BY <2>3, <2>4, <2>5 DEF ReadInv
<1>11. CASE Handle
  BY <1>11, HandleInv
<1>12. CASE FinishBlock
  BY <1>0, <1>12, AdvanceInv DEF FinishBlock, TypeOK
<1>13. CASE FinishUnsaved
  <2>1. interrupts' \in 0..MaxInterrupts
    BY <1>0, <1>13, MonitorConstants DEF TypeOK, FinishUnsaved
  <2>2. CASE phase = "sync"
    BY <1>13, <2>1, <2>2, AdvanceInv DEF FinishUnsaved, dbVars
  <2>3. CASE phase # "sync"
    BY <1>13, <2>1, <2>3, EndsInv DEF FinishUnsaved
  <2> QED
    BY <2>2, <2>3
<1>14. CASE Hook \/ HookFails
  <2>1. pc = "hook" /\ pc' \in {"fetch", "handle"} /\ (pc' = "handle" => window # <<>>)
    BY <1>14 DEF Hook, HookFails, AfterHook
  <2>2. interrupts' \in 0..MaxInterrupts
    BY <1>0, <1>14, MonitorConstants DEF TypeOK, Hook, HookFails
  <2>3. hooked' \subseteq 1..MaxHeight
    <3>1. current \in 1..MaxHeight
      BY <1>0, <2>1 DEF ReadInv, PlaceFits, TypeOK
    <3> QED
      BY <1>0, <1>14, <3>1 DEF TypeOK, Hook, HookFails, dbVars
  <2>4. UNCHANGED <<nodeVars, lastProcessed, applied, done, phase, readVars, effects, imported>>
    BY <1>14 DEF Hook, HookFails, dbVars
  <2>5. window # <<>> => Len(window[1]) \in Nat
    <3>1. window # <<>> => window[1] \in Blocks
      BY <1>0, EmptySeq, LenProperties DEF TypeOK
    <3> QED
      BY <3>1, LenProperties, MonitorConstants
  <2>6. TypeOK'
    BY <1>0, <2>1, <2>2, <2>3, <2>4 DEF TypeOK, Places, nodeVars, readVars
  <2>7. ReadsConfirmed'
    BY <2>4 DEF ReadInv, ReadsConfirmed, Frozen, nodeVars, readVars
  <2>8. PlaceFits'
    BY <1>0, <2>1, <2>4, <2>5 DEF PlaceFits, readVars
  <2> QED
    BY <2>6, <2>7, <2>8 DEF ReadInv
<1>15. CASE Stop
  BY <1>0, <1>15, EndsInv, MonitorConstants DEF Stop, TypeOK
<1>16. CASE UNCHANGED vars
  BY <1>16 DEF vars, nodeVars, dbVars, readVars, ReadInv, TypeOK, ReadsConfirmed, PlaceFits, Frozen
<1> QED
  BY <1>1, <1>2, <1>3, <1>4, <1>5, <1>6, <1>7, <1>8, <1>9, <1>10, <1>11, <1>12, <1>13, <1>14, <1>15,
     <1>16 DEF Next

\* Every variable keeps its type, for every chain, window size and failure.
THEOREM TypeCorrect == Spec => []TypeOK
<1>1. ReadInv => TypeOK
  BY DEF ReadInv
<1> QED
  BY <1>1, ReadInit, ReadNext, PTL DEF Spec

\* No block the process holds is ever replaced, whatever reorganisations happen
\* between its fetch and its handling.
THEOREM FinalReads == Spec => []ReadsFinal
<1>1. ReadInv => ReadsFinal
  <2> SUFFICES ASSUME ReadInv, NEW k \in DOMAIN window
               PROVE  current + k \in DOMAIN chain /\ window[k] = chain[current + k]
    BY DEF ReadsFinal
  <2> QED
    BY WindowFits, Ranges DEF ReadInv
<1> QED
  BY <1>1, ReadInit, ReadNext, PTL DEF Spec

----------------------------------------------------------------------------
(* Repetitions.                                                            *)

LEMMA ApplyInit == Init => ApplyInv
<1> SUFFICES ASSUME Init PROVE ApplyInv
  OBVIOUS
<1>1. applied = [p \in Positions |-> 0] /\ interrupts = 0
  BY DEF Init
<1>2. AppliedAgain /\ AheadApplied
  BY <1>1 DEF AppliedAgain, AheadApplied
<1> QED
  BY <1>2, ReadInit DEF ApplyInv

\* A step that applies nothing keeps the bounds, unless a message is ahead after
\* it that was not before it; an interruption pays for those.
LEMMA ApplyKept ==
  ASSUME ApplyInv, applied' = applied, interrupts' \in Nat,
         \/ interrupts' = interrupts /\ \A p \in Positions : Ahead(p)' => Ahead(p)
         \/ interrupts' = interrupts + 1
  PROVE  AppliedAgain' /\ AheadApplied'
<1>1. \A p \in Positions : applied[p] \in Nat /\ applied[p] <= 1 + interrupts
  BY DEF ApplyInv, ReadInv, TypeOK, AppliedAgain
<1>2. interrupts \in Nat
  BY MonitorConstants DEF ApplyInv, ReadInv, TypeOK
<1>3. CASE interrupts' = interrupts /\ \A p \in Positions : Ahead(p)' => Ahead(p)
  BY <1>1, <1>3 DEF ApplyInv, AppliedAgain, AheadApplied
<1>4. CASE interrupts' = interrupts + 1
  BY <1>1, <1>2, <1>4 DEF AppliedAgain, AheadApplied
<1> QED
  BY <1>3, <1>4

\* The message that is handled was ahead until now.
LEMMA ApplyHandle ==
  ASSUME ApplyInv, Handle
  PROVE  AppliedAgain' /\ AheadApplied'
<1> DEFINE p == <<current + 1, index>>
<1>0. TypeOK /\ pc = "handle" /\ lastProcessed <= current /\ ReadInv
  BY DEF ApplyInv, ReadInv, PlaceFits, Handle
<1>1. /\ current \in Nat /\ index \in Nat /\ lastProcessed \in Nat /\ interrupts \in Nat
      /\ \A q \in Positions : applied[q] \in Nat
      /\ \A q \in Positions : q[1] \in Nat /\ q[2] \in Nat /\ q = <<q[1], q[2]>>
  BY <1>0, Ranges, MonitorConstants, SMTT(30) DEF TypeOK, Positions
<1>2. p \in Positions => applied[p] <= interrupts
  <2>1. Ahead(p)
    BY <1>0, <1>1 DEF Ahead
  <2> QED
    BY <2>1 DEF ApplyInv, AheadApplied
<1>3. /\ index' = index + 1 /\ current' = current /\ lastProcessed' = lastProcessed
      /\ interrupts' = interrupts
  BY DEF Handle
<1>4. \A q \in Positions : applied'[q] = applied[q] \/ (q = p /\ applied'[q] = applied[q] + 1)
  BY <1>0 DEF Handle, TypeOK
<1>5. AppliedAgain'
  BY <1>1, <1>2, <1>3, <1>4 DEF ApplyInv, AppliedAgain
<1>6. ASSUME NEW q \in Positions, Ahead(q)'
      PROVE  Ahead(q) /\ q # p
  BY <1>1, <1>3, <1>6 DEF Ahead
<1>7. AheadApplied'
  BY <1>1, <1>3, <1>4, <1>6 DEF ApplyInv, AheadApplied
<1> QED
  BY <1>5, <1>7

LEMMA ApplyNext == ApplyInv /\ [Next]_vars => ApplyInv'
<1> SUFFICES ASSUME ApplyInv, [Next]_vars PROVE ApplyInv'
  OBVIOUS
<1>0. ReadInv' /\ ReadInv /\ TypeOK
  BY ReadNext DEF ApplyInv, ReadInv
<1>1. interrupts \in Nat /\ interrupts' \in Nat /\ current \in Nat /\ lastProcessed \in Nat
  BY <1>0, MonitorConstants DEF ReadInv, TypeOK
<1>2. CASE Handle
  BY <1>0, <1>2, ApplyHandle DEF ApplyInv
<1>3. CASE FinishBlock
  <2>1. lastProcessed' = current + 1 /\ lastProcessed <= current
    BY <1>0, <1>3 DEF FinishBlock, BlockHandled, ReadInv, PlaceFits
  <2>2. \A p \in Positions : Ahead(p)' => Ahead(p)
    BY <1>1, <2>1 DEF Ahead, Positions
  <2> QED
    BY <1>0, <1>1, <1>3, <2>2, ApplyKept DEF ApplyInv, FinishBlock
<1>4. CASE FinishUnsaved \/ HookFails \/ Stop
  BY <1>0, <1>1, <1>4, ApplyKept DEF ApplyInv, FinishUnsaved, HookFails, Stop, dbVars
<1>5. CASE Start \/ SyncEntry \/ Poll \/ Hook
  <2>1. index = 1 /\ index' = 1 /\ lastProcessed' = lastProcessed
        /\ applied' = applied /\ interrupts' = interrupts
    BY <1>0, <1>5 DEF Start, SyncEntry, Poll, Hook, Ends, ReadInv, PlaceFits, dbVars, readVars
  <2>2. \A p \in Positions : Ahead(p)' => Ahead(p)
    BY <2>1 DEF Ahead, Positions
  <2> QED
    BY <1>0, <1>1, <2>1, <2>2, ApplyKept DEF ApplyInv
<1>6. CASE Fetch
  <2>1. index = 1 /\ index' = 1 /\ lastProcessed' = lastProcessed
        /\ applied' = applied /\ interrupts' = interrupts
    BY <1>0, <1>6 DEF Fetch, ReadInv, PlaceFits, dbVars
  <2>2. \A p \in Positions : Ahead(p)' => Ahead(p)
    BY <2>1 DEF Ahead, Positions
  <2> QED
    BY <1>0, <1>1, <2>1, <2>2, ApplyKept DEF ApplyInv
<1>7. CASE \/ Mine \/ Reorg \/ NodeSync \/ NodeRestart \/ PollFails \/ SyncCheck \/ Backoff
           \/ FetchFails \/ CaughtUp \/ Import \/ ImportSwallowed \/ ImportFails
           \/ UNCHANGED vars
  <2>1. UNCHANGED <<lastProcessed, applied, current, index, interrupts>>
    BY <1>7 DEF Mine, Reorg, NodeSync, NodeRestart, PollFails, SyncCheck, Backoff, FetchFails,
       CaughtUp, Import, ImportSwallowed, ImportFails, vars, dbVars, readVars
  <2>2. \A p \in Positions : Ahead(p)' => Ahead(p)
    BY <2>1 DEF Ahead
  <2> QED
    BY <1>0, <1>1, <2>1, <2>2, ApplyKept DEF ApplyInv
<1> QED
  BY <1>2, <1>3, <1>4, <1>5, <1>6, <1>7 DEF Next

\* Retries and RPC errors never apply a message twice: only a stop of the process
\* or a failed write does, and each at most once.
THEOREM BoundedRepetition == Spec => []AppliedAgain
<1>1. ApplyInv => AppliedAgain
  BY DEF ApplyInv
<1> QED
  BY <1>1, ApplyInit, ApplyNext, PTL DEF Spec

----------------------------------------------------------------------------
(* The reward hook.                                                        *)

\* The height up to which the hook has had its turn: during the hook of a block
\* that block is still to come, and a process that has not resumed will go on
\* after the last processed block.
HookTurn ==
  IF pc = "hook" THEN current - 1
  ELSE IF pc \in {"down", "start"} THEN lastProcessed ELSE current

Unhooked(h) == {b \in 1..h : b \notin hooked}

\* Every turn that was missed cost an interruption.
TurnsMissed == Cardinality(Unhooked(HookTurn)) <= interrupts

HookInv == ReadInv /\ TurnsMissed

LEMMA HookTurnType ==
  ASSUME ReadInv
  PROVE  /\ HookTurn \in Nat
         /\ pc # "hook" => lastProcessed <= HookTurn
         /\ pc = "hook" => current = HookTurn + 1 /\ lastProcessed <= HookTurn + 1
         /\ lastProcessed \in Nat /\ current \in Nat /\ interrupts \in Nat
BY MonitorConstants DEF ReadInv, TypeOK, PlaceFits, HookTurn

LEMMA UnhookedFinite ==
  ASSUME NEW h \in Nat
  PROVE  IsFiniteSet(Unhooked(h)) /\ Cardinality(Unhooked(h)) \in Nat
<1>1. IsFiniteSet(1..h)
  BY FS_Interval
<1>2. Unhooked(h) \in SUBSET (1..h)
  BY DEF Unhooked
<1> QED
  BY <1>1, <1>2, FS_Subset, FS_CardinalityType

\* A set with at most one element more has at most one more to count.
LEMMA OneMore ==
  ASSUME NEW S, IsFiniteSet(S), NEW T, NEW x, T \subseteq S \cup {x}
  PROVE  IsFiniteSet(T) /\ Cardinality(T) \in Nat /\ Cardinality(T) <= Cardinality(S) + 1
<1>1. /\ Cardinality(S) \in Nat
      /\ IsFiniteSet(S \cup {x}) /\ Cardinality(S \cup {x}) <= Cardinality(S) + 1
      /\ Cardinality(S \cup {x}) \in Nat
  <2>1. Cardinality(S) \in Nat
    BY FS_CardinalityType
  <2>2. /\ IsFiniteSet(S \cup {x})
        /\ Cardinality(S \cup {x}) = IF x \in S THEN Cardinality(S) ELSE Cardinality(S) + 1
    BY FS_AddElement, Zenon
  <2> QED
    BY <2>1, <2>2
<1>2. /\ IsFiniteSet(T) /\ Cardinality(T) <= Cardinality(S \cup {x})
      /\ Cardinality(T) \in Nat
  BY <1>1, FS_Subset, FS_CardinalityType
<1> QED
  BY <1>1, <1>2

\* A step that gives up no turn, and one that gives up one and is counted.
LEMMA TurnsKept ==
  ASSUME HookInv, ReadInv', interrupts' >= interrupts, Unhooked(HookTurn)' \subseteq Unhooked(HookTurn)
  PROVE  HookInv'
<1>1. HookTurn \in Nat /\ interrupts \in Nat /\ interrupts' \in Nat
  BY HookTurnType, MonitorConstants, SMTT(30) DEF HookInv, ReadInv, TypeOK
<1>2. /\ Cardinality(Unhooked(HookTurn)) <= interrupts
      /\ Cardinality(Unhooked(HookTurn)) \in Nat /\ IsFiniteSet(Unhooked(HookTurn))
  BY <1>1, UnhookedFinite DEF HookInv, TurnsMissed
<1>3. /\ Cardinality(Unhooked(HookTurn)') <= Cardinality(Unhooked(HookTurn))
      /\ Cardinality(Unhooked(HookTurn)') \in Nat
  BY <1>2, FS_Subset, FS_CardinalityType
<1>4. Cardinality(Unhooked(HookTurn)') <= interrupts'
  BY <1>1, <1>2, <1>3
<1> QED
  BY <1>4 DEF HookInv, TurnsMissed

LEMMA TurnMissed ==
  ASSUME HookInv, ReadInv', interrupts' = interrupts + 1,
         NEW x, Unhooked(HookTurn)' \subseteq Unhooked(HookTurn) \cup {x}
  PROVE  HookInv'
<1>1. HookTurn \in Nat /\ interrupts \in Nat
  BY HookTurnType DEF HookInv
<1>2. /\ Cardinality(Unhooked(HookTurn)) <= interrupts
      /\ Cardinality(Unhooked(HookTurn)) \in Nat /\ IsFiniteSet(Unhooked(HookTurn))
  BY <1>1, UnhookedFinite DEF HookInv, TurnsMissed
<1>3. /\ Cardinality(Unhooked(HookTurn)') <= Cardinality(Unhooked(HookTurn)) + 1
      /\ Cardinality(Unhooked(HookTurn)') \in Nat
  BY <1>2, OneMore
<1>4. Cardinality(Unhooked(HookTurn)') <= interrupts'
  BY <1>1, <1>2, <1>3
<1> QED
  BY <1>4 DEF HookInv, TurnsMissed

LEMMA HookInit == Init => HookInv
<1> SUFFICES ASSUME Init PROVE HookInv
  OBVIOUS
<1>1. ReadInv
  BY ReadInit
<1>2. Unhooked(HookTurn) = {} /\ interrupts = 0
  BY DEF Init, Unhooked, HookTurn
<1> QED
  BY <1>1, <1>2, FS_EmptySet DEF HookInv, TurnsMissed

LEMMA HookNext == HookInv /\ [Next]_vars => HookInv'
<1> SUFFICES ASSUME HookInv, [Next]_vars PROVE HookInv'
  OBVIOUS
<1>0. ReadInv /\ ReadInv'
  BY ReadNext DEF HookInv
<1>1. /\ HookTurn \in Nat /\ HookTurn' \in Nat
      /\ lastProcessed \in Nat /\ current \in Nat /\ interrupts \in Nat
      /\ pc # "hook" => lastProcessed <= HookTurn
      /\ pc = "hook" => current = HookTurn + 1 /\ lastProcessed <= HookTurn + 1
  <2>1. HookTurn' \in Nat
    <3>1. /\ current' \in Nat /\ lastProcessed' \in Nat
          /\ pc' = "hook" => current' >= 1
      BY <1>0, MonitorConstants DEF ReadInv, TypeOK, PlaceFits
    <3>2. CASE pc' = "hook"
      <4>1. HookTurn' = current' - 1
        BY <3>2 DEF HookTurn
      <4>2. current' \in Nat /\ current' >= 1
        BY <3>1, <3>2, Zenon
      <4>3. \A n \in Nat : n >= 1 => n - 1 \in Nat
        OBVIOUS
      <4>4. current' - 1 \in Nat
        BY <4>2, <4>3, Zenon
      <4> QED
        BY <4>1, <4>4, Zenon
    <3>3. CASE pc' # "hook"
      <4>1. HookTurn' = lastProcessed' \/ HookTurn' = current'
        BY <3>3 DEF HookTurn
      <4> QED
        BY <3>1, <4>1
    <3> QED
      BY <3>2, <3>3
  <2> QED
    BY <1>0, <2>1, HookTurnType
<1>2. ASSUME hooked' = hooked, HookTurn' <= HookTurn
      PROVE  Unhooked(HookTurn)' \subseteq Unhooked(HookTurn)
  BY <1>1, <1>2 DEF Unhooked
<1>3. ASSUME hooked' = hooked, HookTurn' <= HookTurn + 1
      PROVE  Unhooked(HookTurn)' \subseteq Unhooked(HookTurn) \cup {HookTurn + 1}
  BY <1>1, <1>3 DEF Unhooked
<1>4. CASE Hook
  <2>1. HookTurn' = HookTurn + 1 /\ hooked' = hooked \cup {HookTurn + 1}
    BY <1>1, <1>4 DEF Hook, AfterHook, HookTurn, readVars
  <2>2. Unhooked(HookTurn)' \subseteq Unhooked(HookTurn)
    BY <1>1, <2>1 DEF Unhooked
  <2> QED
    BY <1>0, <1>1, <1>4, <2>2, TurnsKept DEF Hook
<1>5. CASE HookFails
  <2>1. HookTurn' = HookTurn + 1
    BY <1>1, <1>5 DEF HookFails, AfterHook, HookTurn, readVars
  <2> QED
    BY <1>0, <1>1, <1>3, <1>5, <2>1, TurnMissed DEF HookFails, dbVars
<1>6. CASE Stop
  <2>1. HookTurn' = lastProcessed
    BY <1>6 DEF Stop, Ends, HookTurn, dbVars
  <2>2. HookTurn' <= HookTurn + 1
    BY <1>1, <2>1
  <2> QED
    BY <1>0, <1>3, <1>6, <2>2, TurnMissed DEF Stop, dbVars
<1>7. CASE FinishBlock \/ FinishUnsaved
  <2>1. HookTurn = current /\ pc # "hook"
    BY <1>7 DEF FinishBlock, FinishUnsaved, BlockHandled, HookTurn
  <2>2. HookTurn' = current \/ (HookTurn' = lastProcessed /\ FinishUnsaved)
    BY <1>1, <1>7 DEF FinishBlock, FinishUnsaved, Advance, Ends, HookTurn, dbVars
  <2>3. HookTurn' <= HookTurn
    BY <1>1, <2>1, <2>2
  <2>4. interrupts' >= interrupts /\ hooked' = hooked
    BY <1>1, <1>7 DEF FinishBlock, FinishUnsaved, dbVars
  <2> QED
    BY <1>0, <1>2, <2>3, <2>4, TurnsKept
<1>8. CASE SyncEntry \/ Poll \/ Start \/ Backoff \/ PollFails \/ SyncCheck \/ Fetch \/ FetchFails
           \/ CaughtUp \/ Import \/ ImportSwallowed \/ ImportFails
  <2>1. /\ pc # "hook" /\ pc' # "hook"
        /\ hooked' = hooked /\ interrupts' = interrupts
    BY <1>8 DEF SyncEntry, Poll, Start, Backoff, PollFails, SyncCheck, Fetch, FetchFails, CaughtUp,
       Import, ImportSwallowed, ImportFails, EffectsDone, Ends, dbVars
  <2>2. HookTurn' \in {HookTurn, lastProcessed}
    BY <1>8 DEF SyncEntry, Poll, Start, Backoff, PollFails, SyncCheck, Fetch, FetchFails, CaughtUp,
       Import, ImportSwallowed, ImportFails, EffectsDone, Ends, dbVars, readVars, HookTurn
  <2>3. HookTurn' <= HookTurn
    BY <1>1, <2>1, <2>2
  <2> QED
    BY <1>0, <1>1, <1>2, <2>1, <2>3, TurnsKept
<1>9. CASE Mine \/ Reorg \/ NodeSync \/ NodeRestart \/ Handle \/ UNCHANGED vars
  <2>1. HookTurn' = HookTurn /\ hooked' = hooked /\ interrupts' = interrupts
    BY <1>9 DEF Mine, Reorg, NodeSync, NodeRestart, Handle, vars, dbVars, readVars, HookTurn
  <2> QED
    BY <1>0, <1>1, <1>2, <2>1, TurnsKept
<1> QED
  BY <1>4, <1>5, <1>6, <1>7, <1>8, <1>9 DEF Next

\* HookMissed: update_after_block runs for every block marked as processed, but
\* for at most one per interruption, wherever the process was stopped.
THEOREM HooksBounded == Spec => []HookMissed
<1>1. ASSUME HookInv PROVE HookMissed
  <2>0. ReadInv
    BY <1>1 DEF HookInv
  <2>1. HookTurn \in Nat /\ lastProcessed \in Nat /\ interrupts \in Nat
    BY <2>0, HookTurnType
  <2>2. /\ Cardinality(Unhooked(HookTurn)) <= interrupts
        /\ Cardinality(Unhooked(HookTurn)) \in Nat /\ IsFiniteSet(Unhooked(HookTurn))
    BY <1>1, <2>1, UnhookedFinite DEF HookInv, TurnsMissed
  <2>3. HookMissed <=> Cardinality(Unhooked(lastProcessed))
                         <= interrupts + (IF pc = "hook" THEN 1 ELSE 0)
    BY DEF HookMissed, Unhooked
  <2>4. CASE pc # "hook"
    <3>1. Unhooked(lastProcessed) \subseteq Unhooked(HookTurn)
      BY <2>0, <2>1, <2>4, HookTurnType DEF Unhooked
    <3>2. /\ Cardinality(Unhooked(lastProcessed)) <= Cardinality(Unhooked(HookTurn))
          /\ Cardinality(Unhooked(lastProcessed)) \in Nat
      BY <2>1, <2>2, <3>1, FS_Subset, UnhookedFinite
    <3> QED
      BY <2>1, <2>2, <2>3, <2>4, <3>2
  <2>5. CASE pc = "hook"
    <3>1. Unhooked(lastProcessed) \subseteq Unhooked(HookTurn) \cup {HookTurn + 1}
      BY <2>0, <2>1, <2>5, HookTurnType DEF Unhooked
    <3>2. /\ Cardinality(Unhooked(lastProcessed)) <= Cardinality(Unhooked(HookTurn)) + 1
          /\ Cardinality(Unhooked(lastProcessed)) \in Nat
      BY <2>2, <3>1, OneMore
    <3> QED
      BY <2>1, <2>2, <2>3, <2>5, <3>2
  <2> QED
    BY <2>4, <2>5
<1> QED
  BY <1>1, HookInit, HookNext, PTL DEF Spec

----------------------------------------------------------------------------
(* The order of the messages: Monitor implements BlockReader.              *)

\* Block h cannot be replaced and all its messages were handled.
Passed(h) == Frozen(h) /\ Handled(h)

\* A passed block stays so while the chain is kept and nothing is forgotten.
LEMMA StaysPassed ==
  ASSUME TypeOK, ChainKept \/ chain' = chain, done \subseteq done', NEW h \in Nat, Passed(h)
  PROVE  Passed(h)'
<1>1. /\ Len(chain) \in Nat /\ DOMAIN chain = 1..Len(chain) /\ Confirmations \in Nat
      /\ h + Confirmations <= Len(chain) /\ h \in DOMAIN chain
      /\ \A i \in DOMAIN chain[h] : <<h, i>> \in done
  BY Ranges DEF Passed, Frozen, Handled
<1>2. CASE chain' = chain
  BY <1>1, <1>2 DEF Passed, Frozen, Handled
<1>3. CASE ChainKept
  <2>1. Len(chain') \in Nat /\ DOMAIN chain' = 1..Len(chain') /\ Len(chain') >= Len(chain)
    BY <1>3, LenProperties DEF ChainKept
  <2>2. chain'[h] = chain[h]
    BY <1>1, <1>3 DEF ChainKept
  <2>3. h + Confirmations <= Len(chain') /\ h \in DOMAIN chain'
    BY <1>1, <2>1
  <2> QED
    BY <1>1, <2>2, <2>3 DEF Passed, Frozen, Handled
<1> QED
  BY <1>2, <1>3

\* The step keeps what is behind the process if it does not move.
LEMMA OrderKept ==
  ASSUME OrderInv, ChainKept \/ chain' = chain, done \subseteq done', ReadInv',
         lastProcessed' = lastProcessed, current' \in {current, lastProcessed, 0},
         index' = 1 \/ (index' = index /\ current' = current)
  PROVE  OrderInv'
<1>1. TypeOK /\ current \in Nat /\ lastProcessed \in Nat /\ index \in Nat
  BY Ranges DEF OrderInv, ReadInv
<1>2. \A h \in 1..lastProcessed : Passed(h)'
  BY <1>1, StaysPassed DEF OrderInv, NothingLeftOut, Passed
<1>3. \A h \in 1..current : Passed(h)'
  BY <1>1, StaysPassed DEF OrderInv, NothingLeftOut, Passed
<1>4. \A h \in 1..current' : Passed(h)'
  BY <1>1, <1>2, <1>3
<1>5. \A i \in 1..(index' - 1) : <<current' + 1, i>> \in done'
  BY <1>1 DEF OrderInv, NothingLeftOut
<1> QED
  BY <1>2, <1>4, <1>5 DEF OrderInv, NothingLeftOut, Passed

\* The block at hand is passed when all its messages are handled.
LEMMA BlockPassed ==
  ASSUME OrderInv, BlockHandled
  PROVE  Passed(current + 1)
<1>1. /\ TypeOK /\ ReadInv /\ pc = "handle" /\ window # <<>> /\ window \in Seq(Blocks)
      /\ index = Len(window[1]) + 1 /\ Len(window[1]) \in Nat
      /\ window[1] \in Seq(Kinds) /\ 1 \in DOMAIN window
  <2>1. TypeOK /\ ReadInv /\ pc = "handle" /\ window # <<>> /\ window \in Seq(Blocks)
    BY DEF OrderInv, ReadInv, TypeOK, PlaceFits, BlockHandled
  <2>2. 1 \in DOMAIN window /\ window[1] \in Blocks
    BY <2>1, EmptySeq, LenProperties
  <2>3. window[1] \in Seq(Kinds) /\ Len(window[1]) \in Nat
    BY <2>2, MonitorConstants, LenProperties
  <2>4. index = Len(window[1]) + 1
    <3>1. index \in Nat
      BY <2>1, Ranges
    <3>2. index > Len(window[1]) /\ index <= Len(window[1]) + 1
      BY <2>1 DEF ReadInv, PlaceFits, BlockHandled
    <3> QED
      BY <2>3, <3>1, <3>2
  <2> QED
    BY <2>1, <2>2, <2>3, <2>4
<1>2. current + 1 \in DOMAIN chain /\ window[1] = chain[current + 1]
  BY <1>1, WindowFits, Ranges
<1>3. Frozen(current + 1)
  BY <1>1 DEF ReadInv, ReadsConfirmed
<1>4. DOMAIN chain[current + 1] = 1..Len(window[1])
  BY <1>1, <1>2, LenProperties
<1>5. \A i \in 1..Len(window[1]) : <<current + 1, i>> \in done
  BY <1>1 DEF OrderInv, NothingLeftOut
<1> QED
  BY <1>2, <1>3, <1>4, <1>5 DEF Passed, Handled

LEMMA OrderAdvance ==
  ASSUME OrderInv, BlockHandled, Advance, UNCHANGED <<chain, done>>, ReadInv',
         lastProcessed' \in {lastProcessed, current + 1}
  PROVE  OrderInv'
<1>1. TypeOK /\ current \in Nat /\ lastProcessed \in Nat
  BY Ranges DEF OrderInv, ReadInv
<1>2. \A h \in 1..(current + 1) : Passed(h)
  BY <1>1, BlockPassed DEF OrderInv, NothingLeftOut, Passed
<1>3. \A h \in 1..lastProcessed : Passed(h)
  BY DEF OrderInv, NothingLeftOut, Passed
<1>4. \A h \in Nat : Passed(h) => Passed(h)'
  BY <1>1, StaysPassed
<1>5. \A h \in 1..current' : Passed(h)'
  BY <1>1, <1>2, <1>4 DEF Advance
<1>6. \A h \in 1..lastProcessed' : Passed(h)'
  BY <1>1, <1>2, <1>3, <1>4
<1>7. index' = 1
  BY DEF Advance
<1> QED
  BY <1>5, <1>6, <1>7 DEF OrderInv, NothingLeftOut, Passed

LEMMA OrderInit == Init => OrderInv
BY ReadInit DEF Init, OrderInv, NothingLeftOut

LEMMA OrderNext == OrderInv /\ [Next]_vars => OrderInv'
<1> SUFFICES ASSUME OrderInv, [Next]_vars PROVE OrderInv'
  OBVIOUS
<1>0. ReadInv /\ ReadInv' /\ TypeOK
  BY ReadNext DEF OrderInv, ReadInv
<1>1. CASE Mine
  BY <1>0, <1>1, MineKeeps, OrderKept DEF Mine, dbVars, readVars
<1>2. CASE Reorg
  BY <1>0, <1>2, ReorgKeeps, OrderKept DEF Reorg, dbVars, readVars
<1>3. CASE FinishBlock
  BY <1>0, <1>3, OrderAdvance DEF FinishBlock, nodeVars
<1>4. CASE FinishUnsaved
  <2>1. CASE phase = "sync"
    BY <1>0, <1>4, <2>1, OrderAdvance DEF FinishUnsaved, nodeVars, dbVars
  <2>2. CASE phase # "sync"
    BY <1>0, <1>4, <2>2, OrderKept DEF FinishUnsaved, Ends, nodeVars, dbVars
  <2> QED
    BY <2>1, <2>2
<1>5. CASE Handle
  <2>1. /\ current \in Nat /\ index \in Nat /\ lastProcessed \in Nat /\ index >= 1
    BY <1>0, Ranges
  <2>2. /\ index' = index + 1 /\ current' = current /\ lastProcessed' = lastProcessed
        /\ chain' = chain /\ done' = done \cup {<<current + 1, index>>}
    BY <1>5 DEF Handle, nodeVars
  <2>3. \A h \in Nat : Passed(h) => Passed(h)'
    BY <1>0, <2>2, StaysPassed
  <2>4. \A h \in 1..lastProcessed : Passed(h)'
    BY <2>1, <2>3 DEF OrderInv, NothingLeftOut, Passed
  <2>5. \A h \in 1..current : Passed(h)'
    BY <2>1, <2>3 DEF OrderInv, NothingLeftOut, Passed
  <2>6. \A i \in 1..(index' - 1) : <<current' + 1, i>> \in done'
    BY <2>1, <2>2 DEF OrderInv, NothingLeftOut
  <2> QED
    BY <1>0, <2>2, <2>4, <2>5, <2>6 DEF OrderInv, NothingLeftOut, Passed
<1>6. CASE \/ NodeSync \/ NodeRestart \/ Start \/ SyncEntry \/ Poll \/ PollFails \/ SyncCheck
           \/ Backoff \/ Fetch \/ FetchFails \/ CaughtUp \/ Hook \/ HookFails \/ Import
           \/ ImportSwallowed \/ ImportFails \/ Stop \/ UNCHANGED vars
  <2>1. UNCHANGED <<chain, done, lastProcessed>>
    BY <1>6 DEF NodeSync, NodeRestart, Start, SyncEntry, Poll, PollFails, SyncCheck, Backoff, Fetch,
       FetchFails, CaughtUp, Hook, HookFails, Import, ImportSwallowed, ImportFails, Stop, Ends,
       vars, nodeVars, dbVars, readVars
  <2>2. /\ current' \in {current, lastProcessed, 0}
        /\ index' = 1 \/ (index' = index /\ current' = current)
    BY <1>6 DEF NodeSync, NodeRestart, Start, SyncEntry, Poll, PollFails, SyncCheck, Backoff, Fetch,
       FetchFails, CaughtUp, Hook, HookFails, Import, ImportSwallowed, ImportFails, Stop, Ends,
       vars, readVars
  <2> QED
    BY <1>0, <2>1, <2>2, OrderKept
<1> QED
  BY <1>1, <1>2, <1>3, <1>4, <1>5, <1>6 DEF Next

\* A step of the monitor is a step of the reader or changes nothing of it.
LEMMA StepRefines == OrderInv /\ [Next]_vars => [Reader!Next]_(Reader!vars)
<1> SUFFICES ASSUME OrderInv, [Next]_vars PROVE [Reader!Next]_(Reader!vars)
  OBVIOUS
<1>0. ReadInv /\ TypeOK
  BY DEF OrderInv, ReadInv
<1>1. CASE Mine
  BY <1>1 DEF Mine, dbVars, Reader!Next, Reader!Extend
<1>2. CASE Reorg
  <2>1. PICK h \in DOMAIN chain, b \in Blocks :
          h > Len(chain) - Confirmations /\ chain' = [chain EXCEPT ![h] = b]
    BY <1>2 DEF Reorg
  <2>2. ASSUME NEW p \in done PROVE p[1] # h
    <3>1. p[1] \in Nat /\ p[1] + Confirmations <= Len(chain)
      BY <1>0 DEF ReadInv, ReadsConfirmed, Frozen, TypeOK, Positions
    <3>2. h \in Nat /\ Len(chain) \in Nat /\ Confirmations \in Nat
      BY <1>0, <2>1, Ranges
    <3> QED
      BY <2>1, <3>1, <3>2
  <2>3. done' = done
    BY <1>2 DEF Reorg, dbVars
  <2> QED
    BY <2>1, <2>2, <2>3 DEF Reader!Next, Reader!Replace
<1>3. CASE Handle
  <2>1. /\ current \in Nat /\ index \in Nat /\ index >= 1
        /\ chain' = chain /\ done' = done \cup {<<current + 1, index>>}
    BY <1>0, <1>3, Ranges DEF Handle, nodeVars
  <2>2. 1 \in DOMAIN window /\ window[1] \in Blocks /\ index <= Len(window[1])
    <3>1. window # <<>> /\ window \in Seq(Blocks) /\ index <= Len(window[1])
      BY <1>0, <1>3 DEF ReadInv, TypeOK, PlaceFits, Handle
    <3> QED
      BY <3>1, EmptySeq, LenProperties
  <2>3. current + 1 \in DOMAIN chain /\ window[1] = chain[current + 1]
    BY <1>0, <2>2, WindowFits, Ranges
  <2>4. DOMAIN window[1] = 1..Len(window[1]) /\ Len(window[1]) \in Nat
    BY <2>2, LenProperties, MonitorConstants
  <2>5. index \in DOMAIN chain[current + 1]
    BY <2>1, <2>2, <2>3, <2>4
  <2>6. Reader!AllBefore(current + 1, index)
    <3>1. SUFFICES ASSUME NEW g \in DOMAIN chain, NEW j \in DOMAIN chain[g],
                          g < current + 1 \/ (g = current + 1 /\ j < index)
                   PROVE  <<g, j>> \in done
      BY DEF Reader!AllBefore
    <3>2. CASE g < current + 1
      <4>1. g \in 1..current
        BY <1>0, <2>1, <3>2, Ranges
      <4> QED
        BY <4>1 DEF OrderInv, NothingLeftOut, Handled
    <3>3. CASE g = current + 1 /\ j < index
      <4>1. j \in 1..(index - 1)
        BY <2>1, <2>3, <2>4, <3>3
      <4> QED
        BY <3>3, <4>1 DEF OrderInv, NothingLeftOut
    <3> QED
      BY <3>1, <3>2, <3>3
  <2> QED
    BY <2>1, <2>3, <2>5, <2>6 DEF Reader!Next, Reader!TakeUp
<1>4. CASE \/ NodeSync \/ NodeRestart \/ Start \/ SyncEntry \/ Poll \/ PollFails \/ SyncCheck
           \/ Backoff \/ Fetch \/ FetchFails \/ CaughtUp \/ FinishBlock \/ FinishUnsaved \/ Hook
           \/ HookFails \/ Import \/ ImportSwallowed \/ ImportFails \/ Stop \/ UNCHANGED vars
  BY <1>4 DEF NodeSync, NodeRestart, Start, SyncEntry, Poll, PollFails, SyncCheck, Backoff, Fetch,
     FetchFails, CaughtUp, FinishBlock, FinishUnsaved, Hook, HookFails, Import, ImportSwallowed,
     ImportFails, Stop, vars, nodeVars, dbVars, Reader!vars
<1> QED
  BY <1>1, <1>2, <1>3, <1>4 DEF Next

\* The monitor hands Bitcoin's messages on in order and leaves none out, through
\* windows, retries, restarts, lost writes and reorganisations.
THEOREM ReadsInOrder == Spec => HandlesInOrder
<1>1. Init => Reader!Init
  BY DEF Init, Reader!Init
<1> QED
  BY <1>1, OrderInit, OrderNext, StepRefines, PTL DEF Spec, HandlesInOrder, Reader!Spec
=============================================================================
