-------------------------- MODULE SignalQueueProofs --------------------------
(***************************************************************************)
(* With a real mutex the flag and the queue agree, for every number of    *)
(* handlers, every capacity and both ways of delivering signals.          *)
(***************************************************************************)
EXTENDS SignalQueue, FiniteSetTheorems, SequenceTheorems, TLAPS

InSection(a) == InPush(a) \/ InPop(a)

Synced == pending <=> qhead >= 0

Shape ==
  /\ qhead \in Int /\ qtail \in Int
  /\ pending \in BOOLEAN
  /\ pc \in [Actor -> Pcs]
  /\ inc \in [Actor -> Int]
  /\ owner \in Actor \cup {NoOne}

\* Only the main thread pops.
Roles == \A a \in Actor : a # Main => pc[a] \notin PopPcs \cup {"dispatch"}

\* The holder of the mutex is the one actor in a critical section.
Exclusion == \A a \in Actor : InSection(a) <=> owner = a

\* What the holder knows of the flag and the queue at each of its steps.
Knowledge(a) ==
  /\ pc[a] \in {"push_test", "pop_block", "pop_test", "pop_unblock",
                "pop_unlock"} => Synced
  /\ pc[a] \in {"push_inc", "push_tail", "push_store", "push_flag",
                "push_pending"} => qhead >= 0
  /\ pc[a] \in {"push_unlock", "pop_advance"} => Synced /\ qhead >= 0
  /\ pc[a] = "pop_clear_flag" => qhead < 0

\* The inductive invariant.
SyncInv ==
  /\ Shape
  /\ Roles
  /\ Exclusion
  /\ owner = NoOne => Synced
  /\ \A a \in Actor : Knowledge(a)

\* Qinc as it is written never goes down.
LEMMA QincInt == ASSUME NEW i \in Int PROVE Qinc(i) \in Int /\ Qinc(i) >= i
  BY MAXPENDINGAssumption, 1 % MAXPENDING \in 0 .. MAXPENDING - 1 DEF Qinc

\* The empty queue satisfies the invariant.
LEMMA SyncInit == Init => SyncInv
<1> SUFFICES ASSUME Init PROVE SyncInv
  OBVIOUS
<1>1. \A a \in Actor : pc[a] = "idle" /\ owner # a
  BY NamesAssumption DEF Init, Actor, Main, NoOne
<1>2. Shape
  <2>1. pending \in BOOLEAN
    BY DEF Init
  <2>2. qhead \in Int /\ qtail \in Int /\ inc \in [Actor -> Int]
    BY DEF Init
  <2>3. pc \in [Actor -> Pcs] /\ owner \in Actor \cup {NoOne}
    BY DEF Init, Pcs
  <2>4. QED
    BY <2>1, <2>2, <2>3 DEF Shape
<1>3. Synced
  BY DEF Init, Synced
<1>4. Roles /\ Exclusion
  BY <1>1 DEF Roles, Exclusion, InSection, InPush, InPop, PushPcs, PopPcs
<1>5. \A a \in Actor : Knowledge(a)
  BY <1>1 DEF Knowledge
<1>6. QED
  BY <1>2, <1>3, <1>4, <1>5 DEF SyncInv

\* With a real mutex every step of every actor keeps the invariant.
LEMMA SyncStep == ASSUME Mutex PROVE SyncInv /\ [Next]_vars => SyncInv'
<1> SUFFICES ASSUME SyncInv, [Next]_vars PROVE SyncInv'
  OBVIOUS
<1> USE DEF SyncInv, Shape, Roles, Exclusion, Knowledge, Synced, InSection,
            InPush, InPop, Pcs, PushPcs, PopPcs
<1>m. Main \in Actor /\ NoOne \notin Actor
  BY NamesAssumption DEF Actor, Main, NoOne
<1>1. CASE UrgeMajorSlice
  BY <1>1, <1>m DEF UrgeMajorSlice, Step, queueVars, flagVars
<1>2. ASSUME NEW h \in Handlers, NEW s \in OsSignals, HandleSignal(h, s)
      PROVE SyncInv'
  BY <1>2, <1>m DEF HandleSignal, queueVars, flagVars, Actor
<1>3. ASSUME NEW a \in Actor, Push(a) PROVE SyncInv'
  <2>1. CASE PushLock(a)
    BY <1>m, <2>1 DEF PushLock, MutexLock, Step, queueVars, flagVars
  <2>2. CASE PushTest(a)
    BY <1>m, <2>2 DEF PushTest, Step, queueVars, flagVars
  <2>3. CASE PushFirst(a)
    BY <1>m, <2>3 DEF PushFirst, Step, flagVars
  <2>4. CASE PushInc(a)
    BY <1>m, <2>4, QincInt DEF PushInc, Step, flagVars
  <2>5. CASE PushStore(a)
    BY <1>m, <2>5 DEF PushStore, Step, flagVars
  <2>6. CASE PushFlag(a)
    <3>1. CASE pc[a] = "push_flag"
      BY <1>m, <2>6, <3>1 DEF PushFlag, Step, queueVars
    <3>2. CASE pc[a] = "push_pending"
      BY <1>m, <2>6, <3>2 DEF PushFlag, Step, queueVars
    <3>3. QED
      BY <2>6, <3>1, <3>2 DEF PushFlag, Step
  <2>7. CASE PushUnlock(a)
    BY <1>m, <2>7 DEF PushUnlock, MutexUnlock, Step, queueVars, flagVars
  <2>8. QED
    BY <1>3, <2>1, <2>2, <2>3, <2>4, <2>5, <2>6, <2>7 DEF Push
<1>4. CASE Pop
  <2>1. CASE CheckPending
    BY <1>m, <2>1 DEF CheckPending, Step, queueVars, flagVars
  <2>2. CASE PopLock
    BY <1>m, <2>2 DEF PopLock, MutexLock, Step, queueVars, flagVars
  <2>3. CASE BlockSignals
    BY <1>m, <2>3 DEF BlockSignals, Step, queueVars, flagVars
  <2>4. CASE PopTest
    BY <1>m, <2>4 DEF PopTest, Step, queueVars, flagVars
  <2>5. CASE PopLast
    <3>1. CASE pc[Main] = "pop_clear_tail"
      BY <1>m, <2>5, <3>1 DEF PopLast, Step
    <3>2. CASE pc[Main] = "pop_clear_head"
      BY <1>m, <2>5, <3>2 DEF PopLast, Step
    <3>3. CASE pc[Main] = "pop_clear_flag"
      <4>1. /\ pc' = [pc EXCEPT ![Main] = "pop_unblock"]
            /\ qhead' = qhead /\ qtail' = qtail
            /\ owner' = owner /\ inc' = inc
            /\ pending' = FALSE
        BY <2>5, <3>3 DEF PopLast, Step
      <4>2. owner = Main /\ qhead < 0
        BY <1>m, <3>3
      <4>3. Synced'
        BY <4>1, <4>2
      <4>4. Shape' /\ Roles' /\ Exclusion'
        BY <1>m, <3>3, <4>1
      <4>5. \A a \in Actor : Knowledge(a)'
        <5>1. TAKE a \in Actor
        <5>2. CASE a = Main
          BY <1>m, <4>1, <4>3, <5>2
        <5>3. CASE a # Main
          <6>1. pc'[a] = pc[a] /\ ~InSection(a)
            BY <1>m, <4>1, <4>2, <5>3
          <6>2. QED
            BY <6>1
        <5>4. QED
          BY <5>2, <5>3
      <4>6. QED
        BY <4>3, <4>4, <4>5
    <3>4. QED
      BY <2>5, <3>1, <3>2, <3>3 DEF PopLast, Step
  <2>6. CASE PopAdvance
    BY <1>m, <2>6, QincInt DEF PopAdvance, Step, flagVars
  <2>7. CASE UnblockSignals
    BY <1>m, <2>7 DEF UnblockSignals, Step, queueVars, flagVars
  <2>8. CASE PopUnlock
    BY <1>m, <2>8 DEF PopUnlock, MutexUnlock, Step, queueVars, flagVars
  <2>9. CASE Dispatch
    BY <1>m, <2>9 DEF Dispatch, Step, queueVars
  <2>10. QED
    BY <1>4, <2>1, <2>2, <2>3, <2>4, <2>5, <2>6, <2>7, <2>8, <2>9 DEF Pop
<1>5. CASE UNCHANGED vars
  BY <1>5 DEF vars
<1>6. QED
  BY <1>1, <1>2, <1>3, <1>4, <1>5 DEF Next

\* With a real mutex, whatever the handlers and however they are delivered,
\* the flag polled by the evaluator is set exactly when a signal waits, as
\* long as nobody is inside push_pending_signal or pop_pending_signal.
THEOREM FlagMatchesQueue == ASSUME Mutex PROVE Spec => []PendingInSync
<1>1. SyncInv => PendingInSync
  BY NamesAssumption DEF SyncInv, PendingInSync, Exclusion, InSection, Shape, Synced,
     Actor, Knowledge, Main
<1>2. SyncInv /\ [Next]_vars => SyncInv'
  BY SyncStep
<1>3. QED
  BY <1>1, <1>2, SyncInit, PTL DEF Spec

-----------------------------------------------------------------------------
(* Types, and where the indices are                                        *)

\* The calls of push that have not moved qtail yet.
EarlyPcs == {"push_lock", "push_test", "push_first_tail", "push_inc", "push_tail"}
Early == {a \in Actor : pc[a] \in EarlyPcs}

\* Every call of push moves qtail by one cell at most.
Counted == IsFiniteSet(Early) /\ qtail + 1 + Cardinality(Early) <= pushes

\* The main thread is the outermost activation.
Outermost == running # <<>> /\ running[Len(running)] = Main

\* What qhead and qtail are at each step of the holder of the mutex.
Position(a) ==
  /\ pc[a] = "push_first_tail" => qhead = -1 /\ qtail = -1
  /\ pc[a] = "push_first_head" => qhead = -1 /\ qtail = 0
  /\ pc[a] = "push_tail" => inc[a] = Qinc(qtail)
  /\ pc[a] \in {"push_inc", "push_tail", "push_store"} => qhead >= 0
  /\ pc[a] = "pop_clear_tail" => qhead >= 0 /\ qtail = qhead
  /\ pc[a] = "pop_clear_head" => qhead >= 0 /\ qtail = -1
  /\ pc[a] = "pop_clear_flag" => qhead = -1 /\ qtail = -1
  /\ pc[a] = "pop_advance" => qhead >= 0 /\ qhead < qtail
  /\ pc[a] \in PushPcs => sig[a] \in Signal

\* The queue is empty or it is not ...
InOrder == (qhead = -1 /\ qtail = -1) \/ (0 <= qhead /\ qhead <= qtail)

\* ... but after these two steps one index has been moved and the other has not.
HalfPcs == {"push_first_head", "pop_clear_head"}

Ordered == (\A a \in Actor : pc[a] \notin HalfPcs) => InOrder

\* The inductive invariant.
QueueInv == TypeOK /\ Counted /\ Outermost /\ Ordered /\ \A a \in Actor : Position(a)

\* The macro adds one, or nothing when the queue has a single cell.
LEMMA QincOne ==
  /\ \A i \in Int : Qinc(i) \in {i, i + 1}
  /\ MAXPENDING > 1 => \A i \in Int : Qinc(i) = i + 1
<1>1. 1 % MAXPENDING \in {0, 1} /\ (MAXPENDING > 1 => 1 % MAXPENDING = 1)
  BY MAXPENDINGAssumption
<1>2. QED
  BY <1>1 DEF Qinc

\* The empty queue satisfies the invariant.
LEMMA QueueInit == Init => QueueInv
<1> SUFFICES ASSUME Init PROVE QueueInv
  OBVIOUS
<1>1. \A a \in Actor : pc[a] = "idle"
  BY DEF Init
<1>2. Early = {}
  BY <1>1 DEF Early, EarlyPcs
<1>3. Counted
  BY <1>2, FS_EmptySet DEF Counted, Init
<1>4. TypeOK
  <2>1. Main \in Actor
    BY DEF Actor
  <2>2. signal_queue \in [Cell -> Signal \cup {Sig_none}] /\ taken \in Signal \cup {Sig_none}
    BY DEF Init
  <2>3. pc \in [Actor -> Pcs] /\ sig \in [Actor -> Signal \cup {Sig_none}]
    BY DEF Init, Pcs
  <2>4. inc \in [Actor -> 0 .. MAXPENDING + Slack] /\ pushes \in 0 .. MaxPush
    BY MAXPENDINGAssumption, SlackAssumption, MaxPushAssumption DEF Init
  <2>5. qhead \in -1 .. MAXPENDING + Slack - 1 /\ qtail \in -1 .. MAXPENDING + Slack - 1
    BY MAXPENDINGAssumption, SlackAssumption DEF Init
  <2>6. running \in Seq(Actor) /\ owner \in Actor \cup {NoOne} /\ blocked \subseteq SignalsInstalled
    BY <2>1 DEF Init
  <2>7. pending \in BOOLEAN /\ force_major_slice \in {0, 1}
    BY DEF Init
  <2>8. QED
    BY <2>2, <2>3, <2>4, <2>5, <2>6, <2>7 DEF TypeOK
<1>5. Outermost /\ Ordered
  BY DEF Init, Outermost, Ordered, InOrder
<1>6. \A a \in Actor : Position(a)
  BY <1>1 DEF Position, PushPcs
<1>7. QED
  BY <1>3, <1>4, <1>5, <1>6 DEF QueueInv

\* A step of a enters the calls that have not moved qtail, or leaves them.
LEMMA EarlyMoves ==
  ASSUME TypeOK, IsFiniteSet(Early), NEW a \in Actor, NEW to \in Pcs, pc' = [pc EXCEPT ![a] = to]
  PROVE  /\ IsFiniteSet(Early')
         /\ Cardinality(Early) \in Nat /\ Cardinality(Early') \in Nat
         /\ pc[a] \notin EarlyPcs /\ to \in EarlyPcs =>
              Cardinality(Early') = Cardinality(Early) + 1
         /\ pc[a] \in EarlyPcs /\ to \notin EarlyPcs =>
              Cardinality(Early') = Cardinality(Early) - 1
         /\ (pc[a] \in EarlyPcs <=> to \in EarlyPcs) => Cardinality(Early') = Cardinality(Early)
<1>1. pc \in [Actor -> Pcs]
  BY DEF TypeOK
<1>2. Early' = IF to \in EarlyPcs THEN Early \cup {a} ELSE Early \ {a}
  BY <1>1 DEF Early
<1>3. a \in Early <=> pc[a] \in EarlyPcs
  BY DEF Early
<1>4. QED
  BY <1>2, <1>3, FS_AddElement, FS_RemoveElement, FS_CardinalityType


\* Only the holder of the mutex is in a critical section.
LEMMA Alone ==
  ASSUME SyncInv, NEW a \in Actor, InSection(a), NEW b \in Actor, b # a
  PROVE  ~InSection(b)
  BY DEF SyncInv, Exclusion

\* What the state machine of a step does to the counts, for every action.
LEMMA TypeStep == ASSUME Mutex, QueueInv, SyncInv, Next PROVE TypeOK'
<1> USE DEF QueueInv, TypeOK, Pcs, PushPcs, PopPcs
<1>m. /\ Main \in Actor /\ NoOne \notin Actor /\ Handlers \subseteq Actor
      /\ MAXPENDING \in Nat \ {0} /\ Slack \in Nat /\ MaxPush \in Nat
      /\ MaxPush <= MAXPENDING + Slack
  BY NamesAssumption, MAXPENDINGAssumption, SlackAssumption, MaxPushAssumption DEF Actor, Main, NoOne
<1>s. /\ Signal \cup {Sig_none} = OsSignals \cup {Sig_gc, Sig_lost, Sig_none}
      /\ Signal = OsSignals \cup {Sig_gc, Sig_lost}
  BY DEF Signal
<1>1. CASE UrgeMajorSlice
  BY <1>1, <1>m, <1>s DEF UrgeMajorSlice, Step, queueVars, flagVars
<1>2. ASSUME NEW h \in Handlers, NEW s \in OsSignals, HandleSignal(h, s)
      PROVE TypeOK'
  <2>1. running' \in Seq(Actor)
    BY <1>2, <1>m DEF HandleSignal
  <2>2. QED
    BY <2>1, <1>2, <1>m, <1>s DEF HandleSignal, queueVars, flagVars
<1>3. ASSUME NEW a \in Actor, Push(a) PROVE TypeOK'
  <2>1. CASE PushLock(a)
    BY <1>m, <2>1 DEF PushLock, MutexLock, Step, queueVars, flagVars, restVars
  <2>2. CASE PushTest(a)
    BY <1>m, <1>s, <2>2 DEF PushTest, Step, queueVars, flagVars, restVars
  <2>3. CASE PushFirst(a)
    <3>1. 0 \in -1 .. MAXPENDING + Slack - 1
      BY <1>m
    <3>2. CASE pc[a] = "push_first_tail"
      BY <3>1, <3>2, <2>3 DEF PushFirst, Step, flagVars, restVars
    <3>3. CASE pc[a] = "push_first_head"
      BY <3>1, <3>3, <2>3 DEF PushFirst, Step, flagVars, restVars
    <3>4. QED
      BY <3>2, <3>3, <2>3 DEF PushFirst, Step
  <2>4. CASE PushInc(a)
    <3>1. /\ a \in Early /\ qtail + 1 + Cardinality(Early) <= pushes
          /\ Cardinality(Early) \in Nat /\ Cardinality(Early) >= 1
          /\ qtail \in Int /\ pushes \in Int /\ pushes <= MaxPush
      <4>1. a \in Early
        BY <2>4 DEF PushInc, Step, Early, EarlyPcs
      <4>2. Cardinality(Early) \in Nat /\ Cardinality(Early) # 0
        BY <4>1, FS_EmptySet, FS_CardinalityType DEF Counted
      <4>3. QED
        BY <4>1, <4>2 DEF Counted
    <3>2. qtail + 1 <= MAXPENDING + Slack - 1
      <4> HIDE DEF QueueInv
      <4>1. QED
        BY <3>1, <1>m
    <3>3. /\ Qinc(qtail) \in -1 .. MAXPENDING + Slack - 1 /\ Qinc(qtail) >= qtail
          /\ qtail >= 0 => Qinc(qtail) \in 0 .. MAXPENDING + Slack
      <4>1. Qinc(qtail) \in {qtail, qtail + 1} /\ qtail >= -1
        BY <3>1, QincOne
      <4> HIDE DEF QueueInv
      <4>2. QED
        BY <3>1, <3>2, <4>1, <1>m
    <3>4. pc[a] \in {"push_inc", "push_tail"} => qhead >= 0 /\ qtail >= 0
      <4>1. pc[a] \in {"push_inc", "push_tail"} => InSection(a)
        BY DEF InSection, InPush
      <4>2. pc[a] \in {"push_inc", "push_tail"} => \A b \in Actor : pc[b] \notin HalfPcs
        BY <4>1, Alone DEF InSection, InPush, InPop, HalfPcs
      <4>3. QED
        BY <4>2 DEF Ordered, InOrder, Position
    <3>5. CASE pc[a] = "push_inc"
      <4>1. /\ pc' = [pc EXCEPT ![a] = "push_tail"] /\ inc' = [inc EXCEPT ![a] = Qinc(qtail)]
            /\ UNCHANGED <<qhead, qtail, signal_queue, pending, force_major_slice, owner, sig,
                           blocked, running, pushes, taken>>
        BY <3>5, <2>4 DEF PushInc, Step, flagVars, restVars
      <4>2. Qinc(qtail) \in 0 .. MAXPENDING + Slack
        BY <3>3, <3>4, <3>5
      <4> HIDE DEF QueueInv
      <4>3. TypeOK
        BY DEF QueueInv
      <4>4. QED
        BY ONLY <4>1, <4>2, <4>3, a \in Actor DEF TypeOK, Pcs, PushPcs
    <3>6. CASE pc[a] = "push_tail"
      BY <3>3, <3>6, <2>4, <1>m DEF PushInc, Step, flagVars, restVars, Position
    <3>7. QED
      BY <3>5, <3>6, <2>4 DEF PushInc, Step
  <2>5. CASE PushStore(a)
    BY <1>m, <2>5 DEF PushStore, Step, flagVars, restVars
  <2>6. CASE PushFlag(a)
    BY <1>m, <2>6 DEF PushFlag, Step, queueVars, restVars
  <2>7. CASE PushUnlock(a)
    <3>1. running' \in Seq(Actor)
      BY <1>m, <2>7 DEF PushUnlock, Outermost
    <3>2. QED
      BY <3>1, <1>m, <2>7 DEF PushUnlock, MutexUnlock, Step, queueVars, flagVars
  <2>8. QED
    BY <1>3, <2>1, <2>2, <2>3, <2>4, <2>5, <2>6, <2>7 DEF Push
<1>4. CASE Pop
  <2>1. CASE CheckPending
    BY <1>m, <2>1 DEF CheckPending, Step, queueVars, flagVars, restVars
  <2>2. CASE PopLock
    BY <1>m, <2>2 DEF PopLock, MutexLock, Step, queueVars, flagVars, restVars
  <2>3. CASE BlockSignals
    BY <1>m, <2>3 DEF BlockSignals, Step, queueVars, flagVars
  <2>4. CASE PopTest
    <3>1. qhead >= 0 => signal_queue[qhead] \in Signal \cup {Sig_none}
      BY <1>m DEF Cell
    <3>2. QED
      BY <3>1, <1>m, <2>4 DEF PopTest, Step, queueVars, flagVars
  <2>5. CASE PopLast
    <3>1. -1 \in -1 .. MAXPENDING + Slack - 1
      BY <1>m
    <3>2. CASE pc[Main] = "pop_clear_tail"
      BY <3>1, <3>2, <2>5, <1>m DEF PopLast, Step, restVars
    <3>3. CASE pc[Main] = "pop_clear_head"
      BY <3>1, <3>3, <2>5, <1>m DEF PopLast, Step, restVars
    <3>4. CASE pc[Main] = "pop_clear_flag"
      BY <3>4, <2>5, <1>m DEF PopLast, Step, restVars
    <3>5. QED
      BY <3>2, <3>3, <3>4, <2>5 DEF PopLast, Step
  <2>6. CASE PopAdvance
    <3>1. Qinc(qhead) \in -1 .. MAXPENDING + Slack - 1
      <4>1. pc[Main] = "pop_advance" /\ qhead < qtail
        BY <2>6, <1>m DEF PopAdvance, Step, Position
      <4>2. qhead \in Int /\ qhead >= -1 /\ qtail \in Int /\ qtail <= MAXPENDING + Slack - 1
        BY <1>m
      <4>3. Qinc(qhead) \in {qhead, qhead + 1}
        BY <4>2, QincOne
      <4> HIDE DEF QueueInv
      <4>4. QED
        BY <4>1, <4>2, <4>3, <1>m
    <3>2. QED
      BY <3>1, <1>m, <2>6 DEF PopAdvance, Step, flagVars, restVars
  <2>7. CASE UnblockSignals
    BY <1>m, <2>7 DEF UnblockSignals, Step, queueVars, flagVars
  <2>8. CASE PopUnlock
    BY <1>m, <2>8 DEF PopUnlock, MutexUnlock, Step, queueVars, flagVars, restVars
  <2>9. CASE Dispatch
    BY <1>m, <2>9 DEF Dispatch, Step, queueVars, restVars
  <2>10. QED
    BY <1>4, <2>1, <2>2, <2>3, <2>4, <2>5, <2>6, <2>7, <2>8, <2>9 DEF Pop
<1>5. QED
  BY <1>1, <1>2, <1>3, <1>4 DEF Next


\* Where a goes, and what becomes of the index and of the number of calls, decides.
LEMMA CountMoves ==
  ASSUME TypeOK, Counted, NEW a \in Actor, NEW to \in Pcs, pc' = [pc EXCEPT ![a] = to],
         qtail' \in Int, pushes' \in Int,
         pc[a] \in EarlyPcs /\ to \notin EarlyPcs => qtail' <= qtail + 1 /\ pushes' >= pushes,
         pc[a] \notin EarlyPcs /\ to \in EarlyPcs => qtail' <= qtail /\ pushes' >= pushes + 1,
         (pc[a] \in EarlyPcs <=> to \in EarlyPcs) => qtail' <= qtail /\ pushes' >= pushes
  PROVE  Counted'
<1>1. IsFiniteSet(Early) /\ qtail + 1 + Cardinality(Early) <= pushes
  BY DEF Counted
<1>2. qtail \in Int /\ pushes \in Int
  BY MAXPENDINGAssumption, SlackAssumption, MaxPushAssumption DEF TypeOK
<1>3. IsFiniteSet(Early') /\ Cardinality(Early) \in Nat /\ Cardinality(Early') \in Nat
  BY <1>1, EarlyMoves
<1>4. CASE pc[a] \notin EarlyPcs /\ to \in EarlyPcs
  <2>1. Cardinality(Early') = Cardinality(Early) + 1
    BY <1>1, <1>4, EarlyMoves
  <2>2. QED
    BY <1>1, <1>2, <1>3, <1>4, <2>1 DEF Counted
<1>5. CASE pc[a] \in EarlyPcs /\ to \notin EarlyPcs
  <2>1. Cardinality(Early') = Cardinality(Early) - 1
    BY <1>1, <1>5, EarlyMoves
  <2>2. QED
    BY <1>1, <1>2, <1>3, <1>5, <2>1 DEF Counted
<1>6. CASE pc[a] \in EarlyPcs <=> to \in EarlyPcs
  <2>1. Cardinality(Early') = Cardinality(Early)
    BY <1>1, <1>6, EarlyMoves
  <2>2. QED
    BY <1>1, <1>2, <1>3, <1>6, <2>1 DEF Counted
<1>7. QED
  BY <1>4, <1>5, <1>6

\* Each call of push moves qtail once, pop moves it back.
LEMMA CountStep == ASSUME Mutex, QueueInv, SyncInv, Next PROVE Counted'
<1>m. Main \in Actor /\ Handlers \subseteq Actor
  BY DEF Actor
<1>t. /\ TypeOK /\ Counted /\ qtail \in Int /\ qtail >= -1 /\ pushes \in Int
      /\ pc \in [Actor -> Pcs]
  BY MAXPENDINGAssumption, SlackAssumption, MaxPushAssumption DEF QueueInv, TypeOK
<1>1. CASE UrgeMajorSlice
  <2>1. /\ pc' = [pc EXCEPT ![Main] = "push_lock"] /\ pc[Main] = "idle"
        /\ qtail' = qtail /\ pushes' = pushes + 1
    BY <1>1 DEF UrgeMajorSlice, Step, queueVars
  <2>2. "push_lock" \in Pcs /\ pc[Main] \notin EarlyPcs /\ "push_lock" \in EarlyPcs
    BY <2>1 DEF EarlyPcs, Pcs, PushPcs
  <2>3. qtail' <= qtail /\ pushes' >= pushes + 1 /\ qtail' \in Int /\ pushes' \in Int
    BY <2>1, <1>t
  <2>4. QED
    BY <2>1, <1>t, <1>m, <2>2, <2>3, CountMoves
<1>2. ASSUME NEW h \in Handlers, NEW s \in OsSignals, HandleSignal(h, s)
      PROVE Counted'
  <2>1. /\ pc' = [pc EXCEPT ![h] = "push_lock"] /\ pc[h] = "idle"
        /\ qtail' = qtail /\ pushes' = pushes + 1
    BY <1>2 DEF HandleSignal, queueVars
  <2>2. "push_lock" \in Pcs /\ pc[h] \notin EarlyPcs /\ "push_lock" \in EarlyPcs
    BY <2>1 DEF EarlyPcs, Pcs, PushPcs
  <2>3. qtail' <= qtail /\ pushes' >= pushes + 1 /\ qtail' \in Int /\ pushes' \in Int
    BY <2>1, <1>t
  <2>4. QED
    BY <2>1, <1>t, <1>m, <2>2, <2>3, CountMoves
<1>3. ASSUME NEW a \in Actor, Push(a) PROVE Counted'
  <2>1. CASE PushLock(a)
    <3>1. /\ pc' = [pc EXCEPT ![a] = "push_test"] /\ pc[a] = "push_lock"
          /\ qtail' = qtail /\ pushes' = pushes
      BY <2>1 DEF PushLock, MutexLock, Step, queueVars, restVars
    <3>2. "push_test" \in Pcs /\ "push_test" \in EarlyPcs /\ pc[a] \in EarlyPcs
      BY <3>1 DEF EarlyPcs, Pcs, PushPcs
    <3>3. qtail' <= qtail /\ pushes' >= pushes /\ qtail' \in Int /\ pushes' \in Int
      BY <3>1, <1>t
    <3>4. QED
      BY <3>1, <3>2, <3>3, <1>t, CountMoves
  <2>2. CASE PushTest(a)
    <3>1. PICK to \in {"push_first_tail", "push_store", "push_inc"} :
            /\ pc' = [pc EXCEPT ![a] = to] /\ pc[a] = "push_test"
            /\ qtail' = qtail /\ pushes' = pushes
      BY <2>2 DEF PushTest, Step, queueVars, restVars
    <3>2. to \in Pcs /\ pc[a] \in EarlyPcs
      BY <3>1 DEF EarlyPcs, Pcs, PushPcs
    <3>3. qtail' <= qtail + 1 /\ qtail' <= qtail /\ pushes' >= pushes /\ qtail' \in Int /\ pushes' \in Int
      BY <3>1, <1>t
    <3>4. QED
      BY <3>1, <1>t, <1>m, <3>2, <3>3, CountMoves
  <2>3. CASE PushFirst(a)
    <3>1. CASE pc[a] = "push_first_tail"
      <4>1. pc' = [pc EXCEPT ![a] = "push_first_head"] /\ qtail' = 0 /\ pushes' = pushes
        BY <2>3, <3>1 DEF PushFirst, Step, restVars
      <4>2. "push_first_head" \in Pcs /\ pc[a] \in EarlyPcs /\ "push_first_head" \notin EarlyPcs
        BY <4>1, <3>1 DEF EarlyPcs, Pcs, PushPcs
      <4>3. qtail' <= qtail + 1 /\ pushes' >= pushes /\ qtail' \in Int /\ pushes' \in Int
        BY <4>1, <3>1, <1>t
      <4>4. QED
        BY <4>1, <3>1, <1>t, <1>m, <4>2, <4>3, CountMoves
    <3>2. CASE pc[a] = "push_first_head"
      <4>1. pc' = [pc EXCEPT ![a] = "push_store"] /\ qtail' = qtail /\ pushes' = pushes
        BY <2>3, <3>2 DEF PushFirst, Step, restVars
      <4>2. "push_store" \in Pcs /\ pc[a] \notin EarlyPcs /\ "push_store" \notin EarlyPcs
        BY <4>1, <3>2 DEF EarlyPcs, Pcs, PushPcs
      <4>3. qtail' <= qtail /\ pushes' >= pushes /\ qtail' \in Int /\ pushes' \in Int
        BY <4>1, <3>2, <1>t
      <4>4. QED
        BY <4>1, <3>2, <1>t, <1>m, <4>2, <4>3, CountMoves
    <3>3. QED
      BY <3>1, <3>2, <2>3 DEF PushFirst, Step
  <2>4. CASE PushInc(a)
    <3>1. CASE pc[a] = "push_inc"
      <4>1. pc' = [pc EXCEPT ![a] = "push_tail"] /\ qtail' = qtail /\ pushes' = pushes
        BY <2>4, <3>1 DEF PushInc, Step, restVars
      <4>2. "push_tail" \in Pcs /\ pc[a] \in EarlyPcs /\ "push_tail" \in EarlyPcs
        BY <4>1, <3>1 DEF EarlyPcs, Pcs, PushPcs
      <4>3. qtail' <= qtail /\ pushes' >= pushes /\ qtail' \in Int /\ pushes' \in Int
        BY <4>1, <3>1, <1>t
      <4>4. QED
        BY <4>1, <3>1, <1>t, <1>m, <4>2, <4>3, CountMoves
    <3>2. CASE pc[a] = "push_tail"
      <4>1. pc' = [pc EXCEPT ![a] = "push_store"] /\ qtail' = Qinc(qtail) /\ pushes' = pushes
        BY <2>4, <3>2 DEF PushInc, Step, restVars, QueueInv, Position
      <4>2. Qinc(qtail) \in {qtail, qtail + 1}
        BY <1>t, QincOne
      <4>3. "push_store" \in Pcs /\ pc[a] \in EarlyPcs /\ "push_store" \notin EarlyPcs
        BY <4>1, <4>2, <3>2 DEF EarlyPcs, Pcs, PushPcs
      <4>4. qtail' <= qtail + 1 /\ pushes' >= pushes /\ qtail' \in Int /\ pushes' \in Int
        BY <4>1, <4>2, <3>2, <1>t
      <4>5. QED
        BY <4>1, <4>2, <3>2, <1>t, <1>m, <4>3, <4>4, CountMoves
    <3>3. QED
      BY <3>1, <3>2, <2>4 DEF PushInc, Step
  <2>5. CASE PushStore(a)
    <3>1. /\ pc' = [pc EXCEPT ![a] = "push_flag"] /\ pc[a] = "push_store"
          /\ qtail' = qtail /\ pushes' = pushes
      BY <2>5 DEF PushStore, Step, restVars
    <3>2. "push_flag" \in Pcs /\ pc[a] \notin EarlyPcs /\ "push_flag" \notin EarlyPcs
      BY <3>1 DEF EarlyPcs, Pcs, PushPcs
    <3>3. qtail' <= qtail /\ pushes' >= pushes /\ qtail' \in Int /\ pushes' \in Int
      BY <3>1, <1>t
    <3>4. QED
      BY <3>1, <1>t, <1>m, <3>2, <3>3, CountMoves
  <2>6. CASE PushFlag(a)
    <3>1. PICK to \in {"push_pending", "push_unlock"} :
            /\ pc' = [pc EXCEPT ![a] = to] /\ pc[a] \in {"push_flag", "push_pending"}
            /\ qtail' = qtail /\ pushes' = pushes
      BY <2>6 DEF PushFlag, Step, queueVars, restVars
    <3>2. to \in Pcs /\ pc[a] \notin EarlyPcs /\ to \notin EarlyPcs
      BY <3>1 DEF EarlyPcs, Pcs, PushPcs
    <3>3. qtail' <= qtail /\ pushes' >= pushes /\ qtail' \in Int /\ pushes' \in Int
      BY <3>1, <1>t
    <3>4. QED
      BY <3>1, <1>t, <1>m, <3>2, <3>3, CountMoves
  <2>7. CASE PushUnlock(a)
    <3>1. /\ pc' = [pc EXCEPT ![a] = "idle"] /\ pc[a] = "push_unlock"
          /\ qtail' = qtail /\ pushes' = pushes
      BY <2>7 DEF PushUnlock, Step, queueVars
    <3>2. "idle" \in Pcs /\ pc[a] \notin EarlyPcs /\ "idle" \notin EarlyPcs
      BY <3>1 DEF EarlyPcs, Pcs, PushPcs
    <3>3. qtail' <= qtail /\ pushes' >= pushes /\ qtail' \in Int /\ pushes' \in Int
      BY <3>1, <1>t
    <3>4. QED
      BY <3>1, <1>t, <1>m, <3>2, <3>3, CountMoves
  <2>8. QED
    BY <1>3, <2>1, <2>2, <2>3, <2>4, <2>5, <2>6, <2>7 DEF Push
<1>4. CASE Pop
  <2>1. PICK to \in PopPcs \cup {"dispatch", "idle"} :
          /\ pc' = [pc EXCEPT ![Main] = to] /\ pc[Main] \in PopPcs \cup {"dispatch", "idle"}
          /\ pushes' = pushes /\ qtail' \in {qtail, -1}
    <3> USE DEF Step, queueVars, restVars, PopPcs
    <3>1. CASE CheckPending \/ PopLock \/ BlockSignals \/ UnblockSignals \/ PopUnlock \/ Dispatch
      BY <3>1 DEF CheckPending, PopLock, MutexLock, BlockSignals, UnblockSignals, PopUnlock, Dispatch
    <3>2. CASE PopTest
      BY <3>2 DEF PopTest
    <3>3. CASE PopLast
      BY <3>3 DEF PopLast
    <3>4. CASE PopAdvance
      BY <3>4 DEF PopAdvance
    <3>5. QED
      BY <1>4, <3>1, <3>2, <3>3, <3>4 DEF Pop
  <2>2. to \in Pcs /\ to \notin EarlyPcs /\ pc[Main] \notin EarlyPcs
    BY <2>1 DEF PopPcs, EarlyPcs, Pcs
  <2>3. qtail' <= qtail /\ pushes' >= pushes /\ qtail' \in Int /\ pushes' \in Int
    BY <2>1, <1>t
  <2>4. QED
    BY <2>1, <2>2, <2>3, CountMoves, <1>m, <1>t
<1>5. QED
  BY <1>1, <1>2, <1>3, <1>4 DEF Next

\* Handlers come and go on top of the main thread.
LEMMA OutermostStep == ASSUME QueueInv, Next PROVE Outermost'
<1>1. running \in Seq(Actor) /\ running # <<>> /\ running[Len(running)] = Main
  BY DEF QueueInv, TypeOK, Outermost
<1>2. ASSUME NEW h \in Handlers, running' = <<h>> \o running PROVE Outermost'
  <2>1. <<h>> \in Seq(Actor)
    BY DEF Actor
  <2>2. QED
    BY <1>1, <1>2, <2>1 DEF Outermost
<1>3. ASSUME NEW a \in Actor, PushUnlock(a) PROVE Outermost'
  <2>1. CASE running' = running
    BY <1>1, <2>1 DEF Outermost
  <2>2. CASE Preempt /\ a # Main /\ running' = Tail(running)
    <3>1. running[1] = a
      BY <1>3, <1>1, <2>2 DEF PushUnlock, Step, CanStep
    <3>2. Len(running) \in Nat /\ Len(running) > 1
      BY <1>1, <2>2, <3>1
    <3>3. /\ Len(Tail(running)) = Len(running) - 1
          /\ Tail(running)[Len(running) - 1] = running[Len(running)]
      BY <1>1, <3>2
    <3>4. Len(running') = Len(running) - 1 /\ running'[Len(running')] = Main /\ Len(running') > 0
      BY <1>1, <2>2, <3>2, <3>3
    <3>5. QED
      BY <3>4 DEF Outermost
  <2>3. QED
    BY <1>3, <2>1, <2>2 DEF PushUnlock
<1>4. CASE running' = running
  BY <1>1, <1>4 DEF Outermost
<1>5. CASE UrgeMajorSlice
  BY <1>4, <1>5 DEF UrgeMajorSlice
<1>6. ASSUME NEW h \in Handlers, NEW s \in OsSignals, HandleSignal(h, s) PROVE Outermost'
  BY <1>2, <1>4, <1>6 DEF HandleSignal
<1>7. ASSUME NEW a \in Actor, Push(a) PROVE Outermost'
  BY <1>3, <1>4, <1>7 DEF Push, PushLock, MutexLock, PushTest, PushFirst, PushInc, PushStore,
     PushFlag, restVars
<1>8. CASE Pop
  BY <1>4, <1>8 DEF Pop, CheckPending, PopLock, MutexLock, BlockSignals, PopTest, PopLast,
     PopAdvance, UnblockSignals, PopUnlock, Dispatch, restVars
<1>9. QED
  BY <1>5, <1>6, <1>7, <1>8 DEF Next


\* A step of an actor in its critical section, or one that moves no index, leaves
\* the others where they were.
LEMMA PositionMoves ==
  ASSUME QueueInv, SyncInv, NEW a \in Actor, NEW to \in Pcs, pc' = [pc EXCEPT ![a] = to],
         \A b \in Actor \ {a} : sig'[b] = sig[b] /\ inc'[b] = inc[b],
         InSection(a) \/ (qhead' = qhead /\ qtail' = qtail /\ to \notin HalfPcs),
         InSection(a) /\ to \notin HalfPcs => InOrder',
         Position(a)'
  PROVE  Ordered' /\ \A b \in Actor : Position(b)'
<1>1. pc \in [Actor -> Pcs] /\ \A b \in Actor \ {a} : pc'[b] = pc[b]
  BY DEF QueueInv, TypeOK
<1>2. pc'[a] = to
  BY <1>1
<1>3. ASSUME NEW b \in Actor, b # a PROVE Position(b)'
  <2>1. Position(b) /\ pc'[b] = pc[b] /\ sig'[b] = sig[b] /\ inc'[b] = inc[b]
    BY <1>1, <1>3 DEF QueueInv
  <2>2. CASE InSection(a)
    <3>1. ~InSection(b)
      BY <2>2, <1>3, Alone
    <3>2. QED
      BY <2>1, <3>1 DEF Position, InSection, InPush, InPop, PushPcs, PopPcs
  <2>3. CASE qhead' = qhead /\ qtail' = qtail
    BY <2>1, <2>3 DEF Position
  <2>4. QED
    BY <2>2, <2>3
<1>4. Ordered'
  <2> SUFFICES ASSUME \A b \in Actor : pc'[b] \notin HalfPcs PROVE InOrder'
    BY DEF Ordered
  <2>1. to \notin HalfPcs
    BY <1>2
  <2>2. CASE InSection(a)
    BY <2>1, <2>2
  <2>3. CASE ~InSection(a) /\ qhead' = qhead /\ qtail' = qtail
    <3>1. pc[a] \notin HalfPcs
      BY <2>3 DEF InSection, InPush, InPop, HalfPcs, PushPcs, PopPcs
    <3>2. \A b \in Actor : pc[b] \notin HalfPcs
      BY <1>1, <3>1
    <3>3. QED
      BY <2>3, <3>2 DEF QueueInv, Ordered, InOrder
  <2>4. QED
    BY <2>2, <2>3
<1>5. QED
  BY <1>3, <1>4

\* In the section, at a step with nothing half done, the indices are in order.
LEMMA SectionOrder ==
  ASSUME QueueInv, SyncInv, NEW a \in Actor, InSection(a), pc[a] \notin HalfPcs
  PROVE  InOrder
<1>1. \A b \in Actor : pc[b] \notin HalfPcs
  BY Alone DEF InSection, InPush, InPop, HalfPcs, PushPcs, PopPcs
<1>2. QED
  BY <1>1 DEF QueueInv, Ordered

\* The indices move together, whoever moves them.
LEMMA PositionStep ==
  ASSUME Mutex, QueueInv, SyncInv, Next
  PROVE  Ordered' /\ \A b \in Actor : Position(b)'
<1> DEFINE Goal == Ordered /\ \A b \in Actor : Position(b)
<1>m. Main \in Actor /\ Handlers \subseteq Actor
  BY DEF Actor
<1>t. /\ pc \in [Actor -> Pcs] /\ sig \in [Actor -> Signal \cup {Sig_none}]
      /\ DOMAIN inc = Actor /\ qhead \in Int /\ qtail \in Int
  BY MAXPENDINGAssumption, SlackAssumption DEF QueueInv, TypeOK
<1>p. \A a \in Actor : Position(a)
  BY DEF QueueInv
<1>1. CASE UrgeMajorSlice
  <2>1. /\ pc' = [pc EXCEPT ![Main] = "push_lock"] /\ pc[Main] = "idle"
        /\ qhead' = qhead /\ qtail' = qtail
        /\ sig' = [sig EXCEPT ![Main] = Sig_gc] /\ inc' = inc
    BY <1>1 DEF UrgeMajorSlice, Step, queueVars
  <2>2. "push_lock" \in Pcs /\ ~InSection(Main)
    BY <2>1 DEF Pcs, PushPcs, PopPcs, InSection, InPush, InPop
  <2>3. "push_lock" \notin HalfPcs
    BY <2>1 DEF HalfPcs
  <2>4. Position(Main)'
    BY <2>1, <2>2, <1>t, <1>p, <1>m DEF Position, PushPcs, InOrder, Signal, HalfPcs
  <2>5. \A b \in Actor \ {Main} : sig'[b] = sig[b] /\ inc'[b] = inc[b]
    BY <2>1, <1>t
  <2>6. QED
    BY <2>1, <2>2, <2>3, <2>4, <2>5, <1>m, PositionMoves
<1>2. ASSUME NEW h \in Handlers, NEW s \in OsSignals, HandleSignal(h, s)
      PROVE  Goal'
  <2>1. /\ pc' = [pc EXCEPT ![h] = "push_lock"] /\ pc[h] = "idle"
        /\ qhead' = qhead /\ qtail' = qtail
        /\ sig' = [sig EXCEPT ![h] = s] /\ inc' = inc
    BY <1>2 DEF HandleSignal, queueVars
  <2>2. "push_lock" \in Pcs /\ ~InSection(h)
    BY <2>1 DEF Pcs, PushPcs, PopPcs, InSection, InPush, InPop
  <2>3. "push_lock" \notin HalfPcs
    BY <2>1 DEF HalfPcs
  <2>4. Position(h)'
    BY <2>1, <2>2, <1>t, <1>p, <1>m DEF Position, PushPcs, InOrder, Signal, HalfPcs
  <2>5. \A b \in Actor \ {h} : sig'[b] = sig[b] /\ inc'[b] = inc[b]
    BY <2>1, <1>t
  <2>6. QED
    BY <2>1, <2>2, <2>3, <2>4, <2>5, <1>m, PositionMoves
<1>3. ASSUME NEW a \in Actor, Push(a) PROVE Goal'
  <2>1. CASE PushLock(a)
    <3>1. /\ pc' = [pc EXCEPT ![a] = "push_test"] /\ pc[a] = "push_lock"
          /\ qhead' = qhead /\ qtail' = qtail
          /\ sig' = sig /\ inc' = inc
      BY <2>1 DEF PushLock, MutexLock, Step, queueVars, restVars
    <3>2. "push_test" \in Pcs /\ ~InSection(a)
      BY <3>1 DEF Pcs, PushPcs, PopPcs, InSection, InPush, InPop
    <3>3. "push_test" \notin HalfPcs
      BY <3>1 DEF HalfPcs
    <3>4. Position(a)'
      BY <3>1, <3>2, <1>t, <1>p, <1>m DEF Position, PushPcs, InOrder, HalfPcs
    <3>5. \A b \in Actor \ {a} : sig'[b] = sig[b] /\ inc'[b] = inc[b]
      BY <3>1, <1>t
    <3>6. QED
      BY <3>1, <3>2, <3>3, <3>4, <3>5, <1>m, PositionMoves
  <2>2. CASE PushTest(a)
    <3>1. pc[a] = "push_test" /\ qhead' = qhead /\ qtail' = qtail /\ inc' = inc
      BY <2>2 DEF PushTest, Step, queueVars
    <3>2. InSection(a) /\ pc[a] \notin HalfPcs
      BY <3>1 DEF PushPcs, InSection, InPush, HalfPcs
    <3>3. InOrder /\ InOrder'
      BY <3>1, <3>2, SectionOrder DEF InOrder
    <3>4. PICK to \in {"push_first_tail", "push_store", "push_inc"} :
            /\ pc' = [pc EXCEPT ![a] = to]
            /\ to = "push_first_tail" <=> qhead < 0
      BY <2>2, <1>t DEF PushTest, Step
    <3>5. \E x \in {sig[a], Sig_lost} : sig' = [sig EXCEPT ![a] = x]
      BY <2>2, <1>t DEF PushTest
    <3>6. sig[a] \in Signal /\ Sig_lost \in Signal
      BY <3>1, <1>p DEF Position, PushPcs, Signal
    <3>7. Position(a)'
      BY <3>1, <3>3, <3>4, <3>5, <3>6, <1>t DEF Position, InOrder
    <3>8. to \in Pcs /\ \A b \in Actor \ {a} : sig'[b] = sig[b] /\ inc'[b] = inc[b]
      BY <3>1, <3>5, <1>t DEF Pcs, PushPcs
    <3>9. QED
      BY <3>2, <3>3, <3>4, <3>7, <3>8, PositionMoves
  <2>3. CASE PushFirst(a)
    <3>1. CASE pc[a] = "push_first_tail"
      <4>1. /\ pc' = [pc EXCEPT ![a] = "push_first_head"] /\ pc[a] = "push_first_tail"
            /\ qtail' = 0 /\ qhead' = qhead
            /\ sig' = sig /\ inc' = inc
        BY <2>3, <3>1 DEF PushFirst, Step, restVars
      <4>2. "push_first_head" \in Pcs /\ InSection(a)
        BY <4>1 DEF Pcs, PushPcs, PopPcs, InSection, InPush, InPop
      <4>3. "push_first_head" \notin HalfPcs => InOrder'
        BY <4>1, <4>2, <1>t, <1>p, <1>m DEF HalfPcs, InOrder
      <4>4. Position(a)'
        BY <4>1, <4>2, <1>t, <1>p, <1>m DEF Position, PushPcs, InOrder, HalfPcs
      <4>5. \A b \in Actor \ {a} : sig'[b] = sig[b] /\ inc'[b] = inc[b]
        BY <4>1, <1>t
      <4>6. QED
        BY <4>1, <4>2, <4>3, <4>4, <4>5, <1>m, PositionMoves
    <3>2. CASE pc[a] = "push_first_head"
      <4>1. /\ pc' = [pc EXCEPT ![a] = "push_store"] /\ pc[a] = "push_first_head"
            /\ qhead' = 0 /\ qtail' = qtail
            /\ sig' = sig /\ inc' = inc
        BY <2>3, <3>2 DEF PushFirst, Step, restVars
      <4>2. "push_store" \in Pcs /\ InSection(a)
        BY <4>1 DEF Pcs, PushPcs, PopPcs, InSection, InPush, InPop
      <4>3. "push_store" \notin HalfPcs => InOrder'
        BY <4>1, <4>2, <1>t, <1>p, <1>m DEF HalfPcs, InOrder, Position
      <4>4. Position(a)'
        BY <4>1, <4>2, <1>t, <1>p, <1>m DEF Position, PushPcs, InOrder, HalfPcs
      <4>5. \A b \in Actor \ {a} : sig'[b] = sig[b] /\ inc'[b] = inc[b]
        BY <4>1, <1>t
      <4>6. QED
        BY <4>1, <4>2, <4>3, <4>4, <4>5, <1>m, PositionMoves
    <3>3. QED
      BY <2>3, <3>1, <3>2 DEF PushFirst, Step
  <2>4. CASE PushInc(a)
    <3>1. CASE pc[a] = "push_inc"
      <4>1. /\ pc' = [pc EXCEPT ![a] = "push_tail"] /\ pc[a] = "push_inc"
            /\ qhead' = qhead /\ qtail' = qtail
            /\ sig' = sig /\ inc' = [inc EXCEPT ![a] = Qinc(qtail)]
        BY <2>4, <3>1 DEF PushInc, Step, restVars
      <4>2. "push_tail" \in Pcs /\ InSection(a)
        BY <4>1 DEF Pcs, PushPcs, PopPcs, InSection, InPush, InPop
      <4>3. "push_tail" \notin HalfPcs => InOrder'
        BY <4>1, <4>2, <1>t, <1>p, <1>m, SectionOrder DEF HalfPcs, InOrder
      <4>4. Position(a)'
        BY <4>1, <4>2, <1>t, <1>p, <1>m DEF Position, PushPcs, InOrder, HalfPcs
      <4>5. \A b \in Actor \ {a} : sig'[b] = sig[b] /\ inc'[b] = inc[b]
        BY <4>1, <1>t
      <4>6. QED
        BY <4>1, <4>2, <4>3, <4>4, <4>5, <1>m, PositionMoves
    <3>2. CASE pc[a] = "push_tail"
      <4>1. /\ pc' = [pc EXCEPT ![a] = "push_store"] /\ pc[a] = "push_tail"
            /\ qtail' = inc[a] /\ qhead' = qhead
            /\ sig' = sig /\ inc' = inc
        BY <2>4, <3>2 DEF PushInc, Step, restVars
      <4>2. "push_store" \in Pcs /\ InSection(a)
        BY <4>1 DEF Pcs, PushPcs, PopPcs, InSection, InPush, InPop
      <4>3. "push_store" \notin HalfPcs => InOrder'
        BY <4>1, <4>2, <1>t, <1>p, <1>m, SectionOrder, QincOne DEF HalfPcs, InOrder, Position
      <4>4. Position(a)'
        BY <4>1, <4>2, <1>t, <1>p, <1>m DEF Position, PushPcs, InOrder, HalfPcs
      <4>5. \A b \in Actor \ {a} : sig'[b] = sig[b] /\ inc'[b] = inc[b]
        BY <4>1, <1>t
      <4>6. QED
        BY <4>1, <4>2, <4>3, <4>4, <4>5, <1>m, PositionMoves
    <3>3. QED
      BY <2>4, <3>1, <3>2 DEF PushInc, Step
  <2>5. CASE PushStore(a)
    <3>1. /\ pc' = [pc EXCEPT ![a] = "push_flag"] /\ pc[a] = "push_store"
          /\ qhead' = qhead /\ qtail' = qtail
          /\ sig' = sig /\ inc' = inc
      BY <2>5 DEF PushStore, Step, restVars
    <3>2. "push_flag" \in Pcs /\ InSection(a)
      BY <3>1 DEF Pcs, PushPcs, PopPcs, InSection, InPush, InPop
    <3>3. "push_flag" \notin HalfPcs => InOrder'
      BY <3>1, <3>2, <1>t, <1>p, <1>m, SectionOrder DEF HalfPcs, InOrder
    <3>4. Position(a)'
      BY <3>1, <3>2, <1>t, <1>p, <1>m DEF Position, PushPcs, InOrder, HalfPcs
    <3>5. \A b \in Actor \ {a} : sig'[b] = sig[b] /\ inc'[b] = inc[b]
      BY <3>1, <1>t
    <3>6. QED
      BY <3>1, <3>2, <3>3, <3>4, <3>5, <1>m, PositionMoves
  <2>6. CASE PushFlag(a)
    <3>1. CASE pc[a] = "push_flag"
      <4>1. /\ pc' = [pc EXCEPT ![a] = "push_pending"] /\ pc[a] = "push_flag"
            /\ qhead' = qhead /\ qtail' = qtail
            /\ sig' = sig /\ inc' = inc
        BY <2>6, <3>1 DEF PushFlag, Step, queueVars, restVars
      <4>2. "push_pending" \in Pcs /\ InSection(a)
        BY <4>1 DEF Pcs, PushPcs, PopPcs, InSection, InPush, InPop
      <4>3. "push_pending" \notin HalfPcs => InOrder'
        BY <4>1, <4>2, <1>t, <1>p, <1>m, SectionOrder DEF HalfPcs, InOrder
      <4>4. Position(a)'
        BY <4>1, <4>2, <1>t, <1>p, <1>m DEF Position, PushPcs, InOrder, HalfPcs
      <4>5. \A b \in Actor \ {a} : sig'[b] = sig[b] /\ inc'[b] = inc[b]
        BY <4>1, <1>t
      <4>6. QED
        BY <4>1, <4>2, <4>3, <4>4, <4>5, <1>m, PositionMoves
    <3>2. CASE pc[a] = "push_pending"
      <4>1. /\ pc' = [pc EXCEPT ![a] = "push_unlock"] /\ pc[a] = "push_pending"
            /\ qhead' = qhead /\ qtail' = qtail
            /\ sig' = sig /\ inc' = inc
        BY <2>6, <3>2 DEF PushFlag, Step, queueVars, restVars
      <4>2. "push_unlock" \in Pcs /\ InSection(a)
        BY <4>1 DEF Pcs, PushPcs, PopPcs, InSection, InPush, InPop
      <4>3. "push_unlock" \notin HalfPcs => InOrder'
        BY <4>1, <4>2, <1>t, <1>p, <1>m, SectionOrder DEF HalfPcs, InOrder
      <4>4. Position(a)'
        BY <4>1, <4>2, <1>t, <1>p, <1>m DEF Position, PushPcs, InOrder, HalfPcs
      <4>5. \A b \in Actor \ {a} : sig'[b] = sig[b] /\ inc'[b] = inc[b]
        BY <4>1, <1>t
      <4>6. QED
        BY <4>1, <4>2, <4>3, <4>4, <4>5, <1>m, PositionMoves
    <3>3. QED
      BY <2>6, <3>1, <3>2 DEF PushFlag, Step
  <2>7. CASE PushUnlock(a)
    <3>1. /\ pc' = [pc EXCEPT ![a] = "idle"] /\ pc[a] = "push_unlock"
          /\ qhead' = qhead /\ qtail' = qtail
          /\ sig' = [sig EXCEPT ![a] = Sig_none] /\ inc' = [inc EXCEPT ![a] = 0]
      BY <2>7 DEF PushUnlock, Step, queueVars
    <3>2. "idle" \in Pcs /\ InSection(a)
      BY <3>1 DEF Pcs, PushPcs, PopPcs, InSection, InPush, InPop
    <3>3. "idle" \notin HalfPcs => InOrder'
      BY <3>1, <3>2, <1>t, <1>p, <1>m, SectionOrder DEF HalfPcs, InOrder
    <3>4. Position(a)'
      BY <3>1, <3>2, <1>t, <1>p, <1>m DEF Position, PushPcs, InOrder, HalfPcs
    <3>5. \A b \in Actor \ {a} : sig'[b] = sig[b] /\ inc'[b] = inc[b]
      BY <3>1, <1>t
    <3>6. QED
      BY <3>1, <3>2, <3>3, <3>4, <3>5, <1>m, PositionMoves
  <2>8. QED
    BY <1>3, <2>1, <2>2, <2>3, <2>4, <2>5, <2>6, <2>7 DEF Push
<1>4. CASE Pop
  <2>1. CASE CheckPending
    <3>1. /\ pc' = [pc EXCEPT ![Main] = "pop_lock"] /\ pc[Main] = "idle"
          /\ qhead' = qhead /\ qtail' = qtail
          /\ sig' = sig /\ inc' = inc
      BY <2>1 DEF CheckPending, Step, queueVars, restVars
    <3>2. "pop_lock" \in Pcs /\ ~InSection(Main)
      BY <3>1 DEF Pcs, PushPcs, PopPcs, InSection, InPush, InPop
    <3>3. "pop_lock" \notin HalfPcs
      BY <3>1 DEF HalfPcs
    <3>4. Position(Main)'
      BY <3>1, <3>2, <1>t, <1>p, <1>m DEF Position, PushPcs, InOrder, HalfPcs
    <3>5. \A b \in Actor \ {Main} : sig'[b] = sig[b] /\ inc'[b] = inc[b]
      BY <3>1, <1>t
    <3>6. QED
      BY <3>1, <3>2, <3>3, <3>4, <3>5, <1>m, PositionMoves
  <2>2. CASE PopLock
    <3>1. /\ pc' = [pc EXCEPT ![Main] = "pop_block"] /\ pc[Main] = "pop_lock"
          /\ qhead' = qhead /\ qtail' = qtail
          /\ sig' = sig /\ inc' = inc
      BY <2>2 DEF PopLock, MutexLock, Step, queueVars, restVars
    <3>2. "pop_block" \in Pcs /\ ~InSection(Main)
      BY <3>1 DEF Pcs, PushPcs, PopPcs, InSection, InPush, InPop
    <3>3. "pop_block" \notin HalfPcs
      BY <3>1 DEF HalfPcs
    <3>4. Position(Main)'
      BY <3>1, <3>2, <1>t, <1>p, <1>m DEF Position, PushPcs, InOrder, HalfPcs
    <3>5. \A b \in Actor \ {Main} : sig'[b] = sig[b] /\ inc'[b] = inc[b]
      BY <3>1, <1>t
    <3>6. QED
      BY <3>1, <3>2, <3>3, <3>4, <3>5, <1>m, PositionMoves
  <2>3. CASE BlockSignals
    <3>1. /\ pc' = [pc EXCEPT ![Main] = "pop_test"] /\ pc[Main] = "pop_block"
          /\ qhead' = qhead /\ qtail' = qtail
          /\ sig' = sig /\ inc' = inc
      BY <2>3 DEF BlockSignals, Step, queueVars, restVars
    <3>2. "pop_test" \in Pcs /\ InSection(Main)
      BY <3>1 DEF Pcs, PushPcs, PopPcs, InSection, InPush, InPop
    <3>3. "pop_test" \notin HalfPcs => InOrder'
      BY <3>1, <3>2, <1>t, <1>p, <1>m, SectionOrder DEF HalfPcs, InOrder
    <3>4. Position(Main)'
      BY <3>1, <3>2, <1>t, <1>p, <1>m DEF Position, PushPcs, InOrder, HalfPcs
    <3>5. \A b \in Actor \ {Main} : sig'[b] = sig[b] /\ inc'[b] = inc[b]
      BY <3>1, <1>t
    <3>6. QED
      BY <3>1, <3>2, <3>3, <3>4, <3>5, <1>m, PositionMoves
  <2>4. CASE PopTest
    <3>1. pc[Main] = "pop_test" /\ qhead' = qhead /\ qtail' = qtail /\ inc' = inc
      BY <2>4 DEF PopTest, Step, queueVars
    <3>2. InSection(Main) /\ pc[Main] \notin HalfPcs
      BY <3>1 DEF PopPcs, InSection, InPop, HalfPcs
    <3>3. InOrder /\ InOrder'
      BY <3>1, <3>2, <1>m, SectionOrder DEF InOrder
    <3>4. PICK to \in {"pop_unblock", "pop_clear_tail", "pop_advance"} :
            /\ pc' = [pc EXCEPT ![Main] = to]
            /\ to = "pop_clear_tail" => qhead >= 0 /\ qhead = qtail
            /\ to = "pop_advance" => qhead >= 0 /\ qhead # qtail
      <4>1. CASE qhead < 0
        BY <2>4, <4>1 DEF PopTest, Step
      <4>2. CASE qhead >= 0 /\ qhead = qtail
        BY <2>4, <4>2 DEF PopTest, Step
      <4>3. CASE qhead >= 0 /\ qhead # qtail
        BY <2>4, <4>3 DEF PopTest, Step
      <4>4. QED
        BY <4>1, <4>2, <4>3, <1>t
    <3>5. PICK x : sig' = [sig EXCEPT ![Main] = x]
      BY <2>4 DEF PopTest
    <3>6. Position(Main)'
      BY <3>1, <3>3, <3>4, <1>t, <1>m DEF Position, InOrder, PushPcs
    <3>7. to \in Pcs /\ \A b \in Actor \ {Main} : sig'[b] = sig[b] /\ inc'[b] = inc[b]
      BY <3>1, <3>4, <3>5, <1>t DEF Pcs, PopPcs
    <3>8. QED
      BY <3>2, <3>3, <3>4, <3>6, <3>7, <1>m, PositionMoves
  <2>5. CASE PopLast
    <3>1. CASE pc[Main] = "pop_clear_tail"
      <4>1. /\ pc' = [pc EXCEPT ![Main] = "pop_clear_head"] /\ pc[Main] = "pop_clear_tail"
            /\ qtail' = -1 /\ qhead' = qhead
            /\ sig' = sig /\ inc' = inc
        BY <2>5, <3>1 DEF PopLast, Step, restVars
      <4>2. "pop_clear_head" \in Pcs /\ InSection(Main)
        BY <4>1 DEF Pcs, PushPcs, PopPcs, InSection, InPush, InPop
      <4>3. "pop_clear_head" \notin HalfPcs => InOrder'
        BY <4>1, <4>2, <1>t, <1>p, <1>m DEF HalfPcs, InOrder
      <4>4. Position(Main)'
        BY <4>1, <4>2, <1>t, <1>p, <1>m DEF Position, PushPcs, InOrder, HalfPcs
      <4>5. \A b \in Actor \ {Main} : sig'[b] = sig[b] /\ inc'[b] = inc[b]
        BY <4>1, <1>t
      <4>6. QED
        BY <4>1, <4>2, <4>3, <4>4, <4>5, <1>m, PositionMoves
    <3>2. CASE pc[Main] = "pop_clear_head"
      <4>1. /\ pc' = [pc EXCEPT ![Main] = "pop_clear_flag"] /\ pc[Main] = "pop_clear_head"
            /\ qhead' = -1 /\ qtail' = qtail
            /\ sig' = sig /\ inc' = inc
        BY <2>5, <3>2 DEF PopLast, Step, restVars
      <4>2. "pop_clear_flag" \in Pcs /\ InSection(Main)
        BY <4>1 DEF Pcs, PushPcs, PopPcs, InSection, InPush, InPop
      <4>3. "pop_clear_flag" \notin HalfPcs => InOrder'
        BY <4>1, <4>2, <1>t, <1>p, <1>m DEF HalfPcs, InOrder, Position
      <4>4. Position(Main)'
        BY <4>1, <4>2, <1>t, <1>p, <1>m DEF Position, PushPcs, InOrder, HalfPcs
      <4>5. \A b \in Actor \ {Main} : sig'[b] = sig[b] /\ inc'[b] = inc[b]
        BY <4>1, <1>t
      <4>6. QED
        BY <4>1, <4>2, <4>3, <4>4, <4>5, <1>m, PositionMoves
    <3>3. CASE pc[Main] = "pop_clear_flag"
      <4>1. /\ pc' = [pc EXCEPT ![Main] = "pop_unblock"] /\ pc[Main] = "pop_clear_flag"
            /\ qhead' = qhead /\ qtail' = qtail
            /\ sig' = sig /\ inc' = inc
        BY <2>5, <3>3 DEF PopLast, Step, restVars
      <4>2. "pop_unblock" \in Pcs /\ InSection(Main)
        BY <4>1 DEF Pcs, PushPcs, PopPcs, InSection, InPush, InPop
      <4>3. "pop_unblock" \notin HalfPcs => InOrder'
        BY <4>1, <4>2, <1>t, <1>p, <1>m, SectionOrder DEF HalfPcs, InOrder
      <4>4. Position(Main)'
        BY <4>1, <4>2, <1>t, <1>p, <1>m DEF Position, PushPcs, InOrder, HalfPcs
      <4>5. \A b \in Actor \ {Main} : sig'[b] = sig[b] /\ inc'[b] = inc[b]
        BY <4>1, <1>t
      <4>6. QED
        BY <4>1, <4>2, <4>3, <4>4, <4>5, <1>m, PositionMoves
    <3>4. QED
      BY <2>5, <3>1, <3>2, <3>3 DEF PopLast, Step
  <2>6. CASE PopAdvance
    <3>1. /\ pc' = [pc EXCEPT ![Main] = "pop_unblock"] /\ pc[Main] = "pop_advance"
          /\ qhead' = Qinc(qhead) /\ qtail' = qtail
          /\ sig' = sig /\ inc' = inc
      BY <2>6 DEF PopAdvance, Step, flagVars, restVars
    <3>2. "pop_unblock" \in Pcs /\ InSection(Main)
      BY <3>1 DEF Pcs, PushPcs, PopPcs, InSection, InPush, InPop
    <3>3. "pop_unblock" \notin HalfPcs => InOrder'
      BY <3>1, <3>2, <1>t, <1>p, <1>m, QincOne DEF HalfPcs, InOrder, Position
    <3>4. Position(Main)'
      BY <3>1, <3>2, <1>t, <1>p, <1>m DEF Position, PushPcs, InOrder, HalfPcs
    <3>5. \A b \in Actor \ {Main} : sig'[b] = sig[b] /\ inc'[b] = inc[b]
      BY <3>1, <1>t
    <3>6. QED
      BY <3>1, <3>2, <3>3, <3>4, <3>5, <1>m, PositionMoves
  <2>7. CASE UnblockSignals
    <3>1. /\ pc' = [pc EXCEPT ![Main] = "pop_unlock"] /\ pc[Main] = "pop_unblock"
          /\ qhead' = qhead /\ qtail' = qtail
          /\ sig' = sig /\ inc' = inc
      BY <2>7 DEF UnblockSignals, Step, queueVars, restVars
    <3>2. "pop_unlock" \in Pcs /\ InSection(Main)
      BY <3>1 DEF Pcs, PushPcs, PopPcs, InSection, InPush, InPop
    <3>3. "pop_unlock" \notin HalfPcs => InOrder'
      BY <3>1, <3>2, <1>t, <1>p, <1>m, SectionOrder DEF HalfPcs, InOrder
    <3>4. Position(Main)'
      BY <3>1, <3>2, <1>t, <1>p, <1>m DEF Position, PushPcs, InOrder, HalfPcs
    <3>5. \A b \in Actor \ {Main} : sig'[b] = sig[b] /\ inc'[b] = inc[b]
      BY <3>1, <1>t
    <3>6. QED
      BY <3>1, <3>2, <3>3, <3>4, <3>5, <1>m, PositionMoves
  <2>8. CASE PopUnlock
    <3>1. /\ pc' = [pc EXCEPT ![Main] = "dispatch"] /\ pc[Main] = "pop_unlock"
          /\ qhead' = qhead /\ qtail' = qtail
          /\ sig' = sig /\ inc' = inc
      BY <2>8 DEF PopUnlock, Step, queueVars, restVars
    <3>2. "dispatch" \in Pcs /\ InSection(Main)
      BY <3>1 DEF Pcs, PushPcs, PopPcs, InSection, InPush, InPop
    <3>3. "dispatch" \notin HalfPcs => InOrder'
      BY <3>1, <3>2, <1>t, <1>p, <1>m, SectionOrder DEF HalfPcs, InOrder
    <3>4. Position(Main)'
      BY <3>1, <3>2, <1>t, <1>p, <1>m DEF Position, PushPcs, InOrder, HalfPcs
    <3>5. \A b \in Actor \ {Main} : sig'[b] = sig[b] /\ inc'[b] = inc[b]
      BY <3>1, <1>t
    <3>6. QED
      BY <3>1, <3>2, <3>3, <3>4, <3>5, <1>m, PositionMoves
  <2>9. CASE Dispatch
    <3>1. /\ pc' = [pc EXCEPT ![Main] = "idle"] /\ pc[Main] = "dispatch"
          /\ qhead' = qhead /\ qtail' = qtail
          /\ sig' = [sig EXCEPT ![Main] = Sig_none] /\ inc' = inc
      BY <2>9 DEF Dispatch, Step, queueVars, restVars
    <3>2. "idle" \in Pcs /\ ~InSection(Main)
      BY <3>1 DEF Pcs, PushPcs, PopPcs, InSection, InPush, InPop
    <3>3. "idle" \notin HalfPcs
      BY <3>1 DEF HalfPcs
    <3>4. Position(Main)'
      BY <3>1, <3>2, <1>t, <1>p, <1>m DEF Position, PushPcs, InOrder, HalfPcs
    <3>5. \A b \in Actor \ {Main} : sig'[b] = sig[b] /\ inc'[b] = inc[b]
      BY <3>1, <1>t
    <3>6. QED
      BY <3>1, <3>2, <3>3, <3>4, <3>5, <1>m, PositionMoves
  <2>10. QED
    BY <1>4, <2>1, <2>2, <2>3, <2>4, <2>5, <2>6, <2>7, <2>8, <2>9 DEF Pop
<1>5. QED
  BY <1>1, <1>2, <1>3, <1>4 DEF Next


\* With a real mutex every step keeps the invariant.
LEMMA QueueStep == ASSUME Mutex PROVE QueueInv /\ SyncInv /\ [Next]_vars => QueueInv'
<1> SUFFICES ASSUME QueueInv, SyncInv, [Next]_vars PROVE QueueInv'
  OBVIOUS
<1>1. CASE Next
  BY <1>1, TypeStep, CountStep, OutermostStep, PositionStep DEF QueueInv
<1>2. CASE UNCHANGED vars
  <2>1. TypeOK' /\ Outermost' /\ Ordered' /\ \A a \in Actor : Position(a)'
    BY <1>2 DEF QueueInv, vars, TypeOK, Outermost, Ordered, InOrder, Position
  <2>2. Early' = Early /\ qtail' = qtail /\ pushes' = pushes
    BY <1>2 DEF vars, Early
  <2>3. Counted'
    BY <2>2 DEF QueueInv, Counted
  <2>4. QED
    BY <2>1, <2>3 DEF QueueInv
<1>3. QED
  BY <1>1, <1>2

\* The two invariants together hold at all times.
LEMMA QueueInvariant == ASSUME Mutex PROVE Spec => [](SyncInv /\ QueueInv)
<1>1. SyncInv /\ QueueInv /\ [Next]_vars => (SyncInv /\ QueueInv)'
  BY SyncStep, QueueStep
<1>2. Init => SyncInv /\ QueueInv
  BY SyncInit, QueueInit
<1>3. QED
  BY <1>1, <1>2, PTL DEF Spec

\* With a real mutex the indices stay in the memory that belongs to the queue as long as
\* there are no more calls of push_pending_signal than it has words for, whatever the
\* order in which handlers, allocations and the scheduler run (signals.c 244-294).
THEOREM QueueTypeCorrect == ASSUME Mutex PROVE Spec => []TypeOK
<1>1. QueueInv => TypeOK
  BY DEF QueueInv
<1>2. QED
  BY <1>1, QueueInvariant, PTL

-----------------------------------------------------------------------------
(* The refinement                                                          *)

\* The steps between reading the oldest signal and moving qhead.
TakenPcs == {"pop_clear_tail", "pop_advance"}

\* The first and the last cell that holds a waiting signal.
Lo == IF qhead < 0 THEN 0 ELSE IF pc[Main] \in TakenPcs THEN qhead + 1 ELSE qhead
Hi == IF qhead < 0 THEN -1
      ELSE IF \E a \in Actor : pc[a] = "push_store" THEN qtail - 1 ELSE qtail

Cells(q, i, j) == SubSeq(q, i, j)

\* What a cell holds.
Content == Signal \cup {Sig_none}

\* Taking the first cell, and adding one at the end.
LEMMA CellsMove ==
  ASSUME NEW q, NEW i \in Int, NEW j \in Int, i <= j, \A n \in i .. j : q[n] \in Content
  PROVE  /\ Cells(q, i, j) # <<>>
         /\ Head(Cells(q, i, j)) = q[i]
         /\ Tail(Cells(q, i, j)) = Cells(q, i + 1, j)
         /\ Append(Cells(q, i, j - 1), q[j]) = Cells(q, i, j)
<1> DEFINE s == Cells(q, i, j)
           r == Cells(q, i, j - 1)
           t == Cells(q, i + 1, j)
<1>1. /\ s \in Seq(Content) /\ Len(s) = j - i + 1
      /\ \A n \in 1 .. j - i + 1 : s[n] = q[i + n - 1]
  BY SubSeqProperties DEF Cells
<1>2. /\ r \in Seq(Content) /\ Len(r) = j - i
      /\ \A n \in 1 .. j - i : r[n] = q[i + n - 1]
  <2>1. j - 1 \in Int /\ \A n \in i .. j - 1 : q[n] \in Content
    OBVIOUS
  <2>2. /\ r \in Seq(Content) /\ Len(r) = IF i <= j - 1 THEN j - 1 - i + 1 ELSE 0
        /\ \A n \in 1 .. j - 1 - i + 1 : r[n] = q[i + n - 1]
    BY <2>1, SubSeqProperties DEF Cells
  <2>3. QED
    BY <2>2
<1>3. /\ t \in Seq(Content) /\ Len(t) = j - i
      /\ \A n \in 1 .. j - i : t[n] = q[i + n]
  <2>1. i + 1 \in Int /\ \A n \in i + 1 .. j : q[n] \in Content
    OBVIOUS
  <2>2. /\ t \in Seq(Content) /\ Len(t) = IF i + 1 <= j THEN j - (i + 1) + 1 ELSE 0
        /\ \A n \in 1 .. j - (i + 1) + 1 : t[n] = q[i + 1 + n - 1]
    BY <2>1, SubSeqProperties DEF Cells
  <2>3. QED
    BY <2>2
<1> HIDE DEF s, r, t
<1>4. s # <<>> /\ Head(s) = q[i]
  <2>1. s # <<>>
    BY <1>1, EmptySeq
  <2>2. Head(s) = s[1]
    BY <1>1, <2>1
  <2>3. QED
    BY <1>1, <2>1, <2>2
<1>5. Tail(s) = t
  <2>1. /\ Tail(s) \in Seq(Content) /\ Len(Tail(s)) = Len(s) - 1
        /\ \A n \in 1 .. Len(Tail(s)) : Tail(s)[n] = s[n + 1]
    BY <1>1, <1>4, HeadTailProperties
  <2>2. Len(Tail(s)) = Len(t) /\ \A n \in 1 .. Len(Tail(s)) : Tail(s)[n] = t[n]
    BY <2>1, <1>1, <1>3
  <2>3. QED
    BY <2>1, <2>2, <1>3, SeqEqual
<1>6. Append(r, q[j]) = s
  <2> DEFINE u == Append(r, q[j])
  <2>1. /\ u \in Seq(Content) /\ Len(u) = Len(r) + 1
        /\ \A n \in 1 .. Len(r) : u[n] = r[n]
        /\ u[Len(r) + 1] = q[j]
    BY <1>2, AppendProperties
  <2> HIDE DEF u
  <2>2. Len(u) = Len(s) /\ \A n \in 1 .. Len(u) : u[n] = s[n]
    <3>1. ASSUME NEW n \in 1 .. Len(u) PROVE u[n] = s[n]
      <4>1. CASE n <= j - i
        BY <4>1, <2>1, <1>1, <1>2
      <4>2. CASE n = j - i + 1
        BY <4>2, <2>1, <1>1, <1>2
      <4>3. QED
        BY <4>1, <4>2, <2>1, <1>2
    <3>2. QED
      BY <3>1, <2>1, <1>1, <1>2
  <2>3. u = s
    BY <2>1, <2>2, <1>1, SeqEqual
  <2>4. QED
    BY <2>3 DEF u
<1>7. QED
  BY <1>4, <1>5, <1>6 DEF s, r, t

\* No cells, and the same cells.
LEMMA CellsSame ==
  ASSUME NEW q, NEW p, NEW i \in Int, NEW j \in Int,
         \A n \in i .. j : q[n] \in Content /\ p[n] = q[n]
  PROVE  Cells(p, i, j) = Cells(q, i, j) /\ (j < i => Cells(q, i, j) = <<>>)
<1>1. /\ Cells(q, i, j) \in Seq(Content) /\ Cells(p, i, j) \in Seq(Content)
      /\ Len(Cells(q, i, j)) = IF i <= j THEN j - i + 1 ELSE 0
      /\ Len(Cells(p, i, j)) = IF i <= j THEN j - i + 1 ELSE 0
      /\ \A n \in 1 .. j - i + 1 : Cells(q, i, j)[n] = q[i + n - 1]
      /\ \A n \in 1 .. j - i + 1 : Cells(p, i, j)[n] = p[i + n - 1]
  BY SubSeqProperties DEF Cells
<1>2. \A n \in 1 .. Len(Cells(p, i, j)) : Cells(p, i, j)[n] = Cells(q, i, j)[n]
  BY <1>1
<1>3. Cells(p, i, j) = Cells(q, i, j)
  BY <1>1, <1>2, SeqEqual
<1>4. QED
  BY <1>3, SubSeqEmpty DEF Cells

\* The refinement mapping in terms of the two cells.
LEMMA WaitingIs ==
  ASSUME TypeOK
  PROVE  /\ Lo \in Int /\ Hi \in Int
         /\ \A n \in Lo .. Hi : signal_queue[n] \in Content
         /\ Waiting = Cells(signal_queue, Lo, Hi)
<1>1. /\ qhead \in -1 .. MAXPENDING + Slack - 1 /\ qtail \in -1 .. MAXPENDING + Slack - 1
      /\ signal_queue \in [0 .. MAXPENDING + Slack - 1 -> Content]
      /\ MAXPENDING \in Int /\ Slack \in Int
  BY MAXPENDINGAssumption, SlackAssumption DEF TypeOK, Cell, Content
<1>2. Lo \in Int /\ Hi \in Int /\ (qhead >= 0 => Lo >= qhead /\ Hi <= qtail)
  BY <1>1 DEF Lo, Hi
<1>3. \A n \in Lo .. Hi : signal_queue[n] \in Content
  <2>1. CASE qhead < 0
    BY <2>1 DEF Lo, Hi
  <2>2. CASE qhead >= 0
    BY <2>2, <1>1, <1>2
  <2>3. QED
    BY <2>1, <2>2, <1>1
<1>4. CASE qhead < 0 \/ qtail < qhead
  <2>1. Hi < Lo
    BY <1>1, <1>4 DEF Lo, Hi
  <2>2. Cells(signal_queue, Lo, Hi) = <<>>
    BY <1>2, <1>3, <2>1, CellsSame
  <2>3. QED
    BY <1>2, <1>3, <1>4, <2>2 DEF Waiting, Stored
<1>5. CASE qhead >= 0 /\ qhead <= qtail
  <2> DEFINE s == Cells(signal_queue, qhead, qtail)
             l == IF pc[Main] \in TakenPcs THEN 1 ELSE 0
             r == IF \E a \in Actor : pc[a] = "push_store" THEN 1 ELSE 0
  <2>1. \A n \in qhead .. qtail : signal_queue[n] \in Content
    BY <1>1, <1>5
  <2>2. qhead \in Int /\ qtail \in Int
    BY <1>1
  <2>3. /\ s \in Seq(Content) /\ Len(s) = qtail - qhead + 1
        /\ \A n \in 1 .. qtail - qhead + 1 : s[n] = signal_queue[qhead + n - 1]
    BY <1>5, <2>1, <2>2, SubSeqProperties DEF Cells
  <2>4. s = [n \in 1 .. qtail - qhead + 1 |-> signal_queue[qhead + n - 1]]
    BY <2>3
  <2>5. Stored = s
    BY <2>4, <1>5, <2>2 DEF Stored
  <2> HIDE DEF s
  <2>6. s # <<>>
    BY <2>3, <1>5, <2>2, EmptySeq
  <2>7. Waiting = SubSeq(s, 1 + l, qtail - qhead + 1 - r)
    <3>1. 1 + l = IF pc[Main] \in {"pop_clear_tail", "pop_advance"} THEN 2 ELSE 1
      BY DEF TakenPcs
    <3>2. qtail - qhead + 1 - r =
            IF \E a \in Actor : pc[a] = "push_store" THEN Len(s) - 1 ELSE Len(s)
      BY <2>2, <2>3
    <3> HIDE DEF l, r
    <3>3. QED
      BY <3>1, <3>2, <2>5, <2>6 DEF Waiting
  <2>8. Lo = qhead + l /\ Hi = qtail - r
    BY <1>5, <2>2 DEF Lo, Hi
  <2>9. l \in {0, 1} /\ r \in {0, 1}
    OBVIOUS
  <2> HIDE DEF l, r
  <2>10. /\ Lo \in {qhead, qhead + 1} /\ Hi \in {qtail, qtail - 1}
         /\ 1 + l = Lo - qhead + 1 /\ qtail - qhead + 1 - r = Hi - qhead + 1
         /\ 1 + l \in Int /\ qtail - qhead + 1 - r \in Int
    BY <2>2, <2>8, <2>9
  <2>11. SubSeq(s, 1 + l, qtail - qhead + 1 - r) = Cells(signal_queue, Lo, Hi)
    <3> DEFINE m == 1 + l
               o == qtail - qhead + 1 - r
               t == SubSeq(s, m, o)
               u == Cells(signal_queue, Lo, Hi)
    <3>0. m \in Int /\ o \in Int /\ m = 1 + l /\ o = qtail - qhead + 1 - r
      BY <2>10
    <3> HIDE DEF m, o
    <3>1. /\ t \in Seq(Content)
          /\ Len(t) = IF m <= o THEN o - m + 1 ELSE 0
          /\ \A n \in 1 .. o - m + 1 : t[n] = s[m + n - 1]
      <4>1. \A n \in m .. o : s[n] \in Content
        BY <2>1, <2>2, <2>3, <2>9, <3>0
      <4>2. QED
        BY <3>0, <4>1, SubSeqProperties
    <3>2. /\ u \in Seq(Content)
          /\ Len(u) = IF Lo <= Hi THEN Hi - Lo + 1 ELSE 0
          /\ \A n \in 1 .. Hi - Lo + 1 : u[n] = signal_queue[Lo + n - 1]
      BY <1>2, <1>3, SubSeqProperties DEF Cells
    <3> HIDE DEF t, u
    <3>3. Len(t) = Len(u)
      BY <1>2, <2>2, <2>8, <2>9, <3>0, <3>1, <3>2
    <3>4. \A n \in 1 .. Len(t) : t[n] = u[n]
      BY <1>2, <2>2, <2>3, <2>8, <2>9, <3>0, <3>1, <3>2
    <3>5. t = u
      BY <3>1, <3>2, <3>3, <3>4, SeqEqual
    <3>6. QED
      BY <3>5 DEF t, u, m, o
  <2>12. QED
    BY <1>2, <1>3, <2>7, <2>11
<1>6. QED
  BY <1>1, <1>4, <1>5

\* A step that moves neither cell, or leaves no cell between them, and changes none of
\* them is no step of the buffer.
LEMMA Stutters ==
  ASSUME TypeOK, TypeOK', taken' = taken,
         (Lo' = Lo /\ Hi' = Hi /\ signal_queue' = signal_queue) \/ (Hi < Lo /\ Hi' < Lo')
  PROVE  UNCHANGED <<Waiting, taken>>
<1>1. /\ Lo \in Int /\ Hi \in Int
      /\ \A n \in Lo .. Hi : signal_queue[n] \in Content
      /\ Waiting = Cells(signal_queue, Lo, Hi)
  BY WaitingIs
<1>2. /\ Lo' \in Int /\ Hi' \in Int
      /\ \A n \in Lo' .. Hi' : signal_queue'[n] \in Content
      /\ Waiting' = Cells(signal_queue', Lo', Hi')
  <2>1. TypeOK' => (/\ Lo \in Int /\ Hi \in Int
                    /\ \A n \in Lo .. Hi : signal_queue[n] \in Content
                    /\ Waiting = Cells(signal_queue, Lo, Hi))'
    BY WaitingIs, PTL
  <2>2. QED
    BY <2>1 DEF Cells, Content
<1>3. QED
  BY <1>1, <1>2, CellsSame

\* A step between two places where no cell is given or taken.
LEMMA Elsewhere ==
  ASSUME TypeOK, NEW a \in Actor, NEW to, pc' = [pc EXCEPT ![a] = to],
         qhead' = qhead, qtail' = qtail,
         pc[a] \notin TakenPcs \cup {"push_store"}, to \notin TakenPcs \cup {"push_store"}
  PROVE  Lo' = Lo /\ Hi' = Hi
<1>1. pc \in [Actor -> Pcs] /\ Main \in Actor
  BY DEF TypeOK, Actor
<1>2. pc'[Main] \in TakenPcs <=> pc[Main] \in TakenPcs
  BY <1>1
<1>3. (\E b \in Actor : pc'[b] = "push_store") <=> (\E b \in Actor : pc[b] = "push_store")
  BY <1>1
<1>4. QED
  BY <1>2, <1>3 DEF Lo, Hi

\* Every step puts one signal, takes the oldest one, or changes nothing of the buffer.
LEMMA BufferStep ==
  ASSUME Mutex, MAXPENDING > 1, QueueInv, SyncInv, QueueInv', SyncInv', Next
  PROVE  Buffer!Next \/ UNCHANGED <<Waiting, taken>>
<1>m. Main \in Actor /\ Handlers \subseteq Actor
  BY DEF Actor
<1>t. TypeOK /\ TypeOK' /\ pc \in [Actor -> Pcs]
  BY DEF QueueInv, TypeOK
<1>n. /\ qhead \in -1 .. MAXPENDING + Slack - 1 /\ qtail \in -1 .. MAXPENDING + Slack - 1
      /\ MAXPENDING \in Int /\ Slack \in Int
  BY <1>t, MAXPENDINGAssumption, SlackAssumption DEF TypeOK
<1>p. \A a \in Actor : Position(a)
  BY DEF QueueInv
<1>q. \A i \in Int : Qinc(i) = i + 1
  BY QincOne
<1>e. ASSUME NEW a \in Actor, NEW to, pc' = [pc EXCEPT ![a] = to],
             UNCHANGED <<qhead, qtail, signal_queue, taken>>,
             pc[a] \notin TakenPcs \cup {"push_store"}, to \notin TakenPcs \cup {"push_store"}
      PROVE  UNCHANGED <<Waiting, taken>>
  <2>1. Lo' = Lo /\ Hi' = Hi
    BY <1>e, <1>t, Elsewhere
  <2>2. QED
    BY <1>e, <1>t, <2>1, Stutters
<1>f. ASSUME NEW a \in Actor, InSection(a)
      PROVE  /\ pc[a] \notin HalfPcs => InOrder
             /\ a # Main => pc[Main] \notin TakenPcs
             /\ pc[a] # "push_store" => ~ \E b \in Actor : pc[b] = "push_store"
  <2>1. \A b \in Actor : b # a => ~InSection(b)
    BY <1>f, Alone
  <2>2. \A b \in Actor : b # a => pc[b] \notin TakenPcs \cup {"push_store"}
    BY <2>1 DEF InSection, InPush, InPop, PushPcs, PopPcs, TakenPcs
  <2>3. QED
    BY <1>f, <1>m, <2>2, SectionOrder
<1>1. CASE UrgeMajorSlice
  BY <1>1, <1>m, <1>e DEF UrgeMajorSlice, Step, queueVars, TakenPcs
<1>2. ASSUME NEW h \in Handlers, NEW x \in OsSignals, HandleSignal(h, x)
      PROVE UNCHANGED <<Waiting, taken>>
  BY <1>2, <1>m, <1>e DEF HandleSignal, queueVars, TakenPcs
<1>3. ASSUME NEW a \in Actor, Push(a) PROVE Buffer!Next \/ UNCHANGED <<Waiting, taken>>
  <2>1. CASE PushLock(a)
    BY <2>1, <1>e DEF PushLock, MutexLock, Step, queueVars, restVars, TakenPcs
  <2>2. CASE PushTest(a)
    <3>1. pc[a] = "push_test" /\ UNCHANGED <<qhead, qtail, signal_queue, taken>>
      BY <2>2 DEF PushTest, Step, queueVars, restVars
    <3>2. InSection(a) /\ pc[a] \notin HalfPcs
      BY <3>1 DEF InSection, InPush, PushPcs, HalfPcs
    <3>3. qhead < 0 \/ Qinc(qtail) # qhead
      BY <3>2, <1>f, <1>n, <1>q DEF InOrder
    <3>4. PICK to \in {"push_first_tail", "push_inc"} : pc' = [pc EXCEPT ![a] = to]
      BY <2>2, <3>3, <1>n DEF PushTest, Step
    <3>5. QED
      BY <3>1, <3>4, <1>e DEF TakenPcs
  <2>3. CASE PushFirst(a)
    <3>1. CASE pc[a] = "push_first_tail"
      <4>1. /\ pc' = [pc EXCEPT ![a] = "push_first_head"]
            /\ qhead = -1 /\ qhead' = -1
            /\ signal_queue' = signal_queue /\ taken' = taken
        BY <2>3, <3>1, <1>p DEF PushFirst, Step, restVars, Position
      <4>2. Lo' = Lo /\ Hi' = Hi
        BY <4>1 DEF Lo, Hi
      <4>3. QED
        BY <4>1, <4>2, <1>t, Stutters
    <3>2. CASE pc[a] = "push_first_head"
      <4>1. /\ pc' = [pc EXCEPT ![a] = "push_store"]
            /\ qhead = -1 /\ qhead' = 0 /\ qtail = 0 /\ qtail' = 0
            /\ signal_queue' = signal_queue /\ taken' = taken
        BY <2>3, <3>2, <1>p DEF PushFirst, Step, restVars, Position
      <4>2. InSection(a)
        BY <3>2 DEF InSection, InPush, PushPcs
      <4>3. pc'[Main] \notin TakenPcs /\ pc'[a] = "push_store"
        BY <4>1, <4>2, <1>f, <1>t, <1>m DEF TakenPcs
      <4>4. Lo' = 0 /\ Hi' = -1 /\ Lo = 0 /\ Hi = -1
        BY <4>1, <4>3 DEF Lo, Hi
      <4>5. QED
        BY <4>1, <4>4, <1>t, Stutters
    <3>3. QED
      BY <2>3, <3>1, <3>2 DEF PushFirst, Step
  <2>4. CASE PushInc(a)
    <3>1. CASE pc[a] = "push_inc"
      BY <2>4, <3>1, <1>e DEF PushInc, Step, restVars, TakenPcs
    <3>2. CASE pc[a] = "push_tail"
      <4>1. /\ pc' = [pc EXCEPT ![a] = "push_store"]
            /\ qhead' = qhead /\ qhead >= 0 /\ qtail' = qtail + 1
            /\ signal_queue' = signal_queue /\ taken' = taken
        BY <2>4, <3>2, <1>p, <1>n, <1>q DEF PushInc, Step, restVars, Position
      <4>2. InSection(a)
        BY <3>2 DEF InSection, InPush, PushPcs
      <4>3. /\ pc'[Main] \in TakenPcs <=> pc[Main] \in TakenPcs
            /\ pc'[a] = "push_store" /\ ~ \E b \in Actor : pc[b] = "push_store"
        BY <4>1, <4>2, <3>2, <1>f, <1>t, <1>m DEF TakenPcs
      <4>4. Lo' = Lo
        BY <4>1, <4>3, <1>n DEF Lo
      <4>5. Hi' = Hi
        BY <4>1, <4>3, <1>n DEF Hi
      <4>6. QED
        BY <4>1, <4>4, <4>5, <1>t, Stutters
    <3>3. QED
      BY <2>4, <3>1, <3>2 DEF PushInc, Step
  <2>5. CASE PushStore(a)
    <3>1. /\ pc[a] = "push_store" /\ pc' = [pc EXCEPT ![a] = "push_flag"]
          /\ qhead' = qhead /\ qtail' = qtail /\ taken' = taken
          /\ qhead >= 0 /\ sig[a] \in Signal
      BY <2>5, <1>p DEF PushStore, Step, restVars, Position, PushPcs
    <3>2. InSection(a) /\ InOrder
      BY <3>1, <1>f DEF InSection, InPush, PushPcs, HalfPcs
    <3>3. qtail >= qhead /\ qtail \in Cell
      BY <3>1, <3>2, <1>n DEF InOrder, Cell
    <3>4. signal_queue' = [signal_queue EXCEPT ![qtail] = sig[a]]
      BY <2>5, <3>3 DEF PushStore
    <3>5. pc'[Main] \notin TakenPcs /\ pc[Main] \notin TakenPcs
      BY <3>1, <3>2, <1>f, <1>t, <1>m DEF TakenPcs
    <3>6. \A b \in Actor : b # a => pc[b] # "push_store"
      <4>1. \A b \in Actor : b # a => ~InSection(b)
        BY <3>2, Alone
      <4>2. QED
        BY <4>1 DEF InSection, InPush, PushPcs
    <3>7. Lo = qhead /\ Lo' = qhead
      BY <3>1, <3>5, <1>n DEF Lo
    <3>8. Hi = qtail - 1 /\ Hi' = qtail
      BY <3>1, <3>6, <1>n, <1>t DEF Hi
    <3>9. Waiting = Cells(signal_queue, qhead, qtail - 1)
      BY <3>7, <3>8, <1>t, WaitingIs
    <3>10. /\ \A n \in qhead .. qtail : signal_queue'[n] \in Content
           /\ Waiting' = Cells(signal_queue', qhead, qtail)
      <4>1. TypeOK' => (/\ \A n \in Lo .. Hi : signal_queue[n] \in Content
                        /\ Waiting = Cells(signal_queue, Lo, Hi))'
        BY WaitingIs, PTL
      <4>2. QED
        BY <4>1, <3>7, <3>8, <1>t DEF Cells, Content
    <3>11. Cells(signal_queue', qhead, qtail - 1) = Cells(signal_queue, qhead, qtail - 1)
      <4>1. qhead \in Int /\ qtail - 1 \in Int /\ qtail \in Int
        BY <1>n
      <4>2. signal_queue \in [Cell -> Content]
        BY <1>t DEF TypeOK, Content
      <4>3. \A n \in qhead .. qtail - 1 :
               signal_queue[n] \in Content /\ signal_queue'[n] = signal_queue[n]
        BY <4>1, <4>2, <3>1, <3>3, <3>4, <1>n DEF Cell
      <4>4. QED
        BY <4>1, <4>3, CellsSame
    <3>12. signal_queue'[qtail] = sig[a]
      BY <3>3, <3>4, <1>t DEF TypeOK
    <3>13. Append(Cells(signal_queue', qhead, qtail - 1), signal_queue'[qtail])
             = Cells(signal_queue', qhead, qtail)
      <4>1. qhead \in Int /\ qtail \in Int /\ qhead <= qtail
        BY <1>n, <3>3
      <4>2. QED
        BY <4>1, <3>10, CellsMove
    <3>14. Waiting' = Append(Waiting, sig[a])
      BY <3>9, <3>10, <3>11, <3>12, <3>13
    <3>15. QED
      BY <3>1, <3>14 DEF Buffer!Next, Buffer!Put
  <2>6. CASE PushFlag(a)
    <3>1. CASE pc[a] = "push_flag"
      BY <2>6, <3>1, <1>e DEF PushFlag, Step, queueVars, restVars, TakenPcs
    <3>2. CASE pc[a] = "push_pending"
      BY <2>6, <3>2, <1>e DEF PushFlag, Step, queueVars, restVars, TakenPcs
    <3>3. QED
      BY <2>6, <3>1, <3>2 DEF PushFlag, Step
  <2>7. CASE PushUnlock(a)
    BY <2>7, <1>e DEF PushUnlock, Step, queueVars, TakenPcs
  <2>8. QED
    BY <1>3, <2>1, <2>2, <2>3, <2>4, <2>5, <2>6, <2>7 DEF Push
<1>4. CASE Pop
  <2>1. CASE CheckPending
    BY <2>1, <1>m, <1>e DEF CheckPending, Step, queueVars, restVars, TakenPcs
  <2>2. CASE PopLock
    BY <2>2, <1>m, <1>e DEF PopLock, MutexLock, Step, queueVars, restVars, TakenPcs
  <2>3. CASE BlockSignals
    BY <2>3, <1>m, <1>e DEF BlockSignals, Step, queueVars, TakenPcs
  <2>4. CASE PopTest
    <3>1. pc[Main] = "pop_test" /\ UNCHANGED <<qhead, qtail, signal_queue>>
      BY <2>4 DEF PopTest, Step, queueVars
    <3>2. InSection(Main) /\ pc[Main] \notin HalfPcs
      BY <3>1 DEF InSection, InPop, PopPcs, HalfPcs
    <3>3. CASE qhead < 0
      BY <2>4, <3>1, <3>3, <1>m, <1>e DEF PopTest, Step, TakenPcs
    <3>4. CASE qhead >= 0
      <4>1. InOrder /\ qhead <= qtail /\ qhead \in Int /\ qtail \in Int
        BY <3>2, <3>4, <1>f, <1>m, <1>n DEF InOrder
      <4>2. PICK to \in TakenPcs : pc' = [pc EXCEPT ![Main] = to]
        <5>1. ~(qhead < 0)
          BY <3>4, <1>n
        <5>2. pc' = [pc EXCEPT ![Main] = IF qhead = qtail THEN "pop_clear_tail" ELSE "pop_advance"]
          BY <2>4, <5>1 DEF PopTest, Step
        <5>3. (IF qhead = qtail THEN "pop_clear_tail" ELSE "pop_advance") \in TakenPcs
          BY DEF TakenPcs
        <5>4. QED
          BY <5>2, <5>3
      <4>3. taken' = signal_queue[qhead]
        BY <2>4, <3>4, <1>n DEF PopTest
      <4>4. ~(\E b \in Actor : pc[b] = "push_store") /\ ~(\E b \in Actor : pc'[b] = "push_store")
        BY <3>1, <3>2, <4>2, <1>f, <1>m, <1>t DEF TakenPcs
      <4>5. Lo = qhead /\ Lo' = qhead + 1
        BY <3>1, <3>4, <4>1, <4>2, <1>m, <1>t DEF Lo, TakenPcs
      <4>6. Hi = qtail /\ Hi' = qtail
        BY <3>1, <3>4, <4>1, <4>4 DEF Hi
      <4>7. /\ \A n \in qhead .. qtail : signal_queue[n] \in Content
            /\ Waiting = Cells(signal_queue, qhead, qtail)
        BY <4>5, <4>6, <1>t, WaitingIs DEF Content
      <4>8. Waiting' = Cells(signal_queue, qhead + 1, qtail)
        <5>1. TypeOK' => (Waiting = Cells(signal_queue, Lo, Hi))'
          BY WaitingIs, PTL
        <5>2. QED
          BY <5>1, <3>1, <4>5, <4>6, <1>t DEF Cells
      <4>9. /\ Cells(signal_queue, qhead, qtail) # <<>>
            /\ Head(Cells(signal_queue, qhead, qtail)) = signal_queue[qhead]
            /\ Tail(Cells(signal_queue, qhead, qtail)) = Cells(signal_queue, qhead + 1, qtail)
        BY <4>1, <4>7, CellsMove
      <4>10. Buffer!Take
        BY <4>3, <4>7, <4>8, <4>9 DEF Buffer!Take
      <4>11. QED
        BY <4>10 DEF Buffer!Next
    <3>5. QED
      BY <3>3, <3>4, <1>n
  <2>5. CASE PopLast
    <3>1. CASE pc[Main] = "pop_clear_tail"
      <4>1. /\ pc' = [pc EXCEPT ![Main] = "pop_clear_head"]
            /\ qhead' = qhead /\ qtail' = -1 /\ taken' = taken
            /\ qhead >= 0 /\ qtail = qhead
        BY <2>5, <3>1, <1>m, <1>p DEF PopLast, Step, restVars, Position
      <4>2. Lo = qhead + 1 /\ Lo' = qhead /\ Hi <= qhead /\ Hi' <= -1
        BY <4>1, <3>1, <1>n, <1>t, <1>m DEF Lo, Hi, TakenPcs
      <4>3. Hi < Lo /\ Hi' < Lo'
        BY <4>1, <4>2, <1>n, <1>t, WaitingIs DEF Lo, Hi
      <4>4. QED
        BY <4>1, <4>3, <1>t, Stutters
    <3>2. CASE pc[Main] = "pop_clear_head"
      <4>1. /\ pc' = [pc EXCEPT ![Main] = "pop_clear_flag"]
            /\ qhead' = -1 /\ qtail' = qtail /\ taken' = taken
            /\ qhead >= 0 /\ qtail = -1
        BY <2>5, <3>2, <1>m, <1>p DEF PopLast, Step, restVars, Position
      <4>2. Lo >= 0 /\ Hi < 0
        BY <4>1, <1>n DEF Lo, Hi
      <4>3. Lo' = 0 /\ Hi' = -1
        BY <4>1 DEF Lo, Hi
      <4>4. Hi < Lo /\ Hi' < Lo'
        BY <4>2, <4>3, <1>t, WaitingIs
      <4>5. QED
        BY <4>1, <4>4, <1>t, Stutters
    <3>3. CASE pc[Main] = "pop_clear_flag"
      BY <2>5, <3>3, <1>m, <1>e DEF PopLast, Step, restVars, TakenPcs
    <3>4. QED
      BY <2>5, <3>1, <3>2, <3>3 DEF PopLast, Step
  <2>6. CASE PopAdvance
    <3>1. /\ pc[Main] = "pop_advance" /\ pc' = [pc EXCEPT ![Main] = "pop_unblock"]
          /\ qhead' = qhead + 1 /\ qhead >= 0
          /\ qtail' = qtail /\ signal_queue' = signal_queue /\ taken' = taken
      BY <2>6, <1>m, <1>n, <1>p, <1>q DEF PopAdvance, Step, restVars, Position
    <3>2. Lo = qhead + 1 /\ Lo' = qhead + 1
      BY <3>1, <1>m, <1>n, <1>t DEF Lo, TakenPcs
    <3>3. (\E b \in Actor : pc'[b] = "push_store") <=> (\E b \in Actor : pc[b] = "push_store")
      BY <3>1, <1>m, <1>t
    <3>4. Hi' = Hi
      BY <3>1, <3>3, <1>n DEF Hi
    <3>5. QED
      BY <3>1, <3>2, <3>4, <1>t, Stutters
  <2>7. CASE UnblockSignals
    BY <2>7, <1>m, <1>e DEF UnblockSignals, Step, queueVars, TakenPcs
  <2>8. CASE PopUnlock
    BY <2>8, <1>m, <1>e DEF PopUnlock, Step, queueVars, restVars, TakenPcs
  <2>9. CASE Dispatch
    BY <2>9, <1>m, <1>e DEF Dispatch, Step, queueVars, restVars, TakenPcs
  <2>10. QED
    BY <1>4, <2>1, <2>2, <2>3, <2>4, <2>5, <2>6, <2>7, <2>8, <2>9 DEF Pop
<1>5. QED
  BY <1>1, <1>2, <1>3, <1>4 DEF Next

\* The empty queue is the empty buffer.
LEMMA BufferInit == Init => Buffer!Init
<1>1. Init => Waiting = <<>> /\ taken = Sig_none
  BY DEF Init, Waiting, Stored
<1>2. QED
  BY <1>1 DEF Buffer!Init

\* With a real mutex and room for more than one signal the queue implements the buffer:
\* whatever the interleaving of handlers, allocations and the scheduler, no signal is
\* lost, taken twice or taken out of order (signals.c 244-294). With a single cell the
\* macro leaves qtail where it is and a second signal overwrites the first.
THEOREM QueueIsBuffer == ASSUME Mutex, MAXPENDING > 1 PROVE Spec => IsBuffer
<1>1. /\ SyncInv /\ QueueInv /\ (SyncInv /\ QueueInv)' /\ [Next]_vars
        => [Buffer!Next]_<<Waiting, taken>>
  <2>1. ASSUME SyncInv, QueueInv, SyncInv', QueueInv', Next
        PROVE  [Buffer!Next]_<<Waiting, taken>>
    BY <2>1, BufferStep
  <2>2. ASSUME UNCHANGED vars PROVE UNCHANGED <<Waiting, taken>>
    BY <2>2 DEF vars, Waiting, Stored
  <2>3. QED
    BY <2>1, <2>2
<1>2. Init => Buffer!Init
  BY BufferInit
<1>3. QED
  BY <1>1, <1>2, QueueInvariant, PTL DEF Spec, IsBuffer, Buffer!Spec
=============================================================================
