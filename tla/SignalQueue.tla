----------------------------- MODULE SignalQueue -----------------------------
(***************************************************************************)
(* The pending-signal queue of the runtime (core/signals.c) with its three *)
(* kinds of user: the evaluator, which urges a collection from inside an  *)
(* allocation, the scheduler loop (core/schedule.c), which drains the     *)
(* queue, both on the "main" thread, and signal handlers.                 *)
(*                                                                         *)
(* The same C code is built in three ways, chosen by two constants:       *)
(*   Mutex   TRUE: mutex_lock is a real lock (pthreads or Windows), FALSE: *)
(*           the empty functions at the end of core/systhread.c;          *)
(*   Preempt TRUE: a handler interrupts the main thread and runs to its   *)
(*           end on top of it (POSIX), FALSE: it runs in a thread of its  *)
(*           own (ctrl_handler on Windows).                               *)
(*                                                                         *)
(* A step is one access to a shared variable, except that the tests of    *)
(* one "if" and an index with the access through it are one step.         *)
(***************************************************************************)
EXTENDS Integers, Sequences

CONSTANTS
  MAXPENDING,   \* cells of signal_queue
  Slack,        \* words after the array that the model keeps track of
  MaxPush,      \* bound on the calls of push_pending_signal in a behaviour
  Handlers,     \* handler activations that may be live at the same time
  OsSignals,    \* the signals with an installed handler
  Mutex,        \* mutex_lock really locks
  Preempt       \* handlers interrupt the main thread

ASSUME MAXPENDINGAssumption == MAXPENDING \in Nat \ {0}
ASSUME SlackAssumption      == Slack \in Nat
ASSUME MaxPushAssumption    == MaxPush \in Nat /\ MaxPush <= MAXPENDING + Slack
ASSUME BuildAssumption      == Mutex \in BOOLEAN /\ Preempt \in BOOLEAN

Sig_none == "Sig_none"
Sig_gc   == "Sig_gc"
Sig_lost == "Sig_lost"
Sig_fpe  == "Sig_fpe"

Main   == "main"
NoOne  == "no one"
Actor  == {Main} \cup Handlers
Signal == OsSignals \cup {Sig_gc, Sig_lost}

ASSUME NamesAssumption ==
  /\ Main \notin Handlers /\ NoOne \notin Handlers
  /\ OsSignals \cap {Sig_none, Sig_gc, Sig_lost, Sig_fpe} = {}

VARIABLES
  qhead, qtail,       \* indices of the oldest and the newest signal, -1: empty
  signal_queue,       \* the array and the Slack words behind it
  pending,            \* _pending_signal
  force_major_slice,
  owner,              \* holder of qmutex
  blocked,            \* the signals masked on the main thread
  pc,                 \* where each actor is
  sig,                \* its local variable sig
  inc,                \* its register for the new qtail
  running,            \* activations, innermost first (only Main if ~Preempt)
  pushes,             \* calls of push_pending_signal so far
  taken               \* history: the signal popped last

vars == <<qhead, qtail, signal_queue, pending, force_major_slice, owner,
          blocked, pc, sig, inc, running, pushes, taken>>

queueVars == <<qhead, qtail, signal_queue>>
flagVars  == <<pending, force_major_slice>>
restVars  == <<blocked, running, pushes, taken>>

Cell == 0 .. MAXPENDING + Slack - 1

\* (i) + 1 % MAXPENDING: the macro has no parentheses around the sum
Qinc(i) == i + (1 % MAXPENDING)

\* sigaddset is applied to SIGFPE only
SignalsInstalled == {Sig_fpe}

-----------------------------------------------------------------------------
PushPcs == {"push_lock", "push_test", "push_first_tail", "push_first_head",
            "push_inc", "push_tail", "push_store", "push_flag", "push_pending",
            "push_unlock"}
PopPcs  == {"pop_lock", "pop_block", "pop_test", "pop_clear_tail",
            "pop_clear_head", "pop_clear_flag", "pop_advance", "pop_unblock",
            "pop_unlock"}
Pcs == {"idle", "dispatch"} \cup PushPcs \cup PopPcs

InPush(a) == pc[a] \in PushPcs \ {"push_lock"}
InPop(a)  == pc[a] \in PopPcs \ {"pop_lock"}

Init ==
  /\ qhead = -1 /\ qtail = -1
  /\ signal_queue = [i \in Cell |-> Sig_none]
  /\ pending = FALSE
  /\ force_major_slice = 0
  /\ owner = NoOne
  /\ blocked = {}
  /\ pc  = [a \in Actor |-> "idle"]
  /\ sig = [a \in Actor |-> Sig_none]
  /\ inc = [a \in Actor |-> 0]
  /\ running = <<Main>>
  /\ pushes = 0
  /\ taken = Sig_none

\* An interrupted activation waits for the handlers on top of it.
CanStep(a) == Preempt => a = Head(running)

Step(a, from, to) ==
  /\ CanStep(a)
  /\ pc[a] = from
  /\ pc' = [pc EXCEPT ![a] = to]

-----------------------------------------------------------------------------
(* Entering and leaving                                                    *)

\* allocation on the main thread calls urge_major_slice
UrgeMajorSlice ==
  /\ pushes < MaxPush
  /\ Step(Main, "idle", "push_lock")
  /\ sig' = [sig EXCEPT ![Main] = Sig_gc]
  /\ pushes' = pushes + 1
  /\ UNCHANGED <<queueVars, flagVars, owner, blocked, inc, running, taken>>

\* The system delivers s: handle_signal on top of the main thread (a signal
\* is blocked while its own handler runs), or ctrl_handler in its thread.
HandleSignal(h, s) ==
  /\ pushes < MaxPush
  /\ pc[h] = "idle"
  /\ Preempt => /\ s \notin blocked
                /\ \A g \in Handlers : pc[g] # "idle" => sig[g] # s
  /\ pc'  = [pc EXCEPT ![h] = "push_lock"]
  /\ sig' = [sig EXCEPT ![h] = s]
  /\ running' = IF Preempt THEN <<h>> \o running ELSE running
  /\ pushes' = pushes + 1
  /\ UNCHANGED <<queueVars, flagVars, owner, blocked, inc, taken>>

-----------------------------------------------------------------------------
(* push_pending_signal, by any actor                                       *)

\* mutant: the lock is taken without waiting for its holder
MutexLockBarges(a, from, to) ==
  /\ Step(a, from, to)
  /\ owner' = a
  /\ UNCHANGED <<queueVars, flagVars, sig, inc, restVars>>

MutexLock(a, from, to) ==
  /\ Step(a, from, to)
  /\ IF Mutex THEN owner = NoOne /\ owner' = a ELSE owner' = owner
  /\ UNCHANGED <<queueVars, flagVars, sig, inc, restVars>>

MutexUnlock == owner' = IF Mutex THEN NoOne ELSE owner

PushLock(a) == MutexLock(a, "push_lock", "push_test")

PushTest(a) ==
  /\ Step(a, "push_test",
          IF qhead < 0 THEN "push_first_tail"
          ELSE IF Qinc(qtail) = qhead THEN "push_store" ELSE "push_inc")
  /\ sig' = [sig EXCEPT ![a] = IF qhead >= 0 /\ Qinc(qtail) = qhead
                               THEN Sig_lost ELSE @]
  /\ UNCHANGED <<queueVars, flagVars, owner, inc, restVars>>

PushFirst(a) ==
  /\ \/ /\ Step(a, "push_first_tail", "push_first_head")
        /\ qtail' = 0
        /\ UNCHANGED qhead
     \/ /\ Step(a, "push_first_head", "push_store")
        /\ qhead' = 0
        /\ UNCHANGED qtail
  /\ UNCHANGED <<signal_queue, flagVars, owner, sig, inc, restVars>>

PushInc(a) ==
  /\ \/ /\ Step(a, "push_inc", "push_tail")
        /\ inc' = [inc EXCEPT ![a] = Qinc(qtail)]
        /\ UNCHANGED qtail
     \/ /\ Step(a, "push_tail", "push_store")
        /\ qtail' = inc[a]
        /\ UNCHANGED inc
  /\ UNCHANGED <<qhead, signal_queue, flagVars, owner, sig, restVars>>

\* qtail = -1 can be read here without a lock: the word before the array is
\* not one the model looks at
PushStore(a) ==
  /\ Step(a, "push_store", "push_flag")
  /\ signal_queue' = IF qtail \in Cell
                     THEN [signal_queue EXCEPT ![qtail] = sig[a]]
                     ELSE signal_queue
  /\ UNCHANGED <<qhead, qtail, flagVars, owner, sig, inc, restVars>>

PushFlag(a) ==
  /\ \/ /\ Step(a, "push_flag", "push_pending")
        /\ force_major_slice' = IF sig[a] = Sig_gc THEN 1 ELSE force_major_slice
        /\ UNCHANGED pending
     \/ /\ Step(a, "push_pending", "push_unlock")
        /\ pending' = TRUE
        /\ UNCHANGED force_major_slice
  /\ UNCHANGED <<queueVars, owner, sig, inc, restVars>>

\* unlock and return: a handler activation ends here
PushUnlock(a) ==
  /\ Step(a, "push_unlock", "idle")
  /\ MutexUnlock
  /\ sig' = [sig EXCEPT ![a] = Sig_none]
  /\ inc' = [inc EXCEPT ![a] = 0]
  /\ running' = IF Preempt /\ a # Main THEN Tail(running) ELSE running
  /\ UNCHANGED <<queueVars, flagVars, blocked, pushes, taken>>

-----------------------------------------------------------------------------
(* The scheduler: while (pending_signal()) { pop_pending_signal(); ... }   *)

CheckPending ==
  /\ pending
  /\ Step(Main, "idle", "pop_lock")
  /\ UNCHANGED <<queueVars, flagVars, owner, sig, inc, restVars>>

PopLock == MutexLock(Main, "pop_lock", "pop_block")

BlockSignals ==
  /\ Step(Main, "pop_block", "pop_test")
  /\ blocked' = SignalsInstalled
  /\ UNCHANGED <<queueVars, flagVars, owner, sig, inc, running, pushes, taken>>

PopTest ==
  /\ Step(Main, "pop_test",
          IF qhead < 0 THEN "pop_unblock"
          ELSE IF qhead = qtail THEN "pop_clear_tail" ELSE "pop_advance")
  /\ sig' = [sig EXCEPT ![Main] = IF qhead < 0 THEN Sig_none
                                  ELSE signal_queue[qhead]]
  /\ taken' = IF qhead < 0 THEN taken ELSE signal_queue[qhead]
  /\ UNCHANGED <<queueVars, flagVars, owner, inc, blocked, running, pushes>>

\* qhead = qtail = -1; _pending_signal = false
PopLast ==
  /\ \/ /\ Step(Main, "pop_clear_tail", "pop_clear_head")
        /\ qtail' = -1
        /\ UNCHANGED <<qhead, pending>>
     \/ /\ Step(Main, "pop_clear_head", "pop_clear_flag")
        /\ qhead' = -1
        /\ UNCHANGED <<qtail, pending>>
     \/ /\ Step(Main, "pop_clear_flag", "pop_unblock")
        /\ pending' = FALSE
        /\ UNCHANGED <<qhead, qtail>>
  /\ UNCHANGED <<signal_queue, force_major_slice, owner, sig, inc, restVars>>

\* mutant: every pop clears the flag, not only the last one
PopAdvanceClears ==
  /\ Step(Main, "pop_advance", "pop_unblock")
  /\ qhead' = Qinc(qhead)
  /\ pending' = FALSE
  /\ UNCHANGED <<qtail, signal_queue, force_major_slice, owner, sig, inc,
                 restVars>>

PopAdvance ==
  /\ Step(Main, "pop_advance", "pop_unblock")
  /\ qhead' = Qinc(qhead)
  /\ UNCHANGED <<qtail, signal_queue, flagVars, owner, sig, inc, restVars>>

UnblockSignals ==
  /\ Step(Main, "pop_unblock", "pop_unlock")
  /\ blocked' = {}
  /\ UNCHANGED <<queueVars, flagVars, owner, sig, inc, running, pushes, taken>>

PopUnlock ==
  /\ Step(Main, "pop_unlock", "dispatch")
  /\ MutexUnlock
  /\ UNCHANGED <<queueVars, flagVars, sig, inc, restVars>>

\* mutant: the collection does not answer the urge
DispatchForgets ==
  /\ Step(Main, "dispatch", "idle")
  /\ sig' = [sig EXCEPT ![Main] = Sig_none]
  /\ UNCHANGED <<queueVars, flagVars, owner, inc, restVars>>

\* switch(sig): a collection ends by clearing force_major_slice, any other
\* signal is raised in its thread; then the loop tests pending_signal again
Dispatch ==
  /\ Step(Main, "dispatch", "idle")
  /\ force_major_slice' = IF sig[Main] = Sig_gc THEN 0 ELSE force_major_slice
  /\ sig' = [sig EXCEPT ![Main] = Sig_none]
  /\ UNCHANGED <<queueVars, pending, owner, inc, restVars>>

-----------------------------------------------------------------------------
Push(a) == \/ PushLock(a) \/ PushTest(a) \/ PushFirst(a) \/ PushInc(a)
           \/ PushStore(a) \/ PushFlag(a) \/ PushUnlock(a)

Pop == \/ CheckPending \/ PopLock \/ BlockSignals \/ PopTest \/ PopLast
       \/ PopAdvance \/ UnblockSignals \/ PopUnlock \/ Dispatch

Next == \/ UrgeMajorSlice
        \/ \E h \in Handlers, s \in OsSignals : HandleSignal(h, s)
        \/ \E a \in Actor : Push(a)
        \/ Pop

Spec == Init /\ [][Next]_vars

\* Threads and handlers are scheduled by the operating system, and the main
\* thread comes back to a signal check: ARGCHK, RETURN and RETURNCON have one.
Fairness == WF_vars(Pop) /\ \A a \in Actor : WF_vars(Push(a))

FairSpec == Spec /\ Fairness

-----------------------------------------------------------------------------
(* Properties                                                              *)

\* The variables of signals.c have their types; the indices stay in the memory that
\* belongs to the queue.
TypeOK ==
  /\ qhead \in -1 .. MAXPENDING + Slack - 1
  /\ qtail \in -1 .. MAXPENDING + Slack - 1
  /\ signal_queue \in [Cell -> Signal \cup {Sig_none}]
  /\ pending \in BOOLEAN
  /\ force_major_slice \in {0, 1}
  /\ owner \in Actor \cup {NoOne}
  /\ blocked \subseteq SignalsInstalled
  /\ pc \in [Actor -> Pcs]
  /\ sig \in [Actor -> Signal \cup {Sig_none}]
  /\ inc \in [Actor -> 0 .. MAXPENDING + Slack]
  /\ running \in Seq(Actor)
  /\ pushes \in 0 .. MaxPush
  /\ taken \in Signal \cup {Sig_none}

\* Outside push and pop the flag that the evaluator polls is set exactly when
\* a signal waits: a signal without the flag is never seen, and a flag without
\* a signal makes the scheduler loop (signals.c 244-294).
PendingInSync ==
  (\A a \in Actor : ~InPush(a) /\ ~InPop(a)) => (pending <=> qhead >= 0)

\* The queue as the scheduler sees it: the cells from qhead to qtail, without
\* the newest while its signal is not stored yet and without the oldest once
\* pop has read it.
Stored == IF qhead < 0 \/ qtail < qhead THEN <<>>
          ELSE [i \in 1 .. qtail - qhead + 1 |-> signal_queue[qhead + i - 1]]

Waiting ==
  IF Stored = <<>> THEN <<>>
  ELSE SubSeq(Stored,
              IF pc[Main] \in {"pop_clear_tail", "pop_advance"} THEN 2 ELSE 1,
              IF \E a \in Actor : pc[a] = "push_store" THEN Len(Stored) - 1
              ELSE Len(Stored))

Buffer == INSTANCE SignalBuffer
          WITH buf <- Waiting, taken <- taken, NoSignal <- Sig_none

\* No signal is lost, duplicated or taken out of order, whatever the
\* interleaving of the pushes with each other and with the pop.
IsBuffer == Buffer!Spec

\* A signal that reaches its handler is eventually dispatched by the scheduler
\* (schedule.c 36-48): the flag and the queue never disagree for good.
SignalDispatched ==
  \A s \in OsSignals :
    (\E h \in Handlers : pc[h] = "push_lock" /\ sig[h] = s)
      ~> (pc[Main] = "dispatch" /\ sig[Main] = s)

\* An urged collection is eventually run (urge_major_slice, signals.c 311-314).
UrgeAnswered == (force_major_slice = 1) ~> (force_major_slice = 0)

\* The comments of push_pending_signal ("buffer is full", "buffer has still
\* room", signals.c 254-258): the newest signal is in a cell of the array.
InBounds == qtail < MAXPENDING
=============================================================================
