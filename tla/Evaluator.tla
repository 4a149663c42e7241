------------------------------ MODULE Evaluator ------------------------------
(***************************************************************************)
(* The abstract machine: the evaluator (core/evaluator.c), the frames on  *)
(* the stack of a thread (core/stack.c, core/thread.c), the blocks it     *)
(* updates (heap/heapfast.h) and the scheduler loop (core/schedule.c).    *)
(*                                                                         *)
(* An action is one instruction, or one turn of the loops in ENTER,       *)
(* ARGCHK, RETURN and RETURNCON, or one frame of the recovery from an     *)
(* exception.  Signals arrive, and a minor collection runs where the code *)
(* allocates, between any two of them.                                    *)
(*                                                                         *)
(* The stack is a sequence that grows to the right: C's sp[k] is Top(k),  *)
(* and sp, fp are positions.  The memory above sp is kept as far as fp,   *)
(* because the code may go on reading frames it has popped.  Going up, a  *)
(* frame is its value, the distance to the frame below and its kind.      *)
(***************************************************************************)
EXTENDS Integers, Sequences, SequencesExt

CONSTANTS
  Scenarios,    \* what may be run, and with which bounds
  Cafs,         \* the names of arity 0, as a sequence: each has a Caf block
  Externs,      \* from the name of an extern to [arity, result]
  ConMaxTag,    \* Con_max_tag (mlvalues.h 241)
  WordBits,     \* the bits of a long: 8 * sizeof(value)
  StackThreshold   \* the words that may be pushed without a check of the stack

ASSUME SizeAssumption ==
  /\ ConMaxTag \in Nat \ {0}
  /\ StackThreshold \in Nat
  /\ WordBits \in Nat /\ WordBits >= 4 /\ WordBits % 2 = 0

\* main is the name that is evaluated, code maps the name of a function to its
\* instructions, init and max are the sizes of the stack in words, and at most bound
\* signals arrive, of these kinds.
ASSUME ScenarioAssumption ==
  \A s \in Scenarios :
    /\ s.main \in DOMAIN s.code
    /\ {s.init, s.max, s.bound} \subseteq Nat /\ s.init <= s.max
    /\ s.kinds \subseteq {"yield", "gc", "int"}

VARIABLES
  heap,     \* the blocks: [tag, con, f]
  old,      \* the blocks 1 .. old are in the major heap
  stack, sp, fp,
  size,     \* words of the stack
  pc,       \* <<function, index>>
  label,    \* where in evaluate() or schedule() the machine is
  accu,     \* the register of RETURN, or the constructor of RETURNCON
  rsp,      \* the stack pointer of recover_asynchronous
  signals,  \* pending signals
  sent,     \* how many have arrived
  scenario

vars == <<heap, old, stack, sp, fp, size, pc, label, accu, rsp, signals, sent, scenario>>

main     == scenario.main          \* the name given to evaluate_name
code     == scenario.code          \* the instructions that the loader has read
StackMax == scenario.max

-----------------------------------------------------------------------------
(* Words and blocks                                                         *)

ValInt(i)    == <<"int", i>>
CodeAt(g, i) == <<"code", g, i>>
Ref(a)       == <<"ref", a>>
Atom(t)      == <<"atom", t>>
Frame(k)     == <<"frame", k>>
Null         == <<"null">>
Opaque       == <<"opaque">>      \* a string
Moved        == <<"moved">>       \* in accu: the thunk to update is elsewhere now

Block(tag, con, f) == [tag |-> tag, con |-> con, f |-> f]

\* Alloc_con: a tag that does not fit in a header is kept in an extra field
ConBlock(contag, f) ==
  IF contag >= ConMaxTag THEN Block("Con", ConMaxTag, Append(f, ValInt(contag)))
                         ELSE Block("Con", contag, f)

IsRef(w)  == w[1] = "ref"
BlockOf(w) == heap[w[2]]
Tagged(w, tags) == IsRef(w) /\ BlockOf(w).tag \in tags

\* Is_long(w) || Tag_val(w) <= Con_max_tag || Tag_val(w) > Abstract_tag
Whnf(w) == \/ w[1] \in {"int", "opaque"}
           \/ w[1] = "atom" /\ w[2] <= ConMaxTag
           \/ Tagged(w, {"Con"})

\* Con_tag_val.  The field before an atom's first one is its header: the tag,
\* with size and color 0.
ContagOf(w) ==
  IF w[1] = "atom" THEN IF w[2] = ConMaxTag THEN ConMaxTag \div 2 ELSE w[2]
  ELSE LET b == BlockOf(w) IN IF b.con = ConMaxTag THEN Last(b.f)[2] ELSE b.con

\* the fields without the extra one: Fsize_val
FieldsOf(w) ==
  IF w[1] = "atom" THEN <<>>
  ELSE LET b == BlockOf(w) IN IF b.con = ConMaxTag THEN Front(b.f) ELSE b.f

NewRef == Ref(Len(heap) + 1)

\* mutant: the large tag is forgotten when there are no fields
AllocConSmall(contag, f) ==
  IF f = <<>> THEN [heap |-> heap, ref |-> Atom(contag)]
  ELSE [heap |-> Append(heap, ConBlock(contag, f)), ref |-> NewRef]

\* Allocate of a constructor: without fields it is an atom
AllocCon(contag, f) ==
  IF f = <<>> /\ contag < ConMaxTag
  THEN [heap |-> heap, ref |-> Atom(contag)]
  ELSE [heap |-> Append(heap, ConBlock(contag, f)), ref |-> NewRef]

-----------------------------------------------------------------------------
(* Updates.  h is a heap, v the address of the block to overwrite.          *)

\* mutant: the other way round
IndirectedSwapped(h, v, w) ==
  [h EXCEPT ![IF IsRef(w) THEN w[2] ELSE v] = Block("Ind", 0, <<Ref(v)>>)]

\* Indirect: truncates the block to its first field
Indirected(h, v, w) == [h EXCEPT ![v] = Block("Ind", 0, <<w>>)]

\* Update: a block that fits is copied over the updated one
Updated(v, w) ==
  IF IsRef(w) /\ Len(BlockOf(w).f) <= Len(heap[v].f) /\ BlockOf(w).f # <<>>
  THEN [heap EXCEPT ![v] = BlockOf(w)]
  ELSE Indirected(heap, v, w)

Fits(v, b) == Len(b.f) <= Len(heap[v].f)

\* Update_alloc: the new block takes the place of v, or is allocated and v
\* becomes an indirection to it
UpdateAlloc(v, b) ==
  IF Fits(v, b) THEN [heap |-> [heap EXCEPT ![v] = b], ref |-> Ref(v)]
  ELSE [heap |-> Indirected(Append(heap, b), v, NewRef), ref |-> NewRef]

-----------------------------------------------------------------------------
(* The stack                                                                *)

Top(k)  == stack[sp - k]
Live    == SubSeq(stack, 1, sp)
Drop(n) == SubSeq(stack, 1, sp - n)
Args(n) == [k \in 1 .. n |-> Top(k - 1)]
Above(k) == SubSeq(stack, k + 1, sp)

\* the new stack pointer and frame pointer
Put(live, f) ==
  /\ sp' = Len(live)
  /\ fp' = f
  /\ stack' = live \o SubSeq(stack, Len(live) + 1, f)

KindAt(i)  == stack[i][2]
NextOf(i)  == i - stack[i - 1][2]       \* Frame_next
Value      == stack[fp - 2]             \* Frame_value(fp)
Kind       == KindAt(fp)
FrameNext  == NextOf(fp)
Below      == SubSeq(stack, 1, fp - 3)  \* what is under the frame at fp

\* Push_frame: the value of the frame is the top of the stack
PushFrame(live, kind) == live \o <<ValInt(Len(live) + 2 - fp), Frame(kind)>>

\* the positions of the frames from f to the stop frame
FramesFrom(f) ==
  LET fr[i \in 1 .. f] == IF KindAt(i) = "stop" THEN {i} ELSE {i} \cup fr[NextOf(i)]
  IN fr[f]

\* the first frame from f that is not a continuation
SkipConts(f) ==
  LET s[i \in 1 .. f] == IF KindAt(i) = "cont" THEN s[NextOf(i)] ELSE i
  IN s[f]

Updates(f) == {stack[i - 2] : i \in {j \in FramesFrom(f) : KindAt(j) = "update"}}

\* lazy_blackhole: the arguments of an Ap that is being evaluated are erased
Blackholed(f) ==
  [a \in DOMAIN heap |->
     IF Ref(a) \in Updates(f) /\ heap[a].tag = "Ap"
     THEN Block("Inv", 0, [k \in DOMAIN heap[a].f |-> Null])
     ELSE IF Ref(a) \in Updates(f) /\ heap[a].tag = "Caf"
     THEN Block("Inv", 0, heap[a].f)
     ELSE heap[a]]

-----------------------------------------------------------------------------
(* The minor collector, as the machine sees it: oldify_one replaces a      *)
(* pointer to a young indirection by what the indirection points to, and    *)
(* all the blocks that survive are old.                                     *)

Forwarded(h, w) ==
  LET fwd[a \in DOMAIN h] ==
        IF a > old /\ h[a].tag = "Ind"
        THEN IF IsRef(h[a].f[1]) THEN fwd[h[a].f[1][2]] ELSE h[a].f[1]
        ELSE Ref(a)
  IN IF IsRef(w) THEN fwd[w[2]] ELSE w

CollectedHeap(h) ==
  [a \in DOMAIN h |->
     [h[a] EXCEPT !.f = [k \in DOMAIN h[a].f |-> Forwarded(h, h[a].f[k])]]]

CollectedStack(h, s) == [i \in DOMAIN s |-> Forwarded(h, s[i])]

-----------------------------------------------------------------------------
(* The loader and the scheduler                                             *)

CafOf(g) == Ref(CHOOSE a \in DOMAIN Cafs : Cafs[a] = g)

\* thread_new: a stop frame, and the value to enter
Init ==
  /\ scenario \in Scenarios
  /\ heap = [a \in DOMAIN Cafs |-> Block("Caf", 0, <<CodeAt(Cafs[a], 1)>>)]
  /\ old = Len(Cafs)
  /\ stack = <<Frame("stop"), CafOf(main)>>
  /\ sp = 2 /\ fp = 1
  /\ size = scenario.init
  /\ pc = <<main, 1>>
  /\ label = "schedule"
  /\ accu = Null
  /\ rsp = 0
  /\ signals = <<>>
  /\ sent = 0

mem   == <<heap, old>>
regs  == <<accu, rsp>>
world == <<size, signals, sent, scenario>>

\* a signal arrives (signals.c)
Signal ==
  /\ sent < scenario.bound
  /\ label \notin {"complete", "exception", "fatal", "corrupt"}
  /\ \E k \in scenario.kinds : signals' = Append(signals, k)
  /\ sent' = sent + 1
  /\ UNCHANGED <<heap, old, stack, sp, fp, size, pc, label, accu, rsp, scenario>>

Pending == signals # <<>>

\* Exn_async_signal in a Raise block on top of the stack: schedule_signal_handler
PushException ==
  /\ heap' = heap \o <<Block("Con", 2, <<Opaque>>), Block("Raise", 0, <<NewRef>>)>>
  /\ Put(Append(Live, Ref(Len(heap) + 2)), fp)
  /\ UNCHANGED old

\* mutant: the signal stays pending
ScheduleKeeps ==
  /\ label = "schedule"
  /\ Pending
  /\ UNCHANGED vars

\* schedule: the pending signals first
Schedule ==
  /\ label = "schedule"
  /\ Pending
  /\ signals' = Tail(signals)
  /\ CASE Head(signals) = "int" -> PushException
       [] Head(signals) = "gc" ->
            /\ heap' = CollectedHeap(heap)
            /\ old' = Len(heap)
            /\ stack' = CollectedStack(heap, stack)
            /\ UNCHANGED <<sp, fp>>
       [] OTHER -> UNCHANGED <<heap, old, stack, sp, fp>>
  /\ UNCHANGED <<size, pc, label, accu, rsp, sent, scenario>>

\* evaluate: the fatal error "corrupted stack -- (%sp >= %fp) on enter"
Evaluate ==
  /\ label = "schedule"
  /\ ~Pending
  /\ label' = IF sp <= fp THEN "fatal" ELSE "enter"
  /\ UNCHANGED <<heap, old, stack, sp, fp, pc, accu, rsp>>
  /\ UNCHANGED world

\* Return: the registers are saved and the computation is blackholed
Return(live, f, result) ==
  /\ Put(live, f)
  /\ heap' = Blackholed(f)
  /\ label' = result
  /\ UNCHANGED <<old, pc, accu, rsp>>
  /\ UNCHANGED world

-----------------------------------------------------------------------------
(* Safe points.  What Safe_check pushes before it returns to the scheduler *)
(* is nothing in the loop of ENTER, and the code pointer elsewhere.         *)

Checks == {"check enter", "check code", "check args"}

AfterCheck == CASE label = "check enter" -> "enter"
                [] label = "check code"  -> "fetch"
                [] label = "check args"  -> "argchk"

\* Exn_async_stack_overflow and the others: raise_exn_1
RaiseExn(live, h, b) ==
  /\ heap' = Append(h, b)
  /\ Put(Append(live, Ref(Len(h) + 1)), fp)
  /\ label' = "raise"
  /\ UNCHANGED <<old, pc, accu, rsp>>
  /\ UNCHANGED world

RaiseRuntime(live, k) ==
  RaiseExn(live, Append(heap, Block("Con", k, <<Opaque>>)), Block("Con", 3, <<NewRef>>))

RaiseArithmetic(live, k) == RaiseExn(live, heap, Block("Con", 4, <<Atom(k)>>))

\* mutant: where to go on is not saved
YieldForgets ==
  /\ label \in Checks
  /\ Pending
  /\ Return(Live, fp, "schedule")

Yield ==
  /\ label \in Checks
  /\ Pending
  /\ Return(IF label = "check enter" THEN Live ELSE Append(Live, CodeAt(pc[1], 1)),
            fp, "schedule")

\* mutant: no margin
OverflowsLate == sp > size

Overflows == sp > size - StackThreshold

\* mutant: the limit is not applied
GrowStackFully ==
  /\ label \in Checks
  /\ ~Pending /\ Overflows
  /\ size < StackMax
  /\ size' = 2 * size
  /\ heap' = Blackholed(fp)
  /\ label' = AfterCheck
  /\ UNCHANGED <<old, stack, sp, fp, pc, accu, rsp, signals, sent, scenario>>

\* thread_grow_stack
GrowStack ==
  /\ label \in Checks
  /\ ~Pending /\ Overflows
  /\ size < StackMax
  /\ size' = IF 2 * size > StackMax THEN StackMax ELSE 2 * size
  /\ heap' = Blackholed(fp)
  /\ label' = AfterCheck
  /\ UNCHANGED <<old, stack, sp, fp, pc, accu, rsp, signals, sent, scenario>>

StackOverflow ==
  /\ label \in Checks
  /\ ~Pending /\ Overflows
  /\ size >= StackMax
  /\ RaiseExn(Live, Blackholed(fp), Block("Con", 1, <<ValInt(0)>>))

Safe ==
  /\ label \in Checks
  /\ ~Pending /\ ~Overflows
  /\ label' = AfterCheck
  /\ UNCHANGED <<heap, old, stack, sp, fp, pc, accu, rsp>>
  /\ UNCHANGED world

-----------------------------------------------------------------------------
(* Instructions                                                             *)

\* the one-word forms of frequent instructions do what the long forms do
LongForm ==
  [PUSHVAR0 |-> <<"PUSHVAR", 0>>, PUSHVAR1 |-> <<"PUSHVAR", 1>>,
   PUSHVAR2 |-> <<"PUSHVAR", 2>>, PUSHVAR3 |-> <<"PUSHVAR", 3>>,
   PUSHVAR4 |-> <<"PUSHVAR", 4>>,
   NEWAP1 |-> <<"NEWAP", 1>>, NEWAP2 |-> <<"NEWAP", 2>>, NEWAP3 |-> <<"NEWAP", 3>>,
   NEWAP4 |-> <<"NEWAP", 4>>,
   NEWNAP1 |-> <<"NEWNAP", 1>>, NEWNAP2 |-> <<"NEWNAP", 2>>, NEWNAP3 |-> <<"NEWNAP", 3>>,
   NEWNAP4 |-> <<"NEWNAP", 4>>]

NewconArity == [NEWCON0 |-> 0, NEWCON1 |-> 1, NEWCON2 |-> 2, NEWCON3 |-> 3]

InstrAt(p) ==
  LET i == code[p[1]][p[2]]
  IN IF i[1] \in DOMAIN LongForm THEN LongForm[i[1]]
     ELSE IF i[1] \in DOMAIN NewconArity THEN <<"NEWCON", i[2], NewconArity[i[1]]>>
     ELSE i

Instr == InstrAt(pc)

\* the position that is ofs instructions from p
Jump(p, ofs) == <<p[1], p[2] + ofs>>

At(name) == label = "fetch" /\ Instr[1] = name

\* go on with the next instruction
Continue(live) ==
  /\ Put(live, fp)
  /\ pc' = Jump(pc, 1)
  /\ UNCHANGED <<label, accu, rsp>>
  /\ UNCHANGED world

\* the same, with a new block that n words are popped for
Build(n, new) ==
  /\ heap' = new.heap
  /\ Continue(Append(Drop(n), new.ref))
  /\ UNCHANGED old

NewBlock(b) == [heap |-> Append(heap, b), ref |-> NewRef]

\* go to a label and a position with the stack live and the frame pointer f
Goto(l, live, f, p) ==
  /\ Put(live, f)
  /\ pc' = p
  /\ label' = l
  /\ UNCHANGED rsp
  /\ UNCHANGED world

\* the same, with the heap and accu as they are
Step(l, live, f, p) == Goto(l, live, f, p) /\ UNCHANGED <<heap, old, accu>>

PushVar ==
  \/ /\ At("PUSHVAR")
     /\ Continue(Append(Live, Top(Instr[2])))
     /\ UNCHANGED mem
  \/ /\ At("PUSHVARS2")
     /\ LET one == Append(Live, Top(Instr[2]))
        IN Continue(Append(one, one[Len(one) - Instr[3]]))
     /\ UNCHANGED mem

\* the loader has made a PUSHCAF of a PUSHCODE of a value of arity 0
PushConst ==
  /\ \/ At("PUSHINT") /\ Continue(Append(Live, ValInt(Instr[2])))
     \/ /\ At("PUSHCODE")
        /\ LET g == Instr[2]
           IN Continue(Append(Live, IF g \in ToSet(Cafs) THEN CafOf(g) ELSE CodeAt(g, 1)))
  /\ UNCHANGED mem

PushCont ==
  /\ At("PUSHCONT")
  /\ LET next == Jump(pc, 1 + Instr[2])
     IN Goto("fetch", PushFrame(Append(Live, CodeAt(next[1], next[2])), "cont"),
             sp + 3, Jump(pc, 1))
  /\ UNCHANGED <<heap, old, accu>>

\* mutant: one word too many
SlideMore ==
  /\ At("SLIDE")
  /\ Continue(SubSeq(stack, 1, sp - Instr[2] - Instr[3] - 1) \o Above(sp - Instr[2]))
  /\ UNCHANGED mem

Slide ==
  /\ At("SLIDE")
  /\ Continue(SubSeq(stack, 1, sp - Instr[2] - Instr[3]) \o Above(sp - Instr[2]))
  /\ UNCHANGED mem

-----------------------------------------------------------------------------
(* Application nodes and constructors                                       *)

\* mutant: the block looks like a thunk before it is filled
AllocApReady ==
  /\ At("ALLOCAP")
  /\ Build(0, NewBlock(Block("Ap", 0, [k \in 1 .. Instr[2] |-> Null])))

AllocAp ==
  /\ At("ALLOCAP")
  /\ Build(0, NewBlock(Block("Inv", 0, [k \in 1 .. Instr[2] |-> Null])))

\* PACKAP, PACKNAP: fill a block that was allocated for a recursive binding
PackAp ==
  /\ label = "fetch" /\ Instr[1] \in {"PACKAP", "PACKNAP"}
  /\ LET a == Top(Instr[2])[2]
     IN heap' = [heap EXCEPT ![a] =
                   Block(IF Instr[1] = "PACKAP" THEN "Ap" ELSE "Nap", 0, Args(Instr[3]))]
  /\ Continue(Drop(Instr[3]))
  /\ UNCHANGED old

NewAp ==
  /\ label = "fetch" /\ Instr[1] \in {"NEWAP", "NEWNAP"}
  /\ Build(Instr[2], NewBlock(Block(IF Instr[1] = "NEWAP" THEN "Ap" ELSE "Nap", 0,
                                    Args(Instr[2]))))

NewCon ==
  /\ At("NEWCON")
  /\ Build(Instr[3], AllocCon(Instr[2], Args(Instr[3])))

\* the tag is on top of the stack
New ==
  /\ At("NEW")
  /\ Build(Instr[2] + 1, AllocCon(Top(0)[2], SubSeq(Args(Instr[2] + 1), 2, Instr[2] + 1)))

Nulls(n) == [k \in 1 .. n |-> Null]

\* ALLOCCON, and ALLOC with the tag and the size on the stack
AllocConstr ==
  \/ At("ALLOCCON") /\ Build(0, AllocCon(Instr[2], Nulls(Instr[3])))
  \/ At("ALLOC")    /\ Build(2, AllocCon(Top(0)[2], Nulls(Top(1)[2])))

\* PACKCON ofs n and PACK n ofs store the n top words in the constructor
PackCon ==
  /\ label = "fetch" /\ Instr[1] \in {"PACKCON", "PACK"}
  /\ LET n == IF Instr[1] = "PACKCON" THEN Instr[3] ELSE Instr[2]
         c == Top(IF Instr[1] = "PACKCON" THEN Instr[2] ELSE Instr[3])
     IN /\ heap' = IF n = 0 THEN heap
                   ELSE [heap EXCEPT ![c[2]].f = Args(n) \o SubSeq(@, n + 1, Len(@))]
        /\ Continue(Drop(n))
  /\ UNCHANGED old

OutOfBounds == 2

GetField ==
  /\ At("GETFIELD")
  /\ LET f == FieldsOf(Top(0))
         i == Top(1)[2]
     IN IF i \in 0 .. Len(f) - 1
        THEN Continue(Append(Drop(2), f[i + 1])) /\ UNCHANGED mem
        ELSE RaiseRuntime(Live, OutOfBounds)

UpdField ==
  /\ At("UPDFIELD")
  /\ LET i == Top(0)[2]
         v == Top(2)
     IN IF i \in 0 .. Len(FieldsOf(v)) - 1
        THEN /\ heap' = [heap EXCEPT ![v[2]].f[i + 1] = Top(1)]
             /\ Continue(Append(Drop(3), v))
             /\ UNCHANGED old
        ELSE RaiseRuntime(Live, OutOfBounds)

\* the tag and the size in the header
Inspect ==
  /\ \/ /\ At("GETTAG")
        /\ Continue(Append(Drop(1), ValInt(IF IsRef(Top(0)) THEN BlockOf(Top(0)).con ELSE Top(0)[2])))
     \/ /\ At("GETSIZE")
        /\ Continue(Append(Drop(1), ValInt(IF IsRef(Top(0)) THEN Len(BlockOf(Top(0)).f) ELSE 0)))
  /\ UNCHANGED mem

-----------------------------------------------------------------------------
(* Integers                                                                 *)

IntZeroDivide == 6
IntOverflow  == 7
IntUnderflow == 8

\* The values are the longs of one bit less.
MaxLong == 2^(WordBits - 2) - 1
MinLong == -(2^(WordBits - 2))

\* a value is bounded after the operand is popped
Bounded(r) ==
  IF r > MaxLong THEN RaiseArithmetic(Drop(1), IntOverflow)
  ELSE IF r < MinLong THEN RaiseArithmetic(Drop(1), IntUnderflow)
  ELSE Continue(Append(Drop(2), ValInt(r))) /\ UNCHANGED mem

Arithmetic ==
  \/ At("ADDINT") /\ Bounded(Top(0)[2] + Top(1)[2])
  \/ At("SUBINT") /\ Bounded(Top(0)[2] - Top(1)[2])

MaxHalfLong == MaxLong \div 2^(WordBits \div 2)
AsLong(i)   == ((i + 2^(WordBits - 1)) % 2^WordBits) - 2^(WordBits - 1)

\* The product is a long, which is tested when an operand is beyond MaxHalfLong.  The
\* test divides the product: a compiler that assumes that no long overflows, as that of
\* the Makefile with -O2, leaves it out.
Multiply ==
  /\ At("MULINT")
  /\ LET x == Top(0)[2]
         y == Top(1)[2]
         r == AsLong(x * y)
         Tested == (x > MaxHalfLong \/ y > MaxHalfLong) /\ r # x * y
     IN \/ Tested /\ RaiseArithmetic(Drop(1), IF (x > 0) = (y > 0) THEN IntOverflow ELSE IntUnderflow)
        \/ Bounded(r)

Negate ==
  /\ At("NEGINT")
  /\ LET i == -Top(0)[2]
     IN IF i > MaxLong THEN RaiseArithmetic(Live, IntOverflow)
        ELSE IF i < MinLong THEN RaiseArithmetic(Live, IntUnderflow)
        ELSE Continue(Append(Drop(1), ValInt(i))) /\ UNCHANGED mem

\* / and % of C, and Val_long, which drops the bit that does not fit
Distance(i)  == IF i < 0 THEN -i ELSE i
CQuot(n, d)  == IF (n < 0) = (d < 0) THEN Distance(n) \div Distance(d) ELSE -(Distance(n) \div Distance(d))
CRem(n, d)   == n - d * CQuot(n, d)
Valued(i)    == ValInt(((i - MinLong) % (MaxLong - MinLong + 1)) + MinLong)

\* mutant: always down
DivIntDown(n, d) == IF CRem(n, d) < 0 THEN CQuot(n, d) - 1 ELSE CQuot(n, d)

\* the adjustments to euclidean division
DivInt(n, d) == IF CRem(n, d) >= 0 THEN CQuot(n, d) ELSE IF d > 0 THEN CQuot(n, d) - 1 ELSE CQuot(n, d) + 1
ModInt(n, d) == IF CRem(n, d) >= 0 THEN CRem(n, d) ELSE IF d > 0 THEN CRem(n, d) + d ELSE CRem(n, d) - d

Division ==
  /\ label = "fetch" /\ Instr[1] \in {"QUOTINT", "REMINT", "DIVINT", "MODINT"}
  /\ LET n == Top(0)[2]
         d == Top(1)[2]
         r == CASE Instr[1] = "QUOTINT" -> CQuot(n, d)
                [] Instr[1] = "REMINT"  -> CRem(n, d)
                [] Instr[1] = "DIVINT"  -> DivInt(n, d)
                [] Instr[1] = "MODINT"  -> ModInt(n, d)
     IN IF d = 0 THEN RaiseArithmetic(Live, IntZeroDivide)
        ELSE Continue(Append(Drop(2), Valued(r))) /\ UNCHANGED mem

Compare ==
  /\ label = "fetch" /\ Instr[1] \in {"EQINT", "NEINT", "LTINT", "GTINT", "LEINT", "GEINT"}
  /\ LET m == Top(0)[2]
         n == Top(1)[2]
         holds == CASE Instr[1] = "EQINT" -> m = n
                    [] Instr[1] = "NEINT" -> m # n
                    [] Instr[1] = "LTINT" -> m < n
                    [] Instr[1] = "GTINT" -> m > n
                    [] Instr[1] = "LEINT" -> m <= n
                    [] Instr[1] = "GEINT" -> m >= n
     IN Continue(Append(Drop(2), Atom(IF holds THEN 1 ELSE 0)))
  /\ UNCHANGED mem

\* call_extern gives a word for the n arguments
Call ==
  /\ At("CALL")
  /\ Continue(Append(Drop(Instr[3]), ValInt(Externs[Instr[2]].result)))
  /\ UNCHANGED mem

-----------------------------------------------------------------------------
(* Matching.  A match is <<name, offset of the default, entries>>, an entry *)
(* is a pattern and its offset; offset 0 is a failed pattern.               *)

FailedPattern == 0

Patterns(i)     == [j \in DOMAIN i[3] |-> i[3][j][1]]
Hits(i, pat)    == {j \in DOMAIN i[3] : Patterns(i)[j] = pat}
\* the first entry with this pattern wins
FirstHit(i, pat) == CHOOSE j \in Hits(i, pat) : \A k \in Hits(i, pat) : j <= k

\* the matches against one word pop it when they hit
TakeMatch(pat, fields) ==
  LET hit  == Hits(Instr, pat) # {}
      ofs  == IF hit THEN Instr[3][FirstHit(Instr, pat)][2] ELSE Instr[2]
      live == IF hit THEN Drop(1) \o Reverse(fields) ELSE Live
  IN IF ofs = 0 THEN RaiseRuntime(live, FailedPattern)
     ELSE /\ Goto("fetch", live, fp, Jump(pc, ofs))
          /\ UNCHANGED <<heap, old, accu>>

Match ==
  \/ At("MATCHCON") /\ TakeMatch(<<ContagOf(Top(0))>>, FieldsOf(Top(0)))
  \/ At("MATCHINT") /\ TakeMatch(<<Top(0)[2]>>, <<>>)
  \/ At("MATCH")    /\ TakeMatch(<<ContagOf(Top(0)), Len(FieldsOf(Top(0)))>>, FieldsOf(Top(0)))

-----------------------------------------------------------------------------
(* ENTER                                                                    *)

AtEnter(tags) == label = "enter" /\ Tagged(Top(0), tags)

Enter ==
  /\ At("ENTER")
  /\ Step("enter", Live, fp, pc)

\* a value that needs no evaluation is pushed, others are entered with a
\* continuation
EvalVar ==
  /\ At("EVALVAR")
  /\ LET v == Top(Instr[2])
     IN IF Whnf(v) THEN Continue(Append(Live, v))
        ELSE /\ Goto("enter",
                     Append(PushFrame(Append(Live, CodeAt(pc[1], pc[2] + 1)), "cont"), v),
                     sp + 3, Jump(pc, 1))
             /\ UNCHANGED accu
  /\ UNCHANGED mem

\* a direct call skips the ARGCHK: the compiler has counted the arguments
EnterCode ==
  /\ At("ENTERCODE")
  /\ Step("check code", Live, fp, <<Instr[2], 2>>)

EnterValue ==
  /\ label = "enter" /\ Whnf(Top(0))
  /\ Goto("return", Drop(1), fp, pc)
  /\ accu' = Top(0)
  /\ UNCHANGED mem

EnterCodePointer ==
  /\ label = "enter" /\ Top(0)[1] = "code"
  /\ Step("fetch", Drop(1), fp, <<Top(0)[2], Top(0)[3]>>)

\* mutant: the thunk is popped before its frame is pushed
EnterApPopped ==
  /\ AtEnter({"Ap"})
  /\ Step("check enter", PushFrame(Drop(1), "update") \o Reverse(BlockOf(Top(0)).f), sp + 1, pc)

\* an update frame, and the words of the application
EnterAp ==
  /\ AtEnter({"Ap"})
  /\ Step("check enter", PushFrame(Live, "update") \o Reverse(BlockOf(Top(0)).f), sp + 2, pc)

EnterNap ==
  /\ AtEnter({"Nap"})
  /\ Step("check enter", Drop(1) \o Reverse(BlockOf(Top(0)).f), fp, pc)

EnterInd ==
  /\ AtEnter({"Ind"})
  /\ Step("enter", Append(Drop(1), BlockOf(Top(0)).f[1]), fp, pc)

\* blackholed eagerly, since the code might loop without growing the stack
EnterCaf ==
  /\ AtEnter({"Caf"})
  /\ heap' = [heap EXCEPT ![Top(0)[2]].tag = "Inv"]
  /\ LET c == BlockOf(Top(0)).f[1]
     IN Goto("check code", PushFrame(Live, "update"), sp + 2, <<c[2], c[3]>>)
  /\ UNCHANGED <<old, accu>>

Blackhole == 1

EnterBlackhole == AtEnter({"Inv"}) /\ RaiseRuntime(Live, Blackhole)

EnterRaise ==
  /\ AtEnter({"Raise"})
  /\ Step("raise", Append(Drop(1), BlockOf(Top(0)).f[1]), fp, pc)

\* mutant: the update frame keeps its old link
EnterSuspensionUnlinked ==
  /\ AtEnter({"Suspend"})
  /\ LET susp == BlockOf(Top(0)).f
         live == Drop(1) \o Reverse(SubSeq(susp, 3, Len(susp)))
     IN Goto("enter", live, Len(live) - susp[1][2], pc)
  /\ UNCHANGED <<heap, old, accu>>

\* A suspension holds the distances from its top to its first frame (base) and
\* to the update frame at its end (top), and then the words from the top down.
\* The update frame is linked to the frames that are there now.
EnterSuspension ==
  /\ AtEnter({"Suspend"})
  /\ LET susp == BlockOf(Top(0)).f
         base == susp[1][2]
         top  == susp[2][2]
         live == Drop(1) \o Reverse(SubSeq(susp, 3, Len(susp)))
         last == Len(live) - top
     IN Goto("enter", [live EXCEPT ![last - 1] = ValInt(last - fp)], Len(live) - base, pc)
  /\ UNCHANGED <<heap, old, accu>>

-----------------------------------------------------------------------------
(* ARGCHK                                                                   *)

ArgChk ==
  /\ At("ARGCHK")
  /\ Goto("check args", Live, fp, pc)
  /\ accu' = Null
  /\ UNCHANGED mem

\* the words above the frame; fewer than the function wants
args     == sp - fp
TooFew(k) == label = "argchk" /\ args \in 0 .. Instr[2] - 1 /\ Kind = k

ThisCode == CodeAt(pc[1], 1)

\* the function with the arguments it has
Partial == Block("Nap", 0, <<ThisCode>> \o Args(args))

PartialValue == IF args = 0 THEN [heap |-> heap, ref |-> ThisCode] ELSE NewBlock(Partial)

\* a frame pointer above the stack pointer would be a negative count: what the
\* code does with it is undefined
ArgsEnough ==
  /\ label = "argchk" /\ args \notin 0 .. Instr[2] - 1
  /\ Step(IF args < 0 THEN "corrupt" ELSE "fetch", Live, fp, Jump(pc, 1))

ArgsContinue ==
  /\ TooFew("cont")
  /\ heap' = PartialValue.heap
  /\ Goto("fetch", Append(Below, PartialValue.ref), FrameNext, <<Value[2], Value[3]>>)
  /\ UNCHANGED <<old, accu>>

\* the thunk becomes the partial application, and the loop goes on below
ArgsUpdate ==
  /\ TooFew("update")
  /\ heap' = CASE accu = Moved -> Append(heap, Partial)
               [] accu # Moved /\ args = 0 -> Indirected(heap, Value[2], ThisCode)
               [] OTHER -> UpdateAlloc(Value[2], Partial).heap
  /\ Goto("argchk", Below \o Above(fp), FrameNext, pc)
  /\ accu' = Null
  /\ UNCHANGED old

\* what is between the catch frame and the next one goes too
ArgsZapCatch ==
  /\ TooFew("catch")
  /\ Step("argchk", SubSeq(stack, 1, FrameNext) \o Above(fp), FrameNext, pc)

ArgsStop ==
  /\ TooFew("stop")
  /\ heap' = PartialValue.heap
  /\ Goto("complete", Append(Drop(args), PartialValue.ref), fp, pc)
  /\ UNCHANGED <<old, accu>>

-----------------------------------------------------------------------------
(* RETURN                                                                   *)

\* RETURN, RETURNINT i, RETURNCON0 t
Returning ==
  /\ \/ At("RETURN")     /\ Goto("return", Drop(1), fp, pc) /\ accu' = Top(0)
     \/ At("RETURNINT")  /\ Goto("return", Live, fp, pc)    /\ accu' = ValInt(Instr[2])
     \/ At("RETURNCON0") /\ Goto("return", Live, fp, pc)    /\ accu' = Atom(Instr[2])
  /\ UNCHANGED mem

ReturnTo(k) == label = "return" /\ Kind = k

ReturnContinue ==
  /\ ReturnTo("cont")
  /\ Step("fetch", Append(Below, accu), FrameNext, <<Value[2], Value[3]>>)

\* mutant: only blocks are written
ReturnUpdateBlocks ==
  /\ ReturnTo("update")
  /\ heap' = IF IsRef(accu) THEN Updated(Value[2], accu) ELSE heap
  /\ Goto("return", Live, FrameNext, pc)
  /\ UNCHANGED <<old, accu>>

\* mutant: the frame stays
ReturnUpdateStays ==
  /\ ReturnTo("update")
  /\ heap' = Updated(Value[2], accu)
  /\ UNCHANGED <<old, stack, sp, fp, size, pc, label, accu, rsp, signals, sent, scenario>>

ReturnUpdate ==
  /\ ReturnTo("update")
  /\ heap' = Updated(Value[2], accu)
  /\ Goto("return", Live, FrameNext, pc)
  /\ UNCHANGED <<old, accu>>

\* the last chance for a signal to raise an exception inside the catch
ReturnCatch ==
  /\ ReturnTo("catch")
  /\ IF Pending THEN Return(Append(Live, accu), fp, "schedule")
     ELSE Goto("return", Live, FrameNext, pc) /\ UNCHANGED <<heap, old, accu>>

ReturnStop ==
  /\ ReturnTo("stop")
  /\ Step("complete", Append(SubSeq(stack, 1, fp), accu), fp, pc)

-----------------------------------------------------------------------------
(* RETURNCON: the constructor stays on the stack as long as nobody needs it *)
(* in the heap.  accu is Null until then.                                   *)

contag  == Instr[2]
consize == Instr[3]

ReturnCon ==
  /\ At("RETURNCON")
  /\ IF consize = 0 /\ contag < ConMaxTag
     THEN Goto("return", Live, fp, pc) /\ accu' = Atom(contag)
     ELSE Goto("returncon", Live, fp, pc) /\ accu' = Null
  /\ UNCHANGED mem

ReturnConTo(k) == label = "returncon" /\ Kind = k

\* Ensure_con
Con == IF accu \notin {Null, Moved} THEN [heap |-> heap, ref |-> accu]
       ELSE AllocCon(contag, Args(consize))

Continuation == <<Value[2], Value[3]>>
Target       == InstrAt(Continuation)

\* into a MATCHCON the fields are handed over on the stack
ReturnConMatch ==
  /\ ReturnConTo("cont") /\ Target[1] = "MATCHCON"
  /\ LET hit    == Hits(Target, <<contag>>) # {}
         ofs    == IF hit THEN Target[3][FirstHit(Target, <<contag>>)][2] ELSE Target[2]
         fields == Below \o Above(sp - consize)
     IN CASE ofs = 0 ->
               /\ heap' = heap \o <<Block("Con", FailedPattern, <<Opaque>>),
                                    Block("Con", 3, <<NewRef>>)>>
               /\ Goto("raise", Append(fields, Ref(Len(heap) + 2)), FrameNext, Continuation)
          [] ofs # 0 /\ hit ->
               /\ Goto("fetch", fields, FrameNext, Jump(Continuation, ofs))
               /\ UNCHANGED heap
          [] OTHER ->
               /\ heap' = Con.heap
               /\ Goto("fetch", Append(Below, Con.ref), FrameNext, Jump(Continuation, ofs))
  /\ UNCHANGED <<old, accu>>

ReturnConContinue ==
  /\ ReturnConTo("cont") /\ Target[1] # "MATCHCON"
  /\ heap' = Con.heap
  /\ Goto("fetch", Append(Below, Con.ref), FrameNext, Continuation)
  /\ UNCHANGED <<old, accu>>

ReturnConUpdate ==
  /\ ReturnConTo("update")
  /\ LET new == UpdateAlloc(Value[2], ConBlock(contag, Args(consize)))
     IN CASE accu = Null  -> heap' = new.heap /\ accu' = new.ref
          [] accu = Moved -> heap' = Con.heap /\ accu' = Con.ref
          [] OTHER        -> heap' = Indirected(heap, Value[2], accu) /\ UNCHANGED accu
  /\ Goto("returncon", Live, FrameNext, pc)
  /\ UNCHANGED old

ReturnConCatch ==
  /\ ReturnConTo("catch")
  /\ IF Pending
     THEN /\ Put(Append(Live, Con.ref), fp)
          /\ heap' = IF Con.heap = heap THEN Blackholed(fp)
                     ELSE Append(Blackholed(fp), Last(Con.heap))
          /\ label' = "schedule"
          /\ UNCHANGED <<old, pc, accu, rsp>>
          /\ UNCHANGED world
     ELSE Goto("returncon", Live, FrameNext, pc) /\ UNCHANGED <<heap, old, accu>>

ReturnConStop ==
  /\ ReturnConTo("stop")
  /\ heap' = Con.heap
  /\ Goto("complete", Append(SubSeq(stack, 1, fp), Con.ref), fp, pc)
  /\ UNCHANGED <<old, accu>>

-----------------------------------------------------------------------------
(* Exceptions                                                               *)

Catch ==
  /\ At("PUSHCATCH")
  /\ Step("fetch", PushFrame(Live, "catch"), sp + 2, Jump(pc, 1))

Raise ==
  /\ At("RAISE")
  /\ Step("raise", Live, fp, pc)

Exn == Top(0)

\* stack overflow and signals; of a heap overflow no suspension is made
Asynchronous(exn) == ContagOf(exn) \in {1, 2}

\* raise_exception
RaiseException ==
  /\ label = "raise"
  /\ label' = IF Asynchronous(Exn) THEN "suspend" ELSE "recover"
  /\ rsp' = sp
  /\ UNCHANGED <<heap, old, stack, sp, fp, pc, accu>>
  /\ UNCHANGED world

\* recover_synchronous: the thunks that were under evaluation raise it again
RecoverFrame ==
  /\ label = "recover" /\ Kind \in {"cont", "update"}
  /\ heap' = IF Kind = "update" /\ BlockOf(Value).tag # "Raise"
             THEN [heap EXCEPT ![Value[2]] =
                     Block("Raise", 0, <<Exn>> \o Nulls(Len(BlockOf(Value).f) - 1))]
             ELSE heap
  /\ Goto("recover", Live, FrameNext, pc)
  /\ UNCHANGED <<old, accu>>

\* recover_asynchronous, for one update frame: the stack down to the frame is
\* saved in a suspension, which takes the place of the thunk and of the frame
SuspendFrame ==
  /\ label = "suspend" /\ KindAt(SkipConts(fp)) = "update"
  /\ LET u    == SkipConts(fp)
         susp == <<ValInt(rsp - fp), ValInt(rsp - u)>> \o Reverse(SubSeq(stack, u - 2, rsp))
     IN /\ heap' = Indirected(Append(heap, Block("Suspend", 0, susp)), stack[u - 2][2], NewRef)
        /\ stack' = [stack EXCEPT ![u - 2] = NewRef]
        /\ rsp' = u - 2
        /\ fp' = NextOf(u)
  /\ UNCHANGED <<old, sp, pc, label, accu>>
  /\ UNCHANGED world

Recovered ==
  /\ \/ label = "recover" /\ Kind \in {"catch", "stop"}
     \/ label = "suspend" /\ KindAt(SkipConts(fp)) \in {"catch", "stop"}
  /\ LET f == SkipConts(fp)
     IN IF KindAt(f) = "catch"
        THEN Goto("enter", SubSeq(stack, 1, NextOf(f)) \o <<Exn, stack[f - 2]>>, NextOf(f), pc)
        ELSE Goto("exception", SubSeq(stack, 1, f) \o <<Exn>>, f, pc)
  /\ UNCHANGED <<heap, old, accu>>

-----------------------------------------------------------------------------
(* Collections                                                              *)

AllocInstrs == {"ALLOCAP", "NEWAP", "NEWNAP", "NEWCON", "NEW", "ALLOC", "ALLOCCON"}

\* the block that the update frame on top will hold
Result == IF label = "argchk" THEN Partial ELSE ConBlock(contag, Args(consize))

\* Update_alloc allocates when the new block is larger than the thunk
UpdateAllocates == Kind = "update" /\ ~Fits(Value[2], Result)

\* the next step allocates
Allocates ==
  \/ label = "fetch" /\ Instr[1] \in AllocInstrs
  \/ /\ \/ label = "argchk" /\ 0 < args /\ args < Instr[2]
        \/ label = "returncon"
     /\ accu = Null
     /\ \/ Kind \in {"cont", "stop"} \/ UpdateAllocates
        \/ label = "returncon" /\ Kind = "catch" /\ Pending

\* Setup_for_gc and minor_collection.  ARGCHK has popped an update frame when it
\* allocates.  A young thunk moves, while the pointer upd of the evaluator is
\* still to its old place: what should update it will be written there.
Collect ==
  /\ Allocates
  /\ old # Len(heap)
  /\ LET popped == label = "argchk" /\ Kind = "update"
         h      == Blackholed(IF popped THEN FrameNext ELSE fp)
     IN heap' = CollectedHeap(h) /\ stack' = CollectedStack(h, stack)
  /\ old' = Len(heap)
  /\ accu' = IF label # "fetch" /\ Kind = "update" /\ Value[2] > old THEN Moved ELSE accu
  /\ UNCHANGED <<sp, fp, pc, label, rsp>>
  /\ UNCHANGED world

-----------------------------------------------------------------------------
Instruction ==
  \/ PushVar \/ PushConst \/ PushCont \/ Slide
  \/ AllocAp \/ PackAp \/ NewAp \/ NewCon \/ New \/ AllocConstr \/ PackCon
  \/ GetField \/ UpdField \/ Inspect \/ Arithmetic \/ Multiply \/ Negate \/ Division \/ Compare \/ Call \/ Match
  \/ Enter \/ EvalVar \/ EnterCode \/ ArgChk \/ Returning \/ ReturnCon \/ Catch \/ Raise

Loops ==
  \/ EnterValue \/ EnterCodePointer \/ EnterAp \/ EnterNap \/ EnterInd \/ EnterCaf
  \/ EnterBlackhole \/ EnterRaise \/ EnterSuspension
  \/ ArgsEnough \/ ArgsContinue \/ ArgsUpdate \/ ArgsZapCatch \/ ArgsStop
  \/ ReturnContinue \/ ReturnUpdate \/ ReturnCatch \/ ReturnStop
  \/ ReturnConMatch \/ ReturnConContinue \/ ReturnConUpdate \/ ReturnConCatch \/ ReturnConStop
  \/ RaiseException \/ RecoverFrame \/ SuspendFrame \/ Recovered

Machine ==
  \/ Schedule \/ Evaluate
  \/ Yield \/ GrowStack \/ StackOverflow \/ Safe
  \/ Instruction \/ Loops

Done == label \in {"complete", "exception", "fatal", "corrupt"} /\ UNCHANGED vars

Next == Machine \/ Signal \/ Collect \/ Done

Spec == Init /\ [][Next]_vars

\* the evaluator runs on
FairSpec == Spec /\ WF_vars(Machine)

-----------------------------------------------------------------------------
(* Properties                                                               *)

Labels == Checks \cup {"schedule", "fetch", "enter", "argchk", "return", "returncon",
                       "raise", "recover", "suspend",
                       "complete", "exception", "fatal", "corrupt"}

\* The registers are what they are declared to be, and the memory of the stack
\* ends at the higher one of sp and fp.
TypeOK ==
  /\ label \in Labels
  /\ sp \in Nat /\ fp \in Nat \ {0}
  /\ Len(stack) = IF sp > fp THEN sp ELSE fp
  /\ old \in 0 .. Len(heap)
  /\ size \in scenario.init .. StackMax
  /\ sent \in 0 .. scenario.bound /\ Len(signals) <= sent
  /\ pc[1] \in DOMAIN code /\ pc[2] \in DOMAIN code[pc[1]]

\* Every frame that is reached from fp by the relative links is one: a kind, a
\* distance to a frame below, and under it what its kind needs -- a position in
\* the code for a continuation, a block for an update -- down to the stop frame
\* at the bottom.  Growing the stack, suspending and resuming keep it so.
FramesLinked ==
  LET linked[f \in 1 .. fp] ==
        /\ stack[f][1] = "frame"
        /\ \/ KindAt(f) = "stop" /\ f = 1
           \/ stack[f - 1][1] = "int" /\ NextOf(f) \in 1 .. f - 1 /\ linked[NextOf(f)]
        /\ KindAt(f) = "cont" => /\ stack[f - 2][1] = "code"
                                 /\ stack[f - 2][3] \in DOMAIN code[stack[f - 2][2]]
        /\ KindAt(f) = "update" => IsRef(stack[f - 2])
  IN linked[fp]

\* Require( sp < fp ) in ENTER and RAISE (437, 650): there is a word above the
\* frame.
WordAboveFrame == label \in {"enter", "raise"} => sp > fp

\* Assert in ENTER (443): what is not a value is a thunk or code.
EntersThunks == label = "enter" => Whnf(Top(0)) \/ IsRef(Top(0)) \/ Top(0)[1] = "code"

\* Require in RETURN (743): what an update frame updates is a thunk, or an
\* indirection or a suspension that has taken its place.
UpdatesThunk ==
  label = "return" /\ Kind = "update"
    => Tagged(Value, {"Ap", "Inv", "Caf", "Ind", "Suspend"})

\* Require in PACKAP, PACKNAP, PACKCON and PACK: the block was allocated for
\* this, and is large enough.
PacksAllocated ==
  /\ label = "fetch" /\ Instr[1] \in {"PACKAP", "PACKNAP"}
       => Tagged(Top(Instr[2]), {"Inv"}) /\ Len(BlockOf(Top(Instr[2])).f) = Instr[3]
  /\ label = "fetch" /\ Instr[1] = "PACKCON" /\ Instr[3] > 0
       => Tagged(Top(Instr[2]), {"Con"}) /\ Len(FieldsOf(Top(Instr[2]))) >= Instr[3]
  /\ label = "fetch" /\ Instr[1] = "PACK" /\ Instr[2] > 0
       => Tagged(Top(Instr[3]), {"Con"}) /\ Len(FieldsOf(Top(Instr[3]))) >= Instr[2]

\* Require in PUSHVAR: a variable is above the frame of the function, that is
\* the first one that is neither a continuation nor a catch.
FrameLimit ==
  LET lim[i \in 1 .. fp] == IF KindAt(i) \in {"cont", "catch"} THEN lim[NextOf(i)] ELSE i
  IN lim[fp]

VariablesInFrame ==
  label = "fetch" /\ Instr[1] = "PUSHVAR" => sp - Instr[2] > FrameLimit

\* Assert in lazy_blackhole (stack.c 41): when the machine saves its registers
\* for the collector, only thunks are under evaluation.  (A suspension that is
\* resumed is under evaluation, too, and its block is an indirection.)
BlackholesThunks ==
  "int" \notin scenario.kinds /\ ((label \in Checks /\ (Pending \/ Overflows)) \/ Allocates)
    => \A v \in Updates(fp) : Tagged(v, {"Ap", "Caf", "Inv"})

\* Require( sp > thread->stack ) in ENTER (435): what is pushed between two
\* checks of the stack fits in it.
StackInBounds == sp < size

\* The machine never finds its own stack corrupted.
NeverFatal == label # "fatal"

\* The stack and the registers are what the instructions assume of them, whatever was
\* pushed, grown, unwound, suspended or resumed before: the frames are linked, there is a
\* word above the frame where ENTER and RAISE look for one, variables are in the frame of
\* their function, nothing is pushed behind the end, and the machine never stops because
\* it finds its stack corrupted (evaluator.c 104-136, 355-367, 429-443).
StackSound ==
  TypeOK /\ FramesLinked /\ WordAboveFrame /\ VariablesInFrame /\ StackInBounds /\ NeverFatal

\* The machine finds the block it needs, through updates, black holes, exceptions
\* and collections: a thunk where it enters or updates one, an allocated block of
\* the right size where it fills one (evaluator.c 443, 743, 1145-1171, 1374-1428,
\* stack.c 41).
BlocksSound == EntersThunks /\ UpdatesThunk /\ PacksAllocated /\ BlackholesThunks

ValueOf(h, w) ==
  LET to[a \in DOMAIN h] ==
        IF h[a].tag # "Ind" THEN Ref(a)
        ELSE IF IsRef(h[a].f[1]) THEN to[h[a].f[1][2]] ELSE h[a].f[1]
  IN IF IsRef(w) THEN to[w[2]] ELSE w

\* An update frame goes away only when its thunk has a result: a value, an
\* exception or a suspension.  A thunk that loses its frame stays a black hole.
UpdatesAreMade ==
  [][LET left == Updates(fp) \ Updates(fp)'
     IN label' = label \/ old' = old
          => \A v \in left : heap'[v[2]].tag \notin {"Ap", "Caf", "Inv"}]_vars

\* A block has one result.  What it leads to through indirections, when that is a value
\* or an exception, it leads to after every later step: a second update frame of the same
\* thunk, the one of a suspension that is resumed, a black hole, an exception and a
\* collection leave it as it is, with its fields, of which a collection skips the
\* indirections.  Only instructions fill blocks (stack.c 41, evaluator.c 511-534, 740-747).
ValuesStay ==
  [][label # "fetch" \/ old' # old =>
       \A a \in DOMAIN heap :
         LET v == ValueOf(heap, Ref(a))
         IN ~Tagged(v, {"Ap", "Caf", "Inv", "Suspend"}) =>
              /\ ValueOf(heap', Ref(a)) = v
              /\ IsRef(v) => LET was == heap[v[2]] is == heap'[v[2]]
                            IN /\ <<is.tag, is.con, Len(is.f)>> = <<was.tag, was.con, Len(was.f)>>
                               /\ \A k \in DOMAIN was.f : is.f[k] \in {was.f[k], ValueOf(heap, was.f[k])}]_vars

\* A suspension holds the computation that was interrupted, and not the exception
\* that has interrupted it.
SuspendsComputation ==
  [][label = "suspend" /\ heap' # heap => Exn \notin ToSet(Last(heap').f)]_vars

\* Every program of the runs ends, however often it is interrupted.
Terminates == <>(label \in {"complete", "exception", "fatal", "corrupt"})
=============================================================================
