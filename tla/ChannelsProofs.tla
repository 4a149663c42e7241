---------------------------- MODULE ChannelsProofs ----------------------------
(***************************************************************************)
(* Channels neither lose nor double what is output, keep to their own      *)
(* descriptors, and return what the file has, for every size of a buffer,  *)
(* every number of channels and descriptors, and all files and requests.   *)
(*                                                                         *)
(* Three invariants, each proved with the help of the one before: CallInv  *)
(* (pointers, descriptors and the call under way), OutInv (where output    *)
(* is) and InInv (what a buffer for input is of its file).                 *)
(***************************************************************************)
EXTENDS Channels, SequenceTheorems, TLAPS

\* what a buffer consists of
Cell == Byte \cup {Junk}

Pointers ==
  /\ status \in [Chan -> {"new", "live", "freed"}]
  /\ fd \in [Chan -> Fds \cup {NoFd}]
  /\ offset \in [Chan -> Nat]
  /\ curr \in [Chan -> 0 .. Size] /\ max \in [Chan -> 0 .. Size]
  /\ buff \in [Chan -> [1 .. Size -> Cell]]

Kernel ==
  /\ table \in [Fds -> Chan \cup {None}]
  /\ file \in [Chan -> Seq(Cell)] /\ at \in [Ins -> Nat]

\* The call under way, and what it relies on when it makes a system call.
Calling ==
  /\ call \in Calls
  /\ call.op = "idle" => call = Idle
  /\ call.op # "idle" => C \in Chan /\ status[C] = "live" /\ reply = NoReply
  /\ call.op \in WriteOps => C \in Outs
  /\ call.op \in ReadOps => C \in Ins
  /\ call.op \notin PutOps => call.rest = <<>>

Writing ==
  /\ call.op = "putch" => Len(call.rest) >= 1
  /\ call.op \in WriteOps \ {"putblock"} => call.n <= curr[C]
  /\ call.op = "putblock" /\ call.n > 0 => Len(call.rest) > Size - curr[C]
  /\ call.op \in {"flush", "flush_partial", "close", "finalize"} => fd[C] # NoFd

Receiving ==
  /\ call.op \in {"getch", "input", "getblock"} /\ call.n > 0 => curr[C] = max[C] /\ call.n = Size
  /\ call.op \in {"getch", "getblock"} => call.need >= 1
  /\ call.op = "scan_line" => curr[C] <= call.p /\ call.p <= max[C]
  /\ call.op = "scan_line" /\ call.n > 0 => curr[C] = 0 /\ call.p = max[C] /\ call.n = Size - max[C]

\* A closed channel for output looks full, so that the next byte reaches do_write.
Descriptors ==
  /\ OwnDescriptor
  /\ \A c \in Chan : status[c] # "live" => fd[c] = NoFd
  /\ \A c \in Chan : status[c] = "new" => curr[c] = 0 /\ max[c] = 0
  /\ \A c \in Outs : status[c] = "live" /\ fd[c] = NoFd => curr[c] = Size
  /\ \A c \in Ins : curr[c] <= max[c]

Beliefs == said \in [Outs -> Seq(Byte)] /\ place \in [Ins -> Nat]

CallInv == Pointers /\ Kernel /\ Calling /\ Writing /\ Receiving /\ Descriptors /\ Beliefs

\* A call of putblock that writes has put the front of its request behind what was there.
Filled ==
  call.op = "putblock" /\ call.n > 0 =>
    SubSeq(buff[C], 1, Size) = Pending(C) \o SubSeq(call.rest, 1, Size - curr[C])

OutInv == OutputAccounted /\ Filled

\* b starts with the m cells of f that end at off.
Frames(b, m, off, f) ==
  /\ m <= off
  /\ m > 0 => off <= Len(f)
  /\ \A i \in 1 .. m : b[i] = f[off - m + i]

\* The buffer of an open channel is the part of the file in front of the descriptor.
Window(c) == fd[c] # NoFd => PositionKnown(c) /\ Frames(buff[c], max[c], offset[c], file[c])

\* h is what f has in front of its place n.
Ends(h, n, f) ==
  /\ Len(h) <= n
  /\ h # <<>> => n <= Len(f)
  /\ \A i \in 1 .. Len(h) : h[i] = f[n - Len(h) + i]

\* A channel that is not open yet is where its file begins; one that is closed gives nothing.
Tracks(c) ==
  /\ file[c] \in Seq(Byte)
  /\ Window(c)
  /\ Ends(heard[c], place[c], file[c])
  /\ status[c] = "new" => PositionKnown(c)
  /\ status[c] = "live" /\ fd[c] = NoFd => curr[c] = max[c]

\* Behind the place of the program there is no newline that the scan has passed.
Scanned == call.op = "scan_line" => \A i \in curr[C] + 1 .. call.p : buff[C][i] # Newline

InInv ==
  /\ heard \in [Ins -> Seq(Byte)]
  /\ \A c \in Ins : Tracks(c)
  /\ Scanned
  /\ RepliesTrue

-----------------------------------------------------------------------------
(* Buffers and sequences                                                    *)

\* A system call is asked for something, and the constants are what they are assumed to be.
LEMMA Constants ==
  /\ Size \in Nat /\ Size >= 1 /\ Word \in Nat /\ Word >= 1
  /\ NoFd \notin Fds /\ None \notin Chan /\ Byte \subseteq Cell
  /\ Ins \subseteq Chan /\ Outs \subseteq Chan /\ Ins \cap Outs = {}
  BY SizeAssumption, FdsAssumption, NoneAssumption, ChannelsAssumption DEF NoFd, Chan, Cell

\* What lies between two places of a buffer.
LEMMA PartOfBuffer ==
  ASSUME NEW b \in [1 .. Size -> Cell], NEW m \in 1 .. Size + 1, NEW n \in 0 .. Size, m <= n + 1
  PROVE  /\ SubSeq(b, m, n) \in Seq(Cell) /\ Len(SubSeq(b, m, n)) = n - m + 1
         /\ \A i \in 1 .. n - m + 1 : SubSeq(b, m, n)[i] = b[m + i - 1]
<1>0. Size \in Nat
  BY Constants
<1>1. \A i \in m .. n : b[i] \in Cell
  BY <1>0
<1>2. m \in Int /\ n \in Int /\ n - m + 1 \in Nat
  BY <1>0
<1>3. SubSeq(b, m, n) \in Seq(Cell) /\ Len(SubSeq(b, m, n)) = (IF m <= n THEN n - m + 1 ELSE 0)
      /\ \A i \in 1 .. n - m + 1 : SubSeq(b, m, n)[i] = b[m + i - 1]
  BY <1>1, <1>2, SubSeqProperties
<1>4. QED
  BY <1>2, <1>3

LEMMA FrontOfBuffer ==
  ASSUME NEW b \in [1 .. Size -> Cell], NEW n \in 0 .. Size
  PROVE  /\ SubSeq(b, 1, n) \in Seq(Cell) /\ Len(SubSeq(b, 1, n)) = n
         /\ \A i \in 1 .. n : SubSeq(b, 1, n)[i] = b[i]
<1>0. Size \in Nat /\ n \in Nat
  BY Constants
<1>1. 1 \in 1 .. Size + 1 /\ 1 <= n + 1
  BY <1>0
<1>2. /\ SubSeq(b, 1, n) \in Seq(Cell) /\ Len(SubSeq(b, 1, n)) = n - 1 + 1
      /\ \A i \in 1 .. n - 1 + 1 : SubSeq(b, 1, n)[i] = b[1 + i - 1]
  BY <1>1, PartOfBuffer
<1>3. QED
  BY <1>0, <1>2

\* A store behind the first m bytes leaves these, and appends.
LEMMA PutBehind ==
  ASSUME NEW b \in [1 .. Size -> Cell], NEW m \in 0 .. Size, NEW s \in Seq(Cell),
         m + Len(s) <= Size
  PROVE  /\ Put(b, m, s) \in [1 .. Size -> Cell]
         /\ SubSeq(Put(b, m, s), 1, m) = SubSeq(b, 1, m)
         /\ SubSeq(Put(b, m, s), 1, m + Len(s)) = SubSeq(b, 1, m) \o s
         /\ \A i \in 1 .. Len(s) : Put(b, m, s)[m + i] = s[i]
         /\ \A i \in 1 .. m : Put(b, m, s)[i] = b[i]
<1>p. PICK p : p = Put(b, m, s)
  OBVIOUS
<1> DEFINE l == SubSeq(b, 1, m)
           r == SubSeq(p, 1, m + Len(s))
<1>0. Size \in Nat /\ Len(s) \in Nat /\ m \in Nat
  BY Constants, LenProperties
<1>s. \A i \in 1 .. Len(s) : s[i] \in Cell
  BY ElementOfSeq
<1>1. p \in [1 .. Size -> Cell]
  <2>1. ASSUME NEW i \in 1 .. Size PROVE (IF m < i /\ i <= m + Len(s) THEN s[i - m] ELSE b[i]) \in Cell
    BY <1>0, <1>s
  <2>2. QED
    BY <1>p, <2>1 DEF Put
<1>2. \A i \in 1 .. Size : p[i] = IF m < i /\ i <= m + Len(s) THEN s[i - m] ELSE b[i]
  BY <1>p DEF Put
<1>3. \A i \in 1 .. m : p[i] = b[i]
  BY <1>0, <1>2
<1>4. \A i \in 1 .. Len(s) : p[m + i] = s[i]
  BY <1>0, <1>2
<1>5. /\ l \in Seq(Cell) /\ Len(l) = m
      /\ \A i \in 1 .. m : l[i] = b[i]
  <2>2. /\ l \in Seq(Cell) /\ Len(l) = m
        /\ \A i \in 1 .. m : l[i] = b[i]
    BY <1>1, FrontOfBuffer
  <2>3. QED
    BY <1>0, <2>2
<1>6. /\ r \in Seq(Cell) /\ Len(r) = m + Len(s)
      /\ \A i \in 1 .. m + Len(s) : r[i] = p[i]
  <2>1. m + Len(s) \in 0 .. Size
    BY <1>0
  <2>2. QED
    BY <1>1, <2>1, FrontOfBuffer
<1>7. SubSeq(p, 1, m) = l
  <2> DEFINE q == SubSeq(p, 1, m)
  <2>2. /\ q \in Seq(Cell) /\ Len(q) = m
        /\ \A i \in 1 .. m : q[i] = p[i]
    BY <1>1, FrontOfBuffer
  <2>3. Len(q) = Len(l) /\ \A i \in 1 .. Len(q) : q[i] = l[i]
    BY <1>0, <1>3, <1>5, <2>2
  <2> HIDE DEF q, l
  <2>4. q = l
    BY <1>5, <2>2, <2>3, SeqEqual
  <2>5. QED
    BY <2>4 DEF q
<1>8. r = l \o s
  <2> HIDE DEF r, l
  <2>1. /\ l \o s \in Seq(Cell) /\ Len(l \o s) = Len(l) + Len(s)
        /\ \A i \in 1 .. Len(l) + Len(s) : (l \o s)[i] = IF i <= Len(l) THEN l[i] ELSE s[i - Len(l)]
    BY <1>5, ConcatProperties
  <2>2. ASSUME NEW i \in 1 .. Len(r) PROVE r[i] = (l \o s)[i]
    <3>1. CASE i <= m
      BY <1>0, <1>3, <1>5, <1>6, <2>1, <3>1
    <3>2. CASE i > m
      <4>1. i - m \in 1 .. Len(s) /\ m + (i - m) = i
        BY <1>0, <1>6, <3>2
      <4>2. p[m + (i - m)] = s[i - m]
        BY <1>4, <4>1
      <4>3. QED
        BY <1>0, <1>5, <1>6, <2>1, <3>2, <4>1, <4>2
    <3>3. i <= m \/ i > m
      BY <1>0, <1>6
    <3>4. QED
      BY <3>1, <3>2, <3>3
  <2>3. Len(r) = Len(l \o s)
    BY <1>5, <1>6, <2>1
  <2>4. QED
    BY <1>6, <2>1, <2>2, <2>3, SeqEqual
<1>9. QED
  BY <1>p, <1>1, <1>3, <1>4, <1>7, <1>8

\* Moved to the front is what was behind the first k of m bytes.
LEMMA ShiftToFront ==
  ASSUME NEW b \in [1 .. Size -> Cell], NEW m \in 0 .. Size, NEW k \in 0 .. m
  PROVE  /\ Shift(b, k, m) \in [1 .. Size -> Cell]
         /\ SubSeq(Shift(b, k, m), 1, m - k) = SubSeq(b, k + 1, m)
         /\ SubSeq(b, 1, m) = SubSeq(b, 1, k) \o SubSeq(b, k + 1, m)
         /\ \A i \in 1 .. m - k : Shift(b, k, m)[i] = b[k + i]
<1>p. PICK p : p = Shift(b, k, m)
  OBVIOUS
<1> DEFINE q == SubSeq(p, 1, m - k)
           r == SubSeq(b, k + 1, m)
<1>0. Size \in Nat /\ m \in Nat /\ k \in Nat /\ m <= Size /\ k <= m
  BY Constants
<1>1. p \in [1 .. Size -> Cell]
  <2>1. ASSUME NEW i \in 1 .. Size PROVE (IF i <= m - k THEN b[i + k] ELSE b[i]) \in Cell
    BY <1>0
  <2>2. QED
    BY <1>p, <2>1 DEF Shift
<1>2. \A i \in 1 .. m - k : p[i] = b[k + i]
  BY <1>0, <1>p DEF Shift
<1>3. /\ q \in Seq(Cell) /\ Len(q) = m - k /\ \A i \in 1 .. m - k : q[i] = p[i]
  <2>1. m - k \in 0 .. Size
    BY <1>0
  <2>2. QED
    BY <1>1, <2>1, FrontOfBuffer
<1>4. /\ r \in Seq(Cell) /\ Len(r) = m - k /\ \A i \in 1 .. m - k : r[i] = b[k + i]
  <2>1. k + 1 \in 1 .. Size + 1 /\ k + 1 <= m + 1
    BY <1>0
  <2>2. /\ r \in Seq(Cell) /\ Len(r) = m - (k + 1) + 1
        /\ \A i \in 1 .. m - (k + 1) + 1 : r[i] = b[k + 1 + i - 1]
    BY <2>1, PartOfBuffer
  <2>3. QED
    BY <1>0, <2>2
<1>5. q = r
  <2>1. Len(q) = Len(r) /\ \A i \in 1 .. Len(q) : q[i] = r[i]
    BY <1>2, <1>3, <1>4
  <2> HIDE DEF q, r
  <2>2. QED
    BY <1>3, <1>4, <2>1, SeqEqual
<1>6. SubSeq(b, 1, m) = SubSeq(b, 1, k) \o r
  <2>1. b \in Seq(Cell) /\ Len(b) = Size
    BY <1>0, SMT
  <2>2. 1 \in 1 .. Len(b) + 1 /\ k \in 1 - 1 .. Len(b) /\ m \in k .. Len(b)
    BY <1>0, <2>1
  <2>3. SubSeq(b, 1, k) \o SubSeq(b, k + 1, m) = SubSeq(b, 1, m)
    BY <2>1, <2>2, ConcatAdjacentSubSeq
  <2>4. QED
    BY <2>3
<1>7. QED
  BY <1>p, <1>1, <1>2, <1>5, <1>6

-----------------------------------------------------------------------------
(* Pointers, descriptors and the call under way                             *)

Ops == WriteOps \cup ReadOps

LEMMA OpsDisjoint ==
  /\ WriteOps \cap ReadOps = {} /\ "idle" \notin Ops
  /\ PutOps \subseteq WriteOps /\ FlushOps \subseteq WriteOps
  /\ WriteOps = {"putch", "putblock", "flush", "close", "finalize", "seek_out", "flush_partial"}
  /\ ReadOps = {"getch", "input", "getblock", "scan_line"}
  BY DEF Ops, WriteOps, ReadOps, PutOps, FlushOps

\* In the beginning every channel is new and has no descriptor.
LEMMA CallInit == Init => CallInv
<1> SUFFICES ASSUME Init PROVE CallInv
  OBVIOUS
<1> USE Constants
<1>1. Pointers
  BY DEF Init, Pointers, Cell
<1>2. file \in [Chan -> Seq(Byte)]
  BY ValueAssumption DEF Init
<1>3. Kernel
  <2>1. ASSUME NEW c \in Chan PROVE file[c] \in Seq(Cell)
    BY <1>2, SeqMonotonic
  <2>2. file \in [Chan -> Seq(Cell)]
    BY <1>2, <2>1
  <2>3. table \in [Fds -> Chan \cup {None}] /\ at \in [Ins -> Nat]
    BY DEF Init
  <2>4. QED
    BY <2>2, <2>3 DEF Kernel
<1>4. call = Idle /\ call.op = "idle" /\ call.rest = <<>>
  BY DEF Init, Idle
<1>5. Calling
  <2>1. call \in Calls
    BY <1>4 DEF Idle, Calls
  <2>2. QED
    BY <1>4, <2>1, OpsDisjoint DEF Calling, Ops
<1>6. Writing /\ Receiving
  BY <1>4, OpsDisjoint DEF Writing, Receiving, Ops
<1>7. Descriptors
  BY DEF Init, Descriptors, OwnDescriptor
<1>8. Beliefs
  BY <1>2 DEF Init, Beliefs
<1>9. QED
  BY <1>1, <1>3, <1>5, <1>6, <1>7, <1>8 DEF CallInv

\* What a call that starts has to bring with it.
Request(op, c, rest, need, p) ==
  /\ op \in Ops /\ c \in Chan /\ rest \in Seq(Byte) /\ need \in Nat /\ p \in Nat
  /\ op \in WriteOps => c \in Outs
  /\ op \in ReadOps => c \in Ins
  /\ op \notin PutOps => rest = <<>>
  /\ op = "putch" => Len(rest) >= 1
  /\ op \in {"flush", "flush_partial", "close", "finalize"} => fd[c] # NoFd
  /\ op \in {"getch", "getblock"} => need >= 1
  /\ op = "scan_line" => p = curr[c]

LEMMA Starts ==
  ASSUME CallInv, NEW op, NEW c, NEW rest, NEW need, NEW p,
         Request(op, c, rest, need, p), Start(op, c, rest, need, p),
         UNCHANGED <<channel, kernel>>, Beliefs'
  PROVE  CallInv'
<1> USE Constants
<1>0. UNCHANGED <<status, fd, offset, curr, max, buff, table, file, at>>
  BY DEF channel, kernel
<1>1. /\ call'.op = op /\ call'.chan = c /\ call'.rest = rest /\ call'.need = need
      /\ call'.n = 0 /\ call'.p = p /\ reply' = NoReply /\ status[c] = "live"
  BY DEF Start
<1>2. Pointers' /\ Kernel' /\ Descriptors'
  BY <1>0 DEF CallInv, Pointers, Kernel, Descriptors, OwnDescriptor
<1>3. Calling'
  <2>1. call' \in Calls
    BY <1>1 DEF Start, Calls, Request, Ops
  <2>2. QED
    BY <1>0, <1>1, <2>1, OpsDisjoint DEF Calling, Request, Ops, C
<1>4. Writing'
  BY <1>0, <1>1, OpsDisjoint DEF Writing, Request, C, CallInv, Pointers
<1>5. Receiving'
  BY <1>0, <1>1, OpsDisjoint DEF Receiving, Request, C, CallInv, Pointers, Descriptors, Ops
<1>6. QED
  BY <1>2, <1>3, <1>4, <1>5 DEF CallInv

\* A call that returns leaves the pointers and descriptors to be seen to.
LEMMA Returns ==
  ASSUME CallInv, NEW how, NEW n, ReturnLength(how, n),
         Pointers', Kernel', Descriptors', Beliefs'
  PROVE  CallInv'
<1>1. call' = Idle
  BY DEF ReturnLength
<1>2. call'.op = "idle" /\ call'.rest = <<>>
  BY <1>1 DEF Idle
<1>3. Calling'
  <2>1. call' \in Calls
    BY <1>1, Constants DEF Idle, Calls
  <2>2. QED
    BY <1>1, <1>2, <2>1, OpsDisjoint DEF Calling, Ops
<1>4. Writing' /\ Receiving'
  BY <1>2, OpsDisjoint DEF Writing, Receiving, Ops
<1>5. QED
  BY <1>3, <1>4 DEF CallInv

\* A call that only prepares a system call.
LEMMA Attempts ==
  ASSUME CallInv, call.op # "idle", NEW n \in 0 .. Size, Attempt(n),
         UNCHANGED <<status, fd>>, Pointers', Kernel', Descriptors', Beliefs', Writing', Receiving'
  PROVE  CallInv'
<1>1. call' = [call EXCEPT !.n = n] /\ UNCHANGED reply
  BY DEF Attempt, Go
<1>2. call \in Calls /\ call.op # "idle"
  BY DEF CallInv, Calling
<1>3. call' \in Calls /\ call'.op = call.op /\ call'.chan = call.chan /\ call'.rest = call.rest
  BY <1>1, <1>2 DEF Calls
<1>4. Calling'
  BY <1>1, <1>2, <1>3 DEF CallInv, Calling, C
<1>5. QED
  BY <1>4 DEF CallInv

LEMMA OpenKeeps == ASSUME CallInv, NEW c \in Chan, Open(c) PROVE CallInv'
<1> USE Constants
<1>1. PICK d \in Fds : /\ table[d] = None /\ table' = [table EXCEPT ![d] = c]
                       /\ fd' = [fd EXCEPT ![c] = d]
  BY DEF Open
<1>2. /\ status' = [status EXCEPT ![c] = "live"] /\ status[c] = "new"
      /\ UNCHANGED <<offset, curr, max, buff, file, at, said, place>> /\ Return("ok")
  BY DEF Open, aux
<1>3. fd[c] = NoFd /\ d # NoFd
  BY <1>2 DEF CallInv, Descriptors
<1>4. Pointers' /\ Kernel' /\ Beliefs'
  BY <1>1, <1>2 DEF CallInv, Pointers, Kernel, Beliefs
<1>5. \A e \in Chan : e # c => fd'[e] = fd[e] /\ status'[e] = status[e]
  BY <1>1, <1>2 DEF CallInv, Pointers
<1>6. fd'[c] = d /\ status'[c] = "live" /\ table'[d] = c
  BY <1>1, <1>2 DEF CallInv, Pointers, Kernel
<1>7. \A e \in Fds : e # d => table'[e] = table[e]
  BY <1>1 DEF CallInv, Kernel
<1>8. OwnDescriptor'
  <2>1. ASSUME NEW e \in Chan, fd'[e] # NoFd PROVE table'[fd'[e]] = e
    BY <1>1, <1>5, <1>6, <1>7, <2>1 DEF CallInv, Descriptors, OwnDescriptor, Pointers
  <2>2. ASSUME NEW e \in Fds, table'[e] # None
        PROVE  fd'[table'[e]] = e /\ status'[table'[e]] = "live"
    <3>1. CASE e = d
      BY <1>6, <3>1
    <3>2. CASE e # d
      <4>1. table'[e] = table[e] /\ table[e] # None /\ table[e] \in Chan
        BY <1>7, <2>2, <3>2 DEF CallInv, Kernel
      <4>2. fd[table[e]] = e /\ status[table[e]] = "live"
        BY <4>1 DEF CallInv, Descriptors, OwnDescriptor
      <4>3. QED
        BY <1>3, <1>5, <4>1, <4>2
    <3>3. QED
      BY <3>1, <3>2
  <2>3. QED
    BY <2>1, <2>2 DEF OwnDescriptor
<1>9. Descriptors'
  BY <1>2, <1>3, <1>5, <1>6, <1>8 DEF CallInv, Descriptors
<1>10. QED
  BY <1>2, <1>4, <1>9, Returns DEF Return

\* The descriptor that is given back is the one of the channel.
LEMMA CloseFdKeeps ==
  ASSUME CallInv, NEW c \in Chan, CloseFd(c), fd' = [fd EXCEPT ![c] = NoFd],
         \A e \in Chan : e # c => status'[e] = status[e]
  PROVE  table' \in [Fds -> Chan \cup {None}] /\ OwnDescriptor'
<1> USE Constants
<1>1. table' = [d \in Fds |-> IF d = fd[c] THEN None ELSE table[d]]
  BY DEF CloseFd
<1>2. table' \in [Fds -> Chan \cup {None}]
  BY <1>1 DEF CallInv, Kernel
<1>3. fd'[c] = NoFd /\ \A e \in Chan : e # c => fd'[e] = fd[e]
  BY DEF CallInv, Pointers
<1>4. ASSUME NEW e \in Chan, fd'[e] # NoFd PROVE table'[fd'[e]] = e
  <2>1. e # c /\ fd'[e] = fd[e] /\ fd[e] \in Fds /\ table[fd[e]] = e
    BY <1>3, <1>4 DEF CallInv, Descriptors, OwnDescriptor, Pointers
  <2>2. fd[e] # fd[c]
    BY <2>1 DEF CallInv, Descriptors, OwnDescriptor
  <2>3. QED
    BY <1>1, <2>1, <2>2
<1>5. ASSUME NEW d \in Fds, table'[d] # None
      PROVE  fd'[table'[d]] = d /\ status'[table'[d]] = "live"
  <2>1. d # fd[c] /\ table'[d] = table[d] /\ table[d] \in Chan
    BY <1>1, <1>5 DEF CallInv, Kernel
  <2>2. fd[table[d]] = d /\ status[table[d]] = "live"
    BY <1>5, <2>1 DEF CallInv, Descriptors, OwnDescriptor
  <2>3. table[d] # c
    BY <2>1, <2>2
  <2>4. QED
    BY <1>3, <2>1, <2>2, <2>3
<1>6. QED
  BY <1>2, <1>4, <1>5 DEF OwnDescriptor

LEMMA ShutKeeps ==
  ASSUME CallInv, NEW c \in Chan, status[c] = "live", Shut(c), Return("ok")
  PROVE  CallInv'
<1> USE Constants
<1>1. /\ CloseFd(c) /\ fd' = [fd EXCEPT ![c] = NoFd]
      /\ curr' = [curr EXCEPT ![c] = Size] /\ max' = [max EXCEPT ![c] = Size]
      /\ UNCHANGED <<status, offset, buff, file, at, said, place>>
  BY DEF Shut, aux
<1>2. table' \in [Fds -> Chan \cup {None}] /\ OwnDescriptor'
  BY <1>1, CloseFdKeeps
<1>3. Pointers' /\ Kernel' /\ Beliefs'
  BY <1>1, <1>2 DEF CallInv, Pointers, Kernel, Beliefs
<1>4. Descriptors'
  BY <1>1, <1>2 DEF CallInv, Descriptors, Pointers
<1>5. QED
  BY <1>3, <1>4, Returns DEF Return

LEMMA FreeKeeps ==
  ASSUME CallInv, NEW c \in Chan, status[c] = "live", FreeChannel(c), Return("ok")
  PROVE  CallInv'
<1> USE Constants
<1>1. /\ CloseFd(c) /\ fd' = [fd EXCEPT ![c] = NoFd]
      /\ status' = [status EXCEPT ![c] = "freed"]
      /\ UNCHANGED <<offset, curr, max, buff, file, at, said, place>>
  BY DEF FreeChannel, aux
<1>2. status'[c] = "freed" /\ \A e \in Chan : e # c => status'[e] = status[e]
  BY <1>1 DEF CallInv, Pointers
<1>3. table' \in [Fds -> Chan \cup {None}] /\ OwnDescriptor'
  BY <1>1, <1>2, CloseFdKeeps
<1>4. Pointers' /\ Kernel' /\ Beliefs'
  BY <1>1, <1>3 DEF CallInv, Pointers, Kernel, Beliefs
<1>5. Descriptors'
  BY <1>1, <1>2, <1>3 DEF CallInv, Descriptors, Pointers
<1>6. QED
  BY <1>4, <1>5, Returns DEF Return

\* Calls for output begin.
LEMMA OutputStarts ==
  ASSUME CallInv, NEW c \in Outs, NEW op \in PutOps, NEW s \in Seq(Byte),
         op = "putch" => Len(s) >= 1, Output(op, c, s)
  PROVE  CallInv'
<1> USE Constants
<1>1. /\ Start(op, c, s, 0, 0) /\ said' = [said EXCEPT ![c] = @ \o s]
      /\ UNCHANGED <<channel, kernel, place, heard>>
  BY DEF Output
<1>2. Request(op, c, s, 0, 0)
  BY OpsDisjoint DEF Request, Ops, PutOps
<1>3. Beliefs'
  <2>1. said[c] \in Seq(Byte)
    BY DEF CallInv, Beliefs
  <2>2. said[c] \o s \in Seq(Byte)
    BY <2>1, ConcatProperties
  <2>3. QED
    BY <1>1, <2>2 DEF CallInv, Beliefs
<1>4. UNCHANGED <<channel, kernel>>
  BY <1>1
<1>5. QED
  BY <1>1, <1>2, <1>3, <1>4, Starts

\* Calls that say nothing begin.
LEMMA QuietStarts ==
  ASSUME CallInv, NEW c \in Outs, NEW op \in {"flush", "close", "finalize", "flush_partial", "seek_out"},
         NEW p \in Nat, op # "seek_out" => fd[c] # NoFd, Quiet(op, c, p)
  PROVE  CallInv'
<1>1. Start(op, c, <<>>, 0, p) /\ UNCHANGED <<channel, kernel>> /\ UNCHANGED aux
  BY DEF Quiet
<1>2. Request(op, c, <<>>, 0, p)
  BY OpsDisjoint, EmptySeq, Constants DEF Request, Ops
<1>3. Beliefs'
  BY <1>1 DEF aux, CallInv, Beliefs
<1>4. QED
  BY <1>1, <1>2, <1>3, Starts

LEMMA InputStarts ==
  ASSUME CallInv, NEW c \in Ins, NEW op \in ReadOps, NEW need \in Nat,
         op \in {"getch", "getblock"} => need >= 1, Input(op, c, need)
  PROVE  CallInv'
<1>1. Start(op, c, <<>>, need, curr[c]) /\ UNCHANGED <<channel, kernel, said, place>>
  BY DEF Input
<1>2. Request(op, c, <<>>, need, curr[c])
  BY OpsDisjoint, EmptySeq, Constants DEF Request, Ops, CallInv, Pointers
<1>3. Beliefs'
  BY <1>1 DEF CallInv, Beliefs
<1>4. UNCHANGED <<channel, kernel>>
  BY <1>1
<1>5. QED
  BY <1>1, <1>2, <1>3, <1>4, Starts

\* The call goes on with another rest of its request.
LEMMA GoesOn ==
  ASSUME call \in Calls, NEW r \in Seq(Byte), call' = [call EXCEPT !.rest = r, !.n = 0]
  PROVE  /\ call' \in Calls /\ call'.op = call.op /\ call'.chan = call.chan
         /\ call'.n = 0 /\ call'.rest = r
<1>1. /\ DOMAIN call = {"op", "chan", "rest", "need", "n", "p"}
      /\ call.op \in {"idle"} \cup WriteOps \cup ReadOps /\ call.chan \in Chan \cup {None}
      /\ call.need \in Nat /\ call.p \in Nat
      /\ call = [op |-> call.op, chan |-> call.chan, rest |-> call.rest, need |-> call.need,
                 n |-> call.n, p |-> call.p]
  BY DEF Calls
<1>2. call' = [op |-> call.op, chan |-> call.chan, rest |-> r, need |-> call.need,
               n |-> 0, p |-> call.p]
  BY <1>1
<1>3. 0 \in 0 .. Size
  BY Constants
<1>4. QED
  BY <1>1, <1>2, <1>3 DEF Calls

\* A byte of the request is stored, and the rest of it is still to come.
LEMMA AfterStoreKeeps ==
  ASSUME CallInv, call.op = "putch", AfterStore, UNCHANGED <<status, fd>>,
         Pointers', Kernel', Descriptors', Beliefs'
  PROVE  CallInv'
<1>0. call \in Calls /\ C \in Outs /\ Len(call.rest) >= 1 /\ call.rest \in Seq(Byte)
  BY OpsDisjoint DEF CallInv, Calling, Writing, Calls
<1>1. CASE Len(call.rest) = 1
  BY <1>1, Returns DEF AfterStore, Return
<1>2. CASE Len(call.rest) # 1
  <2>0. PICK r : r = Tail(call.rest)
    OBVIOUS
  <2>1. call' = [call EXCEPT !.rest = r, !.n = 0] /\ UNCHANGED reply
    BY <1>2, <2>0 DEF AfterStore, Go
  <2>2. r \in Seq(Byte) /\ Len(r) = Len(call.rest) - 1
    BY <1>0, <2>0, HeadTailProperties, EmptySeq
  <2>3. /\ call' \in Calls /\ call'.op = call.op /\ call'.chan = call.chan
        /\ call'.n = 0 /\ call'.rest = r
    BY <1>0, <2>1, <2>2, GoesOn
  <2>4. Len(call'.rest) >= 1
    <3>0. PICK l : l = Len(call.rest)
      OBVIOUS
    <3>1. l \in Nat /\ l >= 1 /\ l # 1
      BY <1>0, <1>2, <3>0, LenProperties
    <3>2. l >= 2
      BY ONLY <3>1
    <3>3. Len(r) >= 1
      BY <2>2, <3>0, <3>2
    <3>4. QED
      BY <2>3, <3>3
  <2>5. Calling'
    BY <2>1, <2>3, OpsDisjoint DEF CallInv, Calling, C, PutOps
  <2>6. Writing' /\ Receiving'
    BY <1>0, <2>3, <2>4, OpsDisjoint, Constants DEF Writing, Receiving, C, Pointers
  <2>7. QED
    BY <2>5, <2>6 DEF CallInv
<1>3. QED
  BY <1>1, <1>2

LEMMA RestOfCells == ASSUME CallInv PROVE call.rest \in Seq(Byte) /\ call.rest \in Seq(Cell)
<1>1. call.rest \in Seq(Byte)
  BY DEF CallInv, Calling, Calls
<1>2. QED
  BY <1>1, Constants, SeqMonotonic

LEMMA PutCharKeeps == ASSUME CallInv, PutChar PROVE CallInv'
<1> USE Constants
<1>0. call.op = "putch" /\ C \in Outs /\ C \in Chan /\ status[C] = "live"
  BY OpsDisjoint DEF PutChar, CallInv, Calling
<1>1. UNCHANGED <<status, fd, offset, max, table, file, at, said, place>>
  BY DEF PutChar, kernel, aux
<1>2. CASE /\ curr[C] < Size
           /\ buff' = [buff EXCEPT ![C] = Stored(@, curr[C])]
           /\ curr' = [curr EXCEPT ![C] = @ + 1]
           /\ AfterStore
  <2>1. Head(call.rest) \in Cell
    <3>1. call.rest # <<>>
      BY <1>0, EmptySeq DEF CallInv, Writing
    <3>2. QED
      BY <3>1, RestOfCells, HeadTailProperties
  <2>2. <<Head(call.rest)>> \in Seq(Cell) /\ Len(<<Head(call.rest)>>) = 1
    BY <2>1
  <2>3. buff[C] \in [1 .. Size -> Cell] /\ curr[C] \in 0 .. Size /\ curr[C] + 1 <= Size
    BY <1>0, <1>2 DEF CallInv, Pointers
  <2>4. Stored(buff[C], curr[C]) \in [1 .. Size -> Cell]
    BY <2>2, <2>3, PutBehind DEF Stored
  <2>5. Pointers' /\ Kernel' /\ Beliefs'
    BY <1>0, <1>1, <1>2, <2>3, <2>4 DEF CallInv, Pointers, Kernel, Beliefs
  <2>6. Descriptors'
    BY <1>0, <1>1, <1>2 DEF CallInv, Descriptors, OwnDescriptor, Pointers
  <2>7. QED
    BY <1>0, <1>1, <1>2, <2>5, <2>6, AfterStoreKeeps
<1>3. CASE curr[C] >= Size /\ Attempt(curr[C]) /\ UNCHANGED <<buff, curr>>
  <2>1. Pointers' /\ Kernel' /\ Beliefs' /\ Descriptors'
    BY <1>1, <1>3 DEF CallInv, Pointers, Kernel, Beliefs, Descriptors, OwnDescriptor
  <2>2. curr[C] \in 0 .. Size
    BY <1>0 DEF CallInv, Pointers
  <2>3. /\ call'.op = call.op /\ call'.chan = call.chan /\ call'.rest = call.rest
        /\ call'.n = curr[C]
    BY <1>3 DEF Attempt, Go, CallInv, Calling, Calls
  <2>4. Writing' /\ Receiving'
    BY <1>0, <1>3, <2>2, <2>3 DEF Writing, Receiving, C, CallInv
  <2>5. QED
    BY <1>0, <1>1, <1>3, <2>1, <2>2, <2>4, Attempts
<1>4. QED
  BY <1>2, <1>3 DEF PutChar

LEMMA PutBlockKeeps == ASSUME CallInv, PutBlock PROVE CallInv'
<1> USE Constants
<1> DEFINE free == Size - curr[C]
<1>0. call.op = "putblock" /\ call.n = 0 /\ C \in Outs /\ C \in Chan /\ status[C] = "live"
  BY OpsDisjoint DEF PutBlock, CallInv, Calling
<1>1. UNCHANGED <<status, fd, offset, max, table, file, at, said, place>>
  BY DEF PutBlock, kernel, aux
<1>2. /\ buff[C] \in [1 .. Size -> Cell] /\ curr[C] \in 0 .. Size
      /\ Len(call.rest) \in Nat
  BY <1>0, RestOfCells, LenProperties DEF CallInv, Pointers
<1>3. CASE /\ Len(call.rest) <= free
           /\ buff' = [buff EXCEPT ![C] = Put(@, curr[C], call.rest)]
           /\ curr' = [curr EXCEPT ![C] = @ + Len(call.rest)]
           /\ Return("ok")
  <2>1. curr[C] + Len(call.rest) \in 0 .. Size
    BY <1>2, <1>3
  <2>2. Put(buff[C], curr[C], call.rest) \in [1 .. Size -> Cell]
    BY <1>2, <2>1, RestOfCells, PutBehind
  <2>3. Pointers' /\ Kernel' /\ Beliefs'
    BY <1>0, <1>1, <1>3, <2>1, <2>2 DEF CallInv, Pointers, Kernel, Beliefs
  <2>4. Descriptors'
    BY <1>0, <1>1, <1>2, <1>3, <2>1 DEF CallInv, Descriptors, OwnDescriptor, Pointers
  <2>5. QED
    BY <1>3, <2>3, <2>4, Returns DEF Return
<1>4. CASE /\ Len(call.rest) > free
           /\ buff' = [buff EXCEPT ![C] = Put(@, curr[C], SubSeq(call.rest, 1, free))]
           /\ Attempt(Size) /\ UNCHANGED curr
  <2>1. SubSeq(call.rest, 1, free) \in Seq(Cell) /\ Len(SubSeq(call.rest, 1, free)) = free
    <3>1. \A i \in 1 .. free : call.rest[i] \in Cell
      BY <1>2, <1>4, RestOfCells, ElementOfSeq
    <3>2. free \in Nat
      BY <1>2
    <3> HIDE DEF free
    <3>3. QED
      BY <3>1, <3>2, SubSeqProperties
  <2>2. Put(buff[C], curr[C], SubSeq(call.rest, 1, free)) \in [1 .. Size -> Cell]
    <3>1. curr[C] + Len(SubSeq(call.rest, 1, free)) <= Size
      BY <1>2, <2>1
    <3> HIDE DEF free
    <3>2. QED
      BY <1>2, <2>1, <3>1, PutBehind
  <2>3. Pointers' /\ Kernel' /\ Beliefs'
    BY <1>0, <1>1, <1>4, <2>2 DEF CallInv, Pointers, Kernel, Beliefs
  <2>4. Descriptors'
    BY <1>0, <1>1, <1>4 DEF CallInv, Descriptors, OwnDescriptor, Pointers
  <2>5. /\ call'.op = call.op /\ call'.chan = call.chan /\ call'.rest = call.rest
        /\ call'.n = Size
    BY <1>4 DEF Attempt, Go, CallInv, Calling, Calls
  <2>6. Writing' /\ Receiving'
    BY <1>0, <1>4, <2>5 DEF Writing, Receiving, C, CallInv
  <2>7. QED
    BY <1>0, <1>1, <1>4, <2>3, <2>4, <2>6, Attempts
<1>5. QED
  BY <1>0, <1>3, <1>4 DEF PutBlock

LEMMA FlushKeeps == ASSUME CallInv, Flush PROVE CallInv'
<1> USE Constants
<1>0. call.op \in FlushOps \cup {"flush_partial"} /\ C \in Outs /\ C \in Chan /\ Attempt(curr[C])
  BY OpsDisjoint DEF Flush, CallInv, Calling
<1>1. UNCHANGED <<status, fd, offset, curr, max, buff, table, file, at, said, place>>
  BY DEF Flush, channel, kernel, aux
<1>2. curr[C] \in 0 .. Size
  BY <1>0 DEF CallInv, Pointers
<1>3. Pointers' /\ Kernel' /\ Beliefs' /\ Descriptors'
  BY <1>1 DEF CallInv, Pointers, Kernel, Beliefs, Descriptors, OwnDescriptor
<1>4. /\ call'.op = call.op /\ call'.chan = call.chan /\ call'.rest = call.rest
      /\ call'.n = curr[C]
  BY <1>0 DEF Attempt, Go, CallInv, Calling, Calls
<1>5. Writing' /\ Receiving'
  BY <1>0, <1>1, <1>2, <1>4, OpsDisjoint DEF Writing, Receiving, C, CallInv, FlushOps
<1>6. QED
  BY <1>0, <1>1, <1>2, <1>3, <1>5, OpsDisjoint, Attempts DEF FlushOps

LEMMA FlushedKeeps == ASSUME CallInv, Flushed PROVE CallInv'
<1> USE Constants
<1>0. call.op \in WriteOps /\ C \in Outs /\ C \in Chan /\ status[C] = "live" /\ call.p \in Nat
  BY OpsDisjoint DEF Flushed, CallInv, Calling, FlushOps, Calls, Ops
<1>1. CASE UNCHANGED <<channel, kernel, aux>> /\ (Return("ok") \/ Return("error"))
  <2>1. UNCHANGED <<status, fd, offset, curr, max, buff, table, file, at, said, place>>
    BY <1>1 DEF channel, kernel, aux
  <2>2. Pointers' /\ Kernel' /\ Beliefs' /\ Descriptors'
    BY <2>1 DEF CallInv, Pointers, Kernel, Beliefs, Descriptors, OwnDescriptor
  <2>3. QED
    BY <1>1, <2>2, Returns DEF Return
<1>2. CASE Shut(C) /\ Return("ok")
  BY <1>0, <1>2, ShutKeeps
<1>3. CASE FreeChannel(C) /\ Return("ok")
  BY <1>0, <1>3, FreeKeeps
<1>4. CASE /\ offset' = [offset EXCEPT ![C] = call.p] /\ Return("ok")
           /\ UNCHANGED <<status, fd, curr, max, buff, kernel, aux>>
  <2>1. UNCHANGED <<status, fd, curr, max, buff, table, file, at, said, place>>
    BY <1>4 DEF kernel, aux
  <2>2. Pointers' /\ Kernel' /\ Beliefs' /\ Descriptors'
    BY <1>0, <1>4, <2>1 DEF CallInv, Pointers, Kernel, Beliefs, Descriptors, OwnDescriptor
  <2>3. QED
    BY <1>4, <2>2, Returns DEF Return
<1>5. QED
  BY <1>1, <1>2, <1>3, <1>4 DEF Flushed

\* What is written goes to the file of the channel.
LEMMA ToFileKeeps ==
  ASSUME CallInv, C \in Outs, NEW k \in 0 .. Size, ToFile(k)
  PROVE  /\ fd[C] \in Fds /\ table[fd[C]] = C
         /\ file' = [file EXCEPT ![C] = @ \o SubSeq(buff[C], 1, k)]
         /\ offset' \in [Chan -> Nat] /\ Kernel' /\ Beliefs'
         /\ UNCHANGED <<status, fd, table, at, said, place, heard>>
<1> USE Constants
<1>1. /\ Refers(fd[C]) /\ file' = [file EXCEPT ![table[fd[C]]] = @ \o SubSeq(buff[C], 1, k)]
      /\ offset' = [offset EXCEPT ![C] = @ + k]
      /\ UNCHANGED <<status, fd, table, at, said, place, heard>>
  BY DEF ToFile, aux
<1>2. fd[C] \in Fds /\ table[fd[C]] = C
  BY <1>1 DEF Refers, CallInv, Descriptors, OwnDescriptor
<1>3. file' = [file EXCEPT ![C] = @ \o SubSeq(buff[C], 1, k)]
  BY <1>1, <1>2
<1>4. SubSeq(buff[C], 1, k) \in Seq(Cell)
  <2>1. buff[C] \in [1 .. Size -> Cell]
    BY DEF CallInv, Pointers
  <2>2. QED
    BY <2>1, FrontOfBuffer
<1>5. file[C] \o SubSeq(buff[C], 1, k) \in Seq(Cell)
  BY <1>4, ConcatProperties DEF CallInv, Kernel
<1>6. Kernel' /\ Beliefs'
  <2>1. PICK f \in Seq(Cell) : f = file[C] \o SubSeq(buff[C], 1, k)
    BY <1>5
  <2>2. file' = [file EXCEPT ![C] = f]
    BY <1>3, <2>1
  <2>3. file' \in [Chan -> Seq(Cell)]
    BY <2>1, <2>2 DEF CallInv, Kernel
  <2>4. QED
    BY <1>1, <2>3 DEF CallInv, Kernel, Beliefs
<1>7. offset' \in [Chan -> Nat]
  BY <1>1 DEF CallInv, Pointers
<1>8. QED
  BY <1>1, <1>2, <1>3, <1>6, <1>7

LEMMA WrittenKeeps == ASSUME CallInv, Written PROVE CallInv'
<1> USE Constants
<1>0. /\ call.op \in WriteOps \ {"putblock"} /\ call.n > 0
      /\ C \in Outs /\ C \in Chan /\ status[C] = "live" /\ call.n <= curr[C]
  BY OpsDisjoint DEF Written, CallInv, Calling, Writing, Ops
<1>c. call.n \in Nat /\ curr[C] \in 0 .. Size /\ buff[C] \in [1 .. Size -> Cell]
  BY <1>0 DEF CallInv, Calling, Calls, Pointers
<1>k. PICK k \in 1 .. call.n :
        LET kept == Shift(buff[C], k, curr[C])
        IN /\ ToFile(k)
           /\ IF call.op = "putch"
              THEN /\ buff' = [buff EXCEPT ![C] = Stored(kept, curr[C] - k)]
                   /\ curr' = [curr EXCEPT ![C] = @ - k + 1]
                   /\ AfterStore
              ELSE /\ buff' = [buff EXCEPT ![C] = kept]
                   /\ curr' = [curr EXCEPT ![C] = @ - k]
                   /\ IF call.op = "flush_partial" THEN Return("ok") ELSE Attempt(0)
           /\ UNCHANGED max
  BY DEF Written
<1> DEFINE kept == Shift(buff[C], k, curr[C])
<1>1. k \in 0 .. Size /\ k \in 0 .. curr[C] /\ k >= 1
  BY <1>0, <1>c
<1>2. /\ fd[C] \in Fds /\ offset' \in [Chan -> Nat] /\ Kernel' /\ Beliefs'
      /\ UNCHANGED <<status, fd, table, at, said, place, max>>
  <2>1. ToFile(k) /\ UNCHANGED max
    BY <1>k
  <2>2. QED
    BY <1>0, <1>1, <2>1, ToFileKeeps
<1>3. kept \in [1 .. Size -> Cell]
  BY <1>c, <1>1, ShiftToFront
<1> HIDE DEF kept
<1>4. CASE call.op = "putch"
  <2>1. /\ buff' = [buff EXCEPT ![C] = Stored(kept, curr[C] - k)]
        /\ curr' = [curr EXCEPT ![C] = @ - k + 1] /\ AfterStore
    BY <1>k, <1>4 DEF kept
  <2>2. Head(call.rest) \in Cell
    <3>1. call.rest # <<>>
      BY <1>4, EmptySeq DEF CallInv, Writing
    <3>2. QED
      BY <3>1, RestOfCells, HeadTailProperties
  <2>3. Stored(kept, curr[C] - k) \in [1 .. Size -> Cell]
    <3>1. <<Head(call.rest)>> \in Seq(Cell) /\ Len(<<Head(call.rest)>>) = 1
      BY <2>2
    <3>2. PICK m \in 0 .. Size : m = curr[C] - k
      BY <1>c, <1>1
    <3>3. m + Len(<<Head(call.rest)>>) <= Size
      BY <1>c, <1>1, <3>1, <3>2
    <3>4. Put(kept, m, <<Head(call.rest)>>) \in [1 .. Size -> Cell]
      BY <1>3, <3>1, <3>3, PutBehind
    <3>5. QED
      BY <3>2, <3>4 DEF Stored
  <2>4. curr[C] - k + 1 \in 0 .. Size
    BY <1>c, <1>1
  <2>5. Pointers'
    BY <1>0, <1>2, <2>1, <2>3, <2>4 DEF CallInv, Pointers
  <2>6. Descriptors'
    BY <1>0, <1>2, <2>1 DEF CallInv, Descriptors, OwnDescriptor, Pointers
  <2>7. QED
    BY <1>2, <1>4, <2>1, <2>5, <2>6, AfterStoreKeeps
<1>5. CASE call.op # "putch"
  <2>1. /\ buff' = [buff EXCEPT ![C] = kept] /\ curr' = [curr EXCEPT ![C] = @ - k]
        /\ IF call.op = "flush_partial" THEN Return("ok") ELSE Attempt(0)
    BY <1>k, <1>5 DEF kept
  <2>2. curr[C] - k \in 0 .. Size
    BY <1>c, <1>1
  <2>3. Pointers'
    BY <1>0, <1>2, <1>3, <2>1, <2>2 DEF CallInv, Pointers
  <2>4. Descriptors'
    BY <1>0, <1>2, <2>1 DEF CallInv, Descriptors, OwnDescriptor, Pointers
  <2>5. CASE Return("ok")
    BY <1>2, <2>3, <2>4, <2>5, Returns DEF Return
  <2>6. CASE Attempt(0)
    <3>1. /\ call'.op = call.op /\ call'.chan = call.chan /\ call'.rest = call.rest
          /\ call'.n = 0
      BY <2>6 DEF Attempt, Go, CallInv, Calling, Calls
    <3>2. curr'[C] \in Nat
      BY <1>0, <2>1, <2>2 DEF CallInv, Pointers
    <3>3. Writing' /\ Receiving'
      BY <1>0, <1>2, <1>5, <3>1, <3>2, OpsDisjoint DEF Writing, Receiving, C, CallInv
    <3>4. call.op # "idle"
      BY <1>0, OpsDisjoint
    <3>5. QED
      BY <1>2, <2>3, <2>4, <2>6, <3>3, <3>4, Attempts
  <2>7. QED
    BY <2>1, <2>5, <2>6
<1>6. QED
  BY <1>4, <1>5

LEMMA BlockWrittenKeeps == ASSUME CallInv, BlockWritten PROVE CallInv'
<1> USE Constants
<1>0. /\ call.op = "putblock" /\ call.n > 0 /\ call \in Calls
      /\ C \in Outs /\ C \in Chan /\ status[C] = "live" /\ Len(call.rest) > Size - curr[C]
  BY OpsDisjoint DEF BlockWritten, CallInv, Calling, Writing, Ops
<1>c. call.n \in 0 .. Size /\ curr[C] \in 0 .. Size /\ buff[C] \in [1 .. Size -> Cell]
  BY <1>0 DEF CallInv, Calls, Pointers
<1>k. PICK k \in 1 .. call.n :
        /\ ToFile(k)
        /\ buff' = [buff EXCEPT ![C] = Shift(@, k, Size)]
        /\ curr' = [curr EXCEPT ![C] = Size - k]
        /\ max'  = [max EXCEPT ![C] = Size - k]
        /\ Go([call EXCEPT !.rest = Drop(@, Size - curr[C]), !.n = 0])
  BY DEF BlockWritten
<1>1. k \in 0 .. Size /\ k >= 1 /\ Size - k \in 0 .. Size
  BY <1>0, <1>c
<1>2. /\ fd[C] \in Fds /\ offset' \in [Chan -> Nat] /\ Kernel' /\ Beliefs'
      /\ UNCHANGED <<status, fd, table, at, said, place>>
  BY <1>0, <1>1, <1>k, ToFileKeeps
<1>3. Shift(buff[C], k, Size) \in [1 .. Size -> Cell]
  <2>1. Size \in 0 .. Size
    OBVIOUS
  <2>2. QED
    BY <1>c, <1>1, <2>1, ShiftToFront
<1>4. Pointers'
  BY <1>0, <1>1, <1>2, <1>3, <1>k DEF CallInv, Pointers
<1>5. Descriptors'
  BY <1>0, <1>2, <1>k DEF CallInv, Descriptors, OwnDescriptor, Pointers
<1>6. PICK r : r = Drop(call.rest, Size - curr[C])
  OBVIOUS
<1>7. r \in Seq(Byte)
  <2>1. call.rest \in Seq(Byte) /\ Len(call.rest) \in Nat
    BY RestOfCells, LenProperties
  <2>2. \A i \in Size - curr[C] + 1 .. Len(call.rest) : call.rest[i] \in Byte
    BY <1>c, <2>1, ElementOfSeq
  <2>3. Size - curr[C] + 1 \in Int /\ Len(call.rest) \in Int
    BY <1>c, <2>1
  <2>4. QED
    BY <1>6, <2>2, <2>3, SubSeqProperties DEF Drop
<1>8. call' = [call EXCEPT !.rest = r, !.n = 0] /\ UNCHANGED reply
  BY <1>6, <1>k DEF Go
<1>9. /\ call' \in Calls /\ call'.op = call.op /\ call'.chan = call.chan /\ call'.n = 0
  BY <1>0, <1>7, <1>8, GoesOn
<1>10. Calling'
  BY <1>0, <1>2, <1>8, <1>9, OpsDisjoint DEF CallInv, Calling, C, PutOps
<1>11. Writing' /\ Receiving'
  BY <1>0, <1>9 DEF Writing, Receiving, C
<1>12. QED
  BY <1>2, <1>4, <1>5, <1>10, <1>11 DEF CallInv

LEMMA WouldBlockKeeps == ASSUME CallInv, WouldBlock PROVE CallInv'
<1> USE Constants
<1>0. /\ call.op \in WriteOps /\ call.n > 1 /\ Attempt(1) /\ call.op # "idle"
      /\ call.n \in 0 .. Size
  BY OpsDisjoint DEF WouldBlock, CallInv, Calling, Calls, Ops
<1>1. UNCHANGED <<status, fd, offset, curr, max, buff, table, file, at, said, place>>
  BY DEF WouldBlock, channel, kernel, aux
<1>2. Pointers' /\ Kernel' /\ Beliefs' /\ Descriptors'
  BY <1>1 DEF CallInv, Pointers, Kernel, Beliefs, Descriptors, OwnDescriptor
<1>3. /\ call'.op = call.op /\ call'.chan = call.chan /\ call'.rest = call.rest
      /\ call'.n = 1
  BY <1>0 DEF Attempt, Go, CallInv, Calling, Calls
<1>4. C \in Chan /\ curr[C] \in Nat
  BY <1>0 DEF CallInv, Calling, Pointers
<1>5. Writing' /\ Receiving'
  BY <1>0, <1>1, <1>3, <1>4, OpsDisjoint DEF Writing, Receiving, C, CallInv
<1>6. 1 \in 0 .. Size
  OBVIOUS
<1>7. QED
  BY <1>0, <1>1, <1>2, <1>5, <1>6, Attempts

LEMMA WriteFailsKeeps == ASSUME CallInv, WriteFails PROVE CallInv'
<1> USE Constants
<1>0. /\ C \in Outs /\ Return("error")
      /\ said' = [said EXCEPT ![C] = SubSeq(@, 1, Len(@) - Len(call.rest))]
      /\ UNCHANGED <<status, fd, offset, curr, max, buff, table, file, at, place>>
  BY OpsDisjoint DEF WriteFails, CallInv, Calling, channel, kernel
<1>1. said[C] \in Seq(Byte) /\ Len(said[C]) \in Nat /\ Len(call.rest) \in Nat
  BY <1>0, RestOfCells, LenProperties DEF CallInv, Beliefs
<1>2. SubSeq(said[C], 1, Len(said[C]) - Len(call.rest)) \in Seq(Byte)
  <2>1. \A i \in 1 .. Len(said[C]) - Len(call.rest) : said[C][i] \in Byte
    BY <1>1, ElementOfSeq
  <2>2. 1 \in Int /\ Len(said[C]) - Len(call.rest) \in Int
    BY <1>1
  <2>3. QED
    BY <2>1, <2>2, SubSeqProperties
<1>3. Pointers' /\ Kernel' /\ Beliefs' /\ Descriptors'
  BY <1>0, <1>2 DEF CallInv, Pointers, Kernel, Beliefs, Descriptors, OwnDescriptor
<1>4. QED
  BY <1>0, <1>3, Returns DEF Return

\* read() gives some of the bytes at the position of the descriptor, and nothing only at
\* the end of the file.
LEMMA ServedFromFile ==
  ASSUME CallInv, C \in Ins, Refers(fd[C]), NEW n \in 1 .. Size, NEW s \in Served(n)
  PROVE  /\ fd[C] \in Fds /\ table[fd[C]] = C
         /\ s \in Seq(Cell) /\ Len(s) \in 0 .. n
         /\ \A i \in 1 .. Len(s) : s[i] = file[C][at[C] + i]
         /\ s = <<>> => Len(file[C]) <= at[C]
         /\ s # <<>> => Len(s) >= 1 /\ at[C] + Len(s) <= Len(file[C])
<1> USE Constants
<1>1. fd[C] \in Fds /\ table[fd[C]] = C
  BY DEF Refers, CallInv, Descriptors, OwnDescriptor
<1>2. PICK f \in Seq(Cell), from \in Nat : f = file[C] /\ from = at[C]
  BY DEF CallInv, Kernel
<1>3. PICK there : there = Lesser(n, Len(f) - from)
  OBVIOUS
<1>4. Len(f) \in Nat
  BY LenProperties
<1>5. there \in Int /\ there <= n /\ there <= Len(f) - from
      /\ (there <= 0 => Len(f) <= from)
  BY <1>3, <1>4 DEF Lesser
<1>6. s \in IF there <= 0 THEN {<<>>} ELSE {SubSeq(f, from + 1, from + k) : k \in 1 .. there}
  BY <1>1, <1>2, <1>3 DEF Served
<1>7. CASE there <= 0
  <2>1. s = <<>> /\ s \in Seq(Cell) /\ Len(s) = 0
    BY <1>6, <1>7, EmptySeq
  <2>2. QED
    BY <1>1, <1>2, <1>5, <1>7, <2>1
<1>8. CASE there > 0
  <2>1. PICK k \in 1 .. there : s = SubSeq(f, from + 1, from + k)
    BY <1>5, <1>6, <1>8
  <2>2. \A i \in from + 1 .. from + k : f[i] \in Cell
    BY <1>4, <1>5, <2>1, ElementOfSeq
  <2>3. PICK m \in Int, l \in Int : m = from + 1 /\ l = from + k
    BY <1>5, <2>1
  <2>4. /\ SubSeq(f, m, l) \in Seq(Cell)
        /\ Len(SubSeq(f, m, l)) = (IF m <= l THEN l - m + 1 ELSE 0)
        /\ \A i \in 1 .. l - m + 1 : SubSeq(f, m, l)[i] = f[m + i - 1]
    BY <2>2, <2>3, SubSeqProperties
  <2>k. l - m + 1 = k /\ m <= l /\ s = SubSeq(f, m, l)
    BY <1>5, <2>1, <2>3
  <2>5. s \in Seq(Cell) /\ Len(s) = k /\ \A i \in 1 .. k : s[i] = f[m + i - 1]
    BY <2>4, <2>k
  <2>6. \A i \in 1 .. k : s[i] = f[from + i]
    BY <1>5, <2>3, <2>5
  <2>7. k \in 1 .. n /\ from + k <= Len(f)
    BY <1>4, <1>5, <2>1
  <2>8. s # <<>>
    BY <2>5, <2>7, EmptySeq
  <2>9. QED
    BY <1>1, <1>2, <2>5, <2>6, <2>7, <2>8
<1>9. QED
  BY <1>5, <1>7, <1>8

\* The buffer takes what read() has given.
LEMMA FromFileKeeps ==
  ASSUME CallInv, C \in Ins, Refers(fd[C]), NEW n \in 1 .. Size, NEW s \in Served(n),
         NEW from \in 0 .. Size, from + n <= Size, FromFile(s, from)
  PROVE  /\ max' = [max EXCEPT ![C] = from + Len(s)] /\ from + Len(s) \in 0 .. Size
         /\ buff' = [buff EXCEPT ![C] = Put(@, from, s)]
         /\ buff' \in [Chan -> [1 .. Size -> Cell]]
         /\ at' = [at EXCEPT ![C] = @ + Len(s)] /\ at' \in [Ins -> Nat]
         /\ offset' = [offset EXCEPT ![C] = @ + Len(s)] /\ offset' \in [Chan -> Nat]
         /\ UNCHANGED <<status, fd, table, file>>
         /\ Kernel'
<1> USE Constants
<1>1. /\ at' = [at EXCEPT ![table[fd[C]]] = @ + Len(s)]
      /\ offset' = [offset EXCEPT ![C] = @ + Len(s)]
      /\ buff' = [buff EXCEPT ![C] = Put(@, from, s)]
      /\ max' = [max EXCEPT ![C] = from + Len(s)]
      /\ UNCHANGED <<status, fd, table, file>>
  BY DEF FromFile
<1>2. table[fd[C]] = C /\ s \in Seq(Cell) /\ Len(s) \in 0 .. n
  BY ServedFromFile
<1>3. from + Len(s) \in 0 .. Size /\ Len(s) \in Nat
  BY <1>2
<1>4. Put(buff[C], from, s) \in [1 .. Size -> Cell]
  <2>1. buff[C] \in [1 .. Size -> Cell] /\ from + Len(s) <= Size
    BY <1>3 DEF CallInv, Pointers
  <2>2. QED
    BY <1>2, <2>1, PutBehind
<1>5. buff' \in [Chan -> [1 .. Size -> Cell]]
  BY <1>1, <1>4 DEF CallInv, Pointers
<1>6. at' = [at EXCEPT ![C] = @ + Len(s)] /\ at' \in [Ins -> Nat]
  BY <1>1, <1>2, <1>3 DEF CallInv, Kernel
<1>7. offset' \in [Chan -> Nat]
  BY <1>1, <1>3 DEF CallInv, Pointers
<1>8. Kernel'
  BY <1>1, <1>6 DEF CallInv, Kernel
<1>9. QED
  BY <1>1, <1>3, <1>5, <1>6, <1>7, <1>8

\* k bytes have been got.
LEMMA AfterGetKeeps ==
  ASSUME CallInv, call.op \in {"getch", "getblock"}, NEW k \in Nat, k <= call.need, AfterGet(k),
         UNCHANGED status, Pointers', Kernel', Descriptors', Beliefs'
  PROVE  CallInv'
<1> USE Constants
<1>0. call \in Calls /\ C \in Ins /\ status'[C] = "live" /\ call.need \in Nat /\ call.rest = <<>>
  BY OpsDisjoint DEF CallInv, Calling, Calls, PutOps
<1>1. CASE call.need = k
  BY <1>1, Returns DEF AfterGet, Return
<1>2. CASE call.need # k
  <2>0. PICK m \in Nat : m = call.need - k /\ m >= 1
    BY <1>0, <1>2
  <2>1. call' = [call EXCEPT !.need = m, !.n = 0] /\ UNCHANGED reply
    BY <1>2, <2>0 DEF AfterGet, Go
  <2>2. /\ call'.op = call.op /\ call'.chan = call.chan /\ call'.rest = call.rest
        /\ call'.need = m /\ call'.n = 0 /\ call' \in Calls
    <3>1. /\ call.op \in {"idle"} \cup WriteOps \cup ReadOps /\ call.chan \in Chan \cup {None}
          /\ call.rest \in Seq(Byte) /\ call.p \in Nat
          /\ call = [op |-> call.op, chan |-> call.chan, rest |-> call.rest, need |-> call.need,
                     n |-> call.n, p |-> call.p]
      BY <1>0 DEF Calls
    <3>2. call' = [op |-> call.op, chan |-> call.chan, rest |-> call.rest, need |-> m,
                   n |-> 0, p |-> call.p]
      BY <2>1, <3>1
    <3>3. 0 \in 0 .. Size
      OBVIOUS
    <3>4. QED
      BY <2>0, <3>1, <3>2, <3>3 DEF Calls
  <2>3. Calling'
    BY <1>0, <2>1, <2>2, OpsDisjoint DEF CallInv, Calling, C, PutOps
  <2>4. Writing' /\ Receiving'
    BY <2>0, <2>2, OpsDisjoint DEF Writing, Receiving, C
  <2>5. QED
    BY <2>3, <2>4 DEF CallInv
<1>3. QED
  BY <1>1, <1>2

\* The program hears of s.
LEMMA HearKeeps ==
  ASSUME CallInv, C \in Ins, NEW s, Len(s) \in Nat, Hear(s)
  PROVE  Beliefs' /\ UNCHANGED said /\ place' = [place EXCEPT ![C] = @ + Len(s)]
  BY DEF Hear, CallInv, Beliefs

\* Calls for input that are under way.
LEMMA ReadState ==
  ASSUME CallInv, call.op \in ReadOps
  PROVE  /\ C \in Ins /\ C \in Chan /\ status[C] = "live" /\ call \in Calls /\ call.op # "idle"
         /\ call.n \in 0 .. Size /\ call.need \in Nat /\ call.p \in Nat /\ call.rest = <<>>
         /\ curr[C] \in 0 .. Size /\ max[C] \in 0 .. Size /\ curr[C] <= max[C]
         /\ buff[C] \in [1 .. Size -> Cell]
<1>1. /\ C \in Ins /\ C \in Chan /\ status[C] = "live" /\ call \in Calls /\ call.op # "idle"
      /\ call.rest = <<>>
  BY OpsDisjoint, Constants DEF CallInv, Calling, Ops
<1>2. QED
  BY <1>1 DEF CallInv, Calls, Pointers, Descriptors

LEMMA GetCharKeeps == ASSUME CallInv, GetChar PROVE CallInv'
<1> USE Constants
<1>0. call.op = "getch" /\ call.n = 0 /\ call.op \in ReadOps
  BY OpsDisjoint DEF GetChar
<1>1. UNCHANGED <<status, fd, offset, max, buff, table, file, at>>
  BY DEF GetChar, kernel
<1>r. /\ C \in Ins /\ C \in Chan /\ status[C] = "live" /\ call \in Calls /\ call.op # "idle"
      /\ call.need \in Nat /\ curr[C] \in 0 .. Size /\ max[C] \in 0 .. Size /\ curr[C] <= max[C]
  BY <1>0, ReadState
<1>2. CASE /\ curr[C] < max[C] /\ curr' = [curr EXCEPT ![C] = @ + 1]
           /\ Hear(<<buff[C][curr[C] + 1]>>) /\ AfterGet(1)
  <2>1. Len(<<buff[C][curr[C] + 1]>>) \in Nat
    OBVIOUS
  <2>2. Beliefs'
    BY <1>2, <1>r, <2>1, HearKeeps
  <2>3. curr[C] + 1 \in 0 .. Size /\ curr[C] + 1 <= max[C]
    BY <1>2, <1>r
  <2>4. Pointers' /\ Kernel' /\ Descriptors'
    BY <1>1, <1>2, <1>r, <2>3 DEF CallInv, Pointers, Kernel, Descriptors, OwnDescriptor
  <2>5. 1 <= call.need /\ 1 \in Nat
    BY <1>0 DEF CallInv, Receiving
  <2>6. QED
    BY <1>0, <1>1, <1>2, <2>2, <2>4, <2>5, AfterGetKeeps
<1>3. CASE curr[C] >= max[C] /\ Attempt(Size) /\ UNCHANGED <<curr, aux>>
  <2>1. Pointers' /\ Kernel' /\ Descriptors' /\ Beliefs'
    BY <1>1, <1>3 DEF CallInv, Pointers, Kernel, Descriptors, OwnDescriptor, Beliefs, aux
  <2>2. /\ call'.op = call.op /\ call'.chan = call.chan /\ call'.need = call.need
        /\ call'.n = Size
    BY <1>3, <1>r DEF Attempt, Go, Calls
  <2>3. Writing' /\ Receiving'
    BY <1>0, <1>1, <1>3, <1>r, <2>2, OpsDisjoint DEF Writing, Receiving, C, CallInv
  <2>4. Size \in 0 .. Size /\ UNCHANGED <<status, fd>>
    BY <1>1
  <2>5. QED
    BY <1>3, <1>r, <2>1, <2>3, <2>4, Attempts
<1>4. QED
  BY <1>2, <1>3 DEF GetChar

LEMMA GetBlockKeeps == ASSUME CallInv, GetBlock PROVE CallInv'
<1> USE Constants
<1>0. call.op \in {"input", "getblock"} /\ call.n = 0 /\ call.op \in ReadOps
  BY OpsDisjoint DEF GetBlock
<1>1. UNCHANGED <<status, fd, offset, max, buff, table, file, at>>
  BY DEF GetBlock, kernel
<1>r. /\ C \in Ins /\ C \in Chan /\ status[C] = "live" /\ call \in Calls /\ call.op # "idle"
      /\ call.need \in Nat /\ curr[C] \in 0 .. Size /\ max[C] \in 0 .. Size /\ curr[C] <= max[C]
      /\ buff[C] \in [1 .. Size -> Cell]
  BY <1>0, ReadState
<1>a. PICK avail \in Nat, taken \in Nat :
        /\ avail = max[C] - curr[C] /\ taken = Lesser(call.need, avail)
        /\ taken <= avail /\ taken <= call.need
  BY <1>r DEF Lesser
<1>2. CASE /\ curr' = [curr EXCEPT ![C] = @ + taken]
           /\ Hear(SubSeq(buff[C], curr[C] + 1, curr[C] + taken))
           /\ IF call.op = "input" THEN Return("ok") ELSE AfterGet(taken)
  <2>1. Len(SubSeq(buff[C], curr[C] + 1, curr[C] + taken)) \in Nat
    <3>1. PICK m \in 1 .. Size + 1, l \in 0 .. Size : m = curr[C] + 1 /\ l = curr[C] + taken
      BY <1>r, <1>a
    <3>2. m <= l + 1
      BY <1>a, <1>r, <3>1
    <3>3. Len(SubSeq(buff[C], m, l)) = l - m + 1
      BY <1>r, <3>2, PartOfBuffer
    <3>4. l - m + 1 = taken
      <4>1. PICK u \in 0 .. Size : u = curr[C]
        BY <1>r
      <4>2. m = u + 1 /\ l = u + taken /\ u \in Nat /\ taken \in Nat
        BY <3>1, <4>1
      <4>3. QED
        BY ONLY <4>2
    <3>5. QED
      BY <3>1, <3>3, <3>4
  <2>2. Beliefs'
    BY <1>2, <1>r, <2>1, HearKeeps
  <2>3. curr[C] + taken \in 0 .. Size /\ curr[C] + taken <= max[C]
    BY <1>a, <1>r
  <2>4. Pointers' /\ Kernel' /\ Descriptors'
    BY <1>1, <1>2, <1>r, <2>3 DEF CallInv, Pointers, Kernel, Descriptors, OwnDescriptor
  <2>5. CASE call.op = "input"
    BY <1>2, <2>2, <2>4, <2>5, Returns DEF Return
  <2>6. CASE call.op # "input"
    BY <1>0, <1>1, <1>2, <1>a, <2>2, <2>4, <2>6, AfterGetKeeps
  <2>7. QED
    BY <2>5, <2>6
<1>3. CASE call.need > avail /\ avail <= 0 /\ Attempt(Size) /\ UNCHANGED <<curr, aux>>
  <2>1. Pointers' /\ Kernel' /\ Descriptors' /\ Beliefs'
    BY <1>1, <1>3 DEF CallInv, Pointers, Kernel, Descriptors, OwnDescriptor, Beliefs, aux
  <2>2. /\ call'.op = call.op /\ call'.chan = call.chan /\ call'.need = call.need
        /\ call'.n = Size
    BY <1>3, <1>r DEF Attempt, Go, Calls
  <2>3. curr[C] = max[C]
    BY <1>3, <1>a, <1>r
  <2>4. Writing' /\ Receiving'
    BY <1>0, <1>1, <1>3, <1>r, <2>2, <2>3, OpsDisjoint DEF Writing, Receiving, C, CallInv
  <2>5. Size \in 0 .. Size /\ UNCHANGED <<status, fd>>
    BY <1>1
  <2>6. QED
    BY <1>3, <1>r, <2>1, <2>4, <2>5, Attempts
<1>4. QED
  BY <1>2, <1>3, <1>a DEF GetBlock

\* A scan goes on at p, before a system call for n bytes.
LEMMA ScanGoesOn ==
  ASSUME CallInv, call.op = "scan_line", NEW p \in Nat, NEW n \in 0 .. Size,
         Go([call EXCEPT !.p = p, !.n = n]), UNCHANGED status,
         curr'[C] <= p, p <= max'[C], n > 0 => curr'[C] = 0 /\ p = max'[C] /\ n = Size - max'[C],
         Pointers', Kernel', Descriptors', Beliefs'
  PROVE  CallInv'
<1>0. /\ C \in Ins /\ status'[C] = "live" /\ call \in Calls /\ call.rest = <<>>
      /\ call' = [call EXCEPT !.p = p, !.n = n] /\ UNCHANGED reply
  BY OpsDisjoint, ReadState DEF Go
<1>1. /\ call.op \in {"idle"} \cup WriteOps \cup ReadOps /\ call.chan \in Chan \cup {None}
      /\ call.rest \in Seq(Byte) /\ call.need \in Nat
      /\ call = [op |-> call.op, chan |-> call.chan, rest |-> call.rest, need |-> call.need,
                 n |-> call.n, p |-> call.p]
  BY <1>0 DEF Calls
<1>2. call' = [op |-> call.op, chan |-> call.chan, rest |-> call.rest, need |-> call.need,
               n |-> n, p |-> p]
  BY <1>0, <1>1
<1>3. /\ call' \in Calls /\ call'.op = call.op /\ call'.chan = call.chan
      /\ call'.rest = call.rest /\ call'.n = n /\ call'.p = p
  BY <1>1, <1>2 DEF Calls
<1>4. Calling'
  BY <1>0, <1>3, OpsDisjoint DEF CallInv, Calling, C, PutOps
<1>5. Writing' /\ Receiving'
  BY <1>3, OpsDisjoint DEF Writing, Receiving, C
<1>6. QED
  BY <1>4, <1>5 DEF CallInv

LEMMA ScanLineKeeps == ASSUME CallInv, ScanLine PROVE CallInv'
<1> USE Constants
<1>0. call.op = "scan_line" /\ call.n = 0 /\ call.op \in ReadOps
  BY OpsDisjoint DEF ScanLine
<1>1. UNCHANGED <<status, fd, offset, table, file, at, said, place>>
  BY DEF ScanLine, kernel, aux
<1>r. /\ C \in Ins /\ C \in Chan /\ status[C] = "live" /\ call \in Calls /\ call.op # "idle"
      /\ call.p \in Nat /\ curr[C] \in 0 .. Size /\ max[C] \in 0 .. Size /\ curr[C] <= max[C]
      /\ buff[C] \in [1 .. Size -> Cell] /\ curr[C] <= call.p /\ call.p <= max[C]
  BY <1>0, ReadState DEF CallInv, Receiving
<1>k. Kernel' /\ Beliefs'
  BY <1>1 DEF CallInv, Kernel, Beliefs
<1>2. CASE /\ call.p >= max[C]
           /\ buff' = [buff EXCEPT ![C] = Shift(@, curr[C], max[C])]
           /\ max' = [max EXCEPT ![C] = @ - curr[C]]
           /\ curr' = [curr EXCEPT ![C] = 0]
           /\ IF max'[C] >= Size THEN ReturnLength("noline", max'[C])
              ELSE Go([call EXCEPT !.p = @ - curr[C], !.n = Size - max'[C]])
  <2>1. Shift(buff[C], curr[C], max[C]) \in [1 .. Size -> Cell]
    <3>1. curr[C] \in 0 .. max[C]
      BY <1>r
    <3>2. QED
      BY <1>r, <3>1, ShiftToFront
  <2>a. call.p >= max[C]
    BY <1>2
  <2>b. call.p = max[C]
    BY <1>r, <2>a
  <2>0. /\ call.p = max[C]
        /\ buff' = [buff EXCEPT ![C] = Shift(@, curr[C], max[C])]
        /\ max' = [max EXCEPT ![C] = @ - curr[C]] /\ curr' = [curr EXCEPT ![C] = 0]
    BY <1>2, <2>b
  <2>2. max[C] - curr[C] \in 0 .. Size /\ max'[C] = max[C] - curr[C] /\ curr'[C] = 0
    BY <1>r, <2>0 DEF CallInv, Pointers
  <2>p. Pointers'
    BY <1>1, <1>r, <2>0, <2>1, <2>2 DEF CallInv, Pointers
  <2>d. Descriptors'
    BY <1>1, <1>r, <2>0, <2>2 DEF CallInv, Pointers, Descriptors, OwnDescriptor
  <2>3. Pointers' /\ Descriptors'
    BY <2>p, <2>d
  <2>4. CASE max'[C] >= Size
    BY <1>2, <1>k, <2>3, <2>4, Returns
  <2>5. CASE ~(max'[C] >= Size)
    <3>1. PICK p \in Nat, n \in 0 .. Size : p = call.p - curr[C] /\ n = Size - max'[C]
      BY <1>r, <2>2, <2>5
    <3>2. Go([call EXCEPT !.p = p, !.n = n])
      BY <1>2, <2>5, <3>1
    <3>3. /\ curr'[C] <= p /\ p <= max'[C]
          /\ n > 0 => curr'[C] = 0 /\ p = max'[C] /\ n = Size - max'[C]
      BY <1>r, <2>0, <2>2, <3>1
    <3>4. QED
      BY <1>0, <1>1, <1>k, <2>3, <3>2, <3>3, ScanGoesOn
  <2>6. QED
    BY <2>4, <2>5
<1>3. CASE /\ call.p < max[C] /\ UNCHANGED <<buff, curr, max>>
           /\ IF buff[C][call.p + 1] = Newline THEN ReturnLength("line", call.p + 1 - curr[C])
              ELSE Go([call EXCEPT !.p = @ + 1])
  <2>1. Pointers' /\ Descriptors'
    BY <1>1, <1>3 DEF CallInv, Pointers, Descriptors, OwnDescriptor
  <2>2. CASE buff[C][call.p + 1] = Newline
    BY <1>3, <1>k, <2>1, <2>2, Returns
  <2>3. CASE buff[C][call.p + 1] # Newline
    <3>1. PICK p \in Nat, n \in 0 .. Size : p = call.p + 1 /\ n = 0
      BY <1>r
    <3>2. Go([call EXCEPT !.p = p, !.n = n])
      <4>1. [call EXCEPT !.p = call.p + 1] = [call EXCEPT !.p = p, !.n = n]
        BY <1>0, <1>r, <3>1 DEF Calls
      <4>2. QED
        BY <1>3, <2>3, <4>1
    <3>3. curr'[C] <= p /\ p <= max'[C] /\ ~(n > 0)
      BY <1>3, <1>r, <3>1
    <3>4. QED
      BY <1>0, <1>1, <1>k, <2>1, <3>2, <3>3, ScanGoesOn
  <2>4. QED
    BY <2>2, <2>3
<1>4. QED
  BY <1>2, <1>3 DEF ScanLine

LEMMA EndOfFileKeeps == ASSUME CallInv, EndOfFile PROVE CallInv'
<1>1. /\ UNCHANGED <<status, fd, offset, curr, max, buff, table, file, at, said, place>>
      /\ Return("eof")
  BY DEF EndOfFile, channel, kernel, aux
<1>2. Pointers' /\ Kernel' /\ Descriptors' /\ Beliefs'
  BY <1>1 DEF CallInv, Pointers, Kernel, Descriptors, OwnDescriptor, Beliefs
<1>3. QED
  BY <1>1, <1>2, Returns DEF Return

LEMMA ReadFailsKeeps == ASSUME CallInv, ReadFails PROVE CallInv'
<1>1. /\ UNCHANGED <<status, fd, offset, curr, max, buff, table, file, at, said, place>>
      /\ Return("error")
  BY DEF ReadFails, channel, kernel, aux
<1>2. Pointers' /\ Kernel' /\ Descriptors' /\ Beliefs'
  BY <1>1 DEF CallInv, Pointers, Kernel, Descriptors, OwnDescriptor, Beliefs
<1>3. QED
  BY <1>1, <1>2, Returns DEF Return

LEMMA RefillKeeps == ASSUME CallInv, Refill PROVE CallInv'
<1> USE Constants
<1>0. call.op = "getch" /\ call.n > 0 /\ Refers(fd[C]) /\ call.op \in ReadOps
  BY OpsDisjoint DEF Refill, Reading
<1>r. /\ C \in Ins /\ C \in Chan /\ call.n \in 1 .. Size
  BY <1>0, ReadState
<1>s. PICK s \in Served(call.n) :
        /\ s # <<>> /\ FromFile(s, 0) /\ curr' = [curr EXCEPT ![C] = 1] /\ Hear(<<s[1]>>)
        /\ AfterGet(1)
  BY DEF Refill
<1>1. Len(s) \in Nat /\ Len(s) >= 1
  <2>1. s # <<>>
    BY <1>s
  <2>2. Len(s) \in 0 .. call.n /\ Len(s) >= 1
    BY <1>0, <1>r, <2>1, ServedFromFile
  <2>3. QED
    BY <2>2
<1>2. /\ max' = [max EXCEPT ![C] = 0 + Len(s)] /\ 0 + Len(s) \in 0 .. Size
      /\ buff' \in [Chan -> [1 .. Size -> Cell]]
      /\ offset' \in [Chan -> Nat] /\ UNCHANGED <<status, fd, table, file>> /\ Kernel'
  <2>1. 0 \in 0 .. Size /\ 0 + call.n <= Size
    BY <1>r
  <2>2. FromFile(s, 0)
    BY <1>s
  <2>3. QED
    BY <1>0, <1>r, <2>1, <2>2, FromFileKeeps
<1>3. Beliefs'
  <2>1. Len(<<s[1]>>) \in Nat
    OBVIOUS
  <2>2. QED
    BY <1>r, <1>s, <2>1, HearKeeps
<1>c. curr' = [curr EXCEPT ![C] = 1]
  BY <1>s
<1>4. Pointers'
  <2>1. 1 \in 0 .. Size
    OBVIOUS
  <2>2. QED
    BY <1>2, <1>c, <2>1 DEF CallInv, Pointers
<1>5. Descriptors'
  BY <1>0, <1>1, <1>2, <1>c, <1>r, ReadState DEF CallInv, Pointers, Descriptors, OwnDescriptor
<1>6. 1 \in Nat /\ 1 <= call.need /\ AfterGet(1)
  BY <1>0, <1>s DEF CallInv, Receiving
<1>7. QED
  BY <1>0, <1>2, <1>3, <1>4, <1>5, <1>6, AfterGetKeeps

LEMMA ReadBlockKeeps == ASSUME CallInv, ReadBlock PROVE CallInv'
<1> USE Constants
<1>0. call.op \in {"input", "getblock"} /\ call.n > 0 /\ Refers(fd[C]) /\ call.op \in ReadOps
  BY OpsDisjoint DEF ReadBlock, Reading
<1>r. /\ C \in Ins /\ C \in Chan /\ call.n \in 1 .. Size /\ call.need \in Nat /\ status[C] = "live"
  BY <1>0, ReadState
<1>s. PICK s \in Served(call.n) :
        LET taken == Lesser(call.need, Len(s))
        IN /\ FromFile(s, 0)
           /\ curr' = [curr EXCEPT ![C] = taken]
           /\ Hear(SubSeq(s, 1, taken))
           /\ IF call.op = "input" \/ taken = 0 THEN Return("ok") ELSE AfterGet(taken)
  BY DEF ReadBlock
<1>1. s \in Seq(Cell) /\ Len(s) \in Nat
  BY <1>0, <1>r, ServedFromFile
<1>t. PICK taken \in Nat : taken = Lesser(call.need, Len(s)) /\ taken <= Len(s) /\ taken <= call.need
  BY <1>1, <1>r DEF Lesser
<1>2. /\ max' = [max EXCEPT ![C] = 0 + Len(s)] /\ 0 + Len(s) \in 0 .. Size
      /\ buff' \in [Chan -> [1 .. Size -> Cell]]
      /\ offset' \in [Chan -> Nat] /\ UNCHANGED <<status, fd, table, file>> /\ Kernel'
  <2>1. 0 \in 0 .. Size /\ 0 + call.n <= Size
    BY <1>r
  <2>2. FromFile(s, 0)
    BY <1>s
  <2>3. QED
    BY <1>0, <1>r, <2>1, <2>2, FromFileKeeps
<1>3. /\ curr' = [curr EXCEPT ![C] = taken] /\ Hear(SubSeq(s, 1, taken))
      /\ IF call.op = "input" \/ taken = 0 THEN Return("ok") ELSE AfterGet(taken)
  BY <1>s, <1>t
<1>4. Beliefs'
  <2>1. Len(SubSeq(s, 1, taken)) \in Nat
    <3>1. \A i \in 1 .. taken : s[i] \in Cell
      BY <1>1, <1>t, ElementOfSeq
    <3>2. 1 \in Int /\ taken \in Int
      OBVIOUS
    <3>3. SubSeq(s, 1, taken) \in Seq(Cell)
      BY <3>1, <3>2, SubSeqProperties
    <3>4. QED
      BY <3>3, LenProperties
  <2>2. QED
    BY <1>r, <1>3, <2>1, HearKeeps
<1>5. Pointers'
  <2>1. taken \in 0 .. Size
    BY <1>1, <1>2, <1>t
  <2>2. QED
    BY <1>2, <1>3, <2>1 DEF CallInv, Pointers
<1>6. Descriptors'
  BY <1>1, <1>2, <1>3, <1>r, <1>t DEF CallInv, Pointers, Descriptors, OwnDescriptor
<1>7. CASE Return("ok")
  BY <1>2, <1>4, <1>5, <1>6, <1>7, Returns DEF Return
<1>8. CASE AfterGet(taken) /\ call.op # "input"
  BY <1>0, <1>2, <1>4, <1>5, <1>6, <1>8, <1>t, AfterGetKeeps
<1>9. QED
  BY <1>3, <1>7, <1>8

LEMMA ReadMoreKeeps == ASSUME CallInv, ReadMore PROVE CallInv'
<1> USE Constants
<1>0. call.op = "scan_line" /\ call.n > 0 /\ Refers(fd[C]) /\ call.op \in ReadOps
  BY OpsDisjoint DEF ReadMore, Reading
<1>r. /\ C \in Ins /\ C \in Chan /\ call.n \in 1 .. Size /\ call.p \in Nat /\ call \in Calls
      /\ max[C] \in 0 .. Size /\ curr[C] \in 0 .. Size
  BY <1>0, ReadState
<1>q. curr[C] = 0 /\ call.p = max[C] /\ call.n = Size - max[C]
  BY <1>0 DEF CallInv, Receiving
<1>s. PICK s \in Served(call.n) :
        /\ FromFile(s, max[C]) /\ UNCHANGED <<curr, aux>>
        /\ IF s = <<>> THEN ReturnLength("noline", max[C] - curr[C]) ELSE Attempt(0)
  BY DEF ReadMore
<1>1. Len(s) \in Nat
  BY <1>0, <1>r, ServedFromFile
<1>2. /\ max' = [max EXCEPT ![C] = max[C] + Len(s)] /\ max[C] + Len(s) \in 0 .. Size
      /\ buff' \in [Chan -> [1 .. Size -> Cell]]
      /\ offset' \in [Chan -> Nat] /\ UNCHANGED <<status, fd, table, file>> /\ Kernel'
  <2>1. max[C] + call.n <= Size
    BY <1>q, <1>r
  <2>2. FromFile(s, max[C])
    BY <1>s
  <2>3. QED
    BY <1>0, <1>r, <2>1, <2>2, FromFileKeeps
<1>3. UNCHANGED <<curr, said, place>>
  BY <1>s DEF aux
<1>4. Beliefs' /\ Pointers'
  BY <1>2, <1>3 DEF CallInv, Beliefs, Pointers
<1>5. Descriptors'
  <2>1. PICK m \in 0 .. Size : m = max[C] + Len(s)
    BY <1>2
  <2>2. max' = [max EXCEPT ![C] = m] /\ UNCHANGED <<status, fd, table, curr>>
    BY <1>2, <1>3, <2>1
  <2>3. curr[C] <= m /\ status[C] = "live"
    BY <1>0, <1>q, <2>1, ReadState
  <2>4. QED
    BY <1>r, <2>2, <2>3 DEF CallInv, Pointers, Descriptors, OwnDescriptor
<1>6. CASE ReturnLength("noline", max[C] - curr[C])
  BY <1>2, <1>4, <1>5, <1>6, Returns
<1>7. CASE Attempt(0)
  <2>1. PICK p \in Nat, n \in 0 .. Size : p = call.p /\ n = 0
    BY <1>r
  <2>2. Go([call EXCEPT !.p = p, !.n = n])
    <3>1. [call EXCEPT !.n = 0] = [call EXCEPT !.p = p, !.n = n]
      BY <1>r, <2>1 DEF Calls
    <3>2. QED
      BY <1>7, <3>1 DEF Attempt
  <2>3. curr'[C] <= p /\ p <= max'[C] /\ ~(n > 0)
    BY <1>1, <1>2, <1>3, <1>q, <1>r, <2>1 DEF CallInv, Pointers
  <2>4. QED
    BY <1>0, <1>2, <1>4, <1>5, <2>2, <2>3, ScanGoesOn
<1>8. QED
  BY <1>s, <1>6, <1>7

LEMMA SeekKeeps == ASSUME CallInv, NEW c \in Ins, seek_in(c) PROVE CallInv'
<1> USE Constants
<1>0. PICK dest \in Dests :
       \/ /\ dest >= offset[c] - max[c] /\ dest <= offset[c]
          /\ curr' = [curr EXCEPT ![c] = max[c] - (offset[c] - dest)]
          /\ place' = [place EXCEPT ![c] = dest]
          /\ UNCHANGED <<offset, max, at>>
       \/ /\ dest < offset[c] - max[c] \/ dest > offset[c]
          /\ Refers(fd[c])
          /\ at' = [at EXCEPT ![table[fd[c]]] = dest]
          /\ offset' = [offset EXCEPT ![c] = dest]
          /\ curr' = [curr EXCEPT ![c] = 0] /\ max' = [max EXCEPT ![c] = 0]
          /\ place' = [place EXCEPT ![c] = dest]
  BY DEF seek_in
<1>1. /\ c \in Chan /\ status[c] = "live" /\ Return("ok") /\ dest \in Nat
      /\ UNCHANGED <<status, fd, buff, table, file, said>>
      /\ offset[c] \in Nat /\ max[c] \in 0 .. Size /\ curr[c] \in 0 .. Size
  BY ValueAssumption DEF seek_in, CallInv, Pointers
<1>2. CASE /\ dest >= offset[c] - max[c] /\ dest <= offset[c]
           /\ curr' = [curr EXCEPT ![c] = max[c] - (offset[c] - dest)]
           /\ place' = [place EXCEPT ![c] = dest]
           /\ UNCHANGED <<offset, max, at>>
  <2>1. PICK m \in 0 .. Size : m = max[c] - (offset[c] - dest) /\ m <= max[c]
    BY <1>1, <1>2
  <2>2. curr' = [curr EXCEPT ![c] = m]
    BY <1>2, <2>1
  <2>3. Pointers' /\ Kernel' /\ Beliefs'
    BY <1>1, <1>2, <2>2 DEF CallInv, Pointers, Kernel, Beliefs
  <2>4. Descriptors'
    BY <1>1, <1>2, <2>1, <2>2 DEF CallInv, Pointers, Descriptors, OwnDescriptor
  <2>5. QED
    BY <1>1, <2>3, <2>4, Returns DEF Return
<1>3. CASE /\ dest < offset[c] - max[c] \/ dest > offset[c]
           /\ Refers(fd[c])
           /\ at' = [at EXCEPT ![table[fd[c]]] = dest]
           /\ offset' = [offset EXCEPT ![c] = dest]
           /\ curr' = [curr EXCEPT ![c] = 0] /\ max' = [max EXCEPT ![c] = 0]
           /\ place' = [place EXCEPT ![c] = dest]
  <2>1. Pointers' /\ Beliefs'
    BY <1>1, <1>3 DEF CallInv, Pointers, Beliefs
  <2>2. Kernel'
    BY <1>1, <1>3 DEF CallInv, Kernel
  <2>3. Descriptors'
    BY <1>1, <1>3 DEF CallInv, Pointers, Descriptors, OwnDescriptor
  <2>4. QED
    BY <1>1, <2>1, <2>2, <2>3, Returns DEF Return
<1>4. QED
  BY <1>0, <1>2, <1>3

LEMMA SizeKeeps == ASSUME CallInv, NEW c \in Ins, channel_size(c) PROVE CallInv'
<1> USE Constants
<1>1. /\ at' = [at EXCEPT ![table[fd[c]]] = offset[c]] /\ Return("ok")
      /\ UNCHANGED <<status, fd, offset, curr, max, buff, table, file, said, place>>
  BY DEF channel_size, channel, aux
<1>2. Kernel'
  BY <1>1 DEF CallInv, Kernel, Pointers
<1>3. Pointers' /\ Descriptors' /\ Beliefs'
  BY <1>1 DEF CallInv, Pointers, Descriptors, OwnDescriptor, Beliefs
<1>4. QED
  BY <1>1, <1>2, <1>3, Returns DEF Return

LEMMA WriteKeeps == CallInv /\ Write => CallInv'
  BY PutCharKeeps, PutBlockKeeps, FlushKeeps, FlushedKeeps, WrittenKeeps, BlockWrittenKeeps,
     WouldBlockKeeps, WriteFailsKeeps DEF Write

LEMMA ReadKeeps == CallInv /\ Read => CallInv'
  BY GetCharKeeps, GetBlockKeeps, ScanLineKeeps, EndOfFileKeeps, RefillKeeps, ReadBlockKeeps,
     ReadMoreKeeps, ReadFailsKeeps DEF Read

LEMMA CallOnKeeps == ASSUME CallInv, NEW c \in Chan, CallOn(c) PROVE CallInv'
<1> USE Constants
<1>1. CASE Open(c)
  BY <1>1, OpenKeeps
<1>2. CASE prim_close_channel(c)
  <2>1. CASE fd[c] # NoFd /\ c \in Outs /\ Quiet("close", c, 0)
    <3>1. "close" \in {"flush", "close", "finalize", "flush_partial", "seek_out"} /\ 0 \in Nat
      OBVIOUS
    <3>2. QED
      BY <2>1, <3>1, QuietStarts
  <2>2. CASE status[c] = "live" /\ Shut(c) /\ Return("ok")
    BY <2>2, ShutKeeps
  <2>3. QED
    BY <1>2, <2>1, <2>2 DEF prim_close_channel, Quiet
<1>3. CASE finalize_channel(c)
  <2>1. CASE fd[c] # NoFd /\ c \in Outs /\ Quiet("finalize", c, 0)
    <3>1. "finalize" \in {"flush", "close", "finalize", "flush_partial", "seek_out"} /\ 0 \in Nat
      OBVIOUS
    <3>2. QED
      BY <2>1, <3>1, QuietStarts
  <2>2. CASE status[c] = "live" /\ FreeChannel(c) /\ Return("ok")
    BY <2>2, FreeKeeps
  <2>3. QED
    BY <1>3, <2>1, <2>2 DEF finalize_channel, Quiet
<1>4. CASE c \in Outs /\ (prim_output_char(c) \/ putword(c) \/ prim_output(c))
  <2>1. ASSUME NEW s \in Seq(Byte), Len(s) >= 1, Output("putch", c, s) PROVE CallInv'
    <3>1. "putch" \in PutOps
      BY DEF PutOps
    <3>2. QED
      BY <1>4, <2>1, <3>1, OutputStarts
  <2>2. CASE prim_output_char(c)
    <3>1. PICK b \in Byte : Output("putch", c, <<b>>)
      BY <2>2 DEF prim_output_char
    <3>2. <<b>> \in Seq(Byte) /\ Len(<<b>>) >= 1
      OBVIOUS
    <3>3. QED
      BY <2>1, <3>1, <3>2
  <2>3. CASE putword(c)
    <3>1. PICK s \in [1 .. Word -> Byte] : Output("putch", c, s)
      BY <2>3 DEF putword
    <3>2. s \in Seq(Byte) /\ Len(s) >= 1
      BY SMT
    <3>3. QED
      BY <2>1, <3>1, <3>2
  <2>4. CASE prim_output(c)
    <3>1. PICK s \in Requests : Output("putblock", c, s)
      BY <2>4 DEF prim_output
    <3>2. s \in Seq(Byte) /\ "putblock" \in PutOps
      BY ValueAssumption DEF PutOps
    <3>3. QED
      BY <1>4, <3>1, <3>2, OutputStarts
  <2>5. QED
    BY <1>4, <2>2, <2>3, <2>4
<1>5. CASE c \in Outs /\ (prim_flush(c) \/ prim_flush_partial(c) \/ seek_out(c))
  <2>1. ASSUME NEW op \in {"flush", "close", "finalize", "flush_partial", "seek_out"}, NEW p \in Nat,
               op # "seek_out" => fd[c] # NoFd, Quiet(op, c, p)
        PROVE  CallInv'
    BY <1>5, <2>1, QuietStarts
  <2>2. CASE prim_flush(c)
    BY <2>1, <2>2 DEF prim_flush
  <2>3. CASE prim_flush_partial(c)
    BY <2>1, <2>3 DEF prim_flush_partial
  <2>4. CASE seek_out(c)
    <3>1. PICK dest \in Nat : Quiet("seek_out", c, dest)
      BY <2>4, ValueAssumption DEF seek_out
    <3>2. QED
      BY <2>1, <3>1
  <2>5. QED
    BY <1>5, <2>2, <2>3, <2>4
<1>6. CASE /\ c \in Ins
           /\ \/ prim_input_char(c) \/ getword(c) \/ caml_input(c) \/ really_getblock(c)
              \/ input_scan_line(c)
  <2>1. PICK op \in ReadOps, need \in Nat :
          Input(op, c, need) /\ (op \in {"getch", "getblock"} => need >= 1)
    BY <1>6, ValueAssumption
    DEF prim_input_char, getword, caml_input, really_getblock, input_scan_line, ReadOps
  <2>2. QED
    BY <1>6, <2>1, InputStarts
<1>7. CASE c \in Ins /\ seek_in(c)
  BY <1>7, SeekKeeps
<1>8. CASE c \in Ins /\ channel_size(c)
  BY <1>8, SizeKeeps
<1>9. QED
  BY <1>1, <1>2, <1>3, <1>4, <1>5, <1>6, <1>7, <1>8 DEF CallOn

LEMMA CallStep == CallInv /\ [Next]_vars => CallInv'
<1> SUFFICES ASSUME CallInv, [Next]_vars PROVE CallInv'
  OBVIOUS
<1>1. CASE Write
  BY <1>1, WriteKeeps
<1>2. CASE Read
  BY <1>2, ReadKeeps
<1>3. ASSUME NEW c \in Chan, CallOn(c) PROVE CallInv'
  BY <1>3, CallOnKeeps
<1>4. CASE UNCHANGED vars
  BY <1>4 DEF vars, channel, kernel, aux, CallInv, Pointers, Kernel, Calling, Writing, Receiving,
              Descriptors, OwnDescriptor, Beliefs, C
<1>5. QED
  BY <1>1, <1>2, <1>3, <1>4 DEF Next

\* No order of calls, partial writes, short reads and errors lets a channel use or close the
\* descriptor of another, or leave one open behind it (prim_close_channel, finalize_channel).
THEOREM DescriptorsAreOwn == Spec => []OwnDescriptor
<1>1. CallInv => OwnDescriptor
  BY DEF CallInv, Descriptors
<1>2. QED
  BY <1>1, CallInit, CallStep, PTL DEF Spec

-----------------------------------------------------------------------------
(* Output                                                                   *)

\* Nothing happens to the channels for output, but that one may be closed again.
Same ==
  /\ UNCHANGED <<said, file>>
  /\ \A o \in Outs : /\ fd'[o] = fd[o] /\ (status'[o] = "new" <=> status[o] = "new")
                     /\ fd[o] # NoFd => Pending(o)' = Pending(o)
                     /\ Asked(o)' = Asked(o)

\* A call is to output s.
Takes(c, s) ==
  /\ said' = [said EXCEPT ![c] = @ \o s] /\ UNCHANGED <<file, fd, status>>
  /\ \A o \in Outs : /\ Pending(o)' = Pending(o)
                     /\ Asked(o) = <<>> /\ Asked(o)' = IF o = c THEN s ELSE <<>>

\* A call gives up what it has not output.
GivesUp(c) ==
  /\ said' = [said EXCEPT ![c] = SubSeq(@, 1, Len(@) - Len(Asked(c)))]
  /\ UNCHANGED <<file, fd, status>>
  /\ \A o \in Outs : /\ Pending(o)' = Pending(o)
                     /\ o # c => Asked(o) = <<>>
                     /\ Asked(o)' = <<>>

\* A call puts t into the buffer, the front of which may go to the file.
Advances(c, t) ==
  /\ UNCHANGED <<said, fd, status>> /\ fd[c] # NoFd
  /\ \A o \in Outs \ {c} : /\ file'[o] = file[o] /\ Pending(o)' = Pending(o)
                           /\ Asked(o) = <<>> /\ Asked(o)' = <<>>
  /\ Asked(c) \in Seq(Cell) /\ Asked(c)' \in Seq(Cell) /\ Asked(c) = t \o Asked(c)'
  /\ \E w \in Seq(Cell) : file'[c] = file[c] \o w /\ w \o Pending(c)' = Pending(c) \o t

\* A channel is opened, or closed with an empty buffer.
Turns(c) ==
  /\ UNCHANGED <<said, file>> /\ Asked(c) = <<>> /\ Asked(c)' = <<>>
  /\ \/ fd[c] = NoFd /\ fd'[c] # NoFd /\ status[c] = "new" /\ Pending(c)' = <<>>
     \/ fd[c] # NoFd /\ fd'[c] = NoFd /\ status'[c] # "new" /\ Pending(c) = <<>>
  /\ \A o \in Outs \ {c} : /\ fd'[o] = fd[o] /\ status'[o] = status[o]
                           /\ Pending(o)' = Pending(o)
                           /\ Asked(o) = <<>> /\ Asked(o)' = <<>>

Effect ==
  \/ Same
  \/ \E c \in Outs : \E s \in Seq(Byte) : Takes(c, s)
  \/ \E c \in Outs : GivesUp(c)
  \/ \E c \in Outs : \E t \in Seq(Cell) : Advances(c, t)
  \/ \E c \in Outs : Turns(c)

\* What a call asks for is with one channel, and when it has returned with none.
LEMMA AskedIs ==
  ASSUME CallInv
  PROVE  \A o \in Outs : /\ Asked(o) \in Seq(Byte)
                         /\ o # C => Asked(o) = <<>>
                         /\ o = C => Asked(o) = call.rest
                         /\ call.op \notin PutOps => Asked(o) = <<>>
<1>1. call.rest \in Seq(Byte) /\ <<>> \in Seq(Byte)
  BY RestOfCells, EmptySeq
<1>2. call.op \notin PutOps => call.rest = <<>>
  BY DEF CallInv, Calling
<1>3. QED
  BY <1>1, <1>2 DEF Asked

LEMMA AskedNone == call' = Idle => \A o \in Outs : Asked(o)' = <<>>
  BY DEF Idle, Asked

LEMMA AskedRest ==
  ASSUME NEW c \in Outs, call'.chan = c
  PROVE  \A o \in Outs : Asked(o)' = IF o = c THEN call'.rest ELSE <<>>
  BY DEF Asked, C

\* A step that leaves the files, descriptors and buffers of output alone, and the rest of the
\* call too.
LEMMA SameWhenUnchanged ==
  ASSUME CallInv, CallInv', UNCHANGED <<said, file, fd>>,
         \A o \in Outs : /\ buff'[o] = buff[o] /\ curr'[o] = curr[o]
                         /\ status'[o] = "new" <=> status[o] = "new",
         \/ call'.rest = call.rest /\ call'.chan = call.chan
         \/ call.op \notin PutOps /\ call'.op \notin PutOps
  PROVE  Same
<1>1. \A o \in Outs : Pending(o)' = Pending(o)
  BY DEF Pending
<1>2. \A o \in Outs : Asked(o)' = Asked(o)
  <2>1. CASE call'.rest = call.rest /\ call'.chan = call.chan
    BY <2>1 DEF Asked, C
  <2>2. CASE call.op \notin PutOps /\ call'.op \notin PutOps
    <3>1. call'.rest = <<>> /\ call.rest = <<>>
      BY <2>2 DEF CallInv, Calling
    <3>2. QED
      BY <3>1 DEF Asked
  <2>3. QED
    BY <2>1, <2>2
<1>3. QED
  BY <1>1, <1>2 DEF Same

\* An equation with a name of its own: the provers do not compute with it.
Associate(s, m, e) == (s \o m) \o e = s \o (m \o e)

LEMMA CellsAssociate ==
  \A s \in Seq(Cell), m \in Seq(Cell), e \in Seq(Cell) : Associate(s, m, e)
<1>1. SUFFICES ASSUME NEW s \in Seq(Cell), NEW m \in Seq(Cell), NEW e \in Seq(Cell)
               PROVE  Associate(s, m, e)
  OBVIOUS
<1>2. (s \o m) \o e = s \o (m \o e)
  BY ONLY ConcatAssociative, s \in Seq(Cell), m \in Seq(Cell), e \in Seq(Cell)
<1>3. QED
  BY ONLY <1>2, Zenon DEF Associate

\* A byte is stored behind what is pending, once k bytes have gone to the file.
LEMMA StoreAdvances ==
  ASSUME CallInv, NEW c \in Outs, c = C, call.op = "putch", AfterStore, UNCHANGED <<said, fd, status>>,
         fd[c] # NoFd, NEW b \in [1 .. Size -> Cell], NEW m \in 0 .. Size, m + 1 <= Size,
         NEW w \in Seq(Cell), w \o SubSeq(b, 1, m) = Pending(c),
         file'[c] = file[c] \o w, buff'[c] = Stored(b, m), curr'[c] = m + 1,
         \A o \in Outs \ {c} : file'[o] = file[o] /\ Pending(o)' = Pending(o)
  PROVE  Effect
<1> USE Constants
<1>1. call.rest \in Seq(Byte) /\ call.rest # <<>> /\ call \in Calls
  BY RestOfCells, EmptySeq DEF CallInv, Writing, Calling
<1>2. PICK t \in Seq(Cell) : /\ t \in Seq(Byte) /\ Len(t) = 1 /\ t[1] = Head(call.rest)
                            /\ t = <<Head(call.rest)>>
  <2>1. Head(call.rest) \in Byte
    BY <1>1, HeadTailProperties
  <2>2. <<Head(call.rest)>> \in Seq(Byte) /\ <<Head(call.rest)>> \in Seq(Cell)
    BY <2>1
  <2>3. QED
    BY <2>2
<1>3. Pending(c)' = SubSeq(b, 1, m) \o t
  <2>0. t \in Seq(Cell)
    BY <1>2
  <2>1. m + Len(t) <= Size
    BY <1>2
  <2>2. SubSeq(Put(b, m, t), 1, m + Len(t)) = SubSeq(b, 1, m) \o t
    BY ONLY PutBehind, b \in [1 .. Size -> Cell], m \in 0 .. Size, <2>0, <2>1, Zenon
  <2>3. QED
    BY <1>2, <2>2 DEF Pending, Stored
<1>4. w \o Pending(c)' = Pending(c) \o t
  <2>0. t \in Seq(Cell)
    BY <1>2
  <2>1. PICK l \in Seq(Cell) : l = SubSeq(b, 1, m)
    BY FrontOfBuffer
  <2>2. Associate(w, l, t)
    BY ONLY CellsAssociate, w \in Seq(Cell), l \in Seq(Cell), t \in Seq(Cell), Zenon
  <2>3. (w \o l) \o t = w \o (l \o t)
    BY ONLY <2>2, Zenon DEF Associate
  <2>4. w \o SubSeq(b, 1, m) = Pending(c)
    OBVIOUS
  <2>5. QED
    BY ONLY <1>3, <2>1, <2>3, <2>4, Zenon
<1>5. PICK r \in Seq(Byte) : Asked(c)' = r /\ call.rest = t \o r /\ \A o \in Outs : o # c => Asked(o)' = <<>>
  <2>1. Tail(call.rest) \in Seq(Byte) /\ Len(Tail(call.rest)) = Len(call.rest) - 1
        /\ \A i \in 1 .. Len(Tail(call.rest)) : Tail(call.rest)[i] = call.rest[i + 1]
    BY <1>1, HeadTailProperties
  <2>2. call.rest = t \o Tail(call.rest)
    <3>1. PICK r \in Seq(Byte), s \in Seq(Byte) : r = Tail(call.rest) /\ s = call.rest
      BY <1>1, <2>1
    <3>2. Len(t \o r) = 1 + Len(r) /\ t \o r \in Seq(Byte)
          /\ \A i \in 1 .. 1 + Len(r) : (t \o r)[i] = IF i <= 1 THEN t[i] ELSE r[i - 1]
      BY <1>2, ConcatProperties
    <3>3. Len(s) \in Nat /\ Len(r) = Len(s) - 1 /\ \A i \in 1 .. Len(r) : r[i] = s[i + 1]
      BY <2>1, <3>1, LenProperties
    <3>4. t[1] = s[1]
      BY <1>1, <1>2, <3>1
    <3>5. Len(s) = Len(t \o r) /\ \A i \in 1 .. Len(s) : s[i] = (t \o r)[i]
      <4>1. Len(s) = Len(t \o r)
        BY <3>2, <3>3
      <4>2. ASSUME NEW i \in 1 .. Len(s) PROVE s[i] = (t \o r)[i]
        <5>1. i \in 1 .. 1 + Len(r)
          BY <3>3
        <5>2. CASE i = 1
          BY <3>2, <3>4, <5>1, <5>2
        <5>3. CASE i # 1
          <6>1. i - 1 \in 1 .. Len(r) /\ ~(i <= 1) /\ i - 1 + 1 = i
            BY <3>3, <5>3
          <6>2. r[i - 1] = s[i]
            BY <3>3, <6>1
          <6>3. (t \o r)[i] = r[i - 1]
            BY <3>2, <5>1, <6>1
          <6>4. QED
            BY <6>2, <6>3
        <5>4. QED
          BY <5>2, <5>3
      <4>3. QED
        BY <4>1, <4>2
    <3>6. s = t \o r
      BY <3>2, <3>5, SeqEqual
    <3>7. QED
      BY <3>1, <3>6
  <2>3. CASE Len(call.rest) = 1
    <3>1. call' = Idle
      BY <2>3 DEF AfterStore, Return, ReturnLength
    <3>2. Tail(call.rest) = <<>>
      <4>0. PICK r \in Seq(Byte) : r = Tail(call.rest) /\ Len(r) = Len(call.rest) - 1
        BY <2>1
      <4>1. r = Tail(call.rest) /\ Len(r) = 0
        BY <2>3, <4>0
      <4>2. r = <<>>
        BY <4>1, EmptySeq
      <4>3. QED
        BY <4>1, <4>2
    <3>3. \A o \in Outs : Asked(o)' = <<>>
      BY <3>1, AskedNone
    <3>4. QED
      BY <2>1, <2>2, <3>2, <3>3
  <2>4. CASE Len(call.rest) # 1
    <3>1. call'.chan = c /\ call'.rest = Tail(call.rest)
      BY <1>1, <2>4 DEF AfterStore, Go, C, Calls
    <3>2. \A o \in Outs : Asked(o)' = IF o = c THEN call'.rest ELSE <<>>
      BY <3>1, AskedRest
    <3>3. QED
      BY <2>1, <2>2, <3>1, <3>2
  <2>5. QED
    BY <2>3, <2>4
<1>6. Asked(c) = call.rest /\ \A o \in Outs : o # c => Asked(o) = <<>>
  BY AskedIs
<1>7. r \in Seq(Cell) /\ call.rest \in Seq(Cell)
  BY <1>1, SeqMonotonic
<1>8. Advances(c, t)
  BY <1>4, <1>5, <1>6, <1>7 DEF Advances
<1>9. QED
  BY <1>2, <1>8 DEF Effect

LEMMA PutCharEffect == ASSUME CallInv, CallInv', PutChar PROVE Effect
<1> USE Constants
<1>0. PICK c \in Outs : c = C
  BY OpsDisjoint DEF PutChar, CallInv, Calling
<1>1. /\ call.op = "putch" /\ c \in Chan /\ status[c] = "live" /\ call \in Calls
      /\ buff[c] \in [1 .. Size -> Cell] /\ curr[c] \in 0 .. Size
  BY <1>0, OpsDisjoint DEF PutChar, CallInv, Calling, Pointers
<1>2. UNCHANGED <<status, fd, file, said>>
  BY DEF PutChar, kernel, aux
<1>3. CASE /\ curr[C] < Size
           /\ buff' = [buff EXCEPT ![C] = Stored(@, curr[C])]
           /\ curr' = [curr EXCEPT ![C] = @ + 1]
           /\ AfterStore
  <2>1. fd[c] # NoFd
    BY <1>0, <1>1, <1>3 DEF CallInv, Descriptors
  <2>2. PICK b \in [1 .. Size -> Cell], m \in 0 .. Size : b = buff[c] /\ m = curr[c] /\ m + 1 <= Size
    BY <1>0, <1>1, <1>3
  <2>3. buff'[c] = Stored(b, m) /\ curr'[c] = m + 1
    BY <1>0, <1>1, <1>3, <2>2 DEF CallInv, Pointers
  <2>4. \A o \in Outs \ {c} : file'[o] = file[o] /\ Pending(o)' = Pending(o)
    BY <1>0, <1>2, <1>3 DEF CallInv, Pointers, Pending
  <2>5. <<>> \in Seq(Cell) /\ <<>> \o SubSeq(b, 1, m) = Pending(c) /\ file'[c] = file[c] \o <<>>
    <3>1. SubSeq(b, 1, m) \in Seq(Cell) /\ file[c] \in Seq(Cell)
      BY <1>1, FrontOfBuffer DEF CallInv, Kernel
    <3>2. QED
      BY <1>2, <2>2, <3>1, ConcatEmptySeq, EmptySeq DEF Pending
  <2>6. AfterStore /\ UNCHANGED <<said, fd, status>>
    BY <1>2, <1>3
  <2>7. PICK w \in Seq(Cell) : w \o SubSeq(b, 1, m) = Pending(c) /\ file'[c] = file[c] \o w
    BY <2>5
  <2>8. QED
    BY ONLY CallInv, c \in Outs, <1>0, <1>1, <2>1, b \in [1 .. Size -> Cell], m \in 0 .. Size,
            <2>2, <2>3, <2>4, <2>6, w \in Seq(Cell), <2>7, StoreAdvances, Zenon
<1>4. CASE Attempt(curr[C]) /\ UNCHANGED <<buff, curr>>
  <2>1. call'.rest = call.rest /\ call'.chan = call.chan
    BY <1>1, <1>4 DEF Attempt, Go, Calls
  <2>2. QED
    BY <1>2, <1>4, <2>1, SameWhenUnchanged DEF Effect
<1>5. QED
  BY <1>3, <1>4 DEF PutChar

LEMMA WrittenEffect == ASSUME CallInv, CallInv', Written PROVE Effect
<1> USE Constants
<1>0. PICK c \in Outs : c = C
  BY OpsDisjoint DEF Written, CallInv, Calling
<1>c. /\ call.op \in WriteOps \ {"putblock"} /\ c \in Chan /\ call \in Calls /\ call.n \in Nat
      /\ buff[c] \in [1 .. Size -> Cell] /\ curr[c] \in 0 .. Size /\ call.n <= curr[c]
  BY <1>0 DEF Written, CallInv, Calling, Calls, Writing, Pointers
<1>k. PICK k \in 1 .. call.n :
        LET kept == Shift(buff[C], k, curr[C])
        IN /\ ToFile(k)
           /\ IF call.op = "putch"
              THEN /\ buff' = [buff EXCEPT ![C] = Stored(kept, curr[C] - k)]
                   /\ curr' = [curr EXCEPT ![C] = @ - k + 1]
                   /\ AfterStore
              ELSE /\ buff' = [buff EXCEPT ![C] = kept]
                   /\ curr' = [curr EXCEPT ![C] = @ - k]
                   /\ IF call.op = "flush_partial" THEN Return("ok") ELSE Attempt(0)
           /\ UNCHANGED max
  BY DEF Written
<1>1. k \in 0 .. Size /\ k \in 0 .. curr[c] /\ k >= 1
  BY <1>c
<1>2. /\ fd[C] \in Fds /\ file' = [file EXCEPT ![C] = @ \o SubSeq(buff[C], 1, k)]
      /\ UNCHANGED <<status, fd, said>>
  <2>1. ToFile(k)
    BY <1>k
  <2>2. QED
    BY <1>0, <1>1, <2>1, ToFileKeeps
<1>3. PICK w \in Seq(Cell) : w = SubSeq(buff[c], 1, k)
  BY <1>c, <1>1, FrontOfBuffer
<1>4. /\ fd[c] # NoFd /\ file'[c] = file[c] \o w
      /\ \A o \in Outs \ {c} : file'[o] = file[o]
  <2>1. file' = [file EXCEPT ![c] = file[c] \o w]
    BY <1>0, <1>2, <1>3
  <2>2. QED
    BY <1>0, <1>2, <1>c, <2>1 DEF CallInv, Kernel
<1>5. PICK m \in 0 .. Size : m = curr[c] - k /\ m + 1 <= Size
  BY <1>1, <1>c
<1>6. PICK b \in [1 .. Size -> Cell] : b = Shift(buff[c], k, curr[c]) /\ w \o SubSeq(b, 1, m) = Pending(c)
  <2>1. /\ Shift(buff[c], k, curr[c]) \in [1 .. Size -> Cell]
        /\ SubSeq(Shift(buff[c], k, curr[c]), 1, curr[c] - k) = SubSeq(buff[c], k + 1, curr[c])
        /\ SubSeq(buff[c], 1, curr[c]) = SubSeq(buff[c], 1, k) \o SubSeq(buff[c], k + 1, curr[c])
    BY ONLY <1>c, <1>1, ShiftToFront, Zenon
  <2>2. QED
    BY <1>3, <1>5, <2>1 DEF Pending
<1>7. CASE call.op = "putch"
  <2>1. /\ buff' = [buff EXCEPT ![c] = Stored(b, m)]
        /\ curr' = [curr EXCEPT ![c] = curr[c] - k + 1] /\ AfterStore
    BY <1>0, <1>k, <1>5, <1>6, <1>7
  <2>2. curr[c] - k + 1 = m + 1
    BY <1>5
  <2>3. buff'[c] = Stored(b, m) /\ curr'[c] = m + 1
    BY <1>c, <2>1, <2>2 DEF CallInv, Pointers
  <2>4. \A o \in Outs \ {c} : file'[o] = file[o] /\ Pending(o)' = Pending(o)
    BY <1>4, <2>1 DEF CallInv, Pointers, Pending
  <2>5. m + 1 <= Size /\ w \o SubSeq(b, 1, m) = Pending(c) /\ file'[c] = file[c] \o w
        /\ UNCHANGED <<said, fd, status>> /\ fd[c] # NoFd
    BY <1>2, <1>4, <1>5, <1>6
  <2>6. QED
    BY <1>0, <1>7, <2>1, <2>3, <2>4, <2>5, StoreAdvances
<1>8. CASE call.op # "putch"
  <2>1. /\ buff' = [buff EXCEPT ![c] = b]
        /\ curr' = [curr EXCEPT ![c] = curr[c] - k] /\ (Return("ok") \/ Attempt(0))
    BY <1>0, <1>k, <1>5, <1>6, <1>8
  <2>2. buff'[c] = b /\ curr'[c] = m
    BY <1>c, <1>5, <2>1 DEF CallInv, Pointers
  <2>3. \A o \in Outs \ {c} : file'[o] = file[o] /\ Pending(o)' = Pending(o)
    BY <1>4, <2>1 DEF CallInv, Pointers, Pending
  <2>4. \A o \in Outs : Asked(o) = <<>> /\ Asked(o)' = <<>>
    <3>1. call.op \notin PutOps /\ call.rest = <<>>
      BY <1>8, <1>c, OpsDisjoint DEF CallInv, Calling, PutOps
    <3>2. CASE Return("ok")
      BY <3>1, <3>2, AskedIs, AskedNone DEF Return, ReturnLength
    <3>3. CASE Attempt(0)
      <4>1. call'.rest = <<>>
        BY <1>c, <3>1, <3>3 DEF Attempt, Go, Calls
      <4>2. QED
        BY <3>1, <4>1, AskedIs DEF Asked
    <3>4. QED
      BY <2>1, <3>2, <3>3
  <2>5. /\ <<>> \in Seq(Cell) /\ <<>> = <<>> \o <<>>
        /\ w \o Pending(c)' = Pending(c) \o <<>>
    <3>1. Pending(c)' = SubSeq(b, 1, m)
      BY <2>2 DEF Pending
    <3>2. Pending(c) \in Seq(Cell)
      BY <1>c, FrontOfBuffer DEF Pending
    <3>3. Pending(c) \o <<>> = Pending(c)
      BY <3>2, ConcatEmptySeq
    <3>4. QED
      BY <1>6, <3>1, <3>3, ConcatEmptySeq, EmptySeq
  <2>6. Advances(c, <<>>)
    BY <1>2, <1>4, <2>3, <2>4, <2>5 DEF Advances
  <2>7. QED
    BY <2>5, <2>6 DEF Effect
<1>9. QED
  BY <1>7, <1>8

\* The rest of a request, and what of it fits into the buffer.
LEMMA RequestSplit ==
  ASSUME NEW s \in Seq(Byte), NEW k \in 0 .. Len(s)
  PROVE  /\ SubSeq(s, 1, k) \in Seq(Byte) /\ Len(SubSeq(s, 1, k)) = k
         /\ Drop(s, k) \in Seq(Byte) /\ s = SubSeq(s, 1, k) \o Drop(s, k)
<1>0. Len(s) \in Nat /\ k \in Nat
  BY LenProperties
<1>1. \A i \in 1 .. Len(s) : s[i] \in Byte
  BY ElementOfSeq
<1>2. SubSeq(s, 1, k) \in Seq(Byte) /\ Len(SubSeq(s, 1, k)) = k
  <2>1. \A i \in 1 .. k : s[i] \in Byte
    BY <1>0, <1>1
  <2>2. 1 \in Int /\ k \in Int
    BY <1>0
  <2>3. SubSeq(s, 1, k) \in Seq(Byte) /\ Len(SubSeq(s, 1, k)) = IF 1 <= k THEN k - 1 + 1 ELSE 0
    BY <2>1, <2>2, SubSeqProperties
  <2>4. QED
    BY <1>0, <2>3
<1>3. Drop(s, k) \in Seq(Byte)
  <2>1. PICK m \in Int : m = k + 1
    BY <1>0
  <2>2. \A i \in m .. Len(s) : s[i] \in Byte
    BY <1>0, <1>1, <2>1
  <2>3. Len(s) \in Int
    BY <1>0
  <2>4. SubSeq(s, m, Len(s)) \in Seq(Byte)
    BY <2>2, <2>3, SubSeqProperties
  <2>5. QED
    BY <2>1, <2>4 DEF Drop
<1>4. SubSeq(s, 1, k) \o SubSeq(s, k + 1, Len(s)) = SubSeq(s, 1, Len(s))
  <2>1. 1 \in 1 .. Len(s) + 1 /\ k \in 1 - 1 .. Len(s) /\ Len(s) \in k .. Len(s)
    BY <1>0
  <2>2. QED
    BY <2>1, ConcatAdjacentSubSeq
<1>5. SubSeq(s, 1, Len(s)) = s
  BY SubSeqFull
<1>6. QED
  BY <1>2, <1>3, <1>4, <1>5 DEF Drop

LEMMA PutBlockEffect == ASSUME CallInv, CallInv', PutBlock PROVE Effect /\ Filled'
<1> USE Constants
<1>0. PICK c \in Outs : c = C
  BY OpsDisjoint DEF PutBlock, CallInv, Calling
<1>c. /\ call.op = "putblock" /\ c \in Chan /\ call \in Calls
      /\ buff[c] \in [1 .. Size -> Cell] /\ curr[c] \in 0 .. Size
  BY <1>0 DEF PutBlock, CallInv, Calling, Pointers
<1>r. PICK s \in Seq(Byte) : s = call.rest /\ Len(s) \in Nat /\ s \in Seq(Cell)
  BY RestOfCells, LenProperties
<1>p. PICK b \in [1 .. Size -> Cell], m \in 0 .. Size : b = buff[c] /\ m = curr[c]
  BY <1>c
<1>2. UNCHANGED <<status, fd, file, said>>
  BY DEF PutBlock, kernel, aux
<1>a. Asked(c) = s /\ \A o \in Outs : o # c => Asked(o) = <<>>
  BY <1>0, <1>r, AskedIs
<1>3. CASE /\ Len(s) <= Size - m
           /\ buff' = [buff EXCEPT ![c] = Put(b, m, s)]
           /\ curr' = [curr EXCEPT ![c] = m + Len(s)]
           /\ Return("ok")
  <2>1. m + Len(s) <= Size /\ s \in Seq(Cell) /\ m + Len(s) \in 0 .. Size
    BY <1>3, <1>r
  <2>2. SubSeq(Put(b, m, s), 1, m + Len(s)) = SubSeq(b, 1, m) \o s
    BY <2>1, PutBehind
  <2>3. buff'[c] = Put(b, m, s) /\ curr'[c] = m + Len(s)
    BY <1>3, <1>c DEF CallInv, Pointers
  <2>4. Pending(c)' = Pending(c) \o s
    BY <1>p, <2>2, <2>3 DEF Pending
  <2>5. \A o \in Outs \ {c} : Pending(o)' = Pending(o)
    BY <1>3 DEF CallInv, Pointers, Pending
  <2>6. \A o \in Outs : Asked(o)' = <<>>
    BY <1>3, AskedNone DEF Return, ReturnLength
  <2>n. call'.op = "idle"
    BY <1>3 DEF Return, ReturnLength, Idle
  <2>f. Filled'
    BY <2>n DEF Filled
  <2>7. CASE fd[c] # NoFd
    <3>1. /\ <<>> \o Pending(c)' = Pending(c) \o s /\ <<>> \in Seq(Cell)
          /\ file'[c] = file[c] \o <<>> /\ s = s \o <<>>
      <4>1. Pending(c)' \in Seq(Cell)
        <5>1. Pending(c) \in Seq(Cell)
          BY <1>c, FrontOfBuffer DEF Pending
        <5>2. QED
          BY <2>1, <2>4, <5>1, ConcatProperties
      <4>2. file[c] \in Seq(Cell)
        BY <1>c DEF CallInv, Kernel
      <4>3. <<>> \o Pending(c)' = Pending(c)'
        BY <4>1, ConcatEmptySeq
      <4>4. file[c] \o <<>> = file[c]
        BY <4>2, ConcatEmptySeq
      <4>5. QED
        BY <1>2, <2>4, <4>3, <4>4, ConcatEmptySeq, EmptySeq
    <3>2. Advances(c, s)
      BY <1>2, <1>a, <1>r, <2>5, <2>6, <2>7, <3>1 DEF Advances
    <3>3. QED
      BY <1>r, <2>f, <3>2 DEF Effect
  <2>8. CASE fd[c] = NoFd
    <3>1. m = Size
      BY <1>0, <1>c, <1>p, <2>8, OpsDisjoint DEF CallInv, Descriptors, Calling
    <3>2. Len(s) = 0
      BY <1>3, <1>r, <3>1
    <3>3. s = <<>>
      BY <3>2, EmptySeq
    <3>4. Same
      BY <1>2, <1>a, <2>5, <2>6, <2>8, <3>3 DEF Same
    <3>5. QED
      BY <2>f, <3>4 DEF Effect
  <2>9. QED
    BY <2>7, <2>8
<1>4. CASE /\ Len(s) > Size - m
           /\ buff' = [buff EXCEPT ![c] = Put(b, m, SubSeq(s, 1, Size - m))]
           /\ Attempt(Size) /\ UNCHANGED curr
  <2>1. PICK k \in 0 .. Len(s) : k = Size - m
    BY <1>4, <1>r
  <2>2. PICK t \in Seq(Cell) : t = SubSeq(s, 1, k) /\ Len(t) = k
    <3>1. SubSeq(s, 1, k) \in Seq(Byte) /\ Len(SubSeq(s, 1, k)) = k
      BY RequestSplit
    <3>2. SubSeq(s, 1, k) \in Seq(Cell)
      BY <3>1, SeqMonotonic
    <3>3. QED
      BY <3>1, <3>2
  <2>3. m + Len(t) <= Size /\ m + Len(t) = Size
    BY <2>1, <2>2
  <2>4. /\ SubSeq(Put(b, m, t), 1, m + Len(t)) = SubSeq(b, 1, m) \o t
        /\ SubSeq(Put(b, m, t), 1, m) = SubSeq(b, 1, m)
    <3>1. m + Len(t) <= Size
      BY <2>3
    <3>2. QED
      BY ONLY PutBehind, b \in [1 .. Size -> Cell], m \in 0 .. Size, t \in Seq(Cell), <3>1, Zenon
  <2>5. buff'[c] = Put(b, m, t) /\ curr'[c] = m /\ curr[c] = m
    BY <1>4, <1>c, <1>p, <2>1, <2>2 DEF CallInv, Pointers
  <2>6. Pending(c)' = Pending(c)
    BY <1>p, <2>4, <2>5 DEF Pending
  <2>7. \A o \in Outs \ {c} : Pending(o)' = Pending(o)
    BY <1>4 DEF CallInv, Pointers, Pending
  <2>8. call'.rest = call.rest /\ call'.chan = call.chan /\ call'.op = call.op
    BY <1>4, <1>c DEF Attempt, Go, Calls
  <2>9. Same
    BY <1>2, <2>6, <2>7, <2>8 DEF Same, Asked, C
  <2>10. Filled'
    <3>1. C' = c /\ call'.rest = s
      BY <1>0, <1>r, <2>8 DEF C
    <3>2. SubSeq(buff'[c], 1, Size) = Pending(c)' \o SubSeq(s, 1, Size - curr'[c])
      BY <1>p, <2>1, <2>2, <2>3, <2>4, <2>5, <2>6 DEF Pending
    <3>3. QED
      BY <3>1, <3>2 DEF Filled, Pending
  <2>11. QED
    BY <2>9, <2>10 DEF Effect
<1>5. QED
  BY <1>0, <1>3, <1>4, <1>p, <1>r DEF PutBlock

LEMMA BlockWrittenEffect == ASSUME CallInv, CallInv', Filled, BlockWritten PROVE Effect
<1> USE Constants
<1>0. PICK c \in Outs : c = C
  BY OpsDisjoint DEF BlockWritten, CallInv, Calling
<1>c. /\ call.op = "putblock" /\ c \in Chan /\ call \in Calls /\ call.n > 0 /\ call.n \in 0 .. Size
      /\ buff[c] \in [1 .. Size -> Cell] /\ curr[c] \in 0 .. Size
      /\ Len(call.rest) > Size - curr[c]
  BY <1>0 DEF BlockWritten, CallInv, Calling, Calls, Pointers, Writing
<1>r. PICK s \in Seq(Byte) : s = call.rest /\ Len(s) \in Nat /\ s \in Seq(Cell)
  BY RestOfCells, LenProperties
<1>p. PICK b \in [1 .. Size -> Cell], m \in 0 .. Size : b = buff[c] /\ m = curr[c]
  BY <1>c
<1>q. PICK q \in 0 .. Len(s) : q = Size - m
  BY <1>c, <1>p, <1>r
<1>t. PICK t \in Seq(Cell), r \in Seq(Cell) : t = SubSeq(s, 1, q) /\ r = Drop(s, q) /\ s = t \o r
  <2>1. SubSeq(s, 1, q) \in Seq(Byte) /\ Drop(s, q) \in Seq(Byte) /\ s = SubSeq(s, 1, q) \o Drop(s, q)
    BY RequestSplit
  <2>2. SubSeq(s, 1, q) \in Seq(Cell) /\ Drop(s, q) \in Seq(Cell)
    BY <2>1, SeqMonotonic
  <2>3. QED
    BY <2>1, <2>2
<1>k. PICK k \in 1 .. call.n :
        /\ ToFile(k)
        /\ buff' = [buff EXCEPT ![C] = Shift(@, k, Size)]
        /\ curr' = [curr EXCEPT ![C] = Size - k]
        /\ max'  = [max EXCEPT ![C] = Size - k]
        /\ Go([call EXCEPT !.rest = Drop(@, Size - curr[C]), !.n = 0])
  BY DEF BlockWritten
<1>1. k \in 0 .. Size /\ Size \in 0 .. Size
  BY <1>c
<1>2. /\ fd[C] \in Fds /\ file' = [file EXCEPT ![C] = @ \o SubSeq(buff[C], 1, k)]
      /\ UNCHANGED <<status, fd, said>>
  BY <1>0, <1>1, <1>k, ToFileKeeps
<1>3. PICK w \in Seq(Cell) : w = SubSeq(b, 1, k)
  BY <1>1, FrontOfBuffer
<1>4. /\ fd[c] # NoFd /\ file'[c] = file[c] \o w
      /\ \A o \in Outs \ {c} : file'[o] = file[o]
  <2>1. file' = [file EXCEPT ![c] = file[c] \o w]
    BY <1>0, <1>2, <1>3, <1>p
  <2>2. QED
    BY <1>0, <1>2, <1>c, <2>1 DEF CallInv, Kernel
<1>5. buff'[c] = Shift(b, k, Size) /\ curr'[c] = Size - k
  BY <1>0, <1>c, <1>k, <1>p DEF CallInv, Pointers
<1>6. /\ SubSeq(Shift(b, k, Size), 1, Size - k) = SubSeq(b, k + 1, Size)
      /\ SubSeq(b, 1, Size) = SubSeq(b, 1, k) \o SubSeq(b, k + 1, Size)
  BY <1>1, ShiftToFront
<1>7. w \o Pending(c)' = Pending(c) \o t
  <2>1. Pending(c)' = SubSeq(b, k + 1, Size)
    BY <1>5, <1>6 DEF Pending
  <2>2. SubSeq(b, 1, Size) = Pending(c) \o t
    BY <1>0, <1>c, <1>p, <1>q, <1>r, <1>t DEF Filled
  <2>3. QED
    BY <1>3, <1>6, <2>1, <2>2
<1>8. \A o \in Outs \ {c} : Pending(o)' = Pending(o)
  BY <1>0, <1>k DEF CallInv, Pointers, Pending
<1>9. Asked(c) = s /\ \A o \in Outs : o # c => Asked(o) = <<>>
  BY <1>0, <1>r, AskedIs
<1>10. Asked(c)' = r /\ \A o \in Outs : o # c => Asked(o)' = <<>>
  <2>1. call' = [call EXCEPT !.rest = r, !.n = 0]
    BY <1>0, <1>k, <1>p, <1>q, <1>r, <1>t DEF Go
  <2>2. call'.chan = c /\ call'.rest = r
    BY <1>0, <1>c, <2>1 DEF Calls, C
  <2>3. QED
    BY <2>2, AskedRest
<1>11. Advances(c, t)
  BY <1>2, <1>4, <1>7, <1>8, <1>9, <1>10, <1>r, <1>t DEF Advances
<1>12. QED
  BY <1>11 DEF Effect

\* The call still has no system call for a block to make.
LEMMA NotFilling == call'.op # "putblock" \/ call'.n = 0 => Filled'
  BY Constants DEF Filled

LEMMA ReturnsEmpty ==
  ASSUME NEW how, NEW n, ReturnLength(how, n)
  PROVE  call'.op = "idle" /\ call'.op \notin PutOps /\ Filled'
<1>1. call'.op = "idle"
  BY DEF ReturnLength, Idle
<1>2. QED
  BY <1>1, NotFilling DEF PutOps

LEMMA FlushEffect == ASSUME CallInv, CallInv', Flush PROVE Effect /\ Filled'
<1>1. /\ UNCHANGED <<status, fd, curr, buff, file, said>> /\ call' = [call EXCEPT !.n = curr[C]]
      /\ call.op \in FlushOps \cup {"flush_partial"} /\ call \in Calls
  BY DEF Flush, Attempt, Go, channel, kernel, aux, CallInv, Calling
<1>2. call'.rest = call.rest /\ call'.chan = call.chan /\ call'.op = call.op
  BY <1>1 DEF Calls
<1>3. Same
  BY <1>1, <1>2, SameWhenUnchanged
<1>4. call'.op # "putblock"
  BY <1>1, <1>2 DEF FlushOps
<1>5. QED
  BY <1>3, <1>4, NotFilling DEF Effect

\* A channel is closed with nothing pending, or was closed before, or is one for input.
LEMMA ShutEffect ==
  ASSUME CallInv, CallInv', NEW c \in Chan, status[c] = "live", call.op \notin PutOps,
         c \in Outs /\ fd[c] # NoFd => curr[c] = 0,
         UNCHANGED <<file, said, buff>>, call' = Idle,
         fd' = [fd EXCEPT ![c] = NoFd], status'[c] # "new",
         \A o \in Chan : o # c => status'[o] = status[o] /\ curr'[o] = curr[o]
  PROVE  Effect
<1> USE Constants
<1>1. fd'[c] = NoFd /\ \A o \in Chan : o # c => fd'[o] = fd[o]
  BY DEF CallInv, Pointers
<1>2. \A o \in Outs : Asked(o) = <<>> /\ Asked(o)' = <<>>
  BY AskedIs, AskedNone
<1>3. \A o \in Outs : o # c => Pending(o)' = Pending(o)
  BY DEF Pending
<1>4. CASE c \in Outs /\ fd[c] # NoFd
  <2>1. Pending(c) = <<>>
    <3>1. Pending(c) = SubSeq(buff[c], 1, 0)
      BY <1>4 DEF Pending
    <3>2. QED
      BY <3>1, SubSeqEmpty
  <2>2. Turns(c)
    BY <1>1, <1>2, <1>3, <1>4, <2>1 DEF Turns
  <2>3. QED
    BY <1>4, <2>2 DEF Effect
<1>5. CASE c \notin Outs \/ fd[c] = NoFd
  <2>1. Same
    BY <1>1, <1>2, <1>3, <1>5 DEF Same
  <2>2. QED
    BY <2>1 DEF Effect
<1>6. QED
  BY <1>4, <1>5

\* Closing and finalising end in this.
LEMMA EndEffect ==
  ASSUME CallInv, CallInv', NEW c \in Chan, status[c] = "live", call.op \notin PutOps,
         c \in Outs /\ fd[c] # NoFd => curr[c] = 0,
         Shut(c) \/ FreeChannel(c), Return("ok")
  PROVE  Effect
<1>1. call' = Idle
  BY DEF Return, ReturnLength
<1>2. CASE Shut(c)
  <2>1. /\ UNCHANGED <<status, buff, file, said>>
        /\ fd' = [fd EXCEPT ![c] = NoFd] /\ curr' = [curr EXCEPT ![c] = Size]
    BY <1>2 DEF Shut, aux
  <2>2. \A o \in Chan : o # c => status'[o] = status[o] /\ curr'[o] = curr[o]
    BY <2>1 DEF CallInv, Pointers
  <2>3. status'[c] # "new"
    BY <2>1
  <2>4. QED
    BY <1>1, <2>1, <2>2, <2>3, ShutEffect
<1>3. CASE FreeChannel(c)
  <2>1. /\ UNCHANGED <<curr, buff, file, said>>
        /\ fd' = [fd EXCEPT ![c] = NoFd] /\ status' = [status EXCEPT ![c] = "freed"]
    BY <1>3 DEF FreeChannel, aux
  <2>2. \A o \in Chan : o # c => status'[o] = status[o] /\ curr'[o] = curr[o]
    BY <2>1 DEF CallInv, Pointers
  <2>3. status'[c] # "new"
    BY <2>1 DEF CallInv, Pointers
  <2>4. QED
    BY <1>1, <2>1, <2>2, <2>3, ShutEffect
<1>4. QED
  BY <1>2, <1>3

LEMMA FlushedEffect == ASSUME CallInv, CallInv', Flushed PROVE Effect /\ Filled'
<1> USE Constants
<1>0. /\ C \in Chan /\ status[C] = "live" /\ call.op \notin PutOps
      /\ curr[C] = 0
  BY OpsDisjoint DEF Flushed, CallInv, Calling, FlushOps, PutOps, Ops
<1>1. PICK how : Return(how)
  BY DEF Flushed
<1>2. call'.op \notin PutOps /\ Filled'
  BY <1>1, ReturnsEmpty DEF Return
<1>3. CASE (Shut(C) \/ FreeChannel(C)) /\ Return("ok")
  <2>1. PICK c \in Chan : c = C
    BY <1>0
  <2>2. QED
    BY <1>0, <1>2, <1>3, <2>1, EndEffect
<1>4. CASE UNCHANGED <<status, fd, curr, buff, kernel, aux>>
  <2>1. UNCHANGED <<status, fd, curr, buff, file, said>>
    BY <1>4 DEF kernel, aux
  <2>2. Same
    BY <1>0, <1>2, <2>1, SameWhenUnchanged
  <2>3. QED
    BY <1>2, <2>2 DEF Effect
<1>5. QED
  BY <1>3, <1>4 DEF Flushed, channel

LEMMA WouldBlockEffect == ASSUME CallInv, CallInv', Filled, WouldBlock PROVE Effect /\ Filled'
<1>1. /\ UNCHANGED <<status, fd, curr, buff, file, said>> /\ call' = [call EXCEPT !.n = 1]
      /\ call \in Calls /\ call.n > 1
  BY DEF WouldBlock, Attempt, Go, channel, kernel, aux, CallInv, Calling
<1>2. call'.rest = call.rest /\ call'.chan = call.chan /\ call'.op = call.op
  BY <1>1 DEF Calls
<1>3. Same
  BY <1>1, <1>2, SameWhenUnchanged
<1>4. Filled'
  <2>1. call.n > 0
    <3>1. call.n \in Nat
      BY <1>1 DEF Calls
    <3>2. QED
      BY <1>1, <3>1
  <2>2. C' = C
    BY <1>2 DEF C
  <2>3. QED
    BY <1>1, <1>2, <2>1, <2>2 DEF Filled, Pending
<1>5. QED
  BY <1>3, <1>4 DEF Effect

LEMMA WriteFailsEffect == ASSUME CallInv, CallInv', WriteFails PROVE Effect /\ Filled'
<1>0. PICK c \in Outs : c = C
  BY OpsDisjoint DEF WriteFails, CallInv, Calling
<1>1. /\ UNCHANGED <<status, fd, curr, buff, file>> /\ Return("error")
      /\ said' = [said EXCEPT ![c] = SubSeq(@, 1, Len(@) - Len(call.rest))]
  BY <1>0 DEF WriteFails, channel, kernel
<1>2. Asked(c) = call.rest /\ \A o \in Outs : o # c => Asked(o) = <<>>
  BY <1>0, AskedIs
<1>3. \A o \in Outs : Asked(o)' = <<>> /\ Pending(o)' = Pending(o)
  BY <1>1, AskedNone DEF Return, ReturnLength, Pending
<1>4. GivesUp(c)
  BY <1>1, <1>2, <1>3 DEF GivesUp
<1>5. QED
  BY <1>1, <1>4, ReturnsEmpty DEF Effect, Return

\* Calls for input are about other channels.
LEMMA ReadEffect == ASSUME CallInv, CallInv', Read PROVE Effect /\ Filled'
<1> USE Constants
<1>0. call.op \in ReadOps /\ C \in Ins /\ call \in Calls
  BY OpsDisjoint DEF Read, GetChar, GetBlock, ScanLine, EndOfFile, Refill, ReadBlock, ReadMore,
     ReadFails, Reading, CallInv, Calling
<1>1. call' = Idle \/ call'.op = call.op
  BY <1>0 DEF Read, GetChar, GetBlock, ScanLine, EndOfFile, Refill, ReadBlock, ReadMore,
     ReadFails, AfterGet, Return, ReturnLength, Attempt, Go, Calls
<1>2. call'.op \notin PutOps /\ call'.op # "putblock" /\ call.op \notin PutOps
  BY <1>0, <1>1, OpsDisjoint DEF Idle, PutOps
<1>3. UNCHANGED <<status, fd, file, said>>
  BY DEF Read, GetChar, GetBlock, ScanLine, EndOfFile, Refill, ReadBlock, ReadMore,
     ReadFails, FromFile, Hear, channel, kernel, aux
<1>4. \A o \in Chan : o # C => buff'[o] = buff[o] /\ curr'[o] = curr[o]
  <2> USE DEF CallInv, Pointers
  <2>1. CASE GetChar
    BY <2>1 DEF GetChar
  <2>2. CASE GetBlock
    BY <2>2 DEF GetBlock
  <2>3. CASE ScanLine
    BY <2>3 DEF ScanLine
  <2>4. CASE EndOfFile
    BY <2>4 DEF EndOfFile, channel
  <2>5. CASE Refill
    BY <2>5 DEF Refill, FromFile
  <2>6. CASE ReadBlock
    BY <2>6 DEF ReadBlock, FromFile
  <2>7. CASE ReadMore
    BY <2>7 DEF ReadMore, FromFile
  <2>8. CASE ReadFails
    BY <2>8 DEF ReadFails, channel
  <2>9. QED
    BY <2>1, <2>2, <2>3, <2>4, <2>5, <2>6, <2>7, <2>8 DEF Read
<1>5. \A o \in Outs : buff'[o] = buff[o] /\ curr'[o] = curr[o] /\ o \in Chan
  BY <1>0, <1>4
<1>6. Same
  BY <1>2, <1>3, <1>5, SameWhenUnchanged
<1>7. QED
  BY <1>2, <1>6, NotFilling DEF Effect

\* A call that starts asks only for what it is to output.
LEMMA IdleAsks ==
  ASSUME CallInv, call = Idle
  PROVE  call.op = "idle" /\ call.op \notin PutOps /\ \A o \in Outs : Asked(o) = <<>>
<1>1. call.op = "idle" /\ call.op \notin PutOps
  BY DEF Idle, PutOps
<1>2. QED
  BY <1>1, AskedIs

LEMMA QuietEffect ==
  ASSUME CallInv, CallInv', NEW c \in Chan, NEW op \in Ops \ PutOps, NEW need, NEW p,
         Start(op, c, <<>>, need, p), UNCHANGED <<channel, kernel, said>>
  PROVE  Effect /\ Filled'
<1>1. call = Idle /\ call'.op = op
  BY DEF Start
<1>2. UNCHANGED <<status, fd, curr, buff, file, said>>
  BY DEF channel, kernel
<1>3. call.op \notin PutOps /\ call'.op \notin PutOps
  BY <1>1, IdleAsks
<1>4. Same
  BY <1>2, <1>3, SameWhenUnchanged
<1>5. call'.op # "putblock"
  BY <1>1 DEF PutOps
<1>6. QED
  BY <1>4, <1>5, NotFilling DEF Effect

LEMMA OutputEffect ==
  ASSUME CallInv, NEW c \in Outs, NEW op, NEW s \in Seq(Byte), Output(op, c, s)
  PROVE  Effect /\ Filled'
<1>1. /\ call = Idle /\ call' = [op |-> op, chan |-> c, rest |-> s, need |-> 0, n |-> 0, p |-> 0]
      /\ said' = [said EXCEPT ![c] = @ \o s]
      /\ UNCHANGED <<status, fd, curr, buff, file>>
  BY DEF Output, Start, channel, kernel
<1>2. call'.chan = c /\ call'.rest = s /\ call'.n = 0
  BY <1>1
<1>3. \A o \in Outs : Asked(o) = <<>> /\ Asked(o)' = IF o = c THEN s ELSE <<>>
  BY <1>1, <1>2, IdleAsks, AskedRest DEF Asked, C
<1>4. \A o \in Outs : Pending(o)' = Pending(o)
  BY <1>1 DEF Pending
<1>5. Takes(c, s)
  BY <1>1, <1>3, <1>4 DEF Takes
<1>6. QED
  BY <1>2, <1>5, NotFilling DEF Effect

LEMMA OpenEffect ==
  ASSUME CallInv, CallInv', NEW c \in Chan, Open(c) PROVE Effect /\ Filled'
<1> USE Constants
<1>1. PICK d \in Fds : fd' = [fd EXCEPT ![c] = d]
  BY DEF Open
<1>2. /\ call = Idle /\ status[c] = "new" /\ status' = [status EXCEPT ![c] = "live"]
      /\ Return("ok") /\ UNCHANGED <<curr, buff, file, said>>
  BY DEF Open, aux
<1>3. call' = Idle /\ Filled'
  BY <1>2, ReturnsEmpty DEF Return, ReturnLength
<1>4. \A o \in Outs : Asked(o) = <<>> /\ Asked(o)' = <<>>
  BY <1>2, <1>3, IdleAsks, AskedNone
<1>5. \A o \in Outs : Pending(o)' = Pending(o)
  BY <1>2 DEF Pending
<1>6. fd'[c] = d /\ \A o \in Chan : o # c => fd'[o] = fd[o] /\ status'[o] = status[o]
  BY <1>1, <1>2 DEF CallInv, Pointers
<1>7. CASE c \in Outs
  <2>1. fd[c] = NoFd /\ curr[c] = 0
    BY <1>2 DEF CallInv, Descriptors
  <2>2. Pending(c)' = <<>>
    <3>1. Pending(c) = SubSeq(buff[c], 1, 0)
      BY <2>1 DEF Pending
    <3>2. QED
      BY <1>5, <1>7, <3>1, SubSeqEmpty
  <2>3. Turns(c)
    BY <1>2, <1>4, <1>5, <1>6, <1>7, <2>1, <2>2 DEF Turns
  <2>4. QED
    BY <1>3, <1>7, <2>3 DEF Effect
<1>8. CASE c \notin Outs
  <2>1. Same
    BY <1>2, <1>4, <1>5, <1>6, <1>8 DEF Same
  <2>2. QED
    BY <1>3, <2>1 DEF Effect
<1>9. QED
  BY <1>7, <1>8

LEMMA CallOnEffect ==
  ASSUME CallInv, CallInv', NEW c \in Chan, CallOn(c) PROVE Effect /\ Filled'
<1> USE Constants
<1>1. CASE Open(c)
  BY <1>1, OpenEffect
<1>2. CASE prim_close_channel(c) \/ finalize_channel(c)
  <2>1. ASSUME NEW op \in {"close", "finalize"}, Quiet(op, c, 0) PROVE Effect /\ Filled'
    <3>1. op \in Ops \ PutOps
      BY OpsDisjoint DEF Ops, PutOps
    <3>2. Start(op, c, <<>>, 0, 0) /\ UNCHANGED <<channel, kernel, said>>
      BY <2>1 DEF Quiet, aux
    <3>3. QED
      BY <3>1, <3>2, QuietEffect
  <2>2. CASE /\ fd[c] = NoFd \/ c \in Ins
             /\ call = Idle /\ status[c] = "live"
             /\ (Shut(c) \/ FreeChannel(c)) /\ Return("ok")
    <3>1. call.op \notin PutOps /\ Filled'
      BY <2>2, IdleAsks, ReturnsEmpty DEF Return
    <3>2. ~(c \in Outs /\ fd[c] # NoFd)
      BY <2>2
    <3>3. QED
      BY <2>2, <3>1, <3>2, EndEffect
  <2>3. QED
    BY <1>2, <2>1, <2>2 DEF prim_close_channel, finalize_channel, Quiet
<1>3. CASE c \in Outs /\ (prim_output_char(c) \/ putword(c) \/ prim_output(c))
  <2>1. PICK op, s : s \in Seq(Byte) /\ Output(op, c, s)
    <3>1. CASE prim_output_char(c)
      <4>1. PICK b \in Byte : Output("putch", c, <<b>>)
        BY <3>1 DEF prim_output_char
      <4>2. <<b>> \in Seq(Byte)
        OBVIOUS
      <4>3. QED
        BY <4>1, <4>2
    <3>2. CASE putword(c)
      <4>1. PICK s \in [1 .. Word -> Byte] : Output("putch", c, s)
        BY <3>2 DEF putword
      <4>2. s \in Seq(Byte)
        BY SMT
      <4>3. QED
        BY <4>1, <4>2
    <3>3. CASE prim_output(c)
      BY <3>3, ValueAssumption DEF prim_output
    <3>4. QED
      BY <1>3, <3>1, <3>2, <3>3
  <2>2. QED
    BY <1>3, <2>1, OutputEffect
<1>4. CASE c \in Outs /\ (prim_flush(c) \/ prim_flush_partial(c) \/ seek_out(c))
  <2>1. PICK op \in {"flush", "flush_partial", "seek_out"} : \E p : Quiet(op, c, p)
    BY <1>4 DEF prim_flush, prim_flush_partial, seek_out
  <2>p. PICK p : Quiet(op, c, p)
    BY <2>1
  <2>2. op \in Ops \ PutOps
    BY OpsDisjoint DEF Ops, PutOps
  <2>3. Start(op, c, <<>>, 0, p) /\ UNCHANGED <<channel, kernel, said>>
    BY <2>p DEF Quiet, aux
  <2>4. QED
    BY <2>2, <2>3, QuietEffect
<1>5. CASE /\ c \in Ins
           /\ \/ prim_input_char(c) \/ getword(c) \/ caml_input(c) \/ really_getblock(c)
              \/ input_scan_line(c)
  <2>1. PICK op \in ReadOps : \E need : Input(op, c, need)
    BY <1>5 DEF prim_input_char, getword, caml_input, really_getblock, input_scan_line, ReadOps
  <2>2. op \in Ops \ PutOps
    BY OpsDisjoint DEF Ops, PutOps
  <2>n. PICK need : Input(op, c, need)
    BY <2>1
  <2>3. Start(op, c, <<>>, need, curr[c]) /\ UNCHANGED <<channel, kernel, said>>
    BY <2>n DEF Input
  <2>4. QED
    BY <2>2, <2>3, QuietEffect
<1>6. CASE c \in Ins /\ (seek_in(c) \/ channel_size(c))
  <2>1. /\ call = Idle /\ Return("ok") /\ UNCHANGED <<status, fd, buff, file, said>>
        /\ \A o \in Chan : o # c => curr'[o] = curr[o]
    BY <1>6 DEF seek_in, channel_size, channel, aux, CallInv, Pointers
  <2>2. \A o \in Outs : curr'[o] = curr[o]
    BY <1>6, <2>1
  <2>3. call.op \notin PutOps /\ call'.op \notin PutOps /\ Filled'
    BY <2>1, IdleAsks, ReturnsEmpty DEF Return
  <2>4. Same
    BY <2>1, <2>2, <2>3, SameWhenUnchanged
  <2>5. QED
    BY <2>3, <2>4 DEF Effect
<1>7. QED
  BY <1>1, <1>2, <1>3, <1>4, <1>5, <1>6 DEF CallOn

LEMMA PutCharGoesOn ==
  ASSUME CallInv, call.op = "putch", AfterStore PROVE call'.op # "putblock"
<1>1. call \in Calls
  BY DEF CallInv, Calling
<1>2. CASE Return("ok")
  BY <1>2 DEF Return, ReturnLength, Idle
<1>3. CASE Go([call EXCEPT !.rest = Tail(@), !.n = 0])
  BY <1>1, <1>3 DEF Go, Calls
<1>4. QED
  BY <1>2, <1>3 DEF AfterStore

\* Every step has one of the five effects on output.
LEMMA StepEffect == ASSUME CallInv, CallInv', Filled, [Next]_vars PROVE Effect /\ Filled'
<1>1. CASE Write
  <2>1. CASE PutChar
    <3>1. Effect
      BY <2>1, PutCharEffect
    <3>2. call'.op # "putblock"
      <4>1. CASE AfterStore
        BY <2>1, <4>1, PutCharGoesOn DEF PutChar
      <4>2. CASE Attempt(curr[C])
        BY <2>1, <4>2 DEF PutChar, Attempt, Go, CallInv, Calling, Calls
      <4>3. QED
        BY <2>1, <4>1, <4>2 DEF PutChar
    <3>3. QED
      BY <3>1, <3>2, NotFilling
  <2>2. CASE PutBlock
    BY <2>2, PutBlockEffect
  <2>3. CASE Flush
    BY <2>3, FlushEffect
  <2>4. CASE Flushed
    BY <2>4, FlushedEffect
  <2>5. CASE Written
    <3>1. Effect
      BY <2>5, WrittenEffect
    <3>2. call'.op # "putblock"
      <4>1. CASE call.op = "putch" /\ AfterStore
        BY <4>1, PutCharGoesOn
      <4>2. CASE Attempt(0)
        BY <2>5, <4>2 DEF Written, Attempt, Go, CallInv, Calling, Calls
      <4>3. CASE Return("ok")
        BY <4>3 DEF Return, ReturnLength, Idle
      <4>4. QED
        BY <2>5, <4>1, <4>2, <4>3 DEF Written
    <3>3. QED
      BY <3>1, <3>2, NotFilling
  <2>6. CASE BlockWritten
    <3>1. Effect
      BY <2>6, BlockWrittenEffect
    <3>2. call \in Calls
      BY DEF CallInv, Calling
    <3>3. call'.n = 0
      BY <2>6, <3>2 DEF BlockWritten, Go, Calls
    <3>4. QED
      BY <3>1, <3>3, NotFilling
  <2>7. CASE WouldBlock
    BY <2>7, WouldBlockEffect
  <2>8. CASE WriteFails
    BY <2>8, WriteFailsEffect
  <2>9. QED
    BY <1>1, <2>1, <2>2, <2>3, <2>4, <2>5, <2>6, <2>7, <2>8 DEF Write
<1>2. CASE Read
  BY <1>2, ReadEffect
<1>3. ASSUME NEW c \in Chan, CallOn(c) PROVE Effect /\ Filled'
  BY <1>3, CallOnEffect
<1>4. CASE UNCHANGED vars
  <2>1. UNCHANGED <<status, fd, curr, buff, file, said, call>>
    BY <1>4 DEF vars, channel, kernel, aux
  <2>2. Same
    BY <2>1, SameWhenUnchanged
  <2>3. Filled'
    BY <2>1 DEF Filled, Pending, C
  <2>4. QED
    BY <2>2, <2>3 DEF Effect
<1>5. QED
  BY <1>1, <1>2, <1>3, <1>4 DEF Next

LEMMA OutputTypes ==
  ASSUME CallInv, NEW o \in Outs
  PROVE  /\ said[o] \in Seq(Cell) /\ file[o] \in Seq(Cell)
         /\ Pending(o) \in Seq(Cell) /\ Len(Pending(o)) = curr[o] /\ Len(Pending(o)) <= Size
<1> USE Constants
<1>1. said[o] \in Seq(Byte) /\ file[o] \in Seq(Cell)
  BY DEF CallInv, Beliefs, Kernel
<1>2. said[o] \in Seq(Cell)
  BY <1>1, SeqMonotonic
<1>3. buff[o] \in [1 .. Size -> Cell] /\ curr[o] \in 0 .. Size
  BY DEF CallInv, Pointers
<1>4. Pending(o) \in Seq(Cell) /\ Len(Pending(o)) = curr[o]
  BY <1>3, FrontOfBuffer DEF Pending
<1>5. QED
  BY <1>1, <1>2, <1>3, <1>4

LEMMA PendingTypes == CallInv => \A o \in Outs : Pending(o) \in Seq(Cell) /\ Len(Pending(o)) <= Size
  BY OutputTypes

LEMMA PendingTypesNext ==
  CallInv' => (\A o \in Outs : Pending(o) \in Seq(Cell) /\ Len(Pending(o)) <= Size)'
  BY PendingTypes, PTL

\* An equation with a name of its own, like Associate.
Regrouped(f, p, t, r, w, q) == (f \o p) \o (t \o r) = ((f \o w) \o q) \o r

\* The bytes that leave the buffer join the file, and those that enter it leave the request.
LEMMA Regroup ==
  ASSUME NEW f \in Seq(Cell), NEW p \in Seq(Cell), NEW t \in Seq(Cell),
         NEW r \in Seq(Cell), NEW w \in Seq(Cell), NEW q \in Seq(Cell),
         p \o t = w \o q
  PROVE  Regrouped(f, p, t, r, w, q)
<1>1. PICK x \in Seq(Cell) : x = f \o p
  BY ConcatProperties
<1>2. Associate(x, t, r) /\ Associate(f, p, t) /\ Associate(f, w, q)
  BY CellsAssociate
<1>3. p \o t = w \o q
  OBVIOUS
<1>4. QED
  BY ONLY <1>1, <1>2, <1>3, Zenon DEF Associate, Regrouped

Account(o) ==
  /\ fd[o] # NoFd => said[o] = file[o] \o Pending(o) \o Asked(o)
  /\ fd[o] = NoFd => said[o] = file[o] \o Asked(o)

LEMMA AdvanceAccounts ==
  ASSUME CallInv, CallInv', NEW c \in Outs, NEW t \in Seq(Cell), Advances(c, t), Account(c)
  PROVE  Account(c)'
<1>1. PICK w \in Seq(Cell) : file'[c] = file[c] \o w /\ w \o Pending(c)' = Pending(c) \o t
  BY DEF Advances
<1>2. PICK f \in Seq(Cell), p \in Seq(Cell) : f = file[c] /\ p = Pending(c)
  BY OutputTypes
<1>3. PICK q \in Seq(Cell) : q = Pending(c)'
  BY PendingTypesNext
<1>4. PICK a \in Seq(Cell), r \in Seq(Cell) : a = Asked(c) /\ r = Asked(c)' /\ a = t \o r
  BY DEF Advances
<1>5. said[c] = (f \o p) \o (t \o r)
  BY <1>2, <1>4 DEF Account, Advances
<1>6. p \o t = w \o q
  BY <1>1, <1>2, <1>3
<1>7. Regrouped(f, p, t, r, w, q)
  BY ONLY <1>6, Regroup
<1>8. said[c] = ((f \o w) \o q) \o r
  BY ONLY <1>5, <1>7 DEF Regrouped
<1>9. said'[c] = (file'[c] \o Pending(c)') \o Asked(c)' /\ fd'[c] # NoFd
  BY <1>1, <1>2, <1>3, <1>4, <1>8 DEF Advances
<1>10. QED
  BY <1>9 DEF Account

\* What is asked for can be taken back from the end of what has been said.
LEMMA TakeBack ==
  ASSUME NEW x \in Seq(Cell), NEW a \in Seq(Cell)
  PROVE  SubSeq(x \o a, 1, Len(x \o a) - Len(a)) = x
<1>1. Len(x) \in Nat /\ Len(a) \in Nat
  BY LenProperties
<1>2. /\ x \o a \in Seq(Cell) /\ Len(x \o a) = Len(x) + Len(a)
      /\ \A i \in 1 .. Len(x) + Len(a) : (x \o a)[i] = IF i <= Len(x) THEN x[i] ELSE a[i - Len(x)]
  BY ConcatProperties
<1>3. PICK z \in Seq(Cell), n \in Nat : z = x \o a /\ n = Len(x)
  BY <1>1, <1>2
<1>4. \A i \in 1 .. n : z[i] = x[i] /\ z[i] \in Cell
  <2>1. \A i \in 1 .. n : x[i] \in Cell
    BY <1>3, ElementOfSeq
  <2>2. QED
    BY <1>1, <1>2, <1>3, <2>1
<1>5. PICK y : y = SubSeq(z, 1, n)
  OBVIOUS
<1>6. y \in Seq(Cell) /\ Len(y) = n /\ \A i \in 1 .. n : y[i] = z[i]
  <2>1. 1 \in Int /\ n \in Int /\ \A i \in 1 .. n : z[i] \in Cell
    BY <1>4
  <2>2. /\ SubSeq(z, 1, n) \in Seq(Cell)
        /\ Len(SubSeq(z, 1, n)) = IF 1 <= n THEN n - 1 + 1 ELSE 0
        /\ \A i \in 1 .. n - 1 + 1 : SubSeq(z, 1, n)[i] = z[1 + i - 1]
    BY <2>1, SubSeqProperties
  <2>3. QED
    BY <1>5, <2>2
<1>7. y = x
  <2>1. Len(y) = Len(x) /\ \A i \in 1 .. Len(y) : y[i] = x[i]
    BY <1>3, <1>4, <1>6
  <2>2. QED
    BY <1>6, <2>1, SeqEqual
<1>8. Len(x \o a) - Len(a) = n
  BY <1>1, <1>2, <1>3
<1>9. QED
  BY <1>3, <1>5, <1>7, <1>8

\* Every effect keeps the account of every channel.
LEMMA EffectAccounts ==
  ASSUME CallInv, CallInv', Effect, NEW o \in Outs, Account(o)
  PROVE  Account(o)'
<1>0. Pending(o) \in Seq(Cell) /\ file[o] \in Seq(Cell) /\ said[o] \in Seq(Cell)
  BY OutputTypes
<1>a. Asked(o) \in Seq(Cell)
  <2>1. Asked(o) \in Seq(Byte)
    BY AskedIs
  <2>2. QED
    BY <2>1, Constants, SeqMonotonic
<1>p. PICK f \in Seq(Cell), p \in Seq(Cell), a \in Seq(Cell), x \in Seq(Cell) :
        f = file[o] /\ p = Pending(o) /\ a = Asked(o) /\ x = f \o p
  <2>1. file[o] \o Pending(o) \in Seq(Cell)
    BY <1>0, ConcatProperties
  <2>2. QED
    BY <1>0, <1>a, <2>1
<1>1. CASE Same
  BY <1>1 DEF Same, Account
<1>2. ASSUME NEW c \in Outs, NEW s \in Seq(Byte), Takes(c, s) PROVE Account(o)'
  <2>1. /\ file'[o] = f /\ fd'[o] = fd[o] /\ Pending(o)' = p /\ a = <<>>
        /\ Asked(o)' = (IF o = c THEN s ELSE <<>>)
        /\ said'[o] = (IF o = c THEN said[o] \o s ELSE said[o])
    BY <1>2, <1>p DEF Takes, CallInv, Beliefs
  <2>2. x \o <<>> = x /\ f \o <<>> = f
    BY ConcatEmptySeq
  <2>3. QED
    BY <1>p, <2>1, <2>2 DEF Account
<1>3. ASSUME NEW c \in Outs, GivesUp(c) PROVE Account(o)'
  <2>1. /\ file'[o] = f /\ fd'[o] = fd[o] /\ Pending(o)' = p /\ Asked(o)' = <<>>
        /\ o # c => a = <<>> /\ said'[o] = said[o]
        /\ o = c => said'[o] = SubSeq(said[o], 1, Len(said[o]) - Len(a))
    BY <1>3, <1>p DEF GivesUp, CallInv, Beliefs
  <2>2. x \o <<>> = x /\ f \o <<>> = f
    BY ConcatEmptySeq
  <2>3. SubSeq(x \o a, 1, Len(x \o a) - Len(a)) = x
    BY TakeBack
  <2>4. SubSeq(f \o a, 1, Len(f \o a) - Len(a)) = f
    BY TakeBack
  <2>5. /\ fd[o] # NoFd => said[o] = x \o a
        /\ fd[o] = NoFd => said[o] = f \o a
    BY <1>p DEF Account
  <2>6. /\ fd[o] # NoFd => said'[o] = x
        /\ fd[o] = NoFd => said'[o] = f
    BY <2>1, <2>2, <2>3, <2>4, <2>5
  <2>7. QED
    BY <1>p, <2>1, <2>2, <2>6 DEF Account
<1>4. ASSUME NEW c \in Outs, NEW t \in Seq(Cell), Advances(c, t) PROVE Account(o)'
  <2>1. CASE o = c
    BY <1>4, <2>1, AdvanceAccounts
  <2>2. CASE o # c
    BY <1>4, <2>2 DEF Advances, Account
  <2>3. QED
    BY <2>1, <2>2
<1>5. ASSUME NEW c \in Outs, Turns(c) PROVE Account(o)'
  <2>1. CASE o = c
    <3>1. a = <<>> /\ Asked(o)' = <<>> /\ file'[o] = f /\ said'[o] = said[o]
      BY <1>5, <1>p, <2>1 DEF Turns
    <3>2. f \o <<>> = f /\ f \o <<>> \o <<>> = f
      BY ConcatEmptySeq
    <3>3. CASE fd[o] = NoFd /\ fd'[o] # NoFd /\ Pending(o)' = <<>>
      BY <1>p, <3>1, <3>2, <3>3 DEF Account
    <3>4. CASE fd[o] # NoFd /\ fd'[o] = NoFd /\ Pending(o) = <<>>
      BY <1>p, <3>1, <3>2, <3>4 DEF Account
    <3>5. QED
      BY <1>5, <2>1, <3>3, <3>4 DEF Turns
  <2>2. CASE o # c
    BY <1>5, <2>2 DEF Turns, Account
  <2>3. QED
    BY <2>1, <2>2
<1>6. QED
  BY <1>1, <1>2, <1>3, <1>4, <1>5 DEF Effect

LEMMA OutputInit == Init => OutInv
<1> SUFFICES ASSUME Init PROVE OutInv
  OBVIOUS
<1>1. call.op = "idle" /\ C = None /\ call.rest = <<>>
  BY DEF Init, Idle, C
<1>2. ASSUME NEW o \in Outs PROVE Account(o)
  <2>1. file[o] \in Seq(Byte) /\ said[o] = file[o] /\ fd[o] = NoFd
    BY Constants, ValueAssumption DEF Init
  <2>2. Asked(o) = <<>>
    BY <1>1 DEF Asked
  <2>3. QED
    BY <2>1, <2>2, ConcatEmptySeq DEF Account
<1>3. Filled
  BY <1>1 DEF Filled
<1>4. QED
  BY <1>2, <1>3 DEF OutInv, OutputAccounted, Account

LEMMA OutputStep == CallInv /\ OutInv /\ CallInv' /\ [Next]_vars => OutInv'
<1> SUFFICES ASSUME CallInv, OutInv, CallInv', [Next]_vars PROVE OutInv'
  OBVIOUS
<1>1. Filled /\ \A o \in Outs : Account(o)
  BY DEF OutInv, OutputAccounted, Account
<1>2. Effect /\ Filled'
  BY <1>1, StepEffect
<1>3. ASSUME NEW o \in Outs PROVE Account(o)'
  BY <1>1, <1>2, EffectAccounts
<1>4. QED
  BY <1>2, <1>3 DEF OutInv, OutputAccounted, Account

\* What the program has output is in the file, in the buffer, or with the call under
\* way: once, and in its order, whatever was written, refused or given up.
THEOREM OutputIsAccounted == Spec => []OutputAccounted
<1>1. OutInv => OutputAccounted
  BY DEF OutInv
<1>2. QED
  BY <1>1, CallInit, CallStep, OutputInit, OutputStep, PTL DEF Spec

-----------------------------------------------------------------------------
(* The output channels are streams                                          *)

\* the variables of Stream, of one channel
Accepted(o) == SubSeq(said[o], 1, Len(said[o]) - Len(Asked(o)))
Over(o)     == status[o] # "new" /\ fd[o] = NoFd

\* What has been accepted from the program is in the file and in the buffer.
LEMMA AcceptedIs ==
  CallInv /\ OutInv =>
    \A o \in Outs : Accepted(o) = IF fd[o] # NoFd THEN file[o] \o Pending(o) ELSE file[o]
<1> SUFFICES ASSUME CallInv, OutInv, NEW o \in Outs
             PROVE  Accepted(o) = IF fd[o] # NoFd THEN file[o] \o Pending(o) ELSE file[o]
  OBVIOUS
<1>1. Asked(o) \in Seq(Cell)
  <2>1. Asked(o) \in Seq(Byte)
    BY AskedIs
  <2>2. QED
    BY <2>1, Constants, SeqMonotonic
<1>2. PICK f \in Seq(Cell), p \in Seq(Cell), a \in Seq(Cell) :
        f = file[o] /\ p = Pending(o) /\ a = Asked(o)
  BY <1>1, OutputTypes
<1>3. PICK x \in Seq(Cell) : x = f \o p
  BY ConcatProperties
<1>4. /\ SubSeq(x \o a, 1, Len(x \o a) - Len(a)) = x
      /\ SubSeq(f \o a, 1, Len(f \o a) - Len(a)) = f
  BY TakeBack
<1>5. Account(o)
  BY DEF OutInv, OutputAccounted, Account
<1>6. CASE fd[o] # NoFd
  <2>1. said[o] = x \o a
    BY <1>2, <1>3, <1>5, <1>6 DEF Account
  <2>2. QED
    BY <1>2, <1>3, <1>4, <1>6, <2>1 DEF Accepted
<1>7. CASE fd[o] = NoFd
  <2>1. said[o] = f \o a
    BY <1>2, <1>5, <1>7 DEF Account
  <2>2. QED
    BY <1>2, <1>4, <1>7, <2>1 DEF Accepted
<1>8. QED
  BY <1>6, <1>7

LEMMA AcceptedIsNext ==
  (CallInv /\ OutInv)' =>
    (\A o \in Outs : Accepted(o) = IF fd[o] # NoFd THEN file[o] \o Pending(o) ELSE file[o])'
  BY AcceptedIs, PTL

\* A sequence that is appended to is led by what it was.
LEMMA ConcatLeads ==
  ASSUME NEW x \in Seq(Cell), NEW y \in Seq(Cell)
  PROVE  Abstract!Leads(x, x \o y) /\ Len(x \o y) - Len(x) = Len(y)
<1>1. Len(x) \in Nat /\ Len(y) \in Nat
  BY LenProperties
<1>2. /\ Len(x \o y) = Len(x) + Len(y)
      /\ \A i \in 1 .. Len(x) + Len(y) : (x \o y)[i] = IF i <= Len(x) THEN x[i] ELSE y[i - Len(x)]
  BY ConcatProperties
<1>3. PICK z : z = x \o y
  OBVIOUS
<1>4. Len(z) = Len(x) + Len(y) /\ \A i \in 1 .. Len(x) : z[i] = x[i]
  BY <1>1, <1>2, <1>3
<1>5. Abstract!Leads(x, z)
  BY <1>1, <1>4 DEF Abstract!Leads
<1>6. QED
  BY <1>1, <1>3, <1>4, <1>5

\* When no stream changes, Stream does not see the step.
LEMMA StreamsStay ==
  ASSUME \A o \in Outs : Accepted(o)' = Accepted(o) /\ file'[o] = file[o] /\ (Over(o)' <=> Over(o))
  PROVE  UNCHANGED Abstract!vars
<1>1. [c \in Outs |-> Accepted(c)]' = [c \in Outs |-> Accepted(c)]
  OBVIOUS
<1>2. [c \in Outs |-> file[c]]' = [c \in Outs |-> file[c]]
  OBVIOUS
<1>3. \A o \in Outs : Over(o)' = Over(o)
  BY DEF Over
<1>4. [c \in Outs |-> Over(c)]' = [c \in Outs |-> Over(c)]
  BY <1>3
<1>5. QED
  BY <1>1, <1>2, <1>4 DEF Abstract!vars, Accepted, Over

LEMMA StreamInit == Init => Abstract!Init
<1> SUFFICES ASSUME Init PROVE Abstract!Init
  OBVIOUS
<1>1. CallInv /\ OutInv
  BY CallInit, OutputInit
<1>2. ASSUME NEW o \in Outs PROVE Accepted(o) = file[o] /\ ~Over(o)
  <2>1. fd[o] = NoFd /\ status[o] = "new"
    BY Constants DEF Init
  <2>2. QED
    BY <1>1, <2>1, AcceptedIs DEF Over
<1>3. [c \in Outs |-> Over(c)] = [c \in Outs |-> FALSE]
  BY <1>2 DEF Over
<1>4. QED
  BY <1>2, <1>3 DEF Abstract!Init, Accepted, Over

\* What enters the buffer is accepted, and what leaves it delivered.
LEMMA AdvanceMoves ==
  ASSUME CallInv, OutInv, CallInv', OutInv',
         NEW c \in Outs, NEW t \in Seq(Cell), Advances(c, t)
  PROVE  Abstract!Next
<1>1. PICK w \in Seq(Cell) : file'[c] = file[c] \o w /\ w \o Pending(c)' = Pending(c) \o t
  BY DEF Advances
<1>2. PICK f \in Seq(Cell), p \in Seq(Cell) : f = file[c] /\ p = Pending(c)
  BY OutputTypes
<1>3. PICK q \in Seq(Cell) : q = Pending(c)' /\ Len(q) <= Size
  BY PendingTypesNext
<1>4. PICK x \in Seq(Cell), y \in Seq(Cell) : x = f \o p /\ y = f \o w
  BY ConcatProperties
<1>5. Accepted(c) = x /\ Accepted(c)' = y \o q /\ file'[c] = y
  BY <1>1, <1>2, <1>3, <1>4, AcceptedIs, AcceptedIsNext DEF Advances
<1>6. y \o q = x \o t
  <2>1. p \o t = w \o q
    BY <1>1, <1>2, <1>3
  <2>2. Associate(f, p, t) /\ Associate(f, w, q)
    BY CellsAssociate
  <2>3. QED
    BY ONLY <1>4, <2>1, <2>2, Zenon DEF Associate
<1>7. Abstract!Leads(x, x \o t)
  BY ConcatLeads
<1>8. Abstract!Leads(f, f \o w)
  BY ConcatLeads
<1>9. Abstract!Leads(y, y \o q) /\ Len(y \o q) - Len(y) = Len(q)
  BY ConcatLeads
<1>10. /\ Abstract!Leads(Accepted(c), Accepted(c)') /\ Abstract!Leads(file[c], file'[c])
       /\ Abstract!Leads(file'[c], Accepted(c)') /\ Len(Accepted(c)') - Len(file'[c]) <= Size
  BY ONLY <1>2, <1>3, <1>4, <1>5, <1>6, <1>7, <1>8, <1>9
<1>11. ~Over(c) /\ \A o \in Outs : Over(o)' = Over(o)
  BY DEF Advances, Over
<1>12. [o \in Outs |-> Over(o)]' = [o \in Outs |-> Over(o)]
  BY <1>11
<1>13. Abstract!Move(c)
  BY <1>10, <1>11, <1>12 DEF Abstract!Move, Accepted, Over
<1>14. ASSUME NEW o \in Outs \ {c} PROVE Accepted(o)' = Accepted(o) /\ file'[o] = file[o]
  BY <1>14 DEF Advances, Accepted
<1>15. QED
  BY <1>13, <1>14 DEF Abstract!Next, Accepted

\* A channel that is opened is an open stream still, and one that is closed has
\* delivered what it has accepted.
LEMMA TurnCloses ==
  ASSUME CallInv, OutInv, CallInv', OutInv', NEW c \in Outs, Turns(c)
  PROVE  Abstract!Next \/ UNCHANGED Abstract!vars
<1>1. ASSUME NEW o \in Outs PROVE Accepted(o)' = Accepted(o) /\ file'[o] = file[o]
  BY DEF Turns, Accepted
<1>2. ASSUME NEW o \in Outs \ {c} PROVE Over(o)' = Over(o)
  BY DEF Turns, Over
<1>3. CASE fd[c] = NoFd /\ fd'[c] # NoFd /\ status[c] = "new"
  <2>1. ~Over(c) /\ ~Over(c)'
    BY <1>3 DEF Over
  <2>2. QED
    BY <1>1, <1>2, <2>1, StreamsStay
<1>4. CASE fd[c] # NoFd /\ fd'[c] = NoFd /\ status'[c] # "new" /\ Pending(c) = <<>>
  <2>1. ~Over(c) /\ Over(c)'
    BY <1>4 DEF Over
  <2>2. Accepted(c) = file[c]
    BY <1>4, OutputTypes, AcceptedIs, ConcatEmptySeq
  <2>3. [o \in Outs |-> Over(o)]' = [[o \in Outs |-> Over(o)] EXCEPT ![c] = TRUE]
    <3>1. Over(c)' = TRUE
      BY <2>1 DEF Over
    <3>2. QED
      BY <1>2, <3>1
  <2>4. [o \in Outs |-> Accepted(o)]' = [o \in Outs |-> Accepted(o)]
    BY <1>1
  <2>5. [o \in Outs |-> file[o]]' = [o \in Outs |-> file[o]]
    BY <1>1
  <2>6. Abstract!Close(c)
    BY <2>1, <2>2, <2>3, <2>4, <2>5 DEF Abstract!Close, Accepted, Over
  <2>7. QED
    BY <1>1, <2>6 DEF Abstract!Next, Accepted
<1>5. QED
  BY <1>3, <1>4 DEF Turns

LEMMA StreamStep ==
  CallInv /\ OutInv /\ CallInv' /\ OutInv' /\ [Next]_vars => [Abstract!Next]_(Abstract!vars)
<1> SUFFICES ASSUME CallInv, OutInv, CallInv', OutInv', [Next]_vars
             PROVE  Abstract!Next \/ UNCHANGED Abstract!vars
  OBVIOUS
<1>0. Filled
  BY DEF OutInv
<1>1. Effect
  BY <1>0, StepEffect
<1>2. CASE Same
  <2>1. ASSUME NEW o \in Outs
        PROVE  Accepted(o)' = Accepted(o) /\ file'[o] = file[o] /\ (Over(o)' <=> Over(o))
    BY <1>2 DEF Same, Accepted, Over
  <2>2. QED
    BY <2>1, StreamsStay
<1>3. ASSUME UNCHANGED <<file, fd, status>>, \A o \in Outs : Pending(o)' = Pending(o)
      PROVE  UNCHANGED Abstract!vars
  <2>1. ASSUME NEW o \in Outs
        PROVE  Accepted(o)' = Accepted(o) /\ file'[o] = file[o] /\ (Over(o)' <=> Over(o))
    <3>1. Accepted(o) = IF fd[o] # NoFd THEN file[o] \o Pending(o) ELSE file[o]
      BY AcceptedIs
    <3>2. Accepted(o)' = IF fd'[o] # NoFd THEN file'[o] \o Pending(o)' ELSE file'[o]
      BY AcceptedIsNext
    <3>3. QED
      BY <1>3, <3>1, <3>2 DEF Over
  <2>2. QED
    BY <2>1, StreamsStay
<1>4. ASSUME NEW c \in Outs, NEW s \in Seq(Byte), Takes(c, s) PROVE UNCHANGED Abstract!vars
  BY <1>3, <1>4 DEF Takes
<1>5. ASSUME NEW c \in Outs, GivesUp(c) PROVE UNCHANGED Abstract!vars
  BY <1>3, <1>5 DEF GivesUp
<1>6. ASSUME NEW c \in Outs, NEW t \in Seq(Cell), Advances(c, t) PROVE Abstract!Next
  BY <1>6, AdvanceMoves
<1>7. ASSUME NEW c \in Outs, Turns(c) PROVE Abstract!Next \/ UNCHANGED Abstract!vars
  BY <1>7, TurnCloses
<1>8. QED
  BY <1>1, <1>2, <1>4, <1>5, <1>6, <1>7 DEF Effect

\* The buffered channels implement the streams: bytes are delivered once and in order,
\* with at most a buffer of them on the way, and all of them before a channel is over.
THEOREM ChannelsAreStreams == Spec => IsStream
<1>1. Init /\ [][Next]_vars => [](CallInv /\ OutInv)
  BY CallInit, CallStep, OutputInit, OutputStep, PTL
<1>2. QED
  BY <1>1, StreamInit, StreamStep, PTL DEF Spec, IsStream, Abstract!Spec

-----------------------------------------------------------------------------
(* What a buffer is of its file                                             *)

\* A buffer with nothing in it is any part of a file.
LEMMA NothingFrames == ASSUME NEW b, NEW f, NEW off \in Nat PROVE Frames(b, 0, off, f)
  BY DEF Frames

\* A buffer that is moved to the front ends where it did.
LEMMA ShiftFrames ==
  ASSUME NEW b \in [1 .. Size -> Cell], NEW m \in 0 .. Size, NEW k \in 0 .. m,
         NEW off \in Nat, NEW f, Frames(b, m, off, f)
  PROVE  Frames(Shift(b, k, m), m - k, off, f)
<1>1. PICK s : s = Shift(b, k, m)
  OBVIOUS
<1>2. \A i \in 1 .. m - k : s[i] = b[k + i]
  BY <1>1, ShiftToFront
<1>3. m \in Nat /\ k \in Nat /\ k <= m
  BY Constants
<1>4. PICK n \in Nat : n = m - k
  BY <1>3
<1>5. ASSUME NEW i \in 1 .. n PROVE s[i] = f[off - n + i]
  <2>1. s[i] = b[k + i] /\ k + i \in 1 .. m
    BY <1>2, <1>3, <1>4
  <2>2. b[k + i] = f[off - m + (k + i)]
    BY <2>1 DEF Frames
  <2>3. off - m + (k + i) = off - n + i
    BY <1>3, <1>4
  <2>4. QED
    BY <2>1, <2>2, <2>3
<1>6. n <= off /\ (n > 0 => off <= Len(f))
  BY <1>3, <1>4 DEF Frames
<1>7. Frames(s, n, off, f)
  BY <1>5, <1>6 DEF Frames
<1>8. QED
  BY <1>1, <1>4, <1>7

\* What read() gives goes behind what there is.
LEMMA AppendFrames ==
  ASSUME NEW b \in [1 .. Size -> Cell], NEW m \in 0 .. Size, NEW off \in Nat, NEW f,
         NEW s \in Seq(Cell), m + Len(s) <= Size, Frames(b, m, off, f),
         \A i \in 1 .. Len(s) : s[i] = f[off + i], s # <<>> => off + Len(s) <= Len(f)
  PROVE  Frames(Put(b, m, s), m + Len(s), off + Len(s), f)
<1>1. PICK p : p = Put(b, m, s)
  OBVIOUS
<1>2. /\ \A i \in 1 .. Len(s) : p[m + i] = s[i]
      /\ \A i \in 1 .. m : p[i] = b[i]
  BY <1>1, PutBehind
<1>3. PICK l \in Nat : l = Len(s)
  BY LenProperties
<1>4. m \in Nat
  BY Constants
<1>5. ASSUME NEW i \in 1 .. m + l PROVE p[i] = f[(off + l) - (m + l) + i]
  <2>1. (off + l) - (m + l) + i = off - m + i
    BY <1>3, <1>4
  <2>2. CASE i <= m
    <3>1. p[i] = b[i] /\ i \in 1 .. m
      BY <1>2, <1>4, <2>2
    <3>2. b[i] = f[off - m + i]
      BY <3>1 DEF Frames
    <3>3. QED
      BY <2>1, <3>1, <3>2
  <2>3. CASE i > m
    <3>1. PICK j \in 1 .. l : i = m + j
      BY <1>3, <1>4, <2>3
    <3>2. p[m + j] = s[j] /\ s[j] = f[off + j]
      BY <1>2, <1>3
    <3>3. off - m + i = off + j
      BY <1>4, <3>1
    <3>4. QED
      BY <2>1, <3>1, <3>2, <3>3
  <2>4. QED
    BY <1>4, <2>2, <2>3
<1>6. m + l <= off + l
  BY <1>3, <1>4 DEF Frames
<1>7. m + l > 0 => off + l <= Len(f)
  <2>1. CASE s = <<>>
    BY <1>3, <1>4, <2>1, EmptySeq DEF Frames
  <2>2. CASE s # <<>>
    BY <1>3, <2>2
  <2>3. QED
    BY <2>1, <2>2
<1>8. Frames(p, m + l, off + l, f)
  BY <1>5, <1>6, <1>7 DEF Frames
<1>9. QED
  BY <1>1, <1>3, <1>8

\* What the program has been given, and is given next, is what the file has there.
LEMMA EndsMore ==
  ASSUME NEW h \in Seq(Byte), NEW s \in Seq(Byte), NEW n \in Nat, NEW f, Ends(h, n, f),
         \A i \in 1 .. Len(s) : s[i] = f[n + i], s # <<>> => n + Len(s) <= Len(f)
  PROVE  h \o s \in Seq(Byte) /\ Ends(h \o s, n + Len(s), f)
<1>1. PICK k \in Nat, l \in Nat : k = Len(h) /\ l = Len(s)
  BY LenProperties
<1>2. PICK z \in Seq(Byte) : z = h \o s
  BY ConcatProperties
<1>3. Len(z) = k + l /\ \A i \in 1 .. k + l : z[i] = IF i <= k THEN h[i] ELSE s[i - k]
  BY <1>1, <1>2, ConcatProperties
<1>4. k <= n
  BY <1>1 DEF Ends
<1>5. ASSUME NEW i \in 1 .. k + l PROVE z[i] = f[(n + l) - (k + l) + i]
  <2>1. (n + l) - (k + l) + i = n - k + i
    BY <1>1
  <2>2. CASE i <= k
    BY <1>1, <1>3, <2>1, <2>2 DEF Ends
  <2>3. CASE i > k
    <3>1. i - k \in 1 .. l /\ i = k + (i - k)
      BY ONLY <2>3, k \in Nat, l \in Nat, i \in 1 .. k + l
    <3>0. PICK j \in 1 .. l : i = k + j
      BY ONLY <3>1
    <3>2. z[i] = s[j] /\ n - k + i = n + j
      <4>1. i - k = j
        BY ONLY <3>0, k \in Nat, l \in Nat, j \in 1 .. l
      <4>2. ~(i <= k)
        BY ONLY <2>3, k \in Nat, l \in Nat, i \in 1 .. k + l
      <4>3. z[i] = s[i - k]
        BY <1>3, <4>2
      <4>4. n - k + i = n + j
        BY ONLY <3>0, k \in Nat, l \in Nat, n \in Nat, j \in 1 .. l
      <4>5. QED
        BY <4>1, <4>3, <4>4
    <3>3. s[j] = f[n + j]
      BY <1>1
    <3>4. QED
      BY <2>1, <3>2, <3>3
  <2>4. QED
    BY <2>2, <2>3
<1>6. z # <<>> => n + l <= Len(f)
  <2>1. CASE s = <<>>
    <3>1. l = 0 /\ z = h
      BY <1>1, <1>2, <2>1, EmptySeq, ConcatEmptySeq
    <3>2. QED
      BY <3>1 DEF Ends
  <2>2. CASE s # <<>>
    BY <1>1, <2>2
  <2>3. QED
    BY <2>1, <2>2
<1>7. Ends(z, n + l, f)
  BY <1>3, <1>4, <1>5, <1>6 DEF Ends
<1>8. QED
  BY <1>1, <1>2, <1>7

LEMMA NothingEnds == ASSUME NEW n \in Nat, NEW f PROVE Ends(<<>>, n, f)
  BY DEF Ends

-----------------------------------------------------------------------------
(* Steps that a channel for input does not notice                           *)

Still(c) ==
  /\ status'[c] = status[c] /\ fd'[c] = fd[c] /\ offset'[c] = offset[c]
  /\ curr'[c] = curr[c] /\ max'[c] = max[c] /\ buff'[c] = buff[c]
  /\ file'[c] = file[c] /\ at'[c] = at[c] /\ place'[c] = place[c] /\ heard'[c] = heard[c]

LEMMA StillTracks == ASSUME NEW c \in Ins, Tracks(c), Still(c) PROVE Tracks(c)'
<1>1. PositionKnown(c)' <=> PositionKnown(c)
  BY DEF Still, PositionKnown
<1>2. Window(c)'
  BY <1>1 DEF Still, Tracks, Window
<1>3. QED
  BY <1>1, <1>2 DEF Still, Tracks

\* The replies that say something of the file.
Telling == {"eof", "line", "noline"}

LEMMA PlainReplyNow == reply.how \notin Telling => RepliesTrue
<1> SUFFICES ASSUME reply.how \notin Telling PROVE RepliesTrue
  OBVIOUS
<1>1. reply.how # "eof" /\ reply.how # "line" /\ reply.how # "noline"
  BY DEF Telling
<1>2. QED
  BY <1>1 DEF RepliesTrue

LEMMA PlainReply == (reply.how \notin Telling)' => RepliesTrue'
  BY PlainReplyNow, PTL

\* A call that goes on has not replied; one that returns does so.
LEMMA Answers ==
  ASSUME CallInv, call.op # "idle",
         \/ \E next : Go(next)
         \/ Return("ok") \/ Return("error")
  PROVE  reply'.how \notin Telling
<1>1. reply.how = "none"
  BY DEF CallInv, Calling, NoReply
<1>2. ASSUME NEW next, Go(next) PROVE reply'.how \notin Telling
  BY <1>1, <1>2 DEF Go, Telling
<1>3. CASE Return("ok") \/ Return("error")
  BY <1>3 DEF Return, ReturnLength, Telling
<1>4. QED
  BY <1>2, <1>3

LEMMA AnswersStore ==
  ASSUME CallInv, call.op = "putch", AfterStore
  PROVE  reply'.how \notin Telling /\ call'.op # "scan_line"
<1>1. call \in Calls
  BY DEF CallInv, Calling
<1>2. CASE Return("ok")
  BY <1>2, Answers DEF Return, ReturnLength, Idle
<1>3. CASE Go([call EXCEPT !.rest = Tail(@), !.n = 0])
  <2>1. call'.op = call.op
    BY <1>1, <1>3 DEF Go, Calls
  <2>2. QED
    BY <1>3, <2>1, Answers
<1>4. QED
  BY <1>2, <1>3 DEF AfterStore

LEMMA AnswersAttempt ==
  ASSUME CallInv, call.op \in WriteOps, NEW n, Attempt(n)
  PROVE  reply'.how \notin Telling /\ call'.op # "scan_line"
<1>1. call \in Calls /\ call.op # "idle" /\ call.op # "scan_line"
  BY OpsDisjoint DEF CallInv, Calling, Ops
<1>2. call'.op = call.op /\ Go([call EXCEPT !.n = n])
  BY <1>1 DEF Attempt, Go, Calls
<1>3. QED
  BY <1>1, <1>2, Answers

LEMMA WriteTells == ASSUME CallInv, Write PROVE reply'.how \notin Telling /\ call'.op # "scan_line"
<1>1. call.op \in WriteOps /\ call.op # "idle" /\ call \in Calls
  BY OpsDisjoint DEF Write, PutChar, PutBlock, Flush, Flushed, Written, BlockWritten, WouldBlock,
     WriteFails, CallInv, Calling, Ops
<1>2. CASE Return("ok") \/ Return("error")
  BY <1>1, <1>2, Answers DEF Return, ReturnLength, Idle
<1>3. CASE \E n : Attempt(n)
  BY <1>1, <1>3, AnswersAttempt
<1>4. CASE call.op = "putch" /\ AfterStore
  BY <1>4, AnswersStore
<1>6. CASE PutChar
  BY <1>3, <1>4, <1>6 DEF PutChar
<1>7. CASE PutBlock
  BY <1>2, <1>3, <1>7 DEF PutBlock
<1>8. CASE Flush
  BY <1>3, <1>8 DEF Flush
<1>9. CASE Flushed
  BY <1>2, <1>9 DEF Flushed
<1>10. CASE Written
  BY <1>2, <1>3, <1>4, <1>10 DEF Written
<1>11. CASE BlockWritten
  <2>1. call.op = "putblock" /\ Go([call EXCEPT !.rest = Drop(@, Size - curr[C]), !.n = 0])
    BY <1>11 DEF BlockWritten
  <2>2. call'.op = call.op
    BY <1>1, <2>1 DEF Go, Calls
  <2>3. QED
    BY <1>1, <2>1, <2>2, Answers
<1>12. CASE WouldBlock
  BY <1>3, <1>12 DEF WouldBlock
<1>13. CASE WriteFails
  BY <1>2, <1>13 DEF WriteFails
<1>14. QED
  BY <1>6, <1>7, <1>8, <1>9, <1>10, <1>11, <1>12, <1>13 DEF Write

LEMMA OwnFile == ASSUME CallInv, C \in Chan, Refers(fd[C]) PROVE table[fd[C]] = C
  BY Constants DEF CallInv, Descriptors, OwnDescriptor, Refers

\* What a channel for output writes does not move one for input.
LEMMA WriteStill == ASSUME CallInv, Write, NEW c \in Ins PROVE Still(c)
<1>0. /\ C \in Outs /\ C \in Chan /\ c \in Chan /\ c # C
  <2>1. call.op \in WriteOps
    BY OpsDisjoint DEF Write, PutChar, PutBlock, Flush, Flushed, Written, BlockWritten, WouldBlock, WriteFails
  <2>2. QED
    BY <2>1, Constants DEF CallInv, Calling
<1>1. PICK o \in Outs : o = C /\ o \in Chan /\ o # c
  BY <1>0
<1> USE DEF CallInv, Pointers, Kernel, Beliefs
<1>2. CASE PutChar
  <2>1. buff'[c] = buff[c] /\ curr'[c] = curr[c]
    <3>1. buff' = buff \/ \E b : buff' = [buff EXCEPT ![C] = b]
      BY <1>2 DEF PutChar
    <3>2. curr' = curr \/ \E n : curr' = [curr EXCEPT ![C] = n]
      BY <1>2 DEF PutChar
    <3>3. buff'[c] = buff[c]
      BY <1>0, <1>1, <3>1
    <3>4. curr'[c] = curr[c]
      BY <1>0, <1>1, <3>2
    <3>5. QED
      BY <3>3, <3>4
  <2>2. UNCHANGED <<status, fd, offset, max, file, at, place, heard>>
    BY <1>2 DEF PutChar, kernel, aux
  <2>3. QED
    BY <2>1, <2>2 DEF Still
<1>3. CASE PutBlock
  <2>1. buff'[c] = buff[c] /\ curr'[c] = curr[c]
    <3>1. buff' = buff \/ \E b : buff' = [buff EXCEPT ![C] = b]
      BY <1>3 DEF PutBlock
    <3>2. curr' = curr \/ \E n : curr' = [curr EXCEPT ![C] = n]
      BY <1>3 DEF PutBlock
    <3>3. buff'[c] = buff[c]
      BY <1>0, <1>1, <3>1
    <3>4. curr'[c] = curr[c]
      BY <1>0, <1>1, <3>2
    <3>5. QED
      BY <3>3, <3>4
  <2>2. UNCHANGED <<status, fd, offset, max, file, at, place, heard>>
    BY <1>3 DEF PutBlock, kernel, aux
  <2>3. QED
    BY <2>1, <2>2 DEF Still
<1>4. CASE Flush
  BY <1>4 DEF Flush, Still, channel, kernel, aux
<1>5. CASE Flushed
  <2>1. CASE UNCHANGED <<channel, kernel, aux>>
    BY <2>1 DEF Still, channel, kernel, aux
  <2>2. CASE Shut(C)
    BY <1>1, <2>2 DEF Still, Shut, aux
  <2>3. CASE FreeChannel(C)
    BY <1>1, <2>3 DEF Still, FreeChannel, aux
  <2>4. CASE offset' = [offset EXCEPT ![C] = call.p] /\ UNCHANGED <<status, fd, curr, max, buff, kernel, aux>>
    BY <1>1, <2>4 DEF Still, kernel, aux
  <2>5. QED
    BY <1>5, <2>1, <2>2, <2>3, <2>4 DEF Flushed
<1>6. ASSUME NEW k, ToFile(k) PROVE UNCHANGED <<status, fd, at, place, heard>> /\ offset'[c] = offset[c] /\ file'[c] = file[c]
  <2>1. table[fd[C]] = C
    BY <1>0, <1>6, OwnFile DEF ToFile
  <2>2. QED
    BY <1>1, <1>6, <2>1 DEF ToFile, aux
<1>7. CASE Written
  <2>1. PICK k : /\ ToFile(k) /\ UNCHANGED max
                 /\ \E b : buff' = [buff EXCEPT ![C] = b]
                 /\ \E n : curr' = [curr EXCEPT ![C] = n]
    BY <1>7 DEF Written
  <2>2. QED
    BY <1>1, <1>6, <2>1 DEF Still
<1>8. CASE BlockWritten
  <2>1. PICK k : /\ ToFile(k) /\ \E n : max' = [max EXCEPT ![C] = n]
                 /\ \E b : buff' = [buff EXCEPT ![C] = b]
                 /\ \E n : curr' = [curr EXCEPT ![C] = n]
    BY <1>8 DEF BlockWritten
  <2>2. QED
    BY <1>1, <1>6, <2>1 DEF Still
<1>9. CASE WouldBlock
  BY <1>9 DEF WouldBlock, Still, channel, kernel, aux
<1>10. CASE WriteFails
  BY <1>10 DEF WriteFails, Still, channel, kernel
<1>11. QED
  BY <1>2, <1>3, <1>4, <1>5, <1>7, <1>8, <1>9, <1>10 DEF Write

\* A call for input touches its own channel only.
LEMMA ReadStill == ASSUME CallInv, Read, NEW c \in Ins, c # C PROVE Still(c)
<1>0. C \in Chan /\ C \in Ins /\ c \in Chan
  <2>1. call.op \in ReadOps
    BY OpsDisjoint DEF Read, GetChar, GetBlock, ScanLine, EndOfFile, Refill, ReadBlock, ReadMore,
       ReadFails, Reading
  <2>2. QED
    BY <2>1, Constants DEF CallInv, Calling
<1>1. PICK e \in Ins : e = C /\ e \in Chan /\ e # c
  BY <1>0
<1> USE DEF CallInv, Pointers, Kernel, Beliefs
<1>2. CASE UNCHANGED <<channel, kernel, aux>>
  BY <1>2 DEF Still, channel, kernel, aux
<1>h. ASSUME NEW s, Hear(s) PROVE heard'[c] = heard[c] /\ place'[c] = place[c]
  BY <1>1, <1>h DEF Hear
<1>f. ASSUME NEW s, NEW m, FromFile(s, m), Refers(fd[C])
      PROVE  /\ at'[c] = at[c] /\ offset'[c] = offset[c] /\ buff'[c] = buff[c] /\ max'[c] = max[c]
             /\ status'[c] = status[c] /\ fd'[c] = fd[c] /\ file'[c] = file[c]
  <2>1. table[fd[C]] = C
    BY <1>0, <1>f, OwnFile
  <2>2. QED
    BY <1>1, <1>f, <2>1 DEF FromFile
<1>3. CASE GetChar
  <2>1. CASE curr' = [curr EXCEPT ![C] = @ + 1] /\ Hear(<<buff[C][curr[C] + 1]>>)
    <3>1. curr'[c] = curr[c]
      BY <1>1, <2>1
    <3>2. QED
      BY <1>3, <1>h, <2>1, <3>1 DEF GetChar, Still, kernel
  <2>2. CASE UNCHANGED <<curr, aux>>
    BY <1>3, <2>2 DEF GetChar, Still, kernel, aux
  <2>3. QED
    BY <1>3, <2>1, <2>2 DEF GetChar
<1>4. CASE GetBlock
  <2>1. ASSUME NEW k, curr' = [curr EXCEPT ![C] = @ + k], NEW s, Hear(s) PROVE Still(c)
    <3>1. curr'[c] = curr[c]
      BY <1>1, <2>1
    <3>2. QED
      BY <1>4, <1>h, <2>1, <3>1 DEF GetBlock, Still, kernel
  <2>2. CASE UNCHANGED <<curr, aux>>
    BY <1>4, <2>2 DEF GetBlock, Still, kernel, aux
  <2>3. QED
    BY <1>4, <2>1, <2>2 DEF GetBlock
<1>5. CASE ScanLine
  <2>1. UNCHANGED <<status, fd, offset, file, at, place, heard>>
    BY <1>5 DEF ScanLine, kernel, aux
  <2>2. CASE UNCHANGED <<buff, curr, max>>
    BY <2>1, <2>2 DEF Still
  <2>3. CASE /\ buff' = [buff EXCEPT ![C] = Shift(@, curr[C], max[C])]
             /\ max' = [max EXCEPT ![C] = @ - curr[C]] /\ curr' = [curr EXCEPT ![C] = 0]
    BY <1>1, <2>1, <2>3 DEF Still
  <2>4. QED
    BY <1>5, <2>2, <2>3 DEF ScanLine
<1>6. CASE Refill
  <2>1. PICK s : /\ FromFile(s, 0) /\ curr' = [curr EXCEPT ![C] = 1] /\ Hear(<<s[1]>>)
                 /\ Refers(fd[C])
    BY <1>6 DEF Refill, Reading
  <2>2. curr'[c] = curr[c]
    BY <1>1, <2>1
  <2>3. QED
    BY <1>f, <1>h, <2>1, <2>2 DEF Still
<1>7. CASE ReadBlock
  <2>1. PICK s, k : /\ FromFile(s, 0) /\ curr' = [curr EXCEPT ![C] = k] /\ Hear(SubSeq(s, 1, k))
                    /\ Refers(fd[C])
    BY <1>7 DEF ReadBlock, Reading
  <2>2. curr'[c] = curr[c]
    BY <1>1, <2>1
  <2>3. QED
    BY <1>f, <1>h, <2>1, <2>2 DEF Still
<1>8. CASE ReadMore
  <2>1. PICK s : FromFile(s, max[C]) /\ UNCHANGED <<curr, aux>> /\ Refers(fd[C])
    BY <1>8 DEF ReadMore, Reading
  <2>2. QED
    BY <1>f, <2>1 DEF Still, aux
<1>9. QED
  BY <1>2, <1>3, <1>4, <1>5, <1>6, <1>7, <1>8 DEF Read, EndOfFile, ReadFails

\* A call that starts, or that is over at once, leaves the other channels alone.
LEMMA CallOnStill ==
  ASSUME CallInv, NEW e \in Chan, CallOn(e), NEW c \in Ins, c # e PROVE Still(c)
<1> USE DEF CallInv, Pointers, Kernel, Beliefs
<1>0. c \in Chan
  BY Constants
<1>1. CASE Open(e)
  BY <1>0, <1>1 DEF Open, Still, aux
<1>2. CASE Shut(e)
  BY <1>0, <1>2 DEF Shut, Still, aux
<1>3. CASE FreeChannel(e)
  BY <1>0, <1>3 DEF FreeChannel, Still, aux
<1>4. CASE UNCHANGED <<channel, kernel, aux>>
  BY <1>4 DEF Still, channel, kernel, aux
<1>5. CASE UNCHANGED <<channel, kernel, place, heard>>
  BY <1>5 DEF Still, channel, kernel
<1>6. CASE heard' = [heard EXCEPT ![e] = <<>>] /\ UNCHANGED <<channel, kernel, said, place>>
  BY <1>6 DEF Still, channel, kernel
<1>r. ASSUME Refers(fd[e]) PROVE table[fd[e]] = e
  BY <1>r, Constants DEF Descriptors, OwnDescriptor, Refers
<1>7. CASE seek_in(e)
  <2>1. /\ UNCHANGED <<status, fd, buff, table, file, said>>
        /\ heard' = [heard EXCEPT ![e] = <<>>]
    BY <1>7 DEF seek_in
  <2>2. PICK dest \in Dests :
          \/ /\ curr' = [curr EXCEPT ![e] = max[e] - (offset[e] - dest)]
             /\ place' = [place EXCEPT ![e] = dest]
             /\ UNCHANGED <<offset, max, at>>
          \/ /\ Refers(fd[e])
             /\ at' = [at EXCEPT ![table[fd[e]]] = dest]
             /\ offset' = [offset EXCEPT ![e] = dest]
             /\ curr' = [curr EXCEPT ![e] = 0] /\ max' = [max EXCEPT ![e] = 0]
             /\ place' = [place EXCEPT ![e] = dest]
    BY <1>7 DEF seek_in
  <2>3. QED
    BY <1>0, <1>r, <2>1, <2>2 DEF Still
<1>8. CASE channel_size(e)
  <2>1. /\ UNCHANGED <<status, fd, offset, curr, max, buff, file, place, heard>>
        /\ at' = [at EXCEPT ![table[fd[e]]] = offset[e]] /\ Refers(fd[e])
    BY <1>8 DEF channel_size, channel, aux
  <2>2. QED
    BY <1>0, <1>r, <2>1 DEF Still
<1>9. QED
  BY <1>1, <1>2, <1>3, <1>4, <1>5, <1>6, <1>7, <1>8 DEF CallOn, prim_close_channel, finalize_channel,
     prim_output_char, putword, prim_output, Output, prim_flush, prim_flush_partial, seek_out, Quiet,
     prim_input_char, getword, caml_input, really_getblock, input_scan_line, Input

\* Every call for input, and what precedes it, finds the channel where its file is.
LEMMA CallOnTracks ==
  ASSUME CallInv, ~SeekClosed, InInv, NEW c \in Ins, CallOn(c)
  PROVE  Tracks(c)' /\ heard' \in [Ins -> Seq(Byte)]
<1> USE Constants
<1>0. c \in Chan /\ c \notin Outs /\ Tracks(c)
  BY DEF InInv
<1>t. /\ offset[c] \in Nat /\ curr[c] \in 0 .. Size /\ max[c] \in 0 .. Size /\ curr[c] <= max[c]
      /\ at[c] \in Nat /\ place[c] \in Nat
  BY <1>0 DEF CallInv, Pointers, Kernel, Beliefs, Descriptors
<1>e. /\ <<>> \in Seq(Byte) /\ heard \in [Ins -> Seq(Byte)]
      /\ Ends(heard[c], place[c], file[c])
  BY <1>0 DEF InInv, Tracks
<1>1. CASE Open(c)
  <2>1. PICK d \in Fds : fd' = [fd EXCEPT ![c] = d]
    BY <1>1 DEF Open
  <2>2. /\ status[c] = "new" /\ status' = [status EXCEPT ![c] = "live"]
        /\ UNCHANGED <<offset, curr, max, buff, file, at, place, heard>>
    BY <1>1 DEF Open, aux
  <2>3. max[c] = 0 /\ PositionKnown(c)
    BY <1>0, <2>2 DEF CallInv, Descriptors, Tracks
  <2>4. fd'[c] = d /\ d # NoFd /\ status'[c] = "live"
    BY <1>0, <2>1, <2>2 DEF CallInv, Pointers
  <2>5. PositionKnown(c)'
    BY <2>2, <2>3 DEF PositionKnown
  <2>6. Frames(buff[c], 0, offset[c], file[c])
    BY <1>t, NothingFrames
  <2>7. Window(c)'
    BY <2>2, <2>3, <2>5, <2>6 DEF Window
  <2>8. QED
    BY <1>0, <1>e, <2>2, <2>4, <2>5, <2>7 DEF Tracks
<1>2. CASE status[c] = "live" /\ Shut(c)
  <2>1. /\ fd' = [fd EXCEPT ![c] = NoFd] /\ curr' = [curr EXCEPT ![c] = Size]
        /\ max' = [max EXCEPT ![c] = Size] /\ UNCHANGED <<status, offset, buff, file, at, place, heard>>
    BY <1>2 DEF Shut, aux
  <2>2. fd'[c] = NoFd /\ curr'[c] = max'[c]
    BY <1>0, <2>1 DEF CallInv, Pointers
  <2>3. QED
    BY <1>0, <1>2, <1>e, <2>1, <2>2 DEF Tracks, Window
<1>3. CASE FreeChannel(c)
  <2>1. /\ fd' = [fd EXCEPT ![c] = NoFd] /\ status' = [status EXCEPT ![c] = "freed"]
        /\ UNCHANGED <<file, place, heard>>
    BY <1>3 DEF FreeChannel, aux
  <2>2. fd'[c] = NoFd /\ status'[c] = "freed"
    BY <1>0, <2>1 DEF CallInv, Pointers
  <2>3. QED
    BY <1>0, <1>e, <2>1, <2>2 DEF Tracks, Window
<1>4. CASE heard' = [heard EXCEPT ![c] = <<>>] /\ UNCHANGED <<channel, kernel, said, place>>
  <2>1. /\ UNCHANGED <<status, fd, offset, curr, max, buff, file, at, place>>
        /\ heard' \in [Ins -> Seq(Byte)] /\ heard'[c] = <<>>
    BY <1>4, <1>e DEF channel, kernel
  <2>2. Ends(heard'[c], place'[c], file'[c])
    BY <1>t, <2>1, NothingEnds
  <2>3. PositionKnown(c)' <=> PositionKnown(c)
    BY <2>1 DEF PositionKnown
  <2>4. Window(c)'
    BY <1>0, <2>1, <2>3 DEF Tracks, Window
  <2>5. QED
    BY <1>0, <2>1, <2>2, <2>3, <2>4 DEF Tracks
<1>5. CASE seek_in(c)
  <2>1. /\ status[c] = "live" /\ fd[c] # NoFd /\ UNCHANGED <<status, fd, buff, table, file, said>>
        /\ heard' = [heard EXCEPT ![c] = <<>>]
    BY <1>5 DEF seek_in
  <2>2. PositionKnown(c) /\ Frames(buff[c], max[c], offset[c], file[c])
    BY <1>0, <2>1 DEF Tracks, Window
  <2>3. heard' \in [Ins -> Seq(Byte)] /\ heard'[c] = <<>>
    BY <1>e, <2>1
  <2>4. PICK dest \in Nat :
          \/ /\ curr' = [curr EXCEPT ![c] = max[c] - (offset[c] - dest)]
             /\ place' = [place EXCEPT ![c] = dest]
             /\ UNCHANGED <<offset, max, at>>
          \/ /\ at' = [at EXCEPT ![table[fd[c]]] = dest] /\ Refers(fd[c])
             /\ offset' = [offset EXCEPT ![c] = dest]
             /\ curr' = [curr EXCEPT ![c] = 0] /\ max' = [max EXCEPT ![c] = 0]
             /\ place' = [place EXCEPT ![c] = dest]
    BY <1>5, ValueAssumption DEF seek_in
  <2>5. place'[c] = dest
    BY <2>4 DEF CallInv, Beliefs
  <2>6. Ends(heard'[c], place'[c], file'[c])
    BY <2>3, <2>5, NothingEnds
  <2>7. PositionKnown(c)' /\ Frames(buff'[c], max'[c], offset'[c], file'[c])
    <3>1. CASE /\ curr' = [curr EXCEPT ![c] = max[c] - (offset[c] - dest)]
               /\ UNCHANGED <<offset, max, at>>
      <4>1. curr'[c] = max[c] - (offset[c] - dest)
        BY <1>0, <3>1 DEF CallInv, Pointers
      <4>2. offset[c] - (max[c] - curr'[c]) = dest
        BY <1>t, <4>1
      <4>3. QED
        BY <2>1, <2>2, <2>5, <3>1, <4>2 DEF PositionKnown
    <3>2. CASE /\ at' = [at EXCEPT ![table[fd[c]]] = dest] /\ Refers(fd[c])
               /\ offset' = [offset EXCEPT ![c] = dest]
               /\ curr' = [curr EXCEPT ![c] = 0] /\ max' = [max EXCEPT ![c] = 0]
      <4>1. table[fd[c]] = c
        BY <1>0, <3>2 DEF CallInv, Descriptors, OwnDescriptor, Refers
      <4>2. at'[c] = dest /\ offset'[c] = dest /\ curr'[c] = 0 /\ max'[c] = 0
        BY <1>0, <3>2, <4>1 DEF CallInv, Pointers, Kernel
      <4>3. PositionKnown(c)'
        BY <2>5, <4>2 DEF PositionKnown
      <4>4. QED
        BY <4>2, <4>3, NothingFrames
    <3>3. QED
      BY <2>4, <3>1, <3>2
  <2>8. QED
    BY <1>0, <2>1, <2>3, <2>6, <2>7 DEF Tracks, Window
<1>6. CASE channel_size(c)
  <2>1. /\ status[c] = "live" /\ at' = [at EXCEPT ![table[fd[c]]] = offset[c]] /\ Refers(fd[c])
        /\ UNCHANGED <<status, fd, offset, curr, max, buff, table, file, place, heard>>
    BY <1>6 DEF channel_size, channel, aux
  <2>2. table[fd[c]] = c /\ fd[c] # NoFd
    BY <1>0, <2>1 DEF CallInv, Descriptors, OwnDescriptor, Refers
  <2>3. at[c] = offset[c]
    BY <1>0, <2>2 DEF Tracks, Window, PositionKnown
  <2>4. at'[c] = at[c]
    BY <2>1, <2>2, <2>3 DEF CallInv, Kernel
  <2>5. Still(c)
    BY <2>1, <2>4 DEF Still
  <2>6. QED
    BY <1>0, <1>e, <2>1, <2>5, StillTracks
<1>7. QED
  BY <1>0, <1>1, <1>2, <1>3, <1>4, <1>5, <1>6 DEF CallOn, prim_close_channel, finalize_channel,
     prim_input_char, getword, caml_input, really_getblock, input_scan_line, Input

\* No reply is given of the file, and a scan begins at the place of the program.
LEMMA CallOnTells ==
  ASSUME CallInv, NEW c \in Chan, CallOn(c)
  PROVE  reply'.how \notin Telling /\ Scanned'
<1>1. CASE Return("ok")
  BY <1>1 DEF Return, ReturnLength, Idle, Telling, Scanned
<1>2. ASSUME NEW op, NEW rest, NEW need, NEW p, Start(op, c, rest, need, p),
             op = "scan_line" => p = curr[c], UNCHANGED channel
      PROVE  reply'.how \notin Telling /\ Scanned'
  <2>1. reply' = NoReply /\ call'.op = op /\ call'.p = p /\ call'.chan = c /\ UNCHANGED curr
    BY <1>2 DEF Start, channel
  <2>2. reply'.how \notin Telling
    BY <2>1 DEF NoReply, Telling
  <2>3. ASSUME op = "scan_line" PROVE \A i \in curr'[c] + 1 .. call'.p : FALSE
    <3>1. curr'[c] = curr[c] /\ call'.p = curr[c] /\ curr[c] \in Int
      BY <1>2, <2>1, <2>3, Constants DEF CallInv, Pointers
    <3>2. QED
      BY <3>1
  <2>4. Scanned'
    BY <2>1, <2>3 DEF Scanned, C
  <2>5. QED
    BY <2>2, <2>4
<1>3. CASE Open(c) \/ seek_in(c) \/ channel_size(c)
  BY <1>1, <1>3 DEF Open, seek_in, channel_size
<1>4. CASE prim_close_channel(c) \/ finalize_channel(c)
  BY <1>1, <1>2, <1>4 DEF prim_close_channel, finalize_channel
<1>5. ASSUME NEW op \in {"putch", "putblock"}, NEW s, Output(op, c, s) PROVE reply'.how \notin Telling /\ Scanned'
  BY <1>2, <1>5 DEF Output
<1>6. ASSUME NEW op \in {"flush", "flush_partial", "seek_out"}, NEW p, Quiet(op, c, p)
      PROVE  reply'.how \notin Telling /\ Scanned'
  BY <1>2, <1>6 DEF Quiet
<1>7. ASSUME NEW op, NEW need, Input(op, c, need) PROVE reply'.how \notin Telling /\ Scanned'
  BY <1>2, <1>7 DEF Input
<1>8. CASE prim_output_char(c) \/ putword(c) \/ prim_output(c)
  BY <1>5, <1>8 DEF prim_output_char, putword, prim_output
<1>9. CASE prim_flush(c) \/ prim_flush_partial(c) \/ seek_out(c)
  BY <1>6, <1>9 DEF prim_flush, prim_flush_partial, seek_out
<1>10. CASE prim_input_char(c) \/ getword(c) \/ caml_input(c) \/ really_getblock(c) \/ input_scan_line(c)
  BY <1>7, <1>10 DEF prim_input_char, getword, caml_input, really_getblock, input_scan_line
<1>11. QED
  BY <1>3, <1>4, <1>8, <1>9, <1>10 DEF CallOn

-----------------------------------------------------------------------------
(* Reading                                                                  *)

\* What is a part of a file of bytes consists of bytes.
LEMMA BytesOf ==
  ASSUME NEW f \in Seq(Byte), NEW s \in Seq(Cell), NEW n \in Nat,
         \A i \in 1 .. Len(s) : s[i] = f[n + i], s # <<>> => n + Len(s) <= Len(f)
  PROVE  s \in Seq(Byte)
<1>1. PICK l \in Nat : l = Len(s)
  BY LenProperties
<1>2. ASSUME NEW i \in 1 .. l PROVE s[i] \in Byte
  <2>1. s # <<>>
    BY <1>1, <1>2
  <2>2. n + i \in 1 .. Len(f)
    BY <1>1, <2>1, LenProperties
  <2>3. f[n + i] \in Byte
    BY <2>2, ElementOfSeq
  <2>4. QED
    BY <1>1, <2>3
<1>3. s \in [1 .. l -> Cell]
  BY <1>1, LenProperties
<1>4. s \in [1 .. l -> Byte]
  BY <1>2, <1>3
<1>5. QED
  BY <1>4, SeqDef

\* The program hears what the file has at its place.
LEMMA HearTracks ==
  ASSUME CallInv, InInv, NEW c \in Ins, c = C, NEW s \in Seq(Cell), Hear(s), UNCHANGED file,
         \A i \in 1 .. Len(s) : s[i] = file[c][place[c] + i],
         s # <<>> => place[c] + Len(s) <= Len(file[c])
  PROVE  /\ heard' \in [Ins -> Seq(Byte)] /\ Ends(heard'[c], place'[c], file'[c])
         /\ place'[c] = place[c] + Len(s)
<1>1. PICK h \in Seq(Byte), n \in Nat, f \in Seq(Byte) : h = heard[c] /\ n = place[c] /\ f = file[c]
  BY DEF InInv, Tracks, CallInv, Beliefs
<1>2. s \in Seq(Byte)
  BY <1>1, BytesOf
<1>3. Ends(h, n, f)
  BY <1>1 DEF InInv, Tracks
<1>4. h \o s \in Seq(Byte) /\ Ends(h \o s, n + Len(s), f)
  BY <1>1, <1>2, <1>3, EndsMore
<1>5. heard' = [heard EXCEPT ![c] = @ \o s] /\ place' = [place EXCEPT ![c] = @ + Len(s)]
  BY DEF Hear
<1>6. heard'[c] = h \o s /\ place'[c] = n + Len(s) /\ heard' \in [Ins -> Seq(Byte)]
  BY <1>1, <1>4, <1>5 DEF InInv, CallInv, Beliefs
<1>7. QED
  BY <1>1, <1>4, <1>6

\* k bytes are taken from the buffer.
LEMMA TakeTracks ==
  ASSUME CallInv, InInv, NEW c \in Ins, c = C, status[c] = "live",
         NEW k \in Nat, k <= max[c] - curr[c], curr' = [curr EXCEPT ![c] = @ + k],
         NEW s \in Seq(Cell), Len(s) = k, \A i \in 1 .. k : s[i] = buff[c][curr[c] + i], Hear(s),
         UNCHANGED <<status, fd, offset, max, buff, file, at>>
  PROVE  Tracks(c)' /\ heard' \in [Ins -> Seq(Byte)]
<1> USE Constants
<1>0. /\ c \in Chan /\ Tracks(c) /\ offset[c] \in Nat /\ place[c] \in Nat
      /\ curr[c] \in 0 .. Size /\ max[c] \in 0 .. Size /\ curr[c] <= max[c]
  BY DEF InInv, CallInv, Pointers, Beliefs, Descriptors
<1>1. curr'[c] = curr[c] + k
  BY <1>0 DEF CallInv, Pointers
<1>2. /\ \A i \in 1 .. Len(s) : s[i] = file[c][place[c] + i]
      /\ s # <<>> => place[c] + Len(s) <= Len(file[c])
  <2>1. CASE fd[c] # NoFd
    <3>1. PositionKnown(c) /\ Frames(buff[c], max[c], offset[c], file[c])
      BY <1>0, <2>1 DEF Tracks, Window
    <3>2. place[c] = offset[c] - (max[c] - curr[c])
      BY <3>1 DEF PositionKnown
    <3>3. ASSUME NEW i \in 1 .. k PROVE s[i] = file[c][place[c] + i]
      <4>1. curr[c] + i \in 1 .. max[c]
        BY <1>0
      <4>2. buff[c][curr[c] + i] = file[c][offset[c] - max[c] + (curr[c] + i)]
        BY <3>1, <4>1 DEF Frames
      <4>3. offset[c] - max[c] + (curr[c] + i) = place[c] + i
        BY <1>0, <3>2
      <4>4. QED
        BY <4>2, <4>3
    <3>4. ASSUME s # <<>> PROVE place[c] + k <= Len(file[c])
      <4>1. k > 0
        BY <3>4, EmptySeq
      <4>2. max[c] > 0
        BY <1>0, <4>1
      <4>3. offset[c] <= Len(file[c]) /\ Len(file[c]) \in Nat
        BY <1>0, <3>1, <4>2, LenProperties DEF Frames, Tracks
      <4>4. QED
        BY <1>0, <3>2, <4>3
    <3>5. QED
      BY <3>3, <3>4
  <2>2. CASE fd[c] = NoFd
    <3>1. k = 0
      BY <1>0, <2>2 DEF Tracks
    <3>2. s = <<>>
      BY <3>1, EmptySeq
    <3>3. QED
      BY <3>1, <3>2
  <2>3. QED
    BY <2>1, <2>2
<1>3. /\ heard' \in [Ins -> Seq(Byte)] /\ Ends(heard'[c], place'[c], file'[c])
      /\ place'[c] = place[c] + k
  BY <1>2, HearTracks
<1>4. Window(c)'
  <2>1. ASSUME fd[c] # NoFd PROVE PositionKnown(c)' /\ Frames(buff[c], max[c], offset[c], file[c])
    <3>1. PositionKnown(c) /\ Frames(buff[c], max[c], offset[c], file[c])
      BY <1>0, <2>1 DEF Tracks, Window
    <3>2. place[c] + k = offset[c] - (max[c] - (curr[c] + k))
      BY <1>0, <3>1 DEF PositionKnown
    <3>3. QED
      BY <1>1, <1>3, <3>1, <3>2 DEF PositionKnown
  <2>2. QED
    BY <2>1 DEF Window
<1>5. fd'[c] = NoFd => curr'[c] = max'[c]
  BY <1>0, <1>1 DEF Tracks
<1>6. QED
  BY <1>0, <1>3, <1>4, <1>5 DEF Tracks

\* The buffer is filled anew, and k bytes are taken.
LEMMA FillTracks ==
  ASSUME CallInv, InInv, NEW c \in Ins, c = C, Refers(fd[C]),
         call.op \in {"getch", "input", "getblock"}, call.n > 0,
         NEW s \in Served(call.n), FromFile(s, 0), NEW k \in Nat, k <= Len(s),
         curr' = [curr EXCEPT ![c] = k],
         NEW t \in Seq(Cell), Len(t) = k, \A i \in 1 .. k : t[i] = s[i], Hear(t)
  PROVE  Tracks(c)' /\ heard' \in [Ins -> Seq(Byte)]
<1> USE Constants
<1>0. call.op \in ReadOps /\ call.n \in 1 .. Size
  BY OpsDisjoint, ReadState
<1>1. /\ s \in Seq(Cell) /\ Len(s) \in 0 .. call.n
      /\ \A i \in 1 .. Len(s) : s[i] = file[C][at[C] + i]
      /\ s # <<>> => Len(s) >= 1 /\ at[C] + Len(s) <= Len(file[C])
  BY <1>0, ServedFromFile
<1>2. fd[c] \in Fds /\ c \in Chan /\ fd[c] # NoFd /\ Tracks(c) /\ status[c] = "live"
  BY <1>0, ReadState DEF Refers, InInv
<1>3. PositionKnown(c) /\ Frames(buff[c], max[c], offset[c], file[c])
  BY <1>2 DEF Tracks, Window
<1>4. /\ curr[c] = max[c] /\ curr[c] \in 0 .. Size /\ offset[c] \in Nat /\ place[c] \in Nat
      /\ buff[c] \in [1 .. Size -> Cell]
  BY <1>2 DEF CallInv, Receiving, Pointers, Beliefs
<1>5. place[c] = offset[c] /\ offset[c] = at[c]
  BY <1>3, <1>4 DEF PositionKnown
<1>6. /\ max' = [max EXCEPT ![C] = 0 + Len(s)]
      /\ buff' = [buff EXCEPT ![C] = Put(@, 0, s)]
      /\ at' = [at EXCEPT ![C] = @ + Len(s)]
      /\ offset' = [offset EXCEPT ![C] = @ + Len(s)]
      /\ UNCHANGED <<status, fd, table, file>>
  <2>1. 0 \in 0 .. Size /\ 0 + call.n <= Size
    BY <1>0
  <2>2. QED
    BY <1>0, <2>1, FromFileKeeps
<1>7. PICK l \in Nat : l = Len(s) /\ l <= Size
  BY <1>0, <1>1
<1>8. /\ max'[c] = 0 + l /\ offset'[c] = offset[c] + l /\ at'[c] = at[c] + l /\ curr'[c] = k
      /\ buff'[c] = Put(buff[c], 0, s)
  BY <1>2, <1>6, <1>7 DEF CallInv, Pointers, Kernel
<1>9. Frames(Put(buff[c], 0, s), 0 + l, offset[c] + l, file[c])
  <2>1. Frames(buff[c], 0, offset[c], file[c])
    BY <1>4, NothingFrames
  <2>0. PICK m \in 0 .. Size : m = 0
    OBVIOUS
  <2>2. PICK b \in [1 .. Size -> Cell], n \in Nat, f \in Seq(Byte) :
          b = buff[c] /\ n = offset[c] /\ f = file[c]
    BY <1>2, <1>4 DEF Tracks
  <2>3. /\ Frames(b, m, n, f) /\ m + Len(s) <= Size /\ s \in Seq(Cell)
        /\ \A i \in 1 .. Len(s) : s[i] = f[n + i]
        /\ s # <<>> => n + Len(s) <= Len(f)
    BY <1>1, <1>5, <1>7, <2>0, <2>1, <2>2
  <2>4. Frames(Put(b, m, s), m + Len(s), n + Len(s), f)
    BY <2>3, AppendFrames
  <2>5. QED
    BY <1>7, <2>0, <2>2, <2>4
<1>10. /\ heard' \in [Ins -> Seq(Byte)] /\ Ends(heard'[c], place'[c], file'[c])
       /\ place'[c] = place[c] + k
  <2>1. \A i \in 1 .. Len(t) : t[i] = file[c][place[c] + i]
    BY <1>1, <1>5, <1>7
  <2>2. ASSUME t # <<>> PROVE place[c] + Len(t) <= Len(file[c])
    <3>1. k > 0
      BY <2>2, EmptySeq
    <3>2. s # <<>>
      BY <1>7, <3>1
    <3>3. at[c] + l <= Len(file[c]) /\ Len(file[c]) \in Nat
      BY <1>1, <1>2, <1>7, <3>2, LenProperties DEF Tracks
    <3>4. QED
      BY <1>4, <1>5, <1>7, <3>3
  <2>3. UNCHANGED file
    BY <1>6
  <2>4. QED
    BY <2>1, <2>2, <2>3, HearTracks
<1>11. Window(c)'
  <2>1. place[c] + k = offset[c] + l - (0 + l - k)
    BY <1>4, <1>5, <1>7
  <2>2. PositionKnown(c)'
    <3>1. place'[c] = offset'[c] - (max'[c] - curr'[c])
      BY <1>4, <1>5, <1>7, <1>8, <1>10, <2>1
    <3>2. offset'[c] = at'[c]
      BY <1>5, <1>8
    <3>3. QED
      BY <3>1, <3>2 DEF PositionKnown
  <2>3. QED
    BY <1>6, <1>8, <1>9, <2>2 DEF Window
<1>12. QED
  BY <1>2, <1>6, <1>10, <1>11 DEF Tracks

\* What is to hold after a step of a call on c.
Fine(c) == Tracks(c) /\ heard \in [Ins -> Seq(Byte)] /\ Scanned /\ RepliesTrue

LEMMA NotScanning == call'.op # "scan_line" => Scanned'
  BY DEF Scanned

LEMMA ReturnsQuiet == ASSUME NEW how, NEW n, ReturnLength(how, n) PROVE Scanned'
<1>1. call'.op # "scan_line"
  BY DEF ReturnLength, Idle
<1>2. QED
  BY <1>1, NotScanning

\* Calls for characters and blocks say nothing of lines.
LEMMA GetTells ==
  ASSUME CallInv, call.op \in {"getch", "input", "getblock"},
         Return("ok") \/ (\E n : Attempt(n)) \/ (\E k \in Nat : AfterGet(k))
  PROVE  Scanned' /\ RepliesTrue'
<1>1. call \in Calls /\ call.op # "idle" /\ call.op # "scan_line"
  BY DEF CallInv, Calling
<1>2. CASE Return("ok")
  <2>1. reply'.how \notin Telling
    BY <1>1, <1>2, Answers
  <2>2. QED
    BY <1>2, <2>1, PlainReply, ReturnsQuiet DEF Return
<1>3. ASSUME NEW next, Go(next), next.op = call.op PROVE Scanned' /\ RepliesTrue'
  <2>1. reply'.how \notin Telling
    BY <1>1, <1>3, Answers
  <2>2. call'.op # "scan_line"
    BY <1>1, <1>3 DEF Go
  <2>3. QED
    BY <2>1, <2>2, PlainReply, NotScanning
<1>4. ASSUME NEW n, Attempt(n) PROVE Scanned' /\ RepliesTrue'
  <2>1. Go([call EXCEPT !.n = n])
    BY <1>4 DEF Attempt
  <2>2. [call EXCEPT !.n = n].op = call.op
    BY <1>1 DEF Calls
  <2>3. QED
    BY <1>3, <2>1, <2>2
<1>5. ASSUME NEW k \in Nat, AfterGet(k) PROVE Scanned' /\ RepliesTrue'
  <2>1. CASE Return("ok")
    BY <1>2, <2>1
  <2>2. CASE Go([call EXCEPT !.need = @ - k, !.n = 0])
    <3>1. [call EXCEPT !.need = @ - k, !.n = 0].op = call.op
      BY <1>1 DEF Calls
    <3>2. QED
      BY <1>3, <2>2, <3>1
  <2>3. AfterGet(k)
    BY <1>5
  <2>4. Return("ok") \/ Go([call EXCEPT !.need = @ - k, !.n = 0])
    BY ONLY <2>3, Zenon DEF AfterGet
  <2>5. QED
    BY <2>1, <2>2, <2>4
<1>6. QED
  BY <1>2, <1>4, <1>5

LEMMA OneCell == ASSUME NEW b \in Cell PROVE <<b>> \in Seq(Cell) /\ Len(<<b>>) = 1 /\ <<b>>[1] = b
  OBVIOUS

LEMMA GetCharTracks == ASSUME CallInv, InInv, NEW c \in Ins, c = C, GetChar PROVE Fine(c)'
<1> USE Constants
<1>0. call.op = "getch" /\ call.op \in ReadOps
  BY OpsDisjoint DEF GetChar
<1>r. /\ c \in Chan /\ status[c] = "live" /\ curr[c] \in 0 .. Size /\ max[c] \in 0 .. Size
      /\ buff[c] \in [1 .. Size -> Cell]
  BY <1>0, ReadState
<1>1. UNCHANGED <<status, fd, offset, max, buff, file, at>>
  BY DEF GetChar, kernel
<1>2. CASE /\ curr[C] < max[C] /\ curr' = [curr EXCEPT ![C] = @ + 1]
           /\ Hear(<<buff[C][curr[C] + 1]>>) /\ AfterGet(1)
  <2>1. curr[c] + 1 \in 1 .. Size /\ 1 <= max[c] - curr[c]
    BY <1>2, <1>r
  <2>2. PICK b \in Cell : b = buff[c][curr[c] + 1]
    BY <1>r, <2>1
  <2>3. PICK s \in Seq(Cell) : s = <<b>> /\ Len(s) = 1 /\ s[1] = b
    BY OneCell
  <2>4. PICK k \in Nat : k = 1
    OBVIOUS
  <2>5. /\ k <= max[c] - curr[c] /\ curr' = [curr EXCEPT ![c] = @ + k] /\ Len(s) = k
        /\ \A i \in 1 .. k : s[i] = buff[c][curr[c] + i]
        /\ Hear(s)
    BY <1>2, <2>1, <2>2, <2>3, <2>4
  <2>6. Tracks(c)' /\ heard' \in [Ins -> Seq(Byte)]
    BY <1>1, <1>r, <2>5, TakeTracks
  <2>7. Scanned' /\ RepliesTrue'
    BY <1>0, <1>2, GetTells
  <2>8. QED
    BY <2>6, <2>7 DEF Fine
<1>3. CASE Attempt(Size) /\ UNCHANGED <<curr, aux>>
  <2>1. Still(c) /\ heard' = heard
    BY <1>1, <1>3 DEF Still, aux
  <2>2. Scanned' /\ RepliesTrue'
    BY <1>0, <1>3, GetTells
  <2>3. QED
    BY <2>1, <2>2, StillTracks DEF Fine, InInv
<1>4. QED
  BY <1>2, <1>3 DEF GetChar

LEMMA GetBlockTracks == ASSUME CallInv, InInv, NEW c \in Ins, c = C, GetBlock PROVE Fine(c)'
<1> USE Constants
<1>0. call.op \in {"input", "getblock"} /\ call.op \in ReadOps
  BY OpsDisjoint DEF GetBlock
<1>r. /\ c \in Chan /\ status[c] = "live" /\ curr[c] \in 0 .. Size /\ max[c] \in 0 .. Size
      /\ curr[c] <= max[c] /\ buff[c] \in [1 .. Size -> Cell] /\ call.need \in Nat
  BY <1>0, ReadState
<1>1. UNCHANGED <<status, fd, offset, max, buff, file, at>>
  BY DEF GetBlock, kernel
<1>a. PICK k \in Nat : k = Lesser(call.need, max[c] - curr[c]) /\ k <= max[c] - curr[c]
  BY <1>r DEF Lesser
<1>2. CASE /\ curr' = [curr EXCEPT ![C] = @ + k]
           /\ Hear(SubSeq(buff[C], curr[C] + 1, curr[C] + k))
           /\ Return("ok") \/ AfterGet(k)
  <2>0. PICK u \in Nat, b \in [1 .. Size -> Cell] : u = curr[c] /\ b = buff[c] /\ u + k <= Size
    BY <1>a, <1>r
  <2>1. PICK m \in 1 .. Size + 1, n \in 0 .. Size : m = u + 1 /\ n = u + k /\ m <= n + 1
    BY <2>0
  <2>2. /\ SubSeq(b, m, n) \in Seq(Cell) /\ Len(SubSeq(b, m, n)) = n - m + 1
        /\ \A i \in 1 .. n - m + 1 : SubSeq(b, m, n)[i] = b[m + i - 1]
    BY <2>1, PartOfBuffer
  <2>3. PICK s \in Seq(Cell) : s = SubSeq(b, m, n)
    BY <2>2
  <2>4. n - m + 1 = k /\ \A i \in 1 .. k : m + i - 1 = u + i
    BY <2>1
  <2>5. Len(s) = k /\ \A i \in 1 .. k : s[i] = buff[c][curr[c] + i]
    BY <2>0, <2>2, <2>3, <2>4
  <2>6. Hear(s) /\ curr' = [curr EXCEPT ![c] = @ + k]
    BY <1>2, <2>0, <2>1, <2>3
  <2>7. Tracks(c)' /\ heard' \in [Ins -> Seq(Byte)]
    BY <1>1, <1>a, <1>r, <2>5, <2>6, TakeTracks
  <2>8. Scanned' /\ RepliesTrue'
    BY <1>0, <1>2, GetTells
  <2>9. QED
    BY <2>7, <2>8 DEF Fine
<1>3. CASE Attempt(Size) /\ UNCHANGED <<curr, aux>>
  <2>1. Still(c) /\ heard' = heard
    BY <1>1, <1>3 DEF Still, aux
  <2>2. Scanned' /\ RepliesTrue'
    BY <1>0, <1>3, GetTells
  <2>3. QED
    BY <2>1, <2>2, StillTracks DEF Fine, InInv
<1>4. QED
  BY <1>2, <1>3, <1>a DEF GetBlock

LEMMA RefillTracks == ASSUME CallInv, InInv, NEW c \in Ins, c = C, Refill PROVE Fine(c)'
<1>0. call.op = "getch" /\ call.n > 0 /\ Refers(fd[C]) /\ call.op \in ReadOps
  BY OpsDisjoint DEF Refill, Reading
<1>r. C \in Ins /\ call.n \in 1 .. Size
  BY <1>0, ReadState, Constants
<1>1. PICK s \in Served(call.n) :
        /\ s # <<>> /\ FromFile(s, 0) /\ curr' = [curr EXCEPT ![C] = 1] /\ Hear(<<s[1]>>)
        /\ AfterGet(1)
  BY DEF Refill
<1>2. s \in Seq(Cell) /\ Len(s) >= 1 /\ Len(s) \in Nat
  <2>1. s # <<>>
    BY <1>1
  <2>2. s \in Seq(Cell) /\ Len(s) >= 1 /\ Len(s) \in 0 .. call.n
    BY <1>0, <1>r, <2>1, ServedFromFile
  <2>3. QED
    BY <2>2
<1>3. s[1] \in Cell
  BY <1>2, ElementOfSeq
<1>4. PICK t \in Seq(Cell) : t = <<s[1]>> /\ Len(t) = 1 /\ t[1] = s[1]
  BY <1>3, OneCell
<1>5. PICK k \in Nat : k = 1
  OBVIOUS
<1>6. /\ k <= Len(s) /\ curr' = [curr EXCEPT ![c] = k] /\ Len(t) = k
      /\ \A i \in 1 .. k : t[i] = s[i]
      /\ Hear(t) /\ FromFile(s, 0)
  BY <1>1, <1>2, <1>4, <1>5
<1>7. Tracks(c)' /\ heard' \in [Ins -> Seq(Byte)]
  BY <1>0, <1>6, FillTracks
<1>8. Scanned' /\ RepliesTrue'
  BY <1>0, <1>1, GetTells
<1>9. QED
  BY <1>7, <1>8 DEF Fine

LEMMA ReadBlockTracks == ASSUME CallInv, InInv, NEW c \in Ins, c = C, ReadBlock PROVE Fine(c)'
<1>0. call.op \in {"input", "getblock"} /\ call.n > 0 /\ Refers(fd[C]) /\ call.op \in ReadOps
  BY OpsDisjoint DEF ReadBlock, Reading
<1>r. C \in Ins /\ call.n \in 1 .. Size /\ call.need \in Nat
  BY <1>0, ReadState, Constants
<1>1. PICK s \in Served(call.n) :
        LET taken == Lesser(call.need, Len(s))
        IN /\ FromFile(s, 0)
           /\ curr' = [curr EXCEPT ![C] = taken]
           /\ Hear(SubSeq(s, 1, taken))
           /\ IF call.op = "input" \/ taken = 0 THEN Return("ok") ELSE AfterGet(taken)
  BY DEF ReadBlock
<1>2. s \in Seq(Cell) /\ Len(s) \in Nat
  BY <1>0, <1>r, ServedFromFile
<1>3. PICK k \in Nat : k = Lesser(call.need, Len(s)) /\ k <= Len(s)
  BY <1>2, <1>r DEF Lesser
<1>4. /\ FromFile(s, 0) /\ curr' = [curr EXCEPT ![C] = k] /\ Hear(SubSeq(s, 1, k))
      /\ Return("ok") \/ AfterGet(k)
  BY <1>1, <1>3
<1>5. SubSeq(s, 1, k) \in Seq(Cell) /\ Len(SubSeq(s, 1, k)) = k /\ \A i \in 1 .. k : SubSeq(s, 1, k)[i] = s[i]
  <2>1. \A i \in 1 .. k : s[i] \in Cell
    BY <1>2, <1>3, ElementOfSeq
  <2>2. 1 \in Int /\ k \in Int
    OBVIOUS
  <2>3. /\ SubSeq(s, 1, k) \in Seq(Cell)
        /\ Len(SubSeq(s, 1, k)) = (IF 1 <= k THEN k - 1 + 1 ELSE 0)
        /\ \A i \in 1 .. k - 1 + 1 : SubSeq(s, 1, k)[i] = s[1 + i - 1]
    BY <2>1, <2>2, SubSeqProperties
  <2>4. QED
    BY <2>3
<1>6. PICK t \in Seq(Cell) : t = SubSeq(s, 1, k)
  BY <1>5
<1>7. Len(t) = k /\ (\A i \in 1 .. k : t[i] = s[i]) /\ Hear(t) /\ curr' = [curr EXCEPT ![c] = k]
  BY <1>4, <1>5, <1>6
<1>f. FromFile(s, 0) /\ k <= Len(s) /\ call.op \in {"getch", "input", "getblock"}
  BY <1>0, <1>3, <1>4
<1>8. Tracks(c)' /\ heard' \in [Ins -> Seq(Byte)]
  BY <1>0, <1>7, <1>f, FillTracks
<1>9. Scanned' /\ RepliesTrue'
  BY <1>0, <1>4, GetTells
<1>10. QED
  BY <1>8, <1>9 DEF Fine

\* A call that raises, or that meets the end of the file, has moved nothing.
LEMMA ReadEndsTracks ==
  ASSUME CallInv, InInv, NEW c \in Ins, c = C, EndOfFile \/ ReadFails PROVE Fine(c)'
<1> USE Constants
<1>1. Still(c) /\ heard' = heard /\ UNCHANGED <<file, place>>
  BY DEF Still, EndOfFile, ReadFails, channel, kernel, aux
<1>2. Tracks(c)' /\ heard' \in [Ins -> Seq(Byte)]
  BY <1>1, StillTracks DEF InInv
<1>3. Scanned'
  BY ReturnsQuiet DEF EndOfFile, ReadFails, Return
<1>4. RepliesTrue'
  <2>1. CASE ReadFails
    <3>1. call.op # "idle" /\ Return("error")
      BY <2>1, OpsDisjoint DEF ReadFails, Ops
    <3>2. QED
      BY <3>1, Answers, PlainReply
  <2>2. CASE EndOfFile
    <3>1. call.op = "getch" /\ call.n > 0 /\ Refers(fd[C]) /\ <<>> \in Served(call.n) /\ Return("eof")
      BY <2>2 DEF EndOfFile, Reading
    <3>2. call.op \in ReadOps /\ call.n \in 1 .. Size
      BY <3>1, OpsDisjoint, ReadState
    <3>3. Len(file[c]) <= at[c]
      BY <3>1, <3>2, ServedFromFile
    <3>4. fd[c] # NoFd /\ curr[c] = max[c] /\ curr[c] \in Int /\ offset[c] \in Int
      BY <3>1 DEF Refers, CallInv, Receiving, Pointers
    <3>5. place[c] = at[c]
      BY <3>4 DEF InInv, Tracks, Window, PositionKnown
    <3>6. reply'.how = "eof" /\ reply'.chan = c
      BY <3>1 DEF Return, ReturnLength
    <3>7. place'[c] >= Len(file'[c])
      <4>1. Len(file[c]) \in Nat /\ place[c] \in Nat
        BY LenProperties DEF InInv, Tracks, CallInv, Beliefs
      <4>2. QED
        BY <1>1, <3>3, <3>5, <4>1
    <3>8. QED
      BY <3>6, <3>7 DEF RepliesTrue
  <2>3. QED
    BY <2>1, <2>2
<1>5. QED
  BY <1>2, <1>3, <1>4 DEF Fine

LEMMA Places ==
  ASSUME NEW u \in Nat, NEW m \in Nat, NEW off \in Nat, NEW n \in Nat, NEW i \in 1 .. m - u,
         n = off - (m - u)
  PROVE  u + i \in 1 .. m /\ off - m + (u + i) = n + i /\ n + i <= off
  OBVIOUS

\* What lies in the buffer behind the place of the program is what comes next in the file.
LEMMA NextInFile ==
  ASSUME CallInv, InInv, NEW c \in Ins, status[c] = "live", NEW i \in 1 .. max[c] - curr[c]
  PROVE  /\ fd[c] # NoFd /\ file[c][place[c] + i] = buff[c][curr[c] + i]
         /\ place[c] + i <= Len(file[c])
<1> USE Constants
<1>0. /\ c \in Chan /\ Tracks(c) /\ offset[c] \in Nat /\ place[c] \in Nat /\ Len(file[c]) \in Nat
      /\ curr[c] \in 0 .. Size /\ max[c] \in 0 .. Size /\ curr[c] <= max[c]
  BY LenProperties DEF InInv, Tracks, CallInv, Pointers, Beliefs, Descriptors
<1>1. fd[c] # NoFd
  BY <1>0 DEF Tracks
<1>2. PositionKnown(c) /\ Frames(buff[c], max[c], offset[c], file[c])
  BY <1>0, <1>1 DEF Tracks, Window
<1>3. place[c] = offset[c] - (max[c] - curr[c])
  BY <1>2 DEF PositionKnown
<1>u. PICK u \in Nat, m \in Nat : u = curr[c] /\ m = max[c]
  <2>1. curr[c] \in Nat /\ max[c] \in Nat
    BY ONLY <1>0, Size \in Nat
  <2>2. QED
    BY ONLY <2>1, Zenon
<1>l. PICK off \in Nat, n \in Nat, l \in Nat : off = offset[c] /\ n = place[c] /\ l = Len(file[c])
  BY ONLY <1>0, Zenon
<1>m. /\ u = curr[c] /\ m = max[c] /\ off = offset[c] /\ n = place[c] /\ l = Len(file[c])
      /\ n = off - (m - u)
  BY ONLY <1>3, <1>u, <1>l, Zenon
<1>i. i \in 1 .. m - u
  BY <1>m
<1>p. u + i \in 1 .. m /\ off - m + (u + i) = n + i /\ n + i <= off
  <2>1. n = off - (m - u)
    BY <1>m
  <2>2. QED
    BY ONLY <1>i, <2>1, Places
<1>4. curr[c] + i \in 1 .. max[c] /\ offset[c] - max[c] + (curr[c] + i) = place[c] + i
  BY <1>m, <1>p
<1>5. buff[c][curr[c] + i] = file[c][offset[c] - max[c] + (curr[c] + i)]
  BY <1>2, <1>4 DEF Frames
<1>6. offset[c] <= Len(file[c])
  BY <1>0, <1>2, <1>4 DEF Frames
<1>7. place[c] + i <= Len(file[c])
  <2>1. off <= l /\ n + i <= off
    BY <1>6, <1>m, <1>p
  <2>2. n + i <= l
    BY ONLY <1>i, <2>1, n \in Nat, l \in Nat, off \in Nat, m \in Nat, u \in Nat
  <2>3. QED
    BY <1>m, <2>2
<1>8. QED
  BY <1>1, <1>4, <1>5, <1>7

\* What a scan has to have found when it replies.
LEMMA LineReply ==
  ASSUME NEW c \in Ins, NEW n \in Nat, ReturnLength("line", n), c = C, UNCHANGED <<file, place>>,
         place[c] + n <= Len(file[c]), file[c][place[c] + n] = Newline,
         \A i \in 1 .. n - 1 : file[c][place[c] + i] # Newline
  PROVE  RepliesTrue'
<1>1. reply'.how = "line" /\ reply'.n = n /\ reply'.chan = c
  BY DEF ReturnLength
<1>2. QED
  BY <1>1 DEF RepliesTrue

LEMMA NoLineReply ==
  ASSUME NEW c \in Ins, NEW n \in Nat, ReturnLength("noline", n), c = C, UNCHANGED <<file, place>>,
         \A i \in 1 .. n : file[c][place[c] + i] # Newline,
         n = Size \/ place[c] + n >= Len(file[c])
  PROVE  RepliesTrue'
<1>1. reply'.how = "noline" /\ reply'.n = n /\ reply'.chan = c
  BY DEF ReturnLength
<1>2. QED
  BY <1>1 DEF RepliesTrue

\* A scan that goes on has not replied.
LEMMA ScanGoesTells ==
  ASSUME CallInv, call.op = "scan_line", NEW next, Go(next) PROVE RepliesTrue'
<1>1. call.op # "idle"
  OBVIOUS
<1>2. reply'.how \notin Telling
  BY <1>1, Answers
<1>3. QED
  BY <1>2, PlainReply

\* There is no newline from the place of the program to that of the scan.
LEMMA ScannedSoFar ==
  ASSUME CallInv, InInv, NEW c \in Ins, c = C, call.op = "scan_line"
  PROVE  /\ status[c] = "live" /\ c \in Chan /\ call.p \in Nat /\ call.n \in 0 .. Size
         /\ curr[c] \in 0 .. Size /\ max[c] \in 0 .. Size
         /\ curr[c] <= call.p /\ call.p <= max[c] /\ buff[c] \in [1 .. Size -> Cell]
         /\ \A i \in 1 .. call.p - curr[c] : buff[c][curr[c] + i] # Newline
         /\ \A i \in 1 .. call.p - curr[c] : file[c][place[c] + i] # Newline
<1> USE Constants
<1>0. call.op \in ReadOps
  BY OpsDisjoint
<1>1. /\ status[c] = "live" /\ c \in Chan /\ call.p \in Nat /\ call.n \in 0 .. Size
      /\ curr[c] \in 0 .. Size /\ max[c] \in 0 .. Size /\ buff[c] \in [1 .. Size -> Cell]
  BY <1>0, ReadState
<1>2. curr[c] <= call.p /\ call.p <= max[c]
  BY DEF CallInv, Receiving
<1>3. ASSUME NEW i \in 1 .. call.p - curr[c] PROVE buff[c][curr[c] + i] # Newline
  <2>1. curr[c] + i \in curr[c] + 1 .. call.p
    BY <1>1, <1>2
  <2>2. QED
    BY <2>1 DEF InInv, Scanned
<1>4. ASSUME NEW i \in 1 .. call.p - curr[c] PROVE file[c][place[c] + i] # Newline
  <2>1. i \in 1 .. max[c] - curr[c]
    BY <1>1, <1>2
  <2>2. file[c][place[c] + i] = buff[c][curr[c] + i]
    BY <1>1, <2>1, NextInFile
  <2>3. QED
    BY <1>3, <2>2
<1>5. QED
  BY <1>1, <1>2, <1>3, <1>4

\* A scan goes on at p.
ScanAt(p, n) == Go([call EXCEPT !.p = p, !.n = n])

LEMMA ScanMoves ==
  ASSUME CallInv, call.op = "scan_line", NEW c \in Ins, c = C, NEW p \in Nat, NEW n \in 0 .. Size,
         ScanAt(p, n),
         \A i \in curr'[c] + 1 .. p : buff'[c][i] # Newline
  PROVE  Scanned' /\ RepliesTrue'
<1>1. call \in Calls /\ call' = [call EXCEPT !.p = p, !.n = n]
  BY DEF CallInv, Calling, Go, ScanAt
<1>2. call'.p = p /\ call'.chan = c
  BY <1>1 DEF Calls, C
<1>3. Scanned'
  BY <1>2 DEF Scanned, C
<1>4. RepliesTrue'
  BY ScanGoesTells DEF ScanAt
<1>5. QED
  BY <1>3, <1>4

\* The scan meets the end of the buffer, and what is not read yet is moved to its front.
LEMMA ScanShifts ==
  ASSUME CallInv, InInv, NEW c \in Ins, c = C, call.op = "scan_line", call.p >= max[c],
         buff' = [buff EXCEPT ![c] = Shift(@, curr[c], max[c])],
         max' = [max EXCEPT ![c] = @ - curr[c]], curr' = [curr EXCEPT ![c] = 0],
         UNCHANGED <<status, fd, offset, file, at, place, heard>>,
         IF max'[c] >= Size THEN ReturnLength("noline", max'[c])
         ELSE ScanAt(call.p - curr[c], Size - max'[c])
  PROVE  Fine(c)'
<1> USE Constants
<1>0. /\ status[c] = "live" /\ c \in Chan /\ curr[c] <= call.p /\ call.p <= max[c]
      /\ call.p \in Nat /\ curr[c] \in 0 .. Size /\ max[c] \in 0 .. Size
      /\ buff[c] \in [1 .. Size -> Cell] /\ Tracks(c) /\ offset[c] \in Nat /\ place[c] \in Nat
      /\ \A i \in 1 .. call.p - curr[c] : buff[c][curr[c] + i] # Newline
      /\ \A i \in 1 .. call.p - curr[c] : file[c][place[c] + i] # Newline
  BY ScannedSoFar DEF InInv, CallInv, Pointers, Beliefs
<1>1. PICK u \in 0 .. Size, m \in 0 .. Size : u = curr[c] /\ m = max[c] /\ u <= m /\ call.p = m
  BY <1>0
<1>2. PICK l \in 0 .. Size : l = m - u
  BY <1>1
<1>3. curr'[c] = 0 /\ max'[c] = l /\ buff'[c] = Shift(buff[c], u, m)
  BY <1>0, <1>1, <1>2 DEF CallInv, Pointers
<1>4. u \in 0 .. m
  BY <1>1
<1>5. \A i \in 1 .. l : buff'[c][i] = buff[c][u + i]
  <2>1. PICK b \in [1 .. Size -> Cell] : b = buff[c]
    BY <1>0
  <2>2. \A i \in 1 .. m - u : Shift(b, u, m)[i] = b[u + i]
    BY <1>4, ShiftToFront
  <2>3. QED
    BY <1>2, <1>3, <2>1, <2>2
<1>6. Window(c)'
  <2>1. ASSUME fd[c] # NoFd PROVE PositionKnown(c)' /\ Frames(buff'[c], l, offset[c], file[c])
    <3>1. PositionKnown(c) /\ Frames(buff[c], m, offset[c], file[c])
      BY <1>0, <1>1, <2>1 DEF Tracks, Window
    <3>2. Frames(Shift(buff[c], u, m), m - u, offset[c], file[c])
      BY <1>0, <1>4, <3>1, ShiftFrames
    <3>3. place[c] = offset[c] - (l - 0) /\ offset[c] = at[c]
      BY <1>1, <1>2, <3>1 DEF PositionKnown
    <3>4. QED
      BY <1>2, <1>3, <3>2, <3>3 DEF PositionKnown
  <2>2. QED
    BY <1>3, <2>1 DEF Window
<1>7. fd[c] = NoFd => l = 0
  BY <1>0, <1>1, <1>2 DEF Tracks
<1>8. Tracks(c)' /\ heard' \in [Ins -> Seq(Byte)]
  BY <1>0, <1>3, <1>6, <1>7 DEF Tracks, InInv
<1>9. (\A i \in 1 .. l : buff[c][u + i] # Newline) /\ (\A i \in 1 .. l : file[c][place[c] + i] # Newline)
  BY <1>0, <1>1, <1>2
<1>10. CASE l >= Size
  <2>1. ReturnLength("noline", l) /\ l = Size
    BY <1>2, <1>3, <1>10
  <2>2. RepliesTrue'
    BY <1>9, <2>1, NoLineReply
  <2>3. QED
    BY <1>8, <2>1, <2>2, ReturnsQuiet DEF Fine
<1>11. CASE ~(l >= Size)
  <2>1. PICK n \in 0 .. Size : n = Size - l
    BY <1>2
  <2>2. ScanAt(l, n)
    BY <1>1, <1>2, <1>3, <1>11, <2>1
  <2>3. \A i \in curr'[c] + 1 .. l : buff'[c][i] # Newline
    BY <1>3, <1>5, <1>9
  <2>p. l \in Nat
    BY <1>2
  <2>4. Scanned' /\ RepliesTrue'
    BY <2>2, <2>3, <2>p, ScanMoves
  <2>5. QED
    BY <1>8, <2>4 DEF Fine
<1>12. QED
  BY <1>10, <1>11

\* The scan looks at the next byte of the buffer.
LEMMA ScanLooks ==
  ASSUME CallInv, InInv, NEW c \in Ins, c = C, call.op = "scan_line", call.p < max[c],
         UNCHANGED <<status, fd, offset, curr, max, buff, file, at, place, heard>>,
         IF buff[c][call.p + 1] = Newline THEN ReturnLength("line", call.p + 1 - curr[c])
         ELSE Go([call EXCEPT !.p = @ + 1])
  PROVE  Fine(c)'
<1> USE Constants
<1>0. /\ status[c] = "live" /\ c \in Chan /\ curr[c] <= call.p /\ call.p <= max[c]
      /\ call.p \in Nat /\ curr[c] \in 0 .. Size /\ max[c] \in 0 .. Size
      /\ Tracks(c) /\ call.n \in 0 .. Size /\ call \in Calls
      /\ \A i \in 1 .. call.p - curr[c] : buff[c][curr[c] + i] # Newline
      /\ \A i \in 1 .. call.p - curr[c] : file[c][place[c] + i] # Newline
  BY ScannedSoFar DEF InInv, CallInv, Calling
<1>1. Still(c) /\ heard' = heard
  BY DEF Still
<1>2. Tracks(c)' /\ heard' \in [Ins -> Seq(Byte)]
  BY <1>0, <1>1, StillTracks DEF InInv
<1>3. PICK n \in 1 .. Size : n = call.p + 1 - curr[c]
  BY <1>0
<1>4. n \in 1 .. max[c] - curr[c] /\ curr[c] + n = call.p + 1
  BY <1>0, <1>3
<1>5. CASE buff[c][call.p + 1] = Newline
  <2>1. ReturnLength("line", n)
    BY <1>3, <1>5
  <2>2. file[c][place[c] + n] = Newline /\ place[c] + n <= Len(file[c])
    <3>1. /\ file[c][place[c] + n] = buff[c][curr[c] + n]
          /\ place[c] + n <= Len(file[c])
      BY <1>0, <1>4, NextInFile
    <3>2. QED
      BY <1>4, <1>5, <3>1
  <2>3. \A i \in 1 .. n - 1 : file[c][place[c] + i] # Newline
    BY <1>0, <1>3
  <2>4. RepliesTrue'
    BY <2>1, <2>2, <2>3, LineReply
  <2>5. QED
    BY <1>2, <2>1, <2>4, ReturnsQuiet DEF Fine
<1>6. CASE buff[c][call.p + 1] # Newline
  <2>1. PICK p \in Nat, k \in 0 .. Size : p = call.p + 1 /\ k = call.n
    BY <1>0
  <2>2. ScanAt(p, k)
    <3>1. [call EXCEPT !.p = call.p + 1] = [call EXCEPT !.p = p, !.n = k]
      BY <1>0, <2>1 DEF Calls
    <3>2. QED
      BY <1>6, <3>1 DEF ScanAt
  <2>3. ASSUME NEW i \in curr'[c] + 1 .. p PROVE buff'[c][i] # Newline
    <3>1. CASE i = p
      BY <1>6, <2>1, <3>1
    <3>2. CASE i # p
      <4>1. i - curr[c] \in 1 .. call.p - curr[c] /\ curr[c] + (i - curr[c]) = i
        BY <1>0, <2>1, <3>2
      <4>2. QED
        BY <1>0, <4>1
    <3>3. QED
      BY <3>1, <3>2
  <2>4. Scanned' /\ RepliesTrue'
    BY <2>2, <2>3, ScanMoves
  <2>5. QED
    BY <1>2, <2>4 DEF Fine
<1>7. QED
  BY <1>5, <1>6

LEMMA ScanLineTracks == ASSUME CallInv, InInv, NEW c \in Ins, c = C, ScanLine PROVE Fine(c)'
<1>0. call.op = "scan_line" /\ UNCHANGED <<status, fd, offset, file, at, place, heard>>
  BY DEF ScanLine, kernel, aux
<1>1. CASE /\ call.p >= max[C]
           /\ buff' = [buff EXCEPT ![C] = Shift(@, curr[C], max[C])]
           /\ max' = [max EXCEPT ![C] = @ - curr[C]]
           /\ curr' = [curr EXCEPT ![C] = 0]
           /\ IF max'[C] >= Size THEN ReturnLength("noline", max'[C])
              ELSE Go([call EXCEPT !.p = @ - curr[C], !.n = Size - max'[C]])
  <2>1. IF max'[c] >= Size THEN ReturnLength("noline", max'[c])
        ELSE ScanAt(call.p - curr[c], Size - max'[c])
    BY ONLY <1>1, c = C, Zenon DEF ScanAt
  <2>2. /\ call.p >= max[c]
        /\ buff' = [buff EXCEPT ![c] = Shift(@, curr[c], max[c])]
        /\ max' = [max EXCEPT ![c] = @ - curr[c]] /\ curr' = [curr EXCEPT ![c] = 0]
    BY ONLY <1>1, c = C, Zenon
  <2>3. QED
    BY ONLY <1>0, <2>1, <2>2, CallInv, InInv, c \in Ins, c = C, ScanShifts
<1>2. CASE /\ call.p < max[C] /\ UNCHANGED <<buff, curr, max>>
           /\ IF buff[C][call.p + 1] = Newline THEN ReturnLength("line", call.p + 1 - curr[C])
              ELSE Go([call EXCEPT !.p = @ + 1])
  BY <1>0, <1>2, ScanLooks
<1>3. QED
  BY <1>1, <1>2 DEF ScanLine

\* What the scan waited for has come behind what was there.
LEMMA ReadMoreTracks == ASSUME CallInv, InInv, NEW c \in Ins, c = C, ReadMore PROVE Fine(c)'
<1> USE Constants
<1>0. call.op = "scan_line" /\ call.n > 0 /\ Refers(fd[C]) /\ call.op \in ReadOps
  BY OpsDisjoint DEF ReadMore, Reading
<1>q. curr[C] = 0 /\ call.p = max[C] /\ call.n = Size - max[C]
  BY <1>0 DEF CallInv, Receiving
<1>r. /\ status[c] = "live" /\ c \in Chan /\ call.n \in 1 .. Size /\ call \in Calls
      /\ max[c] \in 0 .. Size /\ buff[c] \in [1 .. Size -> Cell] /\ Tracks(c)
      /\ offset[c] \in Nat /\ place[c] \in Nat /\ Len(file[c]) \in Nat
      /\ \A i \in 1 .. call.p - curr[c] : buff[c][curr[c] + i] # Newline
      /\ \A i \in 1 .. call.p - curr[c] : file[c][place[c] + i] # Newline
  <2>1. /\ status[c] = "live" /\ c \in Chan /\ call.n \in 0 .. Size
        /\ max[c] \in 0 .. Size /\ buff[c] \in [1 .. Size -> Cell]
        /\ \A i \in 1 .. call.p - curr[c] : buff[c][curr[c] + i] # Newline
        /\ \A i \in 1 .. call.p - curr[c] : file[c][place[c] + i] # Newline
    BY <1>0, ScannedSoFar
  <2>2. call \in Calls /\ Tracks(c) /\ offset[c] \in Nat /\ place[c] \in Nat
    BY <2>1 DEF InInv, CallInv, Calling, Pointers, Beliefs
  <2>3. Len(file[c]) \in Nat
    BY <2>2, LenProperties DEF Tracks
  <2>4. call.n \in 1 .. Size
    BY <1>0, <2>1
  <2>5. QED
    BY <2>1, <2>2, <2>3, <2>4
<1>s. PICK s \in Served(call.n) :
        /\ FromFile(s, max[C]) /\ UNCHANGED <<curr, aux>>
        /\ IF s = <<>> THEN ReturnLength("noline", max[C] - curr[C]) ELSE Attempt(0)
  BY DEF ReadMore
<1>1. /\ s \in Seq(Cell) /\ Len(s) \in 0 .. call.n
      /\ \A i \in 1 .. Len(s) : s[i] = file[C][at[C] + i]
      /\ s = <<>> => Len(file[C]) <= at[C]
      /\ s # <<>> => at[C] + Len(s) <= Len(file[C])
  BY <1>0, <1>r, ServedFromFile
<1>2. /\ max' = [max EXCEPT ![C] = max[C] + Len(s)]
      /\ buff' = [buff EXCEPT ![C] = Put(@, max[C], s)]
      /\ at' = [at EXCEPT ![C] = @ + Len(s)]
      /\ offset' = [offset EXCEPT ![C] = @ + Len(s)]
      /\ UNCHANGED <<status, fd, table, file>>
  <2>1. max[C] + call.n <= Size /\ max[C] \in 0 .. Size
    BY <1>q, <1>r
  <2>2. FromFile(s, max[C])
    BY <1>s
  <2>3. QED
    BY <1>0, <1>r, <2>1, <2>2, FromFileKeeps
<1>3. UNCHANGED <<curr, said, place, heard>>
  BY <1>s DEF aux
<1>m. PICK m \in 0 .. Size, l \in Nat, off \in Nat, b \in [1 .. Size -> Cell], f \in Seq(Byte) :
        /\ m = max[c] /\ l = Len(s) /\ off = offset[c] /\ b = buff[c] /\ f = file[c]
        /\ m + l <= Size
  BY <1>1, <1>q, <1>r DEF Tracks
<1>4. fd[c] # NoFd /\ PositionKnown(c) /\ Frames(b, m, off, f)
  BY <1>0, <1>m, <1>r DEF Refers, Tracks, Window
<1>5. off = at[c] /\ place[c] = off - m
  BY <1>4, <1>m, <1>q DEF PositionKnown
<1>6. /\ max'[c] = m + l /\ offset'[c] = off + l /\ at'[c] = at[c] + l /\ curr'[c] = 0
      /\ buff'[c] = Put(b, m, s)
  BY <1>2, <1>3, <1>m, <1>q, <1>r DEF CallInv, Pointers, Kernel
<1>7. Frames(Put(b, m, s), m + l, off + l, f)
  <2>1. /\ m + Len(s) <= Size /\ s \in Seq(Cell)
        /\ \A i \in 1 .. Len(s) : s[i] = f[off + i]
        /\ s # <<>> => off + Len(s) <= Len(f)
    BY <1>1, <1>5, <1>m
  <2>2. Frames(Put(b, m, s), m + Len(s), off + Len(s), f)
    BY <1>4, <2>1, AppendFrames
  <2>3. QED
    BY <1>m, <2>2
<1>8. Window(c)'
  <2>1. off - m = off + l - (m + l - 0)
    BY <1>m
  <2>2. PositionKnown(c)'
    BY <1>3, <1>5, <1>6, <2>1 DEF PositionKnown
  <2>3. QED
    BY <1>2, <1>6, <1>7, <1>m, <2>2 DEF Window
<1>9. Tracks(c)' /\ heard' \in [Ins -> Seq(Byte)]
  <2>1. heard \in [Ins -> Seq(Byte)]
    BY DEF InInv
  <2>2. QED
    BY <1>2, <1>3, <1>4, <1>8, <1>r, <2>1 DEF Tracks
<1>10. CASE s = <<>>
  <2>1. ReturnLength("noline", m) /\ m \in Nat
    BY <1>10, <1>m, <1>q, <1>s
  <2>2. \A i \in 1 .. m : file[c][place[c] + i] # Newline
    BY <1>m, <1>q, <1>r
  <2>3. place[c] + m >= Len(file[c])
    BY <1>1, <1>5, <1>10, <1>m, <1>r
  <2>4. RepliesTrue'
    BY <1>2, <1>3, <2>1, <2>2, <2>3, NoLineReply
  <2>5. QED
    BY <1>9, <2>1, <2>4, ReturnsQuiet DEF Fine
<1>11. CASE s # <<>>
  <2>1. PICK p \in Nat, n \in 0 .. Size : p = m /\ n = 0
    BY <1>m
  <2>2. ScanAt(p, n)
    <3>1. [call EXCEPT !.n = 0] = [call EXCEPT !.p = p, !.n = n]
      BY <1>m, <1>q, <1>r, <2>1 DEF Calls
    <3>2. Attempt(0)
      BY <1>11, <1>s
    <3>3. QED
      BY <3>1, <3>2 DEF Attempt, ScanAt
  <2>3. ASSUME NEW i \in 1 .. m PROVE Put(b, m, s)[i] # Newline
    <3>0. m + Len(s) <= Size /\ s \in Seq(Cell)
      BY <1>1, <1>m
    <3>1. Put(b, m, s)[i] = b[i]
      BY <3>0, PutBehind
    <3>2. 0 + i = i
      OBVIOUS
    <3>3. QED
      BY <1>m, <1>q, <1>r, <3>1, <3>2
  <2>4. \A i \in curr'[c] + 1 .. p : buff'[c][i] # Newline
    BY <1>6, <2>1, <2>3
  <2>5. Scanned' /\ RepliesTrue'
    BY <1>0, <2>2, <2>4, ScanMoves
  <2>6. QED
    BY <1>9, <2>5 DEF Fine
<1>12. QED
  BY <1>10, <1>11

-----------------------------------------------------------------------------
(* Input                                                                    *)

\* Output, and a call on a channel for output, returns nothing to the program.
LEMMA HeardStays ==
  ASSUME CallInv, Write \/ \E c \in Outs : CallOn(c) PROVE heard' = heard
<1> USE Constants
<1>1. CASE Write
  <2>1. CASE PutChar \/ PutBlock \/ Flush \/ WouldBlock \/ WriteFails
    BY <2>1 DEF PutChar, PutBlock, Flush, WouldBlock, WriteFails, aux
  <2>2. CASE Flushed
    BY <2>2 DEF Flushed, Shut, FreeChannel, aux
  <2>3. CASE Written
    <3>1. PICK k \in 1 .. call.n : ToFile(k)
      BY <2>3 DEF Written
    <3>2. QED
      BY <3>1 DEF ToFile, aux
  <2>4. CASE BlockWritten
    <3>1. PICK k \in 1 .. call.n : ToFile(k)
      BY <2>4 DEF BlockWritten
    <3>2. QED
      BY <3>1 DEF ToFile, aux
  <2>5. QED
    BY <1>1, <2>1, <2>2, <2>3, <2>4 DEF Write
<1>2. ASSUME NEW c \in Outs, CallOn(c) PROVE heard' = heard
  <2>0. c \notin Ins
    OBVIOUS
  <2>1. CASE Open(c) \/ prim_close_channel(c) \/ finalize_channel(c)
    BY <2>1 DEF Open, prim_close_channel, finalize_channel, Shut, FreeChannel, aux
  <2>2. CASE prim_output_char(c) \/ putword(c) \/ prim_output(c)
    BY <2>2 DEF prim_output_char, putword, prim_output, Output
  <2>3. CASE prim_flush(c) \/ prim_flush_partial(c) \/ seek_out(c)
    BY <2>3 DEF prim_flush, prim_flush_partial, seek_out, Quiet, aux
  <2>4. QED
    BY <1>2, <2>0, <2>1, <2>2, <2>3 DEF CallOn
<1>3. QED
  BY <1>1, <1>2

LEMMA InputInit == Init => InInv
<1> SUFFICES ASSUME Init PROVE InInv
  OBVIOUS
<1> USE Constants
<1>1. heard \in [Ins -> Seq(Byte)]
  BY DEF Init
<1>2. ASSUME NEW c \in Ins PROVE Tracks(c)
  <2>1. /\ fd[c] = NoFd /\ file[c] \in Seq(Byte) /\ heard[c] = <<>> /\ place[c] = 0
        /\ offset[c] = 0 /\ at[c] = 0 /\ curr[c] = 0 /\ max[c] = 0
    BY ValueAssumption DEF Init
  <2>2. Window(c) /\ PositionKnown(c)
    BY <2>1 DEF Window, PositionKnown
  <2>3. Ends(heard[c], place[c], file[c])
    BY <2>1, NothingEnds
  <2>4. QED
    BY <2>1, <2>2, <2>3 DEF Tracks
<1>3. Scanned /\ RepliesTrue
  <2>1. call.op # "scan_line" /\ reply.how \notin Telling
    BY DEF Init, Idle, NoReply, Telling
  <2>2. QED
    BY <2>1, PlainReplyNow DEF Scanned
<1>4. QED
  BY <1>1, <1>2, <1>3 DEF InInv

LEMMA ReadFine == ASSUME CallInv, InInv, Read, NEW c \in Ins, c = C PROVE Fine(c)'
<1>1. CASE GetChar \/ GetBlock
  BY <1>1, GetCharTracks, GetBlockTracks
<1>2. CASE ScanLine \/ ReadMore
  BY <1>2, ScanLineTracks, ReadMoreTracks
<1>3. CASE Refill \/ ReadBlock
  BY <1>3, RefillTracks, ReadBlockTracks
<1>4. CASE EndOfFile \/ ReadFails
  BY <1>4, ReadEndsTracks
<1>5. QED
  BY <1>1, <1>2, <1>3, <1>4 DEF Read

LEMMA InputStep == ~SeekClosed /\ CallInv /\ InInv /\ [Next]_vars => InInv'
<1> SUFFICES ASSUME ~SeekClosed, CallInv, InInv, [Next]_vars PROVE InInv'
  OBVIOUS
<1>0. heard \in [Ins -> Seq(Byte)] /\ \A c \in Ins : Tracks(c)
  BY DEF InInv
<1>1. CASE Write
  <2>1. \A c \in Ins : Tracks(c)'
    BY <1>0, <1>1, WriteStill, StillTracks
  <2>2. reply'.how \notin Telling /\ call'.op # "scan_line"
    BY <1>1, WriteTells
  <2>3. heard' = heard
    BY <1>1, HeardStays
  <2>4. Scanned' /\ RepliesTrue'
    BY <2>2, PlainReply, NotScanning
  <2>5. QED
    BY <1>0, <2>1, <2>3, <2>4 DEF InInv
<1>2. CASE Read
  <2>0. call.op \in ReadOps
    BY <1>2, OpsDisjoint DEF Read, GetChar, GetBlock, ScanLine, EndOfFile, Refill, ReadBlock, ReadMore,
       ReadFails, Reading
  <2>1. PICK d \in Ins : d = C
    BY <2>0, ReadState
  <2>2. Fine(d)'
    BY <1>2, <2>1, ReadFine
  <2>3. ASSUME NEW c \in Ins PROVE Tracks(c)'
    <3>1. CASE c = d
      BY <2>2, <3>1 DEF Fine
    <3>2. CASE c # d
      BY <1>0, <1>2, <2>1, <3>2, ReadStill, StillTracks
    <3>3. QED
      BY <3>1, <3>2
  <2>4. QED
    BY <2>2, <2>3 DEF Fine, InInv
<1>3. ASSUME NEW e \in Chan, CallOn(e) PROVE InInv'
  <2>1. reply'.how \notin Telling /\ Scanned'
    BY <1>3, CallOnTells
  <2>2. RepliesTrue'
    BY <2>1, PlainReply
  <2>3. ASSUME NEW c \in Ins PROVE Tracks(c)'
    <3>1. CASE c = e
      BY <1>3, <3>1, CallOnTracks
    <3>2. CASE c # e
      BY <1>0, <1>3, <3>2, CallOnStill, StillTracks
    <3>3. QED
      BY <3>1, <3>2
  <2>4. heard' \in [Ins -> Seq(Byte)]
    <3>1. CASE e \in Ins
      BY <1>3, <3>1, CallOnTracks
    <3>2. CASE e \in Outs
      BY <1>0, <1>3, <3>2, HeardStays
    <3>3. QED
      BY <3>1, <3>2 DEF Chan
  <2>5. QED
    BY <2>1, <2>2, <2>3, <2>4 DEF InInv
<1>4. CASE UNCHANGED vars
  <2>1. \A c \in Ins : Still(c)
    BY <1>4 DEF vars, channel, kernel, aux, Still
  <2>2. \A c \in Ins : Tracks(c)'
    BY <1>0, <2>1, StillTracks
  <2>3. UNCHANGED <<call, reply, curr, buff, place, file, heard>>
    BY <1>4 DEF vars, channel, kernel, aux
  <2>4. Scanned' /\ RepliesTrue'
    BY <2>3 DEF InInv, Scanned, C, RepliesTrue
  <2>5. QED
    BY <1>0, <2>2, <2>3, <2>4 DEF InInv
<1>5. QED
  BY <1>1, <1>2, <1>3, <1>4 DEF Next

\* What is in front of a place of a file, written as a part of it.
LEMMA EndsIsPart ==
  ASSUME NEW h \in Seq(Byte), NEW f \in Seq(Byte), NEW n \in Nat, Ends(h, n, f)
  PROVE  h = SubSeq(f, n - Len(h) + 1, n)
<1>1. PICK k \in Nat, m \in Nat : k = Len(h) /\ m = Len(f) /\ k <= n
  BY LenProperties DEF Ends
<1>a. n - k + 1 \in Int /\ n - k + 1 >= 1
  BY <1>1
<1>2. PICK a \in Int : a = n - k + 1 /\ a >= 1
  BY <1>a
<1>3. ASSUME NEW i \in a .. n PROVE f[i] \in Byte
  <2>1. k # 0
    BY <1>1, <1>2
  <2>2. n <= m
    BY <1>1, <2>1, EmptySeq DEF Ends
  <2>3. i \in 1 .. Len(f)
    BY <1>1, <1>2, <2>2
  <2>4. QED
    BY <2>3, ElementOfSeq
<1>4. PICK g : g = SubSeq(f, a, n)
  OBVIOUS
<1>5. /\ g \in Seq(Byte) /\ Len(g) = (IF a <= n THEN n - a + 1 ELSE 0)
      /\ \A i \in 1 .. n - a + 1 : g[i] = f[a + i - 1]
  BY <1>3, <1>4, SubSeqProperties
<1>6. n - a + 1 = k /\ Len(g) = k /\ \A i \in 1 .. k : a + i - 1 = n - k + i
  BY <1>1, <1>2, <1>5
<1>7. ASSUME NEW i \in 1 .. k PROVE g[i] = h[i]
  <2>1. h[i] = f[n - k + i]
    BY <1>1 DEF Ends
  <2>2. g[i] = f[a + i - 1]
    BY <1>5, <1>6
  <2>3. QED
    BY <1>6, <2>1, <2>2
<1>8. g = h
  BY <1>1, <1>5, <1>6, <1>7, SeqEqual
<1>9. QED
  BY <1>1, <1>2, <1>4, <1>8

LEMMA InputInvariant == ~SeekClosed => (Spec => [](CallInv /\ InInv))
<1> SUFFICES ASSUME ~SeekClosed PROVE Spec => [](CallInv /\ InInv)
  OBVIOUS
<1>1. CallInv /\ InInv /\ [Next]_vars => InInv'
  BY InputStep
<1>2. QED
  BY <1>1, CallInit, CallStep, InputInit, PTL DEF Spec

\* When C code leaves channels alone that have been closed, whatever the reads, seeks and
\* scans, every call returns what the file has at the place of the program, the end of
\* the file is reported only there, and a line is the line (getblock, refill, seek_in,
\* input_scan_line).
THEOREM InputIsTrue == ~SeekClosed => (Spec => []InputTrue)
<1>1. CallInv /\ InInv => InputTrue
  <2> SUFFICES ASSUME CallInv, InInv PROVE InputTrue
    OBVIOUS
  <2>1. ASSUME NEW c \in Ins
        PROVE  /\ fd[c] # NoFd => PositionKnown(c)
               /\ heard[c] = SubSeq(file[c], place[c] - Len(heard[c]) + 1, place[c])
    <3>1. /\ heard[c] \in Seq(Byte) /\ file[c] \in Seq(Byte) /\ place[c] \in Nat
          /\ Ends(heard[c], place[c], file[c]) /\ (fd[c] # NoFd => PositionKnown(c))
      BY DEF InInv, Tracks, Window, CallInv, Beliefs
    <3>2. QED
      BY <3>1, EndsIsPart
  <2>2. QED
    BY <2>1 DEF InputTrue, ReadsFile, InInv
<1>2. QED
  BY <1>1, InputInvariant, PTL

\* The front of a sequence of bytes consists of bytes.
LEMMA FrontOfBytes ==
  ASSUME NEW f \in Seq(Cell), NEW g \in Seq(Cell), NEW s \in Seq(Byte), s = f \o g
  PROVE  f \in Seq(Byte)
<1>1. PICK k \in Nat, l \in Nat : k = Len(f) /\ l = Len(g)
  BY LenProperties
<1>2. Len(s) = k + l /\ \A i \in 1 .. k : s[i] = f[i]
  BY <1>1, ConcatProperties
<1>3. ASSUME NEW i \in 1 .. k PROVE f[i] \in Byte
  <2>1. i \in 1 .. Len(s)
    BY <1>2
  <2>2. s[i] \in Byte
    BY <2>1, ElementOfSeq
  <2>3. QED
    BY <1>2, <2>2
<1>4. f \in [1 .. k -> Cell]
  BY <1>1, LenProperties
<1>5. f \in [1 .. k -> Byte]
  BY <1>3, <1>4
<1>6. QED
  BY <1>5, SeqDef

LEMMA OutputIsBytes ==
  ASSUME CallInv, OutputAccounted, NEW o \in Outs PROVE file[o] \in Seq(Byte)
<1>1. /\ said[o] \in Seq(Byte) /\ file[o] \in Seq(Cell) /\ Pending(o) \in Seq(Cell)
  BY OutputTypes DEF CallInv, Beliefs
<1>2. Asked(o) \in Seq(Cell)
  BY EmptySeq, RestOfCells DEF Asked
<1>3. PICK f \in Seq(Cell), p \in Seq(Cell), a \in Seq(Cell), s \in Seq(Byte) :
        f = file[o] /\ p = Pending(o) /\ a = Asked(o) /\ s = said[o]
  BY <1>1, <1>2
<1>4. CASE fd[o] # NoFd
  <2>1. s = (f \o p) \o a
    BY <1>3, <1>4 DEF OutputAccounted
  <2>2. PICK g \in Seq(Cell) : g = f \o p
    BY ConcatProperties
  <2>3. g \in Seq(Byte)
    BY <2>1, <2>2, FrontOfBytes
  <2>4. QED
    BY <1>3, <2>2, <2>3, FrontOfBytes
<1>5. CASE fd[o] = NoFd
  <2>1. s = f \o a
    BY <1>3, <1>5 DEF OutputAccounted
  <2>2. QED
    BY <1>3, <2>1, FrontOfBytes
<1>6. QED
  BY <1>4, <1>5

\* The pointers stay inside the buffers, a call has a channel of its kind, and no byte that
\* was never stored gets into a file or to the program.
THEOREM ChannelsTypeCorrect == ~SeekClosed => (Spec => []TypeOK)
<1>1. CallInv /\ OutInv /\ InInv => TypeOK
  <2> SUFFICES ASSUME CallInv, OutInv, InInv PROVE TypeOK
    OBVIOUS
  <2>1. file \in [Chan -> Seq(Byte)]
    <3>1. ASSUME NEW c \in Chan PROVE file[c] \in Seq(Byte)
      <4>1. CASE c \in Ins
        BY <4>1 DEF InInv, Tracks
      <4>2. CASE c \in Outs
        BY <4>2, OutputIsBytes DEF OutInv
      <4>3. QED
        BY <4>1, <4>2 DEF Chan
    <3>2. QED
      BY <3>1 DEF CallInv, Kernel
  <2>2. QED
    BY <2>1 DEF TypeOK, CallInv, Pointers, Kernel, Calling, Beliefs, InInv, Cell
<1>2. (~SeekClosed => (Spec => [](CallInv /\ InInv)))
  BY InputInvariant
<1>3. CallInv /\ OutInv /\ CallInv' /\ [Next]_vars => OutInv'
  BY OutputStep
<1>4. QED
  BY <1>1, <1>2, <1>3, OutputInit, CallInit, CallStep, PTL DEF Spec
=============================================================================
