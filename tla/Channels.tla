------------------------------ MODULE Channels ------------------------------
(***************************************************************************)
(* Buffered input and output (prim/primio.c): channels over descriptors   *)
(* of the operating system, the calls of the primitives and of C code     *)
(* that use them, and what remains of a channel that is closed, or whose  *)
(* block the collector finalises.                                         *)
(*                                                                         *)
(* A pointer into a buffer is the number of bytes in front of it.  A step *)
(* is what happens between two system calls.  A system call takes or      *)
(* gives any part of what it is asked for, or fails; one that a signal    *)
(* interrupts is made again (EINTR), which is no step at all.  There are  *)
(* no other threads: the hooks that lock a channel are never set.         *)
(*                                                                         *)
(* Every channel has a file of its own.  Output is appended: prim_open    *)
(* opens with O_APPEND what is written, and a terminal or a pipe does the *)
(* same.  Input may be positioned.                                        *)
(***************************************************************************)
EXTENDS Integers, Sequences

CONSTANTS
  Ins, Outs,     \* channels for input and for output
  Fds,           \* descriptors
  Byte, Newline, \* what a file consists of
  Junk,          \* what memory holds that is not initialised
  Size,          \* IO_BUFFER_SIZE
  Word,          \* the bytes of a binary integer
  Contents,      \* what a file may hold in the beginning
  Requests,      \* what prim_output may be given
  Wanted,        \* what getblock may be asked for
  Dests,         \* where a channel may be positioned
  SeekClosed,    \* does C code position channels that have been closed?
  MaxSaid        \* bound: the bytes of an output file

ASSUME ChannelsAssumption == Ins \cap Outs = {}
ASSUME FdsAssumption   == Fds \subseteq Nat
ASSUME ByteAssumption  == Newline \in Byte /\ Junk \notin Byte
ASSUME SizeAssumption  == {Size, Word} \subseteq Nat \ {0} /\ MaxSaid \in Nat
ASSUME ValueAssumption ==
  /\ {Contents, Requests} \subseteq SUBSET Seq(Byte)
  /\ Wanted \subseteq Nat /\ Dests \subseteq Nat /\ SeekClosed \in BOOLEAN

Chan == Ins \cup Outs
None == [no |-> "channel"]
NoFd == -1

ASSUME NoneAssumption == None \notin Chan

VARIABLES
  status,        \* "new", "live", or "freed" by the finaliser
  fd, offset, curr, max, buff,        \* struct channel
  table,         \* the operating system: whose file a descriptor refers to
  file, at,      \* the operating system: the files, and the positions in those for input
  call,          \* the call under way
  reply,         \* auxiliary: how the last call has ended
  said,          \* auxiliary: what the program has output, but for what calls that raised left
  place,         \* auxiliary: where in its input the program believes to be
  heard          \* auxiliary: what the last call on a channel has returned

channel == <<status, fd, offset, curr, max, buff>>
kernel  == <<table, file, at>>
aux     == <<said, place, heard>>
vars    == <<channel, kernel, call, reply, aux>>

Idle == [op |-> "idle", chan |-> None, rest |-> <<>>, need |-> 0, n |-> 0, p |-> 0]

NoReply == [how |-> "none", n |-> 0, chan |-> None]

PutOps   == {"putch", "putblock"}
FlushOps == {"flush", "close", "finalize", "seek_out"}
WriteOps == PutOps \cup FlushOps \cup {"flush_partial"}
ReadOps  == {"getch", "input", "getblock", "scan_line"}

Init ==
  /\ status = [c \in Chan |-> "new"]
  /\ fd = [c \in Chan |-> NoFd]
  /\ offset = [c \in Chan |-> 0] /\ curr = [c \in Chan |-> 0] /\ max = [c \in Chan |-> 0]
  /\ buff = [c \in Chan |-> [i \in 1 .. Size |-> Junk]]
  /\ table = [d \in Fds |-> None]
  /\ file \in [Chan -> Contents]
  /\ at = [c \in Ins |-> 0]
  /\ call = Idle /\ reply = NoReply
  /\ said = [c \in Outs |-> file[c]]
  /\ place = [c \in Ins |-> 0]
  /\ heard = [c \in Ins |-> <<>>]

-----------------------------------------------------------------------------
(* Buffers                                                                  *)

\* memmove(buff + from, s, Len(s))
Put(b, from, s) ==
  [i \in 1 .. Size |-> IF from < i /\ i <= from + Len(s) THEN s[i - from] ELSE b[i]]

\* memmove(buff, buff + k, m - k)
Shift(b, k, m) == [i \in 1 .. Size |-> IF i <= m - k THEN b[i + k] ELSE b[i]]

C == call.chan
Lesser(m, n) == IF m <= n THEN m ELSE n
Drop(s, k)   == SubSeq(s, k + 1, Len(s))

\* the file that the kernel finds under a descriptor
Refers(d) == d \in Fds /\ table[d] # None

ReturnLength(how, n) == call' = Idle /\ reply' = [how |-> how, n |-> n, chan |-> C]
Return(how) == ReturnLength(how, 0)
Go(next)    == call' = next /\ UNCHANGED reply

-----------------------------------------------------------------------------
(* Opening and closing                                                      *)

\* prim_open with a free descriptor (it raises if there is none), and
\* prim_open_descriptor
Open(c) ==
  /\ call = Idle /\ status[c] = "new"
  /\ \E d \in Fds :
       /\ table[d] = None
       /\ table' = [table EXCEPT ![d] = c]
       /\ fd' = [fd EXCEPT ![c] = d]
  /\ status' = [status EXCEPT ![c] = "live"]
  /\ Return("ok")
  /\ UNCHANGED <<offset, curr, max, buff, file, at, aux>>

\* close(channel->fd): an error is ignored
CloseFd(c) == table' = [d \in Fds |-> IF d = fd[c] THEN None ELSE table[d]]

\* mutant: the channel keeps the number of its descriptor
KeepFd(c) ==
  /\ CloseFd(c)
  /\ curr' = [curr EXCEPT ![c] = Size] /\ max' = [max EXCEPT ![c] = Size]
  /\ UNCHANGED <<status, fd, offset, buff, file, at, aux>>

\* the end of prim_close_channel
Shut(c) ==
  /\ CloseFd(c)
  /\ fd' = [fd EXCEPT ![c] = NoFd]
  /\ curr' = [curr EXCEPT ![c] = Size] /\ max' = [max EXCEPT ![c] = Size]
  /\ UNCHANGED <<status, offset, buff, file, at, aux>>

\* the end of finalize_channel, stat_free
FreeChannel(c) ==
  /\ CloseFd(c)
  /\ status' = [status EXCEPT ![c] = "freed"]
  /\ fd' = [fd EXCEPT ![c] = NoFd]
  /\ UNCHANGED <<offset, curr, max, buff, file, at, aux>>

Start(op, c, rest, need, p) ==
  /\ call = Idle /\ status[c] = "live"
  /\ call' = [op |-> op, chan |-> c, rest |-> rest, need |-> need, n |-> 0, p |-> p]
  /\ reply' = NoReply

\* mutant: the channel is closed as it is
CloseNoFlush(c) ==
  /\ call = Idle /\ status[c] = "live"
  /\ Shut(c) /\ Return("ok")

prim_close_channel(c) ==
  \/ /\ fd[c] # NoFd /\ c \in Outs
     /\ Start("close", c, <<>>, 0, 0) /\ UNCHANGED <<channel, kernel, aux>>
  \/ /\ fd[c] = NoFd \/ c \in Ins
     /\ call = Idle /\ status[c] = "live"
     /\ Shut(c) /\ Return("ok")

\* The collector sweeps the block.  When the flush raises, the block is still there
\* and is finalised again in the next cycle.
finalize_channel(c) ==
  \/ /\ fd[c] # NoFd /\ c \in Outs
     /\ Start("finalize", c, <<>>, 0, 0) /\ UNCHANGED <<channel, kernel, aux>>
  \/ /\ fd[c] = NoFd \/ c \in Ins
     /\ call = Idle /\ status[c] = "live"
     /\ FreeChannel(c) /\ Return("ok")

-----------------------------------------------------------------------------
(* Output                                                                   *)

\* A call that outputs s: prim_output_char, putword, prim_output.
Output(op, c, s) ==
  /\ Len(said[c]) + Len(s) <= MaxSaid
  /\ Start(op, c, s, 0, 0)
  /\ said' = [said EXCEPT ![c] = @ \o s]
  /\ UNCHANGED <<channel, kernel, place, heard>>

prim_output_char(c) == \E b \in Byte : Output("putch", c, <<b>>)
putword(c)          == \E s \in [1 .. Word -> Byte] : Output("putch", c, s)
prim_output(c)      == \E s \in Requests : Output("putblock", c, s)

Quiet(op, c, p) == Start(op, c, <<>>, 0, p) /\ UNCHANGED <<channel, kernel, aux>>

\* These two say nothing of a closed channel.
prim_flush(c)         == fd[c] # NoFd /\ Quiet("flush", c, 0)
prim_flush_partial(c) == fd[c] # NoFd /\ Quiet("flush_partial", c, 0)

seek_out(c) == \E dest \in Dests : Quiet("seek_out", c, dest)

\* the call goes on with do_write of n bytes
Attempt(n) == Go([call EXCEPT !.n = n])

\* the rest of putch, when there is room: ch is stored
Stored(b, from) == Put(b, from, <<Head(call.rest)>>)
AfterStore ==
  IF Len(call.rest) = 1 THEN Return("ok")
  ELSE Go([call EXCEPT !.rest = Tail(@), !.n = 0])

PutChar ==
  /\ call.op = "putch" /\ call.n = 0
  /\ \/ /\ curr[C] < Size
        /\ buff' = [buff EXCEPT ![C] = Stored(@, curr[C])]
        /\ curr' = [curr EXCEPT ![C] = @ + 1]
        /\ AfterStore
     \/ /\ curr[C] >= Size
        /\ Attempt(curr[C]) /\ UNCHANGED <<buff, curr>>
  /\ UNCHANGED <<status, fd, offset, max, kernel, aux>>

\* a turn of the loop in prim_output, up to the system call
PutBlock ==
  /\ call.op = "putblock" /\ call.n = 0
  /\ LET free == Size - curr[C]
     IN \/ /\ Len(call.rest) <= free
           /\ buff' = [buff EXCEPT ![C] = Put(@, curr[C], call.rest)]
           /\ curr' = [curr EXCEPT ![C] = @ + Len(call.rest)]
           /\ Return("ok")
        \/ /\ Len(call.rest) > free
           /\ buff' = [buff EXCEPT ![C] = Put(@, curr[C], SubSeq(call.rest, 1, free))]
           /\ Attempt(Size) /\ UNCHANGED curr
  /\ UNCHANGED <<status, fd, offset, max, kernel, aux>>

\* a turn of the loop in flush: something is left to write
Flush ==
  /\ call.op \in FlushOps \cup {"flush_partial"} /\ call.n = 0
  /\ curr[C] > 0
  /\ Attempt(curr[C])
  /\ UNCHANGED <<channel, kernel, aux>>

\* the buffer is empty, and the call does the rest of what it has to do
Flushed ==
  /\ call.op \in FlushOps \cup {"flush_partial"} /\ call.n = 0
  /\ curr[C] = 0
  /\ \/ call.op \in {"flush", "flush_partial"} /\ UNCHANGED <<channel, kernel, aux>> /\ Return("ok")
     \/ call.op = "close" /\ Shut(C) /\ Return("ok")
     \/ call.op = "finalize" /\ FreeChannel(C) /\ Return("ok")
     \/ /\ call.op = "seek_out" /\ Refers(fd[C])
        /\ offset' = [offset EXCEPT ![C] = call.p]
        /\ UNCHANGED <<status, fd, curr, max, buff, kernel, aux>> /\ Return("ok")
     \/ /\ call.op = "seek_out"
        /\ UNCHANGED <<channel, kernel, aux>> /\ Return("error")

\* k bytes have been written.
ToFile(k) ==
  /\ Refers(fd[C])
  /\ file' = [file EXCEPT ![table[fd[C]]] = @ \o SubSeq(buff[C], 1, k)]
  /\ offset' = [offset EXCEPT ![C] = @ + k]
  /\ UNCHANGED <<status, fd, table, at, aux>>

\* flush_partial, and what follows it in its callers
Written ==
  /\ call.op \in WriteOps \ {"putblock"} /\ call.n > 0
  /\ \E k \in 1 .. call.n :
       LET kept == Shift(buff[C], k, curr[C])
       IN /\ ToFile(k)
          /\ IF call.op = "putch"
             THEN /\ buff' = [buff EXCEPT ![C] = Stored(kept, curr[C] - k)]
                  /\ curr' = [curr EXCEPT ![C] = @ - k + 1]
                  /\ AfterStore
             ELSE /\ buff' = [buff EXCEPT ![C] = kept]
                  /\ curr' = [curr EXCEPT ![C] = @ - k]
                  /\ IF call.op = "flush_partial" THEN Return("ok") ELSE Attempt(0)
          /\ UNCHANGED max

\* mutant: of the request, only what was written is done with
BlockWrittenRest ==
  /\ call.op = "putblock" /\ call.n > 0
  /\ \E k \in 1 .. call.n :
       /\ ToFile(k)
       /\ buff' = [buff EXCEPT ![C] = Shift(@, k, Size)]
       /\ curr' = [curr EXCEPT ![C] = Size - k]
       /\ max'  = [max EXCEPT ![C] = Size - k]
       /\ Go([call EXCEPT !.rest = Drop(@, k), !.n = 0])

\* putblock has written from a full buffer.  What it had put there is done with.
BlockWritten ==
  /\ call.op = "putblock" /\ call.n > 0
  /\ \E k \in 1 .. call.n :
       /\ ToFile(k)
       /\ buff' = [buff EXCEPT ![C] = Shift(@, k, Size)]
       /\ curr' = [curr EXCEPT ![C] = Size - k]
       /\ max'  = [max EXCEPT ![C] = Size - k]
       /\ Go([call EXCEPT !.rest = Drop(@, Size - curr[C]), !.n = 0])

\* do_write: EAGAIN
WouldBlock ==
  /\ call.op \in WriteOps /\ call.n > 1 /\ Refers(fd[C])
  /\ Attempt(1)
  /\ UNCHANGED <<channel, kernel, aux>>

\* sys_error raises an exception.  What the call had not output is not going to be.
WriteFails ==
  /\ call.op \in WriteOps /\ call.n > 0
  /\ Return("error")
  /\ said' = [said EXCEPT ![C] = SubSeq(@, 1, Len(@) - Len(call.rest))]
  /\ UNCHANGED <<channel, kernel, place, heard>>

-----------------------------------------------------------------------------
(* Input                                                                    *)

Input(op, c, need) ==
  /\ Start(op, c, <<>>, need, curr[c])
  /\ heard' = [heard EXCEPT ![c] = <<>>]
  /\ UNCHANGED <<channel, kernel, said, place>>

prim_input_char(c)   == Input("getch", c, 1)
getword(c)           == Input("getch", c, Word)
caml_input(c)        == \E n \in Wanted : Input("input", c, n)
really_getblock(c)   == \E n \in Wanted \ {0} : Input("getblock", c, n)
input_scan_line(c)   == Input("scan_line", c, 0)

\* the program is given s
Hear(s) ==
  /\ heard' = [heard EXCEPT ![C] = @ \o s]
  /\ place' = [place EXCEPT ![C] = @ + Len(s)]
  /\ UNCHANGED said

\* the call goes on until it has what it needs
AfterGet(k) ==
  IF call.need = k THEN Return("ok") ELSE Go([call EXCEPT !.need = @ - k, !.n = 0])

GetChar ==
  /\ call.op = "getch" /\ call.n = 0
  /\ \/ /\ curr[C] < max[C]
        /\ curr' = [curr EXCEPT ![C] = @ + 1]
        /\ Hear(<<buff[C][curr[C] + 1]>>)
        /\ AfterGet(1)
     \/ /\ curr[C] >= max[C]
        /\ Attempt(Size) /\ UNCHANGED <<curr, aux>>
  /\ UNCHANGED <<status, fd, offset, max, buff, kernel>>

\* getblock, as far as the buffer serves
GetBlock ==
  /\ call.op \in {"input", "getblock"} /\ call.n = 0
  /\ LET avail == max[C] - curr[C]
         taken == Lesser(call.need, avail)
     IN \/ /\ call.need <= avail \/ avail > 0
           /\ curr' = [curr EXCEPT ![C] = @ + taken]
           /\ Hear(SubSeq(buff[C], curr[C] + 1, curr[C] + taken))
           /\ IF call.op = "input" THEN Return("ok") ELSE AfterGet(taken)
        \/ /\ call.need > avail /\ avail <= 0
           /\ Attempt(Size) /\ UNCHANGED <<curr, aux>>
  /\ UNCHANGED <<status, fd, offset, max, buff, kernel>>

\* mutant: what is not read yet stays where it is, and is read over
ScanNoShift ==
  /\ call.op = "scan_line" /\ call.n = 0
  /\ \/ /\ call.p >= max[C]
        /\ max' = [max EXCEPT ![C] = @ - curr[C]]
        /\ curr' = [curr EXCEPT ![C] = 0]
        /\ IF max'[C] >= Size THEN ReturnLength("noline", max'[C])
           ELSE Go([call EXCEPT !.p = @ - curr[C], !.n = Size - max'[C]])
     \/ /\ call.p < max[C]
        /\ IF buff[C][call.p + 1] = Newline THEN ReturnLength("line", call.p + 1 - curr[C]) ELSE Go([call EXCEPT !.p = @ + 1])
        /\ UNCHANGED <<curr, max>>
  /\ UNCHANGED <<status, fd, offset, buff, kernel, aux>>

\* a turn of the loop in input_scan_line
ScanLine ==
  /\ call.op = "scan_line" /\ call.n = 0
  /\ \/ /\ call.p >= max[C]
        /\ buff' = [buff EXCEPT ![C] = Shift(@, curr[C], max[C])]
        /\ max' = [max EXCEPT ![C] = @ - curr[C]]
        /\ curr' = [curr EXCEPT ![C] = 0]
        /\ IF max'[C] >= Size THEN ReturnLength("noline", max'[C])
           ELSE Go([call EXCEPT !.p = @ - curr[C], !.n = Size - max'[C]])
     \/ /\ call.p < max[C]
        /\ IF buff[C][call.p + 1] = Newline THEN ReturnLength("line", call.p + 1 - curr[C]) ELSE Go([call EXCEPT !.p = @ + 1])
        /\ UNCHANGED <<buff, curr, max>>
  /\ UNCHANGED <<status, fd, offset, kernel, aux>>

\* The bytes that read() may put into memory: some, unless the file is at its end.
Served(n) ==
  LET f     == file[table[fd[C]]]
      from  == at[table[fd[C]]]
      there == Lesser(n, Len(f) - from)
  IN IF there <= 0 THEN {<<>>} ELSE {SubSeq(f, from + 1, from + k) : k \in 1 .. there}

\* do_read has put s behind the first "from" bytes of the buffer.
FromFile(s, from) ==
  /\ at' = [at EXCEPT ![table[fd[C]]] = @ + Len(s)]
  /\ offset' = [offset EXCEPT ![C] = @ + Len(s)]
  /\ buff' = [buff EXCEPT ![C] = Put(@, from, s)]
  /\ max' = [max EXCEPT ![C] = from + Len(s)]
  /\ UNCHANGED <<status, fd, table, file>>

Reading == call.op \in ReadOps /\ call.n > 0 /\ Refers(fd[C])

\* refill, raise_eof_exn
EndOfFile ==
  /\ Reading /\ call.op = "getch" /\ <<>> \in Served(call.n)
  /\ Return("eof")
  /\ UNCHANGED <<channel, kernel, aux>>

Refill ==
  /\ Reading /\ call.op = "getch"
  /\ \E s \in Served(call.n) \ {<<>>} :
       /\ FromFile(s, 0)
       /\ curr' = [curr EXCEPT ![C] = 1]
       /\ Hear(<<s[1]>>)
       /\ AfterGet(1)

ReadBlock ==
  /\ Reading /\ call.op \in {"input", "getblock"}
  /\ \E s \in Served(call.n) :
       LET taken == Lesser(call.need, Len(s))
       IN /\ FromFile(s, 0)
          /\ curr' = [curr EXCEPT ![C] = taken]
          /\ Hear(SubSeq(s, 1, taken))
          /\ IF call.op = "input" \/ taken = 0 THEN Return("ok") ELSE AfterGet(taken)

ReadMore ==
  /\ Reading /\ call.op = "scan_line"
  /\ \E s \in Served(call.n) :
       /\ FromFile(s, max[C])
       /\ IF s = <<>> THEN ReturnLength("noline", max[C] - curr[C]) ELSE Attempt(0)
  /\ UNCHANGED <<curr, aux>>

ReadFails ==
  /\ call.op \in ReadOps /\ call.n > 0
  /\ Return("error")
  /\ UNCHANGED <<channel, kernel, aux>>

\* mutant: what is in the buffer is not given up
SeekKeepBuffer(c) ==
  /\ call = Idle /\ status[c] = "live" /\ Refers(fd[c])
  /\ \E dest \in Dests :
       /\ at' = [at EXCEPT ![table[fd[c]]] = dest]
       /\ offset' = [offset EXCEPT ![c] = dest]
       /\ place' = [place EXCEPT ![c] = dest]
  /\ Return("ok")
  /\ heard' = [heard EXCEPT ![c] = <<>>]
  /\ UNCHANGED <<status, fd, curr, max, buff, table, file, said>>

\* caml_seek_in: lseek may fail
seek_in(c) ==
  /\ call = Idle /\ status[c] = "live" /\ (fd[c] # NoFd \/ SeekClosed)
  /\ \E dest \in Dests :
       \/ /\ dest >= offset[c] - max[c] /\ dest <= offset[c]
          /\ curr' = [curr EXCEPT ![c] = max[c] - (offset[c] - dest)]
          /\ place' = [place EXCEPT ![c] = dest]
          /\ UNCHANGED <<offset, max, at>>
       \/ /\ dest < offset[c] - max[c] \/ dest > offset[c]
          /\ Refers(fd[c])
          /\ at' = [at EXCEPT ![table[fd[c]]] = dest]
          /\ offset' = [offset EXCEPT ![c] = dest]
          /\ curr' = [curr EXCEPT ![c] = 0] /\ max' = [max EXCEPT ![c] = 0]
          /\ place' = [place EXCEPT ![c] = dest]
  /\ Return("ok")
  /\ heard' = [heard EXCEPT ![c] = <<>>]
  /\ UNCHANGED <<status, fd, buff, table, file, said>>

\* lseek to the end and back to the place where it is believed to be
channel_size(c) ==
  /\ call = Idle /\ status[c] = "live" /\ Refers(fd[c])
  /\ at' = [at EXCEPT ![table[fd[c]]] = offset[c]]
  /\ Return("ok")
  /\ UNCHANGED <<channel, table, file, aux>>

-----------------------------------------------------------------------------
CallOn(c) ==
  \/ Open(c) \/ prim_close_channel(c) \/ finalize_channel(c)
  \/ /\ c \in Outs
     /\ \/ prim_output_char(c) \/ putword(c) \/ prim_output(c)
        \/ prim_flush(c) \/ prim_flush_partial(c) \/ seek_out(c)
  \/ /\ c \in Ins
     /\ \/ prim_input_char(c) \/ getword(c) \/ caml_input(c) \/ really_getblock(c)
        \/ input_scan_line(c) \/ seek_in(c) \/ channel_size(c)

Write == PutChar \/ PutBlock \/ Flush \/ Flushed \/ Written \/ BlockWritten \/ WouldBlock
         \/ WriteFails
Read  == GetChar \/ GetBlock \/ ScanLine \/ EndOfFile \/ Refill \/ ReadBlock \/ ReadMore \/ ReadFails

Next == Write \/ Read \/ \E c \in Chan : CallOn(c)

Spec == Init /\ [][Next]_vars

-----------------------------------------------------------------------------
(* Properties                                                               *)

Calls ==
  [op: {"idle"} \cup WriteOps \cup ReadOps, chan: Chan \cup {None}, rest: Seq(Byte),
   need: Nat, n: 0 .. Size, p: Nat]

\* The pointers of struct channel stay inside its buffer (primio.h 34-50), in any
\* order of calls, partial writes and short reads, and a call has a channel of its kind.
TypeOK ==
  /\ status \in [Chan -> {"new", "live", "freed"}]
  /\ fd \in [Chan -> Fds \cup {NoFd}]
  /\ offset \in [Chan -> Nat]
  /\ curr \in [Chan -> 0 .. Size] /\ max \in [Chan -> 0 .. Size]
  /\ buff \in [Chan -> [1 .. Size -> Byte \cup {Junk}]]
  /\ table \in [Fds -> Chan \cup {None}]
  /\ file \in [Chan -> Seq(Byte)] /\ at \in [Ins -> Nat]
  /\ call \in Calls
  /\ call.op \in WriteOps => C \in Outs
  /\ call.op \in ReadOps => C \in Ins
  /\ said \in [Outs -> Seq(Byte)]
  /\ place \in [Ins -> Nat] /\ heard \in [Ins -> Seq(Byte)]

\* A descriptor that the operating system hands out again is never used, nor
\* closed, for the channel that had it before; and none is left open by a channel
\* that is closed or freed (primio.c 385-396, 440-457).
OwnDescriptor ==
  /\ \A c \in Chan : fd[c] # NoFd => table[fd[c]] = c
  /\ \A d \in Fds : table[d] # None => fd[table[d]] = d /\ status[table[d]] = "live"

Pending(c) == SubSeq(buff[c], 1, curr[c])
Asked(c)   == IF C = c THEN call.rest ELSE <<>>

\* What the program outputs is in the file, in the buffer, or still to be put there
\* by the call under way, once and in its order -- after partial writes, writes of a
\* single byte, and calls that raised half way (primio.c 125-215, 529-544).
OutputAccounted ==
  \A c \in Outs :
    /\ fd[c] # NoFd => said[c] = file[c] \o Pending(c) \o Asked(c)
    /\ fd[c] = NoFd => said[c] = file[c] \o Asked(c)

Abstract == INSTANCE Stream WITH
  accepted  <- [c \in Outs |-> SubSeq(said[c], 1, Len(said[c]) - Len(Asked(c)))],
  delivered <- [c \in Outs |-> file[c]],
  closed    <- [c \in Outs |-> status[c] # "new" /\ fd[c] = NoFd]

\* The output channels are the streams that the library relies on: with flush before
\* close and flush on finalize nothing that was output is lost with a channel.
IsStream == Abstract!Spec

\* The position of the program is the one that the channel computes (pos_in), and
\* that of the descriptor is the end of the buffer (the comment of struct channel).
PositionKnown(c) == place[c] = offset[c] - (max[c] - curr[c]) /\ offset[c] = at[c]

\* Whatever the reads, seeks and scans before it, a call returns the bytes of the file
\* at the position of the program (primio.c 241-380, 585-615).
ReadsFile ==
  \A c \in Ins :
    /\ fd[c] # NoFd => PositionKnown(c)
    /\ heard[c] = SubSeq(file[c], place[c] - Len(heard[c]) + 1, place[c])

\* Only at the end of the file is its end reported; a line is what it should be: up
\* to the first newline, or all that there is, or all that a buffer can hold
\* (primio.c 261-271, 341-380).
RepliesTrue ==
  LET c       == reply.chan
      line(i) == place[c] + i <= Len(file[c]) /\ file[c][place[c] + i] = Newline
  IN /\ reply.how = "eof" => place[c] >= Len(file[c])
     /\ reply.how = "line" => line(reply.n) /\ \A i \in 1 .. reply.n - 1 : ~line(i)
     /\ reply.how = "noline" =>
          /\ \A i \in 1 .. reply.n : ~line(i)
          /\ reply.n = Size \/ place[c] + reply.n >= Len(file[c])

\* What a call returns is what the file has there.
InputTrue == ReadsFile /\ RepliesTrue

\* The comment in prim_close_channel (primio.c 452-454): after close, every read
\* raises an exception.  (caml_seek_in moves the pointers back.)
ClosedRaises ==
  [][\A c \in Ins : status[c] = "live" /\ fd[c] = NoFd => heard'[c] \in {<<>>, heard[c]}]_vars

\* The comment of struct channel (primio.h 46-47): for an output channel, offset is the
\* absolute position of the beginning of the buffer.
OffsetIsPosition == \A c \in Outs : fd[c] # NoFd => offset[c] = Len(file[c])
=============================================================================
