----------------------------- MODULE BinaryFile -----------------------------
(***************************************************************************)
(* One open file object (binary.py): the position it keeps for a file that *)
(* is read and written by position, the bytes it has read ahead, and its   *)
(* choice between the page-cache fast path, single driver ops and the      *)
(* parallel read of a large rest.                                          *)
(*                                                                         *)
(* Calls follow each other, each of them cut where it awaits: another      *)
(* process appends to the file between any two system calls, and every     *)
(* await may raise, with an error or because the task was cancelled, with  *)
(* the op done, half done or not done (KernelFuture: it is over in any     *)
(* case).  A byte is named by its place in the file, and by whether this   *)
(* object wrote it, so that a byte from the wrong place shows.             *)
(***************************************************************************)
EXTENDS FastPath

CONSTANTS
  CHUNK,        \* bytes asked for when reading ahead
  LARGE_READ,   \* the rest from which read() fills in parallel
  Args,         \* the sizes callers pass
  Newlines,     \* the bytes that end a line
  InitSize,     \* the file's size when it was opened
  MaxChanges    \* bound: writes and truncates

ASSUME ChunkAssumption == CHUNK \in Nat \ {0}
ASSUME LargeAssumption == LARGE_READ \in Nat \ {0}
ASSUME ArgsAssumption == Args \subseteq Nat /\ InitSize \in 0..MaxSize
ASSUME ChangesAssumption == MaxChanges \in Nat

VARIABLES
  append,     \* info.append
  pos, pending, size_hint,
  fast,       \* self.fast is not None
  is_open,
  call,       \* the call in progress, and afterwards what it came to
  changes     \* writes and truncates so far

placeVars == <<pos, pending, size_hint>>
fileVars == <<platform, able, content, cached, view, owned>>
restVars == <<append, fast, is_open, changes>>
vars == <<fpVars, placeVars, restVars, call>>

\* A call: its name and argument; its stage; the position and the file's size
\* when it began and the size when it last read the file; the place its result
\* is from; where it reads or writes next, how much, and what it has; what it
\* returns, or that it raises.  An append keeps where its bytes went, for the
\* properties only.
NoCall ==
  [fn |-> "none", n |-> 0, at |-> "idle", p0 |-> 0, size0 |-> 0, seen |-> 0,
   base |-> 0, start |-> 0, want |-> 0, acc |-> <<>>, size_now |-> 0, data |-> <<>>, raised |-> FALSE]

Called(fn, n) == [NoCall EXCEPT !.fn = fn, !.n = n, !.p0 = pos, !.base = pos, !.size0 = Size]

Init ==
  /\ InitFp
  /\ content = [i \in 1..InitSize |-> i]
  /\ cached \in SUBSET {p \in 0..InitSize : p % Page = 0 /\ p < InitSize}
  /\ append \in BOOLEAN
  /\ pos = (IF append THEN InitSize ELSE 0)
  /\ pending = <<>>
  /\ size_hint = InitSize
  /\ fast = TRUE
  /\ is_open = TRUE
  /\ call = NoCall
  /\ changes = 0

Ready == is_open /\ call.at = "idle"

Drop(s, n) == SubSeq(s, n + 1, Len(s))
MaxOf(a, b) == IF a < b THEN b ELSE a

\* The call is over: it returns data, or raises.
Ends(c, data, raised) ==
  call' = [NoCall EXCEPT !.fn = c.fn, !.n = c.n, !.at = "done", !.p0 = c.p0,
                         !.base = c.base, !.size0 = c.size0, !.seen = c.seen, !.data = data, !.raised = raised]

\* read_resident or readinto_resident at c.start, else the op.
TryFast(c) ==
  IF fast
    THEN call' = [c EXCEPT !.at = "fast"] /\ fp' = CallRead(c.start, c.want)
    ELSE call' = [c EXCEPT !.at = "op"] /\ fp' = Idle

AwaitOp(c) == call' = [c EXCEPT !.at = "op"] /\ fp' = Idle

-----------------------------------------------------------------------------
(* The calls, up to their first await or system call.                      *)

FromPending(fn, n, k) ==
  /\ Ends(Called(fn, n), SubSeq(pending, 1, k), FALSE)
  /\ pending' = Drop(pending, k)
  /\ pos' = pos + k
  /\ UNCHANGED <<size_hint, fp>>

\* Slip: the rest is read from the position, where the read-ahead begins.
RestAtPos == pos

RestStart == pos + Len(pending)

\* read(size): the read-ahead goes in front of what is still missing.
Read(n) ==
  /\ Ready
  /\ \/ Len(pending) >= n /\ FromPending("read", n, n)
     \/ /\ Len(pending) < n
        /\ pending' = <<>>
        /\ TryFast([Called("read", n) EXCEPT !.start = RestStart, !.acc = pending,
                                             !.want = n - Len(pending)])
        /\ UNCHANGED <<pos, size_hint>>
  /\ UNCHANGED <<fileVars, restVars>>

\* read(): a large rest by read_to_eof_parallel, which begins with the size.
ReadAll ==
  /\ Ready
  /\ LET c == [Called("read_all", 0) EXCEPT !.start = RestStart, !.want = MaxSize]
     IN  \/ /\ size_hint >= RestStart + LARGE_READ /\ fast
            /\ call' = [c EXCEPT !.at = "size"] /\ fp' = CallSize
         \/ /\ size_hint >= RestStart + LARGE_READ /\ ~fast
            /\ call' = [c EXCEPT !.at = "sizeOp"] /\ UNCHANGED fp
         \/ /\ size_hint < RestStart + LARGE_READ /\ fast
            /\ call' = [c EXCEPT !.at = "fast"] /\ fp' = CallReadAll(c.start)
         \/ /\ size_hint < RestStart + LARGE_READ /\ ~fast
            /\ AwaitOp(c)
  /\ UNCHANGED <<fileVars, placeVars, restVars>>

\* read1(size): the read-ahead if there is any, else one read.
Read1(n) ==
  /\ Ready
  /\ \/ pending # <<>> /\ FromPending("read1", n, Min({n, Len(pending)}))
     \/ /\ pending = <<>>
        /\ TryFast([Called("read1", n) EXCEPT !.start = pos, !.want = n])
        /\ UNCHANGED placeVars
  /\ UNCHANGED <<fileVars, restVars>>

\* read_at and readinto_at: one read by position that moves nothing.  They do
\* not look whether the file is open: on a closed one the driver refuses the
\* handle, unless the close failed and left it there.
ReadAt(p, n) ==
  /\ call.at = "idle"
  /\ TryFast([Called("read_at", n) EXCEPT !.base = p, !.start = p, !.want = n])
  /\ UNCHANGED <<fileVars, placeVars, restVars>>

\* read_bytes on the path of this file: served inline on Linux if it can be,
\* else the driver's whole-file read (KernelFuture has what follows for a
\* large one).
ReadBytes ==
  /\ Ready
  /\ LET c == [Called("read_bytes", 0) EXCEPT !.base = 0, !.want = MaxSize]
     IN  IF platform = "linux"
           THEN call' = [c EXCEPT !.at = "fast"] /\ fp' = CallReadFile
           ELSE AwaitOp(c)
  /\ UNCHANGED <<fileVars, placeVars, restVars>>

Peek ==
  /\ Ready
  /\ \/ /\ pending # <<>>
        /\ Ends(Called("peek", 0), pending, FALSE)
        /\ UNCHANGED fp
     \/ /\ pending = <<>>
        /\ TryFast([Called("peek", 0) EXCEPT !.start = pos, !.want = CHUNK])
  /\ UNCHANGED <<fileVars, placeVars, restVars>>

HasNewline(s) == \E i \in DOMAIN s : s[i] \in Newlines

\* How much of what was read ahead the line takes.
LineEnd(buf, limit) ==
  Min({limit, Len(buf)} \cup {i \in DOMAIN buf : buf[i] \in Newlines})

\* A limit of Unlimited is readline() without one.
Unlimited == MaxSize + 1

TakeLine(c, buf) ==
  LET end == LineEnd(buf, c.n)
  IN  /\ Ends(c, SubSeq(buf, 1, end), FALSE)
      /\ pending' = Drop(buf, end)
      /\ pos' = pos + end
      /\ fp' = Idle
      /\ UNCHANGED size_hint

\* readline(limit): read ahead until there is a line, the limit or the end.
Readline(n) ==
  /\ Ready
  /\ LET c == [Called("readline", n) EXCEPT !.start = RestStart, !.want = CHUNK, !.acc = pending]
     IN  \/ (HasNewline(pending) \/ Len(pending) >= n) /\ TakeLine(c, pending)
         \/ /\ ~HasNewline(pending) /\ Len(pending) < n
            /\ TryFast(c)
            /\ UNCHANGED placeVars
  /\ UNCHANGED <<fileVars, restVars>>

\* readinto(buffer of n bytes): the read-ahead is consumed before the await.
Readinto(n) ==
  /\ Ready
  /\ \/ pending # <<>> /\ Len(pending) >= n /\ FromPending("readinto", n, n)
     \/ /\ pending = <<>> \/ Len(pending) < n
        /\ pending' = <<>>
        /\ pos' = RestStart
        /\ TryFast([Called("readinto", n) EXCEPT !.start = RestStart, !.acc = pending,
                                                 !.want = n - Len(pending)])
        /\ UNCHANGED size_hint
  /\ UNCHANGED <<fileVars, restVars>>

Changing == changes < MaxChanges /\ changes' = changes + 1

\* Slip: a write keeps the read-ahead.
WriteKeepsPending(n) ==
  /\ Ready /\ Changing
  /\ AwaitOp([Called("write", n) EXCEPT !.start = pos, !.want = n])
  /\ UNCHANGED <<fileVars, placeVars, append, fast, is_open>>

Write(n) ==
  /\ Ready /\ Changing
  /\ pending' = <<>>
  /\ AwaitOp([Called("write", n) EXCEPT !.start = pos, !.want = n])
  /\ UNCHANGED <<fileVars, pos, size_hint, append, fast, is_open>>

Truncate(n) ==
  /\ Ready /\ Changing
  /\ pending' = <<>>
  /\ AwaitOp(Called("truncate", n))
  /\ UNCHANGED <<fileVars, pos, size_hint, append, fast, is_open>>

\* seek(pos) and seek(offset, 1), to a target that is not negative.
Seek(n) ==
  /\ Ready
  /\ pending' = <<>>
  /\ pos' = n
  /\ Ends(Called("seek", n), <<>>, FALSE)
  /\ UNCHANGED <<fileVars, fp, size_hint, restVars>>

\* seek(-n, 2): the target is known once the size is.
SeekEnd(n) ==
  /\ Ready
  /\ AwaitOp(Called("seekEnd", n))
  /\ UNCHANGED <<fileVars, placeVars, restVars>>

Close ==
  /\ Ready
  /\ is_open' = FALSE
  /\ pending' = <<>>
  /\ fast' = FALSE
  /\ AwaitOp(Called("close", 0))
  /\ UNCHANGED <<fileVars, pos, size_hint, append, changes>>

-----------------------------------------------------------------------------
(* Going on with data, from the fast path or from the op.                  *)

Returned(c, data, newPos) ==
  /\ Ends(c, data, FALSE)
  /\ pos' = newPos
  /\ fp' = Idle

AllRead(c, rest, newPos) ==
  /\ Returned(c, pending \o rest, newPos)
  /\ pending' = <<>>
  /\ size_hint' = MaxOf(size_hint, newPos)

Resume(c, data) ==
  \/ /\ c.fn = "read"
     /\ Returned(c, c.acc \o data, pos + Len(c.acc \o data))
     /\ UNCHANGED <<pending, size_hint>>
  \/ /\ c.fn \in {"read1", "readinto"}
     /\ Returned(c, c.acc \o data, pos + Len(data))
     /\ UNCHANGED <<pending, size_hint>>
  \/ /\ c.fn \in {"read_at", "read_bytes"}
     /\ Returned(c, data, pos)
     /\ UNCHANGED <<pending, size_hint>>
  \/ /\ c.fn = "read_all"
     /\ AllRead(c, data, pos + Len(pending \o data))
  \/ /\ c.fn = "peek"
     /\ pending' = data
     /\ Returned(c, data, pos)
     /\ UNCHANGED size_hint
  \/ /\ c.fn = "readline"
     /\ LET buf == c.acc \o data
        IN  \/ /\ data = <<>> \/ HasNewline(data) \/ Len(buf) >= c.n
               /\ TakeLine(c, buf)
            \/ /\ data # <<>> /\ ~HasNewline(data) /\ Len(buf) < c.n
               /\ TryFast([c EXCEPT !.acc = buf, !.start = pos + Len(buf)])
               /\ UNCHANGED placeVars

\* A system call of the fast path.
FastStep ==
  /\ FpStep
  /\ call' = [call EXCEPT !.seen = IF fp.fn # "size" /\ fp.at \in {"size", "copy"} THEN Size ELSE @]
  /\ UNCHANGED <<placeVars, restVars>>

FastServed ==
  /\ call.at = "fast" /\ fp.at = "back" /\ fp.out.some
  /\ Resume(call, fp.out.data)
  /\ UNCHANGED <<fileVars, restVars>>

\* fast_declined: the fast path is dropped if it can never apply.  (read_bytes
\* has no file object to drop it from.)
FastDeclined ==
  /\ call.at = "fast" /\ fp.at = "back" /\ ~fp.out.some
  /\ fast' = IF call.fn = "read_bytes" THEN fast ELSE Supported
  /\ view' = IF call.fn = "read_bytes" THEN view ELSE SupportedView
  /\ AwaitOp(call)
  /\ UNCHANGED <<platform, able, content, cached, owned, placeVars, append, is_open, changes>>

Movers == {"read", "read_all", "read1", "readline", "readinto"}
Reads == Movers \cup {"peek", "read_at", "read_bytes"}

\* The pages an op read are resident afterwards.
OpReads ==
  /\ call.at = "op" /\ call.fn \in Reads
  /\ Resume([call EXCEPT !.seen = Size], Slice(call.start, call.want))
  /\ cached' = cached \cup {p \in PagesOf(call.start, call.want) : p < Size}
  /\ UNCHANGED <<platform, able, content, view, owned, restVars>>

-----------------------------------------------------------------------------
(* read_to_eof_parallel.                                                   *)

SizeKnown ==
  /\ call.at = "size" /\ fp.at = "back"
  /\ call' = IF fp.out.some THEN [call EXCEPT !.at = "fill", !.size_now = fp.size]
                            ELSE [call EXCEPT !.at = "sizeOp"]
  /\ fp' = Idle
  /\ UNCHANGED <<fileVars, placeVars, restVars>>

SizeSettles ==
  /\ call.at = "sizeOp"
  /\ call' = [call EXCEPT !.at = "fill", !.size_now = Size]
  /\ UNCHANGED <<fpVars, placeVars, restVars>>

LargeDone(c, rest) == AllRead(c, rest, c.start + Len(rest))

\* read_parallel delivers the filled prefix of the range (ReadGroup); a short
\* one ends the read.
FillSettles ==
  /\ call.at = "fill"
  /\ LET remaining == IF call.size_now > call.start THEN call.size_now - call.start ELSE 0
         first == Slice(call.start, remaining)
         c == [call EXCEPT !.seen = Size, !.acc = first]
     IN  IF Len(first) < remaining THEN LargeDone(c, first)
         ELSE /\ call' = [c EXCEPT !.at = IF fast THEN "check" ELSE "probe"]
              /\ fp' = IF fast THEN CallSize ELSE Idle
              /\ UNCHANGED placeVars
  /\ UNCHANGED <<fileVars, restVars>>

SameSize == fp.out.some /\ fp.size = call.size_now

SizeChecked ==
  /\ call.at = "check" /\ fp.at = "back"
  /\ \/ SameSize /\ LargeDone(call, call.acc)
     \/ /\ ~SameSize
        /\ call' = [call EXCEPT !.at = "probe"]
        /\ fp' = Idle
        /\ UNCHANGED placeVars
  /\ UNCHANGED <<fileVars, restVars>>

ProbeSettles ==
  /\ call.at = "probe"
  /\ LET more == Slice(call.start + Len(call.acc), MaxSize)
         c == [call EXCEPT !.seen = Size, !.acc = @ \o more]
     IN  IF more = <<>> THEN LargeDone(c, c.acc)
         ELSE call' = c /\ UNCHANGED <<placeVars, fp>>
  /\ UNCHANGED <<fileVars, restVars>>

-----------------------------------------------------------------------------
(* The ops that change the file, and awaits that raise.                    *)

\* n bytes written at a place; a gap before them reads as zeros.  Nothing is
\* written, and no gap made, by a write of nothing.
Written(at, n) ==
  [i \in 1 .. (IF n = 0 THEN Size ELSE MaxOf(Size, at + n)) |->
     IF at < i /\ i <= at + n THEN MaxSize + i ELSE IF i <= Size THEN content[i] ELSE 0]

Resized(n) == [i \in 1..n |-> IF i <= Size THEN content[i] ELSE 0]

\* What a write or truncate does to the file, from a place on.
Changed(new, at) ==
  /\ Len(new) <= MaxSize
  /\ content' = new
  /\ cached' = {p \in cached \cup PagesOf(0, Len(new)) : p < Len(new) /\ (p \in cached \/ p >= PageOf(at))}
  /\ UNCHANGED <<platform, able, view, owned>>

\* A write by position, in one step: whatever another process appends between
\* its pieces, they end up where they would in one piece.
WriteSettles ==
  /\ call.at = "op" /\ call.fn = "write" /\ ~append
  /\ Changed(Written(call.start, call.n), call.start)
  /\ Returned([call EXCEPT !.seen = call.start], <<>>, call.start + call.n)
  /\ size_hint' = MaxOf(size_hint, call.start + call.n)
  /\ UNCHANGED <<pending, restVars>>

\* The k places from one on.
PlacesFrom(at, k) == [i \in 1..k |-> at + i]

\* One write(2), or one aio_write, of an append: as many of the bytes as it
\* takes go where the file ends now.
AppendSome(k) ==
  /\ call.at = "op" /\ call.fn = "write" /\ append
  /\ Changed(Written(Size, k), Size)
  /\ call' = [call EXCEPT !.want = @ - k, !.acc = @ \o PlacesFrom(Size, k)]
  /\ UNCHANGED <<fp, placeVars, restVars>>

\* Slip: the position is moved by what was written.
AppendEndsByLength ==
  /\ call.at = "op" /\ call.fn = "write" /\ append /\ call.want = 0
  /\ Returned([call EXCEPT !.seen = Size], call.acc, pos + call.n)
  /\ size_hint' = MaxOf(size_hint, pos + call.n)
  /\ UNCHANGED <<fileVars, pending, restVars>>

\* All of it is written, and then an fstat tells where the file ends, which
\* another process may have moved since.
AppendEnds ==
  /\ call.at = "op" /\ call.fn = "write" /\ append /\ call.want = 0
  /\ Returned([call EXCEPT !.seen = Size], call.acc, Size)
  /\ size_hint' = MaxOf(size_hint, Size)
  /\ UNCHANGED <<fileVars, pending, restVars>>

TruncateSettles ==
  /\ call.at = "op" /\ call.fn = "truncate"
  /\ Changed(Resized(call.n), Size)
  /\ Returned(call, <<>>, pos)
  /\ size_hint' = call.n
  /\ UNCHANGED <<pending, restVars>>

SeekEndSettles ==
  /\ call.at = "op" /\ call.fn = "seekEnd"
  /\ size_hint' = Size
  /\ \/ /\ Size >= call.n
        /\ pending' = <<>>
        /\ Returned([call EXCEPT !.seen = Size], <<>>, Size - call.n)
     \/ /\ Size < call.n
        /\ Ends(call, <<>>, TRUE)
        /\ UNCHANGED <<pending, pos, fp>>
  /\ UNCHANGED <<fileVars, restVars>>

CloseSettles ==
  /\ call.at = "op" /\ call.fn = "close"
  /\ Returned(call, <<>>, pos)
  /\ UNCHANGED <<fileVars, pending, size_hint, restVars>>

\* An op fails, is cancelled, or is done when the CancelledError of its task
\* arrives: the file may have changed, wholly or in part.  (What an append
\* had written when it raised is already there.)
Raise ==
  /\ call.at \in {"op", "sizeOp", "fill", "probe"}
  /\ Ends(call, <<>>, TRUE)
  /\ \/ UNCHANGED fileVars
     \/ call.fn = "write" /\ ~append /\ \E k \in 1..call.n : Changed(Written(call.start, k), call.start)
     \/ call.fn = "truncate" /\ Changed(Resized(call.n), Size)
  /\ UNCHANGED <<fp, placeVars, restVars>>

\* The caller has its answer.
Return ==
  /\ call.at = "done"
  /\ call' = NoCall
  /\ UNCHANGED <<fpVars, placeVars, restVars>>

OtherProcess ==
  /\ Append1(Size + 1) \/ UseCache
  /\ UNCHANGED <<placeVars, restVars, call>>

Next ==
  \/ \E n \in Args : Read(n) \/ Read1(n) \/ Readline(n) \/ Readinto(n) \/ Write(n)
                       \/ Truncate(n) \/ Seek(n) \/ SeekEnd(n) \/ ReadAt(n, CHUNK)
  \/ Readline(Unlimited) \/ ReadAll \/ Peek \/ ReadBytes \/ Close
  \/ FastStep \/ FastServed \/ FastDeclined \/ OpReads
  \/ SizeKnown \/ SizeSettles \/ FillSettles \/ SizeChecked \/ ProbeSettles
  \/ WriteSettles \/ (\E k \in 1..call.want : AppendSome(k)) \/ AppendEnds
  \/ TruncateSettles \/ SeekEndSettles \/ CloseSettles \/ Raise
  \/ Return
  \/ OtherProcess

Spec == Init /\ [][Next]_vars
-----------------------------------------------------------------------------
(* Properties.                                                             *)

Bytes == 0 .. 2 * MaxSize
Stages == {"idle", "fast", "op", "size", "sizeOp", "fill", "check", "probe", "done"}
FpStages == {"idle", "open", "size", "view", "mincore", "cold", "copy", "eof", "back"}

\* The state is well typed, the mapping is whole pages, the thread is inside
\* the fast path only for a call that waits for it, read_file's own descriptor
\* is closed when it returns, and a closed file keeps neither read-ahead nor
\* fast path.
TypeOK ==
  /\ platform \in Platforms
  /\ able \in BOOLEAN
  /\ content \in Seq(Bytes) /\ Size <= MaxSize
  /\ \A p \in cached : p < Size /\ p % Page = 0
  /\ view \in Nat /\ view % Page = 0
  /\ fp.at \in FpStages
  /\ owned => fp.fn = "read_file" /\ fp.at # "back"
  /\ (fp.at # "idle") = (call.at \in {"fast", "size", "check"})
  /\ pos \in Nat
  /\ pending \in Seq(Bytes)
  /\ size_hint \in Nat
  /\ fast \in BOOLEAN /\ is_open \in BOOLEAN /\ append \in BOOLEAN
  /\ ~is_open => pending = <<>> /\ ~fast
  /\ call.at \in Stages
  /\ changes \in 0..MaxChanges

\* binary.py, on `pending`: "Read-ahead: bytes already fetched for
\* [pos, pos + len(pending))".  However calls follow each other, fail or are
\* cancelled, what was read ahead is what the file holds from the position on.
PendingIsAhead == pending = Slice(pos, Len(pending))

\* A call that returns read the bytes that follow the position it found, or
\* wrote there, and left the position behind them, whichever mixture of
\* read-ahead, fast path and ops served it.  An append wrote all its bytes, in
\* order, behind what the file held when it began, none of them twice and none
\* over another process's, and left the position at an end the file had, behind
\* all of them: another process's bytes may lie between, and after them.  One
\* that raised left the position alone; only readinto has moved it by the
\* read-ahead it had already handed over.
PositionFollows ==
  call.at = "done" =>
    IF call.raised
      THEN \/ pos = call.p0
           \/ call.fn = "readinto" /\ pos \in call.p0 .. call.p0 + call.n
      ELSE /\ call.fn \in Reads =>
                /\ call.data = Slice(call.base, Len(call.data))
                /\ pos = IF call.fn \in Movers THEN call.p0 + Len(call.data) ELSE call.p0
           /\ call.fn = "write" /\ ~append =>
                /\ Slice(call.p0, call.n) = [i \in 1..call.n |-> MaxSize + call.p0 + i]
                /\ pos = call.p0 + call.n
           /\ call.fn = "write" /\ append =>
                /\ Len(call.data) = call.n
                /\ \A i \in DOMAIN call.data : call.data[i] \in call.size0 + 1 .. pos
                /\ \A i, j \in DOMAIN call.data : i < j => call.data[i] < call.data[j]
                /\ \A b \in call.size0 + 1 .. Size :
                     content[b] = IF \E i \in DOMAIN call.data : call.data[i] = b THEN MaxSize + b ELSE b
                /\ pos \in call.size0 .. Size

\* A result is short only at the end of the file: read and readinto stop early
\* only where the file ended when they began, a read of everything reaches the
\* end the file had when it was last read, so growth while it was being copied
\* is not missed, and a line is a whole line, with nothing behind its newline.
NothingCutShort ==
  call.at = "done" /\ ~call.raised =>
    LET end == call.base + Len(call.data)
        lines == {i \in DOMAIN call.data : call.data[i] \in Newlines}
    IN  /\ call.fn \in {"read", "readinto"} => Len(call.data) = call.n \/ end >= call.size0
        /\ call.fn = "read_at" => Len(call.data) = CHUNK \/ end >= call.size0
        /\ call.fn \in {"read_all", "read_bytes"} => end >= call.seen /\ call.seen >= call.size0
        /\ call.fn \in {"read1", "peek"} =>
             call.data # <<>> \/ end >= call.size0 \/ (call.fn = "read1" /\ call.n = 0)
        /\ call.fn = "readline" =>
             /\ lines \subseteq {Len(call.data)}
             /\ lines # {} \/ Len(call.data) = call.n \/ end >= call.size0

\* darwin.rs: "a read is served inline only when every page it touches is
\* resident" and "[addr + off, addr + off + chunk) lies inside the live
\* mapping": mincore is never asked about memory outside the view, and when
\* the copy begins no page with file data is cold, although the file grows
\* between the calls.
InlineNeverBlocks ==
  /\ fp.at = "mincore" => fp.off + MincoreLen <= view
  /\ fp.at = "copy" /\ platform = "darwin" => DataPages \subseteq cached
=============================================================================
