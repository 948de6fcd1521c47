-------------------------- MODULE BinaryFileProofs --------------------------
(***************************************************************************)
(* Proofs about BinaryFile and the fast path it uses, for every page size, *)
(* file size, chunk size and sequence of calls.                            *)
(***************************************************************************)
EXTENDS BinaryFile, FastPathProofs

-----------------------------------------------------------------------------
(* The first layer: types, and how the two records go together.            *)

Fns == Reads \cup {"none", "write", "truncate", "seek", "seekEnd", "close"}

CallRec ==
  [fn : Fns, n : Nat, at : Stages, p0 : Nat, size0 : Nat, seen : Nat, base : Nat,
   start : Nat, want : Nat, acc : Seq(Bytes), size_now : Nat, data : Seq(Bytes),
   raised : BOOLEAN]

FpFns == {"none", "read", "read_all", "size", "read_file"}

Outs == [some : BOOLEAN, data : Seq(Bytes)]

FpRec ==
  [at : FpStages, fn : FpFns, pos : Nat, len : Nat, size : Nat, off : Int, out : Outs]

FileTyped ==
  /\ platform \in Platforms /\ able \in BOOLEAN
  /\ content \in Seq(Bytes) /\ Size <= MaxSize
  /\ cached \subseteq {p \in Nat : p < Size /\ p % Page = 0}
  /\ view \in Nat /\ view % Page = 0

PlaceTyped == pos \in Nat /\ pending \in Seq(Bytes) /\ size_hint \in Nat

RestTyped ==
  /\ append \in BOOLEAN /\ fast \in BOOLEAN /\ is_open \in BOOLEAN
  /\ changes \in 0..MaxChanges

RecordsTyped == fp \in FpRec /\ call \in CallRec /\ owned \in BOOLEAN

Typed == FileTyped /\ PlaceTyped /\ RestTyped /\ RecordsTyped

\* The stages in which the loop's thread is inside the fast path.
Inside == {"fast", "size", "check"}

Linked ==
  /\ fp.at # "idle" <=> call.at \in Inside
  /\ fp.at = "open" => fp.fn = "read_file"
  /\ owned => fp.fn = "read_file" /\ fp.at \notin {"back", "idle"}
  /\ ~is_open => /\ pending = <<>> /\ ~fast
                 /\ call.at \in {"idle", "done"} \/ (call.at = "op" /\ call.fn \in {"close", "read_at"})

TInv == Typed /\ Linked

-----------------------------------------------------------------------------
(* The second layer: what a look at the page cache has established, where  *)
(* a call in flight stands, and what one that is over came to.             *)

\* The pages of the request below a place are resident.
Below(k) == \A p \in PagesOf(fp.pos, fp.len) : p < k => p \in cached

Resident ==
  /\ fp.at = "mincore" =>
       LastPage <= view /\ fp.off <= LastPage /\ 0 <= fp.off /\ fp.off % Page = 0 /\ Below(fp.off)
  /\ fp.at = "cold" => Below(fp.off)
  /\ fp.at = "copy" /\ platform # "linux" => Below(Size)

Ahead == Holds(content, pending, pos)

\* Reads of one piece, served by one read of the fast path or by one op.
Plain == Reads \ {"read_all", "read_bytes"}

\* What the file f gained since its size was from: an append's own bytes, at
\* the places s, in order, and elsewhere those of other processes.
Places(f, from, s) ==
  /\ from <= Len(f)
  /\ \A i \in 1 .. Len(s) : s[i] \in from + 1 .. Len(f)
  /\ \A i, j \in 1 .. Len(s) : i < j => s[i] < s[j]
  /\ \A b \in from + 1 .. Len(f) :
       f[b] = IF \E i \in 1 .. Len(s) : s[i] = b THEN MaxSize + b ELSE b

\* A call c in flight on the file f, at position p with s read ahead: where
\* its result begins, what it has of it, and where and how much it reads next.
Fits(f, c, p, s) ==
  /\ p = c.p0 + (IF c.fn = "readinto" THEN Len(c.acc) ELSE 0)
  /\ c.fn \in Reads =>
       /\ c.size0 <= Len(f) /\ c.seen <= Len(f)
       /\ c.fn \notin {"read_at", "read_bytes"} => c.base = c.p0
       /\ c.fn # "read_all" => c.start = c.base + Len(c.acc) /\ Holds(f, c.acc, c.base)
       /\ c.fn = "read_all" => c.start = p + Len(s) /\ Holds(f, c.acc, c.start)
  /\ c.fn \in {"read", "read1", "readinto", "peek", "write", "truncate", "close"} => s = <<>>
  /\ c.fn \in {"read", "readinto"} => Len(c.acc) <= c.n /\ c.want = c.n - Len(c.acc)
  /\ c.fn \in {"read1", "read_at", "peek", "read_bytes"} => c.acc = <<>>
  /\ c.fn = "read1" => c.want = c.n
  /\ c.fn \in {"read_at", "peek", "readline"} => c.want = CHUNK
  /\ c.fn = "readline" => Len(c.acc) < c.n /\ ~HasNewline(c.acc)
  /\ c.fn \in {"read_all", "read_bytes"} => c.want = MaxSize
  /\ c.fn = "write" =>
       c.start = c.p0 /\ Len(c.acc) + c.want = c.n /\ Places(f, c.size0, c.acc)

\* What the stages of read_to_eof_parallel add to it.
Staged(c) ==
  /\ c.at = "fast" => c.fn \in Reads
  /\ c.at \in {"size", "sizeOp", "fill", "check", "probe"} => c.fn = "read_all"
  /\ c.at = "check" => c.size_now <= c.start + Len(c.acc)
  /\ c.at \in {"check", "probe"} => c.size0 <= c.seen

Going == {"fast", "op", "size", "sizeOp", "fill", "check", "probe"}

Flight == call.at \in Going => Fits(content, call, pos, pending) /\ Staged(call)

\* The fast path, q, at work for call c on the file f: it was asked for what
\* the call reads next, and what it will return is there and complete.
Serves(f, c, q) ==
  /\ Holds(f, q.out.data, q.pos)
  /\ q.fn = "size" <=> c.at # "fast"
  /\ q.fn = "size" =>
       /\ q.at \in {"size", "back"}
       /\ q.at = "back" /\ q.out.some => c.seen <= q.size
  /\ c.at = "fast" =>
       /\ q.pos = c.start
       /\ c.fn = "read_all" => q.fn = "read_all"
       /\ c.fn = "read_bytes" => q.fn = "read_file"
       /\ c.fn \in Plain => q.fn = "read"
  /\ q.fn = "read" =>
       /\ q.at \notin {"open", "size", "eof"} /\ q.len = c.want
       /\ q.at = "back" /\ q.out.some =>
            Len(q.out.data) = c.want \/ c.size0 <= c.start + Len(q.out.data)
  /\ q.fn \in {"read_all", "read_file"} =>
       /\ q.at \in {"view", "mincore", "cold", "copy"} => q.size <= q.pos + q.len
       /\ q.at = "eof" => q.size <= q.pos + Len(q.out.data)
       /\ q.at \in {"view", "mincore", "cold", "copy", "eof"} => c.size0 <= c.seen
       /\ q.at = "back" /\ q.out.some =>
            c.size0 <= c.seen /\ c.seen <= q.pos + Len(q.out.data)

Served == fp.at # "idle" => Serves(content, call, fp)

\* The bytes a write of n bytes at a place leaves there.
Stamp(at, n) == [i \in 1..n |-> MaxSize + at + i]

\* A call c that is over, the position being p: PositionFollows without Slice.
Over(f, c, p) ==
  /\ c.raised => p = c.p0 \/ (c.fn = "readinto" /\ p \in c.p0 .. c.p0 + c.n)
  /\ ~c.raised /\ c.fn \in Reads =>
       /\ Holds(f, c.data, c.base)
       /\ p = IF c.fn \in Movers THEN c.p0 + Len(c.data) ELSE c.p0
  /\ ~c.raised /\ c.fn = "write" /\ ~append =>
       Holds(f, Stamp(c.p0, c.n), c.p0) /\ p = c.p0 + c.n
  /\ ~c.raised /\ c.fn = "write" /\ append =>
       /\ Len(c.data) = c.n /\ Places(f, c.size0, c.data)
       /\ p \in c.size0 .. Len(f) /\ \A i \in 1 .. Len(c.data) : c.data[i] <= p

Ended == call.at = "done" => Over(content, call, pos)

IInv ==
  /\ TInv
  /\ Resident
  /\ Ahead
  /\ Flight
  /\ Served
  /\ Ended
  /\ NothingCutShort

-----------------------------------------------------------------------------
(* The records, field by field.                                            *)

LEMMA BytesIs == Bytes \subseteq Nat /\ 0 \in Bytes /\ <<>> \in Seq(Bytes) /\ Len(<<>>) = 0
BY SizeAssumption DEF Bytes

LEMMA NoCallIs ==
  NoCall \in CallRec /\ NoCall.at = "idle" /\ NoCall.fn = "none"
BY BytesIs DEF NoCall, CallRec, Fns, Stages

\* A call that begins, with what the method puts in it.
CallOf(fn, n, p0, size0, base, start, want, acc) ==
  [fn |-> fn, n |-> n, at |-> "idle", p0 |-> p0, size0 |-> size0, seen |-> 0,
   base |-> base, start |-> start, want |-> want, acc |-> acc, size_now |-> 0,
   data |-> <<>>, raised |-> FALSE]

LEMMA CallOfIs ==
  ASSUME NEW fn \in Fns, NEW n \in Nat, NEW p0 \in Nat, NEW size0 \in Nat, NEW base \in Nat,
         NEW start \in Nat, NEW want \in Nat, NEW acc \in Seq(Bytes)
  PROVE  CallOf(fn, n, p0, size0, base, start, want, acc) \in CallRec
<1>1. "idle" \in Stages /\ FALSE \in BOOLEAN /\ 0 \in Nat
  BY DEF Stages
<1>2. <<>> \in Seq(Bytes)
  BY BytesIs
<1> QED
  BY <1>1, <1>2 DEF CallOf, CallRec

\* A stage or two of a call that goes on.
LEMMA CallAt ==
  ASSUME NEW c \in CallRec, NEW at \in Stages, NEW r, r = [c EXCEPT !.at = at]
  PROVE  /\ r \in CallRec /\ r.at = at
         /\ r.fn = c.fn /\ r.n = c.n /\ r.p0 = c.p0 /\ r.size0 = c.size0 /\ r.seen = c.seen
         /\ r.base = c.base /\ r.start = c.start /\ r.want = c.want /\ r.acc = c.acc
         /\ r.size_now = c.size_now
BY DEF CallRec

LEMMA CallSeen ==
  ASSUME NEW c \in CallRec, NEW k \in Nat, NEW r, r = [c EXCEPT !.seen = k]
  PROVE  /\ r \in CallRec /\ r.seen = k /\ r.at = c.at
         /\ r.fn = c.fn /\ r.n = c.n /\ r.p0 = c.p0 /\ r.size0 = c.size0
         /\ r.base = c.base /\ r.start = c.start /\ r.want = c.want /\ r.acc = c.acc
         /\ r.size_now = c.size_now
BY DEF CallRec

\* A call that ends.
LEMMA EndsIs ==
  ASSUME NEW c \in CallRec, NEW data \in Seq(Bytes), NEW raised \in BOOLEAN,
         Ends(c, data, raised)
  PROVE  /\ call' \in CallRec
         /\ call'.at = "done" /\ call'.fn = c.fn /\ call'.n = c.n /\ call'.p0 = c.p0
         /\ call'.base = c.base /\ call'.size0 = c.size0 /\ call'.seen = c.seen
         /\ call'.data = data /\ (call'.raised <=> raised)
<1>1. c.fn \in Fns /\ c.n \in Nat /\ c.p0 \in Nat /\ c.base \in Nat /\ c.size0 \in Nat /\ c.seen \in Nat
  BY DEF CallRec
<1>2. call' =
        [fn |-> c.fn, n |-> c.n, at |-> "done", p0 |-> c.p0, size0 |-> c.size0,
         seen |-> c.seen, base |-> c.base, start |-> 0, want |-> 0, acc |-> <<>>,
         size_now |-> 0, data |-> data, raised |-> raised]
  BY DEF Ends, NoCall
<1>3. <<>> \in Seq(Bytes) /\ "done" \in Stages /\ 0 \in Nat
  BY BytesIs DEF Stages
<1> QED
  BY <1>1, <1>2, <1>3 DEF CallRec

LEMMA IdleIs ==
  /\ Idle \in FpRec /\ Idle.at = "idle" /\ Idle.fn = "none" /\ Idle.pos = 0
  /\ Idle.out.data = <<>> /\ ~Idle.out.some
BY BytesIs DEF Idle, None, FpRec, FpStages, FpFns, Outs

LEMMA NoneIs == None \in Outs /\ None.data = <<>> /\ ~None.some
BY BytesIs DEF None, Outs

LEMMA SomeIs ==
  ASSUME NEW d \in Seq(Bytes)
  PROVE  Some(d) \in Outs /\ Some(d).data = d /\ Some(d).some
BY DEF Some, Outs

LEMMA FillFromIs ==
  ASSUME NEW c \in FpRec, NEW r, r = FillFrom(c)
  PROVE  /\ r \in FpRec
         /\ r.at = IF platform = "none" THEN "back" ELSE IF platform = "linux" THEN "copy" ELSE "view"
         /\ r.fn = c.fn /\ r.pos = c.pos /\ r.len = c.len /\ r.size = c.size /\ r.out = c.out
<1>1. {"back", "copy", "view"} \subseteq FpStages
  BY DEF FpStages
<1> QED
  BY <1>1 DEF FillFrom, Declines, FpRec

\* The methods of the fast path, as they are called.
LEMMA CallReadIs ==
  ASSUME NEW p \in Nat, NEW n \in Nat, NEW r, r = CallRead(p, n)
  PROVE  /\ r \in FpRec /\ r.at \in {"back", "copy", "view"}
         /\ r.at = "copy" => platform = "linux"
         /\ r.fn = "read" /\ r.pos = p /\ r.len = n /\ r.out.data = <<>> /\ ~r.out.some
<1> DEFINE c == [Idle EXCEPT !.fn = "read", !.pos = p, !.len = n]
<1>1. PICK d : d = c
  OBVIOUS
<1>2. /\ d \in FpRec /\ d.fn = "read" /\ d.pos = p /\ d.len = n
      /\ d.out.data = <<>> /\ ~d.out.some
  BY <1>1, IdleIs DEF FpRec, FpFns
<1>3. CASE n = 0
  <2>1. r = [d EXCEPT !.at = "back"]
    BY <1>1, <1>3 DEF CallRead
  <2>2. "back" \in FpStages
    BY DEF FpStages
  <2> QED
    BY <1>2, <2>1, <2>2 DEF FpRec
<1>4. CASE n # 0
  <2>1. r = FillFrom(d)
    BY <1>1, <1>4 DEF CallRead
  <2> QED
    BY <1>2, <2>1, FillFromIs
<1> QED
  BY <1>3, <1>4

LEMMA CallReadAllIs ==
  ASSUME NEW p \in Nat, NEW r, r = CallReadAll(p)
  PROVE  /\ r \in FpRec /\ r.at = "size" /\ r.fn = "read_all" /\ r.pos = p
         /\ r.out.data = <<>> /\ ~r.out.some
BY IdleIs DEF CallReadAll, FpRec, FpFns, FpStages

LEMMA CallSizeIs ==
  ASSUME NEW r, r = CallSize
  PROVE  /\ r \in FpRec /\ r.at = "size" /\ r.fn = "size" /\ r.pos = 0
         /\ r.out.data = <<>> /\ ~r.out.some
BY IdleIs DEF CallSize, FpRec, FpFns, FpStages

LEMMA CallReadFileIs ==
  ASSUME NEW r, r = CallReadFile
  PROVE  /\ r \in FpRec /\ r.at = "open" /\ r.fn = "read_file" /\ r.pos = 0
         /\ r.out.data = <<>> /\ ~r.out.some
BY IdleIs DEF CallReadFile, FpRec, FpFns, FpStages

\* read_resident or the op: the records of a call that goes on.
LEMMA TryFastIs ==
  ASSUME NEW c \in CallRec, TryFast(c)
  PROVE  /\ call' \in CallRec /\ fp' \in FpRec
         /\ call'.fn = c.fn /\ call'.n = c.n /\ call'.p0 = c.p0 /\ call'.size0 = c.size0
         /\ call'.seen = c.seen /\ call'.base = c.base /\ call'.start = c.start
         /\ call'.want = c.want /\ call'.acc = c.acc
         /\ \/ fast /\ call'.at = "fast" /\ fp' = CallRead(c.start, c.want)
            \/ ~fast /\ call'.at = "op" /\ fp' = Idle
<1>1. {"fast", "op"} \subseteq Stages
  BY DEF Stages
<1>2. c.start \in Nat /\ c.want \in Nat
  BY DEF CallRec
<1>3. CASE fast
  <2>1. call' = [c EXCEPT !.at = "fast"] /\ fp' = CallRead(c.start, c.want)
    BY <1>3 DEF TryFast
  <2>2. fp' \in FpRec
    BY <1>2, <2>1, CallReadIs
  <2> QED
    BY <1>1, <1>3, <2>1, <2>2, CallAt
<1>4. CASE ~fast
  <2>1. call' = [c EXCEPT !.at = "op"] /\ fp' = Idle
    BY <1>4 DEF TryFast
  <2> QED
    BY <1>1, <1>4, <2>1, CallAt, IdleIs
<1> QED
  BY <1>3, <1>4

LEMMA AwaitOpIs ==
  ASSUME NEW c \in CallRec, AwaitOp(c)
  PROVE  /\ call' \in CallRec /\ fp' \in FpRec /\ call'.at = "op" /\ fp' = Idle
         /\ call'.fn = c.fn /\ call'.n = c.n /\ call'.p0 = c.p0 /\ call'.size0 = c.size0
         /\ call'.seen = c.seen /\ call'.base = c.base /\ call'.start = c.start
         /\ call'.want = c.want /\ call'.acc = c.acc
<1>1. "op" \in Stages
  BY DEF Stages
<1>2. call' = [c EXCEPT !.at = "op"] /\ fp' = Idle
  BY DEF AwaitOp
<1> QED
  BY <1>1, <1>2, CallAt, IdleIs

-----------------------------------------------------------------------------
(* Steps of the fast path.                                                 *)

\* A method of the fast path that returns.
LEMMA ReturnsIs ==
  ASSUME fp \in FpRec, NEW out \in Outs, Returns(out)
  PROVE  /\ fp' \in FpRec /\ fp'.at = "back" /\ fp'.out = out /\ ~owned' /\ owned' \in BOOLEAN
         /\ fp'.fn = fp.fn /\ fp'.pos = fp.pos /\ fp'.len = fp.len /\ fp'.size = fp.size
<1>1. "back" \in FpStages
  BY DEF FpStages
<1> QED
  BY <1>1 DEF Returns, FpRec

\* A method that goes on to another stage.
LEMMA StageIs ==
  ASSUME NEW f \in FpRec, NEW at \in FpStages, NEW r, r = [f EXCEPT !.at = at]
  PROVE  /\ r \in FpRec /\ r.at = at /\ r.fn = f.fn /\ r.pos = f.pos /\ r.len = f.len
         /\ r.size = f.size /\ r.out = f.out /\ r.off = f.off
BY DEF FpRec

\* Every step of the fast path, in full: what the provers need of a step, so
\* that the invariants below need not look into the records again.
FpOpenStep ==
  /\ fp.at = "open"
  /\ fp'.len = fp.len /\ fp'.size = fp.size
  /\ \/ fp'.at = "size" /\ fp'.out = fp.out
     \/ fp'.at = "back" /\ fp'.out = None /\ ~owned'

FpSizeStep ==
  /\ fp.at = "size"
  /\ \/ fp'.at = "back" /\ fp'.out = None /\ ~owned'
     \/ /\ fp'.size = Size /\ fp'.len = IF Size > fp.pos THEN Size - fp.pos ELSE 0
        /\ owned' = owned
        /\ \/ fp.fn = "size" /\ fp'.at = "back" /\ fp'.out = Some(<<>>)
           \/ fp.fn # "size" /\ fp'.at = "eof" /\ fp'.len = 0 /\ fp'.out = fp.out
           \/ /\ fp.fn # "size" /\ fp'.at = IF platform = "linux" THEN "copy" ELSE "view"
              /\ platform # "none" /\ fp'.out = fp.out

FpViewStep ==
  /\ fp.at = "view"
  /\ fp'.len = fp.len /\ fp'.size = fp.size
  /\ \/ /\ fp'.at = "mincore" /\ fp'.off = PageOf(fp.pos) /\ fp'.out = fp.out /\ owned' = owned
        /\ fp.pos + fp.len <= view'
     \/ fp'.at = "back" /\ fp'.out = None /\ ~owned'

FpMincoreStep ==
  /\ fp.at = "mincore" /\ view' = view
  /\ fp'.len = fp.len /\ fp'.size = fp.size
  /\ LET cold == PagesOf(fp.off, MincoreLen) \ cached
         next == fp.off + MincoreLen
     IN  \/ /\ cold # {} /\ fp'.at = "cold" /\ fp'.off = Min(cold) /\ fp'.out = fp.out /\ owned' = owned
         \/ /\ cold = {} /\ fp'.at = (IF next < LastPage THEN "mincore" ELSE "copy")
            /\ fp'.off = next /\ fp'.out = fp.out /\ owned' = owned
         \/ fp'.at = "back" /\ fp'.out = None /\ ~owned'

FpColdStep ==
  /\ fp.at = "cold"
  /\ fp'.len = fp.len /\ fp'.size = fp.size
  /\ \/ fp'.at = "copy" /\ Size <= fp.off /\ fp'.out = fp.out /\ owned' = owned
     \/ fp'.at = "back" /\ fp'.out = None /\ ~owned'

FpCopyStep ==
  /\ fp.at = "copy"
  /\ fp'.len = fp.len /\ fp'.size = fp.size
  /\ \/ /\ fp.fn = "read" /\ fp'.at = "back" /\ fp'.out = Some(Slice(fp.pos, fp.len)) /\ ~owned'
     \/ /\ fp.fn # "read" /\ Len(Slice(fp.pos, fp.len)) >= fp.len
        /\ fp'.at = "eof" /\ fp'.out = Some(Slice(fp.pos, fp.len)) /\ owned' = owned
     \/ fp'.at = "back" /\ fp'.out = None /\ ~owned'

FpEofStep ==
  /\ fp.at = "eof"
  /\ fp'.len = fp.len /\ fp'.size = fp.size
  /\ \/ Size <= fp.size /\ fp'.at = "back" /\ fp'.out = Some(fp.out.data) /\ ~owned'
     \/ fp'.at = "back" /\ fp'.out = None /\ ~owned'

FpAnyStep ==
  FpOpenStep \/ FpSizeStep \/ FpViewStep \/ FpMincoreStep \/ FpColdStep \/ FpCopyStep \/ FpEofStep

\* The first layer, kept by a step of the fast path.
FpKept ==
  /\ UNCHANGED <<platform, able, content, cached>>
  /\ view' \in Nat /\ view' % Page = 0
  /\ fp' \in FpRec /\ owned' \in BOOLEAN
  /\ fp.at # "idle" /\ fp'.at \notin {"idle", "open"}
  /\ fp'.fn = fp.fn /\ fp'.pos = fp.pos
  /\ owned' => fp'.fn = "read_file" /\ fp'.at # "back"

LEMMA FpFields ==
  ASSUME fp \in FpRec
  PROVE  /\ fp.at \in FpStages /\ fp.fn \in FpFns /\ fp.pos \in Nat /\ fp.len \in Nat
         /\ fp.size \in Nat /\ fp.off \in Int /\ fp.out \in Outs
         /\ fp.out.some \in BOOLEAN /\ fp.out.data \in Seq(Bytes) /\ Len(fp.out.data) \in Nat
BY DEF FpRec, Outs

LEMMA OpenStep ==
  ASSUME TInv, FpOpen
  PROVE  FpKept /\ FpOpenStep
<1>1. fp \in FpRec /\ owned \in BOOLEAN /\ view \in Nat /\ view % Page = 0 /\ fp.fn = "read_file"
  BY DEF TInv, Typed, RecordsTyped, FileTyped, Linked, FpOpen
<1>2. "size" \in FpStages
  BY DEF FpStages
<1>3. CASE fp' = [fp EXCEPT !.at = "size"] /\ owned' = TRUE
  <2>1. /\ fp' \in FpRec /\ fp'.at = "size" /\ fp'.fn = fp.fn /\ fp'.pos = fp.pos /\ fp'.len = fp.len
        /\ fp'.size = fp.size /\ fp'.out = fp.out
    BY <1>1, <1>2, <1>3, StageIs
  <2> QED
    BY <1>1, <1>3, <2>1 DEF FpOpen, FpKept, FpOpenStep
<1>4. CASE Returns(None)
  <2>1. /\ fp' \in FpRec /\ fp'.at = "back" /\ fp'.out = None /\ ~owned' /\ owned' \in BOOLEAN
        /\ fp'.fn = fp.fn /\ fp'.pos = fp.pos /\ fp'.len = fp.len /\ fp'.size = fp.size
    BY <1>1, <1>4, NoneIs, ReturnsIs
  <2> QED
    BY <1>1, <2>1 DEF FpOpen, FpKept, FpOpenStep
<1> QED
  BY <1>3, <1>4 DEF FpOpen

LEMMA TInvGives ==
  ASSUME TInv
  PROVE  /\ fp \in FpRec /\ owned \in BOOLEAN /\ view \in Nat /\ view % Page = 0
         /\ content \in Seq(Bytes) /\ Size \in Nat /\ Size <= MaxSize
         /\ owned => fp.fn = "read_file" /\ fp.at \notin {"back", "idle"}
         /\ call \in CallRec /\ pos \in Nat /\ pending \in Seq(Bytes) /\ Len(pending) \in Nat
         /\ size_hint \in Nat /\ fast \in BOOLEAN
BY DEF TInv, Typed, RecordsTyped, FileTyped, PlaceTyped, RestTyped, Linked, Size

\* A stage that ends in None.
LEMMA DeclinesStep ==
  ASSUME TInv, Returns(None), fp.at # "idle",
         UNCHANGED <<platform, able, content, cached>>, view' \in Nat, view' % Page = 0
  PROVE  /\ FpKept /\ fp'.at = "back" /\ fp'.out = None /\ ~owned'
         /\ fp'.len = fp.len /\ fp'.size = fp.size
<1>1. /\ fp' \in FpRec /\ fp'.at = "back" /\ fp'.out = None /\ ~owned' /\ owned' \in BOOLEAN
      /\ fp'.fn = fp.fn /\ fp'.pos = fp.pos /\ fp'.len = fp.len /\ fp'.size = fp.size
  BY TInvGives, NoneIs, ReturnsIs
<1> QED
  BY <1>1 DEF FpKept

LEMMA SizeStep ==
  ASSUME TInv, FpSize
  PROVE  FpKept /\ FpSizeStep
<1>0. /\ fp \in FpRec /\ owned \in BOOLEAN /\ view \in Nat /\ view % Page = 0
      /\ content \in Seq(Bytes) /\ Size \in Nat
      /\ owned => fp.fn = "read_file" /\ fp.at \notin {"back", "idle"}
  BY TInvGives
<1>1. /\ fp.at = "size" /\ UNCHANGED <<platform, able, content, cached, view>>
      /\ fp.pos \in Nat
  BY <1>0, FpFields DEF FpSize
<1>2. CASE Declines /\ Returns(None)
  BY <1>0, <1>1, <1>2, DeclinesStep DEF FpSizeStep
<1> DEFINE len == IF Size > fp.pos THEN Size - fp.pos ELSE 0
           sized == [fp EXCEPT !.size = Size, !.len = len]
<1>3. len \in Nat
  BY <1>0, <1>1
<1>4. PICK c : c = sized
  OBVIOUS
<1>5. /\ c \in FpRec /\ c.at = fp.at /\ c.fn = fp.fn /\ c.pos = fp.pos /\ c.len = len
      /\ c.size = Size /\ c.out = fp.out
  BY <1>0, <1>3, <1>4 DEF FpRec
<1>6. ASSUME ~Declines, fp.fn = "size", fp' = [c EXCEPT !.at = "back", !.out = Some(<<>>)],
             UNCHANGED owned
      PROVE  FpKept /\ FpSizeStep
  <2>1. "back" \in FpStages /\ Some(<<>>) \in Outs
    BY BytesIs, SomeIs DEF FpStages
  <2>2. /\ fp' \in FpRec /\ fp'.at = "back" /\ fp'.fn = fp.fn /\ fp'.pos = fp.pos /\ fp'.len = len
        /\ fp'.size = Size /\ fp'.out = Some(<<>>)
    BY <1>0, <1>5, <1>6, <2>1 DEF FpRec
  <2>3. ~owned
    BY <1>0, <1>6
  <2> QED
    BY <1>0, <1>1, <1>6, <2>2, <2>3 DEF FpKept, FpSizeStep
<1>7. ASSUME ~Declines, fp.fn # "size", UNCHANGED owned,
             fp' = IF len = 0 THEN [c EXCEPT !.at = "eof"] ELSE FillFrom(c)
      PROVE  FpKept /\ FpSizeStep
  <2>1. CASE len = 0
    <3>1. "eof" \in FpStages
      BY DEF FpStages
    <3>2. /\ fp' \in FpRec /\ fp'.at = "eof" /\ fp'.fn = fp.fn /\ fp'.pos = fp.pos /\ fp'.len = len
          /\ fp'.size = Size /\ fp'.out = fp.out
      BY <1>0, <1>5, <1>7, <2>1, <3>1, StageIs
    <3> QED
      BY <1>0, <1>1, <1>7, <2>1, <3>2 DEF FpKept, FpSizeStep
  <2>2. CASE len # 0
    <3>1. /\ fp' \in FpRec /\ fp'.at = (IF platform = "linux" THEN "copy" ELSE "view")
          /\ fp'.fn = fp.fn /\ fp'.pos = fp.pos /\ fp'.len = len
          /\ fp'.size = Size /\ fp'.out = fp.out /\ platform # "none"
      BY <1>0, <1>5, <1>7, <2>2, FillFromIs DEF Declines
    <3> QED
      BY <1>0, <1>1, <1>7, <2>2, <3>1 DEF FpKept, FpSizeStep
  <2> QED
    BY <1>0, <2>1, <2>2
<1> QED
  BY <1>0, <1>2, <1>4, <1>6, <1>7 DEF FpSize, FileSize, Proceeds

LEMMA ViewStep ==
  ASSUME TInv, FpView
  PROVE  FpKept /\ FpViewStep
<1>0. /\ fp \in FpRec /\ owned \in BOOLEAN /\ view \in Nat /\ view % Page = 0
      /\ content \in Seq(Bytes) /\ Size \in Nat
      /\ owned => fp.fn = "read_file" /\ fp.at \notin {"back", "idle"}
  BY TInvGives
<1>1. /\ fp.at = "view" /\ UNCHANGED <<platform, able, content, cached>>
      /\ fp.pos \in Nat /\ fp.len \in Nat
  BY <1>0, FpFields DEF FpView
<1>2. PICK v : v = ViewLen(Size)
  OBVIOUS
<1>3. v \in Nat /\ v % Page = 0
  BY <1>0, <1>2, ViewLenIs
<1>4. ASSUME view' \in Nat, view' % Page = 0, fp.pos + fp.len <= view',
             Proceeds([fp EXCEPT !.at = "mincore", !.off = PageOf(fp.pos)])
      PROVE  FpKept /\ FpViewStep
  <2>1. "mincore" \in FpStages /\ PageOf(fp.pos) \in Int
    BY <1>0, <1>1, PageOfIs, SMTT(30) DEF FpStages
  <2>2. /\ fp' \in FpRec /\ fp'.at = "mincore" /\ fp'.off = PageOf(fp.pos) /\ fp'.fn = fp.fn
        /\ fp'.pos = fp.pos /\ fp'.len = fp.len /\ fp'.size = fp.size /\ fp'.out = fp.out
        /\ owned' = owned
    BY <1>0, <1>4, <2>1 DEF Proceeds, FpRec
  <2> QED
    BY <1>0, <1>1, <1>4, <2>2 DEF FpKept, FpViewStep
<1>5. ASSUME view' \in Nat, view' % Page = 0, Returns(None)
      PROVE  FpKept /\ FpViewStep
  BY <1>0, <1>1, <1>5, DeclinesStep DEF FpViewStep
<1> QED
  BY <1>0, <1>1, <1>2, <1>3, <1>4, <1>5 DEF FpView, FileSize, ViewCovers

LEMMA MincoreIs ==
  ASSUME fp \in FpRec
  PROVE  /\ LastPage = RoundUp(fp.pos + fp.len) /\ LastPage \in Nat /\ FlagsPerCall * Page \in Nat
         /\ MincoreLen \in Int /\ MincoreLen = IF LastPage - fp.off <= FlagsPerCall * Page
                                                 THEN LastPage - fp.off ELSE FlagsPerCall * Page
<1>1. fp.pos \in Nat /\ fp.len \in Nat /\ fp.off \in Int
  BY FpFields
<1>2. FlagsPerCall * Page \in Nat
  BY FlagsAssumption, PageAssumption
<1>3. LastPage = RoundUp(fp.pos + fp.len) /\ LastPage \in Nat
  BY <1>1, RoundUpIs DEF LastPage, RoundUp
<1> QED
  BY <1>1, <1>2, <1>3, MinOfTwo DEF MincoreLen

LEMMA MincoreStep ==
  ASSUME TInv, FpMincore
  PROVE  FpKept /\ FpMincoreStep
<1>0. /\ fp \in FpRec /\ owned \in BOOLEAN /\ view \in Nat /\ view % Page = 0
      /\ content \in Seq(Bytes) /\ Size \in Nat
      /\ owned => fp.fn = "read_file" /\ fp.at \notin {"back", "idle"}
  BY TInvGives
<1>1. /\ fp.at = "mincore" /\ UNCHANGED <<platform, able, content, cached, view>>
      /\ fp.off \in Int
  BY <1>0, FpFields DEF FpMincore
<1> DEFINE cold == PagesOf(fp.off, MincoreLen) \ cached
           next == fp.off + MincoreLen
<1>2. next \in Int
  BY <1>0, <1>1, MincoreIs
<1>3. {"mincore", "copy", "cold"} \subseteq FpStages
  BY DEF FpStages
<1>4. ASSUME NEW at \in {"mincore", "copy", "cold"}, NEW k \in Int,
             Proceeds([fp EXCEPT !.at = at, !.off = k])
      PROVE  /\ FpKept /\ fp'.len = fp.len /\ fp'.size = fp.size
             /\ fp'.at = at /\ fp'.off = k /\ fp'.out = fp.out /\ owned' = owned
  <2>1. /\ fp' \in FpRec /\ fp'.at = at /\ fp'.off = k /\ fp'.fn = fp.fn
        /\ fp'.pos = fp.pos /\ fp'.len = fp.len /\ fp'.size = fp.size /\ fp'.out = fp.out
        /\ owned' = owned
    BY <1>0, <1>3, <1>4 DEF Proceeds, FpRec
  <2> QED
    BY <1>0, <1>1, <1>4, <2>1 DEF FpKept
<1>5. CASE cold # {} /\ Proceeds([fp EXCEPT !.at = "cold", !.off = Min(cold)])
  <2>1. cold \in SUBSET Nat
    BY <1>0, <1>1, MincoreIs DEF PagesOf
  <2>2. Min(cold) \in Int
    BY <1>0, <1>5, <2>1, MinOfNats
  <2> QED
    BY <1>0, <1>1, <1>4, <1>5, <2>2 DEF FpMincoreStep
<1>6. CASE /\ cold = {}
           /\ Proceeds([fp EXCEPT !.at = IF next < LastPage THEN "mincore" ELSE "copy", !.off = next])
  <2>1. PICK at \in {"mincore", "copy"} : at = IF next < LastPage THEN "mincore" ELSE "copy"
    OBVIOUS
  <2>2. Proceeds([fp EXCEPT !.at = at, !.off = next])
    BY <1>0, <1>6, <2>1
  <2>3. /\ FpKept /\ fp'.len = fp.len /\ fp'.size = fp.size
        /\ fp'.at = at /\ fp'.off = next /\ fp'.out = fp.out /\ owned' = owned
    BY <1>0, <1>2, <1>4, <2>2
  <2> QED
    BY <1>0, <1>1, <1>6, <2>1, <2>3 DEF FpMincoreStep
<1>7. CASE Returns(None)
  BY <1>0, <1>1, <1>7, DeclinesStep DEF FpMincoreStep
<1> QED
  BY <1>0, <1>5, <1>6, <1>7 DEF FpMincore

LEMMA ColdStep ==
  ASSUME TInv, FpCold
  PROVE  FpKept /\ FpColdStep
<1>0. /\ fp \in FpRec /\ owned \in BOOLEAN /\ view \in Nat /\ view % Page = 0
      /\ content \in Seq(Bytes) /\ Size \in Nat
      /\ owned => fp.fn = "read_file" /\ fp.at \notin {"back", "idle"}
  BY TInvGives
<1>1. fp.at = "cold" /\ UNCHANGED <<platform, able, content, cached, view>>
  BY DEF FpCold
<1>2. CASE Size <= fp.off /\ Proceeds([fp EXCEPT !.at = "copy"])
  <2>1. "copy" \in FpStages
    BY DEF FpStages
  <2>2. /\ fp' \in FpRec /\ fp'.at = "copy" /\ fp'.fn = fp.fn
        /\ fp'.pos = fp.pos /\ fp'.len = fp.len /\ fp'.size = fp.size /\ fp'.out = fp.out
        /\ owned' = owned
    BY <1>0, <1>2, <2>1, StageIs DEF Proceeds
  <2> QED
    BY <1>0, <1>1, <1>2, <2>2 DEF FpKept, FpColdStep
<1>3. CASE Returns(None)
  BY <1>0, <1>1, <1>3, DeclinesStep DEF FpColdStep
<1> QED
  BY <1>0, <1>2, <1>3 DEF FpCold, ColdPastEof, FileSize

LEMMA CopyStep ==
  ASSUME TInv, FpCopyNowait \/ FpCopyPread
  PROVE  FpKept /\ FpCopyStep
<1>0. /\ fp \in FpRec /\ owned \in BOOLEAN /\ view \in Nat /\ view % Page = 0
      /\ content \in Seq(Bytes) /\ Size \in Nat
      /\ owned => fp.fn = "read_file" /\ fp.at \notin {"back", "idle"}
  BY TInvGives
<1>1. /\ fp.at = "copy" /\ UNCHANGED <<platform, able, content, cached, view>>
      /\ fp.pos \in Nat /\ fp.len \in Nat
  BY <1>0, FpFields DEF FpCopyNowait, FpCopyPread
<1>2. CASE Returns(None)
  BY <1>0, <1>1, <1>2, DeclinesStep DEF FpCopyStep
<1>3. PICK d : d = Slice(fp.pos, fp.len)
  OBVIOUS
<1>4. d \in Seq(Bytes) /\ Len(d) \in Nat
  <2>1. Slice(fp.pos, fp.len) \in Seq(Bytes)
    BY <1>0, <1>1, SliceIs
  <2> QED
    BY <1>3, <2>1
<1>5. Some(d) \in Outs
  BY <1>0, <1>4, SomeIs
<1>6. CASE fp.fn = "read" /\ Returns(Some(d))
  <2>1. /\ fp' \in FpRec /\ fp'.at = "back" /\ fp'.out = Some(d) /\ ~owned' /\ owned' \in BOOLEAN
        /\ fp'.fn = fp.fn /\ fp'.pos = fp.pos /\ fp'.len = fp.len /\ fp'.size = fp.size
    BY <1>0, <1>5, <1>6, ReturnsIs
  <2> QED
    BY <1>0, <1>1, <1>3, <1>6, <2>1 DEF FpKept, FpCopyStep
<1>7. CASE fp.fn # "read" /\ ~(Len(d) < fp.len) /\ Proceeds([fp EXCEPT !.at = "eof", !.out = Some(d)])
  <2>1. "eof" \in FpStages
    BY DEF FpStages
  <2>2. /\ fp' \in FpRec /\ fp'.at = "eof" /\ fp'.out = Some(d) /\ owned' = owned
        /\ fp'.fn = fp.fn /\ fp'.pos = fp.pos /\ fp'.len = fp.len /\ fp'.size = fp.size
    BY <1>0, <1>5, <1>7, <2>1 DEF Proceeds, FpRec
  <2>3. Len(Slice(fp.pos, fp.len)) >= fp.len
    BY <1>0, <1>1, <1>3, <1>4, <1>7
  <2> QED
    BY <1>0, <1>1, <1>3, <1>7, <2>2, <2>3 DEF FpKept, FpCopyStep
<1> QED
  BY <1>0, <1>2, <1>3, <1>6, <1>7 DEF FpCopyNowait, FpCopyPread, Copied

LEMMA EofStep ==
  ASSUME TInv, FpEof
  PROVE  FpKept /\ FpEofStep
<1>0. /\ fp \in FpRec /\ owned \in BOOLEAN /\ view \in Nat /\ view % Page = 0
      /\ content \in Seq(Bytes) /\ Size \in Nat
      /\ owned => fp.fn = "read_file" /\ fp.at \notin {"back", "idle"}
  BY TInvGives
<1>1. /\ fp.at = "eof" /\ UNCHANGED <<platform, able, content, cached, view>>
      /\ fp.out.data \in Seq(Bytes) /\ fp.size \in Nat
  BY <1>0, FpFields DEF FpEof
<1>2. CASE Returns(None)
  BY <1>0, <1>1, <1>2, DeclinesStep DEF FpEofStep
<1>3. CASE AtEof /\ Returns(Some(fp.out.data))
  <2>1. Size <= fp.size
    BY <1>0, <1>1, <1>3 DEF AtEof, NoByteAfter, SameStat, FileSize
  <2>2. Some(fp.out.data) \in Outs
    BY <1>0, <1>1, SomeIs
  <2>3. /\ fp' \in FpRec /\ fp'.at = "back" /\ fp'.out = Some(fp.out.data) /\ ~owned'
        /\ owned' \in BOOLEAN
        /\ fp'.fn = fp.fn /\ fp'.pos = fp.pos /\ fp'.len = fp.len /\ fp'.size = fp.size
    BY <1>0, <1>3, <2>2, ReturnsIs
  <2> QED
    BY <1>0, <1>1, <2>1, <2>3 DEF FpKept, FpEofStep
<1> QED
  BY <1>0, <1>2, <1>3 DEF FpEof

LEMMA FpStepIs ==
  ASSUME TInv, FpStep
  PROVE  FpKept /\ FpAnyStep
BY OpenStep, SizeStep, ViewStep, MincoreStep, ColdStep, CopyStep, EofStep DEF FpStep, FpAnyStep

-----------------------------------------------------------------------------
(* What the calls do with sequences and with the file.                     *)

LEMMA TakeDropIs ==
  ASSUME NEW s \in Seq(Bytes), NEW k \in 0 .. Len(s)
  PROVE  /\ SubSeq(s, 1, k) \in Seq(Bytes) /\ Len(SubSeq(s, 1, k)) = k
         /\ \A i \in 1 .. k : SubSeq(s, 1, k)[i] = s[i]
         /\ Drop(s, k) \in Seq(Bytes) /\ Len(Drop(s, k)) = Len(s) - k
BY DEF Drop

\* A line ends at its first newline, at the limit, or where the bytes end.
LEMMA LineEndIs ==
  ASSUME NEW buf \in Seq(Bytes), NEW n \in Nat, NEW end, end = LineEnd(buf, n)
  PROVE  /\ end \in 0 .. Len(buf) /\ end <= n
         /\ \/ end = n \/ end = Len(buf)
            \/ end \in 1 .. Len(buf) /\ buf[end] \in Newlines
         /\ \A i \in 1 .. Len(buf) : buf[i] \in Newlines => end <= i
<1> DEFINE S == {n, Len(buf)} \cup {i \in DOMAIN buf : buf[i] \in Newlines}
<1>1. Len(buf) \in Nat /\ DOMAIN buf = 1 .. Len(buf)
  OBVIOUS
<1>2. S \in SUBSET Nat /\ S # {}
  BY <1>1
<1>3. end \in S /\ \A y \in S : end <= y
  BY <1>2, MinOfNats DEF LineEnd
<1>4. end \in Nat /\ end <= n /\ end <= Len(buf)
  BY <1>1, <1>2, <1>3
<1>5. \A i \in 1 .. Len(buf) : buf[i] \in Newlines => end <= i
  BY <1>1, <1>3
<1>6. end = n \/ end = Len(buf) \/ (end \in DOMAIN buf /\ buf[end] \in Newlines)
  BY <1>3
<1> HIDE DEF S
<1> QED
  BY <1>1, <1>4, <1>5, <1>6

\* Before an append writes, it has gone nowhere.
LEMMA PlacesNone ==
  ASSUME NEW f, Len(f) \in Nat
  PROVE  Places(f, Len(f), <<>>)
BY BytesIs DEF Places

\* Another process's bytes behind them leave an append's where they are.
LEMMA PlacesGrown ==
  ASSUME NEW f, NEW g, Len(f) \in Nat, Len(g) \in Nat, Len(f) <= Len(g),
         \A i \in 1 .. Len(f) : g[i] = f[i],
         \A i \in Len(f) + 1 .. Len(g) : g[i] = i,
         NEW from \in Nat, NEW s, Len(s) \in Nat, Places(f, from, s)
  PROVE  Places(g, from, s)
<1>1. from <= Len(f) /\ \A i \in 1 .. Len(s) : s[i] \in from + 1 .. Len(f)
  BY DEF Places
<1>2. from <= Len(g) /\ \A i \in 1 .. Len(s) : s[i] \in from + 1 .. Len(g)
  BY <1>1
<1>3. ASSUME NEW b \in from + 1 .. Len(g)
      PROVE  g[b] = IF \E i \in 1 .. Len(s) : s[i] = b THEN MaxSize + b ELSE b
  <2>1. CASE b <= Len(f)
    <3>1. b \in from + 1 .. Len(f) /\ b \in 1 .. Len(f)
      BY <2>1
    <3> QED
      BY <3>1 DEF Places
  <2>2. CASE ~(b <= Len(f))
    <3>1. b \in Len(f) + 1 .. Len(g)
      BY <2>2
    <3>2. ~\E i \in 1 .. Len(s) : s[i] = b
      BY <1>1, <2>2
    <3> QED
      BY <3>1, <3>2
  <2> QED
    BY <2>1, <2>2
<1> QED
  BY <1>2, <1>3 DEF Places

\* The file f with n own bytes written at a place is g.
Wrote(f, g, at, n) ==
  /\ Len(f) <= Len(g) /\ Len(g) <= MaxSize
  /\ n # 0 => at + n <= Len(g)
  /\ \A i \in 1 .. n : g[at + i] = MaxSize + (at + i)
  /\ at = Len(f) => Len(g) = Len(f) + n /\ \A i \in 1 .. Len(f) : g[i] = f[i]

LEMMA ConcatIs ==
  ASSUME NEW B, NEW s \in Seq(B), NEW t \in Seq(B)
  PROVE  /\ s \o t \in Seq(B) /\ Len(s \o t) = Len(s) + Len(t) /\ Len(s) \in Nat
         /\ \A i \in 1 .. Len(s) + Len(t) : (s \o t)[i] = IF i <= Len(s) THEN s[i] ELSE t[i - Len(s)]
OBVIOUS

\* One more piece of an append, at the end of the file.
LEMMA PlacesWritten ==
  ASSUME NEW f, NEW g, NEW k \in Nat, Len(f) \in Nat, Wrote(f, g, Len(f), k),
         NEW from \in Nat, NEW s \in Seq(Bytes), Places(f, from, s)
  PROVE  /\ s \o PlacesFrom(Len(f), k) \in Seq(Bytes)
         /\ Len(s \o PlacesFrom(Len(f), k)) = Len(s) + k
         /\ Places(g, from, s \o PlacesFrom(Len(f), k))
<1>0. /\ Len(g) = Len(f) + k /\ Len(g) <= MaxSize
      /\ \A i \in 1 .. Len(f) : g[i] = f[i]
      /\ \A i \in 1 .. k : g[Len(f) + i] = MaxSize + (Len(f) + i)
  BY DEF Wrote
<1> DEFINE e(i) == Len(f) + i
<1>1. PICK u : u = [i \in 1 .. k |-> e(i)]
  OBVIOUS
<1>2. \A i \in 1 .. k : e(i) \in Bytes
  BY <1>0, SizeAssumption DEF Bytes
<1>3. \A i \in 1 .. k : u[i] = Len(f) + i
  BY <1>1
<1>4. PICK t : t = s \o u
  OBVIOUS
<1> HIDE DEF e
<1>5. u \in Seq(Bytes) /\ Len(u) = k
  BY <1>1, <1>2
<1>6. /\ Len(s) \in Nat /\ t \in Seq(Bytes) /\ Len(t) = Len(s) + k
      /\ \A i \in 1 .. Len(s) + k : t[i] = IF i <= Len(s) THEN s[i] ELSE u[i - Len(s)]
  BY ONLY <1>4, <1>5, s \in Seq(Bytes), ConcatIs
<1>7. \A i \in 1 .. Len(s) : t[i] = s[i]
  BY ONLY <1>6, k \in Nat
<1>8. \A i \in Len(s) + 1 .. Len(s) + k : t[i] = u[i - Len(s)]
  BY ONLY <1>6, k \in Nat
<1>9. \A i \in Len(s) + 1 .. Len(s) + k : t[i] = Len(f) + (i - Len(s))
  <2> TAKE i \in Len(s) + 1 .. Len(s) + k
  <2>1. i - Len(s) \in 1 .. k
    BY ONLY <1>6, k \in Nat, i \in Len(s) + 1 .. Len(s) + k
  <2> QED
    BY <1>3, <1>8, <2>1
<1>10. from <= Len(f) /\ \A i \in 1 .. Len(s) : s[i] \in from + 1 .. Len(f)
  BY DEF Places
<1>11. \A i \in 1 .. Len(t) : t[i] \in from + 1 .. Len(g) /\ (t[i] <= Len(f) <=> i <= Len(s))
  <2> TAKE i \in 1 .. Len(t)
  <2>1. CASE i <= Len(s)
    <3>1. t[i] \in from + 1 .. Len(f)
      BY <1>6, <1>7, <1>10, <2>1
    <3> QED
      BY ONLY <2>1, <3>1, from \in Nat, Len(f) \in Nat, k \in Nat, <1>0
  <2>2. CASE ~(i <= Len(s))
    <3>1. i \in Len(s) + 1 .. Len(s) + k
      BY <1>6, <2>2
    <3>2. t[i] = Len(f) + (i - Len(s))
      BY <1>9, <3>1
    <3> QED
      BY ONLY <1>6, <1>10, <2>2, <3>1, <3>2, from \in Nat, Len(f) \in Nat, k \in Nat, <1>0
  <2> QED
    BY <2>1, <2>2
<1>12. ASSUME NEW i \in 1 .. Len(t), NEW j \in 1 .. Len(t), i < j
       PROVE  t[i] < t[j]
  <2>1. CASE j <= Len(s)
    <3>1. i \in 1 .. Len(s) /\ j \in 1 .. Len(s)
      BY <1>6, <1>12, <2>1
    <3>2. s[i] < s[j]
      BY <1>12, <3>1 DEF Places
    <3> QED
      BY <1>7, <3>1, <3>2
  <2>2. CASE ~(j <= Len(s)) /\ i <= Len(s)
    <3>1. t[i] <= Len(f) /\ ~(t[j] <= Len(f)) /\ t[i] \in Nat /\ t[j] \in Nat
      BY <1>11, <2>2
    <3> QED
      BY ONLY <3>1, Len(f) \in Nat
  <2>3. CASE ~(i <= Len(s))
    <3>1. i \in Len(s) + 1 .. Len(s) + k /\ j \in Len(s) + 1 .. Len(s) + k
      BY <1>6, <1>12, <2>3
    <3>2. t[i] = Len(f) + (i - Len(s)) /\ t[j] = Len(f) + (j - Len(s))
      BY <1>9, <3>1
    <3> QED
      BY ONLY <1>6, <1>12, <3>1, <3>2, Len(f) \in Nat, k \in Nat
  <2> QED
    BY <2>1, <2>2, <2>3
<1>13. ASSUME NEW b \in from + 1 .. Len(g)
       PROVE  g[b] = IF \E i \in 1 .. Len(t) : t[i] = b THEN MaxSize + b ELSE b
  <2>1. CASE b <= Len(f)
    <3>1. b \in from + 1 .. Len(f) /\ b \in 1 .. Len(f)
      BY <1>0, <2>1
    <3>2. g[b] = IF \E i \in 1 .. Len(s) : s[i] = b THEN MaxSize + b ELSE b
      BY <1>0, <3>1 DEF Places
    <3>3. (\E i \in 1 .. Len(t) : t[i] = b) <=> (\E i \in 1 .. Len(s) : s[i] = b)
      <4>1. ASSUME NEW i \in 1 .. Len(t), t[i] = b PROVE i \in 1 .. Len(s) /\ s[i] = b
        <5>1. i \in 1 .. Len(s)
          BY <1>6, <1>11, <2>1, <4>1
        <5> QED
          BY <1>7, <4>1, <5>1
      <4>2. ASSUME NEW i \in 1 .. Len(s), s[i] = b PROVE i \in 1 .. Len(t) /\ t[i] = b
        BY <1>6, <1>7, <4>2
      <4> QED
        BY <4>1, <4>2
    <3> QED
      BY <3>2, <3>3
  <2>2. CASE ~(b <= Len(f))
    <3>1. PICK n \in 1 .. k : b = Len(f) + n
      <4>1. b - Len(f) \in 1 .. k /\ b = Len(f) + (b - Len(f))
        BY <1>0, <2>2
      <4> QED
        BY <4>1
    <3>2. g[b] = MaxSize + b
      BY <1>0, <3>1
    <3>3. Len(s) + n \in 1 .. Len(t) /\ Len(s) + n \in Len(s) + 1 .. Len(s) + k
      BY <1>6
    <3>4. t[Len(s) + n] = Len(f) + ((Len(s) + n) - Len(s))
      BY <1>9, <3>3
    <3>5. t[Len(s) + n] = b
      BY <1>6, <3>1, <3>4
    <3> QED
      BY <3>2, <3>3, <3>5
  <2> QED
    BY <2>1, <2>2
<1>14. from <= Len(g)
  BY <1>0, <1>10
<1>15. Places(g, from, t)
  BY <1>11, <1>12, <1>13, <1>14 DEF Places
<1>16. t = s \o PlacesFrom(Len(f), k)
  BY <1>1, <1>4 DEF PlacesFrom, e
<1> QED
  BY <1>6, <1>15, <1>16

\* The file a write leaves, which TLC's bound keeps short enough.
LEMMA WrittenIs ==
  ASSUME content \in Seq(Bytes), Size <= MaxSize, NEW at \in Nat, NEW n \in Nat,
         NEW new, new = Written(at, n), Len(new) <= MaxSize
  PROVE  new \in Seq(Bytes) /\ Wrote(content, new, at, n)
<1>1. Size \in Nat /\ \A i \in 1 .. Size : content[i] \in Bytes
  BY DEF Size
<1>2. PICK m \in Nat : /\ m = (IF n = 0 THEN Size ELSE MaxOf(Size, at + n))
                       /\ Size <= m /\ (n # 0 => at + n <= m) /\ (at = Size => m = Size + n)
  BY <1>1 DEF MaxOf
<1> DEFINE e(i) == IF at < i /\ i <= at + n THEN MaxSize + i ELSE IF i <= Size THEN content[i] ELSE 0
<1>3. new = [i \in 1 .. m |-> e(i)]
  BY <1>2 DEF Written
<1>4. m <= MaxSize
  <2> HIDE DEF e
  <2>1. Len([i \in 1 .. m |-> e(i)]) = m
    OBVIOUS
  <2> QED
    BY <1>3, <2>1
<1>5. \A i \in 1 .. m : e(i) \in Bytes
  BY <1>1, <1>2, <1>4, SizeAssumption DEF Bytes
<1>6. \A i \in 1 .. n : e(at + i) = MaxSize + (at + i) /\ at + i \in 1 .. m
  BY <1>2
<1>7. at = Size => \A i \in 1 .. Size : e(i) = content[i] /\ i \in 1 .. m
  BY <1>1, <1>2
<1> HIDE DEF e
<1>8. new \in Seq(Bytes) /\ Len(new) = m
  BY <1>2, <1>3, <1>5
<1> QED
  BY <1>2, <1>3, <1>6, <1>7, <1>8 DEF Wrote, Size

LEMMA ResizedIs ==
  ASSUME content \in Seq(Bytes), NEW n \in Nat, NEW new, new = Resized(n)
  PROVE  new \in Seq(Bytes) /\ Len(new) = n
<1>1. Size \in Nat /\ \A i \in 1 .. Size : content[i] \in Bytes
  BY DEF Size
<1> DEFINE e(i) == IF i <= Size THEN content[i] ELSE 0
<1>2. new = [i \in 1 .. n |-> e(i)]
  BY DEF Resized
<1>3. \A i \in 1 .. n : e(i) \in Bytes
  BY <1>1, SizeAssumption DEF Bytes
<1> HIDE DEF e
<1> QED
  BY <1>2, <1>3

\* A changed file keeps its type.
LEMMA ChangedTyped ==
  ASSUME TInv, NEW new \in Seq(Bytes), NEW at, Changed(new, at)
  PROVE  FileTyped' /\ UNCHANGED owned
<1>1. /\ content' = new /\ Len(new) <= MaxSize /\ UNCHANGED <<platform, able, view, owned>>
      /\ cached' = {p \in cached \cup PagesOf(0, Len(new)) :
                      p < Len(new) /\ (p \in cached \/ p >= PageOf(at))}
  BY DEF Changed
<1>2. FileTyped
  BY DEF TInv, Typed
<1>3. \A p \in PagesOf(0, Len(new)) : p \in Nat /\ p % Page = 0
  BY DEF PagesOf
<1>4. cached' \subseteq {p \in Nat : p < Len(new) /\ p % Page = 0}
  BY <1>1, <1>2, <1>3 DEF FileTyped
<1> QED
  BY <1>1, <1>2, <1>4 DEF FileTyped, Size

\* An appended byte, by another process.
LEMMA AppendIs ==
  ASSUME TInv, Append1(Size + 1)
  PROVE  /\ FileTyped' /\ UNCHANGED <<platform, able, view, owned, fp>>
         /\ Size' = Size + 1 /\ \A i \in 1 .. Size : content'[i] = content[i]
         /\ content'[Size + 1] = Size + 1
         /\ cached' = cached \cup {PageOf(Size)}
<1>1. /\ Size < MaxSize /\ content' = Append(content, Size + 1)
      /\ cached' = cached \cup {PageOf(Size)} /\ UNCHANGED <<platform, able, view, owned, fp>>
  BY DEF Append1
<1>2. FileTyped /\ Size \in Nat /\ content \in Seq(Bytes)
  BY TInvGives DEF TInv, Typed
<1>3. Size + 1 \in Bytes
  BY <1>1, <1>2, SizeAssumption DEF Bytes
<1>4. /\ content' \in Seq(Bytes) /\ Len(content') = Size + 1
      /\ \A i \in 1 .. Size : content'[i] = content[i]
      /\ content'[Size + 1] = Size + 1
  BY <1>1, <1>2, <1>3 DEF Size
<1>5. PageOf(Size) \in Nat /\ PageOf(Size) % Page = 0 /\ PageOf(Size) < Size + 1
  BY <1>2, PageOfIs
<1>6. cached' \subseteq {p \in Nat : p < Size + 1 /\ p % Page = 0}
  <2>1. \A p \in cached : p \in Nat /\ p < Size /\ p % Page = 0
    BY <1>2 DEF FileTyped
  <2>2. \A p \in cached : p \in Nat /\ p < Size + 1 /\ p % Page = 0
    BY <1>2, <2>1
  <2> QED
    BY <1>1, <1>5, <2>2
<1>7. Size + 1 <= MaxSize /\ Size' = Size + 1
  BY <1>1, <1>2, <1>4, SizeAssumption DEF Size
<1> QED
  BY <1>1, <1>2, <1>4, <1>6, <1>7 DEF FileTyped

-----------------------------------------------------------------------------
(* Steps and the first layer.                                              *)

LEMMA InitTInv == Init => TInv
<1> SUFFICES ASSUME Init PROVE TInv
  OBVIOUS
<1>1. InitSize \in Nat /\ InitSize <= MaxSize
  BY ArgsAssumption, SizeAssumption
<1>2. content \in Seq(Bytes) /\ Len(content) = InitSize
  <2>1. \A i \in 1 .. InitSize : i \in Bytes
    BY <1>1, SizeAssumption DEF Bytes
  <2> QED
    BY <1>1, <2>1 DEF Init
<1>3. cached \subseteq {p \in Nat : p < InitSize /\ p % Page = 0}
  BY <1>1 DEF Init
<1>4. 0 % Page = 0
  BY PageAssumption
<1>5. FileTyped
  BY <1>1, <1>2, <1>3, <1>4 DEF Init, InitFp, FileTyped, Size
<1>6. PlaceTyped /\ RestTyped
  BY <1>1, BytesIs, ChangesAssumption DEF Init, PlaceTyped, RestTyped
<1>7. RecordsTyped /\ Linked
  BY NoCallIs, IdleIs DEF Init, InitFp, RecordsTyped, Linked, Inside
<1> QED
  BY <1>5, <1>6, <1>7 DEF TInv, Typed

\* A step outside the fast path, or one that enters or leaves it.
LEMMA Keeps ==
  ASSUME TInv, FileTyped', PlaceTyped', RestTyped', UNCHANGED owned,
         call' \in CallRec, fp' \in FpRec, fp.at \in {"idle", "back"},
         fp'.at # "idle" <=> call'.at \in Inside,
         fp'.at = "open" => fp'.fn = "read_file",
         \/ is_open'
         \/ /\ pending' = <<>> /\ ~fast'
            /\ call'.at \in {"idle", "done"} \/ (call'.at = "op" /\ call'.fn \in {"close", "read_at"})
  PROVE  TInv'
<1>1. ~owned'
  BY TInvGives
<1>2. owned' \in BOOLEAN
  BY TInvGives
<1> QED
  BY <1>1, <1>2 DEF TInv, Typed, RecordsTyped, Linked

\* What a step leaves alone keeps its type.
LEMMA FileSame ==
  ASSUME TInv, UNCHANGED fileVars
  PROVE  FileTyped' /\ UNCHANGED owned
BY DEF TInv, Typed, FileTyped, fileVars, Size

LEMMA RestSame ==
  ASSUME TInv, UNCHANGED restVars
  PROVE  RestTyped'
BY DEF TInv, Typed, RestTyped, restVars

LEMMA ReadyIs ==
  ASSUME TInv, Ready
  PROVE  is_open /\ call.at = "idle" /\ fp.at = "idle"
BY DEF TInv, Linked, Ready, Inside

LEMMA StagesOut ==
  /\ "done" \notin Inside /\ "op" \notin Inside /\ "idle" \notin Inside /\ "sizeOp" \notin Inside
  /\ "fill" \notin Inside /\ "probe" \notin Inside
  /\ "fast" \in Inside /\ "size" \in Inside /\ "check" \in Inside
BY DEF Inside

\* The records after a call went to the fast path or to an op.
LEMMA TryFastLinked ==
  ASSUME NEW c \in CallRec, TryFast(c)
  PROVE  /\ call' \in CallRec /\ fp' \in FpRec
         /\ fp'.at # "idle" <=> call'.at \in Inside
         /\ fp'.at # "open"
<1>1. c.start \in Nat /\ c.want \in Nat
  BY DEF CallRec
<1>2. CASE fast /\ call'.at = "fast" /\ fp' = CallRead(c.start, c.want)
  <2>1. fp'.at \in {"back", "copy", "view"}
    BY <1>1, <1>2, CallReadIs
  <2> QED
    BY <1>2, <2>1, TryFastIs, StagesOut
<1>3. CASE ~fast /\ call'.at = "op" /\ fp' = Idle
  BY <1>3, TryFastIs, IdleIs, StagesOut
<1> QED
  BY <1>2, <1>3, TryFastIs

\* The data of a read goes into a line, or is returned.
LEMMA TakeLineTyped ==
  ASSUME TInv, NEW c \in CallRec, NEW buf \in Seq(Bytes), TakeLine(c, buf)
  PROVE  PlaceTyped' /\ call' \in CallRec /\ call'.at = "done" /\ fp' = Idle
<1>1. PICK end : end = LineEnd(buf, c.n)
  OBVIOUS
<1>2. c.n \in Nat
  BY DEF CallRec
<1>3. end \in 0 .. Len(buf)
  BY <1>1, <1>2, LineEndIs
<1>4. SubSeq(buf, 1, end) \in Seq(Bytes) /\ Drop(buf, end) \in Seq(Bytes)
  BY <1>3, TakeDropIs
<1>5. /\ Ends(c, SubSeq(buf, 1, end), FALSE) /\ pending' = Drop(buf, end) /\ pos' = pos + end
      /\ fp' = Idle /\ UNCHANGED size_hint
  BY <1>1 DEF TakeLine
<1>6. call' \in CallRec /\ call'.at = "done"
  BY <1>4, <1>5, EndsIs
<1> QED
  BY <1>3, <1>4, <1>5, <1>6, TInvGives DEF PlaceTyped

LEMMA ReturnedTyped ==
  ASSUME NEW c \in CallRec, NEW d \in Seq(Bytes), NEW p, Returned(c, d, p)
  PROVE  call' \in CallRec /\ call'.at = "done" /\ fp' = Idle /\ pos' = p
<1>1. Ends(c, d, FALSE) /\ pos' = p /\ fp' = Idle
  BY DEF Returned
<1> QED
  BY <1>1, EndsIs

LEMMA AllReadTyped ==
  ASSUME TInv, NEW c \in CallRec, NEW d \in Seq(Bytes), NEW p \in Nat, AllRead(c, d, p)
  PROVE  PlaceTyped' /\ call' \in CallRec /\ call'.at = "done" /\ fp' = Idle /\ pending' = <<>>
<1>1. Returned(c, pending \o d, p) /\ pending' = <<>> /\ size_hint' = MaxOf(size_hint, p)
  BY DEF AllRead
<1>2. pending \o d \in Seq(Bytes)
  BY TInvGives
<1>3. call' \in CallRec /\ call'.at = "done" /\ fp' = Idle /\ pos' = p
  BY <1>1, <1>2, ReturnedTyped
<1> QED
  BY <1>1, <1>3, BytesIs, TInvGives DEF PlaceTyped, MaxOf

LEMMA ResumeTyped ==
  ASSUME TInv, NEW c \in CallRec, NEW d \in Seq(Bytes), Resume(c, d)
  PROVE  /\ PlaceTyped' /\ call' \in CallRec /\ fp' \in FpRec
         /\ fp'.at # "idle" <=> call'.at \in Inside
         /\ fp'.at # "open"
<1>1. /\ pos \in Nat /\ pending \in Seq(Bytes) /\ size_hint \in Nat /\ c.acc \in Seq(Bytes)
      /\ Len(d) \in Nat /\ c.n \in Nat
  BY TInvGives DEF CallRec
<1>2. c.acc \o d \in Seq(Bytes) /\ pending \o d \in Seq(Bytes)
  BY <1>1
<1>3. Len(c.acc \o d) \in Nat /\ Len(pending \o d) \in Nat
  BY <1>2
<1>4. \/ call' \in CallRec /\ call'.at = "done" /\ fp' = Idle /\ PlaceTyped'
      \/ UNCHANGED placeVars /\ \E r \in CallRec : TryFast(r)
  <2>1. CASE c.fn = "read" /\ Returned(c, c.acc \o d, pos + Len(c.acc \o d)) /\ UNCHANGED <<pending, size_hint>>
    <3>1. PICK b \in Seq(Bytes) : b = c.acc \o d
      BY <1>2
    <3>2. Returned(c, b, pos + Len(b)) /\ UNCHANGED <<pending, size_hint>>
      BY <2>1, <3>1
    <3>3. call' \in CallRec /\ call'.at = "done" /\ fp' = Idle /\ pos' = pos + Len(b)
      BY <3>2, ReturnedTyped
    <3> QED
      BY <1>1, <3>2, <3>3 DEF PlaceTyped
  <2>2. CASE Returned(c, c.acc \o d, pos + Len(d)) /\ UNCHANGED <<pending, size_hint>>
    <3>1. PICK b \in Seq(Bytes) : b = c.acc \o d
      BY <1>2
    <3>2. Returned(c, b, pos + Len(d)) /\ UNCHANGED <<pending, size_hint>>
      BY <2>2, <3>1
    <3>3. call' \in CallRec /\ call'.at = "done" /\ fp' = Idle /\ pos' = pos + Len(d)
      BY <3>2, ReturnedTyped
    <3> QED
      BY <1>1, <3>2, <3>3 DEF PlaceTyped
  <2>3. CASE Returned(c, d, pos) /\ UNCHANGED <<pending, size_hint>>
    BY <1>1, <2>3, ReturnedTyped DEF PlaceTyped
  <2>4. CASE AllRead(c, d, pos + Len(pending \o d))
    <3>1. pos + Len(pending \o d) \in Nat
      BY <1>1, <1>3
    <3> QED
      BY <2>4, <3>1, AllReadTyped
  <2>5. CASE pending' = d /\ Returned(c, d, pos) /\ UNCHANGED size_hint
    BY <1>1, <2>5, ReturnedTyped DEF PlaceTyped
  <2>6. CASE TakeLine(c, c.acc \o d)
    BY <1>2, <2>6, TakeLineTyped
  <2>7. CASE TryFast([c EXCEPT !.acc = c.acc \o d, !.start = pos + Len(c.acc \o d)]) /\ UNCHANGED placeVars
    <3>1. PICK k \in Nat : k = pos + Len(c.acc \o d)
      BY <1>1, <1>3
    <3>2. PICK b \in Seq(Bytes) : b = c.acc \o d
      BY <1>2
    <3>3. PICK r : r = [c EXCEPT !.acc = b, !.start = k]
      OBVIOUS
    <3>4. r \in CallRec
      BY <3>3 DEF CallRec
    <3> QED
      BY <2>7, <3>1, <3>2, <3>3, <3>4
  <2> QED
    BY <2>1, <2>2, <2>3, <2>4, <2>5, <2>6, <2>7 DEF Resume
<1>5. CASE call' \in CallRec /\ call'.at = "done" /\ fp' = Idle /\ PlaceTyped'
  BY <1>5, IdleIs, StagesOut
<1>6. CASE UNCHANGED placeVars /\ \E r \in CallRec : TryFast(r)
  <2>1. PlaceTyped'
    BY <1>1, <1>6 DEF PlaceTyped, placeVars
  <2> QED
    BY <1>6, <2>1, TryFastLinked
<1> QED
  BY <1>4, <1>5, <1>6

\* A call that begins: with the read-ahead, in the fast path, or with an op.
LEMMA StartKeeps ==
  ASSUME TInv, Ready, UNCHANGED fileVars, UNCHANGED restVars, PlaceTyped', NEW c \in CallRec,
         \/ TryFast(c) \/ AwaitOp(c)
         \/ UNCHANGED fp /\ \E d \in Seq(Bytes) : Ends(c, d, FALSE)
  PROVE  TInv'
<1>1. fp.at = "idle" /\ is_open /\ FileTyped' /\ RestTyped' /\ UNCHANGED owned /\ fp \in FpRec
  BY ReadyIs, FileSame, RestSame, TInvGives
<1>2. is_open'
  BY <1>1 DEF restVars
<1>3. /\ call' \in CallRec /\ fp' \in FpRec /\ (fp'.at # "idle" <=> call'.at \in Inside)
      /\ fp'.at # "open"
  <2>1. CASE TryFast(c)
    BY <2>1, TryFastLinked
  <2>2. CASE AwaitOp(c)
    BY <2>2, AwaitOpIs, IdleIs, StagesOut
  <2>3. CASE UNCHANGED fp /\ \E d \in Seq(Bytes) : Ends(c, d, FALSE)
    <3>1. call' \in CallRec /\ call'.at = "done"
      BY <2>3, EndsIs
    <3> QED
      BY <1>1, <2>3, <3>1, StagesOut
  <2> QED
    BY <2>1, <2>2, <2>3
<1> QED
  BY <1>1, <1>2, <1>3, Keeps

-----------------------------------------------------------------------------
(* What the invariants say, and that they hold at first.                   *)

LEMMA IInvTypeOK == IInv => TypeOK
<1> SUFFICES ASSUME IInv PROVE TypeOK
  OBVIOUS
<1>1. fp.at \in FpStages /\ call.at \in Stages /\ (fp.at # "idle") = (call.at \in {"fast", "size", "check"})
  BY DEF IInv, TInv, Typed, RecordsTyped, Linked, Inside, FpRec, CallRec
<1> QED
  BY <1>1 DEF IInv, TInv, Typed, FileTyped, PlaceTyped, RestTyped, RecordsTyped, Linked, TypeOK

LEMMA IInvAhead == IInv => PendingIsAhead
<1> SUFFICES ASSUME IInv PROVE PendingIsAhead
  OBVIOUS
<1>1. content \in Seq(Bytes) /\ pending \in Seq(Bytes) /\ pos \in Nat /\ Holds(content, pending, pos)
  BY TInvGives DEF IInv, Ahead
<1> QED
  BY <1>1, HoldsIsSlice DEF PendingIsAhead

LEMMA StampIs ==
  ASSUME NEW f \in Seq(Bytes), Len(f) <= MaxSize, NEW at \in Nat, NEW n \in Nat,
         Holds(f, Stamp(at, n), at)
  PROVE  Stamp(at, n) \in Seq(Bytes) /\ Len(Stamp(at, n)) = n
<1> DEFINE e(i) == MaxSize + at + i
<1>1. \A i \in 1..n : e(i) \in Nat
  BY SizeAssumption
<1>2. Stamp(at, n) = [i \in 1..n |-> e(i)]
  BY DEF Stamp
<1> HIDE DEF e
<1>3. Stamp(at, n) \in Seq(Nat) /\ Len(Stamp(at, n)) = n
  BY <1>1, <1>2
<1>4. \A i \in 1..n : at + i <= MaxSize
  <2>1. \A i \in 1..n : at + i <= Len(f)
    BY <1>3 DEF Holds
  <2>2. Len(f) \in Nat
    OBVIOUS
  <2> TAKE i \in 1..n
  <2>3. at + i <= Len(f) /\ at + i \in Nat
    BY ONLY <2>1, at \in Nat, n \in Nat, i \in 1..n
  <2> QED
    BY ONLY <2>2, <2>3, Len(f) <= MaxSize, SizeAssumption
<1>5. \A i \in 1..n : e(i) \in Bytes
  BY <1>4, SizeAssumption DEF e, Bytes
<1> QED
  BY <1>2, <1>3, <1>5

LEMMA IInvPosition == IInv => PositionFollows
<1> SUFFICES ASSUME IInv, call.at = "done" PROVE PositionFollows
  BY DEF PositionFollows
<1>1. content \in Seq(Bytes) /\ call \in CallRec /\ Len(content) <= MaxSize /\ Over(content, call, pos)
  BY TInvGives DEF IInv, Ended, Size
<1>2. call.data \in Seq(Bytes) /\ call.base \in Nat /\ call.p0 \in Nat /\ call.n \in Nat
  BY <1>1 DEF CallRec
<1>3. CASE call.raised
  BY <1>1, <1>3 DEF Over, PositionFollows
<1>4. CASE ~call.raised
  <2>1. ASSUME call.fn \in Reads PROVE call.data = Slice(call.base, Len(call.data))
    <3>1. Holds(content, call.data, call.base)
      BY <1>1, <1>4, <2>1 DEF Over
    <3> QED
      BY <1>1, <1>2, <3>1, HoldsIsSlice
  <2>2. ASSUME call.fn = "write", ~append
        PROVE  Slice(call.p0, call.n) = [i \in 1..call.n |-> MaxSize + call.p0 + i]
    <3>1. PICK t : t = Stamp(call.p0, call.n)
      OBVIOUS
    <3>2. Holds(content, t, call.p0)
      BY <1>1, <1>4, <2>2, <3>1 DEF Over
    <3>3. t \in Seq(Bytes) /\ Len(t) = call.n
      BY <1>1, <1>2, <3>1, <3>2, StampIs
    <3>4. t = Slice(call.p0, call.n)
      BY <1>1, <1>2, <3>2, <3>3, HoldsIsSlice
    <3> QED
      BY <3>1, <3>4 DEF Stamp
  <2>3. ASSUME call.fn = "write", append
        PROVE  /\ Len(call.data) = call.n /\ pos \in call.size0 .. Size
               /\ \A i \in DOMAIN call.data : call.data[i] \in call.size0 + 1 .. pos
               /\ \A i, j \in DOMAIN call.data : i < j => call.data[i] < call.data[j]
               /\ \A b \in call.size0 + 1 .. Size :
                    content[b] = IF \E i \in DOMAIN call.data : call.data[i] = b THEN MaxSize + b ELSE b
    <3>1. /\ Len(call.data) = call.n /\ Places(content, call.size0, call.data)
          /\ pos \in call.size0 .. Len(content)
          /\ \A i \in 1 .. Len(call.data) : call.data[i] <= pos
      BY <1>1, <1>4, <2>3 DEF Over
    <3>2. DOMAIN call.data = 1 .. Len(call.data) /\ call.size0 \in Nat /\ Len(content) \in Nat
      BY <1>1, <1>2 DEF CallRec
    <3>3. \A i \in DOMAIN call.data : call.data[i] \in call.size0 + 1 .. pos
      BY <3>1, <3>2 DEF Places
    <3> QED
      BY <3>1, <3>2, <3>3 DEF Places, Size
  <2> QED
    BY <1>1, <1>4, <2>1, <2>2, <2>3 DEF Over, PositionFollows
<1> QED
  BY <1>1, <1>3, <1>4 DEF CallRec

LEMMA PagesAre ==
  ASSUME NEW p, NEW a \in Int, NEW n \in Int
  PROVE  p \in PagesOf(a, n) <=> p \in Nat /\ p % Page = 0 /\ p + Page > a /\ p < a + n
BY PageAssumption DEF PagesOf

LEMMA IInvInline == IInv => InlineNeverBlocks
<1> SUFFICES ASSUME IInv PROVE InlineNeverBlocks
  OBVIOUS
<1>1. Resident /\ fp \in FpRec /\ view \in Nat
  BY TInvGives DEF IInv
<1>2. fp.off \in Int
  BY <1>1, FpFields
<1>3. ASSUME fp.at = "mincore" PROVE fp.off + MincoreLen <= view
  BY <1>1, <1>2, <1>3, MincoreIs DEF Resident
<1>4. ASSUME fp.at = "copy", platform = "darwin" PROVE DataPages \subseteq cached
  BY <1>1, <1>4 DEF Resident, Below, DataPages
<1> QED
  BY <1>3, <1>4 DEF InlineNeverBlocks

LEMMA InitIInv == Init => IInv
<1> SUFFICES ASSUME Init PROVE IInv
  OBVIOUS
<1>1. TInv
  BY InitTInv
<1>2. fp.at = "idle" /\ call.at = "idle" /\ pending = <<>>
  BY NoCallIs, IdleIs DEF Init, InitFp
<1>3. Resident /\ Flight /\ Served /\ Ended /\ NothingCutShort
  BY <1>2 DEF Resident, Flight, Served, Ended, NothingCutShort, Going
<1>4. Ahead
  BY <1>2, HoldsNothing DEF Ahead
<1> QED
  BY <1>1, <1>3, <1>4 DEF IInv

-----------------------------------------------------------------------------
(* The three ways a step leaves a call: over, at an op, in the fast path.  *)

LEMMA OverKeeps ==
  ASSUME TInv', call'.at = "done", Ahead', Ended', NothingCutShort'
  PROVE  IInv'
<1>1. fp'.at = "idle"
  BY StagesOut DEF TInv, Linked
<1>2. Resident' /\ Served' /\ Flight'
  BY <1>1 DEF Resident, Served, Flight, Going
<1> QED
  BY <1>2 DEF IInv

LEMMA OpKeeps ==
  ASSUME TInv', call'.at \in {"op", "sizeOp", "fill", "probe"}, Ahead',
         Fits(content', call', pos', pending'), Staged(call')
  PROVE  IInv'
<1>1. fp'.at = "idle"
  BY StagesOut DEF TInv, Linked
<1>2. Resident' /\ Served' /\ Ended' /\ NothingCutShort'
  BY <1>1 DEF Resident, Served, Ended, NothingCutShort
<1>3. Flight'
  BY DEF Flight
<1> QED
  BY <1>2, <1>3 DEF IInv

LEMMA FastKeeps ==
  ASSUME TInv', call'.at \in Inside, Ahead', Resident', Serves(content', call', fp'),
         Fits(content', call', pos', pending'), Staged(call')
  PROVE  IInv'
<1>1. Ended' /\ NothingCutShort'
  BY DEF Ended, NothingCutShort, Inside
<1>2. Flight' /\ Served'
  BY DEF Flight, Served
<1> QED
  BY <1>1, <1>2 DEF IInv

LEMMA FitsSame ==
  ASSUME NEW f, NEW c, NEW r, NEW p, NEW s, Fits(f, c, p, s),
         r.fn = c.fn, r.n = c.n, r.p0 = c.p0, r.size0 = c.size0, r.seen = c.seen,
         r.base = c.base, r.start = c.start, r.want = c.want, r.acc = c.acc
  PROVE  Fits(f, r, p, s)
BY DEF Fits

\* A plain read goes to the fast path or to an op; other calls to an op.
LEMMA EntersKeeps ==
  ASSUME TInv', Ahead', NEW c \in CallRec, UNCHANGED <<content, platform>>,
         Fits(content, c, pos', pending'),
         (TryFast(c) /\ c.fn \in Plain) \/ AwaitOp(c)
  PROVE  IInv'
<1>1. ASSUME call'.at = "op",
             /\ call'.fn = c.fn /\ call'.n = c.n /\ call'.p0 = c.p0 /\ call'.size0 = c.size0
             /\ call'.seen = c.seen /\ call'.base = c.base /\ call'.start = c.start
             /\ call'.want = c.want /\ call'.acc = c.acc
      PROVE  IInv'
  <2>1. Fits(content', call', pos', pending')
    BY <1>1, FitsSame
  <2>2. Staged(call')
    BY <1>1 DEF Staged
  <2> QED
    BY <1>1, <2>1, <2>2, OpKeeps
<1>2. CASE AwaitOp(c)
  BY <1>1, <1>2, AwaitOpIs
<1>3. CASE TryFast(c) /\ c.fn \in Plain /\ ~fast
  BY <1>1, <1>3, TryFastIs
<1>4. CASE TryFast(c) /\ c.fn \in Plain /\ fast
  <2>1. c.start \in Nat /\ c.want \in Nat
    BY DEF CallRec
  <2>2. /\ call'.at = "fast" /\ fp' = CallRead(c.start, c.want)
        /\ call'.fn = c.fn /\ call'.n = c.n /\ call'.p0 = c.p0 /\ call'.size0 = c.size0
        /\ call'.seen = c.seen /\ call'.base = c.base /\ call'.start = c.start
        /\ call'.want = c.want /\ call'.acc = c.acc
    BY <1>4, TryFastIs
  <2>3. /\ fp'.at \in {"back", "copy", "view"} /\ (fp'.at = "copy" => platform = "linux")
        /\ fp'.fn = "read" /\ fp'.pos = c.start /\ fp'.len = c.want /\ fp'.out.data = <<>>
        /\ ~fp'.out.some
    BY <2>1, <2>2, CallReadIs
  <2>4. Fits(content', call', pos', pending')
    BY <2>2, FitsSame
  <2>5. Staged(call')
    BY <1>4, <2>2 DEF Staged, Plain
  <2>6. Resident'
    BY <2>3 DEF Resident
  <2>7. Serves(content', call', fp')
    <3>1. Holds(content', fp'.out.data, fp'.pos)
      BY <2>3, HoldsNothing
    <3> QED
      BY <1>4, <2>2, <2>3, <3>1 DEF Serves, Plain
  <2> QED
    BY <2>2, <2>4, <2>5, <2>6, <2>7, StagesOut, FastKeeps
<1> QED
  BY <1>2, <1>3, <1>4

-----------------------------------------------------------------------------
(* The calls, up to their first await or system call.                      *)

\* The read-ahead alone serves a call.
LEMMA FromPendingKeeps ==
  ASSUME IInv, Ready, NEW fn \in {"read", "read1", "readinto"}, NEW n \in Nat,
         NEW k \in 0 .. Len(pending), fn # "read1" => k = n, k = 0 => n = 0,
         FromPending(fn, n, k), UNCHANGED fileVars, UNCHANGED restVars
  PROVE  IInv'
<1>1. /\ TInv /\ pos \in Nat /\ Size \in Nat /\ pending \in Seq(Bytes) /\ size_hint \in Nat
      /\ Holds(content, pending, pos)
  BY TInvGives DEF IInv, Ahead
<1>2. PICK c : c = Called(fn, n)
  OBVIOUS
<1>3. c = CallOf(fn, n, pos, Size, pos, 0, 0, <<>>)
  BY <1>2 DEF Called, NoCall, CallOf
<1>4. fn \in Fns /\ fn \in Reads /\ fn \in Movers /\ <<>> \in Seq(Bytes)
  BY BytesIs DEF Fns, Reads, Movers
<1>5. c \in CallRec /\ c.fn = fn /\ c.n = n /\ c.p0 = pos /\ c.base = pos /\ c.size0 = Size
  <2>1. c \in CallRec
    BY <1>1, <1>3, <1>4, CallOfIs
  <2> QED
    BY <1>3, <2>1 DEF CallOf
<1>6. PICK d : d = SubSeq(pending, 1, k)
  OBVIOUS
<1>7. PICK rest : rest = Drop(pending, k)
  OBVIOUS
<1>8. /\ d \in Seq(Bytes) /\ Len(d) = k /\ Holds(content, d, pos)
      /\ rest \in Seq(Bytes) /\ Holds(content, rest, pos + k)
  <2>1. /\ SubSeq(pending, 1, k) \in Seq(Bytes) /\ Len(SubSeq(pending, 1, k)) = k
        /\ Holds(content, SubSeq(pending, 1, k), pos)
    BY <1>1, HoldsSplit, SMTT(30)
  <2>2. /\ SubSeq(pending, k + 1, Len(pending)) \in Seq(Bytes)
        /\ Holds(content, SubSeq(pending, k + 1, Len(pending)), pos + k)
    BY <1>1, HoldsSplit, ZenonT(30)
  <2> QED
    BY <1>6, <1>7, <2>1, <2>2 DEF Drop
<1>9. /\ Ends(c, d, FALSE) /\ pending' = rest /\ pos' = pos + k /\ UNCHANGED <<size_hint, fp>>
      /\ content' = content
  BY <1>2, <1>6, <1>7 DEF FromPending, fileVars
<1>10. /\ call'.at = "done" /\ call'.fn = fn /\ call'.n = n /\ call'.p0 = pos
       /\ call'.base = pos /\ call'.size0 = Size /\ call'.data = d /\ ~call'.raised
  BY <1>5, <1>8, <1>9, EndsIs
<1>11. TInv'
  <2>1. PlaceTyped'
    BY <1>1, <1>8, <1>9 DEF PlaceTyped
  <2> QED
    BY <1>1, <1>5, <1>8, <1>9, <2>1, StartKeeps
<1>12. Ahead'
  BY <1>8, <1>9 DEF Ahead
<1>13. Ended'
  BY <1>4, <1>8, <1>9, <1>10 DEF Ended, Over
<1>14. NothingCutShort'
  <2>1. fn = "read1" => d # <<>> \/ n = 0
    BY <1>8
  <2> QED
    BY <1>8, <1>10, <2>1 DEF NothingCutShort
<1> QED
  BY <1>10, <1>11, <1>12, <1>13, <1>14, OverKeeps

\* A call that goes on to the fast path or to an op.
LEMMA CallKeeps ==
  ASSUME IInv, Ready, NEW c \in CallRec, UNCHANGED fileVars, UNCHANGED restVars, PlaceTyped', Ahead',
         Fits(content, c, pos', pending'),
         (TryFast(c) /\ c.fn \in Plain) \/ AwaitOp(c)
  PROVE  IInv'
<1>1. TInv'
  BY StartKeeps DEF IInv
<1>2. UNCHANGED <<content, platform>>
  BY DEF fileVars
<1> QED
  BY <1>1, <1>2, EntersKeeps

LEMMA ReadKeeps ==
  ASSUME IInv, NEW n \in Nat, Read(n)
  PROVE  IInv'
<1>1. /\ pos \in Nat /\ Size \in Nat /\ pending \in Seq(Bytes) /\ size_hint \in Nat
      /\ Len(pending) \in Nat /\ Holds(content, pending, pos)
  BY TInvGives DEF IInv, Ahead
<1>2. Ready /\ UNCHANGED fileVars /\ UNCHANGED restVars
  BY DEF Read
<1>3. CASE Len(pending) >= n /\ FromPending("read", n, n)
  <2>1. n \in 0 .. Len(pending)
    BY <1>1, <1>3
  <2> QED
    BY <1>2, <1>3, <2>1, FromPendingKeeps
<1>4. CASE /\ Len(pending) < n
           /\ pending' = <<>>
           /\ TryFast([Called("read", n) EXCEPT !.start = RestStart, !.acc = pending,
                                                !.want = n - Len(pending)])
           /\ UNCHANGED <<pos, size_hint>>
  <2>1. PICK c : c = [Called("read", n) EXCEPT !.start = RestStart, !.acc = pending,
                                               !.want = n - Len(pending)]
    OBVIOUS
  <2>2. c = CallOf("read", n, pos, Size, pos, pos + Len(pending), n - Len(pending), pending)
    BY <2>1 DEF Called, NoCall, CallOf, RestStart
  <2>3. "read" \in Fns /\ "read" \in Plain
    BY DEF Fns, Plain, Reads, Movers
  <2>4. pos + Len(pending) \in Nat /\ n - Len(pending) \in Nat
    BY <1>1, <1>4
  <2>5. /\ c \in CallRec
        /\ c.fn = "read" /\ c.n = n /\ c.p0 = pos /\ c.base = pos /\ c.size0 = Size
        /\ c.acc = pending /\ c.seen = 0 /\ c.start = pos + Len(pending) /\ c.want = n - Len(pending)
    <3>1. c \in CallRec
      BY <1>1, <2>2, <2>3, <2>4, CallOfIs
    <3> QED
      BY <2>2, <3>1 DEF CallOf
  <2>6. TryFast(c)
    BY <1>4, <2>1
  <2>7. PlaceTyped' /\ Ahead'
    BY <1>1, <1>4, BytesIs, HoldsNothing DEF PlaceTyped, Ahead
  <2>8. Fits(content, c, pos', pending')
    BY <1>1, <1>4, <2>5 DEF Fits, Size
  <2> QED
    BY <1>2, <2>3, <2>5, <2>6, <2>7, <2>8, CallKeeps
<1> QED
  BY <1>3, <1>4 DEF Read

\* A line that is complete, or ends with the file.
LEMMA TakeLineKeeps ==
  ASSUME TInv', TInv, content' = content, NEW c \in CallRec, NEW buf \in Seq(Bytes), TakeLine(c, buf),
         c.fn = "readline", c.p0 = pos, c.base = pos, Holds(content, buf, pos),
         HasNewline(buf) \/ Len(buf) >= c.n \/ c.size0 <= pos + Len(buf)
  PROVE  IInv'
<1>1. PICK end : end = LineEnd(buf, c.n)
  OBVIOUS
<1>2. c.n \in Nat /\ c.size0 \in Nat /\ pos \in Nat /\ Len(buf) \in Nat /\ DOMAIN buf = 1 .. Len(buf)
  BY TInvGives DEF CallRec
<1>3. /\ end \in 0 .. Len(buf) /\ end <= c.n
      /\ \/ end = c.n \/ end = Len(buf)
         \/ end \in 1 .. Len(buf) /\ buf[end] \in Newlines
      /\ \A i \in 1 .. Len(buf) : buf[i] \in Newlines => end <= i
  BY ONLY <1>1, <1>2, buf \in Seq(Bytes), LineEndIs, ZenonT(30)
<1>15. Len(buf) \in Nat /\ end \in Nat /\ end <= Len(buf) /\ end \in 0 .. Len(buf)
  <2>1. end \in 0 .. Len(buf)
    BY <1>3
  <2>2. Len(buf) \in Nat
    BY <1>2
  <2> QED
    BY ONLY <2>1, <2>2
<1>4. PICK d : d = SubSeq(buf, 1, end)
  OBVIOUS
<1>5. PICK rest : rest = Drop(buf, end)
  OBVIOUS
<1>6. /\ d \in Seq(Bytes) /\ Len(d) = end /\ Holds(content, d, pos)
      /\ \A i \in 1 .. end : d[i] = buf[i]
      /\ rest \in Seq(Bytes) /\ Holds(content, rest, pos + end)
  BY <1>2, <1>15, <1>4, <1>5, HoldsSplit DEF Drop
<1>7. Ends(c, d, FALSE) /\ pending' = rest /\ pos' = pos + end
  BY <1>1, <1>4, <1>5 DEF TakeLine
<1>8. /\ call'.at = "done" /\ call'.fn = "readline" /\ call'.n = c.n /\ call'.p0 = pos
      /\ call'.base = pos /\ call'.size0 = c.size0 /\ call'.data = d /\ ~call'.raised
  BY <1>6, <1>7, EndsIs
<1>9. Ahead'
  BY <1>6, <1>7 DEF Ahead
<1>10. Ended'
  <2>1. "readline" \in Reads /\ "readline" \in Movers
    BY DEF Reads, Movers
  <2> QED
    BY <1>6, <1>7, <1>8, <2>1 DEF Ended, Over
<1> DEFINE lines == {i \in DOMAIN d : d[i] \in Newlines}
<1>11. lines \subseteq {end}
  <2> SUFFICES ASSUME NEW i \in 1 .. end, d[i] \in Newlines PROVE i = end
    BY <1>6
  <2>1. i \in 1 .. Len(buf) /\ buf[i] \in Newlines
    <3>1. i \in Nat /\ 1 <= i /\ i <= end /\ end <= Len(buf)
      BY ONLY <1>15, i \in 1 .. end
    <3> QED
      BY ONLY <1>15, <1>6, <3>1, i \in 1 .. end, d[i] \in Newlines
  <2>2. end <= i
    BY <1>3, <2>1
  <2> QED
    BY <1>3, <2>2
<1>12. ASSUME end \in 1 .. Len(buf), buf[end] \in Newlines PROVE lines # {}
  <2>1. end \in DOMAIN d /\ d[end] \in Newlines
    BY <1>3, <1>6, <1>12
  <2> QED
    BY <2>1
<1>13. lines # {} \/ end = c.n \/ pos + end >= c.size0
  <2>1. CASE end = Len(buf) /\ HasNewline(buf)
    <3>1. PICK i \in 1 .. Len(buf) : buf[i] \in Newlines
      BY <1>2, <2>1 DEF HasNewline
    <3>3. end = Len(buf)
      BY <2>1
    <3>2. i = end
      <4>1. end <= i
        BY <1>3, <3>1
      <4> QED
        BY ONLY <1>15, <3>3, <4>1, i \in 1 .. Len(buf)
    <3> QED
      BY <1>12, <3>1, <3>2
  <2>2. CASE end = Len(buf) /\ Len(buf) >= c.n
    BY <1>2, <1>3, <2>2
  <2>3. CASE end = Len(buf) /\ c.size0 <= pos + Len(buf)
    BY <1>2, <2>3
  <2> QED
    BY <1>3, <1>12, <2>1, <2>2, <2>3
<1>14. NothingCutShort'
  BY <1>6, <1>8, <1>11, <1>13 DEF NothingCutShort
<1> QED
  BY <1>8, <1>9, <1>10, <1>14, OverKeeps

\* The first layer, for a call that begins.
LEMMA StartLinked ==
  ASSUME TInv, Ready, UNCHANGED fileVars, UNCHANGED restVars, PlaceTyped',
         call' \in CallRec, fp' \in FpRec, fp'.at # "idle" <=> call'.at \in Inside,
         fp'.at = "open" => fp'.fn = "read_file"
  PROVE  TInv'
<1>1. fp.at = "idle" /\ is_open /\ FileTyped' /\ RestTyped' /\ UNCHANGED owned
  BY ReadyIs, FileSame, RestSame
<1>2. is_open'
  BY <1>1 DEF restVars
<1> QED
  BY <1>1, <1>2, Keeps

LEMMA ReadlineKeeps ==
  ASSUME IInv, NEW n \in Nat, Readline(n)
  PROVE  IInv'
<1>1. /\ pos \in Nat /\ Size \in Nat /\ pending \in Seq(Bytes) /\ size_hint \in Nat /\ TInv
      /\ Len(pending) \in Nat /\ Holds(content, pending, pos)
  BY TInvGives DEF IInv, Ahead
<1>2. Ready /\ UNCHANGED fileVars /\ UNCHANGED restVars
  BY DEF Readline
<1>3. PICK c : c = [Called("readline", n) EXCEPT !.start = RestStart, !.want = CHUNK, !.acc = pending]
  OBVIOUS
<1>4. c = CallOf("readline", n, pos, Size, pos, pos + Len(pending), CHUNK, pending)
  BY <1>3 DEF Called, NoCall, CallOf, RestStart
<1>5. "readline" \in Fns /\ "readline" \in Plain /\ "readline" \in Reads
  BY DEF Fns, Plain, Reads, Movers
<1>6. pos + Len(pending) \in Nat /\ CHUNK \in Nat
  BY <1>1, ChunkAssumption
<1>7. c \in CallRec
  BY <1>1, <1>4, <1>5, <1>6, CallOfIs
<1>8. /\ c.fn = "readline" /\ c.n = n /\ c.p0 = pos /\ c.base = pos /\ c.size0 = Size
      /\ c.acc = pending /\ c.seen = 0 /\ c.start = pos + Len(pending) /\ c.want = CHUNK
  BY <1>4 DEF CallOf
<1>9. CASE (HasNewline(pending) \/ Len(pending) >= n) /\ TakeLine(c, pending)
  <2>1. PlaceTyped' /\ call' \in CallRec /\ call'.at = "done" /\ fp' = Idle
    BY <1>1, <1>7, <1>9, TakeLineTyped
  <2>2. TInv'
    BY <1>1, <1>2, <2>1, IdleIs, StagesOut, StartLinked
  <2>3. content' = content
    BY <1>2 DEF fileVars
  <2> QED
    BY <1>1, <1>7, <1>8, <1>9, <2>2, <2>3, TakeLineKeeps
<1>10. CASE ~HasNewline(pending) /\ Len(pending) < n /\ TryFast(c) /\ UNCHANGED placeVars
  <2>1. PlaceTyped' /\ Ahead'
    BY <1>1, <1>2, <1>10 DEF PlaceTyped, Ahead, placeVars, fileVars
  <2>2. Fits(content, c, pos', pending')
    BY <1>1, <1>8, <1>10 DEF Fits, Size, placeVars
  <2> QED
    BY <1>2, <1>5, <1>7, <1>8, <1>10, <2>1, <2>2, CallKeeps
<1> QED
  BY <1>3, <1>9, <1>10 DEF Readline

LEMMA Read1Keeps ==
  ASSUME IInv, NEW n \in Nat, Read1(n)
  PROVE  IInv'
<1>1. /\ pos \in Nat /\ Size \in Nat /\ pending \in Seq(Bytes) /\ size_hint \in Nat
      /\ Len(pending) \in Nat /\ Holds(content, pending, pos)
  BY TInvGives DEF IInv, Ahead
<1>2. Ready /\ UNCHANGED fileVars /\ UNCHANGED restVars
  BY DEF Read1
<1>3. CASE pending # <<>> /\ FromPending("read1", n, Min({n, Len(pending)}))
  <2>1. PICK k : k = Min({n, Len(pending)})
    OBVIOUS
  <2>2. k = IF n <= Len(pending) THEN n ELSE Len(pending)
    BY <1>1, <2>1, MinOfTwo
  <2>3. Len(pending) # 0
    BY <1>1, <1>3
  <2>4. k \in 0 .. Len(pending) /\ (k = 0 => n = 0)
    BY <1>1, <2>2, <2>3
  <2> QED
    BY <1>2, <1>3, <2>1, <2>4, FromPendingKeeps
<1>4. CASE /\ pending = <<>>
           /\ TryFast([Called("read1", n) EXCEPT !.start = pos, !.want = n])
           /\ UNCHANGED placeVars
  <2>1. PICK c : c = [Called("read1", n) EXCEPT !.start = pos, !.want = n]
    OBVIOUS
  <2>2. c = CallOf("read1", n, pos, Size, pos, pos, n, <<>>)
    BY <2>1 DEF Called, NoCall, CallOf
  <2>3. "read1" \in Fns /\ "read1" \in Plain
    BY DEF Fns, Plain, Reads, Movers
  <2>4. c \in CallRec
    BY <1>1, <2>2, <2>3, BytesIs, CallOfIs
  <2>5. /\ c.fn = "read1" /\ c.n = n /\ c.p0 = pos /\ c.base = pos /\ c.size0 = Size
        /\ c.acc = <<>> /\ c.seen = 0 /\ c.start = pos /\ c.want = n
    BY <2>2 DEF CallOf
  <2>6. PlaceTyped' /\ Ahead'
    BY <1>1, <1>2, <1>4 DEF PlaceTyped, Ahead, placeVars, fileVars
  <2>7. Fits(content, c, pos', pending')
    BY <1>1, <1>4, <2>5, HoldsNothing, BytesIs DEF Fits, Size, placeVars
  <2> QED
    BY <1>2, <1>4, <2>1, <2>3, <2>4, <2>5, <2>6, <2>7, CallKeeps
<1> QED
  BY <1>3, <1>4 DEF Read1

LEMMA ReadAtKeeps ==
  ASSUME IInv, NEW p \in Nat, ReadAt(p, CHUNK)
  PROVE  IInv'
<1>1. /\ pos \in Nat /\ Size \in Nat /\ pending \in Seq(Bytes) /\ size_hint \in Nat
      /\ Holds(content, pending, pos)
  BY TInvGives DEF IInv, Ahead
<1>2. call.at = "idle" /\ UNCHANGED fileVars /\ UNCHANGED restVars /\ UNCHANGED placeVars
  BY DEF ReadAt
<1>3. PICK c : c = [Called("read_at", CHUNK) EXCEPT !.base = p, !.start = p, !.want = CHUNK]
  OBVIOUS
<1>4. c = CallOf("read_at", CHUNK, pos, Size, p, p, CHUNK, <<>>)
  BY <1>3 DEF Called, NoCall, CallOf
<1>5. "read_at" \in Fns /\ "read_at" \in Plain
  BY DEF Fns, Plain, Reads, Movers
<1>6. c \in CallRec
  BY <1>1, <1>4, <1>5, BytesIs, ChunkAssumption, CallOfIs
<1>7. /\ c.fn = "read_at" /\ c.n = CHUNK /\ c.p0 = pos /\ c.base = p /\ c.size0 = Size
      /\ c.acc = <<>> /\ c.seen = 0 /\ c.start = p /\ c.want = CHUNK
  BY <1>4 DEF CallOf
<1>8. PlaceTyped' /\ Ahead'
  BY <1>1, <1>2 DEF PlaceTyped, Ahead, placeVars, fileVars
<1>9. Fits(content, c, pos', pending')
  BY <1>1, <1>2, <1>7, HoldsNothing, BytesIs DEF Fits, Size, placeVars
<1>10. TryFast(c)
  BY <1>3 DEF ReadAt
<1>11. CASE is_open
  <2>1. Ready
    BY <1>2, <1>11 DEF Ready
  <2> QED
    BY <1>2, <1>5, <1>6, <1>7, <1>8, <1>9, <1>10, <2>1, CallKeeps
<1>12. CASE ~is_open
  <2>1. TInv /\ fp.at = "idle" /\ pending = <<>> /\ ~fast
    BY <1>2, <1>12, StagesOut DEF IInv, TInv, Linked
  <2>2. FileTyped' /\ RestTyped' /\ UNCHANGED owned
    BY <1>2, <2>1, FileSame, RestSame
  <2>3. pending' = <<>> /\ ~fast'
    BY <1>2, <2>1 DEF placeVars, restVars
  <2>4. /\ call' \in CallRec /\ fp' \in FpRec /\ call'.at = "op" /\ fp' = Idle
        /\ call'.fn = "read_at"
    BY <1>6, <1>7, <1>10, <2>1, TryFastIs
  <2>5. TInv'
    BY <1>8, <2>1, <2>2, <2>3, <2>4, IdleIs, StagesOut, Keeps
  <2>6. UNCHANGED <<content, platform>>
    BY <1>2 DEF fileVars
  <2> QED
    BY <1>5, <1>6, <1>7, <1>8, <1>9, <1>10, <2>5, <2>6, EntersKeeps
<1> QED
  BY <1>11, <1>12

LEMMA ReadintoKeeps ==
  ASSUME IInv, NEW n \in Nat, Readinto(n)
  PROVE  IInv'
<1>1. /\ pos \in Nat /\ Size \in Nat /\ pending \in Seq(Bytes) /\ size_hint \in Nat
      /\ Len(pending) \in Nat /\ Holds(content, pending, pos)
  BY TInvGives DEF IInv, Ahead
<1>2. Ready /\ UNCHANGED fileVars /\ UNCHANGED restVars
  BY DEF Readinto
<1>3. CASE pending # <<>> /\ Len(pending) >= n /\ FromPending("readinto", n, n)
  <2>1. n \in 0 .. Len(pending)
    BY <1>1, <1>3
  <2> QED
    BY <1>2, <1>3, <2>1, FromPendingKeeps
<1>4. CASE /\ pending = <<>> \/ Len(pending) < n
           /\ pending' = <<>>
           /\ pos' = RestStart
           /\ TryFast([Called("readinto", n) EXCEPT !.start = RestStart, !.acc = pending,
                                                    !.want = n - Len(pending)])
           /\ UNCHANGED size_hint
  <2>1. PICK c : c = [Called("readinto", n) EXCEPT !.start = RestStart, !.acc = pending,
                                                   !.want = n - Len(pending)]
    OBVIOUS
  <2>2. c = CallOf("readinto", n, pos, Size, pos, pos + Len(pending), n - Len(pending), pending)
    BY <2>1 DEF Called, NoCall, CallOf, RestStart
  <2>3. "readinto" \in Fns /\ "readinto" \in Plain
    BY DEF Fns, Plain, Reads, Movers
  <2>4. pos + Len(pending) \in Nat /\ n - Len(pending) \in Nat /\ Len(pending) <= n
    BY <1>1, <1>4, BytesIs
  <2>5. c \in CallRec
    BY <1>1, <2>2, <2>3, <2>4, CallOfIs
  <2>6. /\ c.fn = "readinto" /\ c.n = n /\ c.p0 = pos /\ c.base = pos /\ c.size0 = Size
        /\ c.acc = pending /\ c.seen = 0 /\ c.start = pos + Len(pending) /\ c.want = n - Len(pending)
    BY <2>2 DEF CallOf
  <2>7. TryFast(c)
    BY <1>4, <2>1
  <2>8. PlaceTyped' /\ Ahead'
    BY <1>1, <1>4, <2>4, BytesIs, HoldsNothing DEF PlaceTyped, Ahead, RestStart
  <2>9. Fits(content, c, pos', pending')
    BY <1>1, <1>4, <2>4, <2>6 DEF Fits, Size, RestStart
  <2> QED
    BY <1>2, <2>3, <2>5, <2>6, <2>7, <2>8, <2>9, CallKeeps
<1> QED
  BY <1>3, <1>4 DEF Readinto

LEMMA PeekKeeps ==
  ASSUME IInv, Peek
  PROVE  IInv'
<1>1. /\ pos \in Nat /\ Size \in Nat /\ pending \in Seq(Bytes) /\ size_hint \in Nat /\ TInv
      /\ Len(pending) \in Nat /\ Holds(content, pending, pos)
  BY TInvGives DEF IInv, Ahead
<1>2. Ready /\ UNCHANGED fileVars /\ UNCHANGED restVars /\ UNCHANGED placeVars
  BY DEF Peek
<1>3. PlaceTyped' /\ Ahead'
  BY <1>1, <1>2 DEF PlaceTyped, Ahead, placeVars, fileVars
<1>4. "peek" \in Fns /\ "peek" \in Plain /\ "peek" \in Reads /\ "peek" \notin Movers
  BY DEF Fns, Plain, Reads, Movers
<1>5. CASE pending # <<>> /\ Ends(Called("peek", 0), pending, FALSE) /\ UNCHANGED fp
  <2>1. PICK c : c = Called("peek", 0)
    OBVIOUS
  <2>2. c = CallOf("peek", 0, pos, Size, pos, 0, 0, <<>>)
    BY <2>1 DEF Called, NoCall, CallOf
  <2>3. c \in CallRec
    BY <1>1, <1>4, <2>2, BytesIs, CallOfIs
  <2>4. c.fn = "peek" /\ c.p0 = pos /\ c.base = pos
    BY <2>2 DEF CallOf
  <2>5. Ends(c, pending, FALSE)
    BY <1>5, <2>1
  <2>6. /\ call'.at = "done" /\ call'.fn = "peek" /\ call'.p0 = pos
        /\ call'.base = pos /\ call'.data = pending /\ ~call'.raised
    BY <1>1, <2>3, <2>4, <2>5, EndsIs
  <2>7. TInv'
    BY <1>1, <1>2, <1>3, <1>5, <2>3, <2>5, StartKeeps
  <2>8. Ended'
    BY <1>1, <1>2, <1>4, <2>6 DEF Ended, Over, placeVars, fileVars
  <2>9. NothingCutShort'
    BY <1>5, <2>6 DEF NothingCutShort
  <2> QED
    BY <1>3, <2>6, <2>7, <2>8, <2>9, OverKeeps
<1>6. CASE pending = <<>> /\ TryFast([Called("peek", 0) EXCEPT !.start = pos, !.want = CHUNK])
  <2>1. PICK c : c = [Called("peek", 0) EXCEPT !.start = pos, !.want = CHUNK]
    OBVIOUS
  <2>2. c = CallOf("peek", 0, pos, Size, pos, pos, CHUNK, <<>>)
    BY <2>1 DEF Called, NoCall, CallOf
  <2>3. c \in CallRec
    BY <1>1, <1>4, <2>2, BytesIs, ChunkAssumption, CallOfIs
  <2>4. /\ c.fn = "peek" /\ c.n = 0 /\ c.p0 = pos /\ c.base = pos /\ c.size0 = Size
        /\ c.acc = <<>> /\ c.seen = 0 /\ c.start = pos /\ c.want = CHUNK
    BY <2>2 DEF CallOf
  <2>5. Fits(content, c, pos', pending')
    BY <1>1, <1>2, <1>6, <2>4, HoldsNothing, BytesIs DEF Fits, Size, placeVars
  <2> QED
    BY <1>2, <1>3, <1>4, <1>6, <2>1, <2>3, <2>4, <2>5, CallKeeps
<1> QED
  BY <1>5, <1>6 DEF Peek

\* A call that enters the fast path by another method than read.
LEMMA MethodKeeps ==
  ASSUME IInv, Ready, NEW c \in CallRec, UNCHANGED fileVars, UNCHANGED restVars, PlaceTyped', Ahead',
         Fits(content, c, pos', pending'), fp' \in FpRec, fp'.at \in {"size", "open"},
         fp'.at = "open" => fp'.fn = "read_file",
         fp'.out.data = <<>>, ~fp'.out.some, NEW at \in {"fast", "size"}, call' = [c EXCEPT !.at = at],
         at = "size" => c.fn = "read_all" /\ fp'.fn = "size",
         at = "fast" => /\ fp'.pos = c.start
                        /\ \/ c.fn = "read_all" /\ fp'.fn = "read_all"
                           \/ c.fn = "read_bytes" /\ fp'.fn = "read_file"
  PROVE  IInv'
<1>1. at \in Stages /\ at \in Inside
  BY DEF Stages, Inside
<1>2. /\ call' \in CallRec /\ call'.at = at
      /\ call'.fn = c.fn /\ call'.n = c.n /\ call'.p0 = c.p0 /\ call'.size0 = c.size0
      /\ call'.seen = c.seen /\ call'.base = c.base /\ call'.start = c.start
      /\ call'.want = c.want /\ call'.acc = c.acc
  BY <1>1, CallAt
<1>3. TInv'
  BY <1>1, <1>2, StartLinked DEF IInv
<1>4. content' = content
  BY DEF fileVars
<1>5. Fits(content', call', pos', pending')
  BY <1>2, <1>4, FitsSame
<1>6. Staged(call')
  BY <1>2 DEF Staged, Reads, Movers
<1>7. Resident'
  BY DEF Resident
<1>8. Serves(content', call', fp')
  <2>1. Holds(content', fp'.out.data, fp'.pos)
    BY HoldsNothing
  <2> QED
    BY <1>2, <2>1 DEF Serves, Plain
<1> QED
  BY <1>1, <1>2, <1>3, <1>5, <1>6, <1>7, <1>8, FastKeeps

LEMMA ReadAllKeeps ==
  ASSUME IInv, ReadAll
  PROVE  IInv'
<1>1. /\ pos \in Nat /\ Size \in Nat /\ pending \in Seq(Bytes) /\ size_hint \in Nat /\ TInv
      /\ Len(pending) \in Nat /\ Holds(content, pending, pos) /\ fp \in FpRec
  BY TInvGives DEF IInv, Ahead
<1>2. Ready /\ UNCHANGED fileVars /\ UNCHANGED restVars /\ UNCHANGED placeVars
  BY DEF ReadAll
<1>3. PlaceTyped' /\ Ahead' /\ content' = content
  BY <1>1, <1>2 DEF PlaceTyped, Ahead, placeVars, fileVars
<1>4. "read_all" \in Fns
  BY DEF Fns, Reads, Movers
<1>5. PICK c : c = [Called("read_all", 0) EXCEPT !.start = RestStart, !.want = MaxSize]
  OBVIOUS
<1>6. c = CallOf("read_all", 0, pos, Size, pos, pos + Len(pending), MaxSize, <<>>)
  BY <1>5 DEF Called, NoCall, CallOf, RestStart
<1>7. c \in CallRec
  <2>1. pos + Len(pending) \in Nat
    BY <1>1
  <2> QED
    BY <1>1, <1>4, <1>6, <2>1, BytesIs, SizeAssumption, CallOfIs
<1>8. /\ c.fn = "read_all" /\ c.n = 0 /\ c.p0 = pos /\ c.base = pos /\ c.size0 = Size
      /\ c.acc = <<>> /\ c.seen = 0 /\ c.start = pos + Len(pending) /\ c.want = MaxSize
  BY <1>6 DEF CallOf
<1>9. Fits(content, c, pos', pending')
  BY <1>1, <1>2, <1>8, HoldsNothing, BytesIs DEF Fits, Size, placeVars
<1>10. CASE call' = [c EXCEPT !.at = "size"] /\ fp' = CallSize
  BY <1>2, <1>3, <1>7, <1>8, <1>9, <1>10, CallSizeIs, MethodKeeps
<1>11. CASE call' = [c EXCEPT !.at = "sizeOp"] /\ UNCHANGED fp
  <2>1. "sizeOp" \in Stages
    BY DEF Stages
  <2>2. /\ call' \in CallRec /\ call'.at = "sizeOp"
        /\ call'.fn = c.fn /\ call'.n = c.n /\ call'.p0 = c.p0 /\ call'.size0 = c.size0
        /\ call'.seen = c.seen /\ call'.base = c.base /\ call'.start = c.start
        /\ call'.want = c.want /\ call'.acc = c.acc
    BY <1>7, <1>11, <2>1, CallAt
  <2>3. TInv'
    BY <1>1, <1>2, <1>3, <1>11, <2>2, ReadyIs, StagesOut, StartLinked
  <2>4. Fits(content', call', pos', pending')
    BY <1>3, <1>9, <2>2, FitsSame
  <2>5. Staged(call')
    BY <1>8, <2>2 DEF Staged
  <2> QED
    BY <1>3, <2>2, <2>3, <2>4, <2>5, OpKeeps
<1>12. CASE call' = [c EXCEPT !.at = "fast"] /\ fp' = CallReadAll(c.start)
  <2>1. c.start \in Nat
    BY <1>1, <1>8
  <2>2. /\ fp' \in FpRec /\ fp'.at = "size" /\ fp'.fn = "read_all" /\ fp'.pos = c.start
        /\ fp'.out.data = <<>> /\ ~fp'.out.some
    BY <1>12, <2>1, CallReadAllIs
  <2> QED
    BY <1>2, <1>3, <1>7, <1>8, <1>9, <1>12, <2>2, MethodKeeps
<1>13. CASE AwaitOp(c)
  BY <1>2, <1>3, <1>7, <1>9, <1>13, CallKeeps
<1> QED
  BY <1>5, <1>10, <1>11, <1>12, <1>13 DEF ReadAll

LEMMA ReadBytesKeeps ==
  ASSUME IInv, ReadBytes
  PROVE  IInv'
<1>1. /\ pos \in Nat /\ Size \in Nat /\ pending \in Seq(Bytes) /\ size_hint \in Nat
      /\ Holds(content, pending, pos)
  BY TInvGives DEF IInv, Ahead
<1>2. Ready /\ UNCHANGED fileVars /\ UNCHANGED restVars /\ UNCHANGED placeVars
  BY DEF ReadBytes
<1>3. PlaceTyped' /\ Ahead'
  BY <1>1, <1>2 DEF PlaceTyped, Ahead, placeVars, fileVars
<1>4. "read_bytes" \in Fns
  BY DEF Fns, Reads, Movers
<1>5. PICK c : c = [Called("read_bytes", 0) EXCEPT !.base = 0, !.want = MaxSize]
  OBVIOUS
<1>6. c = CallOf("read_bytes", 0, pos, Size, 0, 0, MaxSize, <<>>)
  BY <1>5 DEF Called, NoCall, CallOf
<1>7. c \in CallRec
  BY <1>1, <1>4, <1>6, BytesIs, SizeAssumption, CallOfIs
<1>8. /\ c.fn = "read_bytes" /\ c.n = 0 /\ c.p0 = pos /\ c.base = 0 /\ c.size0 = Size
      /\ c.acc = <<>> /\ c.seen = 0 /\ c.start = 0 /\ c.want = MaxSize
  BY <1>6 DEF CallOf
<1>9. Fits(content, c, pos', pending')
  BY <1>1, <1>2, <1>8, HoldsNothing, BytesIs DEF Fits, Size, placeVars
<1>10. CASE call' = [c EXCEPT !.at = "fast"] /\ fp' = CallReadFile
  BY <1>2, <1>3, <1>7, <1>8, <1>9, <1>10, CallReadFileIs, MethodKeeps
<1>11. CASE AwaitOp(c)
  BY <1>2, <1>3, <1>7, <1>9, <1>11, CallKeeps
<1> QED
  BY <1>5, <1>10, <1>11 DEF ReadBytes

\* The calls that begin with an op and may change more than the records.
LEMMA OpStarts ==
  ASSUME IInv, Ready, NEW c \in CallRec, UNCHANGED fileVars, RestTyped', PlaceTyped', Ahead', AwaitOp(c),
         is_open' \/ (pending' = <<>> /\ ~fast' /\ c.fn = "close"),
         Fits(content, c, pos', pending')
  PROVE  IInv'
<1>1. TInv /\ fp.at = "idle" /\ FileTyped' /\ UNCHANGED owned
  BY ReadyIs, FileSame DEF IInv
<1>2. call' \in CallRec /\ fp' \in FpRec /\ call'.at = "op" /\ fp' = Idle /\ call'.fn = c.fn
  BY AwaitOpIs
<1>3. TInv'
  BY <1>1, <1>2, IdleIs, StagesOut, Keeps
<1>4. UNCHANGED <<content, platform>>
  BY DEF fileVars
<1> QED
  BY <1>3, <1>4, EntersKeeps

LEMMA WriteKeeps ==
  ASSUME IInv, NEW n \in Nat, Write(n)
  PROVE  IInv'
<1>1. /\ pos \in Nat /\ Size \in Nat /\ size_hint \in Nat /\ RestTyped
  BY TInvGives DEF IInv, TInv, Typed
<1>2. /\ Ready /\ Changing /\ UNCHANGED fileVars /\ pending' = <<>>
      /\ UNCHANGED <<pos, size_hint, append, fast, is_open>>
  BY DEF Write
<1>3. PICK c : c = [Called("write", n) EXCEPT !.start = pos, !.want = n]
  OBVIOUS
<1>4. c = CallOf("write", n, pos, Size, pos, pos, n, <<>>)
  BY <1>3 DEF Called, NoCall, CallOf
<1>5. "write" \in Fns /\ "write" \notin Reads
  BY DEF Fns, Reads, Movers
<1>6. c \in CallRec
  BY <1>1, <1>4, <1>5, BytesIs, CallOfIs
<1>7. /\ c.fn = "write" /\ c.p0 = pos /\ c.start = pos /\ c.n = n /\ c.want = n
      /\ c.acc = <<>> /\ c.size0 = Size
  BY <1>4 DEF CallOf
<1>8. RestTyped' /\ is_open'
  BY <1>1, <1>2, ChangesAssumption DEF RestTyped, Changing, Ready
<1>9. PlaceTyped' /\ Ahead'
  BY <1>1, <1>2, BytesIs, HoldsNothing DEF PlaceTyped, Ahead
<1>10. Fits(content, c, pos', pending')
  <2>1. Places(content, Size, <<>>) /\ 0 + n = n
    BY <1>1, PlacesNone DEF Size
  <2> QED
    BY <1>1, <1>2, <1>5, <1>7, <2>1, BytesIs DEF Fits
<1>11. AwaitOp(c)
  BY <1>3 DEF Write
<1> QED
  BY <1>2, <1>6, <1>8, <1>9, <1>10, <1>11, OpStarts

LEMMA TruncateKeeps ==
  ASSUME IInv, NEW n \in Nat, Truncate(n)
  PROVE  IInv'
<1>1. /\ pos \in Nat /\ Size \in Nat /\ size_hint \in Nat /\ RestTyped
  BY TInvGives DEF IInv, TInv, Typed
<1>2. /\ Ready /\ Changing /\ UNCHANGED fileVars /\ pending' = <<>>
      /\ UNCHANGED <<pos, size_hint, append, fast, is_open>>
  BY DEF Truncate
<1>3. PICK c : c = Called("truncate", n)
  OBVIOUS
<1>4. c = CallOf("truncate", n, pos, Size, pos, 0, 0, <<>>)
  BY <1>3 DEF Called, NoCall, CallOf
<1>5. "truncate" \in Fns /\ "truncate" \notin Reads
  BY DEF Fns, Reads, Movers
<1>6. c \in CallRec
  BY <1>1, <1>4, <1>5, BytesIs, CallOfIs
<1>7. c.fn = "truncate" /\ c.p0 = pos
  BY <1>4 DEF CallOf
<1>8. RestTyped' /\ is_open'
  BY <1>1, <1>2, ChangesAssumption DEF RestTyped, Changing, Ready
<1>9. PlaceTyped' /\ Ahead'
  BY <1>1, <1>2, BytesIs, HoldsNothing DEF PlaceTyped, Ahead
<1>10. Fits(content, c, pos', pending')
  BY <1>1, <1>2, <1>5, <1>7 DEF Fits
<1>11. AwaitOp(c)
  BY <1>3 DEF Truncate
<1> QED
  BY <1>2, <1>6, <1>8, <1>9, <1>10, <1>11, OpStarts

LEMMA SeekEndKeeps ==
  ASSUME IInv, NEW n \in Nat, SeekEnd(n)
  PROVE  IInv'
<1>1. /\ pos \in Nat /\ Size \in Nat /\ size_hint \in Nat /\ TInv
      /\ pending \in Seq(Bytes) /\ Holds(content, pending, pos)
  BY TInvGives DEF IInv, Ahead
<1>2. /\ Ready /\ UNCHANGED fileVars /\ UNCHANGED placeVars /\ UNCHANGED restVars
  BY DEF SeekEnd
<1>3. PICK c : c = Called("seekEnd", n)
  OBVIOUS
<1>4. c = CallOf("seekEnd", n, pos, Size, pos, 0, 0, <<>>)
  BY <1>3 DEF Called, NoCall, CallOf
<1>5. "seekEnd" \in Fns /\ "seekEnd" \notin Reads
  BY DEF Fns, Reads, Movers
<1>6. c \in CallRec
  BY <1>1, <1>4, <1>5, BytesIs, CallOfIs
<1>7. c.fn = "seekEnd" /\ c.p0 = pos
  BY <1>4 DEF CallOf
<1>8. RestTyped' /\ is_open'
  BY <1>1, <1>2, RestSame DEF Ready, restVars
<1>9. PlaceTyped' /\ Ahead'
  BY <1>1, <1>2 DEF PlaceTyped, Ahead, placeVars, fileVars
<1>10. Fits(content, c, pos', pending')
  BY <1>1, <1>2, <1>5, <1>7 DEF Fits, placeVars
<1>11. AwaitOp(c)
  BY <1>3 DEF SeekEnd
<1> QED
  BY <1>2, <1>6, <1>8, <1>9, <1>10, <1>11, OpStarts

LEMMA CloseKeeps ==
  ASSUME IInv, Close
  PROVE  IInv'
<1>1. /\ pos \in Nat /\ Size \in Nat /\ size_hint \in Nat /\ RestTyped
  BY TInvGives DEF IInv, TInv, Typed
<1>2. /\ Ready /\ UNCHANGED fileVars /\ pending' = <<>> /\ is_open' = FALSE /\ fast' = FALSE
      /\ UNCHANGED <<pos, size_hint, append, changes>>
  BY DEF Close
<1>3. PICK c : c = Called("close", 0)
  OBVIOUS
<1>4. c = CallOf("close", 0, pos, Size, pos, 0, 0, <<>>)
  BY <1>3 DEF Called, NoCall, CallOf
<1>5. "close" \in Fns /\ "close" \notin Reads
  BY DEF Fns, Reads, Movers
<1>6. c \in CallRec
  BY <1>1, <1>4, <1>5, BytesIs, CallOfIs
<1>7. c.fn = "close" /\ c.p0 = pos
  BY <1>4 DEF CallOf
<1>8. RestTyped'
  BY <1>1, <1>2 DEF RestTyped
<1>9. PlaceTyped' /\ Ahead'
  BY <1>1, <1>2, BytesIs, HoldsNothing DEF PlaceTyped, Ahead
<1>10. Fits(content, c, pos', pending')
  BY <1>1, <1>2, <1>5, <1>7 DEF Fits
<1>11. AwaitOp(c)
  BY <1>3 DEF Close
<1> QED
  BY <1>2, <1>6, <1>7, <1>8, <1>9, <1>10, <1>11, OpStarts

LEMMA SeekKeeps ==
  ASSUME IInv, NEW n \in Nat, Seek(n)
  PROVE  IInv'
<1>1. pos \in Nat /\ Size \in Nat /\ size_hint \in Nat /\ TInv
  BY TInvGives DEF IInv
<1>2. /\ Ready /\ UNCHANGED fileVars /\ pending' = <<>> /\ pos' = n /\ UNCHANGED <<fp, size_hint>>
      /\ UNCHANGED restVars
  BY DEF Seek
<1>3. PICK c : c = Called("seek", n)
  OBVIOUS
<1>4. c = CallOf("seek", n, pos, Size, pos, 0, 0, <<>>)
  BY <1>3 DEF Called, NoCall, CallOf
<1>5. "seek" \in Fns /\ "seek" \notin Reads
  BY DEF Fns, Reads, Movers
<1>6. c \in CallRec
  BY <1>1, <1>4, <1>5, BytesIs, CallOfIs
<1>7. c.fn = "seek"
  BY <1>4 DEF CallOf
<1>8. Ends(c, <<>>, FALSE)
  BY <1>3 DEF Seek
<1>9. call'.at = "done" /\ call'.fn = "seek" /\ ~call'.raised
  BY <1>6, <1>7, <1>8, BytesIs, EndsIs
<1>10. PlaceTyped' /\ Ahead'
  BY <1>1, <1>2, BytesIs, HoldsNothing DEF PlaceTyped, Ahead
<1>11. TInv'
  BY <1>1, <1>2, <1>6, <1>8, <1>10, BytesIs, StartKeeps
<1>12. Ended' /\ NothingCutShort'
  BY <1>5, <1>9 DEF Ended, Over, NothingCutShort
<1> QED
  BY <1>9, <1>10, <1>11, <1>12, OverKeeps

-----------------------------------------------------------------------------
(* Going on with data.                                                     *)

\* The result d of call c is not cut short; lines apart.
Uncut(c, d) ==
  /\ c.fn \in {"read", "readinto"} => Len(d) = c.n \/ c.base + Len(d) >= c.size0
  /\ c.fn = "read_at" => Len(d) = CHUNK \/ c.base + Len(d) >= c.size0
  /\ c.fn \in {"read_all", "read_bytes"} => c.base + Len(d) >= c.seen /\ c.seen >= c.size0
  /\ c.fn \in {"read1", "peek"} =>
       d # <<>> \/ c.base + Len(d) >= c.size0 \/ (c.fn = "read1" /\ c.n = 0)

LEMMA ReturnedKeeps ==
  ASSUME TInv', Ahead', content' = content, NEW c \in CallRec, NEW d \in Seq(Bytes), NEW p,
         Returned(c, d, p), c.fn \in Reads, c.fn # "readline", Holds(content, d, c.base),
         p = IF c.fn \in Movers THEN c.p0 + Len(d) ELSE c.p0, Uncut(c, d)
  PROVE  IInv'
<1>1. Ends(c, d, FALSE) /\ pos' = p
  BY DEF Returned
<1>2. /\ call'.at = "done" /\ call'.fn = c.fn /\ call'.n = c.n /\ call'.p0 = c.p0
      /\ call'.base = c.base /\ call'.size0 = c.size0 /\ call'.seen = c.seen
      /\ call'.data = d /\ ~call'.raised
  BY <1>1, EndsIs
<1>3. "write" \notin Reads
  BY DEF Reads, Movers
<1>4. Ended'
  BY <1>1, <1>2, <1>3 DEF Ended, Over
<1>5. NothingCutShort'
  BY <1>2 DEF NothingCutShort, Uncut
<1> QED
  BY <1>2, <1>4, <1>5, OverKeeps

\* A read of everything, the rest being behind the read-ahead.
LEMMA AllReadKeeps ==
  ASSUME TInv, TInv', Ahead, content' = content, NEW c \in CallRec, NEW d \in Seq(Bytes), NEW p,
         AllRead(c, d, p), c.fn = "read_all", c.base = pos, c.p0 = pos,
         c.start = pos + Len(pending), p = c.start + Len(d), Holds(content, d, c.start),
         c.size0 <= c.seen, c.seen <= c.start + Len(d)
  PROVE  IInv'
<1>1. /\ pos \in Nat /\ pending \in Seq(Bytes) /\ Len(pending) \in Nat /\ Len(d) \in Nat
      /\ Holds(content, pending, pos) /\ c.seen \in Nat /\ c.size0 \in Nat
  BY TInvGives DEF Ahead, CallRec
<1>2. PICK b : b = pending \o d
  OBVIOUS
<1>3. b \in Seq(Bytes) /\ Len(b) = Len(pending) + Len(d) /\ Holds(content, b, pos)
  BY <1>1, <1>2, HoldsConcat
<1>4. Returned(c, b, p) /\ pending' = <<>>
  BY <1>2 DEF AllRead
<1>5. Ahead'
  BY <1>4, HoldsNothing DEF Ahead
<1>6. "read_all" \in Reads /\ "read_all" \in Movers
  BY DEF Reads, Movers
<1>7. Uncut(c, b)
  BY <1>1, <1>3 DEF Uncut
<1>8. p = pos + Len(b)
  BY <1>1, <1>3
<1> QED
  BY <1>3, <1>4, <1>5, <1>6, <1>7, <1>8, ReturnedKeeps

\* What the data of one read, by the fast path or by an op, is to a call.
Complete(c, d) ==
  /\ c.fn \in Plain => Len(d) = c.want \/ c.size0 <= c.start + Len(d)
  /\ c.fn \in {"read_all", "read_bytes"} => c.size0 <= c.seen /\ c.seen <= c.start + Len(d)

LEMMA FitsGives ==
  ASSUME NEW f, NEW c \in CallRec, NEW p, NEW s, Fits(f, c, p, s)
  PROVE  /\ c.n \in Nat /\ c.p0 \in Nat /\ c.base \in Nat /\ c.start \in Nat /\ c.want \in Nat
         /\ c.size0 \in Nat /\ c.seen \in Nat /\ c.acc \in Seq(Bytes) /\ Len(c.acc) \in Nat
         /\ c.fn \in Plain => c.start = c.base + Len(c.acc) /\ Holds(f, c.acc, c.base)
BY DEF Fits, CallRec, Plain

\* With a of n bytes in hand, n - a more are all of them.
LEMMA Rest ==
  ASSUME NEW a \in Nat, NEW l \in Nat, NEW n \in Nat, NEW base \in Nat, NEW end \in Nat,
         l = n - a \/ end <= base + a + l
  PROVE  a + l = n \/ base + (a + l) >= end
OBVIOUS

LEMMA ResumeKeeps ==
  ASSUME TInv, TInv', Ahead, UNCHANGED <<content, platform>>, NEW c \in CallRec, c.fn \in Reads,
         Fits(content, c, pos, pending), NEW d \in Seq(Bytes), Holds(content, d, c.start),
         Complete(c, d), Resume(c, d)
  PROVE  IInv'
<1>1. /\ pos \in Nat /\ pending \in Seq(Bytes) /\ Len(pending) \in Nat /\ Len(d) \in Nat
      /\ Holds(content, pending, pos)
  BY TInvGives DEF Ahead
<1>2. /\ c.n \in Nat /\ c.p0 \in Nat /\ c.base \in Nat /\ c.start \in Nat /\ c.want \in Nat
      /\ c.size0 \in Nat /\ c.seen \in Nat /\ c.acc \in Seq(Bytes) /\ Len(c.acc) \in Nat
      /\ c.fn \in Plain => c.start = c.base + Len(c.acc) /\ Holds(content, c.acc, c.base)
  BY FitsGives
<1>3. PICK b : b = c.acc \o d
  OBVIOUS
<1>4. ASSUME c.fn \in Plain
      PROVE  b \in Seq(Bytes) /\ Len(b) = Len(c.acc) + Len(d) /\ Holds(content, b, c.base)
  BY <1>2, <1>3, <1>4, HoldsConcat
<1>5. /\ {"read", "read1", "readinto", "read_at", "peek", "readline"} \subseteq Plain
      /\ {"read", "read1", "readinto", "readline"} \subseteq Movers
      /\ {"read_at", "read_bytes", "peek"} \cap Movers = {}
  BY DEF Plain, Reads, Movers
<1>6. CASE /\ c.fn = "read" /\ Returned(c, c.acc \o d, pos + Len(c.acc \o d))
           /\ UNCHANGED <<pending, size_hint>>
  <2>1. Returned(c, b, pos + Len(b))
    BY <1>3, <1>6
  <2>2. b \in Seq(Bytes) /\ Len(b) = Len(c.acc) + Len(d) /\ Holds(content, b, c.base)
    BY <1>4, <1>5, <1>6
  <2>3. pos = c.p0 /\ c.base = c.p0 /\ pending = <<>> /\ c.want = c.n - Len(c.acc)
    BY <1>1, <1>2, <1>6 DEF Fits
  <2>4. Ahead'
    BY <1>6, <2>3, HoldsNothing DEF Ahead
  <2>5. Uncut(c, b)
    <3>1. Len(d) = c.want \/ c.size0 <= c.start + Len(d)
      BY <1>5, <1>6 DEF Complete
    <3>2. c.start = c.base + Len(c.acc)
      BY <1>2, <1>5, <1>6
    <3>3. Len(b) = c.n \/ c.base + Len(b) >= c.size0
      BY <1>1, <1>2, <2>2, <2>3, <3>1, <3>2, Rest, ZenonT(30)
    <3> QED
      BY <1>6, <3>3 DEF Uncut
  <2> QED
    BY <1>5, <1>6, <2>1, <2>2, <2>3, <2>4, <2>5, ReturnedKeeps
<1>7. CASE /\ c.fn \in {"read1", "readinto"} /\ Returned(c, c.acc \o d, pos + Len(d))
           /\ UNCHANGED <<pending, size_hint>>
  <2>1. Returned(c, b, pos + Len(d))
    BY <1>3, <1>7
  <2>2. b \in Seq(Bytes) /\ Len(b) = Len(c.acc) + Len(d) /\ Holds(content, b, c.base)
    BY <1>4, <1>5, <1>7
  <2>3. pos = c.p0 + Len(c.acc) /\ c.base = c.p0 /\ pending = <<>>
    BY <1>1, <1>2, <1>7, BytesIs DEF Fits
  <2>4. Ahead'
    BY <1>7, <2>3, HoldsNothing DEF Ahead
  <2>5. Uncut(c, b)
    <3>1. CASE c.fn = "readinto"
      <4>1. Len(d) = c.want \/ c.size0 <= c.start + Len(d)
        BY <1>5, <3>1 DEF Complete
      <4>2. c.start = c.base + Len(c.acc) /\ c.want = c.n - Len(c.acc)
        BY <1>2, <1>5, <3>1 DEF Fits
      <4>3. Len(b) = c.n \/ c.base + Len(b) >= c.size0
        BY <1>1, <1>2, <2>2, <4>1, <4>2, Rest
      <4> QED
        BY <3>1, <4>3 DEF Uncut
    <3>2. CASE c.fn = "read1"
      <4>1. Len(b) = c.n \/ c.base + Len(b) >= c.size0
        BY <1>1, <1>2, <1>5, <2>2, <3>2, BytesIs, SMTT(30) DEF Complete, Fits
      <4>2. b # <<>> \/ Len(b) = 0
        BY <2>2
      <4> QED
        BY <1>2, <3>2, <4>1, <4>2 DEF Uncut
    <3> QED
      BY <1>7, <3>1, <3>2
  <2>6. pos + Len(d) = c.p0 + Len(b)
    BY <1>1, <1>2, <2>2, <2>3
  <2> QED
    BY <1>5, <1>7, <2>1, <2>2, <2>4, <2>5, <2>6, ReturnedKeeps
<1>8. CASE /\ c.fn \in {"read_at", "read_bytes"} /\ Returned(c, d, pos)
           /\ UNCHANGED <<pending, size_hint>>
  <2>1. pos = c.p0 /\ c.start = c.base
    BY <1>1, <1>2, <1>8, BytesIs, SMTT(30) DEF Fits
  <2>2. Ahead'
    BY <1>1, <1>8 DEF Ahead, Returned
  <2>3. Uncut(c, d)
    BY <1>1, <1>2, <1>5, <1>8, <2>1 DEF Uncut, Complete, Fits
  <2> QED
    BY <1>5, <1>8, <2>1, <2>2, <2>3, ReturnedKeeps
<1>9. CASE c.fn = "read_all" /\ AllRead(c, d, pos + Len(pending \o d))
  <2>1. PICK p : p = pos + Len(pending \o d)
    OBVIOUS
  <2>2. Len(pending \o d) = Len(pending) + Len(d)
    BY <1>1
  <2>3. pos = c.p0 /\ c.base = pos /\ c.start = pos + Len(pending)
    BY <1>1, <1>2, <1>9 DEF Fits
  <2>4. p = c.start + Len(d)
    BY <1>1, <2>1, <2>2, <2>3
  <2>5. c.size0 <= c.seen /\ c.seen <= c.start + Len(d)
    BY <1>9 DEF Complete
  <2> QED
    BY <1>9, <2>1, <2>3, <2>4, <2>5, AllReadKeeps
<1>10. CASE c.fn = "peek" /\ pending' = d /\ Returned(c, d, pos) /\ UNCHANGED size_hint
  <2>1. pos = c.p0 /\ c.start = c.base /\ c.base = c.p0
    BY <1>1, <1>2, <1>10, BytesIs DEF Fits
  <2>2. Ahead'
    BY <1>10, <2>1 DEF Ahead, Returned
  <2>3. Uncut(c, d)
    BY <1>1, <1>2, <1>5, <1>10, <2>1, ChunkAssumption, BytesIs DEF Uncut, Complete, Fits
  <2> QED
    BY <1>5, <1>10, <2>1, <2>2, <2>3, ReturnedKeeps
<1>11. ASSUME c.fn = "readline"
       PROVE  /\ pos = c.p0 /\ c.base = c.p0 /\ c.want = CHUNK
              /\ b \in Seq(Bytes) /\ Len(b) = Len(c.acc) + Len(d) /\ Holds(content, b, pos)
              /\ c.start + Len(d) = pos + Len(b)
  <2>1. pos = c.p0 /\ c.base = c.p0 /\ c.want = CHUNK
    BY <1>1, <1>2, <1>11 DEF Fits
  <2>2. b \in Seq(Bytes) /\ Len(b) = Len(c.acc) + Len(d) /\ Holds(content, b, c.base)
    BY <1>4, <1>5, <1>11
  <2>3. c.start = c.base + Len(c.acc)
    BY <1>2, <1>5, <1>11
  <2> QED
    BY <1>1, <1>2, <2>1, <2>2, <2>3
<1>12. CASE /\ c.fn = "readline" /\ (d = <<>> \/ HasNewline(d) \/ Len(b) >= c.n)
            /\ TakeLine(c, b)
  <2>1. ASSUME HasNewline(d) PROVE HasNewline(b)
    <3>1. PICK k \in 1 .. Len(d) : d[k] \in Newlines
      BY <1>1, <2>1 DEF HasNewline
    <3>2. Len(c.acc) + k \in 1 .. Len(b) /\ b[Len(c.acc) + k] = d[k]
      BY <1>1, <1>2, <1>3, <1>11, <1>12
    <3>3. DOMAIN b = 1 .. Len(b)
      BY <1>11, <1>12
    <3> QED
      BY <3>1, <3>2, <3>3 DEF HasNewline
  <2>2. ASSUME d = <<>> PROVE c.size0 <= pos + Len(b)
    <3>1. Len(d) = 0 /\ CHUNK # 0
      BY <2>2, BytesIs, ChunkAssumption
    <3> QED
      BY <1>5, <1>11, <1>12, <3>1 DEF Complete
  <2> QED
    BY <1>11, <1>12, <2>1, <2>2, TakeLineKeeps
<1>13. CASE /\ c.fn = "readline" /\ d # <<>> /\ ~HasNewline(d) /\ Len(b) < c.n
            /\ TryFast([c EXCEPT !.acc = b, !.start = pos + Len(b)])
            /\ UNCHANGED placeVars
  <2>1. PICK k \in Nat : k = pos + Len(b)
    BY <1>1, <1>11, <1>13
  <2>2. PICK r : r = [c EXCEPT !.acc = b, !.start = k]
    OBVIOUS
  <2>3. /\ r \in CallRec /\ r.fn = c.fn /\ r.n = c.n /\ r.p0 = c.p0 /\ r.size0 = c.size0
        /\ r.seen = c.seen /\ r.base = c.base /\ r.want = c.want /\ r.acc = b /\ r.start = k
    BY <1>11, <1>13, <2>2 DEF CallRec
  <2>4. TryFast(r)
    BY <1>13, <2>1, <2>2
  <2>5. ~HasNewline(b)
    <3>1. ASSUME NEW j \in DOMAIN b, b[j] \in Newlines PROVE FALSE
      <4>1. j \in 1 .. Len(c.acc) + Len(d)
        BY <1>11, <1>13
      <4>2. CASE j <= Len(c.acc)
        <5>1. j \in DOMAIN c.acc /\ b[j] = c.acc[j]
          BY <1>2, <1>3, <4>1, <4>2
        <5>2. ~HasNewline(c.acc)
          BY <1>13 DEF Fits
        <5> QED
          BY <3>1, <5>1, <5>2 DEF HasNewline
      <4>3. CASE j > Len(c.acc)
        <5>1. j - Len(c.acc) \in DOMAIN d /\ b[j] = d[j - Len(c.acc)]
          BY <1>1, <1>2, <1>3, <4>1, <4>3, SMTT(30)
        <5> QED
          BY <1>13, <3>1, <5>1 DEF HasNewline
      <4> QED
        BY <1>2, <4>1, <4>2, <4>3
    <3> QED
      BY <3>1 DEF HasNewline
  <2>6. Fits(content, r, pos', pending')
    <3>1. UNCHANGED <<pos, pending>>
      BY <1>13 DEF placeVars
    <3>2. c.size0 <= Len(content) /\ c.seen <= Len(content)
      BY DEF Fits
    <3> QED
      BY <1>1, <1>11, <1>13, <2>1, <2>3, <2>5, <3>1, <3>2 DEF Fits
  <2>7. Ahead'
    BY <1>1, <1>13 DEF Ahead, placeVars
  <2> QED
    BY <1>5, <1>13, <2>3, <2>4, <2>6, <2>7, EntersKeeps
<1> QED
  BY <1>3, <1>6, <1>7, <1>8, <1>9, <1>10, <1>12, <1>13 DEF Resume

LEMMA FastServedKeeps ==
  ASSUME IInv, FastServed
  PROVE  IInv'
<1>1. /\ TInv /\ Ahead /\ fp \in FpRec /\ call \in CallRec /\ call.at = "fast"
      /\ fp.at = "back" /\ fp.out.some /\ Resume(call, fp.out.data)
      /\ UNCHANGED fileVars /\ UNCHANGED restVars
  BY TInvGives DEF IInv, FastServed
<1>2. /\ Serves(content, call, fp) /\ Fits(content, call, pos, pending) /\ call.fn \in Reads
  BY <1>1 DEF IInv, Served, Flight, Staged, Going
<1>3. fp.out.data \in Seq(Bytes)
  BY <1>1, FpFields
<1>4. Holds(content, fp.out.data, call.start) /\ Complete(call, fp.out.data)
  BY <1>1, <1>2 DEF Serves, Complete, Plain
<1>5. UNCHANGED <<content, platform>>
  BY <1>1 DEF fileVars
<1>6. TInv'
  <2>1. FileTyped' /\ RestTyped' /\ UNCHANGED owned /\ is_open' = is_open
    BY <1>1, FileSame, RestSame DEF restVars
  <2>2. is_open
    BY <1>1 DEF TInv, Linked, RestTyped, Typed
  <2>3. /\ PlaceTyped' /\ call' \in CallRec /\ fp' \in FpRec
        /\ fp'.at # "idle" <=> call'.at \in Inside
        /\ fp'.at # "open"
    BY <1>1, <1>3, ResumeTyped
  <2> QED
    BY <1>1, <2>1, <2>2, <2>3, Keeps
<1> QED
  BY <1>1, <1>2, <1>3, <1>4, <1>5, <1>6, ResumeKeeps

LEMMA OpReadsKeeps ==
  ASSUME IInv, OpReads
  PROVE  IInv'
<1>1. /\ TInv /\ Ahead /\ fp \in FpRec /\ call \in CallRec /\ call.at = "op" /\ call.fn \in Reads
      /\ content \in Seq(Bytes) /\ Size \in Nat /\ Size <= MaxSize
      /\ UNCHANGED <<platform, able, content, view, owned>> /\ UNCHANGED restVars
  BY TInvGives DEF IInv, OpReads
<1>2. Fits(content, call, pos, pending) /\ fp.at = "idle"
  BY <1>1, StagesOut DEF IInv, Flight, Going, TInv, Linked
<1>3. PICK c : c = [call EXCEPT !.seen = Size]
  OBVIOUS
<1>4. /\ c \in CallRec /\ c.seen = Size
      /\ c.fn = call.fn /\ c.n = call.n /\ c.p0 = call.p0 /\ c.size0 = call.size0
      /\ c.base = call.base /\ c.start = call.start /\ c.want = call.want /\ c.acc = call.acc
  BY <1>1, <1>3, CallSeen
<1>5. Fits(content, c, pos, pending)
  <2>1. c.seen <= Len(content)
    BY <1>1, <1>4 DEF Size
  <2> QED
    BY <1>2, <1>4, <2>1 DEF Fits
<1>6. c.start \in Nat /\ c.want \in Nat /\ c.size0 \in Nat
  BY <1>4 DEF CallRec
<1>7. PICK d : d = Slice(c.start, c.want)
  OBVIOUS
<1>8. /\ d \in Seq(Bytes) /\ Holds(content, d, c.start) /\ Len(d) <= c.want
      /\ Len(d) = c.want \/ c.start + Len(d) >= Size
  BY <1>1, <1>6, <1>7, SliceIs
<1>9. Complete(c, d)
  <2>1. c.size0 <= Size
    BY <1>1, <1>4, <1>5 DEF Fits, Size
  <2>2. c.fn \in {"read_all", "read_bytes"} => c.want = MaxSize
    BY <1>5 DEF Fits
  <2>3. Len(d) \in Nat
    BY <1>8
  <2> QED
    BY <1>1, <1>4, <1>6, <1>8, <2>1, <2>2, <2>3, SizeAssumption DEF Complete
<1>10. Resume(c, d)
  BY <1>3, <1>4, <1>7 DEF OpReads
<1>11. TInv'
  <2>1. FileTyped'
    <3>1. FileTyped
      BY <1>1 DEF TInv, Typed
    <3>2. \A p \in PagesOf(call.start, call.want) : p \in Nat /\ p % Page = 0
      BY <1>4, <1>6 DEF PagesOf
    <3>3. cached' = cached \cup {p \in PagesOf(call.start, call.want) : p < Size}
      BY DEF OpReads
    <3>4. cached' \subseteq {p \in Nat : p < Size /\ p % Page = 0}
      BY <3>1, <3>2, <3>3 DEF FileTyped
    <3> QED
      BY <1>1, <3>1, <3>4 DEF FileTyped, Size
  <2>2. RestTyped' /\ is_open' = is_open
    BY <1>1, RestSame DEF restVars
  <2>3. \/ is_open'
        \/ pending' = <<>> /\ ~fast' /\ call'.at = "done"
    <3>1. ASSUME ~is_open PROVE call.fn = "read_at" /\ pending = <<>> /\ ~fast
      BY <1>1, <3>1 DEF TInv, Linked, Reads, Movers
    <3>2. ASSUME ~is_open PROVE Returned(c, d, pos) /\ pending' = pending
      BY <1>4, <1>10, <3>1, <3>2 DEF Resume
    <3>3. ASSUME ~is_open PROVE call'.at = "done"
      BY <1>4, <1>8, <3>2, <3>3, EndsIs DEF Returned
    <3> QED
      BY <1>1, <2>2, <3>1, <3>2, <3>3 DEF restVars
  <2>4. /\ PlaceTyped' /\ call' \in CallRec /\ fp' \in FpRec
        /\ fp'.at # "idle" <=> call'.at \in Inside
        /\ fp'.at # "open"
    BY <1>1, <1>4, <1>8, <1>10, ResumeTyped
  <2> QED
    BY <1>1, <1>2, <2>1, <2>2, <2>3, <2>4, Keeps
<1> QED
  BY <1>1, <1>4, <1>5, <1>8, <1>9, <1>10, <1>11, ResumeKeeps

LEMMA FastDeclinedKeeps ==
  ASSUME IInv, FastDeclined
  PROVE  IInv'
<1>1. /\ TInv /\ Ahead /\ call \in CallRec /\ call.at = "fast" /\ fp.at = "back"
      /\ AwaitOp(call) /\ Size \in Nat /\ view \in Nat /\ view % Page = 0 /\ fast \in BOOLEAN
      /\ UNCHANGED <<platform, able, content, cached, owned, append, is_open, changes>>
      /\ UNCHANGED placeVars
  BY TInvGives DEF IInv, FastDeclined
<1>2. Fits(content, call, pos, pending)
  BY <1>1 DEF IInv, Flight, Going
<1>3. view' \in Nat /\ view' % Page = 0
  <2>1. ViewLen(Size) \in Nat /\ ViewLen(Size) % Page = 0
    BY <1>1, ViewLenIs
  <2> QED
    BY <1>1, <2>1 DEF FastDeclined, SupportedView, MappedView, FileSize
<1>4. fast' \in BOOLEAN
  BY <1>1 DEF FastDeclined, Supported
<1>5. FileTyped' /\ PlaceTyped' /\ RestTyped'
  BY <1>1, <1>3, <1>4 DEF TInv, Typed, FileTyped, PlaceTyped, RestTyped, placeVars, Size
<1>6. is_open'
  BY <1>1 DEF TInv, Linked
<1>7. call' \in CallRec /\ fp' \in FpRec /\ call'.at = "op" /\ fp' = Idle
  BY <1>1, AwaitOpIs
<1>8. TInv'
  BY <1>1, <1>5, <1>6, <1>7, IdleIs, StagesOut, Keeps
<1>9. Ahead' /\ Fits(content, call, pos', pending') /\ UNCHANGED <<content, platform>>
  BY <1>1, <1>2 DEF Ahead, placeVars
<1> QED
  BY <1>1, <1>8, <1>9, EntersKeeps

-----------------------------------------------------------------------------
(* A system call of the fast path.                                         *)

\* What mincore has said stays true, and the copy touches no cold page.
LEMMA FpStepResident ==
  ASSUME TInv, Resident, FpKept, FpAnyStep
  PROVE  Resident'
<1>1. /\ fp \in FpRec /\ fp.pos \in Nat /\ fp.len \in Nat /\ fp.off \in Int /\ Size \in Nat
      /\ fp'.pos = fp.pos /\ UNCHANGED <<platform, content, cached>> /\ view' \in Nat
      /\ view' % Page = 0
  BY TInvGives, FpFields DEF FpKept
<1>2. /\ LastPage = RoundUp(fp.pos + fp.len) /\ LastPage \in Nat /\ FlagsPerCall * Page \in Nat
      /\ MincoreLen \in Int /\ MincoreLen = IF LastPage - fp.off <= FlagsPerCall * Page
                                              THEN LastPage - fp.off ELSE FlagsPerCall * Page
  BY <1>1, MincoreIs
<1>3. /\ RoundUp(fp.pos + fp.len) \in Nat /\ RoundUp(fp.pos + fp.len) % Page = 0
      /\ fp.pos + fp.len <= RoundUp(fp.pos + fp.len)
      /\ \A v \in Nat : v % Page = 0 /\ fp.pos + fp.len <= v => RoundUp(fp.pos + fp.len) <= v
  BY <1>1, RoundUpIs
<1>4. ASSUME fp'.len = fp.len PROVE LastPage' = LastPage
  BY <1>1, <1>4 DEF LastPage
<1>5. ASSUME fp'.len = fp.len, NEW k, \A p \in PagesOf(fp.pos, fp.len) : p < k => p \in cached
      PROVE  \A p \in PagesOf(fp'.pos, fp'.len) : p < k => p \in cached'
  BY <1>1, <1>5
<1>6. CASE FpOpenStep \/ FpSizeStep \/ FpEofStep \/ FpCopyStep
  BY <1>1, <1>6 DEF FpOpenStep, FpSizeStep, FpEofStep, FpCopyStep, Resident
<1>7. CASE FpViewStep
  <2>1. CASE fp'.at = "back"
    BY <2>1 DEF Resident
  <2>2. CASE fp'.at # "back"
    <3>1. /\ fp'.at = "mincore" /\ fp'.off = PageOf(fp.pos) /\ fp'.len = fp.len
          /\ fp.pos + fp.len <= view'
      BY <1>7, <2>2 DEF FpViewStep
    <3>2. PageOf(fp.pos) \in Nat /\ PageOf(fp.pos) % Page = 0 /\ PageOf(fp.pos) <= fp.pos
      BY <1>1, PageOfIs
    <3>3. LastPage' <= view' /\ fp'.off <= LastPage'
      <4>1. LastPage' = RoundUp(fp.pos + fp.len)
        BY <1>2, <1>4, <3>1
      <4> QED
        BY <1>1, <1>3, <3>1, <3>2, <4>1
    <3>4. \A p \in PagesOf(fp.pos, fp.len) : ~(p < PageOf(fp.pos))
      <4> SUFFICES ASSUME NEW p \in PagesOf(fp.pos, fp.len), p < PageOf(fp.pos) PROVE FALSE
        OBVIOUS
      <4>1. p \in Nat /\ p % Page = 0 /\ p + Page > fp.pos
        BY <1>1, PagesAre
      <4>2. p + Page <= PageOf(fp.pos)
        BY <3>2, <4>1, MultiplesApart
      <4> QED
        BY <1>1, <3>2, <4>1, <4>2, PageAssumption
    <3>5. Below(fp.off)'
      BY <1>1, <3>1, <3>4 DEF Below
    <3> QED
      BY <3>1, <3>2, <3>3, <3>5 DEF Resident
  <2> QED
    BY <2>1, <2>2
<1>8. CASE FpMincoreStep
  <2>1. /\ LastPage <= view /\ fp.off <= LastPage /\ fp.off \in Nat /\ fp.off % Page = 0 /\ Below(fp.off)
        /\ fp'.len = fp.len
    BY <1>1, <1>8 DEF FpMincoreStep, Resident
  <2>2. MincoreLen \in Nat /\ fp.off + MincoreLen <= LastPage
    BY <1>2, <2>1
  <2> DEFINE cold == PagesOf(fp.off, MincoreLen) \ cached
             next == fp.off + MincoreLen
  <2>3. ASSUME NEW p \in PagesOf(fp.pos, fp.len), ~(p < fp.off), p < next
        PROVE  p \in PagesOf(fp.off, MincoreLen)
    <3>1. p \in Nat /\ p % Page = 0
      BY <1>1, PagesAre
    <3>2. p + Page > fp.off /\ p < fp.off + MincoreLen
      BY <2>1, <2>3, <3>1, PageAssumption
    <3> QED
      BY <2>1, <2>2, <3>1, <3>2, PagesAre
  <2>4. CASE fp'.at = "back"
    BY <2>4 DEF Resident
  <2>5. CASE cold # {} /\ fp'.at = "cold" /\ fp'.off = Min(cold)
    <3>1. cold \in SUBSET Nat
      BY <2>1, <2>2 DEF PagesOf
    <3>2. PICK m : m = Min(cold)
      OBVIOUS
    <3>3. m \in cold /\ \A y \in cold : m <= y
      BY <2>5, <3>1, <3>2, MinOfNats
    <3>4. m \in Nat /\ m < next
      <4>1. m \in PagesOf(fp.off, MincoreLen)
        BY <2>2, <3>3
      <4> QED
        BY <2>1, <2>2, <4>1, PagesAre
    <3>5. \A p \in PagesOf(fp.pos, fp.len) : p < m => p \in cached
      <4> SUFFICES ASSUME NEW p \in PagesOf(fp.pos, fp.len), p < m PROVE p \in cached
        OBVIOUS
      <4>1. p \in Nat
        BY <1>1, PagesAre
      <4>2. CASE p < fp.off
        BY <2>1, <4>2 DEF Below
      <4>3. CASE ~(p < fp.off)
        <5>1. p < next
          BY <2>1, <2>2, <3>4, <4>1
        <5>2. p \in PagesOf(fp.off, MincoreLen)
          BY <2>3, <4>3, <5>1
        <5>3. p \notin cold
          BY <3>3, <3>4, <4>1
        <5> QED
          BY <5>2, <5>3
      <4> QED
        BY <4>2, <4>3
    <3>6. Below(fp.off)'
      BY <1>5, <2>1, <2>5, <3>2, <3>5 DEF Below
    <3> QED
      BY <2>5, <3>6 DEF Resident
  <2>6. CASE /\ cold = {} /\ fp'.at = (IF next < LastPage THEN "mincore" ELSE "copy")
             /\ fp'.off = next
    <3>1. \A p \in PagesOf(fp.pos, fp.len) : p < next => p \in cached
      <4> SUFFICES ASSUME NEW p \in PagesOf(fp.pos, fp.len), p < next PROVE p \in cached
        OBVIOUS
      <4>1. CASE p < fp.off
        BY <2>1, <4>1 DEF Below
      <4>2. CASE ~(p < fp.off)
        BY <2>3, <2>6, <4>2
      <4> QED
        BY <4>1, <4>2
    <3>2. CASE next < LastPage
      <4>1. MincoreLen = FlagsPerCall * Page /\ next \in Nat
        BY <1>2, <2>1, <2>2, <3>2
      <4>2. next % Page = 0
        <5>1. FlagsPerCall \in Nat
          BY FlagsAssumption
        <5>2. (FlagsPerCall * Page) % Page = 0
          BY <5>1, MultipleMod
        <5> QED
          BY <1>2, <2>1, <4>1, <5>2, MultipleSum
      <4>3. view' = view
        BY <1>8 DEF FpMincoreStep
      <4>4. Below(fp.off)'
        BY <1>5, <2>1, <2>6, <3>1 DEF Below
      <4>5. LastPage' = LastPage
        BY <1>4, <2>1
      <4> HIDE DEF next
      <4>6. /\ fp'.at = "mincore" /\ LastPage' <= view' /\ fp'.off <= LastPage' /\ 0 <= fp'.off
            /\ fp'.off % Page = 0
        BY <1>2, <2>1, <2>6, <3>2, <4>1, <4>2, <4>3, <4>5
      <4> QED
        BY <4>4, <4>6 DEF Resident
    <3>3. CASE ~(next < LastPage)
      <4>1. \A p \in PagesOf(fp.pos, fp.len) : p < Size => p \in cached
        <5> SUFFICES ASSUME NEW p \in PagesOf(fp.pos, fp.len) PROVE p < next
          BY <3>1
        <5>1. p \in Nat /\ p < fp.pos + fp.len
          BY <1>1, PagesAre
        <5> QED
          BY <1>1, <1>2, <1>3, <2>1, <2>2, <3>3, <5>1
      <4>2. Below(Size)'
        BY <1>1, <1>5, <2>1, <4>1 DEF Below, Size
      <4> QED
        BY <2>6, <3>3, <4>2 DEF Resident
    <3> QED
      BY <3>2, <3>3
  <2> QED
    BY <1>8, <2>4, <2>5, <2>6 DEF FpMincoreStep
<1>9. CASE FpColdStep
  <2>1. CASE fp'.at = "back"
    BY <2>1 DEF Resident
  <2>2. CASE fp'.at = "copy" /\ Size <= fp.off
    <3>1. \A p \in PagesOf(fp.pos, fp.len) : p < Size => p \in cached
      <4> SUFFICES ASSUME NEW p \in PagesOf(fp.pos, fp.len), p < Size PROVE p < fp.off
        BY <1>9 DEF FpColdStep, Resident, Below
      <4>1. p \in Nat
        BY <1>1, PagesAre
      <4> QED
        BY <1>1, <2>2, <4>1
    <3>2. Below(Size)'
      BY <1>1, <1>5, <1>9, <3>1 DEF Below, Size, FpColdStep
    <3> QED
      BY <2>2, <3>2 DEF Resident
  <2> QED
    BY <1>9, <2>1, <2>2 DEF FpColdStep
<1> QED
  BY <1>6, <1>7, <1>8, <1>9 DEF FpAnyStep

\* What the fast path returns is there and complete; the call c2 is the call c
\* with the size it has last read in it.
LEMMA FpStepServes ==
  ASSUME TInv, NEW c \in CallRec, NEW c2 \in CallRec, Serves(content, c, fp), FpKept, FpAnyStep,
         c2.at = c.at, c2.fn = c.fn, c2.start = c.start, c2.want = c.want, c2.size0 = c.size0,
         c2.seen = (IF fp.fn # "size" /\ fp.at \in {"size", "copy"} THEN Size ELSE c.seen),
         c.size0 <= Size, c.seen <= Size
  PROVE  Serves(content', c2, fp')
<1>1. /\ fp \in FpRec /\ fp.pos \in Nat /\ fp.len \in Nat /\ fp.size \in Nat /\ Size \in Nat
      /\ fp.out.data \in Seq(Bytes) /\ content \in Seq(Bytes)
      /\ content' = content /\ fp'.pos = fp.pos /\ fp'.fn = fp.fn
      /\ c.size0 \in Nat /\ c.seen \in Nat /\ c.start \in Nat /\ c.want \in Nat
      /\ c2.seen \in Nat /\ c2.seen <= Size /\ Len(fp.out.data) \in Nat
  BY TInvGives, FpFields DEF FpKept, CallRec
\* A step that keeps what there is, and one that declines.
<1>2. ASSUME fp'.out = None, fp'.at = "back", fp.fn # "read" \/ fp'.len = fp.len
      PROVE  Serves(content', c2, fp')
  <2>1. fp'.out.data = <<>> /\ ~fp'.out.some
    BY <1>2, NoneIs
  <2>2. Holds(content', fp'.out.data, fp'.pos)
    BY <2>1, HoldsNothing
  <2> QED
    BY <1>1, <1>2, <2>1, <2>2 DEF Serves
<1>3. ASSUME fp'.out = fp.out, fp'.len = fp.len, fp'.size = fp.size, c2.seen = c.seen, fp.fn # "size",
             fp.at \in {"view", "mincore", "cold"}, fp'.at \in {"mincore", "cold", "copy"}
      PROVE  Serves(content', c2, fp')
  BY <1>1, <1>3 DEF Serves
<1>4. CASE FpOpenStep
  <2>1. CASE fp'.at = "size" /\ fp'.out = fp.out
    BY <1>1, <1>4, <2>1 DEF Serves, FpOpenStep
  <2>2. CASE fp'.at = "back" /\ fp'.out = None
    BY <1>2, <1>4, <2>2 DEF FpOpenStep
  <2> QED
    BY <1>4, <2>1, <2>2 DEF FpOpenStep
<1>5. CASE FpSizeStep
  <2>1. fp.at = "size" /\ fp.fn # "read"
    BY <1>5 DEF FpSizeStep, Serves
  <2>2. CASE fp'.at = "back" /\ fp'.out = None
    BY <1>2, <2>1, <2>2
  <2>3. CASE fp'.size = Size /\ fp.fn = "size" /\ fp'.at = "back" /\ fp'.out = Some(<<>>)
    <3>1. fp'.out.data = <<>>
      BY <2>3, BytesIs, SomeIs
    <3>2. Holds(content', fp'.out.data, fp'.pos)
      BY <3>1, HoldsNothing
    <3> QED
      BY <1>1, <2>1, <2>3, <3>2 DEF Serves
  <2>4. CASE /\ fp'.size = Size /\ fp'.len = (IF Size > fp.pos THEN Size - fp.pos ELSE 0)
             /\ fp.fn # "size" /\ fp'.out = fp.out
             /\ \/ fp'.at = "eof" /\ fp'.len = 0
                \/ fp'.at \in {"copy", "view"}
    <3>1. c2.seen = Size
      BY <2>1, <2>4
    <3>2. fp'.size <= fp'.pos + fp'.len
      BY <1>1, <2>4
    <3>3. fp'.at = "eof" => fp'.size <= fp'.pos + Len(fp'.out.data)
      BY <1>1, <2>4
    <3> QED
      BY <1>1, <2>1, <2>4, <3>1, <3>2, <3>3 DEF Serves
  <2> QED
    BY <1>5, <2>2, <2>3, <2>4 DEF FpSizeStep
<1>6. CASE FpViewStep \/ FpMincoreStep \/ FpColdStep
  <2>1. fp'.len = fp.len /\ fp'.size = fp.size /\ fp.at \in {"view", "mincore", "cold"} /\ fp.fn # "size"
    BY <1>6 DEF FpViewStep, FpMincoreStep, FpColdStep, Serves
  <2>2. c2.seen = c.seen
    BY <2>1
  <2>3. \/ fp'.out = None /\ fp'.at = "back"
        \/ fp'.out = fp.out /\ fp'.at \in {"mincore", "cold", "copy"}
    BY <1>6 DEF FpViewStep, FpMincoreStep, FpColdStep
  <2> QED
    BY <1>2, <1>3, <2>1, <2>2, <2>3
<1>7. CASE FpCopyStep
  <2>1. fp.at = "copy" /\ fp.fn # "size" /\ fp'.len = fp.len /\ fp'.size = fp.size
    BY <1>7 DEF FpCopyStep, Serves
  <2>2. c2.seen = Size
    BY <2>1
  <2>3. CASE fp'.at = "back" /\ fp'.out = None
    BY <1>2, <2>1, <2>3
  <2>4. PICK d : d = Slice(fp.pos, fp.len)
    OBVIOUS
  <2>5. /\ d \in Seq(Bytes) /\ Holds(content, d, fp.pos)
        /\ Len(d) = fp.len \/ fp.pos + Len(d) >= Size
    BY <1>1, <2>4, SliceIs
  <2>6. ASSUME fp'.out = Some(d)
        PROVE  fp'.out.data = d /\ fp'.out.some /\ Holds(content', fp'.out.data, fp'.pos)
    BY <1>1, <2>5, <2>6, SomeIs
  <2>7. CASE fp.fn = "read" /\ fp'.at = "back" /\ fp'.out = Some(d)
    <3>1. fp.len = c.want /\ c.at = "fast" /\ fp.pos = c.start
      BY <2>7 DEF Serves
    <3>2. Len(d) = c.want \/ c.size0 <= c.start + Len(d)
      <4>1. Len(d) \in Nat
        BY <2>5
      <4> QED
        BY <1>1, <2>5, <3>1, <4>1
    <3> QED
      BY <1>1, <2>1, <2>6, <2>7, <3>1, <3>2 DEF Serves
  <2>8. CASE /\ fp.fn # "read" /\ Len(d) >= fp.len /\ fp'.at = "eof" /\ fp'.out = Some(d)
    <3>1. fp.fn \in {"read_all", "read_file"} => fp'.size <= fp'.pos + Len(fp'.out.data)
      <4>1. Len(d) \in Nat
        BY <2>5
      <4>2. fp.fn \in {"read_all", "read_file"} => fp.size <= fp.pos + fp.len
        BY <2>1 DEF Serves
      <4>3. fp'.out.data = d
        BY <2>6, <2>8
      <4> QED
        BY <1>1, <2>1, <2>8, <4>1, <4>2, <4>3
    <3> QED
      BY <1>1, <2>1, <2>2, <2>6, <2>8, <3>1 DEF Serves
  <2> QED
    BY <1>7, <2>3, <2>4, <2>7, <2>8 DEF FpCopyStep
<1>8. CASE FpEofStep
  <2>1. fp.at = "eof" /\ fp.fn # "size" /\ fp.fn # "read" /\ fp'.len = fp.len /\ fp'.size = fp.size
    BY <1>8 DEF FpEofStep, Serves
  <2>2. c2.seen = c.seen
    BY <2>1
  <2>3. CASE fp'.at = "back" /\ fp'.out = None
    BY <1>2, <2>1, <2>3
  <2>4. CASE Size <= fp.size /\ fp'.at = "back" /\ fp'.out = Some(fp.out.data)
    <3>1. fp'.out.data = fp.out.data /\ fp'.out.some
      BY <1>1, <2>4, SomeIs
    <3>2. fp.fn \in {"read_all", "read_file"} =>
            c2.size0 <= c2.seen /\ c2.seen <= fp'.pos + Len(fp'.out.data)
      BY <1>1, <2>1, <2>2, <2>4, <3>1 DEF Serves
    <3> QED
      BY <1>1, <2>1, <2>4, <3>1, <3>2 DEF Serves
  <2> QED
    BY <1>8, <2>3, <2>4 DEF FpEofStep
<1> QED
  BY <1>4, <1>5, <1>6, <1>7, <1>8 DEF FpAnyStep

LEMMA FastStepKeeps ==
  ASSUME IInv, FastStep
  PROVE  IInv'
<1>1. TInv /\ FpStep /\ call \in CallRec /\ Size \in Nat /\ UNCHANGED placeVars /\ UNCHANGED restVars
  BY TInvGives DEF IInv, FastStep
<1>2. FpKept /\ FpAnyStep
  BY <1>1, FpStepIs
<1>3. fp.at # "idle" /\ call.at \in Inside /\ content' = content
  BY <1>1, <1>2 DEF FpKept, TInv, Linked
<1>4. Fits(content, call, pos, pending) /\ Staged(call) /\ Serves(content, call, fp)
  BY <1>3 DEF IInv, Flight, Served, Going, Inside
<1>5. PICK k : k = IF fp.fn # "size" /\ fp.at \in {"size", "copy"} THEN Size ELSE call.seen
  OBVIOUS
<1>6. call.seen \in Nat
  BY <1>1 DEF CallRec
<1>7. call.at # "fast" \/ call.fn \in Reads
  BY <1>4 DEF Staged
<1>8. call.fn \in Reads
  BY <1>3, <1>4 DEF Staged, Inside, Reads, Movers
<1>9. call.seen <= Size /\ call.size0 <= Size
  BY <1>4, <1>8 DEF Fits, Size
<1>10. k \in Nat /\ k <= Size
  BY <1>1, <1>5, <1>6, <1>9
<1>11. call' = [call EXCEPT !.seen = k]
  BY <1>5 DEF FastStep
<1>12. /\ call' \in CallRec /\ call'.seen = k /\ call'.at = call.at
       /\ call'.fn = call.fn /\ call'.n = call.n /\ call'.p0 = call.p0 /\ call'.size0 = call.size0
       /\ call'.base = call.base /\ call'.start = call.start /\ call'.want = call.want
       /\ call'.acc = call.acc /\ call'.size_now = call.size_now
  BY <1>1, <1>10, <1>11, CallSeen
<1>13. TInv'
  <2>1. FileTyped' /\ PlaceTyped' /\ RestTyped' /\ RecordsTyped'
    BY <1>1, <1>2, <1>12
       DEF TInv, Typed, FpKept, FileTyped, PlaceTyped, RestTyped, RecordsTyped, placeVars, restVars, Size
  <2>2. Linked'
    BY <1>1, <1>2, <1>3, <1>12 DEF TInv, Linked, FpKept, placeVars, restVars, Inside
  <2> QED
    BY <2>1, <2>2 DEF TInv, Typed
<1>14. Resident'
  BY <1>1, <1>2, FpStepResident DEF IInv
<1>15. Serves(content', call', fp')
  BY <1>1, <1>2, <1>4, <1>5, <1>9, <1>12, FpStepServes
<1>16. Fits(content', call', pos', pending')
  <2>1. k <= Len(content)
    BY <1>10 DEF Size
  <2> QED
    BY <1>1, <1>3, <1>4, <1>12, <2>1 DEF Fits, placeVars
<1>17. Staged(call')
  <2>1. call.at = "check" => k = call.seen
    BY <1>4, <1>5 DEF Serves
  <2>2. call.at # "probe"
    BY <1>3 DEF Inside
  <2> QED
    BY <1>4, <1>12, <2>1, <2>2 DEF Staged
<1>18. Ahead'
  BY <1>1, <1>3 DEF IInv, Ahead, placeVars
<1> QED
  BY <1>3, <1>12, <1>13, <1>14, <1>15, <1>16, <1>17, <1>18, FastKeeps

-----------------------------------------------------------------------------
(* read_to_eof_parallel.                                                   *)

\* The first layer, for a step that leaves the file and the object alone but
\* for its place.
LEMMA WaitLinked ==
  ASSUME TInv, UNCHANGED fileVars, UNCHANGED restVars, PlaceTyped', is_open,
         fp.at \in {"idle", "back"}, call' \in CallRec, fp' \in FpRec,
         fp'.at # "idle" <=> call'.at \in Inside, fp'.at # "open"
  PROVE  TInv'
<1>1. FileTyped' /\ RestTyped' /\ UNCHANGED owned /\ is_open' = is_open
  BY FileSame, RestSame DEF restVars
<1> QED
  BY <1>1, Keeps

\* What is known of a read of everything that waits.
LEMMA LargeIs ==
  ASSUME IInv, call.at \in {"size", "sizeOp", "fill", "check", "probe"}
  PROVE  /\ TInv /\ Ahead /\ call \in CallRec /\ is_open /\ content \in Seq(Bytes) /\ Size \in Nat
         /\ Size <= MaxSize /\ fp \in FpRec /\ PlaceTyped
         /\ Fits(content, call, pos, pending) /\ Staged(call) /\ call.fn = "read_all"
         /\ call.p0 = pos /\ call.base = pos /\ call.start = pos + Len(pending)
         /\ call.size0 <= Size /\ call.seen <= Size /\ Holds(content, call.acc, call.start)
         /\ call.start \in Nat /\ call.acc \in Seq(Bytes) /\ Len(call.acc) \in Nat /\ call.size_now \in Nat
         /\ call.size0 \in Nat /\ call.seen \in Nat
<1>1. /\ TInv /\ Ahead /\ call \in CallRec /\ content \in Seq(Bytes) /\ Size \in Nat
      /\ Size <= MaxSize /\ fp \in FpRec /\ PlaceTyped
  BY TInvGives DEF IInv, TInv, Typed
<1>2. Fits(content, call, pos, pending) /\ Staged(call)
  BY DEF IInv, Flight, Going
<1>3. call.fn = "read_all" /\ "read_all" \in Reads
  BY <1>2 DEF Staged, Reads, Movers
<1>4. is_open
  BY <1>1 DEF TInv, Linked, Typed, RestTyped
<1>5. /\ call.start \in Nat /\ call.acc \in Seq(Bytes) /\ Len(call.acc) \in Nat /\ call.size_now \in Nat
      /\ call.size0 \in Nat /\ call.seen \in Nat /\ call.p0 \in Nat
  BY <1>1 DEF CallRec
<1>6. /\ call.p0 = pos /\ call.base = pos /\ call.start = pos + Len(pending)
      /\ call.size0 <= Size /\ call.seen <= Size /\ Holds(content, call.acc, call.start)
  BY <1>2, <1>3, <1>5 DEF Fits, Size
<1> QED
  BY <1>1, <1>2, <1>3, <1>4, <1>5, <1>6

\* The call as it goes on to fill, with the size it will fill to.
LEMMA FillsKeeps ==
  ASSUME IInv, call.at \in {"size", "sizeOp"}, UNCHANGED fileVars, UNCHANGED restVars, UNCHANGED placeVars,
         fp.at \in {"idle", "back"}, fp' \in FpRec, fp'.at = "idle",
         \/ call' = [call EXCEPT !.at = "sizeOp"]
         \/ \E k \in Nat : call' = [call EXCEPT !.at = "fill", !.size_now = k]
  PROVE  IInv'
<1>1. /\ TInv /\ Ahead /\ call \in CallRec /\ is_open /\ PlaceTyped
      /\ Fits(content, call, pos, pending) /\ Staged(call) /\ call.fn = "read_all"
  BY LargeIs
<1>2. "sizeOp" \in Stages /\ "fill" \in Stages
  BY DEF Stages
<1>3. /\ call' \in CallRec /\ call'.at \in {"sizeOp", "fill"}
      /\ call'.fn = call.fn /\ call'.n = call.n /\ call'.p0 = call.p0 /\ call'.size0 = call.size0
      /\ call'.seen = call.seen /\ call'.base = call.base /\ call'.start = call.start
      /\ call'.want = call.want /\ call'.acc = call.acc
  <2>1. CASE call' = [call EXCEPT !.at = "sizeOp"]
    BY <1>1, <1>2, <2>1, CallAt
  <2>2. CASE \E k \in Nat : call' = [call EXCEPT !.at = "fill", !.size_now = k]
    BY <1>1, <1>2, <2>2 DEF CallRec
  <2> QED
    BY <2>1, <2>2
<1>4. PlaceTyped' /\ Ahead' /\ UNCHANGED <<content, pos, pending>>
  BY <1>1 DEF PlaceTyped, Ahead, placeVars, fileVars
<1>5. TInv'
  BY <1>1, <1>3, <1>4, StagesOut, WaitLinked
<1>6. Fits(content', call', pos', pending')
  BY <1>1, <1>3, <1>4, FitsSame
<1>7. Staged(call')
  BY <1>1, <1>3 DEF Staged
<1> QED
  BY <1>3, <1>4, <1>5, <1>6, <1>7, OpKeeps

LEMMA SizeKnownKeeps ==
  ASSUME IInv, SizeKnown
  PROVE  IInv'
<1>1. /\ call.at = "size" /\ fp.at = "back" /\ fp \in FpRec
      /\ UNCHANGED fileVars /\ UNCHANGED restVars /\ UNCHANGED placeVars /\ fp' = Idle
  BY TInvGives DEF SizeKnown, IInv
<1>2. fp.size \in Nat
  BY <1>1, FpFields
<1>3. \/ call' = [call EXCEPT !.at = "sizeOp"]
      \/ \E k \in Nat : call' = [call EXCEPT !.at = "fill", !.size_now = k]
  BY <1>2 DEF SizeKnown
<1> QED
  BY <1>1, <1>3, IdleIs, FillsKeeps

LEMMA SizeSettlesKeeps ==
  ASSUME IInv, SizeSettles
  PROVE  IInv'
<1>1. /\ call.at = "sizeOp" /\ fp \in FpRec /\ Size \in Nat
      /\ UNCHANGED fileVars /\ UNCHANGED restVars /\ UNCHANGED placeVars /\ fp' = fp
      /\ call' = [call EXCEPT !.at = "fill", !.size_now = Size]
  BY TInvGives DEF SizeSettles, IInv, fpVars, fileVars
<1>2. fp.at = "idle"
  BY <1>1, StagesOut DEF IInv, TInv, Linked
<1> QED
  BY <1>1, <1>2, FillsKeeps

\* What read_parallel has filled is all there was, or the read is over.
LEMMA LargeDoneKeeps ==
  ASSUME IInv, call.at \in {"fill", "check", "probe"}, fp.at \in {"idle", "back"},
         UNCHANGED fileVars, UNCHANGED restVars,
         NEW c \in CallRec, NEW d \in Seq(Bytes), LargeDone(c, d), Holds(content, d, call.start),
         c.fn = call.fn, c.base = call.base, c.p0 = call.p0, c.start = call.start,
         c.size0 <= c.seen, c.seen <= c.start + Len(d)
  PROVE  IInv'
<1>1. /\ TInv /\ Ahead /\ is_open /\ call.fn = "read_all"
      /\ call.p0 = pos /\ call.base = pos /\ call.start = pos + Len(pending) /\ call.start \in Nat
  BY LargeIs
<1>2. PICK p : p = c.start + Len(d)
  OBVIOUS
<1>3. AllRead(c, d, p) /\ p \in Nat
  BY <1>1, <1>2 DEF LargeDone
<1>4. PlaceTyped' /\ call' \in CallRec /\ call'.at = "done" /\ fp' = Idle
  BY <1>1, <1>3, AllReadTyped
<1>5. TInv'
  BY <1>1, <1>4, IdleIs, StagesOut, WaitLinked
<1>6. content' = content
  BY DEF fileVars
<1> QED
  BY <1>1, <1>2, <1>3, <1>5, <1>6, AllReadKeeps

LEMMA FillSettlesKeeps ==
  ASSUME IInv, FillSettles
  PROVE  IInv'
<1>1. call.at = "fill" /\ UNCHANGED fileVars /\ UNCHANGED restVars
  BY DEF FillSettles
<1>2. /\ TInv /\ Ahead /\ call \in CallRec /\ is_open /\ content \in Seq(Bytes) /\ Size \in Nat
      /\ PlaceTyped /\ Fits(content, call, pos, pending) /\ Staged(call) /\ call.fn = "read_all"
      /\ call.size0 <= Size /\ call.start \in Nat /\ call.size_now \in Nat /\ call.size0 \in Nat
  BY <1>1, LargeIs
<1>3. fp.at = "idle"
  BY <1>1, <1>2, StagesOut DEF TInv, Linked
<1>4. PICK m : m = IF call.size_now > call.start THEN call.size_now - call.start ELSE 0
  OBVIOUS
<1>5. m \in Nat /\ call.size_now <= call.start + m
  BY <1>2, <1>4
<1>6. PICK d : d = Slice(call.start, m)
  OBVIOUS
<1>7. /\ d \in Seq(Bytes) /\ Holds(content, d, call.start) /\ Len(d) \in Nat
      /\ Len(d) = m \/ call.start + Len(d) >= Size
  <2>1. /\ d \in Seq(Bytes) /\ Holds(content, d, call.start)
        /\ Len(d) = m \/ call.start + Len(d) >= Size
    BY <1>2, <1>5, <1>6, SliceIs
  <2> QED
    BY <2>1
<1>8. PICK c : c = [call EXCEPT !.seen = Size, !.acc = d]
  OBVIOUS
<1>9. /\ c \in CallRec /\ c.seen = Size /\ c.acc = d /\ c.at = call.at
      /\ c.fn = call.fn /\ c.n = call.n /\ c.p0 = call.p0 /\ c.size0 = call.size0
      /\ c.base = call.base /\ c.start = call.start /\ c.want = call.want
      /\ c.size_now = call.size_now
  BY <1>2, <1>7, <1>8 DEF CallRec
<1>10. CASE Len(d) < m /\ LargeDone(c, d)
  <2>1. c.size0 <= c.seen /\ c.seen <= c.start + Len(d)
    BY <1>2, <1>5, <1>7, <1>9, <1>10
  <2> QED
    BY <1>1, <1>3, <1>7, <1>9, <1>10, <2>1, LargeDoneKeeps
<1>11. CASE /\ ~(Len(d) < m)
            /\ call' = [c EXCEPT !.at = IF fast THEN "check" ELSE "probe"]
            /\ fp' = IF fast THEN CallSize ELSE Idle
            /\ UNCHANGED placeVars
  <2>1. PICK at : at = IF fast THEN "check" ELSE "probe"
    OBVIOUS
  <2>2. at \in Stages /\ at \in {"check", "probe"}
    BY <2>1 DEF Stages
  <2>3. /\ call' \in CallRec /\ call'.at = at
        /\ call'.fn = c.fn /\ call'.n = c.n /\ call'.p0 = c.p0 /\ call'.size0 = c.size0
        /\ call'.seen = c.seen /\ call'.base = c.base /\ call'.start = c.start
        /\ call'.want = c.want /\ call'.acc = c.acc /\ call'.size_now = c.size_now
    BY <1>9, <1>11, <2>1, <2>2, CallAt
  <2>4. PlaceTyped' /\ Ahead' /\ UNCHANGED <<content, pos, pending>>
    BY <1>1, <1>2, <1>11 DEF PlaceTyped, Ahead, placeVars, fileVars
  <2>5. Fits(content', call', pos', pending')
    <3>1. Size <= Len(content)
      BY <1>2 DEF Size
    <3>2. "read_all" \in Reads
      BY DEF Reads, Movers
    <3> QED
      BY <1>2, <1>7, <1>9, <2>3, <2>4, <3>1, <3>2 DEF Fits
  <2>6. Staged(call')
    <3>1. call.size_now <= call.start + Len(d)
      BY <1>2, <1>5, <1>7, <1>11
    <3> QED
      BY <1>2, <1>9, <2>2, <2>3, <3>1 DEF Staged
  <2>7. CASE fast
    <3>1. /\ fp' \in FpRec /\ fp'.at = "size" /\ fp'.fn = "size" /\ fp'.out.data = <<>>
          /\ ~fp'.out.some
      BY <1>11, <2>7, CallSizeIs
    <3>2. TInv'
      BY <1>1, <1>2, <1>3, <2>1, <2>3, <2>4, <2>7, <3>1, StagesOut, WaitLinked
    <3>3. Resident'
      BY <3>1 DEF Resident
    <3>4. Serves(content', call', fp')
      <4>1. Holds(content', fp'.out.data, fp'.pos)
        BY <3>1, HoldsNothing
      <4> QED
        BY <2>1, <2>3, <2>7, <3>1, <4>1 DEF Serves
    <3> QED
      BY <2>1, <2>3, <2>4, <2>5, <2>6, <2>7, <3>2, <3>3, <3>4, StagesOut, FastKeeps
  <2>8. CASE ~fast
    <3>1. TInv'
      BY <1>1, <1>2, <1>3, <1>11, <2>1, <2>3, <2>4, <2>8, IdleIs, StagesOut, WaitLinked
    <3> QED
      BY <2>1, <2>3, <2>4, <2>5, <2>6, <2>8, <3>1, OpKeeps
  <2> QED
    BY <2>7, <2>8
<1> QED
  BY <1>4, <1>6, <1>8, <1>10, <1>11 DEF FillSettles

LEMMA SizeCheckedKeeps ==
  ASSUME IInv, SizeChecked
  PROVE  IInv'
<1>1. call.at = "check" /\ fp.at = "back" /\ UNCHANGED fileVars /\ UNCHANGED restVars
  BY DEF SizeChecked
<1>2. /\ TInv /\ Ahead /\ call \in CallRec /\ is_open /\ PlaceTyped /\ fp \in FpRec
      /\ Fits(content, call, pos, pending) /\ Staged(call) /\ call.fn = "read_all"
      /\ Holds(content, call.acc, call.start) /\ call.acc \in Seq(Bytes)
  BY <1>1, LargeIs
<1>3. Serves(content, call, fp) /\ fp.fn = "size"
  BY <1>1 DEF IInv, Served, Serves
<1>4. CASE SameSize /\ LargeDone(call, call.acc)
  <2>1. call.seen <= fp.size /\ fp.size = call.size_now
    BY <1>1, <1>3, <1>4 DEF Serves, SameSize
  <2>2. call.size0 <= call.seen /\ call.size_now <= call.start + Len(call.acc)
    BY <1>1, <1>2 DEF Staged
  <2>3. call.seen <= call.start + Len(call.acc)
    <3>1. call.seen \in Nat /\ call.start \in Nat /\ Len(call.acc) \in Nat /\ call.size_now \in Nat
      BY <1>1, LargeIs
    <3> QED
      BY <2>1, <2>2, <3>1
  <2> QED
    BY <1>1, <1>2, <1>4, <2>2, <2>3, LargeDoneKeeps
<1>5. CASE call' = [call EXCEPT !.at = "probe"] /\ fp' = Idle /\ UNCHANGED placeVars
  <2>1. "probe" \in Stages
    BY DEF Stages
  <2>2. /\ call' \in CallRec /\ call'.at = "probe"
        /\ call'.fn = call.fn /\ call'.n = call.n /\ call'.p0 = call.p0 /\ call'.size0 = call.size0
        /\ call'.seen = call.seen /\ call'.base = call.base /\ call'.start = call.start
        /\ call'.want = call.want /\ call'.acc = call.acc
    BY <1>2, <1>5, <2>1, CallAt
  <2>3. PlaceTyped' /\ Ahead' /\ UNCHANGED <<content, pos, pending>>
    BY <1>1, <1>2, <1>5 DEF PlaceTyped, Ahead, placeVars, fileVars
  <2>4. TInv'
    BY <1>1, <1>2, <1>5, <2>2, <2>3, IdleIs, StagesOut, WaitLinked
  <2>5. Fits(content', call', pos', pending')
    BY <1>2, <2>2, <2>3, FitsSame
  <2>6. Staged(call')
    BY <1>1, <1>2, <2>2 DEF Staged
  <2> QED
    BY <2>2, <2>3, <2>4, <2>5, <2>6, OpKeeps
<1> QED
  BY <1>4, <1>5 DEF SizeChecked

LEMMA ProbeSettlesKeeps ==
  ASSUME IInv, ProbeSettles
  PROVE  IInv'
<1>1. call.at = "probe" /\ UNCHANGED fileVars /\ UNCHANGED restVars
  BY DEF ProbeSettles
<1>2. /\ TInv /\ Ahead /\ call \in CallRec /\ is_open /\ content \in Seq(Bytes) /\ Size \in Nat
      /\ PlaceTyped /\ Fits(content, call, pos, pending) /\ call.fn = "read_all" /\ fp \in FpRec
      /\ call.size0 <= Size /\ call.start \in Nat /\ call.size0 \in Nat /\ Size <= MaxSize
      /\ Holds(content, call.acc, call.start) /\ call.acc \in Seq(Bytes) /\ Len(call.acc) \in Nat
  BY <1>1, LargeIs
<1>3. fp.at = "idle"
  BY <1>1, <1>2, StagesOut DEF TInv, Linked
<1>4. PICK p \in Nat : p = call.start + Len(call.acc)
  BY <1>2
<1>5. PICK more : more = Slice(p, MaxSize)
  OBVIOUS
<1>6. /\ more \in Seq(Bytes) /\ Holds(content, more, p)
      /\ Len(more) = MaxSize \/ p + Len(more) >= Size
  BY <1>2, <1>5, SizeAssumption, SliceIs
<1>7. PICK b : b = call.acc \o more
  OBVIOUS
<1>8. b \in Seq(Bytes) /\ Len(b) = Len(call.acc) + Len(more) /\ Holds(content, b, call.start)
  BY <1>2, <1>4, <1>6, <1>7, HoldsConcat
<1>9. PICK c : c = [call EXCEPT !.seen = Size, !.acc = b]
  OBVIOUS
<1>10. /\ c \in CallRec /\ c.seen = Size /\ c.acc = b /\ c.at = call.at
       /\ c.fn = call.fn /\ c.n = call.n /\ c.p0 = call.p0 /\ c.size0 = call.size0
       /\ c.base = call.base /\ c.start = call.start /\ c.want = call.want
  BY <1>2, <1>8, <1>9 DEF CallRec
<1>11. CASE more = <<>> /\ LargeDone(c, b)
  <2>1. Len(more) = 0
    BY <1>11, BytesIs
  <2>2. c.size0 <= c.seen /\ c.seen <= c.start + Len(b)
    BY <1>2, <1>4, <1>6, <1>8, <1>10, <2>1, SizeAssumption
  <2> QED
    BY <1>1, <1>3, <1>8, <1>10, <1>11, <2>2, LargeDoneKeeps
<1>12. CASE call' = c /\ UNCHANGED placeVars /\ UNCHANGED fp
  <2>1. PlaceTyped' /\ Ahead' /\ UNCHANGED <<content, pos, pending>>
    BY <1>1, <1>2, <1>12 DEF PlaceTyped, Ahead, placeVars, fileVars
  <2>2. TInv'
    BY <1>1, <1>2, <1>3, <1>10, <1>12, <2>1, StagesOut, WaitLinked
  <2>3. Fits(content', call', pos', pending')
    <3>1. Size <= Len(content)
      BY <1>2 DEF Size
    <3>2. "read_all" \in Reads
      BY DEF Reads, Movers
    <3> QED
      BY <1>2, <1>8, <1>10, <1>12, <2>1, <3>1, <3>2 DEF Fits
  <2>4. Staged(call')
    BY <1>1, <1>2, <1>10, <1>12 DEF Staged
  <2> QED
    BY <1>1, <1>10, <1>12, <2>1, <2>2, <2>3, <2>4, OpKeeps
<1>13. \/ more = <<>> /\ LargeDone(c, c.acc)
       \/ call' = c /\ UNCHANGED placeVars /\ UNCHANGED fp
  BY <1>4, <1>5, <1>7, <1>9 DEF ProbeSettles
<1> QED
  BY <1>10, <1>11, <1>12, <1>13

-----------------------------------------------------------------------------
(* The ops that change the file, awaits that raise, and the rest of Next.  *)

\* An await that ends a call without data.
LEMMA SettleTyped ==
  ASSUME IInv, call.at \in {"op", "sizeOp", "fill", "probe"}, FileTyped', PlaceTyped',
         UNCHANGED owned, UNCHANGED restVars, pending' \in {<<>>, pending},
         NEW c \in CallRec, NEW raised \in BOOLEAN,
         NEW data \in Seq(Bytes), Ends(c, data, raised),
         fp' \in {Idle, fp}
  PROVE  /\ TInv' /\ call'.at = "done" /\ call'.data = data /\ (call'.raised <=> raised)
         /\ call'.fn = c.fn /\ call'.n = c.n /\ call'.p0 = c.p0 /\ call'.size0 = c.size0
<1>1. TInv /\ fp \in FpRec /\ RestTyped'
  BY TInvGives, RestSame DEF IInv
<1>2. fp.at = "idle"
  BY <1>1, StagesOut DEF TInv, Linked
<1>3. fp' \in FpRec /\ fp'.at = "idle"
  BY <1>1, <1>2, IdleIs
<1>4. /\ call' \in CallRec /\ call'.at = "done" /\ call'.data = data /\ (call'.raised <=> raised)
      /\ call'.fn = c.fn /\ call'.n = c.n /\ call'.p0 = c.p0 /\ call'.size0 = c.size0
  BY EndsIs
<1>5. is_open' \/ (pending' = <<>> /\ ~fast')
  BY <1>1 DEF TInv, Linked, restVars
<1>6. TInv'
  BY <1>1, <1>2, <1>3, <1>4, <1>5, StagesOut, Keeps
<1> QED
  BY <1>4, <1>6

\* Where a call that is neither a read nor a write ended, nothing was read.
LEMMA SettleKeeps ==
  ASSUME TInv', Ahead', call'.at = "done", call'.fn \notin Reads,
         ~call'.raised, call'.fn # "write"
  PROVE  IInv'
<1>1. Ended'
  BY DEF Ended, Over
<1>2. NothingCutShort'
  BY DEF NothingCutShort, Reads, Movers
<1> QED
  BY <1>1, <1>2, OverKeeps

LEMMA RaisedKeeps ==
  ASSUME TInv', Ahead', call'.at = "done", call'.raised,
         \/ pos' = call'.p0
         \/ call'.fn = "readinto" /\ pos' \in call'.p0 .. call'.p0 + call'.n
  PROVE  IInv'
<1>1. Ended'
  BY DEF Ended, Over
<1>2. NothingCutShort'
  BY DEF NothingCutShort
<1> QED
  BY <1>1, <1>2, OverKeeps

\* What is known of a call that waits for an op.
LEMMA WaitsIs ==
  ASSUME IInv, call.at \in {"op", "sizeOp", "fill", "probe"}
  PROVE  /\ TInv /\ call \in CallRec /\ pos \in Nat /\ pending \in Seq(Bytes) /\ size_hint \in Nat
         /\ Size \in Nat /\ call.n \in Nat /\ call.start \in Nat /\ call.p0 \in Nat
         /\ Fits(content, call, pos, pending) /\ content \in Seq(Bytes)
         /\ "write" \notin Reads /\ "truncate" \notin Reads /\ "close" \notin Reads
         /\ "seekEnd" \notin Reads
<1>1. TInv /\ call \in CallRec /\ Fits(content, call, pos, pending)
  BY TInvGives DEF IInv, Flight, Going
<1>2. call.n \in Nat /\ call.start \in Nat /\ call.p0 \in Nat
  BY <1>1 DEF CallRec
<1> QED
  BY <1>1, <1>2, TInvGives DEF Reads, Movers

\* Where a write goes, and that a piece at the end leaves the rest alone.
LEMMA WriteChanges ==
  ASSUME TInv, NEW at \in Nat, NEW n \in Nat, Changed(Written(at, n), at)
  PROVE  /\ FileTyped' /\ UNCHANGED owned
         /\ Holds(content', Stamp(at, n), at) /\ Wrote(content, content', at, n)
<1>1. content \in Seq(Bytes) /\ Size <= MaxSize
  BY TInvGives
<1>2. PICK new : new = Written(at, n)
  OBVIOUS
<1>3. Len(new) <= MaxSize /\ content' = new
  BY <1>2 DEF Changed
<1>4. new \in Seq(Bytes) /\ Wrote(content, new, at, n)
  BY <1>1, <1>2, <1>3, WrittenIs, ZenonT(30)
<1>5. FileTyped' /\ UNCHANGED owned
  BY <1>2, <1>4, ChangedTyped
<1>6. Holds(new, Stamp(at, n), at)
  <2>1. Len(Stamp(at, n)) = n /\ \A i \in 1 .. n : Stamp(at, n)[i] = MaxSize + at + i
    BY DEF Stamp
  <2>2. \A i \in 1 .. n : at + i <= Len(new) /\ new[at + i] = MaxSize + at + i
    <3>1. ASSUME NEW i \in 1 .. n
          PROVE  at + i <= Len(new) /\ new[at + i] = MaxSize + at + i
      <4>1. n # 0
        OBVIOUS
      <4>2. new[at + i] = MaxSize + (at + i) /\ at + n <= Len(new)
        BY ONLY <1>4, <4>1, i \in 1 .. n DEF Wrote
      <4>3. Len(new) \in Nat
        BY <1>4
      <4> QED
        BY <4>2, <4>3, SizeAssumption
    <3> QED
      BY <3>1
  <2> QED
    BY <2>1, <2>2 DEF Holds
<1> QED
  BY <1>3, <1>4, <1>5, <1>6

\* A write by position is at the position, which it leaves behind its bytes.
LEMMA WriteSettlesKeeps ==
  ASSUME IInv, WriteSettles
  PROVE  IInv'
<1>1. /\ call.at = "op" /\ call.fn = "write" /\ ~append /\ UNCHANGED pending /\ UNCHANGED restVars
  BY DEF WriteSettles
<1>2. /\ TInv /\ call \in CallRec /\ pos \in Nat /\ size_hint \in Nat /\ Size \in Nat /\ call.n \in Nat
      /\ call.start \in Nat /\ Fits(content, call, pos, pending) /\ "write" \notin Reads
  BY <1>1, WaitsIs
<1>3. PICK at \in Nat : at = call.start
  BY <1>2
<1>4. pending = <<>> /\ at = call.p0
  BY <1>1, <1>2, <1>3 DEF Fits
<1>5. FileTyped' /\ UNCHANGED owned /\ Holds(content', Stamp(at, call.n), at)
  BY <1>2, <1>3, WriteChanges DEF WriteSettles
<1>6. PICK c : c = [call EXCEPT !.seen = at]
  OBVIOUS
<1>7. c \in CallRec /\ c.fn = call.fn /\ c.n = call.n /\ c.p0 = call.p0
  BY <1>2, <1>6, CallSeen
<1>8. Ends(c, <<>>, FALSE) /\ pos' = at + call.n /\ fp' = Idle /\ size_hint' = MaxOf(size_hint, at + call.n)
  BY <1>3, <1>6 DEF WriteSettles, Returned
<1>9. PlaceTyped'
  BY <1>1, <1>2, <1>4, <1>8, BytesIs DEF PlaceTyped, MaxOf
<1>10. /\ TInv' /\ call'.at = "done" /\ ~call'.raised /\ call'.fn = c.fn /\ call'.n = c.n
       /\ call'.p0 = c.p0
  BY <1>1, <1>4, <1>5, <1>7, <1>8, <1>9, BytesIs, SettleTyped
<1>11. Ahead'
  BY <1>1, <1>4, HoldsNothing DEF Ahead
<1>12. append' = append
  BY <1>1 DEF restVars
<1>13. Ended'
  BY <1>1, <1>2, <1>4, <1>5, <1>7, <1>8, <1>10, <1>12 DEF Ended, Over
<1>14. NothingCutShort'
  BY <1>1, <1>7, <1>10 DEF NothingCutShort
<1> QED
  BY <1>10, <1>11, <1>13, <1>14, OverKeeps

\* A piece of an append goes where the file ends.
LEMMA AppendSomeKeeps ==
  ASSUME IInv, NEW k \in 1 .. call.want, AppendSome(k)
  PROVE  IInv'
<1>1. /\ call.at = "op" /\ call.fn = "write" /\ fp' = fp
      /\ UNCHANGED placeVars /\ UNCHANGED restVars
  BY DEF AppendSome
<1>2. /\ TInv /\ call \in CallRec /\ pos \in Nat /\ pending \in Seq(Bytes) /\ size_hint \in Nat
      /\ Size \in Nat /\ Fits(content, call, pos, pending) /\ content \in Seq(Bytes)
      /\ "write" \notin Reads /\ fp \in FpRec
  BY <1>1, WaitsIs, TInvGives
<1>3. /\ call.want \in Nat /\ call.size0 \in Nat /\ call.acc \in Seq(Bytes) /\ k \in Nat
      /\ k <= call.want /\ call.n \in Nat
  BY <1>2 DEF CallRec
<1>4. FileTyped' /\ UNCHANGED owned /\ Wrote(content, content', Len(content), k)
  BY <1>2, <1>3, WriteChanges DEF AppendSome, Size
<1>5. PICK t : t = call.acc \o PlacesFrom(Len(content), k)
  OBVIOUS
<1>6. Places(content, call.size0, call.acc) /\ Len(call.acc) + call.want = call.n /\ pending = <<>>
  BY <1>1, <1>2 DEF Fits
<1>7. t \in Seq(Bytes) /\ Len(t) = Len(call.acc) + k /\ Places(content', call.size0, t)
  <2>1. Len(content) \in Nat
    BY <1>2 DEF Size
  <2>2. k \in Nat /\ call.size0 \in Nat /\ call.acc \in Seq(Bytes)
    BY <1>3
  <2>3. Wrote(content, content', Len(content), k) /\ Places(content, call.size0, call.acc)
    BY <1>4, <1>6
  <2>4. /\ call.acc \o PlacesFrom(Len(content), k) \in Seq(Bytes)
        /\ Len(call.acc \o PlacesFrom(Len(content), k)) = Len(call.acc) + k
        /\ Places(content', call.size0, call.acc \o PlacesFrom(Len(content), k))
    BY ONLY <2>1, <2>2, <2>3, PlacesWritten, ZenonT(30)
  <2> QED
    BY ONLY <1>5, <2>4
<1>8. call' = [call EXCEPT !.want = call.want - k, !.acc = t]
  BY <1>5 DEF AppendSome, Size
<1>9. call.want - k \in Nat /\ Len(t) + (call.want - k) = call.n
  BY <1>3, <1>6, <1>7
<1>10. /\ call' \in CallRec /\ call'.at = "op" /\ call'.fn = "write" /\ call'.n = call.n
       /\ call'.p0 = call.p0 /\ call'.start = call.start /\ call'.size0 = call.size0
       /\ call'.want = call.want - k /\ call'.acc = t
  BY <1>1, <1>2, <1>7, <1>8, <1>9 DEF CallRec
<1>11. PlaceTyped' /\ RestTyped' /\ pending' = <<>> /\ pos' = pos
  BY <1>1, <1>2, <1>6, RestSame DEF PlaceTyped, placeVars
<1>12. fp.at = "idle" /\ is_open'
  BY <1>1, <1>2, StagesOut DEF TInv, Linked, restVars
<1>13. TInv'
  BY <1>1, <1>2, <1>4, <1>10, <1>11, <1>12, StagesOut, Keeps
<1>14. Ahead'
  BY <1>11, HoldsNothing DEF Ahead
<1>15. Fits(content', call', pos', pending')
  BY <1>1, <1>2, <1>7, <1>9, <1>10, <1>11 DEF Fits
<1>16. Staged(call')
  BY <1>10 DEF Staged
<1> QED
  BY <1>10, <1>13, <1>14, <1>15, <1>16, OpKeeps

\* The end an append is told of lies behind all its bytes.
LEMMA AppendEndsKeeps ==
  ASSUME IInv, AppendEnds
  PROVE  IInv'
<1>1. /\ call.at = "op" /\ call.fn = "write" /\ call.want = 0
      /\ UNCHANGED fileVars /\ UNCHANGED pending /\ UNCHANGED restVars
  BY DEF AppendEnds
<1>2. /\ TInv /\ call \in CallRec /\ size_hint \in Nat /\ Size \in Nat
      /\ Fits(content, call, pos, pending) /\ "write" \notin Reads
  BY <1>1, WaitsIs
<1>3. call.size0 \in Nat /\ call.acc \in Seq(Bytes) /\ Len(call.acc) \in Nat /\ call.n \in Nat
  BY <1>2 DEF CallRec
<1>4. /\ Places(content, call.size0, call.acc) /\ Len(call.acc) + call.want = call.n
      /\ pending = <<>>
  BY <1>1, <1>2 DEF Fits
<1>5. FileTyped' /\ UNCHANGED owned /\ content' = content
  BY <1>1, <1>2, FileSame DEF fileVars
<1>6. PICK c : c = [call EXCEPT !.seen = Size]
  OBVIOUS
<1>7. c \in CallRec /\ c.fn = call.fn /\ c.n = call.n /\ c.p0 = call.p0 /\ c.size0 = call.size0
  BY <1>2, <1>6, CallSeen
<1>8. /\ Ends(c, call.acc, FALSE) /\ pos' = Size /\ fp' = Idle
      /\ size_hint' = MaxOf(size_hint, Size)
  BY <1>6 DEF AppendEnds, Returned
<1>9. PlaceTyped'
  BY <1>1, <1>2, <1>4, <1>8, BytesIs DEF PlaceTyped, MaxOf
<1>10. /\ TInv' /\ call'.at = "done" /\ ~call'.raised /\ call'.fn = c.fn /\ call'.n = c.n
       /\ call'.size0 = c.size0 /\ call'.data = call.acc
  BY <1>1, <1>3, <1>4, <1>5, <1>7, <1>8, <1>9, SettleTyped
<1>11. Ahead'
  BY <1>1, <1>4, HoldsNothing DEF Ahead
<1>12. append' = append
  BY <1>1 DEF restVars
<1>13. /\ Size \in call.size0 .. Len(content)
       /\ \A i \in 1 .. Len(call.acc) : call.acc[i] <= Size
  BY <1>2, <1>3, <1>4 DEF Places, Size
<1>14. Len(call.acc) = call.n
  BY <1>1, <1>3, <1>4
<1>15. append
  BY DEF AppendEnds
<1>16. Ended'
  BY <1>1, <1>2, <1>4, <1>5, <1>7, <1>8, <1>10, <1>12, <1>13, <1>14, <1>15 DEF Ended, Over
<1>17. NothingCutShort'
  BY <1>1, <1>7, <1>10 DEF NothingCutShort
<1> QED
  BY <1>10, <1>11, <1>16, <1>17, OverKeeps

LEMMA TruncateSettlesKeeps ==
  ASSUME IInv, TruncateSettles
  PROVE  IInv'
<1>1. /\ call.at = "op" /\ call.fn = "truncate" /\ UNCHANGED pending /\ UNCHANGED restVars
      /\ Changed(Resized(call.n), Size) /\ size_hint' = call.n
  BY DEF TruncateSettles
<1>2. /\ TInv /\ call \in CallRec /\ pos \in Nat /\ call.n \in Nat /\ content \in Seq(Bytes)
      /\ Fits(content, call, pos, pending) /\ "truncate" \notin Reads
  BY <1>1, WaitsIs
<1>3. pending = <<>>
  BY <1>1, <1>2 DEF Fits
<1>4. FileTyped' /\ UNCHANGED owned
  BY <1>1, <1>2, ResizedIs, ChangedTyped
<1>5. Ends(call, <<>>, FALSE) /\ pos' = pos /\ fp' = Idle
  BY DEF TruncateSettles, Returned
<1>6. PlaceTyped' /\ Ahead'
  BY <1>1, <1>2, <1>3, <1>5, BytesIs, HoldsNothing DEF PlaceTyped, Ahead
<1>7. TInv' /\ call'.at = "done" /\ ~call'.raised /\ call'.fn = "truncate"
  BY <1>1, <1>2, <1>3, <1>4, <1>5, <1>6, BytesIs, SettleTyped
<1> QED
  BY <1>2, <1>6, <1>7, SettleKeeps

LEMMA CloseSettlesKeeps ==
  ASSUME IInv, CloseSettles
  PROVE  IInv'
<1>1. /\ call.at = "op" /\ call.fn = "close" /\ UNCHANGED <<pending, size_hint>>
      /\ UNCHANGED restVars /\ UNCHANGED fileVars
  BY DEF CloseSettles
<1>2. /\ TInv /\ call \in CallRec /\ pos \in Nat /\ size_hint \in Nat
      /\ Fits(content, call, pos, pending) /\ "close" \notin Reads
  BY <1>1, WaitsIs
<1>3. pending = <<>>
  BY <1>1, <1>2 DEF Fits
<1>4. FileTyped' /\ UNCHANGED owned
  BY <1>1, <1>2, FileSame
<1>5. Ends(call, <<>>, FALSE) /\ pos' = pos /\ fp' = Idle
  BY DEF CloseSettles, Returned
<1>6. PlaceTyped' /\ Ahead'
  BY <1>1, <1>2, <1>3, <1>5, BytesIs, HoldsNothing DEF PlaceTyped, Ahead
<1>7. TInv' /\ call'.at = "done" /\ ~call'.raised /\ call'.fn = "close"
  BY <1>1, <1>2, <1>3, <1>4, <1>5, <1>6, BytesIs, SettleTyped
<1> QED
  BY <1>2, <1>6, <1>7, SettleKeeps

LEMMA SeekEndSettlesKeeps ==
  ASSUME IInv, SeekEndSettles
  PROVE  IInv'
<1>1. /\ call.at = "op" /\ call.fn = "seekEnd" /\ size_hint' = Size
      /\ UNCHANGED restVars /\ UNCHANGED fileVars
  BY DEF SeekEndSettles
<1>2. /\ TInv /\ call \in CallRec /\ pos \in Nat /\ Size \in Nat /\ call.n \in Nat
      /\ pending \in Seq(Bytes) /\ Fits(content, call, pos, pending) /\ "seekEnd" \notin Reads
  BY <1>1, WaitsIs
<1>3. FileTyped' /\ UNCHANGED owned /\ content' = content
  BY <1>1, <1>2, FileSame DEF fileVars
<1>4. pos = call.p0
  BY <1>1, <1>2 DEF Fits, CallRec
<1>5. CASE /\ Size >= call.n /\ pending' = <<>>
           /\ Returned([call EXCEPT !.seen = Size], <<>>, Size - call.n)
  <2>1. PICK c : c = [call EXCEPT !.seen = Size]
    OBVIOUS
  <2>2. c \in CallRec /\ c.fn = "seekEnd"
    BY <1>1, <1>2, <2>1, CallSeen
  <2>3. Ends(c, <<>>, FALSE) /\ pos' = Size - call.n /\ fp' = Idle
    BY <1>5, <2>1 DEF Returned
  <2>4. PlaceTyped' /\ Ahead'
    BY <1>1, <1>2, <1>5, <2>3, BytesIs, HoldsNothing DEF PlaceTyped, Ahead
  <2>5. TInv' /\ call'.at = "done" /\ ~call'.raised /\ call'.fn = "seekEnd"
    BY <1>1, <1>3, <1>5, <2>2, <2>3, <2>4, BytesIs, SettleTyped
  <2> QED
    BY <1>2, <2>4, <2>5, SettleKeeps
<1>6. CASE Size < call.n /\ Ends(call, <<>>, TRUE) /\ UNCHANGED <<pending, pos, fp>>
  <2>1. PlaceTyped' /\ Ahead'
    BY <1>1, <1>2, <1>3, <1>6 DEF PlaceTyped, Ahead, IInv
  <2>2. TInv' /\ call'.at = "done" /\ call'.raised /\ call'.p0 = call.p0
    BY <1>1, <1>2, <1>3, <1>6, <2>1, BytesIs, SettleTyped
  <2> QED
    BY <1>4, <1>6, <2>1, <2>2, RaisedKeeps
<1> QED
  BY <1>5, <1>6 DEF SeekEndSettles

\* An await that raises leaves the position, and no read-ahead on a file that
\* may have changed.
LEMMA RaiseKeeps ==
  ASSUME IInv, Raise
  PROVE  IInv'
<1>1. /\ call.at \in {"op", "sizeOp", "fill", "probe"} /\ Ends(call, <<>>, TRUE)
      /\ fp' = fp /\ UNCHANGED placeVars /\ UNCHANGED restVars
  BY DEF Raise
<1>2. /\ TInv /\ call \in CallRec /\ pos \in Nat /\ pending \in Seq(Bytes) /\ size_hint \in Nat
      /\ Size \in Nat /\ call.n \in Nat /\ call.start \in Nat /\ call.p0 \in Nat
      /\ Fits(content, call, pos, pending) /\ content \in Seq(Bytes)
  BY <1>1, WaitsIs
<1>3. UNCHANGED fileVars \/ (pending = <<>> /\ FileTyped' /\ UNCHANGED owned)
  <2>1. CASE call.fn = "write" /\ \E k \in 1..call.n : Changed(Written(call.start, k), call.start)
    <3>1. PICK k \in 1..call.n : Changed(Written(call.start, k), call.start)
      BY <2>1
    <3>2. k \in Nat /\ call.start \in Nat
      BY <1>2
    <3>3. FileTyped' /\ UNCHANGED owned
      BY <1>2, <3>1, <3>2, WriteChanges
    <3> QED
      BY <1>2, <2>1, <3>3 DEF Fits
  <2>2. CASE call.fn = "truncate" /\ Changed(Resized(call.n), Size)
    <3>1. FileTyped' /\ UNCHANGED owned
      BY <1>2, <2>2, ResizedIs, ChangedTyped
    <3> QED
      BY <1>2, <2>2, <3>1 DEF Fits
  <2> QED
    BY <2>1, <2>2 DEF Raise
<1>4. FileTyped' /\ UNCHANGED owned
  BY <1>2, <1>3, FileSame
<1>5. Ahead'
  <2>1. CASE UNCHANGED fileVars
    BY <1>1, <2>1 DEF IInv, Ahead, fileVars, placeVars
  <2>2. CASE pending = <<>>
    BY <1>1, <2>2, HoldsNothing DEF Ahead, placeVars
  <2> QED
    BY <1>3, <2>1, <2>2
<1>6. PlaceTyped' /\ pending' = pending /\ pos' = pos
  BY <1>1, <1>2 DEF PlaceTyped, placeVars
<1>7. /\ TInv' /\ call'.at = "done" /\ call'.raised /\ call'.fn = call.fn /\ call'.n = call.n
      /\ call'.p0 = call.p0
  BY <1>1, <1>2, <1>4, <1>6, BytesIs, SettleTyped
<1>8. \/ pos = call.p0
      \/ call.fn = "readinto" /\ pos \in call.p0 .. call.p0 + call.n
  <2>1. CASE call.fn = "readinto"
    <3>1. Len(call.acc) \in Nat /\ Len(call.acc) <= call.n /\ pos = call.p0 + Len(call.acc)
      BY <1>2, <2>1 DEF Fits, CallRec
    <3> QED
      BY <1>2, <2>1, <3>1
  <2>2. CASE call.fn # "readinto"
    BY <1>2, <2>2 DEF Fits
  <2> QED
    BY <2>1, <2>2
<1> QED
  BY <1>5, <1>6, <1>7, <1>8, RaisedKeeps

LEMMA ReturnKeeps ==
  ASSUME IInv, Return
  PROVE  IInv'
<1>1. call.at = "done" /\ call' = NoCall /\ UNCHANGED fpVars /\ UNCHANGED placeVars /\ UNCHANGED restVars
  BY DEF Return
<1>2. TInv /\ fp \in FpRec
  BY TInvGives DEF IInv
<1>3. fp.at = "idle"
  BY <1>1, <1>2, StagesOut DEF TInv, Linked
<1>4. FileTyped' /\ PlaceTyped' /\ RestTyped' /\ UNCHANGED owned /\ UNCHANGED fp
  BY <1>1, <1>2 DEF TInv, Typed, FileTyped, PlaceTyped, RestTyped, fpVars, placeVars, restVars, Size
<1>5. is_open' \/ (pending' = <<>> /\ ~fast')
  BY <1>1, <1>2 DEF TInv, Linked, restVars, placeVars
<1>6. call' \in CallRec /\ call'.at = "idle"
  BY <1>1, NoCallIs
<1>7. TInv'
  BY <1>2, <1>3, <1>4, <1>5, <1>6, StagesOut, Keeps
<1>8. Ahead'
  BY <1>1 DEF IInv, Ahead, fpVars, placeVars
<1>9. Resident' /\ Flight' /\ Served' /\ Ended' /\ NothingCutShort'
  BY <1>3, <1>4, <1>6 DEF Resident, Flight, Served, Ended, NothingCutShort, Going
<1> QED
  BY <1>7, <1>8, <1>9 DEF IInv

-----------------------------------------------------------------------------
(* A file that grows.                                                      *)

LEMMA FitsGrown ==
  ASSUME NEW f, NEW g, Len(f) \in Nat, Len(g) \in Nat, Len(f) <= Len(g),
         \A i \in 1 .. Len(f) : g[i] = f[i],
         \A i \in Len(f) + 1 .. Len(g) : g[i] = i,
         NEW c \in CallRec, NEW p, NEW s, Fits(f, c, p, s)
  PROVE  Fits(g, c, p, s)
<1>1. /\ Len(c.acc) \in Nat /\ c.base \in Nat /\ c.start \in Nat /\ c.size0 \in Nat /\ c.seen \in Nat
  BY DEF CallRec
<1>2. Holds(f, c.acc, c.base) => Holds(g, c.acc, c.base)
  BY <1>1, HoldsGrown
<1>3. Holds(f, c.acc, c.start) => Holds(g, c.acc, c.start)
  BY <1>1, HoldsGrown
<1>4. c.fn \in Reads => c.size0 <= Len(g) /\ c.seen <= Len(g)
  BY <1>1 DEF Fits
<1>5. Places(f, c.size0, c.acc) => Places(g, c.size0, c.acc)
  BY <1>1, PlacesGrown
<1> QED
  BY <1>2, <1>3, <1>4, <1>5 DEF Fits

LEMMA ServesGrown ==
  ASSUME NEW f, NEW g, Len(f) \in Nat, Len(g) \in Nat, Len(f) <= Len(g),
         \A i \in 1 .. Len(f) : g[i] = f[i],
         NEW c, fp \in FpRec, Serves(f, c, fp)
  PROVE  Serves(g, c, fp)
<1>1. Holds(f, fp.out.data, fp.pos) => Holds(g, fp.out.data, fp.pos)
  BY FpFields, HoldsGrown
<1> QED
  BY <1>1 DEF Serves

LEMMA OverGrown ==
  ASSUME NEW f, NEW g, Len(f) \in Nat, Len(g) \in Nat, Len(f) <= Len(g),
         \A i \in 1 .. Len(f) : g[i] = f[i],
         \A i \in Len(f) + 1 .. Len(g) : g[i] = i,
         NEW c \in CallRec, NEW p, Over(f, c, p)
  PROVE  Over(g, c, p)
<1>1. /\ Len(c.data) \in Nat /\ c.base \in Nat /\ c.p0 \in Nat /\ c.n \in Nat
      /\ c.size0 \in Nat
  BY DEF CallRec
<1>2. Len(Stamp(c.p0, c.n)) \in Nat
  BY <1>1 DEF Stamp
<1>3. Holds(f, c.data, c.base) => Holds(g, c.data, c.base)
  BY <1>1, HoldsGrown
<1>4. Holds(f, Stamp(c.p0, c.n), c.p0) => Holds(g, Stamp(c.p0, c.n), c.p0)
  BY <1>1, <1>2, HoldsGrown
<1>5. Places(f, c.size0, c.data) => Places(g, c.size0, c.data)
  BY <1>1, PlacesGrown
<1>6. p \in c.size0 .. Len(f) => p \in c.size0 .. Len(g)
  BY <1>1
<1> QED
  BY <1>3, <1>4, <1>5, <1>6 DEF Over

\* A page that is new to the file begins where the file ended.
LEMMA NewPage ==
  ASSUME NEW k \in Nat, NEW p \in Nat, p % Page = 0, p < k + 1
  PROVE  p < k \/ p = PageOf(k)
<1>1. PageOf(k) \in Nat /\ PageOf(k) % Page = 0 /\ PageOf(k) <= k /\ k < PageOf(k) + Page
  BY PageOfIs
<1>2. ASSUME p = k, PageOf(k) < p PROVE FALSE
  <2>1. PageOf(k) + Page <= p
    BY <1>1, <1>2, MultiplesApart
  <2> QED
    BY <1>1, <1>2, <2>1, PageAssumption
<1> QED
  BY <1>1, <1>2

LEMMA AppendResident ==
  ASSUME IInv, Append1(Size + 1)
  PROVE  Resident'
<1>1. TInv /\ fp \in FpRec /\ Size \in Nat /\ Resident
  BY TInvGives DEF IInv
<1>2. /\ UNCHANGED <<platform, view, fp>> /\ Size' = Size + 1
      /\ cached' = cached \cup {PageOf(Size)}
  BY <1>1, AppendIs
<1>3. UNCHANGED LastPage /\ PagesOf(fp.pos, fp.len)' = PagesOf(fp.pos, fp.len)
  BY <1>2 DEF LastPage, PagesOf
<1>4. fp.at \in {"mincore", "cold"} => (Below(fp.off) => Below(fp.off)')
  BY <1>2, <1>3 DEF Below
<1>5. ASSUME Below(Size) PROVE Below(Size)'
  <2>1. ASSUME NEW p \in PagesOf(fp.pos, fp.len), p < Size + 1 PROVE p \in cached'
    <3>1. p \in Nat /\ p % Page = 0
      BY DEF PagesOf
    <3>2. p < Size \/ p = PageOf(Size)
      BY <1>1, <2>1, <3>1, NewPage
    <3> QED
      BY <1>2, <1>5, <3>2 DEF Below
  <2> QED
    BY <1>2, <1>3, <2>1 DEF Below
<1> QED
  BY <1>1, <1>2, <1>3, <1>4, <1>5 DEF Resident

LEMMA OtherProcessKeeps ==
  ASSUME IInv, OtherProcess
  PROVE  IInv'
<1>1. /\ Append1(Size + 1) \/ UseCache
      /\ UNCHANGED placeVars /\ UNCHANGED restVars /\ UNCHANGED call
  BY DEF OtherProcess
<1>2. TInv /\ Size \in Nat /\ fp \in FpRec /\ call \in CallRec /\ content \in Seq(Bytes)
  BY TInvGives DEF IInv
<1>3. pos \in Nat /\ Len(pending) \in Nat
  BY <1>2, TInvGives
<1>4. /\ FileTyped' /\ UNCHANGED <<platform, owned, fp>>
      /\ Len(content) <= Len(content') /\ Len(content') \in Nat
      /\ \A i \in 1 .. Len(content) : content'[i] = content[i]
      /\ \A i \in Len(content) + 1 .. Len(content') : content'[i] = i
  <2>1. CASE Append1(Size + 1)
    BY <1>2, <2>1, AppendIs DEF Size
  <2>2. CASE UseCache
    <3>1. UNCHANGED <<platform, able, content, view, owned, fp>>
      BY <2>2 DEF UseCache
    <3>2. PICK p \in {q \in 0..MaxSize : q % Page = 0 /\ q < Size} :
            cached' = IF p \in cached THEN cached \ {p} ELSE cached \cup {p}
      BY <2>2 DEF UseCache
    <3>3. cached' \subseteq {q \in Nat : q < Size /\ q % Page = 0}
      BY <1>2, <3>2, SizeAssumption DEF TInv, Typed, FileTyped
    <3> QED
      BY <1>2, <3>1, <3>3 DEF TInv, Typed, FileTyped, Size
  <2> QED
    BY <1>1, <2>1, <2>2
<1>5. PlaceTyped' /\ RestTyped' /\ RecordsTyped'
  BY <1>1, <1>2, <1>4 DEF TInv, Typed, PlaceTyped, RestTyped, RecordsTyped, placeVars, restVars
<1>6. Linked'
  BY <1>1, <1>2, <1>4 DEF TInv, Linked, placeVars, restVars
<1>7. Resident'
  <2>1. CASE Append1(Size + 1)
    BY <2>1, AppendResident
  <2>2. CASE UseCache
    BY <1>4, <2>2 DEF Resident, UseCache
  <2> QED
    BY <1>1, <2>1, <2>2
<1>8. Ahead'
  <2>1. Holds(content', pending, pos)
    BY <1>2, <1>3, <1>4, HoldsGrown DEF IInv, Ahead, Size
  <2> QED
    BY <1>1, <2>1 DEF Ahead, placeVars
<1>9. Flight'
  <2>1. Fits(content, call, pos, pending) => Fits(content', call, pos, pending)
    BY <1>2, <1>4, FitsGrown DEF Size
  <2> QED
    BY <1>1, <2>1 DEF IInv, Flight, Staged, placeVars
<1>10. Served'
  <2>1. Serves(content, call, fp) => Serves(content', call, fp)
    BY <1>2, <1>4, ServesGrown DEF Size
  <2> QED
    BY <1>1, <1>4, <2>1 DEF IInv, Served
<1>11. Ended'
  <2>1. Over(content, call, pos) => Over(content', call, pos)
    BY <1>2, <1>4, OverGrown DEF Size
  <2>2. Over(content', call, pos) => Over(content, call, pos)'
    BY <1>1 DEF Over, placeVars, restVars
  <2> QED
    BY <1>1, <2>1, <2>2 DEF IInv, Ended
<1>12. NothingCutShort'
  BY <1>1 DEF IInv, NothingCutShort
<1> QED
  BY <1>4, <1>5, <1>6, <1>7, <1>8, <1>9, <1>10, <1>11, <1>12 DEF IInv, TInv, Typed

LEMMA StutterKeeps ==
  ASSUME IInv, UNCHANGED vars
  PROVE  IInv'
<1>1. UNCHANGED <<platform, able, content, cached, view, owned, fp, pos, pending, size_hint,
                  append, fast, is_open, changes, call>>
  BY DEF vars, fpVars, placeVars, restVars
<1>2. TInv'
  BY <1>1 DEF IInv, TInv, Typed, FileTyped, PlaceTyped, RestTyped, RecordsTyped, Linked, Size
<1>3. Resident'
  BY <1>1 DEF IInv, Resident, Below, LastPage, PagesOf, Size
<1>4. Ahead' /\ NothingCutShort'
  BY <1>1 DEF IInv, Ahead, NothingCutShort
<1>5. Flight' /\ Served' /\ Ended'
  BY <1>1 DEF IInv, Flight, Served, Ended, Over
<1> QED
  BY <1>2, <1>3, <1>4, <1>5 DEF IInv

-----------------------------------------------------------------------------
(* The invariants.                                                         *)

LEMMA NextIInv ==
  ASSUME IInv, [Next]_vars
  PROVE  IInv'
<1>1. ASSUME NEW n \in Args,
             Read(n) \/ Read1(n) \/ Readline(n) \/ Readinto(n) \/ Write(n)
               \/ Truncate(n) \/ Seek(n) \/ SeekEnd(n) \/ ReadAt(n, CHUNK)
      PROVE  IInv'
  <2>1. n \in Nat
    BY ArgsAssumption
  <2>2. CASE Read(n) \/ Read1(n) \/ Readline(n) \/ Readinto(n) \/ ReadAt(n, CHUNK)
    BY <2>1, <2>2, ReadKeeps, Read1Keeps, ReadlineKeeps, ReadintoKeeps, ReadAtKeeps
  <2>3. CASE Write(n) \/ Truncate(n) \/ Seek(n) \/ SeekEnd(n)
    BY <2>1, <2>3, WriteKeeps, TruncateKeeps, SeekKeeps, SeekEndKeeps
  <2> QED
    BY <1>1, <2>2, <2>3
<1>2. CASE Readline(Unlimited)
  <2>1. Unlimited \in Nat
    BY SizeAssumption DEF Unlimited
  <2> QED
    BY <1>2, <2>1, ReadlineKeeps
<1>3. CASE ReadAll \/ Peek \/ ReadBytes \/ Close
  BY <1>3, ReadAllKeeps, PeekKeeps, ReadBytesKeeps, CloseKeeps
<1>4. CASE FastStep \/ FastServed \/ FastDeclined \/ OpReads
  BY <1>4, FastStepKeeps, FastServedKeeps, FastDeclinedKeeps, OpReadsKeeps
<1>5. CASE SizeKnown \/ SizeSettles \/ FillSettles \/ SizeChecked \/ ProbeSettles
  BY <1>5, SizeKnownKeeps, SizeSettlesKeeps, FillSettlesKeeps, SizeCheckedKeeps, ProbeSettlesKeeps
<1>6. CASE WriteSettles \/ (\E k \in 1..call.want : AppendSome(k)) \/ AppendEnds
  BY <1>6, WriteSettlesKeeps, AppendSomeKeeps, AppendEndsKeeps
<1>7. CASE TruncateSettles \/ SeekEndSettles \/ CloseSettles \/ Raise
  BY <1>7, TruncateSettlesKeeps, SeekEndSettlesKeeps, CloseSettlesKeeps, RaiseKeeps
<1>8. CASE Return \/ OtherProcess
  BY <1>8, ReturnKeeps, OtherProcessKeeps
<1>9. CASE UNCHANGED vars
  BY <1>9, StutterKeeps
<1> QED
  BY <1>1, <1>2, <1>3, <1>4, <1>5, <1>6, <1>7, <1>8, <1>9 DEF Next

\* The inductive invariant: types, the link between the call and the method of
\* the fast path it waits for, what a look at the page cache has established,
\* where a call in flight stands and what one that is over came to.
THEOREM Invariant == Spec => []IInv
<1>1. IInv /\ [Next]_vars => IInv'
  BY NextIInv
<1> QED
  BY <1>1, InitIInv, PTL DEF Spec

\* The state of a BinaryFile and of its FastPath is well typed: the mapping is
\* whole pages, the loop's thread is in the fast path exactly for a call that
\* waits for it, try_read_file's descriptor is closed when it returns, and a
\* closed file has neither read-ahead nor fast path.
THEOREM TypeCorrect == Spec => []TypeOK
BY Invariant, IInvTypeOK, PTL

\* The read-ahead is what the file holds from the position on (binary.py,
\* `pending`), for every sequence of calls, whatever raised or was cancelled,
\* and for every chunk size, while another process appends.
THEOREM ReadAheadIsTrue == Spec => []PendingIsAhead
BY Invariant, IInvAhead, PTL

\* A call that returns has read or written at the position it found and leaves
\* the position behind its bytes, whichever of read-ahead, fast path, op and
\* parallel read served it.  An append has written all its bytes, in order, none
\* twice and none over another process's, and leaves the position at an end the
\* file had behind them, however many writes it took and whoever appended
\* between them and before the fstat.  A call that raises leaves the position,
\* readinto up to what it had handed over.
THEOREM PositionIsRight == Spec => []PositionFollows
BY Invariant, IInvPosition, PTL

\* A result is short only at the end of the file, a read of everything reaches
\* the end the file had when it was last read, and a line is a whole line,
\* although the file grows between any two system calls of the read.
THEOREM ResultsWhole == Spec => []NothingCutShort
<1>1. IInv => NothingCutShort
  BY DEF IInv
<1> QED
  BY <1>1, Invariant, PTL

\* darwin.rs: mincore is asked about the live mapping only, and the copy
\* touches no cold page that holds file data, for every page size, headroom
\* and number of flags per mincore call.
THEOREM InlineReadsDontBlock == Spec => []InlineNeverBlocks
BY Invariant, IInvInline, PTL
=============================================================================
