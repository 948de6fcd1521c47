--------------------------- MODULE ReadGroupProofs ---------------------------
(***************************************************************************)
(* The parallel read for every length, chunk length and number of threads: *)
(* the buffer outlives the kernel ops, and what is delivered is the filled *)
(* prefix.                                                                 *)
(***************************************************************************)
EXTENDS ReadGroup, FiniteSetTheorems, TLAPS

-----------------------------------------------------------------------------
(* How chunks lie in the range.                                            *)

\* The smaller of two numbers.
LEMMA MinOfTwo ==
  ASSUME NEW a \in Int, NEW b \in Int
  PROVE  Min({a, b}) = IF a <= b THEN a ELSE b
<1> DEFINE m == IF a <= b THEN a ELSE b
<1>1. m \in {a, b} /\ \A y \in {a, b} : m <= y
  OBVIOUS
<1>2. \A x \in {a, b} : (\A y \in {a, b} : x <= y) => x = m
  OBVIOUS
<1> QED
  BY <1>1, <1>2 DEF Min

\* The larger of two numbers.
LEMMA MaxOfTwo ==
  ASSUME NEW a \in Int, NEW b \in Int
  PROVE  Max({a, b}) = IF a >= b THEN a ELSE b
<1> DEFINE m == IF a >= b THEN a ELSE b
<1>1. m \in {a, b} /\ \A y \in {a, b} : m >= y
  OBVIOUS
<1>2. \A x \in {a, b} : (\A y \in {a, b} : x >= y) => x = m
  OBVIOUS
<1> QED
  BY <1>1, <1>2 DEF Max

\* Rounding down to a multiple of the chunk length.
LEMMA RoundDown ==
  ASSUME NEW b \in Nat
  PROVE  /\ b \div Chunk \in Nat
         /\ b % Chunk \in Nat
         /\ b % Chunk < Chunk
         /\ b = Chunk * (b \div Chunk) + (b % Chunk)
BY ChunkAssumption

\* Multiples are the numbers without a remainder.
LEMMA MultipleMod ==
  ASSUME NEW i \in Nat
  PROVE  (Chunk * i) % Chunk = 0
BY ChunkAssumption

\* read_parallel's loop steps from multiple to multiple.
LEMMA NextMultiple ==
  ASSUME NEW s \in Nat, s % Chunk = 0
  PROVE  (s + Chunk) % Chunk = 0
<1> DEFINE i == s \div Chunk
<1>1. i \in Nat /\ s = Chunk * i
  BY RoundDown, ChunkAssumption
<1>2. s + Chunk = Chunk * (i + 1)
  BY <1>1, ChunkAssumption
<1> QED
  BY <1>1, <1>2, MultipleMod

\* Two multiples less than a chunk apart from the same number are the same.
LEMMA SameChunk ==
  ASSUME NEW s \in Nat, NEW t \in Nat, NEW b \in Nat,
         s % Chunk = 0, t % Chunk = 0,
         s <= b, b < s + Chunk, t <= b, b < t + Chunk
  PROVE  s = t
<1> DEFINE i == s \div Chunk
           j == t \div Chunk
<1>1. i \in Nat /\ j \in Nat /\ s = Chunk * i /\ t = Chunk * j
  BY RoundDown, ChunkAssumption
<1>2. ASSUME i < j PROVE FALSE
  <2>1. Chunk * j >= Chunk * (i + 1)
    BY <1>1, <1>2, ChunkAssumption
  <2> QED
    BY <1>1, <2>1, ChunkAssumption
<1>3. ASSUME j < i PROVE FALSE
  <2>1. Chunk * i >= Chunk * (j + 1)
    BY <1>1, <1>3, ChunkAssumption
  <2> QED
    BY <1>1, <2>1, ChunkAssumption
<1> QED
  BY <1>1, <1>2, <1>3

\* The chunk a byte lies in.
LEMMA ChunkOfByte ==
  ASSUME len \in Nat, NEW b \in Nat, b < len
  PROVE  \E s \in Starts : s <= b /\ b < s + ChunkLen(s)
<1> DEFINE s == Chunk * (b \div Chunk)
<1>1. s \in Nat /\ s <= b /\ b < s + Chunk
  BY RoundDown, ChunkAssumption
<1>2. s % Chunk = 0
  BY RoundDown, MultipleMod
<1>3. s \in Starts
  BY <1>1, <1>2 DEF Starts
<1>4. ChunkLen(s) = IF Chunk <= len - s THEN Chunk ELSE len - s
  BY <1>1, MinOfTwo, ChunkAssumption DEF ChunkLen
<1> QED
  BY <1>1, <1>3, <1>4

\* chunk_count is the number of rounds of read_parallel's loop.
LEMMA CountOfStarts ==
  ASSUME len \in Nat
  PROVE  /\ IsFiniteSet(Starts)
         /\ Cardinality(Starts) = ChunkCount(len)
         /\ ChunkCount(len) \in Nat
<1>1. CASE len = 0
  <2>1. Starts = {0}
    BY <1>1, ChunkAssumption, MultipleMod DEF Starts
  <2>2. (len + Chunk - 1) \div Chunk = 0
    BY <1>1, ChunkAssumption
  <2>3. ChunkCount(len) = 1
    BY <2>2, MaxOfTwo DEF ChunkCount
  <2>4. IsFiniteSet({0}) /\ Cardinality({0}) = 1
    BY FS_Singleton
  <2> QED
    BY <2>1, <2>3, <2>4
<1>2. CASE len > 0
  <2> DEFINE k == (len + Chunk - 1) \div Chunk
             f == [i \in 0..(k - 1) |-> Chunk * i]
  <2>1. /\ k \in Nat
        /\ k > 0
        /\ Chunk * k >= len
        /\ Chunk * (k - 1) < len
    <3> DEFINE d == len + Chunk - 1
    <3>1. d \in Nat /\ d >= Chunk
      BY <1>2, ChunkAssumption
    <3>2. k \in Nat /\ d = Chunk * k + (d % Chunk) /\ d % Chunk \in Nat /\ d % Chunk < Chunk
      BY <3>1, RoundDown
    <3>3. k > 0
      BY <3>1, <3>2, ChunkAssumption
    <3>4. Chunk * (k - 1) = Chunk * k - Chunk
      BY <3>2, ChunkAssumption
    <3> QED
      BY <3>2, <3>3, <3>4, ChunkAssumption
  <2>2. ChunkCount(len) = k
    BY <2>1, MaxOfTwo DEF ChunkCount
  <2> HIDE DEF k
  <2>3. f \in [0..(k - 1) -> Starts]
    <3> SUFFICES ASSUME NEW i \in 0..(k - 1) PROVE Chunk * i \in Starts
      OBVIOUS
    <3>1. Chunk * i <= Chunk * (k - 1) /\ Chunk * i \in Nat
      BY <2>1, ChunkAssumption
    <3>2. (Chunk * i) % Chunk = 0
      BY <2>1, MultipleMod
    <3>3. Chunk * i < len
      BY <2>1, <3>1, ChunkAssumption
    <3> QED
      BY <3>1, <3>2, <3>3 DEF Starts
  <2>4. \A i, j \in 0..(k - 1) : f[i] = f[j] => i = j
    BY <2>1, ChunkAssumption
  <2>5. \A s \in Starts : \E i \in 0..(k - 1) : f[i] = s
    <3> SUFFICES ASSUME NEW s \in Starts PROVE \E i \in 0..(k - 1) : Chunk * i = s
      OBVIOUS
    <3> DEFINE i == s \div Chunk
    <3>1. s \in Nat /\ s < len /\ s % Chunk = 0
      BY <1>2 DEF Starts
    <3>2. i \in Nat /\ s = Chunk * i
      BY <3>1, RoundDown, ChunkAssumption
    <3>3. i < k
      BY <2>1, <3>1, <3>2, ChunkAssumption
    <3> QED
      BY <2>1, <3>2, <3>3
  <2>6. ExistsBijection(0..(k - 1), Starts)
    <3>1. f \in Bijection(0..(k - 1), Starts)
      BY <2>3, <2>4, <2>5 DEF Bijection, Injection, Surjection, IsInjective
    <3> QED
      BY <3>1 DEF ExistsBijection
  <2>7. IsFiniteSet(0..(k - 1)) /\ Cardinality(0..(k - 1)) = k
    BY <2>1, FS_Interval
  <2> QED
    BY <2>1, <2>2, <2>6, <2>7, FS_Bijection
<1> QED
  BY <1>1, <1>2

-----------------------------------------------------------------------------
(* Type correctness.                                                       *)

\* A chunk's length, and where it lies.
LEMMA ChunkInRange ==
  ASSUME len \in Nat, NEW s \in Starts
  PROVE  /\ s \in Nat /\ s <= len /\ s % Chunk = 0
         /\ ChunkLen(s) \in Nat /\ ChunkLen(s) <= Chunk /\ s + ChunkLen(s) <= len
<1>1. s \in Nat /\ s <= len /\ s % Chunk = 0
  BY DEF Starts
<1>2. ChunkLen(s) = IF Chunk <= len - s THEN Chunk ELSE len - s
  BY <1>1, MinOfTwo, ChunkAssumption DEF ChunkLen
<1> QED
  BY <1>1, <1>2, ChunkAssumption

\* A call starts well typed.
LEMMA InitTypeOK == Init => TypeOK
<1> SUFFICES ASSUME Init PROVE TypeOK
  OBVIOUS
<1>1. len \in Lens /\ len \in Nat
  BY LensAssumption DEF Init
<1>2. remaining \in Nat
  BY <1>1, CountOfStarts DEF Init
<1>3. \A s \in Starts : stage[s] = "new" /\ reply[s] = None
  BY DEF Init
<1>4. 0 % Chunk = 0
  BY ChunkAssumption
<1>5. returned \in BOOLEAN /\ asked \in BOOLEAN /\ held \in BOOLEAN
  BY DEF Init
<1>6. /\ next = 0 /\ nLimit \in 0..len /\ error = "none" /\ result = None
      /\ stage \in [Starts -> Stages] /\ DOMAIN reply = Starts
  BY <1>1 DEF Init, Stages
<1> QED
  BY <1>1, <1>2, <1>3, <1>4, <1>5, <1>6 DEF TypeOK

\* The length never changes, and with it the chunks.
LEMMA LenKept ==
  [Next]_vars =>
    /\ len' = len
    /\ Starts' = Starts
    /\ \A s \in Starts : ChunkLen(s)' = ChunkLen(s)
<1> SUFFICES ASSUME [Next]_vars PROVE len' = len
  BY DEF Starts, ChunkLen
<1> QED
  BY DEF Next, vars, Caller, Callback, SubmitChunk, SubmitEmpty, Return, CancelOps,
         Settle, Record, Sub, Publish

\* The part of TypeOK about the replies.
RepliesOK ==
  \A s \in Starts :
    IF stage[s] \in {"new", "kernel"}
      THEN reply[s] = None
      ELSE reply[s] \in {Read(n) : n \in 0..ChunkLen(s)} \cup {Err(e) : e \in Errors}

\* Every step keeps a call well typed: a count stays within its chunk and the
\* limit within the length, and `remaining` does not wrap.
LEMMA NextTypeOK == TypeOK /\ RemainingCounts /\ [Next]_vars => TypeOK'
<1> SUFFICES ASSUME TypeOK, RemainingCounts, [Next]_vars PROVE TypeOK'
  OBVIOUS
<1>0. /\ len \in Nat /\ len \in Lens /\ RepliesOK
      /\ len' = len /\ Starts' = Starts
      /\ \A s \in Starts : ChunkLen(s)' = ChunkLen(s)
  BY LensAssumption, LenKept DEF TypeOK, RepliesOK
<1> USE DEF callVars, stateVars, Goto, Stages
<1>1. CASE SubmitChunk
  <2>1. next \in Starts
    BY <1>0, <1>1 DEF SubmitChunk, Starts, TypeOK
  <2>2. (next + Chunk) % Chunk = 0
    BY NextMultiple DEF TypeOK
  <2> QED
    BY <1>0, <1>1, <2>1, <2>2, ChunkAssumption DEF SubmitChunk, TypeOK
<1>2. CASE SubmitEmpty
  <2>1. 0 \in Starts /\ 0 \in 0..ChunkLen(0)
    BY <1>0, <1>2, MultipleMod, MinOfTwo, ChunkAssumption DEF SubmitEmpty, Starts, ChunkLen
  <2>2. Read(0) \in {Read(n) : n \in 0..ChunkLen(0)}
    BY <2>1
  <2> QED
    BY <1>0, <1>2, <2>1, <2>2, ChunkAssumption DEF SubmitEmpty, TypeOK
<1>3. CASE Return
  BY <1>0, <1>3 DEF Return, TypeOK
<1>4. CASE CancelOps
  BY <1>0, <1>4 DEF CancelOps, TypeOK
<1>5. ASSUME NEW s \in Starts, Settle(s) PROVE TypeOK'
  <2>1. PICK r \in Replies(s) : reply' = [reply EXCEPT ![s] = r]
    BY <1>5 DEF Settle
  <2>2. r \in {Read(n) : n \in 0..ChunkLen(s)} \cup {Err(e) : e \in Errors}
    BY <2>1 DEF Replies, Errors
  <2> QED
    BY <1>0, <1>5, <2>1, <2>2 DEF Settle, TypeOK
<1>6. ASSUME NEW s \in Starts, Record(s) PROVE TypeOK'
  <2>1. nLimit' \in 0..len
    <3>1. CASE reply[s].kind = "read" /\ reply[s].n < ChunkLen(s)
      <4>1. reply[s].n \in 0..ChunkLen(s)
        BY <1>0, <1>6, <3>1 DEF Record, RepliesOK, Read, Err
      <4>2. s + reply[s].n \in 0..len
        BY <1>0, <4>1, ChunkInRange
      <4> QED
        BY <1>0, <1>6, <3>1, <4>2, MinOfTwo DEF Record, TypeOK
    <3>2. CASE ~(reply[s].kind = "read" /\ reply[s].n < ChunkLen(s))
      BY <1>6, <3>2 DEF Record, TypeOK
    <3> QED
      BY <3>1, <3>2
  <2>2. error' \in {"none"} \cup Errors
    BY <1>0, <1>6 DEF Record, TypeOK, RepliesOK, Read, Err
  <2> QED
    BY <1>0, <1>6, <2>1, <2>2 DEF Record, TypeOK
<1>7. ASSUME NEW s \in Starts, Sub(s) PROVE TypeOK'
  <2>1. remaining # 0
    BY <1>0, <1>7, CountOfStarts, FS_Subset, FS_EmptySet DEF Sub, RemainingCounts, Uncounted
  <2> QED
    BY <1>0, <1>7, <2>1 DEF Sub, TypeOK
<1>8. ASSUME NEW s \in Starts, Publish(s) PROVE TypeOK'
  BY <1>0, <1>8 DEF Publish, TypeOK
<1>9. CASE UNCHANGED vars
  BY <1>0, <1>9 DEF vars, TypeOK
<1> QED
  BY <1>1, <1>2, <1>3, <1>4, <1>5, <1>6, <1>7, <1>8, <1>9 DEF Next, Caller, Callback

-----------------------------------------------------------------------------
(* The buffer outlives the ops.                                            *)

\* The group starts with every chunk uncounted.
LEMMA InitCounts == Init => RemainingCounts
<1> SUFFICES ASSUME Init PROVE RemainingCounts
  OBVIOUS
<1>1. len \in Nat /\ remaining = ChunkCount(len) /\ result = None /\ held
  BY LensAssumption DEF Init
<1>2. \A s \in Starts : stage[s] = "new"
  BY DEF Init
<1>3. Uncounted = Starts
  BY <1>2 DEF Uncounted
<1> QED
  BY <1>1, <1>2, <1>3, CountOfStarts DEF RemainingCounts, Finished

\* Moving a chunk between two stages before the count counts nothing.
LEMMA SameUncounted ==
  ASSUME TypeOK, [Next]_vars, NEW s \in Starts,
         NEW from \in {"new", "kernel", "record"}, NEW to \in {"kernel", "record", "sub"},
         Goto(s, from, to)
  PROVE  Uncounted' = Uncounted /\ \A r \in Starts : stage'[r] = "publish" <=> stage[r] = "publish"
BY LenKept DEF Goto, Uncounted, TypeOK

\* Every step keeps the count: only Sub counts, and only the Sub that reaches
\* zero leads to Publish.
LEMMA NextCounts == TypeOK /\ RemainingCounts /\ [Next]_vars => RemainingCounts'
<1> SUFFICES ASSUME TypeOK, RemainingCounts, [Next]_vars PROVE RemainingCounts'
  OBVIOUS
<1>0. /\ len \in Nat
      /\ len' = len /\ Starts' = Starts
      /\ stage \in [Starts -> Stages]
      /\ IsFiniteSet(Uncounted)
  <2>1. Uncounted \in SUBSET Starts
    BY DEF Uncounted
  <2> QED
    BY <2>1, LensAssumption, LenKept, CountOfStarts, FS_Subset DEF TypeOK
<1> USE DEF callVars, stateVars, RemainingCounts, Finished
<1>1. CASE SubmitChunk
  <2>1. next \in Starts
    BY <1>0, <1>1 DEF SubmitChunk, Starts, TypeOK
  <2> QED
    BY <1>0, <1>1, <2>1, SameUncounted DEF SubmitChunk
<1>2. CASE SubmitEmpty
  <2>1. 0 \in Starts
    BY <1>2, ChunkAssumption DEF SubmitEmpty, Starts
  <2> QED
    BY <1>0, <1>2, <2>1, SameUncounted DEF SubmitEmpty
<1>3. CASE Return
  BY <1>0, <1>3 DEF Return, Uncounted
<1>4. CASE CancelOps
  BY <1>0, <1>4 DEF CancelOps, Uncounted
<1>5. ASSUME NEW s \in Starts, Settle(s) PROVE RemainingCounts'
  BY <1>0, <1>5, SameUncounted DEF Settle
<1>6. ASSUME NEW s \in Starts, Record(s) PROVE RemainingCounts'
  BY <1>0, <1>6, SameUncounted DEF Record
<1>7. ASSUME NEW s \in Starts, Sub(s) PROVE RemainingCounts'
  <2>1. s \in Uncounted /\ Uncounted' = Uncounted \ {s}
    BY <1>0, <1>7 DEF Sub, Goto, Uncounted, Stages
  <2>2. Cardinality(Uncounted') = Cardinality(Uncounted) - 1
    BY <1>0, <2>1, FS_RemoveElement
  <2>3. remaining # 0 /\ remaining' = remaining - 1 /\ result' = result /\ held' = held
    BY <1>0, <1>7, <2>1, FS_EmptySet DEF Sub
  <2>4. \A r \in Starts : stage[r] # "publish"
    BY <2>3
  <2>5. \A r \in Starts : stage'[r] = "publish" => r = s /\ remaining = 1
    BY <1>0, <1>7, <2>4 DEF Sub, Goto
  <2>6. ~Finished
    BY <2>3
  <2>7. held
    BY <2>3
  <2> QED
    BY <1>0, <2>2, <2>3, <2>5, <2>6, <2>7 DEF TypeOK
<1>8. ASSUME NEW s \in Starts, Publish(s) PROVE RemainingCounts'
  <2>1. Uncounted' = Uncounted
    BY <1>0, <1>8 DEF Publish, Goto, Uncounted
  <2>2. \A r \in Starts : stage'[r] # "publish"
    BY <1>0, <1>8 DEF Publish, Goto
  <2>3. result' # None
    BY <1>8 DEF Publish, Read, Err, None
  <2> QED
    BY <1>0, <1>8, <2>1, <2>2, <2>3 DEF Publish, Goto
<1>9. CASE UNCHANGED vars
  BY <1>0, <1>9 DEF vars, Uncounted
<1> QED
  BY <1>1, <1>2, <1>3, <1>4, <1>5, <1>6, <1>7, <1>8, <1>9 DEF Next, Caller, Callback

\* Type correctness and the count, which need each other.
THEOREM TypeAndCounts == Spec => [](TypeOK /\ RemainingCounts)
<1>1. Init => TypeOK /\ RemainingCounts
  BY InitTypeOK, InitCounts
<1>2. TypeOK /\ RemainingCounts /\ [Next]_vars => (TypeOK /\ RemainingCounts)'
  BY NextTypeOK, NextCounts
<1> QED
  BY <1>1, <1>2, PTL DEF Spec

\* The group's state is well typed: n_limit stays within the buffer, and only
\* a chunk that was submitted is past its start.
THEOREM TypeCorrect == Spec => []TypeOK
  BY TypeAndCounts, PTL

\* When nothing is left to count, every callback but the publisher's is done.
LEMMA NothingLeft ==
  ASSUME TypeOK, RemainingCounts, remaining = 0
  PROVE  \A s \in Starts : stage[s] \in {"publish", "done"}
<1>1. len \in Nat /\ Uncounted \in SUBSET Starts
  BY LensAssumption DEF TypeOK, Uncounted
<1>2. IsFiniteSet(Uncounted)
  BY <1>1, CountOfStarts, FS_Subset
<1>3. Uncounted = {}
  BY <1>2, FS_EmptySet DEF RemainingCounts
<1> QED
  BY <1>3 DEF Uncounted, TypeOK, Stages

\* ReadGroup hands the bytes object over once, when no kernel op can write into
\* it any more.
THEOREM BufferSafe == Spec => []BufferOutlivesOps
<1>1. TypeOK /\ RemainingCounts => BufferOutlivesOps
  <2> SUFFICES ASSUME TypeOK, RemainingCounts PROVE BufferOutlivesOps
    OBVIOUS
  <2>1. ASSUME Finished, NEW s \in Starts PROVE stage[s] = "done"
    BY <2>1, NothingLeft DEF RemainingCounts
  <2>2. ASSUME NEW s \in Starts, stage[s] = "publish"
        PROVE  held /\ \A r \in Starts \ {s} : stage[r] = "done"
    BY <2>2, NothingLeft DEF RemainingCounts
  <2> QED
    BY <2>1, <2>2 DEF BufferOutlivesOps
<1> QED
  BY <1>1, TypeAndCounts, PTL

-----------------------------------------------------------------------------
(* What is delivered.                                                      *)

\* A fresh group has recorded nothing.
LEMMA InitLimit == Init => LimitIsTight
<1> SUFFICES ASSUME Init PROVE LimitIsTight
  OBVIOUS
<1>1. Recorded = {}
  BY DEF Init, Recorded
<1> QED
  BY <1>1 DEF Init, LimitIsTight, None

\* A step that records nothing keeps the limit.
LEMMA SameRecorded ==
  ASSUME TypeOK, LimitIsTight, [Next]_vars, UNCHANGED stateVars,
         Recorded' = Recorded, \A s \in Recorded : reply'[s] = reply[s],
         result = None
  PROVE  LimitIsTight'
BY LenKept DEF LimitIsTight, stateVars, Short, Recorded, Finished, None

\* While a chunk has not counted itself there is no result.
LEMMA OpenIsUnfinished ==
  ASSUME TypeOK, RemainingCounts, NEW s \in Uncounted
  PROVE  result = None
<1>1. s \in Starts /\ stage[s] \notin {"publish", "done"}
  BY DEF Uncounted
<1>2. remaining # 0
  BY <1>1, NothingLeft
<1> QED
  BY <1>2 DEF RemainingCounts, Finished

\* Every step keeps the limit tight: Record takes the chunk it records into
\* account, and Publish comes after the last Record.
LEMMA NextLimit ==
  TypeOK /\ RemainingCounts /\ LimitIsTight /\ [Next]_vars => LimitIsTight'
<1> SUFFICES ASSUME TypeOK, RemainingCounts, LimitIsTight, [Next]_vars
             PROVE  LimitIsTight'
  OBVIOUS
<1>0. /\ len \in Nat
      /\ len' = len /\ Starts' = Starts
      /\ \A s \in Starts : ChunkLen(s)' = ChunkLen(s)
      /\ stage \in [Starts -> Stages] /\ DOMAIN reply = Starts
      /\ RepliesOK
  BY LensAssumption, LenKept DEF TypeOK, RepliesOK
<1>1. CASE SubmitChunk
  <2>1. next \in Starts
    BY <1>0, <1>1 DEF SubmitChunk, Starts, TypeOK
  <2>2. next \in Uncounted /\ Recorded' = Recorded
    BY <1>0, <1>1, <2>1 DEF SubmitChunk, Goto, Uncounted, Recorded
  <2> QED
    BY <1>1, <2>2, OpenIsUnfinished, SameRecorded DEF SubmitChunk
<1>2. CASE SubmitEmpty
  <2>1. 0 \in Starts
    BY <1>2, ChunkAssumption DEF SubmitEmpty, Starts
  <2>2. 0 \in Uncounted /\ Recorded' = Recorded /\ 0 \notin Recorded
    BY <1>0, <1>2, <2>1 DEF SubmitEmpty, Goto, Uncounted, Recorded
  <2>3. \A s \in Recorded : reply'[s] = reply[s]
    BY <1>0, <1>2, <2>2 DEF SubmitEmpty, Recorded
  <2> QED
    BY <1>2, <2>2, <2>3, OpenIsUnfinished, SameRecorded DEF SubmitEmpty
<1>3. CASE Return
  BY <1>0, <1>3 DEF Return, stateVars, LimitIsTight, Recorded, Short, Finished
<1>4. CASE CancelOps
  BY <1>0, <1>4 DEF CancelOps, stateVars, LimitIsTight, Recorded, Short, Finished
<1>5. ASSUME NEW s \in Starts, Settle(s) PROVE LimitIsTight'
  <2>1. s \in Uncounted /\ Recorded' = Recorded /\ s \notin Recorded
    BY <1>0, <1>5 DEF Settle, Goto, Uncounted, Recorded
  <2>2. \A r \in Recorded : reply'[r] = reply[r]
    BY <1>0, <1>5, <2>1 DEF Settle, Recorded
  <2> QED
    BY <1>5, <2>1, <2>2, OpenIsUnfinished, SameRecorded DEF Settle
<1>6. ASSUME NEW s \in Starts, Record(s) PROVE LimitIsTight'
  <2>1. /\ s \in Uncounted /\ s \notin Recorded /\ Recorded' = Recorded \cup {s}
        /\ reply' = reply /\ result' = result
    BY <1>0, <1>6 DEF Record, Goto, Uncounted, Recorded
  <2>2. result = None
    BY <2>1, OpenIsUnfinished
  <2>3. \A r \in Starts : Short(r)' <=> Short(r)
    BY <1>0, <2>1 DEF Short
  <2>4. /\ reply[s].kind \in {"read", "err"}
        /\ reply[s].kind = "read" => reply[s].n \in Nat
        /\ reply[s].kind = "err" => reply[s].e \in Errors
    BY <1>0, <1>6, ChunkInRange DEF Record, Goto, RepliesOK, Read, Err
  <2>5. \A r \in Recorded' : reply[r].kind = "err" => error' # "none"
    BY <1>6, <2>1, <2>2, <2>4 DEF Record, LimitIsTight, Finished, Errors
  <2>6. nLimit \in Nat /\ \A r \in Recorded : Short(r) => reply[r].n \in Nat
    BY <1>0, ChunkInRange DEF TypeOK, Recorded, RepliesOK, Short, Read, Err
  <2>7. CASE Short(s)
    <3>1. nLimit' = IF nLimit <= s + reply[s].n THEN nLimit ELSE s + reply[s].n
      BY <1>0, <1>6, <2>4, <2>6, <2>7, MinOfTwo, ChunkInRange DEF Record, Short
    <3>2. \A r \in Recorded' : Short(r) => nLimit' <= r + reply[r].n
      BY <1>0, <2>1, <2>4, <2>6, <2>7, <3>1, ChunkInRange DEF LimitIsTight, Short, Recorded
    <3>3. nLimit' = len \/ \E r \in Recorded' : Short(r) /\ nLimit' = r + reply[r].n
      BY <2>1, <2>7, <3>1 DEF LimitIsTight
    <3> QED
      BY <1>0, <2>1, <2>2, <2>3, <2>5, <3>2, <3>3
      DEF LimitIsTight, Recorded, Finished, None
  <2>8. CASE ~Short(s)
    <3>1. nLimit' = nLimit
      BY <1>6, <2>8 DEF Record, Short
    <3>2. \A r \in Recorded' : Short(r) => nLimit' <= r + reply[r].n
      BY <2>1, <2>8, <3>1 DEF LimitIsTight
    <3>3. nLimit' = len \/ \E r \in Recorded' : Short(r) /\ nLimit' = r + reply[r].n
      BY <2>1, <3>1 DEF LimitIsTight
    <3> QED
      BY <1>0, <2>1, <2>2, <2>3, <2>5, <3>2, <3>3
      DEF LimitIsTight, Recorded, Finished, None
  <2> QED
    BY <2>7, <2>8
<1>7. ASSUME NEW s \in Starts, Sub(s) PROVE LimitIsTight'
  <2>1. s \in Uncounted /\ Recorded' = Recorded
    BY <1>0, <1>7 DEF Sub, Goto, Uncounted, Recorded
  <2> QED
    BY <1>7, <2>1, OpenIsUnfinished, SameRecorded DEF Sub
<1>8. ASSUME NEW s \in Starts, Publish(s) PROVE LimitIsTight'
  <2>1. remaining = 0 /\ ~Finished
    BY <1>8 DEF Publish, Goto, RemainingCounts
  <2>2. Recorded = Starts /\ Recorded' = Recorded /\ reply' = reply /\ nLimit' = nLimit
    BY <1>0, <1>8, <2>1, NothingLeft DEF Publish, Goto, Recorded
  <2>3. \A r \in Starts : reply[r].kind \in {"read", "err"}
    BY <1>0, <2>2 DEF RepliesOK, Recorded, Read, Err
  <2>4. result'.kind = "read" =>
          result'.n = nLimit /\ \A r \in Starts : reply[r].kind = "read"
    BY <1>8, <2>1, <2>2, <2>3 DEF Publish, LimitIsTight, Read, Err
  <2>5. Finished'
    BY <1>8 DEF Publish, Finished, Read, Err, None
  <2>6. \A r \in Starts : Short(r)' <=> Short(r)
    BY <1>0, <2>2 DEF Short
  <2> QED
    BY <1>0, <2>2, <2>4, <2>5, <2>6 DEF LimitIsTight, Recorded
<1>9. CASE UNCHANGED vars
  BY <1>0, <1>9 DEF vars, stateVars, LimitIsTight, Recorded, Short, Finished
<1> QED
  BY <1>1, <1>2, <1>3, <1>4, <1>5, <1>6, <1>7, <1>8, <1>9 DEF Next, Caller, Callback

\* The limit is tight in every state of every parallel read.
THEOREM LimitHolds == Spec => []LimitIsTight
<1>1. TypeOK /\ RemainingCounts /\ LimitIsTight /\ [Next]_vars => LimitIsTight'
  BY NextLimit
<1> QED
  BY <1>1, InitLimit, TypeAndCounts, PTL DEF Spec

\* In a finished read the tight limit is the end of the filled prefix: a byte
\* before it lies in a chunk that is full or ends behind it, and the limit itself
\* lies in the short chunk that set it and in no other.
LEMMA LimitIsPrefix ==
  TypeOK /\ RemainingCounts /\ LimitIsTight => DeliversFilledPrefix
<1> SUFFICES ASSUME TypeOK, RemainingCounts, LimitIsTight, result.kind = "read"
             PROVE  /\ \A b \in 0..(result.n - 1) : b \in Filled
                    /\ result.n < len => result.n \notin Filled
  BY DEF DeliversFilledPrefix
<1>1. len \in Nat /\ RepliesOK /\ nLimit \in Nat /\ nLimit <= len
  BY LensAssumption DEF TypeOK, RepliesOK
<1>2. Finished
  BY DEF Finished, None
<1>3. Recorded = Starts
  <2>1. remaining = 0
    BY <1>2 DEF RemainingCounts
  <2> QED
    BY <2>1, NothingLeft DEF Recorded
<1>4. result.n = nLimit /\ \A s \in Starts : reply[s].kind = "read"
  BY DEF LimitIsTight
<1>5. ASSUME NEW s \in Starts PROVE reply[s].n \in Nat /\ reply[s].n <= ChunkLen(s)
  BY <1>1, <1>3, <1>4, ChunkInRange DEF RepliesOK, Recorded, Read, Err
<1>6. ASSUME NEW b \in 0..(nLimit - 1) PROVE b \in Filled
  <2>1. b \in Nat /\ b < len /\ b < nLimit
    BY <1>1
  <2>2. PICK s \in Starts : s <= b /\ b < s + ChunkLen(s)
    BY <1>1, <2>1, ChunkOfByte
  <2>3. b < s + reply[s].n
    BY <1>1, <1>3, <1>4, <1>5, <2>1, <2>2, ChunkInRange DEF LimitIsTight, Short
  <2> QED
    BY <1>1, <1>4, <2>1, <2>2, <2>3 DEF Filled
<1>7. ASSUME nLimit < len, nLimit \in Filled PROVE FALSE
  <2>1. PICK s \in Starts : Short(s) /\ nLimit = s + reply[s].n
    BY <1>1, <1>3, <1>7 DEF LimitIsTight
  <2>2. PICK t \in Starts : t <= nLimit /\ nLimit < t + reply[t].n
    BY <1>7 DEF Filled
  <2>3. /\ s \in Nat /\ s % Chunk = 0 /\ s <= nLimit /\ nLimit < s + Chunk
        /\ t \in Nat /\ t % Chunk = 0 /\ nLimit < t + Chunk
    BY <1>1, <1>5, <2>1, <2>2, ChunkInRange, ChunkAssumption DEF Short
  <2>4. s = t
    BY <1>1, <2>2, <2>3, SameChunk
  <2> QED
    BY <1>1, <1>5, <2>1, <2>2, <2>3, <2>4
<1> QED
  BY <1>4, <1>6, <1>7

\* A parallel read delivers the filled prefix of its buffer, no uninitialized
\* byte and nothing from behind a short chunk, in whatever order its chunks
\* settle.
THEOREM DeliversPrefix == Spec => []DeliversFilledPrefix
BY LimitIsPrefix, LimitHolds, TypeAndCounts, PTL

-----------------------------------------------------------------------------
(* Failing.                                                                *)

\* What FailsWithAChunk rests on besides the limit: the error kept is one a
\* recorded chunk had, and so is the one published.
ErrorIsAChunks ==
  /\ error # "none" => \E s \in Recorded : reply[s] = Err(error)
  /\ \A s \in Starts : reply[s] = Err("ECANCELED") => asked
  /\ result.kind = "err" => \E s \in Starts : reply[s] = result

\* Replies are told apart by their fields.
LEMMA ReplyFields ==
  /\ \A n : Read(n).kind = "read"
  /\ \A e : Err(e).kind = "err" /\ Err(e).e = e
BY DEF Read, Err

\* A fresh group has neither error nor result.
LEMMA InitError == Init => ErrorIsAChunks
BY DEF Init, ErrorIsAChunks, None, Err

\* A step that keeps what chunks answered, what is recorded and the error.
LEMMA SameError ==
  ASSUME ErrorIsAChunks, Starts' = Starts, UNCHANGED <<reply, error, result>>,
         Recorded \subseteq Recorded', asked => asked'
  PROVE  ErrorIsAChunks'
BY DEF ErrorIsAChunks, Err

\* A step that settles a chunk which was not recorded.
LEMMA SettleError ==
  ASSUME TypeOK, ErrorIsAChunks, Starts' = Starts, NEW s \in Starts \ Recorded,
         NEW r, reply' = [reply EXCEPT ![s] = r], r = Err("ECANCELED") => asked,
         reply[s] = None, UNCHANGED <<error, result, asked>>, Recorded' = Recorded
  PROVE  ErrorIsAChunks'
<1>1. DOMAIN reply = Starts /\ Recorded \subseteq Starts
  BY DEF TypeOK, Recorded
<1>2. \A t \in Starts \ {s} : reply'[t] = reply[t]
  BY <1>1
<1>3. reply'[s] = r
  BY <1>1
<1>4. error # "none" => \E t \in Recorded : reply'[t] = Err(error)
  BY <1>1, <1>2 DEF ErrorIsAChunks
<1>5. \A t \in Starts : reply'[t] = Err("ECANCELED") => asked
  BY <1>2, <1>3 DEF ErrorIsAChunks
<1>6. ASSUME result.kind = "err" PROVE \E t \in Starts : reply'[t] = result
  <2>1. PICK t \in Starts : reply[t] = result
    BY <1>6 DEF ErrorIsAChunks
  <2>2. t # s
    BY <1>6, <2>1 DEF None
  <2> QED
    BY <1>2, <2>1, <2>2
<1> QED
  BY <1>4, <1>5, <1>6 DEF ErrorIsAChunks, Err

\* Every step keeps it: Record keeps the first error, Publish hands it over.
LEMMA NextError == TypeOK /\ ErrorIsAChunks /\ [Next]_vars => ErrorIsAChunks'
<1> SUFFICES ASSUME TypeOK, ErrorIsAChunks, [Next]_vars PROVE ErrorIsAChunks'
  OBVIOUS
<1>0. /\ len \in Nat /\ Starts' = Starts
      /\ stage \in [Starts -> Stages] /\ DOMAIN reply = Starts
      /\ RepliesOK
  BY LensAssumption, LenKept DEF TypeOK, RepliesOK
<1>1. CASE SubmitChunk
  <2>1. Recorded' = Recorded
    BY <1>0, <1>1 DEF SubmitChunk, Goto, Recorded
  <2> QED
    BY <1>0, <1>1, <2>1, SameError DEF SubmitChunk, stateVars
<1>2. CASE SubmitEmpty
  <2>1. 0 \in Starts
    BY <1>2, ChunkAssumption DEF SubmitEmpty, Starts
  <2>2. Recorded' = Recorded /\ 0 \notin Recorded /\ reply[0] = None
    BY <1>0, <1>2, <2>1 DEF SubmitEmpty, Goto, Recorded, RepliesOK
  <2>3. Read(0) # Err("ECANCELED")
    BY DEF Read, Err
  <2> QED
    BY <1>0, <1>2, <2>1, <2>2, <2>3, SettleError DEF SubmitEmpty, stateVars
<1>3. CASE Return
  <2>1. Recorded' = Recorded
    BY <1>0, <1>3 DEF Return, Recorded
  <2> QED
    BY <1>0, <1>3, <2>1, SameError DEF Return, stateVars
<1>4. CASE CancelOps
  <2>1. Recorded' = Recorded
    BY <1>0, <1>4 DEF CancelOps, Recorded
  <2> QED
    BY <1>0, <1>4, <2>1, SameError DEF CancelOps, stateVars
<1>5. ASSUME NEW s \in Starts, Settle(s) PROVE ErrorIsAChunks'
  <2>1. PICK r \in Replies(s) : reply' = [reply EXCEPT ![s] = r]
    BY <1>5 DEF Settle
  <2>2. r = Err("ECANCELED") => asked
    <3>1. CASE ~asked
      <4>1. (\E n \in 0..ChunkLen(s) : r = Read(n)) \/ r = Err("failed")
        BY <2>1, <3>1 DEF Replies
      <4> QED
        BY <4>1, ReplyFields
    <3> QED
      BY <3>1
  <2>3. Recorded' = Recorded /\ s \notin Recorded /\ reply[s] = None
    BY <1>0, <1>5 DEF Settle, Goto, Recorded, RepliesOK
  <2> QED
    BY <1>0, <1>5, <2>1, <2>2, <2>3, SettleError DEF Settle, stateVars, callVars
<1>6. ASSUME NEW s \in Starts, Record(s) PROVE ErrorIsAChunks'
  <2>1. s \in Recorded' /\ Recorded \subseteq Recorded'
    BY <1>0, <1>6 DEF Record, Goto, Recorded
  <2>2. reply[s].kind = "err" => reply[s] = Err(reply[s].e)
    BY <1>0, <1>6 DEF Record, Goto, RepliesOK, Read, Err
  <2>3. error' # "none" => \E t \in Recorded' : reply[t] = Err(error')
    BY <1>6, <2>1, <2>2 DEF Record, ErrorIsAChunks
  <2> QED
    BY <1>0, <1>6, <2>3 DEF Record, callVars, ErrorIsAChunks, Err
<1>7. ASSUME NEW s \in Starts, Sub(s) PROVE ErrorIsAChunks'
  <2>1. Recorded' = Recorded
    BY <1>0, <1>7 DEF Sub, Goto, Recorded
  <2> QED
    BY <1>0, <1>7, <2>1, SameError DEF Sub, stateVars, callVars
<1>8. ASSUME NEW s \in Starts, Publish(s) PROVE ErrorIsAChunks'
  <2>1. result'.kind = "err" => \E t \in Starts : reply[t] = result'
    BY <1>8 DEF Publish, Read, Err, ErrorIsAChunks, Recorded
  <2> QED
    BY <1>0, <1>8, <2>1 DEF Publish, callVars, ErrorIsAChunks, Err
<1>9. CASE UNCHANGED vars
  BY <1>0, <1>9 DEF vars, callVars, stateVars, ErrorIsAChunks, Recorded, Err
<1> QED
  BY <1>1, <1>2, <1>3, <1>4, <1>5, <1>6, <1>7, <1>8, <1>9 DEF Next, Caller, Callback

\* A parallel read fails exactly when one of its chunks does, with that chunk's
\* error, and with ECANCELED only if cancel_ops asked for it, in whatever order
\* its chunks settle.
THEOREM FailsOnlyWithAChunk == Spec => []FailsWithAChunk
<1>1. TypeOK /\ LimitIsTight /\ ErrorIsAChunks => FailsWithAChunk
  <2> SUFFICES ASSUME TypeOK, LimitIsTight, ErrorIsAChunks, Finished
               PROVE  /\ result.kind = "err" <=> \E s \in Starts : reply[s].kind = "err"
                      /\ result.kind = "err" => \E s \in Starts : reply[s] = result
                      /\ result = Err("ECANCELED") => asked
    BY DEF FailsWithAChunk
  <2>1. result.kind \in {"read", "err"}
    BY DEF TypeOK, Finished, Read, Err
  <2>2. result = Err("ECANCELED") => result.kind = "err"
    BY DEF Err
  <2> QED
    BY <2>1, <2>2 DEF LimitIsTight, ErrorIsAChunks
<1>2. TypeOK /\ ErrorIsAChunks /\ [Next]_vars => ErrorIsAChunks'
  BY NextError
<1> QED
  BY <1>1, <1>2, InitError, LimitHolds, TypeAndCounts, PTL DEF Spec
=============================================================================
