------------------------------ MODULE ReadGroup ------------------------------
(***************************************************************************)
(* One parallel read (turbofile-py, lib.rs): read_parallel cuts the range  *)
(* into chunks and submits one driver op per chunk, all of them writing    *)
(* into the same uninitialized bytes object; the callbacks share a         *)
(* ReadGroup, and the last of them pushes the only completion.             *)
(*                                                                         *)
(* One step is one access to what the threads share: a submission, the     *)
(* group's mutex, its `remaining` atomic.                                  *)
(***************************************************************************)
EXTENDS Naturals, FiniteSets, FiniteSetsExt

CONSTANTS
  Lens,     \* the lengths a caller may ask for
  Chunk,    \* the chunk length: read_parallel refuses 0
  Threads   \* how many callbacks can run at once

ASSUME LensAssumption == Lens \subseteq Nat
ASSUME ChunkAssumption == Chunk \in Nat \ {0}
ASSUME ThreadsAssumption == Threads \in Nat \ {0}

VARIABLES
  len,        \* the argument of this call
  next,       \* the next start of read_parallel's loop
  returned,   \* op_ids is set and the future is the caller's
  asked,      \* the caller ran cancel_ops on the future's op_ids
  stage,      \* where each chunk's op, and then its callback, is
  reply,      \* what the driver answered for each chunk
  remaining,  \* ReadGroup.remaining
  nLimit,     \* GroupState.n_limit
  error,      \* GroupState.error
  held,       \* GroupState still has the future and the bytes object
  result      \* the completion pushed on the bridge

callVars == <<next, returned, asked>>
stateVars == <<nLimit, error, held, result>>
vars == <<len, callVars, stage, reply, remaining, stateVars>>

\* Slip: the count rounds down.
ChunkCountFloor(n) == Max({n \div Chunk, 1})

ChunkCount(n) == Max({(n + Chunk - 1) \div Chunk, 1})

\* (0..len).step_by(chunk); a read of nothing has one chunk that never
\* reaches the driver.
Starts == {s \in 0..len : s % Chunk = 0 /\ (s < len \/ len = 0)}

ChunkLen(s) == Min({Chunk, len - s})

None == [kind |-> "none"]
Read(n) == [kind |-> "read", n |-> n]
Err(e) == [kind |-> "err", e |-> e]

\* What matters of an io::Error: ECANCELED or anything else.
Errors == {"ECANCELED", "failed"}

Init ==
  /\ len \in Lens
  /\ next = 0
  /\ returned = FALSE
  /\ asked = FALSE
  /\ stage = [s \in Starts |-> "new"]
  /\ reply = [s \in Starts |-> None]
  /\ remaining = ChunkCount(len)
  /\ nLimit = len
  /\ error = "none"
  /\ held = TRUE
  /\ result = None

Goto(s, from, to) == stage[s] = from /\ stage' = [stage EXCEPT ![s] = to]

-----------------------------------------------------------------------------
(* read_parallel and cancel_ops, on the loop's thread.                     *)

SubmitChunk ==
  /\ next < len
  /\ Goto(next, "new", "kernel")
  /\ next' = next + Chunk
  /\ UNCHANGED <<len, returned, asked, reply, remaining, stateVars>>

\* A read of nothing runs its one callback itself, with op_ids empty.
SubmitEmpty ==
  /\ len = 0
  /\ Goto(0, "new", "record")
  /\ reply' = [reply EXCEPT ![0] = Read(0)]
  /\ returned' = TRUE
  /\ UNCHANGED <<len, next, asked, remaining, stateVars>>

Return ==
  /\ next >= len /\ len > 0 /\ ~returned
  /\ returned' = TRUE
  /\ UNCHANGED <<len, next, asked, stage, reply, remaining, stateVars>>

\* The future is cancelled while it is not done; no op, nothing to cancel.
CancelOps ==
  /\ returned /\ len > 0 /\ ~asked
  /\ asked' = TRUE
  /\ UNCHANGED <<len, next, returned, stage, reply, remaining, stateVars>>

-----------------------------------------------------------------------------
(* The driver and ReadGroup::chunk_done, on the threads that run callbacks. *)

\* What the driver may answer: a count up to the chunk's length (the file may
\* end, shrink or grow while its chunks are read), or an error.
Replies(s) ==
  {Read(n) : n \in 0..ChunkLen(s)} \cup {Err("failed")} \cup
  (IF asked THEN {Err("ECANCELED")} ELSE {})

Callbacks == {s \in Starts : stage[s] \in {"record", "sub", "publish"}}

\* The kernel is done with the chunk's part of the buffer and a thread starts
\* the callback.
Settle(s) ==
  /\ Cardinality(Callbacks) < Threads
  /\ Goto(s, "kernel", "record")
  /\ \E r \in Replies(s) : reply' = [reply EXCEPT ![s] = r]
  /\ UNCHANGED <<len, callVars, remaining, stateVars>>

\* Slip: a chunk that failed returns before it counts itself.
RecordReturnsOnError(s) ==
  /\ Goto(s, "record", IF reply[s].kind = "err" THEN "done" ELSE "sub")
  /\ nLimit' = IF reply[s].kind = "read" /\ reply[s].n < ChunkLen(s)
                 THEN Min({nLimit, s + reply[s].n}) ELSE nLimit
  /\ error' = IF reply[s].kind = "err" /\ error = "none" THEN reply[s].e ELSE error
  /\ UNCHANGED <<len, callVars, reply, remaining, held, result>>

\* Slip: the limit is the last short chunk, not the first one.
RecordLastShort(s) ==
  /\ Goto(s, "record", "sub")
  /\ nLimit' = IF reply[s].kind = "read" /\ reply[s].n < ChunkLen(s)
                 THEN s + reply[s].n ELSE nLimit
  /\ error' = IF reply[s].kind = "err" /\ error = "none" THEN reply[s].e ELSE error
  /\ UNCHANGED <<len, callVars, reply, remaining, held, result>>

\* Slip: a later chunk's success clears the error.
RecordClearsError(s) ==
  /\ Goto(s, "record", "sub")
  /\ nLimit' = IF reply[s].kind = "read" /\ reply[s].n < ChunkLen(s)
                 THEN Min({nLimit, s + reply[s].n}) ELSE nLimit
  /\ error' = IF reply[s].kind = "err" THEN reply[s].e ELSE "none"
  /\ UNCHANGED <<len, callVars, reply, remaining, held, result>>

\* Under the mutex: a short chunk ends the result, the first error stays.  (A
\* reply of another kind, which no driver gives, would be an error too.)
Record(s) ==
  /\ Goto(s, "record", "sub")
  /\ nLimit' = IF reply[s].kind = "read" /\ reply[s].n < ChunkLen(s)
                 THEN Min({nLimit, s + reply[s].n}) ELSE nLimit
  /\ error' = IF reply[s].kind = "err" /\ error = "none" THEN reply[s].e ELSE error
  /\ UNCHANGED <<len, callVars, reply, remaining, held, result>>

\* Slip: the last callback but one publishes too.
SubPublishesEarly(s) ==
  /\ Goto(s, "sub", IF remaining <= 2 THEN "publish" ELSE "done")
  /\ remaining' = remaining - 1
  /\ UNCHANGED <<len, callVars, reply, stateVars>>

\* remaining.fetch_sub(1): the last callback publishes.
Sub(s) ==
  /\ Goto(s, "sub", IF remaining = 1 THEN "publish" ELSE "done")
  /\ remaining' = remaining - 1
  /\ UNCHANGED <<len, callVars, reply, stateVars>>

\* Take the future, the bytes and the error, and complete(): both takes
\* `expect` to find something.
Publish(s) ==
  /\ held
  /\ Goto(s, "publish", "done")
  /\ held' = FALSE
  /\ error' = "none"
  /\ result' = IF error = "none" THEN Read(nLimit) ELSE Err(error)
  /\ UNCHANGED <<len, callVars, reply, remaining, nLimit>>

Callback(s) == Record(s) \/ Sub(s) \/ Publish(s)

Caller == SubmitChunk \/ SubmitEmpty \/ Return

Next ==
  \/ Caller
  \/ CancelOps
  \/ \E s \in Starts : Settle(s) \/ Callback(s)

\* The loop's thread is inside read_parallel, every op of the driver settles
\* and a callback runs to its end; nobody has to cancel.
Fairness ==
  /\ WF_vars(Caller)
  /\ WF_vars(\E s \in Starts : Settle(s))
  /\ WF_vars(\E s \in Starts : Callback(s))

Spec == Init /\ [][Next]_vars /\ Fairness

-----------------------------------------------------------------------------
(* Properties.                                                             *)

Stages == {"new", "kernel", "record", "sub", "publish", "done"}

TypeOK ==
  /\ len \in Lens
  /\ next \in Nat /\ next % Chunk = 0
  /\ returned \in BOOLEAN
  /\ asked \in BOOLEAN
  /\ stage \in [Starts -> Stages]
  /\ DOMAIN reply = Starts
  /\ \A s \in Starts :
       IF stage[s] \in {"new", "kernel"}
         THEN reply[s] = None
         ELSE reply[s] \in {Read(n) : n \in 0..ChunkLen(s)} \cup {Err(e) : e \in Errors}
  /\ remaining \in Nat
  /\ nLimit \in 0..len
  /\ error \in {"none"} \cup Errors
  /\ held \in BOOLEAN
  /\ result \in {None} \cup {Read(n) : n \in 0..len} \cup {Err(e) : e \in Errors}

Finished == result # None

\* "the last chunk to finish pushes the single completion, so the buffer stays
\* alive until every kernel op is done" (ReadGroup): from the moment a callback
\* is about to hand the bytes object over, no chunk is with the kernel, waits
\* for submission or is still to be recorded, and nobody else takes it.
BufferOutlivesOps ==
  /\ Finished => \A s \in Starts : stage[s] = "done"
  /\ \A s \in Starts : stage[s] = "publish" =>
       held /\ \A r \in Starts \ {s} : stage[r] = "done"

\* The bytes of the object that the kernel filled.
Filled ==
  UNION {{b \in 0..(len - 1) : s <= b /\ b < s + reply[s].n} :
           s \in {t \in Starts : reply[t].kind = "read"}}

\* The object is created uninitialized and chunks settle in any order: what
\* chunk_done delivers is exactly the filled prefix, so no uninitialized byte
\* is delivered, nothing behind a short chunk is, and nothing before it is lost.
DeliversFilledPrefix ==
  result.kind = "read" =>
    /\ \A b \in 0..(result.n - 1) : b \in Filled
    /\ result.n < len => result.n \notin Filled

\* A chunk that failed fails the read, whenever it settles among the others,
\* and the read fails only with an error some chunk had; ECANCELED is only ever
\* the answer to a cancel_ops.
FailsWithAChunk ==
  Finished =>
    /\ result.kind = "err" <=> \E s \in Starts : reply[s].kind = "err"
    /\ result.kind = "err" => \E s \in Starts : reply[s] = result
    /\ result = Err("ECANCELED") => asked

\* The future of a parallel read settles whatever its chunks answer, a read of
\* nothing included.
ReadSettles == <>Finished

\* The chunks that have not counted themselves yet.
Uncounted == {s \in Starts : stage[s] \in {"new", "kernel", "record", "sub"}}

\* What BufferOutlivesOps rests on: `remaining` counts those chunks, and the one
\* callback that found itself the last owns what the group holds.
RemainingCounts ==
  /\ remaining = Cardinality(Uncounted)
  /\ \A s \in Starts : stage[s] = "publish" => remaining = 0 /\ held
  /\ \A s, r \in Starts : stage[s] = "publish" /\ stage[r] = "publish" => s = r
  /\ Finished <=> ~held
  /\ ~held => remaining = 0

Recorded == {s \in Starts : stage[s] \in {"sub", "publish", "done"}}
Short(s) == reply[s].kind = "read" /\ reply[s].n < ChunkLen(s)

\* What DeliversFilledPrefix rests on: the limit is where the first short chunk
\* so far ends, an error of a recorded chunk is kept until it is published, and
\* the result is made of both when nothing can change them any more.
LimitIsTight ==
  /\ \A s \in Recorded : Short(s) => nLimit <= s + reply[s].n
  /\ nLimit = len \/ \E s \in Recorded : Short(s) /\ nLimit = s + reply[s].n
  /\ ~Finished => \A s \in Recorded : reply[s].kind = "err" => error # "none"
  /\ result.kind = "read" =>
       result.n = nLimit /\ \A s \in Starts : reply[s].kind = "read"
=============================================================================
