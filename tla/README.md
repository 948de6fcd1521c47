# turbofile: a TLA+ development

turbofile gives asyncio programs file I/O through the kernel's asynchronous
interfaces. A Rust core (`crates/turbofile-core`) runs ops on a driver thread,
an extension module (`crates/turbofile-py`) carries their results to event
loops, and Python classes (`python/turbofile`) build the familiar file API on
top. This directory models the concurrent parts, checks them with TLC and proves
their invariants with TLAPS.

## The system

| part | state it keeps | operations | who it talks to |
| --- | --- | --- | --- |
| `Driver` (core `lib.rs`) | sender, next op id | `submit`, `cancel` | sends `Msg` to a backend thread; the op's callback comes back from there |
| macOS driver (`darwin_aio.rs`) | handle table with a use count and a deferred close per handle, job queue, requests in flight, opens out at helpers and the cancelled ones among them | one handler per op, `cancel`, `reap`, `submit_ready`, exit | POSIX AIO, helper threads (opens and closes), submitters |
| compio driver (`compio_backend.rs`) | handle table, cancel flag and task per op | message loop, one task per op | io_uring / IOCP / polling through compio |
| completion bridge (`LoopBridge`) | queue, `armed` flag, doorbell | `complete` on the driver thread, `DrainHandle.__call__` on the loop thread | wake pipe or `call_soon_threadsafe`, the futures |
| registry (`Globals`) | bridges per loop, driver per process | `bridge_for_running_loop`, `driver`, `shutdown` | every submission |
| `ReadGroup` | shared buffer, chunks left, first short chunk | `chunk_done` | one completion for several driver ops |
| `KernelFuture`, large-read hand-off (`futures.py`, `__init__.py`) | op ids, continuation, thrown exception | `cancel`, `send`, `throw`, `finish_large_read` | `cancel_ops`, tasks |
| `BinaryFile`, `TextFile` | position, read-ahead bytes, size hint; decoder state | the file API | submissions, fast path |
| fast path (`fast_path/`) | descriptor, mapping | `read`, `readinto`, `read_all` | page cache probes |

What is hard: producers and the drain share an `armed` flag without a lock around
the whole decision; a close meets jobs that are queued, at the kernel or about to
be resubmitted; a cancel meets an op in any of five places; opens travel to helper
threads and back; descriptor numbers are reused; tasks interleave at every await;
the loop may be closed and the interpreter may exit at any moment.
`PROJECT.json` lists these places under `hazards`, each at its line.

What makes each part correct:

* bridge: every completion is delivered once, in order, as long as the loop lives;
  no wakeup is lost and a burst costs one;
* drivers: every op settles exactly once, ECANCELED only if asked for; a job never
  uses a descriptor that was given up; no descriptor leaks or is closed twice;
* registry: whoever submits an op comes to have a driver and a bridge; no thread waits
  for the registry while it keeps the GIL from its owner;
* read group: the result is the prefix up to the first short chunk, and the buffer
  outlives every chunk;
* `KernelFuture` and the hand-off: whoever waits is woken, cancelled if it was cancelled,
  with no op still running behind it and no handle lost;
* file object and fast path: position, read-ahead and results agree with the file
  however a call is served; a read of everything misses nothing the file gained
  meanwhile; an inline read touches resident pages only.

## Modules

| module | what it is |
| --- | --- |
| `CompletionChannel` | abstract: a FIFO channel that delivers while it serves |
| `LoopBridge` | the completion bridge, one step per access to shared state; implements `CompletionChannel` |
| `LoopBridgeProofs` | TLAPS proofs about `LoopBridge` |
| `DriverContract` | abstract: what any backend promises its submitters |
| `DarwinAio` | the macOS driver with its helpers and the kernel; implements `DriverContract` |
| `DarwinAioProofs` | TLAPS proofs about `DarwinAio` |
| `CompioDriver` | the compio driver; implements `DriverContract` while a `Driver` is held |
| `CompioDriverProofs` | TLAPS proofs about `CompioDriver` |
| `ReadGroup` | one parallel read: the submitting loop and the callbacks that share the group |
| `ReadGroupProofs` | TLAPS proofs about `ReadGroup` |
| `KernelFuture` | one call, its future, the caller's task, the continuation of a large read; the driver by `DriverContract` |
| `KernelFutureProofs` | TLAPS proofs about `KernelFuture` |
| `FastPath` | the page-cache fast path of each platform, one step per system call |
| `FastPathProofs` | TLAPS lemmas about pages, mappings and what a file holds |
| `BinaryFile` | the file object, composed with `FastPath` (which it extends); the parallel read by what `ReadGroup` delivers |
| `BinaryFileProofs` | TLAPS proofs about `BinaryFile` and the fast path it uses |
| `BridgeRegistry` | the registry's two mutexes and the GIL, several loops, a fork |
| `MCLoopBridge`, `MCDarwinAio`, `MCCompioDriver`, `MCReadGroup`, `MCKernelFuture`, `MCBinaryFile`, `MCBridgeRegistry` | the modules TLC runs, with the `.cfg` files |

Definitions whose comment starts with *Slip* are wrong variants of the definition
that follows them: with one put in its place, TLC finds the property that
`PROJECT.json` names under `mutants` violated.

### LoopBridge

A producer is a thread inside `complete()`; its `pc` names the statement it is
about to execute. `Push`, `Swap`, `CheckAlive`, `RingPipe`/`RingCallSoon` are the
statements of `complete`, `DropStale`, `DisarmStale`, `Unregister` those of the
failure branch of `ring_call_soon`. `drain` is the loop thread inside
`DrainHandle.__call__`: `DrainStart` (quiet the doorbell), `Take`, `Deliver` (one
future), `Disarm`, `Recheck`, `Rearm`. `wakes` counts bytes in the pipe or scheduled
calls. `doorbell` is chosen in `Init` and never changes, as in
`bridge_for_running_loop`. `LoopClose`, `Retain` and `Shutdown` come from outside.
Steps are sequentially consistent: every access to `armed` that matters is followed
or preceded by one to the queue's mutex on the same thread, and the mutex orders
them (push before swap; store before the second look).
The producers are the driver thread and, after a failed send, a submitting thread;
the proofs allow any number.

### DarwinAio

`pc` is the driver thread's call stack: a phase of `run` (`top`, `reap`, `drainRx`,
`drainBack`), with `submit` on top while `submit_ready` works. `submit_ready` is
always the last thing a handler does, so one action handles a message, changes
everything the handler changes, and then continues in `submit`, one step per
request. `then` in the handlers is the phase to return to. `inflight` holds the
jobs with the status of their request, which `KernelDone` changes at any time;
`aio_cancel` may or may not catch a running one. `helperQ` and `back` are the
channels to and from the helpers; with N helpers any of the first N jobs may finish
next. `open` is the process's descriptor table: the lowest free number is handed
out, and each entry remembers the op that opened it, so a job that used a recycled
number would be seen. Kinds of op are told apart by control only: `Io` stands for
`ReadAt`, `ReadToEnd`, `WriteAt` and `Sync`, `Stat` for `Size`, `SetLen` and transfers
of length zero. An op's value and the error of a system call are both `"done"`.
A scan of `reap` ends when no request is done: one that completes after the scan
has passed it is one that completes after the scan.

Not in the model: the `aio_suspend` timeout and its back-off (they only decide how
long a pass waits); `lose_helpers`, `run_here` and the failed sends of and to
helpers (a helper leaves only when the driver has dropped its channel, and
`ExitIsClean` with `PendingOpensAreOut` says that no open is out then).

### CompioDriver

A task is a record with its stage, the state of the request it awaits, the file it
holds a clone of and the handle id allocated for it. `Start` is the first poll of
`execute`; `AfterOpen`, `AfterSize`, `AfterChunk`, `AfterTransfer`, `AfterWholeFile` and
`AfterClose` are the polls after each await. Any runnable task may be polled next.
`WriteAt` stands for all handle ops that do not look at their flag once started.
`RunReturn` is the drop of the runtime with its tasks. compio's `File::close` waits
for the last clone (external).

### ReadGroup

`next` and `returned` are the loop of `read_parallel` on the event loop's thread;
`stage` follows each chunk from submission through the kernel into the three steps
of `chunk_done` (`Record` under the mutex, `Sub` on the atomic, `Publish`). `Settle` is
the driver: any count up to the chunk's length, since the file may end, shrink or
grow meanwhile, an error at any time, ECANCELED once `cancel_ops` asked for it (the
contract). `Threads` callbacks may run at once; today's drivers run them on one
thread, and the group does not rely on it. The buffer's content is the set of
positions the kernel filled (`Filled`).

### KernelFuture

Everything but the driver runs on the loop's thread, so one action is one callback of
the loop: a delivery by the drain (`DeliverOp`, `DeliverInner`), a step of a task
(`CallerStart`, `CallerStep`, `ContinuationStep`) or a done-callback (`SettleFrom`).
`pending` is the future the caller has; `caller` is a task made from the future itself
(which `send` and `throw` allow), a task whose coroutine awaits it, or a gather without
a task. `must` is asyncio's `_must_cancel`: a `KernelFuture` answers every `cancel()` with
False, so a cancelled task always carries it into its next step. `op` and `inner` go
from the driver to the bridge's queue to delivered; `SettleOp` and `SettleInner` answer
what `DriverContract` allows, with the two drivers' different treatment of a cancelled
`Close` (what `DarwinAio` and `CompioDriver` show of it). `cont` is the task of
`finish_large_read`; its stages are the awaits of `read_to_eof_parallel` and the close of
its `finally`. `handle` follows the handle the driver opened. A call answered by one op
(`read`, `write`, `size`...) is a `read_bytes` whose op answers with a value.

A close that fails gives its handle up all the same, and its error replaces the reason for
which the continuation left.

`NoStrayHandle` names the only three ways in which a handle is lost: `open_file` cancelled
when the open has succeeded; on compio a cancel that catches the close itself
(`compio_cancelled_close`); and a hook that raises before its task has the handle, which
`deliver` answers with an exception in the future (an interrupt is how that happens).

### FastPath and BinaryFile

`FastPath` has the file (`content`, a sequence of bytes named by their place), the pages
of it that are resident (`cached`), Darwin's mapping (`view`) and the method the loop's
thread is in (`fp`). `able` stands for what is fixed per file: FMODE_NOWAIT on Linux, a
descriptor that mmap accepts on Darwin. Each step is one system call; the loops over
`preadv2` and `pread` are one step, since against a file that only grows their result is
that of their last call. `None` in all its causes (a cold page, an error, an offset
beyond `off_t`) is one outcome. Other processes append between any two system calls. Pages
come and go whenever the thread is not inside the fast path, awaits included; inside it
only a loss between the check and the copy would matter, the case `darwin.rs` itself
excepts.

`BinaryFile` extends it with the object's `pos`, `pending`, `size_hint`, `fast`, `is_open`
and one `call`, cut where it awaits. `Read`, `ReadAll`, `Read1`, `ReadAt`, `Peek`,
`Readline`, `Readinto`, `Write`, `Truncate`, `Seek`, `SeekEnd`, `Close` and `ReadBytes` are the
methods up to their first system call or await; `FastServed`, `FastDeclined`, `OpReads`,
`SizeKnown` ... `CloseSettles` go on from there through `Resume`. `Raise` is any await that
raises, with a write or truncate done, half done or not done.

An append is what both drivers do: one or more writes, each of which puts as much as it
takes where the file ends then (`AppendSome`), and a later `fstat` (`AppendEnds`) whose
answer becomes the position. Another process may append between any two of them. Its bytes
may then lie between those of one append, and `tell()` may be behind them; nothing in the
repository promises otherwise, so this is no finding, and `PositionFollows` says what is
left: all bytes are there, once, in order, behind the old end, no foreign byte is lost, and
the position is an end the file had, behind the last of them. A write by position is one
step (`WriteSettles`): its pieces end up where they would in one piece, whatever is appended
in between. (On targets that are not Unix, `append_all` finds the end and
then writes there by position; appends of two processes that overlap there are outside the
model.)

`read_at` and `readinto_at` do not look at `is_open`. On a closed file the model lets their op
fail or answer, which covers a close that failed and left the handle to the driver. In
`FillSettles` the branch of a fill that comes back short is the code's; it is not taken
while other processes only append. `Resume` is what `read`, `read1`, `peek`, `readline` and
`readinto` do with the bytes of an await, one branch per method. `readall`, `readlines`,
`writelines` and iteration are sequences of these calls; `flush`, `tell` and the
predicates read one field; mode checks refuse a call before it changes anything.
`p0`, `size0`, `seen` and `base` in `call`, and in an append the places in `acc`, are history
for the properties.

### BridgeRegistry

Threads that run a loop each, the driver's thread when it rings, and the one thread of
a forked child. `gil`, `driverLock` and `bridgesLock` have their owners; `pc` says where
in `submit` a thread is. `DropGil` may happen wherever Python code runs, `register` (the
part of `bridge_for_running_loop` that calls `is_closed`, imports and `add_reader` under
the mutex) included; a thread blocked on a mutex keeps the GIL. `Ring` is the driver's
thread calling `call_soon_threadsafe`, which succeeds (`Rung`) or finds the loop closed and
goes on to the registry (`Remove`). `Fork` copies the mutexes as they are.

## Runs

| run | bounds | result |
| --- | --- | --- |
| `bridge` | 2 producers, 3 completions, both doorbells | `TypeOK`, `NoLostWakeup`, `OneWakePerBurst`, `ArmedProtocol`, `ImplementsChannel` hold |
| `bridge_shutdown` | the same | `NeverAttachAfterShutdown` is violated (finding) |
| `darwin_handles` | 4 ops on handles, 2 AIO slots, 2 helpers, 2 chunks, 1 cancel | seven invariants hold |
| `darwin_contract` | 3 ops, 1 AIO slot, 1 helper, 2 chunks, 1 cancel | `EveryFdOwnedOnce`, `PendingOpensAreOut`, `ExitIsClean`, `MarkedOpenIsCancelled` and the refinement of `DriverContract` hold |
| `compio_tasks` | 3 ops of every kind, 2 chunks, 1 cancel | five invariants and the refinement of `DriverContract` hold |
| `compio_cancelled_close` | an open and a close, 1 cancel | `SettledCloseClosed` is violated (finding) |
| `compio_finished_read` | an open and a read, 1 cancel | `FinishedReadDelivers` is violated (finding) |
| `read_group` | lengths 0, 1, 2, 4, 5 in chunks of 2, 2 callback threads | six invariants and `ReadSettles` hold |
| `kernel_future` | both drivers, `read_bytes` and `open`, 3 cancels, 2 growths | four invariants and `CallerEnds` hold |
| `kernel_future_thrown` | the same with 1 cancel, no growth | `ThrownIsRaised` is violated (finding) |
| `binary_file` | 3 platforms, a file of 1 byte growing to 4, pages and chunks of 2, sizes 0 and 2, one write or truncate | five invariants hold |
| `registry_fork` | 2 loops, the driver's thread, a fork | `ForkedChildRebuilds` is violated (finding) |

Why the bounds are enough for the cases aimed at. Bridge: two threads race each
other and the drain, and three completions allow one in a batch, one in the queue
and one being pushed. `darwin_handles`: an open, two I/O ops and a close are a
deferred close that waits for more than one job, and an open, an I/O op, a close and
an open reuse a descriptor number; two slots are what makes EAGAIN with something in
flight possible. `darwin_contract`: one slot makes jobs queue, two ops behind a third
make the backlog that sends opens and closes to the helper. Two chunks are one that
is resubmitted. `read_group`: no chunk, one short of the chunk length, one exact, two
exact, and three with a rest; three chunks are two short ones in either order with a
full one between. `compio_tasks`: an open, a read and a close are a close that waits for
a clone; cancel flags are per op, so one cancel meets every stage of every op.
`kernel_future`: the second cancel meets the close in the `finally` of a continuation that
the first one ended; a growth is one more round of `read_to_end`. `binary_file`: pages
of two bytes make a file of one or three end inside a page and one of two or four at its
end, one flag per `mincore` call makes a read over two pages take two calls, a read of two
meets a read-ahead of one and goes on for the rest, and a rest of two is large; the one
change is a write or truncate with any calls before and after it. A file of one that may
grow to four has room for an append of two with a foreign byte before, between or behind
its bytes, and both the foreign byte between two pieces and the position behind a foreign
byte are reached. That is 5.3 million states in about two minutes. Deadlock is not checked: all these systems stop
when the loop is closed, the ops of the bound are used up, the driver has left, the
read or the call is over or the file is closed.

Fairness. `LoopBridge`: a thread inside `complete()` or the drain goes on, and an open
loop runs a scheduled or readable callback. Nothing is owed to a loop that is never
run again. `DarwinAio`: the driver thread and the helpers go on, and the kernel
completes every request it accepted (true of regular files; a FIFO may block a
helper for as long as nobody opens its other end). `CompioDriver`: the executor polls
what is runnable and the kernel answers. `ReadGroup`: the caller is inside
`read_parallel`, the driver settles every op (the contract, checked for both
drivers) and a callback runs to its end. `KernelFuture`: the driver settles every op (the
same contract) and the loop runs what is scheduled. `BridgeRegistry`: a thread that can
go on does, the interpreter makes a running thread hand over the GIL after its switch
interval, and a thread that wants it again and again gets it. `BinaryFile` states no
liveness: a file that always grows keeps a read to its end going. Submissions, cancels, drops, closing the
loop and exiting are never owed.

## Findings

* `bridge_shutdown`: `ALIVE` is tested before the GIL is taken, so a completion on a
  `call_soon_threadsafe` loop can attach after `shutdown()`, which the comment on
  `ALIVE` excludes.
* `compio_cancelled_close`: a `Close` that is cancelled before its task first runs
  settles ECANCELED and the handle stays open for good; `finish_large_read` relies on
  the handle being closed "whichever way the task ends". The macOS driver is not
  concerned: its close cannot be cancelled.
* `compio_finished_read`: a read that the kernel has finished settles ECANCELED if the
  cancel is handled before the task is polled, against the documentation of
  `Driver::cancel` and the README.
* `kernel_future_thrown`: a task made from a `KernelFuture` and cancelled before its first
  step ends with the op's error if the op fails: `throw` on a done future does not look
  at `thrown`, against the class's docstring. `CancelWins` shows that this is the only
  case in which a cancelled task does not end cancelled.
* `registry_fork`: a fork while another thread registers its loop leaves the child with a
  locked bridges mutex, and its first submission blocks in `driver()`, against the
  comment on that function. The counterexample's parent shows the other half of the
  hazard: a thread with the GIL waiting for the mutex keeps its owner from going on. That
  half has no property of its own.

## Proofs

`LoopBridgeProofs` proves, for every set of producers and completions and for both
doorbells, with no assumption on the constants:

* `TypeCorrect`: `Spec => []TypeOK`;
* `ArmedProtocolHolds`: `Spec => []ArmedProtocol`;
* `WakeupsNotLost`: `Spec => []NoLostWakeup`;
* `OneWake`: `Spec => []OneWakePerBurst`;
* `KeepsChannel`: `Spec => Channel!Safety`, the safety half of `ImplementsChannel`.

`NoLostWakeup` alone is not inductive: that a producer finds `armed` set says nothing
about who set it. `ArmedProtocol` adds it. While the loop is open, `armed` is a token:
if it is set on a live bridge, a ringer, a wake or the drain before its disarm holds
it (`ArmedIsHeld`); whoever holds it implies that it is set (`HolderArms`), and there
is one holder (`OneWakePerBurst`); while it is clear and the queue is not empty, a
producer has yet to swap it or the drain has yet to look again (`UnarmedIsSeen`). A
producer in the stale-loop branch proves the loop closed (`StaleIsClosed`), so its
reset of the flag disturbs nothing. One lemma per theorem goes through the actions.
That the bridge is a FIFO channel needs `SentOnce`: a completion that has not been pushed
is in no queue, batch or record of deliveries, so a push adds a new message, and a step
that moves one from the queue to the batch to the loop keeps their concatenation.

`DarwinAioProofs` proves, for every number of ops, helpers, AIO slots, chunks and cancels
(`BoundsAssumption`: naturals, all but the cancels at least one):

* `TypeCorrect`: `Spec => []TypeOK`;
* `FdsOwnedOnce`: `Spec => []EveryFdOwnedOnce`;
* `JobsKeepTheirFile`: `Spec => []JobKeepsItsFile`;
* `OpsCounted`: `Spec => []OpsCountsJobs`;
* `OpsPlaced`: `Spec => []OpInOnePlace`;
* `OpensOut`: `Spec => []PendingOpensAreOut`;
* `CancelledStayOut`: `Spec => []CancelledNotResubmitted`;
* `RefusedAfterClose`: `Spec => []BadOnlyAfterClose`;
* `LeavesNothing`: `Spec => []ExitIsClean`;
* `MarkedOpensCancelled`: `Spec => MarkedOpenIsCancelled`, an action property;
* `KeepsContract`: `Spec => Contract!Safety`, the safety half of `ImplementsContract`.

None of these is inductive alone; all follow from `Invariant`, `Spec => []IInv`. Its core is
two partitions. An op that is not settled is in the channel, at a helper, on its way back,
queued, at the kernel or waiting in a deferred close, in one of them (`Apart`, `Placed`);
an open descriptor belongs to a handle, to a job of its own, to a close at a helper or to
an answer on its way back (`FdsApart`, `FdsOpen`). They need each other: a job finishes
once because its op is in one place, and closes what it owns because nobody else does.
`JobsKept` ties `ops` to the jobs on the handle, so the last finish is the last use;
`Refused` with the order of the channel (`RxOk`) puts a `Close` that has left it behind every
handle that is refused; `MarksOk` and `KernelOk` keep a cancel behind every flag and mark;
`FdsFew` says that the open descriptors were opened by different ops, none of which has
still to try, so `FreeFd` has a number to choose.
A step of the driver is taken apart into what leaves a channel, the queue or the kernel
(`Taken`, `JobTaken`) and what becomes of it: an answer (`SettledIInv`), a new handle
(`RegisterIInv`), a new job (`EnqueueIInv`), a close now or later (`CloseNowIInv`,
`DeferIInv`), a hand-over to a helper (`HandOverIInv`), a finish (`FinishIInv`) or a move
between queue and kernel (`JobMovedIInv`). One relation between a sequence and itself with
one element dropped (`Dropped`) stands for `Append`, `Tail`, `RemoveAt` and a push in front
alike. For the contract, `Settles` says which callbacks a step runs.

`CompioDriverProofs` proves, for every number of ops, chunks and cancels
(`BoundsAssumption`: naturals, at least one op and one chunk):

* `TypeCorrect`: `Spec => []TypeOK`;
* `OpsPlaced`: `Spec => []OpInOnePlace`;
* `HandlesFresh`: `Spec => []FreshHandles`;
* `CancelledUntouched`: `Spec => []CancelledTouchedNothing`;
* `ClosesAreFinal`: `Spec => []ClosedForGood`;
* `KeepsContract`: `Spec => Contract!Safety`, the safety half of `ImplementsContract`.

The inductive invariant `IInv` is the conjunction of the types (`ClientTyped`, `TaskTyped`,
`FilesTyped`), of what the channel holds (`Channel`: submissions leave it in the order of
their ids), `Placed` (channel, task or settled), `Asked` (a raised flag or an ECANCELED
means that a cancel was asked for), `Staged` (the stages an op of each kind goes through,
and when it holds a file), `Untouched` (an op asks the kernel for something only once it
has started), `Handed` (the ids given out, and that the handles ops name are among them),
`OneFile` (two tasks on one handle hold the same file, the table's as long as it is there)
and the properties themselves. `ClosedForGood` needs most: `AfterClose` waits for the last
clone, and `OneFile` is what makes that mean every task on the handle.

`ReadGroupProofs` proves, for every set of lengths (`LensAssumption`: they are
naturals), every chunk length (`ChunkAssumption`: not zero, which `read_parallel`
refuses) and any number of threads:

* `TypeCorrect`: `Spec => []TypeOK`;
* `TypeAndCounts`: `Spec => [](TypeOK /\ RemainingCounts)`;
* `BufferSafe`: `Spec => []BufferOutlivesOps`;
* `LimitHolds`: `Spec => []LimitIsTight`;
* `DeliversPrefix`: `Spec => []DeliversFilledPrefix`;
* `FailsOnlyWithAChunk`: `Spec => []FailsWithAChunk`.

That the buffer outlives the ops says nothing about `remaining`; `RemainingCounts` ties
the counter to the chunks that have not counted themselves. It holds initially
because `chunk_count` is the number of rounds of the loop (`CountOfStarts`, a bijection
between rounds and multiples of the chunk length). Type correctness needs it too
(`remaining` never wraps), so both are proved together. `LimitIsTight` says that
`n_limit` is the end of the first short chunk recorded so far; that this is the end of
the filled prefix is geometry: every byte lies in a chunk (`ChunkOfByte`) and in only
one (`SameChunk`). `FailsWithAChunk` speaks of the end only; `ErrorIsAChunks` adds that the
error kept meanwhile is a recorded chunk's, and `LimitIsTight` that no error is lost.

`KernelFutureProofs` proves, for either driver, either call and every number of cancels
and of rounds a growing file takes (`CancelsAssumption`, `ProbesAssumption`: naturals):

* `TypeCorrect`: `Spec => []TypeOK`;
* `NothingTouched`: `Spec => []NoTouchAfterRaise`;
* `HandlesAccounted`: `Spec => []NoStrayHandle`;
* `CancelsWin`: `Spec => []CancelWins`.

The properties speak of a caller that is done; the inductive invariant `IInv` says what
leads there. `Protocol`: the future is settled only when its op is over and its
continuation, if any, too, and a caller is woken only by a settled future. `CancelKept`:
a cancelled task carries the cancel in `must` or `thrown` until it ends, and neither is
ever set for another reason. `HandleHeld`: an open handle is in the bridge's queue, with
the continuation, with the caller, or lost in a named way. One lemma goes through the
actions (`NextIInv`), a second one for `CancelWins`, which adds that a caller that is done
stays as it is.

`BinaryFileProofs` proves, for every page size, headroom, number of flags per `mincore` call,
chunk length, limit of a large read, set of newlines and of argument sizes, with any number
of writes and truncates (the assumptions of `FastPath` and `BinaryFile`: sizes are
naturals, a page, a chunk and a flag buffer are not empty, the headroom is whole pages):

* `TypeCorrect`: `Spec => []TypeOK`;
* `ReadAheadIsTrue`: `Spec => []PendingIsAhead`;
* `PositionIsRight`: `Spec => []PositionFollows`;
* `ResultsWhole`: `Spec => []NothingCutShort`;
* `InlineReadsDontBlock`: `Spec => []InlineNeverBlocks`.

They share one inductive invariant, `IInv`, in two layers. `TInv` has the types and ties
the call to the method of the fast path it waits for. On top of it, `Resident` says what a
look at the page cache has established so far (`Below(k)`: the pages of the request below
`k` are resident), which is what `InlineNeverBlocks` needs at the copy although the file
grew after the look: an appended byte is resident, so a page that holds data now either
was seen or is new (`NewPage`). `Ahead` is `PendingIsAhead`. `Flight` describes a call at any
await or system call: where its result begins, what it has of it, where and how much it
reads next (`Fits`), and what the stages of `read_to_eof_parallel` add (`Staged`); of an append
under way it says where the bytes written so far went and that everything else the file
gained since is another process's (`Places`, `Wrote`), which the next piece, a foreign byte
and the `fstat` all keep (`AppendSomeKeeps`, `OtherProcessKeeps`, `AppendEndsKeeps`). `Served`
says of the fast path at work that it was asked for what the call reads next and that what
it will return is there and complete; `Ended` says what a call that is over came to. The
properties speak of calls that are over, so none of them is inductive without these.
One lemma per action (`ReadKeeps` ... `OtherProcessKeeps`) shows that `IInv` is kept; what
the reads share (`ResumeKeeps`, `LargeDoneKeeps`, `EntersKeeps`) is proved once.
`FpStepIs` lists the steps of the fast path field by field. `FastPathProofs` has the facts
about data these rest on: `PageOf`, `RoundUp` and `ViewLen` as the nearest multiples of the
page size, and `Holds(f, s, p)` (the file `f` holds the bytes `s` from place `p` on), which
says what `Slice` returns and is kept by concatenation, splitting and growth.

`TypeOK` of `BinaryFile` bounds `size_hint` by no file size: a seek past the end followed
by `read()` raises the hint to the position, which the proof showed and small argument
sizes had hidden from TLC.

Every invariant and action property a passing run checks is a theorem. Only
model-checked: the liveness halves of the refinements (`ImplementsChannel`,
`ImplementsContract`) and the liveness properties (`ReadSettles`, `CallerEnds`), since
fairness is beyond the prover; and `BridgeRegistry`, whose one run is a finding.

## Plan

Done: `LoopBridge`, `DarwinAio`, `CompioDriver`, `ReadGroup`, `KernelFuture` and
`BinaryFile` (with `FastPath`) with their proofs, the abstract `CompletionChannel` and
`DriverContract`, `BridgeRegistry`.

Theorems next: what is true of `BridgeRegistry` whatever it forks (who holds each mutex
and the GIL, that a bridge is registered once per loop and a driver started once per
process).

## Not modelled

* `TextFile`: a sequential layer whose state is a codec's. Its `tell`/`seek` cookies are
  arithmetic over decoder state and would have to be modelled byte by byte.
* Mode parsing: a pure table without state.
* Probes and benchmarks: no state of the system. `build_value` and error mapping: data only.
* Two calls in flight on one `BinaryFile`: the object has no lock and promises nothing;
  `read_at` is there for concurrent use and moves nothing.
* Another process that truncates or overwrites the file: the read-ahead is then stale by
  design, and `PendingIsAhead` would be false without any fault of this code.
* Descriptors that are no regular files (no size, no fast path: the path taken by the
  platforms without one).
