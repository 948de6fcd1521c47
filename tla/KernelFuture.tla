---------------------------- MODULE KernelFuture ----------------------------
(***************************************************************************)
(* One call into turbofile and whoever waits for it (futures.py,           *)
(* __init__.py): a KernelFuture settled by the drain, or by the task that  *)
(* goes on reading when a whole-file read came back as an open handle.     *)
(*                                                                         *)
(* Everything here but the driver runs on the loop's thread, so one step   *)
(* is one callback of the loop: a step of a task, a delivery by the drain, *)
(* a done-callback.  asyncio's part is in the record of a task: `must` is  *)
(* Task._must_cancel, which a cancel() sets whenever the future the task   *)
(* waits for answers False, as a KernelFuture always does; the next step   *)
(* of the task then throws CancelledError whatever that future holds.      *)
(***************************************************************************)
EXTENDS Naturals

CONSTANTS
  Backends,    \* the drivers the call may be running on
  Calls,       \* the functions the caller may use
  MaxCancels,  \* bound: cancel() calls
  MaxProbes    \* bound: how often the file grows while it is read to its end

ASSUME BackendsAssumption == Backends \subseteq {"aio", "compio"}
ASSUME CallsAssumption == Calls \subseteq {"read_bytes", "open"}
ASSUME CancelsAssumption == MaxCancels \in Nat
ASSUME ProbesAssumption == MaxProbes \in Nat

VARIABLES
  backend,
  call,       \* read_bytes also stands for every call that one op answers
  pending,    \* the caller's KernelFuture
  thrown,     \* its `thrown` is set
  op,         \* the op behind it
  caller,     \* who waits for it, and how
  cont,       \* its `continuation`, the task running read_handle_to_end
  inner,      \* the KernelFuture that task waits for, with its op
  handle,     \* the handle the driver opened
  probes,     \* read_to_end calls that found more
  cancels,    \* cancel() calls so far
  asked       \* history: the caller's task was cancelled before it was done

vars == <<backend, call, pending, thrown, op, caller, cont, inner, handle,
          probes, cancels, asked>>

\* States of a future that is done, and outcomes of a task.
Outcomes == {"result", "error", "cancelled"}

\* An op is at the driver, then in the bridge's queue, then delivered.
NewOp == [at |-> "driver", asked |-> FALSE, reply |-> "none"]
NoOp == [at |-> "over", asked |-> FALSE, reply |-> "none"]

\* The caller is a task made from the future itself (which send and throw let
\* asyncio drive), a task whose coroutine awaits it, or a gather: no task at
\* all, and a cancel() that reaches the future directly.
Hows == {"task", "coroutine", "gather"}

\* read_bytes on Linux may find the file resident and return a settled future;
\* open is only awaited from open_file's coroutine.
Init ==
  /\ backend \in Backends
  /\ call \in Calls
  /\ \E how \in Hows, inline \in BOOLEAN :
       /\ call = "open" => how = "coroutine" /\ ~inline
       /\ inline => how = "task"
       /\ pending = (IF inline THEN "result" ELSE "pending")
       /\ op = (IF inline THEN NoOp ELSE NewOp)
       /\ caller = [how |-> how, at |-> IF how = "task" THEN "start" ELSE "wait",
                    must |-> FALSE, outcome |-> "none"]
  /\ thrown = FALSE
  /\ cont = [at |-> "none", must |-> FALSE, outcome |-> "none"]
  /\ inner = NoOp
  /\ handle = "none"
  /\ probes = 0
  /\ cancels = 0
  /\ asked = FALSE

-----------------------------------------------------------------------------
(* Cancelling.                                                             *)

\* KernelFuture.cancel on the future the continuation waits for, then
\* _must_cancel: the future answered False.  A task that is done ignores it.
CancelContinuation ==
  IF cont.at = "over"
    THEN UNCHANGED <<cont, inner>>
    ELSE /\ cont' = [cont EXCEPT !.must = TRUE]
         /\ inner' = IF inner.at = "over" THEN inner ELSE [inner EXCEPT !.asked = TRUE]

\* Slip: the future cancels itself at once, as asyncio.Future does.
CancelAtOnce ==
  /\ pending' = IF pending = "pending" THEN "cancelled" ELSE pending
  /\ IF pending = "pending" /\ cont.at # "none"
       THEN CancelContinuation /\ UNCHANGED op
       ELSE /\ op' = IF pending = "pending" THEN [op EXCEPT !.asked = TRUE] ELSE op
            /\ UNCHANGED <<cont, inner>>

\* KernelFuture.cancel: pass the request on and answer False.
Cancel ==
  /\ UNCHANGED pending
  /\ \/ /\ pending # "pending"
        /\ UNCHANGED <<op, cont, inner>>
     \/ /\ pending = "pending" /\ cont.at # "none"
        /\ CancelContinuation
        /\ UNCHANGED op
     \/ /\ pending = "pending" /\ cont.at = "none"
        /\ op' = [op EXCEPT !.asked = TRUE]
        /\ UNCHANGED <<cont, inner>>

\* Somebody cancels the caller: Task.cancel() while it is not done, or the
\* gather's cancel of its child.
CancelCaller ==
  /\ cancels < MaxCancels
  /\ caller.at # "done"
  /\ cancels' = cancels + 1
  /\ IF caller.at = "start" THEN UNCHANGED <<pending, op, cont, inner>> ELSE Cancel
  /\ caller' = [caller EXCEPT !.must = (caller.how # "gather"),
                              !.at = IF @ = "wait" /\ pending' # "pending" THEN "woken" ELSE @]
  /\ asked' = (asked \/ caller.how # "gather")
  /\ UNCHANGED <<backend, call, thrown, handle, probes>>

-----------------------------------------------------------------------------
(* The driver, by its contract: every op settles once, ECANCELED only if   *)
(* asked for.  The macOS driver never cancels a Close; the compio driver   *)
(* does if the request is there before the task starts, and then the       *)
(* handle stays open.                                                      *)

Cancellable(o) == IF o.asked THEN {"cancelled"} ELSE {}

\* A file up to inline_max comes back as bytes, a larger one as a handle.
OpReplies ==
  Cancellable(op) \cup {"error", "handle"} \cup (IF call = "open" THEN {} ELSE {"value"})

SettleOp ==
  /\ op.at = "driver"
  /\ \E r \in OpReplies :
       /\ op' = [op EXCEPT !.at = "queue", !.reply = r]
       /\ handle' = IF r = "handle" THEN "open" ELSE handle
  /\ UNCHANGED <<backend, call, pending, thrown, caller, cont, inner, probes, cancels, asked>>

\* A size; a fill that is short or full, and then the file is as long as it
\* was or is not; a probe that finds the end or more; a close, which gives the
\* handle up even if close(2) reports an error.
InnerReplies ==
  CASE cont.at = "size"  -> {"value", "error"} \cup Cancellable(inner)
    [] cont.at = "fill"  -> {"value", "grown", "error"} \cup Cancellable(inner)
    [] cont.at = "probe" -> {"value", "error"} \cup Cancellable(inner) \cup
                            (IF probes < MaxProbes THEN {"grown"} ELSE {})
    [] cont.at = "close" -> {"value", "error"} \cup
                            (IF backend = "compio" THEN Cancellable(inner) ELSE {})

SettleInner ==
  /\ inner.at = "driver"
  /\ \E r \in InnerReplies :
       /\ inner' = [inner EXCEPT !.at = "queue", !.reply = r]
       /\ handle' = IF cont.at = "close" /\ r # "cancelled" THEN "closed" ELSE handle
       /\ probes' = IF cont.at = "probe" /\ r = "grown" THEN probes + 1 ELSE probes
  /\ UNCHANGED <<backend, call, pending, thrown, op, caller, cont, cancels, asked>>

-----------------------------------------------------------------------------
(* The drain.                                                              *)

\* A done future schedules the step of the task that waits for it.
SettlePending(state) ==
  /\ pending' = state
  /\ caller' = IF caller.at = "wait" THEN [caller EXCEPT !.at = "woken"] ELSE caller

\* finish_large_read: the eagerly started task runs up to its first await, a
\* size when the fast path cannot tell it, else the parallel read.
HandOff ==
  /\ \E first \in {"size", "fill"} : cont' = [cont EXCEPT !.at = first]
  /\ inner' = NewOp
  /\ UNCHANGED <<pending, caller>>

\* Slip: every handle goes to the hook, the ones of open too.
HandsOffAny == op.reply = "handle"

\* settle: read_file passed an on_handle hook, and the reply is a handle.
HandsOff == op.reply = "handle" /\ call = "read_bytes"

\* deliver and settle for the caller's future.  A hook that raises (it runs
\* Python code, where an interrupt may strike) leaves its exception there.
DeliverOp ==
  /\ op.at = "queue"
  /\ op' = [op EXCEPT !.at = "over"]
  /\ \/ HandsOff /\ HandOff
     \/ HandsOff /\ SettlePending("error") /\ UNCHANGED <<cont, inner>>
     \/ /\ ~HandsOff
        /\ SettlePending(IF op.reply \in {"value", "handle"} THEN "result" ELSE op.reply)
        /\ UNCHANGED <<cont, inner>>
  /\ UNCHANGED <<backend, call, thrown, handle, probes, cancels, asked>>

\* ... and for the future the continuation waits for; its step is scheduled.
DeliverInner ==
  /\ inner.at = "queue"
  /\ inner' = [inner EXCEPT !.at = "over"]
  /\ UNCHANGED <<backend, call, pending, thrown, op, caller, cont, handle, probes,
                 cancels, asked>>

-----------------------------------------------------------------------------
(* read_handle_to_end: read_to_eof_parallel inside a try whose finally     *)
(* closes the handle.                                                      *)

Reading == {"size", "fill", "probe"}

\* What the step of the continuation raises at its await, if anything.
Raised ==
  CASE cont.must -> "cancelled"
    [] ~cont.must /\ inner.reply \in {"error", "cancelled"} -> inner.reply
    [] OTHER -> "none"

Awaits(stage, outcome) ==
  /\ cont' = [at |-> stage, must |-> FALSE, outcome |-> outcome]
  /\ inner' = NewOp

\* Slip: the close is not in a finally, an exception ends the task.
LeaveReadingRaises ==
  \/ Raised = "none" /\ Awaits("close", "result")
  \/ /\ Raised # "none"
     /\ cont' = [at |-> "over", must |-> FALSE, outcome |-> Raised]
     /\ UNCHANGED inner

\* Read to the end, or raised: the finally submits the close and remembers why.
LeaveReading == Awaits("close", IF Raised = "none" THEN "result" ELSE Raised)

\* Closed, or raised at the close, which then replaces the reason.
LeaveClosing ==
  /\ cont' = [at |-> "over", must |-> FALSE,
              outcome |-> IF Raised = "none" THEN cont.outcome ELSE Raised]
  /\ UNCHANGED inner

\* Task.__step after the future it waited for is done.
ContinuationStep ==
  /\ cont.at \in Reading \cup {"close"}
  /\ inner.at = "over"
  /\ \/ cont.at = "size" /\ Raised = "none" /\ Awaits("fill", "none")
     \/ cont.at \in {"fill", "probe"} /\ Raised = "none" /\ inner.reply = "grown"
          /\ Awaits("probe", "none")
     \/ cont.at \in Reading /\ Raised # "none" /\ LeaveReading
     \/ cont.at \in {"fill", "probe"} /\ Raised = "none" /\ inner.reply = "value"
          /\ LeaveReading
     \/ cont.at = "close" /\ LeaveClosing
  /\ UNCHANGED <<backend, call, pending, thrown, op, caller, handle, probes,
                 cancels, asked>>

\* Slip: a cancelled task is asked for its exception, which raises, and the
\* future is never settled.
SettleFromNoCancelled ==
  /\ cont.at = "over" /\ pending = "pending"
  /\ cont.outcome # "cancelled"
  /\ SettlePending(cont.outcome)
  /\ UNCHANGED <<backend, call, thrown, op, cont, inner, handle, probes, cancels, asked>>

\* settle_from, the continuation's done-callback.
SettleFrom ==
  /\ cont.at = "over" /\ pending = "pending"
  /\ SettlePending(cont.outcome)
  /\ UNCHANGED <<backend, call, thrown, op, cont, inner, handle, probes, cancels, asked>>

-----------------------------------------------------------------------------
(* The caller.                                                             *)

Finish(outcome) == caller' = [caller EXCEPT !.at = "done", !.must = FALSE, !.outcome = outcome]

\* KernelFuture.throw with the ops in flight: keep the exception and wait.
ThrowInFlight ==
  /\ thrown' = TRUE
  /\ Cancel
  /\ caller' = [caller EXCEPT !.at = "wait", !.must = FALSE]

\* The first step of a task made from the future: throw if it was cancelled
\* before, else send.
CallerStart ==
  /\ caller.at = "start"
  /\ \/ pending = "pending" /\ caller.must /\ ThrowInFlight
     \/ /\ pending = "pending" /\ ~caller.must
        /\ caller' = [caller EXCEPT !.at = "wait"]
        /\ UNCHANGED <<pending, thrown, op, cont, inner>>
     \/ /\ pending # "pending"
        /\ Finish(IF caller.must THEN "cancelled" ELSE pending)
        /\ UNCHANGED <<pending, thrown, op, cont, inner>>
  /\ UNCHANGED <<backend, call, handle, probes, cancels, asked>>

\* Slip: send forgets the exception it was asked to keep.
SendForgets == "result"

\* KernelFuture.send on a future that holds a result.
Send == IF thrown THEN "cancelled" ELSE "result"

\* The step after the future is done: CancelledError if the task was cancelled
\* meanwhile, else what the future raises, else its result.
CallerStep ==
  /\ caller.at = "woken"
  /\ Finish(IF caller.must THEN "cancelled"
            ELSE IF pending = "result" THEN Send
            ELSE pending)
  /\ UNCHANGED <<backend, call, pending, thrown, op, cont, inner, handle, probes,
                 cancels, asked>>

Driver == SettleOp \/ SettleInner
Loop ==
  \/ DeliverOp \/ DeliverInner
  \/ ContinuationStep \/ SettleFrom
  \/ CallerStart \/ CallerStep

Next == CancelCaller \/ Driver \/ Loop

\* The drivers settle every op (their contract, checked for both), and the
\* loop runs what is scheduled.  Nobody has to cancel anything.
Fairness == WF_vars(Driver) /\ WF_vars(Loop)

Spec == Init /\ [][Next]_vars /\ Fairness
-----------------------------------------------------------------------------
(* Properties.                                                             *)

OpStates == [at : {"driver", "queue", "over"}, asked : BOOLEAN,
             reply : {"none", "value", "grown", "handle"} \cup (Outcomes \ {"result"})]

\* The state is well typed, a task that is done has its outcome, and a
\* continuation exists only for a read whose handle came back.
TypeOK ==
  /\ backend \in Backends
  /\ call \in Calls
  /\ pending \in {"pending"} \cup Outcomes
  /\ thrown \in BOOLEAN
  /\ op \in OpStates
  /\ inner \in OpStates
  /\ caller \in [how : Hows, at : {"start", "wait", "woken", "done"}, must : BOOLEAN,
                 outcome : {"none"} \cup Outcomes]
  /\ caller.at = "done" <=> caller.outcome # "none"
  /\ cont \in [at : {"none", "over", "close"} \cup Reading, must : BOOLEAN,
               outcome : {"none"} \cup Outcomes]
  /\ cont.at # "none" => op.reply = "handle" /\ call = "read_bytes"
  /\ handle \in {"none", "open", "closed"}
  /\ probes \in 0..MaxProbes
  /\ cancels \in 0..MaxCancels
  /\ asked \in BOOLEAN

\* KernelFuture: "the future settles when the ops do, promptly on abort, so a
\* caller's buffer is never touched after its `await` raises".  However the
\* caller waits and is cancelled, once it is over no op of the call, the
\* continuation's included, is with the driver or yet to be submitted.
NoTouchAfterRaise ==
  caller.at = "done" =>
    /\ op.at = "over" /\ inner.at = "over"
    /\ cont.at \in {"none", "over"}

\* finish_large_read: "the handle is closed whichever way the task ends".  When
\* everything is over, a handle is left open only if it is the caller's, or in
\* one of the three ways this code can lose one: open_file is cancelled when the
\* open has succeeded, on compio a cancel catches the close itself, or the hook
\* raises before its task has the handle.
StrayOpen == call = "open" /\ pending = "result" /\ asked
StrayClose == call = "read_bytes" /\ backend = "compio"
                /\ inner.reply = "cancelled" /\ cont.outcome = "cancelled"
StrayHook == call = "read_bytes" /\ cont.at = "none" /\ pending = "error"

NoStrayHandle ==
  caller.at = "done" /\ handle = "open" =>
    \/ call = "open" /\ caller.outcome = "result"
    \/ StrayOpen
    \/ StrayClose
    \/ StrayHook

\* test_helpers.py, "A task cancelled while its read is in flight ends
\* cancelled": a task that was cancelled before it was done ends cancelled,
\* whatever its future settled with and wherever the cancel found it, with the
\* one exception of an error that meets an exception kept in `thrown`.
CancelWins ==
  caller.at = "done" /\ asked /\ caller.outcome # "cancelled" =>
    thrown /\ pending = "error"

\* KernelFuture: "An exception thrown in while the ops are still in flight is
\* kept in `thrown` and raised once they settle".
ThrownIsRaised == caller.at = "done" /\ thrown => caller.outcome = "cancelled"

\* Every call ends, cancelled or not: whoever waits for the future is woken,
\* also when the future was handed over to a continuation that was cancelled.
CallerEnds == <>(caller.at = "done")
=============================================================================
