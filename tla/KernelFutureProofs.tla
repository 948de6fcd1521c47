------------------------ MODULE KernelFutureProofs ------------------------
(***************************************************************************)
(* Proofs about KernelFuture, for both drivers and every number of cancels *)
(* and of rounds a growing file takes.                                     *)
(*                                                                         *)
(* The inductive invariant says where a call is.  Protocol: the future is  *)
(* pending exactly as long as somebody will settle it, and its op is over  *)
(* before the continuation begins.  CancelKept: a cancelled task carries   *)
(* the cancel in `must` or in `thrown` until it ends.  HandleHeld: a       *)
(* handle that is open is on its way to the drain, with the continuation,  *)
(* with the caller, or lost in one of the three known ways.                *)
(***************************************************************************)
EXTENDS KernelFuture, TLAPS

\* The parts of TypeOK.
OpsTyped == op \in OpStates /\ inner \in OpStates
CallerTyped ==
  /\ caller \in [how : Hows, at : {"start", "wait", "woken", "done"}, must : BOOLEAN,
                 outcome : {"none"} \cup Outcomes]
  /\ caller.at = "done" <=> caller.outcome # "none"
ContTyped ==
  /\ cont \in [at : {"none", "over", "close"} \cup Reading, must : BOOLEAN,
               outcome : {"none"} \cup Outcomes]
  /\ cont.at # "none" => op.reply = "handle" /\ call = "read_bytes"
RestTyped ==
  /\ backend \in Backends
  /\ call \in Calls
  /\ pending \in {"pending"} \cup Outcomes
  /\ thrown \in BOOLEAN
  /\ handle \in {"none", "open", "closed"}
  /\ probes \in 0..MaxProbes
  /\ cancels \in 0..MaxCancels
  /\ asked \in BOOLEAN

Typed == OpsTyped /\ CallerTyped /\ ContTyped /\ RestTyped

Protocol ==
  /\ pending # "pending" => op.at = "over" /\ cont.at \in {"none", "over"}
  /\ cont.at \in {"none", "over"} => inner.at = "over"
  /\ op.at # "over" => cont.at = "none"
  /\ caller.at \in {"woken", "done"} => pending # "pending"
  /\ cont.at = "over" => cont.outcome \in Outcomes
  /\ cont.at = "close" => cont.outcome \in Outcomes
  /\ op.at = "queue" => op.reply \in {"value", "handle", "error", "cancelled"}

CancelKept ==
  /\ asked => caller.how # "gather"
  /\ asked /\ caller.at # "done" => caller.must \/ thrown
  /\ thrown => caller.at # "start"
  /\ caller.must \/ thrown => asked
  /\ caller.at = "done" /\ pending = "result" /\ caller.outcome # "result" => asked

HandleHeld ==
  /\ op.at = "driver" => handle = "none"
  /\ handle = "open" => op.reply = "handle"
  /\ handle = "open" /\ call = "read_bytes" =>
       op.at = "queue" \/ cont.at \in Reading \cup {"close"} \/ StrayClose \/ StrayHook
  /\ cont.at = "close" /\ inner.at # "driver" /\ handle = "open" =>
       inner.reply = "cancelled" /\ backend = "compio"
  /\ call = "open" /\ handle = "open" /\ op.at = "over" => pending = "result"
  /\ call = "open" => cont.at = "none"

IInv == Typed /\ Protocol /\ CancelKept /\ HandleHeld

-----------------------------------------------------------------------------
\* What happens to an op keeps it an op: it is asked to stop, settles, is
\* delivered; a new one begins at the driver.
LEMMA OpTypes ==
  ASSUME NEW o \in OpStates
  PROVE  /\ NewOp \in OpStates
         /\ NoOp \in OpStates
         /\ [o EXCEPT !.asked = TRUE] \in OpStates
         /\ [o EXCEPT !.at = "over"] \in OpStates
         /\ \A r \in {"value", "grown", "handle", "error", "cancelled"} :
              [o EXCEPT !.at = "queue", !.reply = r] \in OpStates
  BY DEF OpStates, Outcomes, NewOp, NoOp

\* A call begins with its op at the driver, or with everything over.
LEMMA InitIInv == Init => IInv
  <1> SUFFICES ASSUME Init PROVE IInv
    OBVIOUS
  <1>1. PICK how \in Hows, inline \in BOOLEAN :
          /\ pending = (IF inline THEN "result" ELSE "pending")
          /\ op = (IF inline THEN NoOp ELSE NewOp)
          /\ caller = [how |-> how, at |-> IF how = "task" THEN "start" ELSE "wait",
                       must |-> FALSE, outcome |-> "none"]
          /\ inline => how = "task"
          /\ call = "open" => ~inline
    BY DEF Init
  <1>2. OpsTyped
    BY <1>1 DEF Init, OpsTyped, OpStates, Outcomes, NoOp, NewOp
  <1>3. CallerTyped
    BY <1>1 DEF Init, CallerTyped, Outcomes
  <1>4. ContTyped
    BY DEF Init, ContTyped, Outcomes
  <1>5. RestTyped
    <2>1. pending \in {"pending"} \cup Outcomes
      BY <1>1 DEF Outcomes
    <2>2. probes \in 0..MaxProbes /\ cancels \in 0..MaxCancels
      BY CancelsAssumption, ProbesAssumption DEF Init
    <2> QED
      BY <2>1, <2>2 DEF Init, RestTyped
  <1>6. Protocol
    BY <1>1 DEF Init, Protocol, NoOp, NewOp
  <1>7. CancelKept
    BY <1>1 DEF Init, CancelKept
  <1>8. HandleHeld
    BY <1>1 DEF Init, HandleHeld, NoOp, NewOp, Reading
  <1> QED
    BY <1>2, <1>3, <1>4, <1>5, <1>6, <1>7, <1>8 DEF IInv, Typed

\* Every step keeps the invariant: one step per action, one per part.
LEMMA NextIInv == IInv /\ [Next]_vars => IInv'
  <1> SUFFICES ASSUME IInv, [Next]_vars PROVE IInv'
    OBVIOUS
  <1> USE DEF IInv, Typed, OpsTyped, CallerTyped, ContTyped, RestTyped, Protocol,
        OpStates, Outcomes, Reading
  <1>1. CASE CancelCaller
    <2> USE <1>1 DEF CancelCaller, Cancel, CancelContinuation
    <2>1. OpsTyped'
      <3>1. op' \in {op, [op EXCEPT !.asked = TRUE]}
        OBVIOUS
      <3>2. inner' \in {inner, [inner EXCEPT !.asked = TRUE]}
        OBVIOUS
      <3> HIDE DEF OpStates
      <3>3. [op EXCEPT !.asked = TRUE] \in OpStates /\ [inner EXCEPT !.asked = TRUE] \in OpStates
        BY OpTypes
      <3> QED
        BY ONLY <3>1, <3>2, <3>3, OpsTyped DEF OpsTyped
    <2>2. CallerTyped'
      BY ZenonT(30)
    <2>3. ContTyped'
      BY ZenonT(30)
    <2>4. RestTyped'
      BY CancelsAssumption, ProbesAssumption
    <2>5. Protocol'
      OBVIOUS
    <2>6. CancelKept'
      BY DEF CancelKept
    <2>7. HandleHeld'
      BY DEF HandleHeld, StrayClose, StrayHook
    <2> QED
      BY <2>1, <2>2, <2>3, <2>4, <2>5, <2>6, <2>7 DEF IInv
  <1>2. CASE SettleOp
    <2> USE <1>2 DEF SettleOp, OpReplies, Cancellable
    <2>1. OpsTyped'
      <3>1. PICK r \in OpReplies : op' = [op EXCEPT !.at = "queue", !.reply = r]
        OBVIOUS
      <3>2. r \in {"value", "grown", "handle", "error", "cancelled"}
        OBVIOUS
      <3> HIDE DEF OpStates
      <3>3. [op EXCEPT !.at = "queue", !.reply = r] \in OpStates
        BY <3>2, OpTypes
      <3>4. inner' = inner
        OBVIOUS
      <3> QED
        BY ONLY <3>1, <3>3, <3>4, OpsTyped DEF OpsTyped
    <2>2. CallerTyped'
      OBVIOUS
    <2>3. ContTyped'
      OBVIOUS
    <2>4. RestTyped'
      BY CancelsAssumption, ProbesAssumption
    <2>5. Protocol'
      OBVIOUS
    <2>6. CancelKept'
      BY DEF CancelKept
    <2>7. HandleHeld'
      BY DEF HandleHeld, StrayClose, StrayHook
    <2> QED
      BY <2>1, <2>2, <2>3, <2>4, <2>5, <2>6, <2>7 DEF IInv
  <1>3. CASE SettleInner
    <2> USE <1>3 DEF SettleInner, InnerReplies, Cancellable
    <2>1. OpsTyped'
      BY ZenonT(30)
    <2>2. CallerTyped'
      OBVIOUS
    <2>3. ContTyped'
      OBVIOUS
    <2>4. RestTyped'
      BY CancelsAssumption, ProbesAssumption
    <2>5. Protocol'
      OBVIOUS
    <2>6. CancelKept'
      BY DEF CancelKept
    <2>7. HandleHeld'
      BY DEF HandleHeld, StrayClose, StrayHook
    <2> QED
      BY <2>1, <2>2, <2>3, <2>4, <2>5, <2>6, <2>7 DEF IInv
  <1>4. CASE DeliverOp
    <2> USE <1>4 DEF DeliverOp, HandsOff, HandOff, SettlePending, NewOp
    <2>1. OpsTyped'
      <3>1. op' = [op EXCEPT !.at = "over"] /\ inner' \in {inner, NewOp}
        OBVIOUS
      <3> HIDE DEF OpStates
      <3>2. NewOp \in OpStates /\ [op EXCEPT !.at = "over"] \in OpStates
        BY OpTypes
      <3> QED
        BY ONLY <3>1, <3>2, OpsTyped DEF OpsTyped
    <2>2. CallerTyped'
      OBVIOUS
    <2>3. ContTyped'
      OBVIOUS
    <2>4. RestTyped'
      BY CancelsAssumption, ProbesAssumption
    <2>5. Protocol'
      OBVIOUS
    <2>6. CancelKept'
      BY DEF CancelKept
    <2>7. HandleHeld'
      BY DEF HandleHeld, StrayClose, StrayHook
    <2> QED
      BY <2>1, <2>2, <2>3, <2>4, <2>5, <2>6, <2>7 DEF IInv
  <1>5. CASE DeliverInner
    <2> USE <1>5 DEF DeliverInner
    <2>1. OpsTyped'
      OBVIOUS
    <2>2. CallerTyped'
      OBVIOUS
    <2>3. ContTyped'
      OBVIOUS
    <2>4. RestTyped'
      BY CancelsAssumption, ProbesAssumption
    <2>5. Protocol'
      OBVIOUS
    <2>6. CancelKept'
      BY DEF CancelKept
    <2>7. HandleHeld'
      BY DEF HandleHeld, StrayClose, StrayHook
    <2> QED
      BY <2>1, <2>2, <2>3, <2>4, <2>5, <2>6, <2>7 DEF IInv
  <1>6. CASE ContinuationStep
    <2> USE <1>6 DEF ContinuationStep, Awaits, LeaveReading, LeaveClosing, Raised, NewOp
    <2>1. OpsTyped'
      <3>1. op' = op /\ inner' \in {inner, NewOp}
        OBVIOUS
      <3> HIDE DEF OpStates
      <3>2. NewOp \in OpStates /\ [op EXCEPT !.at = "over"] \in OpStates
        BY OpTypes
      <3> QED
        BY ONLY <3>1, <3>2, OpsTyped DEF OpsTyped
    <2>2. CallerTyped'
      OBVIOUS
    <2>3. ContTyped'
      <3>1. Raised \in {"none", "error", "cancelled"}
        OBVIOUS
      <3>2. PICK stage \in {"over", "close"} \cup Reading, outcome \in {"none"} \cup Outcomes :
              cont' = [at |-> stage, must |-> FALSE, outcome |-> outcome]
        BY <3>1
      <3>3. cont.at # "none" /\ op' = op /\ call' = call
        OBVIOUS
      <3> QED
        BY ONLY <3>2, <3>3, ContTyped DEF ContTyped, Reading, Outcomes
    <2>4. RestTyped'
      BY CancelsAssumption, ProbesAssumption
    <2>5. Protocol'
      OBVIOUS
    <2>6. CancelKept'
      BY DEF CancelKept
    <2>7. HandleHeld'
      BY DEF HandleHeld, StrayClose, StrayHook
    <2> QED
      BY <2>1, <2>2, <2>3, <2>4, <2>5, <2>6, <2>7 DEF IInv
  <1>7. CASE SettleFrom
    <2> USE <1>7 DEF SettleFrom, SettlePending
    <2>1. OpsTyped'
      OBVIOUS
    <2>2. CallerTyped'
      OBVIOUS
    <2>3. ContTyped'
      OBVIOUS
    <2>4. RestTyped'
      BY CancelsAssumption, ProbesAssumption
    <2>5. Protocol'
      OBVIOUS
    <2>6. CancelKept'
      BY DEF CancelKept
    <2>7. HandleHeld'
      BY DEF HandleHeld, StrayClose, StrayHook
    <2> QED
      BY <2>1, <2>2, <2>3, <2>4, <2>5, <2>6, <2>7 DEF IInv
  <1>8. CASE CallerStart
    <2> USE <1>8 DEF CallerStart, ThrowInFlight, Cancel, CancelContinuation, Finish
    <2>1. OpsTyped'
      <3>1. op' \in {op, [op EXCEPT !.asked = TRUE]}
        OBVIOUS
      <3>2. inner' \in {inner, [inner EXCEPT !.asked = TRUE]}
        OBVIOUS
      <3> HIDE DEF OpStates
      <3>3. [op EXCEPT !.asked = TRUE] \in OpStates /\ [inner EXCEPT !.asked = TRUE] \in OpStates
        BY OpTypes
      <3> QED
        BY ONLY <3>1, <3>2, <3>3, OpsTyped DEF OpsTyped
    <2>2. CallerTyped'
      BY ZenonT(30)
    <2>3. ContTyped'
      BY ZenonT(30)
    <2>4. RestTyped'
      BY CancelsAssumption, ProbesAssumption
    <2>5. Protocol'
      BY ZenonT(30)
    <2>6. CancelKept'
      <3> USE DEF CancelKept
      <3>1. CASE pending = "pending" /\ caller.must
        BY <3>1
      <3>2. CASE pending = "pending" /\ ~caller.must
        BY <3>2
      <3>3. CASE pending # "pending"
        <4>1. caller' = [caller EXCEPT !.at = "done", !.must = FALSE,
                           !.outcome = IF caller.must THEN "cancelled" ELSE pending]
          BY <3>3
        <4>2. caller.at = "start" /\ UNCHANGED <<pending, thrown, asked>>
          BY <3>3
        <4>3. caller'.at = "done" /\ ~caller'.must /\ caller'.how = caller.how
          BY <4>1
        <4>4. caller'.outcome = IF caller.must THEN "cancelled" ELSE pending
          BY <4>1
        <4> QED
          BY ONLY <4>2, <4>3, <4>4, CancelKept DEF CancelKept
      <3> QED
        BY <3>1, <3>2, <3>3
    <2>7. HandleHeld'
      BY DEF HandleHeld, StrayClose, StrayHook
    <2> QED
      BY <2>1, <2>2, <2>3, <2>4, <2>5, <2>6, <2>7 DEF IInv
  <1>9. CASE CallerStep
    <2> USE <1>9 DEF CallerStep, Finish, Send
    <2>1. OpsTyped'
      OBVIOUS
    <2>2. CallerTyped'
      OBVIOUS
    <2>3. ContTyped'
      OBVIOUS
    <2>4. RestTyped'
      BY CancelsAssumption, ProbesAssumption
    <2>5. Protocol'
      OBVIOUS
    <2>6. CancelKept'
      BY DEF CancelKept
    <2>7. HandleHeld'
      BY DEF HandleHeld, StrayClose, StrayHook
    <2> QED
      BY <2>1, <2>2, <2>3, <2>4, <2>5, <2>6, <2>7 DEF IInv
  <1>10. CASE UNCHANGED vars
    BY <1>10 DEF vars, CancelKept, HandleHeld, StrayClose, StrayHook
  <1> QED
    BY <1>1, <1>2, <1>3, <1>4, <1>5, <1>6, <1>7, <1>8, <1>9, <1>10 DEF Next, Driver, Loop

-----------------------------------------------------------------------------
\* The state is well typed in every reachable state, and a continuation exists
\* only for a read whose handle came back, whatever the bounds.
THEOREM TypeCorrect == Spec => []TypeOK
  <1>1. IInv => TypeOK
    BY DEF IInv, Typed, OpsTyped, CallerTyped, ContTyped, RestTyped, TypeOK
  <1> QED
    BY InitIInv, NextIInv, <1>1, PTL DEF Spec

\* However often the caller is cancelled and wherever the cancels find the
\* call, no op of it is left when the caller goes on.
THEOREM NothingTouched == Spec => []NoTouchAfterRaise
  <1>1. IInv => NoTouchAfterRaise
    BY DEF IInv, Protocol, NoTouchAfterRaise
  <1> QED
    BY InitIInv, NextIInv, <1>1, PTL DEF Spec

\* A handle is open after the call only if it is the caller's, or in one of the
\* three ways NoStrayHandle names.
THEOREM HandlesAccounted == Spec => []NoStrayHandle
  <1>1. IInv => NoStrayHandle
    <2> SUFFICES ASSUME IInv, caller.at = "done", handle = "open",
                        ~(call = "open" /\ caller.outcome = "result")
                 PROVE  StrayOpen \/ StrayClose \/ StrayHook
      BY DEF NoStrayHandle
    <2>1. op.at = "over" /\ cont.at \in {"none", "over"}
      BY DEF IInv, Protocol
    <2>2. CASE call = "read_bytes"
      BY <2>1, <2>2 DEF IInv, HandleHeld, Reading
    <2>3. CASE call = "open"
      BY <2>1, <2>3 DEF IInv, HandleHeld, CancelKept, StrayOpen
    <2> QED
      BY <2>2, <2>3, CallsAssumption DEF IInv, Typed, RestTyped
  <1> QED
    BY InitIInv, NextIInv, <1>1, PTL DEF Spec

\* A caller that is done stays as it is, and one that becomes done is cancelled
\* if it was cancelled, the error that meets `thrown` excepted.
LEMMA NextCancelWins == IInv /\ CancelWins /\ [Next]_vars => CancelWins'
  <1> SUFFICES ASSUME IInv, CancelWins, [Next]_vars PROVE CancelWins'
    OBVIOUS
  <1> USE DEF IInv, Typed, CallerTyped, RestTyped, Protocol, CancelKept, Outcomes, CancelWins
  <1>1. CASE CancelCaller
    BY <1>1 DEF CancelCaller, Cancel, CancelContinuation
  <1>2. CASE SettleOp
    BY <1>2 DEF SettleOp
  <1>3. CASE SettleInner
    BY <1>3 DEF SettleInner
  <1>4. CASE DeliverOp
    BY <1>4 DEF DeliverOp, HandsOff, HandOff, SettlePending
  <1>5. CASE DeliverInner
    BY <1>5 DEF DeliverInner
  <1>6. CASE ContinuationStep
    BY <1>6 DEF ContinuationStep
  <1>7. CASE SettleFrom
    BY <1>7 DEF SettleFrom, SettlePending
  <1>8. CASE CallerStart
    BY <1>8 DEF CallerStart, ThrowInFlight, Finish
  <1>9. CASE CallerStep
    BY <1>9 DEF CallerStep, Finish, Send
  <1>10. CASE UNCHANGED vars
    BY <1>10 DEF vars
  <1> QED
    BY <1>1, <1>2, <1>3, <1>4, <1>5, <1>6, <1>7, <1>8, <1>9, <1>10 DEF Next, Driver, Loop

\* A task that was cancelled before it was done ends cancelled, for every
\* sequence of cancels, unless an error meets the exception kept in `thrown`.
THEOREM CancelsWin == Spec => []CancelWins
  <1>1. Init => CancelWins
    BY DEF Init, CancelWins
  <1> QED
    BY InitIInv, NextIInv, <1>1, NextCancelWins, PTL DEF Spec
=============================================================================
