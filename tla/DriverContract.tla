--------------------------- MODULE DriverContract ---------------------------
(***************************************************************************)
(* What turbofile-core's Driver promises whoever submits ops to it, on     *)
(* every backend: each submitted op is settled exactly once, by one call   *)
(* of its callback, and as long as somebody holds the Driver sooner or     *)
(* later is; it is settled ECANCELED only if somebody asked for it.        *)
(***************************************************************************)
EXTENDS Naturals

CONSTANT Ops

VARIABLES
  submitted,  \* ops handed to Driver::submit
  cancelReq,  \* ops Driver::cancel was called for
  result,     \* what each op's callback was called with
  serving     \* somebody still holds the Driver

contractVars == <<submitted, cancelReq, result, serving>>

\* "done" is the op's own outcome, "bad" a refused handle.
Results == {"none", "done", "bad", "cancelled"}

Init ==
  /\ submitted = {}
  /\ cancelReq = {}
  /\ result = [o \in Ops |-> "none"]
  /\ serving = TRUE

Submit(o) ==
  /\ o \notin submitted
  /\ submitted' = submitted \cup {o}
  /\ UNCHANGED <<cancelReq, result, serving>>

Cancel(o) ==
  /\ o \in submitted
  /\ cancelReq' = cancelReq \cup {o}
  /\ UNCHANGED <<submitted, result, serving>>

Pending == {o \in submitted : result[o] = "none"}

\* One step of a driver may settle several ops: the last op on a handle
\* settles, and with it the close that waited for it.
SettleAll(ops) ==
  /\ ops \subseteq Pending
  /\ result' \in [Ops -> Results]
  /\ \A o \in Ops :
       IF o \in ops
         THEN /\ result'[o] # "none"
              /\ result'[o] = "cancelled" => o \in cancelReq
         ELSE result'[o] = result[o]
  /\ UNCHANGED <<submitted, cancelReq, serving>>

Settle(o) == \E ops \in SUBSET Ops : o \in ops /\ SettleAll(ops)

\* The last submitter drops its Driver.
Retire ==
  /\ serving' = FALSE
  /\ UNCHANGED <<submitted, cancelReq, result>>

Next ==
  \/ \E o \in Ops : Submit(o) \/ Cancel(o)
  \/ \E ops \in SUBSET Ops : ops # {} /\ SettleAll(ops)
  \/ Retire

\* The safety half of the promise.
Safety == Init /\ [][Next]_contractVars

Spec ==
  /\ Safety
  /\ \A o \in Ops : WF_contractVars(serving /\ Settle(o))
=============================================================================
