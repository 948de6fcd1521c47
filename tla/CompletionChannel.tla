------------------------- MODULE CompletionChannel -------------------------
(***************************************************************************)
(* What the completion bridge promises the driver and the event loop: an   *)
(* unbounded channel.  A completion enters it once, completions leave it   *)
(* in the order they entered, each exactly once, and as long as the        *)
(* interpreter is alive and the loop open every one of them does leave.    *)
(* No threads, no doorbell, no batches.                                    *)
(***************************************************************************)
EXTENDS Naturals, Sequences, Functions

CONSTANT Completions

VARIABLES
  pending,    \* completions not yet delivered, oldest first
  delivered,  \* completions the loop thread has delivered, oldest first
  serving     \* the interpreter is alive and the event loop is open

chanVars == <<pending, delivered, serving>>

Init ==
  /\ pending = <<>>
  /\ delivered = <<>>
  /\ serving = TRUE

\* A completion is sent at most once: an op's callback is a FnOnce.
Send(c) ==
  /\ c \notin Range(pending) \cup Range(delivered)
  /\ pending' = Append(pending, c)
  /\ UNCHANGED <<delivered, serving>>

Deliver ==
  /\ pending # <<>>
  /\ delivered' = Append(delivered, Head(pending))
  /\ pending' = Tail(pending)
  /\ UNCHANGED serving

\* The interpreter shuts down or the loop closes; nothing is owed any more.
Retire ==
  /\ serving' = FALSE
  /\ UNCHANGED <<pending, delivered>>

\* Only a channel out of service forgets what it holds.
Discard ==
  /\ ~serving
  /\ pending' = <<>>
  /\ UNCHANGED <<delivered, serving>>

Next ==
  \/ \E c \in Completions : Send(c)
  \/ Deliver
  \/ Retire
  \/ Discard

\* The safety half of the promise.
Safety == Init /\ [][Next]_chanVars

Spec == Safety /\ WF_chanVars(serving /\ Deliver)
=============================================================================
