----------------------------- MODULE LoopBridge -----------------------------
(***************************************************************************)
(* The completion bridge of one event loop (turbofile-py, lib.rs): threads *)
(* that finish an op push its completion on a mutex-protected queue and    *)
(* ring a doorbell, but only on the idle -> armed transition; the loop     *)
(* thread runs DrainHandle.__call__, which delivers until the queue stays  *)
(* empty, disarms, and looks once more.                                    *)
(*                                                                         *)
(* One step is one access to shared state: the queue's mutex, the `armed`  *)
(* atomic, the ALIVE flag, the pipe or the loop's ready list.              *)
(***************************************************************************)
EXTENDS Naturals, Sequences, FiniteSets, Functions

CONSTANTS
  Producers,    \* threads that run op callbacks: the driver thread, and a
                \* submitting thread whose send to the driver failed
  Completions   \* one per op; a callback is FnOnce, so each is pushed once

VARIABLES
  doorbell,    \* LoopBridge.doorbell: "Pipe" or "CallSoon", set once
  queue,       \* LoopBridge.queue
  armed,       \* LoopBridge.armed
  wakes,       \* bytes in the pipe, or drains in the loop's ready list
  alive,       \* the ALIVE flag
  loopOpen,    \* the event loop has not been closed
  registered,  \* Globals.bridges holds this bridge
  unsent,      \* completions whose callback has not run yet
  pc,          \* where each producer is in complete()
  drain,       \* where the loop thread is in DrainHandle.__call__
  batch,       \* the rest of the batch the drain took
  delivered    \* history: what deliver() has settled, oldest first

producerVars == <<unsent, pc>>
loopVars == <<drain, batch, delivered>>
lifeVars == <<doorbell, alive, loopOpen, registered>>
vars == <<queue, armed, wakes, unsent, pc, drain, batch, delivered,
          doorbell, alive, loopOpen, registered>>

ProducerPc == {"idle", "swap", "alive", "ring", "dropStale", "disarmStale",
               "unregister"}
DrainPc == {"idle", "take", "deliver", "disarm", "recheck", "rearm"}

\* A pipe where the loop has add_reader and a pipe can be made.
DoorbellKinds == {"Pipe", "CallSoon"}

Init ==
  /\ doorbell \in DoorbellKinds
  /\ queue = <<>>
  /\ armed = FALSE
  /\ wakes = 0
  /\ alive = TRUE
  /\ loopOpen = TRUE
  /\ registered = TRUE
  /\ unsent = Completions
  /\ pc = [p \in Producers |-> "idle"]
  /\ drain = "idle"
  /\ batch = <<>>
  /\ delivered = <<>>

-----------------------------------------------------------------------------
(* LoopBridge::complete, on a producer's thread.                           *)

Goto(p, from, to) == pc[p] = from /\ pc' = [pc EXCEPT ![p] = to]

Push(p) ==
  /\ Goto(p, "idle", "swap")
  /\ \E c \in unsent : /\ queue' = Append(queue, c)
                       /\ unsent' = unsent \ {c}
  /\ UNCHANGED <<armed, wakes, loopVars, lifeVars>>

\* Slip: complete() rings whatever the swap returned.
SwapAlwaysRings(p) ==
  /\ Goto(p, "swap", "alive")
  /\ armed' = TRUE
  /\ UNCHANGED <<queue, wakes, unsent, loopVars, lifeVars>>

\* armed.swap(true): whoever finds it already set leaves the ringing to others.
Swap(p) ==
  /\ Goto(p, "swap", IF armed THEN "idle" ELSE "alive")
  /\ armed' = TRUE
  /\ UNCHANGED <<queue, wakes, unsent, loopVars, lifeVars>>

CheckAlive(p) ==
  /\ Goto(p, "alive", IF alive THEN "ring" ELSE "idle")
  /\ UNCHANGED <<queue, armed, wakes, unsent, loopVars, lifeVars>>

\* One byte into the non-blocking pipe; no GIL, and no error that matters.
RingPipe(p) ==
  /\ doorbell = "Pipe"
  /\ Goto(p, "ring", "idle")
  /\ wakes' = wakes + 1
  /\ UNCHANGED <<queue, armed, unsent, loopVars, lifeVars>>

\* Slip: ring_call_soon without its early return for a call that succeeded.
RingCallSoonNoReturn(p) ==
  /\ doorbell = "CallSoon"
  /\ Goto(p, "ring", "dropStale")
  /\ wakes' = IF loopOpen THEN wakes + 1 ELSE wakes
  /\ UNCHANGED <<queue, armed, unsent, loopVars, lifeVars>>

\* call_soon_threadsafe(drain) under the GIL; it raises on a closed loop.
RingCallSoon(p) ==
  /\ doorbell = "CallSoon"
  /\ Goto(p, "ring", IF loopOpen THEN "idle" ELSE "dropStale")
  /\ wakes' = IF loopOpen THEN wakes + 1 ELSE wakes
  /\ UNCHANGED <<queue, armed, unsent, loopVars, lifeVars>>

DropStale(p) ==
  /\ Goto(p, "dropStale", "disarmStale")
  /\ queue' = <<>>
  /\ UNCHANGED <<armed, wakes, unsent, loopVars, lifeVars>>

DisarmStale(p) ==
  /\ Goto(p, "disarmStale", "unregister")
  /\ armed' = FALSE
  /\ UNCHANGED <<queue, wakes, unsent, loopVars, lifeVars>>

Unregister(p) ==
  /\ Goto(p, "unregister", "idle")
  /\ registered' = FALSE
  /\ UNCHANGED <<queue, armed, wakes, unsent, loopVars, doorbell, alive, loopOpen>>

ProducerStep(p) ==
  \/ Swap(p)
  \/ CheckAlive(p)
  \/ RingPipe(p)
  \/ RingCallSoon(p)
  \/ DropStale(p)
  \/ DisarmStale(p)
  \/ Unregister(p)

-----------------------------------------------------------------------------
(* DrainHandle.__call__, on the loop's thread.                             *)

\* quiet_doorbell reads the pipe dry; a scheduled call is one call.
Quieted == IF doorbell = "Pipe" THEN 0 ELSE wakes - 1

\* The loop runs the drain: add_reader reports the pipe readable, or the
\* loop pops a scheduled call.
DrainStart ==
  /\ drain = "idle" /\ loopOpen /\ wakes > 0
  /\ drain' = "take"
  /\ wakes' = Quieted
  /\ UNCHANGED <<queue, armed, producerVars, batch, delivered, lifeVars>>

\* Slip: the batch is copied out and the queue not emptied.
TakeCopies ==
  /\ drain = "take"
  /\ batch' = queue
  /\ drain' = IF queue = <<>> THEN "disarm" ELSE "deliver"
  /\ UNCHANGED <<queue, armed, wakes, producerVars, delivered, lifeVars>>

Take ==
  /\ drain = "take"
  /\ batch' = queue
  /\ queue' = <<>>
  /\ drain' = IF queue = <<>> THEN "disarm" ELSE "deliver"
  /\ UNCHANGED <<armed, wakes, producerVars, delivered, lifeVars>>

\* Slip: the drain goes back to the queue after one delivery.
DeliverOne ==
  /\ drain = "deliver"
  /\ delivered' = Append(delivered, Head(batch))
  /\ batch' = Tail(batch)
  /\ drain' = "take"
  /\ UNCHANGED <<queue, armed, wakes, producerVars, lifeVars>>

Deliver ==
  /\ drain = "deliver"
  /\ delivered' = Append(delivered, Head(batch))
  /\ batch' = Tail(batch)
  /\ drain' = IF Tail(batch) = <<>> THEN "take" ELSE "deliver"
  /\ UNCHANGED <<queue, armed, wakes, producerVars, lifeVars>>

\* Slip: the drain leaves without disarming.
DisarmForgotten ==
  /\ drain = "disarm"
  /\ drain' = "recheck"
  /\ UNCHANGED <<queue, armed, wakes, producerVars, batch, delivered, lifeVars>>

Disarm ==
  /\ drain = "disarm"
  /\ armed' = FALSE
  /\ drain' = "recheck"
  /\ UNCHANGED <<queue, wakes, producerVars, batch, delivered, lifeVars>>

\* Slip: no second look.
RecheckSkipped ==
  /\ drain = "recheck"
  /\ drain' = "idle"
  /\ UNCHANGED <<queue, armed, wakes, producerVars, batch, delivered, lifeVars>>

\* The second look at the queue, after disarming.
Recheck ==
  /\ drain = "recheck"
  /\ drain' = IF queue = <<>> THEN "idle" ELSE "rearm"
  /\ UNCHANGED <<queue, armed, wakes, producerVars, batch, delivered, lifeVars>>

\* armed.swap(true): if a producer armed it meanwhile, that one rings.
Rearm ==
  /\ drain = "rearm"
  /\ armed' = TRUE
  /\ drain' = IF armed THEN "idle" ELSE "take"
  /\ UNCHANGED <<queue, wakes, producerVars, batch, delivered, lifeVars>>

DrainStep == DrainStart \/ Take \/ Deliver \/ Disarm \/ Recheck \/ Rearm

-----------------------------------------------------------------------------
(* What happens to the bridge from outside.                                *)

\* loop.close(): never inside a callback; it empties the ready list.
LoopClose ==
  /\ loopOpen /\ drain = "idle"
  /\ loopOpen' = FALSE
  /\ wakes' = IF doorbell = "CallSoon" THEN 0 ELSE wakes
  /\ UNCHANGED <<queue, armed, producerVars, loopVars, doorbell, alive, registered>>

\* Another loop's first submission evicts the bridges of closed loops.
Retain ==
  /\ registered /\ ~loopOpen
  /\ registered' = FALSE
  /\ UNCHANGED <<queue, armed, wakes, producerVars, loopVars, doorbell, alive,
                 loopOpen>>

\* atexit
Shutdown ==
  /\ alive
  /\ alive' = FALSE
  /\ UNCHANGED <<queue, armed, wakes, producerVars, loopVars, doorbell, loopOpen,
                 registered>>

Next ==
  \/ \E p \in Producers : Push(p) \/ ProducerStep(p)
  \/ DrainStep
  \/ LoopClose
  \/ Retain
  \/ Shutdown

\* A thread inside complete() or the drain keeps running; whether an op
\* completes, the loop closes or the interpreter exits is not owed.
Fairness ==
  /\ \A p \in Producers : WF_vars(ProducerStep(p))
  /\ WF_vars(DrainStep)

Spec == Init /\ [][Next]_vars /\ Fairness

-----------------------------------------------------------------------------
(* Properties.                                                             *)

TypeOK ==
  /\ doorbell \in DoorbellKinds
  /\ queue \in Seq(Completions)
  /\ armed \in BOOLEAN
  /\ wakes \in Nat
  /\ alive \in BOOLEAN
  /\ loopOpen \in BOOLEAN
  /\ registered \in BOOLEAN
  /\ unsent \subseteq Completions
  /\ pc \in [Producers -> ProducerPc]
  /\ drain \in DrainPc
  /\ batch \in Seq(Completions)
  /\ delivered \in Seq(Completions)
  /\ drain = "deliver" <=> batch # <<>>

At(p, labels) == pc[p] \in labels

\* A push racing the disarm is never lost (the recheck of
\* DrainHandle.__call__): while completions are queued on a live bridge, the
\* loop has a wake to come, or the drain is still going to look at the queue,
\* or some producer is still going to ring.
NoLostWakeup ==
  alive /\ loopOpen /\ queue # <<>> =>
    \/ wakes > 0
    \/ drain # "idle"
    \/ \E p \in Producers : At(p, {"swap", "alive", "ring"})

\* The ringers: producers that won the idle -> armed transition.
Ringers == {p \in Producers : At(p, {"alive", "ring"})}

\* The drain owns the armed flag until it has disarmed.
Draining == drain \in {"take", "deliver", "disarm"}

\* A burst of completions costs one wakeup ("wakes the loop thread once per
\* completion burst"): of a ringer, a wake in the pipe or the ready list and
\* a drain that has not disarmed, at most one exists, so the wake pipe can
\* never fill and the drain never runs for nothing while one is running.
OneWakePerBurst ==
  loopOpen =>
    /\ \A p, q \in Ringers : p = q
    /\ wakes <= 1
    /\ wakes = 1 => Ringers = {} /\ ~Draining
    /\ Draining => Ringers = {}

\* What makes NoLostWakeup and OneWakePerBurst inductive: the armed flag is a
\* token that exactly one of a ringer, a wake and the drain holds (nobody
\* does once shutdown or the loop's end took the holder away), and a producer
\* inside the stale-loop branch of ring_call_soon proves the loop closed.
ArmedIsHeld ==
  alive /\ loopOpen /\ armed => wakes > 0 \/ Draining \/ Ringers # {}
HolderArms ==
  loopOpen /\ (wakes > 0 \/ Draining \/ Ringers # {}) => armed
UnarmedIsSeen ==
  loopOpen /\ ~armed /\ queue # <<>> =>
    drain \in {"recheck", "rearm"} \/ \E p \in Producers : At(p, {"swap"})
StaleIsClosed ==
  \A p \in Producers :
    At(p, {"dropStale", "disarmStale", "unregister"}) => ~loopOpen
DrainNeedsLoop == drain # "idle" => loopOpen

\* The armed protocol as one inductive invariant.
ArmedProtocol ==
  /\ ArmedIsHeld
  /\ HolderArms
  /\ UnarmedIsSeen
  /\ StaleIsClosed
  /\ DrainNeedsLoop
  /\ OneWakePerBurst

\* The bridge as the channel it implements.  The drain's batch is older than
\* what is queued.
Channel == INSTANCE CompletionChannel WITH
  pending <- batch \o queue,
  serving <- alive /\ loopOpen

\* The bridge is a first-in-first-out channel that loses, duplicates and
\* reorders nothing, forgets completions only once the loop is closed, and
\* delivers every completion of a live loop.
ImplementsChannel == Channel!Spec

\* "once the interpreter is finalizing, driver-thread completions must never
\* attach to Python again" (lib.rs, ALIVE): no call_soon_threadsafe, which
\* takes the GIL, once shutdown() has cleared ALIVE.
NeverAttachAfterShutdown ==
  [][\A p \in Producers : RingCallSoon(p) => alive]_vars
=============================================================================
