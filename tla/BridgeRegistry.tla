--------------------------- MODULE BridgeRegistry ---------------------------
(***************************************************************************)
(* The extension module's globals (lib.rs, Globals): one driver per        *)
(* process and one bridge per event loop, each behind a mutex that threads *)
(* take while they hold the interpreter's lock, the GIL.  The question is  *)
(* who waits for whom.                                                     *)
(*                                                                         *)
(* Each thread runs a loop of its own and submits ops from it.  Python     *)
(* code may lose the GIL between any two steps, a thread blocked on a      *)
(* mutex never gives it up; bridge_for_running_loop runs Python code with  *)
(* the bridges mutex locked.  One thread may fork: the child has a copy of *)
(* everything, the mutexes' state included, and that one thread.           *)
(***************************************************************************)
CONSTANTS
  Threads,  \* the parent's threads that run an event loop
  Ringer,   \* the parent's driver thread, when it rings with call_soon
  Child     \* the only thread of the forked child

VARIABLES
  forked,
  gil,          \* per process: the thread that holds the GIL
  driverLock,   \* per process: the owner of Globals.driver
  bridgesLock,  \* per process: the owner of Globals.bridges
  stored,       \* per process: the pid the driver was made for
  bridges,      \* per process: the loops that have a bridge
  pc

locks == <<driverLock, bridgesLock>>
vars == <<forked, gil, locks, stored, bridges, pc>>

Processes == {"parent", "child"}
All == Threads \cup {Ringer, Child}
Nobody == "nobody"
NoDriver == "none"

Proc(t) == IF t = Child THEN "child" ELSE "parent"

Init ==
  /\ forked = FALSE
  /\ gil = [p \in Processes |-> Nobody]
  /\ driverLock = [p \in Processes |-> Nobody]
  /\ bridgesLock = [p \in Processes |-> Nobody]
  /\ stored = [p \in Processes |-> NoDriver]
  /\ bridges = [p \in Processes |-> {}]
  /\ pc = [t \in All |-> IF t = Child THEN "unborn" ELSE IF t = Ringer THEN "rust" ELSE "python"]

-----------------------------------------------------------------------------
(* The interpreter.                                                        *)

Runs(t, at) == gil[Proc(t)] = t /\ pc[t] = at
Goto(t, to) == pc' = [pc EXCEPT ![t] = to]

TakeGil(t) ==
  /\ gil[Proc(t)] = Nobody
  /\ pc[t] \in {"python", "register"}
  /\ gil' = [gil EXCEPT ![Proc(t)] = t]
  /\ UNCHANGED <<forked, locks, stored, bridges, pc>>

\* Python code is made to give up the GIL; Rust code is not.
DropGil(t) ==
  /\ Runs(t, "python") \/ Runs(t, "register")
  /\ gil' = [gil EXCEPT ![Proc(t)] = Nobody]
  /\ UNCHANGED <<forked, locks, stored, bridges, pc>>

\* os.fork in a thread of the parent.
Fork(t) ==
  /\ ~forked /\ t # Child /\ Runs(t, "python")
  /\ forked' = TRUE
  /\ gil' = [gil EXCEPT !["child"] = Child]
  /\ driverLock' = [driverLock EXCEPT !["child"] = driverLock["parent"]]
  /\ bridgesLock' = [bridgesLock EXCEPT !["child"] = bridgesLock["parent"]]
  /\ stored' = [stored EXCEPT !["child"] = stored["parent"]]
  /\ bridges' = [bridges EXCEPT !["child"] = bridges["parent"]]
  /\ Goto(Child, "python")

-----------------------------------------------------------------------------
(* submit: driver(), then bridge_for_running_loop().                       *)

Submit(t) ==
  /\ Runs(t, "python")
  /\ Goto(t, "driver")
  /\ UNCHANGED <<forked, gil, locks, stored, bridges>>

\* The driver of this process, or one to be made; another process's driver
\* means that the bridges are another process's, too.
LockDriver(t) ==
  /\ Runs(t, "driver") /\ driverLock[Proc(t)] = Nobody
  /\ \/ /\ stored[Proc(t)] = Proc(t)
        /\ Goto(t, "bridge")
        /\ UNCHANGED driverLock
     \/ /\ stored[Proc(t)] # Proc(t)
        /\ driverLock' = [driverLock EXCEPT ![Proc(t)] = t]
        /\ Goto(t, IF stored[Proc(t)] = NoDriver THEN "new" ELSE "clear")
  /\ UNCHANGED <<forked, gil, bridgesLock, stored, bridges>>

ClearBridges(t) ==
  /\ Runs(t, "clear") /\ bridgesLock[Proc(t)] = Nobody
  /\ bridges' = [bridges EXCEPT ![Proc(t)] = {}]
  /\ Goto(t, "new")
  /\ UNCHANGED <<forked, gil, locks, stored>>

NewDriver(t) ==
  /\ Runs(t, "new")
  /\ stored' = [stored EXCEPT ![Proc(t)] = Proc(t)]
  /\ driverLock' = [driverLock EXCEPT ![Proc(t)] = Nobody]
  /\ Goto(t, "bridge")
  /\ UNCHANGED <<forked, gil, bridgesLock, bridges>>

\* A loop that has its bridge is served at once; a new one keeps the mutex.
LockBridges(t) ==
  /\ Runs(t, "bridge") /\ bridgesLock[Proc(t)] = Nobody
  /\ \/ t \in bridges[Proc(t)] /\ Goto(t, "python") /\ UNCHANGED bridgesLock
     \/ /\ t \notin bridges[Proc(t)]
        /\ bridgesLock' = [bridgesLock EXCEPT ![Proc(t)] = t]
        /\ Goto(t, "register")
  /\ UNCHANGED <<forked, gil, driverLock, stored, bridges>>

\* is_closed of the other loops, the imports, add_reader: Python code under
\* the mutex.  Loops found closed lose their bridges.
Register(t) ==
  /\ Runs(t, "register")
  /\ \E kept \in SUBSET bridges[Proc(t)] :
       bridges' = [bridges EXCEPT ![Proc(t)] = kept \cup {t}]
  /\ bridgesLock' = [bridgesLock EXCEPT ![Proc(t)] = Nobody]
  /\ Goto(t, "python")
  /\ UNCHANGED <<forked, gil, driverLock, stored>>

-----------------------------------------------------------------------------
(* ring_call_soon on the driver's thread.                                  *)

\* call_soon_threadsafe is called with the GIL, and raises if the loop is closed.
Ring ==
  /\ pc[Ringer] = "rust" /\ stored["parent"] = "parent" /\ gil["parent"] = Nobody
  /\ gil' = [gil EXCEPT !["parent"] = Ringer]
  /\ Goto(Ringer, "rung") \/ Goto(Ringer, "remove")
  /\ UNCHANGED <<forked, locks, stored, bridges>>

Rung ==
  /\ Runs(Ringer, "rung")
  /\ gil' = [gil EXCEPT !["parent"] = Nobody]
  /\ Goto(Ringer, "rust")
  /\ UNCHANGED <<forked, locks, stored, bridges>>

\* The bridge of a closed loop is removed.
Remove ==
  /\ Runs(Ringer, "remove") /\ bridgesLock["parent"] = Nobody
  /\ \E t \in Threads : bridges' = [bridges EXCEPT !["parent"] = @ \ {t}]
  /\ gil' = [gil EXCEPT !["parent"] = Nobody]
  /\ Goto(Ringer, "rust")
  /\ UNCHANGED <<forked, locks, stored>>

Step(t) ==
  LockDriver(t) \/ ClearBridges(t) \/ NewDriver(t) \/ LockBridges(t) \/ Register(t)

Next ==
  \/ \E t \in Threads \cup {Child} :
       TakeGil(t) \/ DropGil(t) \/ Fork(t) \/ Submit(t) \/ Step(t)
  \/ Ring \/ Rung \/ Remove

\* A thread that can go on does, the GIL changes hands (Python hands it over
\* after its switch interval), and a thread that wants it often enough gets it.
Fairness ==
  /\ \A t \in Threads \cup {Child} : WF_vars(Step(t)) /\ WF_vars(DropGil(t)) /\ SF_vars(TakeGil(t))
  /\ WF_vars(Rung) /\ WF_vars(Remove)

Spec == Init /\ [][Next]_vars /\ Fairness

-----------------------------------------------------------------------------
(* Properties.                                                             *)

\* driver(): "The driver is keyed by pid so a forked child rebuilds its own
\* driver thread instead of submitting into the parent's dead one."  A child
\* that submits an op comes to have a driver of its own.
ForkedChildRebuilds == pc[Child] = "driver" ~> stored["child"] = "child"
=============================================================================
