---------------------------- MODULE CompioDriver ----------------------------
(***************************************************************************)
(* The compio backend of turbofile-core (compio_backend.rs): one thread    *)
(* runs the message loop and one detached task per op, interleaved at      *)
(* every await.  A task owns clones of the file it works on; a cancel only *)
(* raises the op's flag, which is looked at before the op starts and, by   *)
(* ReadAt alone, between chunks.                                           *)
(*                                                                         *)
(* One step is one poll of one task, from one await to the next.  Which    *)
(* runnable task the executor polls first is left open.                    *)
(***************************************************************************)
EXTENDS Naturals, Sequences, FiniteSets

CONSTANTS
  NOps,        \* bound: ops submitted
  Kinds,       \* the kinds of op the environment submits
  MaxChunks,   \* bound: chunks of one ReadAt
  MaxCancels   \* bound: calls of Driver::cancel

\* WriteAt stands for every op on a handle that never looks at its flag once
\* it runs: WriteAt, ReadToEnd, Sync, SetLen and Size.
AllKinds == {"Nop", "Open", "Close", "ReadAt", "WriteAt", "ReadFile", "WriteFile"}

ASSUME BoundsAssumption ==
  /\ NOps \in Nat \ {0}
  /\ Kinds \subseteq AllKinds
  /\ MaxChunks \in Nat \ {0}
  /\ MaxCancels \in Nat

VARIABLES
  rx,              \* Msg channel from the submitters
  submittersGone,  \* every Driver handle was dropped
  req,             \* the Op submitted under each id
  cancelReq,       \* ids Driver::cancel was called for
  exited,          \* run() has returned and the runtime is gone
  files,           \* handle -> the file, named by the op that opened it
  next_id,
  flags,           \* CancelFlags: op -> BOOLEAN
  task,            \* op -> its task
  touched,         \* history: ops that asked the kernel for anything
  result           \* what each op's callback was called with

clientVars == <<submittersGone, req, cancelReq>>
vars == <<rx, submittersGone, req, cancelReq, exited, files, next_id, flags,
          task, touched, result>>

Ops == 1 .. NOps
Handles == Ops
NoHandle == 0
NoFile == 0

Init ==
  /\ rx = <<>>
  /\ submittersGone = FALSE
  /\ req = <<>>
  /\ cancelReq = {}
  /\ exited = FALSE
  /\ files = <<>>
  /\ next_id = 1
  /\ flags = <<>>
  /\ task = <<>>
  /\ touched = {}
  /\ result = [o \in Ops |-> "none"]

-----------------------------------------------------------------------------
(* Driver::submit and Driver::cancel, on any thread.                       *)

HandleKinds == {"Close", "ReadAt", "WriteAt"}

\* Handles a submitter has been given: a handle leaves the table only through
\* a Close that named it.
KnownHandles == (DOMAIN files \cup {req[o].handle : o \in DOMAIN req}) \ {NoHandle}

Submit(kind, h) ==
  /\ ~submittersGone
  /\ Len(req) < NOps
  /\ IF kind \in HandleKinds THEN h \in KnownHandles ELSE h = NoHandle
  /\ req' = Append(req, [kind |-> kind, handle |-> h])
  /\ rx' = Append(rx, [type |-> "Submit", op |-> Len(req) + 1])
  /\ UNCHANGED <<submittersGone, cancelReq, exited, files, next_id, flags, task,
                 touched, result>>

Cancel(o) ==
  /\ ~submittersGone
  /\ o \in DOMAIN req \ cancelReq
  /\ Cardinality(cancelReq) < MaxCancels
  /\ cancelReq' = cancelReq \cup {o}
  /\ rx' = Append(rx, [type |-> "Cancel", op |-> o])
  /\ UNCHANGED <<submittersGone, req, exited, files, next_id, flags, task,
                 touched, result>>

DropSubmitters ==
  /\ ~submittersGone
  /\ submittersGone' = TRUE
  /\ UNCHANGED <<rx, req, cancelReq, exited, files, next_id, flags, task,
                 touched, result>>

-----------------------------------------------------------------------------
(* run(): the message loop.                                                *)

\* A HashMap's insert and remove.
Insert(f, x, v) == [y \in DOMAIN f \cup {x} |-> IF y = x THEN v ELSE f[y]]

Without(f, x) == [y \in DOMAIN f \ {x} |-> f[y]]

Allocates(kind) == kind \in {"Open", "ReadFile"}

\* Slip: the id is read and the counter left alone.
NextIdStuck(kind) == next_id

NextId(kind) == IF Allocates(kind) THEN next_id + 1 ELSE next_id

RunSubmit ==
  /\ ~exited /\ rx # <<>> /\ Head(rx).type = "Submit"
  /\ LET o == Head(rx).op
         kind == req[o].kind
     IN /\ next_id' = NextId(kind)
        /\ flags' = Insert(flags, o, FALSE)
        /\ task' = Insert(task, o,
             [stage |-> "start", io |-> "none", file |-> NoFile, chunk |-> 1,
              open_id |-> IF Allocates(kind) THEN next_id ELSE NoHandle])
  /\ rx' = Tail(rx)
  /\ UNCHANGED <<clientVars, exited, files, touched, result>>

\* An op that is over has no flag.
RunCancel ==
  /\ ~exited /\ rx # <<>> /\ Head(rx).type = "Cancel"
  /\ LET o == Head(rx).op IN
     flags' = IF o \in DOMAIN flags THEN [flags EXCEPT ![o] = TRUE] ELSE flags
  /\ rx' = Tail(rx)
  /\ UNCHANGED <<clientVars, exited, files, next_id, task, touched, result>>

\* The channel is closed and empty: block_on returns, and the runtime drops
\* the detached tasks, their callbacks uncalled, and the handle table.
RunReturn ==
  /\ ~exited /\ submittersGone /\ rx = <<>>
  /\ exited' = TRUE
  /\ files' = <<>> /\ flags' = <<>> /\ task' = <<>>
  /\ UNCHANGED <<rx, clientVars, next_id, touched, result>>

RunStep == RunSubmit \/ RunCancel \/ RunReturn

-----------------------------------------------------------------------------
(* One task.  `io` is "none" before the first await, "kernel" while a      *)
(* request is out, and then what came back: "more" or "full" for a chunk   *)
(* of a ReadAt, "end" for its last one at end of file, and for all others. *)

\* Slip: the op's flag stays behind.
FlagKept(o) == flags

FlagRemoved(o) == Without(flags, o)

\* The task ends: flag removed, callback called, clones dropped.
Settle(o, r) ==
  /\ result' = [result EXCEPT ![o] = r]
  /\ flags' = FlagRemoved(o)
  /\ task' = Without(task, o)
  /\ UNCHANGED touched

\* The task asks the kernel for something and awaits it.
Await(o, stage, file) ==
  /\ task' = [task EXCEPT ![o].stage = stage, ![o].io = "kernel", ![o].file = file]
  /\ touched' = touched \cup {o}
  /\ UNCHANGED <<flags, result>>

\* Ready to be polled in this stage.
Polled(o, stage) ==
  o \in DOMAIN task /\ task[o].stage = stage /\ task[o].io # "kernel"

Register(o) ==
  /\ files' = Insert(files, task[o].open_id, task[o].file)
  /\ Settle(o, "done")

Lookup(h) == h \in DOMAIN files

\* Slip: Close takes a clone like every other op.
LeavesIn(h) == files

TakesOut(h) == Without(files, h)

\* execute: the first poll.
Start(o) ==
  LET kind == req[o].kind
      h == req[o].handle
  IN
  /\ Polled(o, "start")
  /\ \/ flags[o] /\ Settle(o, "cancelled") /\ UNCHANGED files
     \/ /\ ~flags[o]
        /\ \/ kind = "Nop" /\ Settle(o, "done") /\ UNCHANGED files
           \/ /\ kind \in {"Open", "ReadFile", "WriteFile"}
              /\ Await(o, "open", NoFile)
              /\ UNCHANGED files
           \/ /\ kind \in HandleKinds /\ ~Lookup(h)
              /\ Settle(o, "bad")
              /\ UNCHANGED files
           \/ /\ kind = "ReadAt" /\ Lookup(h)
              /\ Await(o, "read", files[h]) \/ Settle(o, "done")  \* len = 0
              /\ UNCHANGED files
           \/ /\ kind = "WriteAt" /\ Lookup(h)
              /\ Await(o, "transfer", files[h])
              /\ UNCHANGED files
           \/ /\ kind = "Close" /\ Lookup(h)
              /\ files' = TakesOut(h)
              /\ Await(o, "close", files[h])
  /\ UNCHANGED <<rx, clientVars, exited, next_id>>

\* The open came back: an error settles the op, a file is named after it.
AfterOpen(o) ==
  /\ Polled(o, "open")
  /\ \/ Settle(o, "done")
     \/ Allocates(req[o].kind) /\ Await(o, "size", o)
     \/ req[o].kind = "WriteFile" /\ Await(o, "transfer", o)
  /\ UNCHANGED <<rx, clientVars, exited, files, next_id>>

\* The metadata came back: an error drops the file; a whole-file read of a
\* file above inline_max becomes a handle.
AfterSize(o) ==
  /\ Polled(o, "size")
  /\ \/ Settle(o, "done") /\ UNCHANGED files
     \/ Register(o)
     \/ req[o].kind = "ReadFile" /\ Await(o, "transfer", o) /\ UNCHANGED files
  /\ UNCHANGED <<rx, clientVars, exited, next_id>>

\* Slip: read_up_to stops between chunks, asked to or not.
AbortsUnasked(o) == task[o].io = "more"

\* read_up_to looks at the flag before it looks at what it has.
Aborts(o) == flags[o] /\ task[o].io \in {"more", "full"}

AfterChunk(o) ==
  /\ Polled(o, "read")
  /\ \/ Aborts(o) /\ Settle(o, "cancelled")
     \/ ~Aborts(o) /\ task[o].io \in {"full", "end"} /\ Settle(o, "done")
     \/ /\ ~Aborts(o) /\ task[o].io = "more"
        /\ task' = [task EXCEPT ![o].io = "kernel", ![o].chunk = @ + 1]
        /\ UNCHANGED <<flags, touched, result>>
  /\ UNCHANGED <<rx, clientVars, exited, files, next_id>>

\* Slip: the flag is looked at once the transfer is over.
OutcomeUnlessFlagged(o) == IF flags[o] THEN "cancelled" ELSE "done"

Outcome(o) == "done"

\* A transfer on a handle, or the flush, truncation or stat of one, is over.
AfterTransfer(o) ==
  /\ Polled(o, "transfer") /\ req[o].kind = "WriteAt"
  /\ Settle(o, Outcome(o))
  /\ UNCHANGED <<rx, clientVars, exited, files, next_id>>

\* The transfer of a whole-file op is over: an error drops the file, else the
\* op closes it.
AfterWholeFile(o) ==
  /\ Polled(o, "transfer") /\ req[o].kind \in {"ReadFile", "WriteFile"}
  /\ Settle(o, "done") \/ Await(o, "close", task[o].file)
  /\ UNCHANGED <<rx, clientVars, exited, files, next_id>>

AfterClose(o) ==
  /\ Polled(o, "close")
  /\ Settle(o, "done")
  /\ UNCHANGED <<rx, clientVars, exited, files, next_id>>

Poll(o) ==
  \/ Start(o) \/ AfterOpen(o) \/ AfterSize(o) \/ AfterChunk(o)
  \/ AfterTransfer(o) \/ AfterWholeFile(o) \/ AfterClose(o)

-----------------------------------------------------------------------------
(* The kernel, and compio's File::close, which waits until its clone is    *)
(* the last one.                                                           *)

Users(file) == {o \in DOMAIN task : task[o].file = file}

LastClone(o) == Users(task[o].file) = {o}

KernelDone(o) ==
  /\ o \in DOMAIN task /\ task[o].io = "kernel"
  /\ task[o].stage = "close" => LastClone(o)
  /\ \E io \in {"end"} \cup
               (IF task[o].stage = "read"
                  THEN {"full"} \cup (IF task[o].chunk < MaxChunks THEN {"more"} ELSE {})
                  ELSE {}) :
       task' = [task EXCEPT ![o].io = io]
  /\ UNCHANGED <<rx, clientVars, exited, files, next_id, flags, touched, result>>

Next ==
  \/ \E kind \in Kinds, h \in Handles \cup {NoHandle} : Submit(kind, h)
  \/ \E o \in Ops : Cancel(o)
  \/ DropSubmitters
  \/ RunStep
  \/ \E o \in Ops : Poll(o) \/ KernelDone(o)

\* The executor polls what is runnable and the kernel answers.
Fairness ==
  /\ WF_vars(RunStep)
  /\ \A o \in Ops : WF_vars(Poll(o)) /\ WF_vars(KernelDone(o))

Spec == Init /\ [][Next]_vars /\ Fairness

-----------------------------------------------------------------------------
(* Properties.                                                             *)

Results == {"none", "done", "bad", "cancelled"}
Stages == {"start", "open", "size", "read", "transfer", "close"}

TypeOK ==
  /\ rx \in Seq([type : {"Submit", "Cancel"}, op : Ops])
  /\ submittersGone \in BOOLEAN
  /\ req \in Seq([kind : AllKinds, handle : Handles \cup {NoHandle}])
  /\ Len(req) <= NOps
  /\ cancelReq \subseteq DOMAIN req
  /\ exited \in BOOLEAN
  /\ DOMAIN files \subseteq 1 .. next_id - 1
  /\ \A h \in DOMAIN files : files[h] \in Ops
  /\ next_id \in Nat \ {0}
  /\ DOMAIN task \subseteq Ops
  /\ \A o \in DOMAIN task :
       task[o] \in [stage : Stages, io : {"none", "kernel", "more", "full", "end"},
                    file : Ops \cup {NoFile}, chunk : 1 .. MaxChunks,
                    open_id : Handles \cup {NoHandle}]
  /\ DOMAIN flags \subseteq Ops
  /\ \A o \in DOMAIN flags : flags[o] \in BOOLEAN
  /\ touched \subseteq Ops
  /\ result \in [Ops -> Results]

\* An op is in the channel or has a task, with its cancel flag, until its
\* callback runs, and then neither: the message loop and the tasks drop no op
\* and leave no flag behind, up to the moment run() returns.
OpInOnePlace ==
  ~exited =>
    \A o \in Ops :
      LET sent == \E i \in DOMAIN rx : rx[i] = [type |-> "Submit", op |-> o]
      IN /\ o \in DOMAIN req /\ result[o] = "none" <=> sent \/ o \in DOMAIN task
         /\ ~(sent /\ o \in DOMAIN task)
         /\ o \in DOMAIN flags <=> o \in DOMAIN task

\* Ids are given out when an open is taken from the channel and used when it
\* comes back, in any order: no two opens hold the same one and none replaces
\* a live handle.
FreshHandles ==
  /\ \A o \in DOMAIN task : task[o].open_id \notin DOMAIN files
  /\ \A o, p \in DOMAIN task :
       task[o].open_id = task[p].open_id /\ o # p => task[o].open_id = NoHandle
  /\ \A g, h \in DOMAIN files : files[g] = files[h] => g = h

\* "aborting mid-op cannot release the caller's memory safely; the flag is
\* honored before the op starts and between chunks instead": an op other than
\* ReadAt that settles ECANCELED has never reached the kernel, so a cancelled
\* write has written nothing and a cancelled whole-file write truncated
\* nothing.
CancelledTouchedNothing ==
  \A o \in DOMAIN req :
    result[o] = "cancelled" /\ req[o].kind # "ReadAt" => o \notin touched

\* A close that went through settles after every op that still used the file:
\* no task works on the file of a handle whose Close settled, and the handle
\* is gone.
ClosedForGood ==
  \A c \in DOMAIN req :
    req[c].kind = "Close" /\ result[c] = "done" =>
      /\ req[c].handle \notin DOMAIN files
      /\ \A o \in DOMAIN task :
           req[o].handle = req[c].handle => task[o].file = NoFile

\* The driver as the contract every backend implements; once its submitters
\* are gone it owes nothing any more.
Contract == INSTANCE DriverContract WITH serving <- ~submittersGone,
                                         submitted <- DOMAIN req

\* Each op settles exactly once, ECANCELED only after a cancel, and, while
\* the Driver is held, always.
ImplementsContract == Contract!Spec

\* "so the handle is closed whichever way the task ends" (turbofile/__init__.py,
\* finish_large_read, whose finally awaits the close): once a Close has
\* settled, however it did, its handle is out of the table.
SettledCloseClosed ==
  \A c \in DOMAIN req :
    req[c].kind = "Close" /\ result[c] # "none" => req[c].handle \notin DOMAIN files

\* "An op the kernel already completed delivers its result" (Driver::cancel): a
\* ReadAt whose last chunk the kernel has delivered does not settle ECANCELED.
FinishedReadDelivers ==
  [][\A o \in DOMAIN task :
       task[o].stage = "read" /\ task[o].io = "full" => result'[o] # "cancelled"]_vars
=============================================================================
