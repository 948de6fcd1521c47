------------------------------ MODULE DarwinAio ------------------------------
(***************************************************************************)
(* The macOS backend of turbofile-core (darwin_aio.rs): one driver thread  *)
(* that owns the handle table, a queue of jobs and a bounded set of POSIX  *)
(* AIO requests in flight; helper threads that open and close files when   *)
(* the driver is busy; and the kernel, which completes requests in any     *)
(* order, refuses them (EAGAIN) and cancels them or not.                   *)
(*                                                                         *)
(* Payloads, offsets and errno values are abstracted: what an op does with *)
(* its bytes is one of the kinds below, a chunk of a transfer is either    *)
(* the last one or not, and an op's own outcome, its value or the error of *)
(* a system call, is "done".                                               *)
(***************************************************************************)
EXTENDS Naturals, Sequences, FiniteSets, SequencesExt

CONSTANTS
  NOps,         \* bound: ops submitted
  Kinds,        \* the kinds of op the environment submits
  MaxInflight,  \* Driver.max_inflight (kern.aioprocmax)
  NHelpers,     \* helper threads
  MaxChunks,    \* bound: transfers of one job
  MaxCancels    \* bound: calls of Driver::cancel

AllKinds == {"Nop", "Open", "Close", "Stat", "Io", "ReadFile", "WriteFile"}

ASSUME BoundsAssumption ==
  /\ NOps \in Nat \ {0}
  /\ Kinds \subseteq AllKinds
  /\ MaxInflight \in Nat \ {0}
  /\ NHelpers \in Nat \ {0}
  /\ MaxChunks \in Nat \ {0}
  /\ MaxCancels \in Nat

VARIABLES
  rx,              \* Msg channel from the submitters
  submittersGone,  \* every Driver handle was dropped
  req,             \* the Op submitted under each id; Len(req) is Driver.next_op
  cancelReq,       \* ids Driver::cancel was called for
  pc,              \* the driver thread's call stack
  disconnected,
  files,           \* handle -> FileEntry; closing is {} or {the Close op}
  next_id,
  queue,
  inflight,        \* jobs at the kernel, with the request's status
  pending_opens,
  cancelled_opens,
  helperQ,         \* HelperJob channel; helpers serve its first NHelpers
  back,            \* Opened channel
  open,            \* the process's descriptor table: fd -> op that opened it
  result           \* what each op's callback was called with

clientVars == <<submittersGone, req, cancelReq>>
openVars == <<pending_opens, cancelled_opens>>
vars == <<rx, submittersGone, req, cancelReq, pc, disconnected, files, next_id,
          queue, inflight, pending_opens, cancelled_opens, helperQ, back, open,
          result>>

Ops == 1 .. NOps                  \* op ids, in the order of submission
Fds == Ops                        \* an op opens at most one descriptor
Handles == Ops
NoHandle == 0                     \* a job that owns its descriptor
NoFd == 0                         \* a failed open

Init ==
  /\ rx = <<>>
  /\ submittersGone = FALSE
  /\ req = <<>>
  /\ cancelReq = {}
  /\ pc = <<"top">>
  /\ disconnected = FALSE
  /\ files = <<>>
  /\ next_id = 1
  /\ queue = <<>>
  /\ inflight = {}
  /\ pending_opens = {}
  /\ cancelled_opens = {}
  /\ helperQ = <<>>
  /\ back = <<>>
  /\ open = <<>>
  /\ result = [o \in Ops |-> "none"]

-----------------------------------------------------------------------------
(* Driver::submit and Driver::cancel, on any thread.  A handle is known to *)
(* submitters once its open settled; they may use it after closing it.     *)

HandleKinds == {"Close", "Stat", "Io"}

Submit(kind, h) ==
  /\ ~submittersGone
  /\ Len(req) < NOps
  /\ IF kind \in HandleKinds THEN h \in 1 .. next_id - 1 ELSE h = NoHandle
  /\ req' = Append(req, [kind |-> kind, handle |-> h])
  /\ rx' = Append(rx, [type |-> "Submit", op |-> Len(req) + 1])
  /\ UNCHANGED <<submittersGone, cancelReq, pc, disconnected, files, next_id,
                 queue, inflight, openVars, helperQ, back, open, result>>

Cancel(o) ==
  /\ ~submittersGone
  /\ o \in DOMAIN req \ cancelReq
  /\ Cardinality(cancelReq) < MaxCancels
  /\ cancelReq' = cancelReq \cup {o}
  /\ rx' = Append(rx, [type |-> "Cancel", op |-> o])
  /\ UNCHANGED <<submittersGone, req, pc, disconnected, files, next_id, queue,
                 inflight, openVars, helperQ, back, open, result>>

DropSubmitters ==
  /\ ~submittersGone
  /\ submittersGone' = TRUE
  /\ UNCHANGED <<rx, req, cancelReq, pc, disconnected, files, next_id, queue,
                 inflight, openVars, helperQ, back, open, result>>

-----------------------------------------------------------------------------
(* Descriptors: open_raw/open_sized hand out the lowest free number.       *)

FreeFd == CHOOSE fd \in Fds \ DOMAIN open :
            \A other \in Fds \ DOMAIN open : fd <= other

\* A HashMap's insert and remove.
Insert(f, x, v) == [y \in DOMAIN f \cup {x} |-> IF y = x THEN v ELSE f[y]]

Without(f, x) == [y \in DOMAIN f \ {x} |-> f[y]]

OpenFd(o, fd) ==
  \/ fd = FreeFd /\ open' = Insert(open, fd, o)
  \/ fd = NoFd /\ UNCHANGED open

CloseFd(fd) == open' = Without(open, fd)

-----------------------------------------------------------------------------
(* The driver's helpers.                                                   *)

HasBacklog(rx_, queue_) == rx_ # <<>> \/ queue_ # <<>> \/ pending_opens # {}

Settle(o, r) == result' = [result EXCEPT ![o] = r]

NewJob(o, fd, h) ==
  [op |-> o, fd |-> fd, handle |-> h, cancelled |-> FALSE, chunk |-> 1]

\* Slip: the close is handed over and done here as well.
CloseOwnedTwice(fd) ==
  /\ CloseFd(fd)
  /\ helperQ' = IF HasBacklog(rx', queue')
                  THEN Append(helperQ, [type |-> "Close", fd |-> fd])
                  ELSE helperQ

\* close_owned: on this thread, or by a helper while there is a backlog.
CloseOwned(fd) ==
  IF HasBacklog(rx', queue')
    THEN helperQ' = Append(helperQ, [type |-> "Close", fd |-> fd]) /\ UNCHANGED open
    ELSE CloseFd(fd) /\ UNCHANGED helperQ

\* Slip: the last job closes the handle, asked to or not.
LastUseOnly(entry) == entry.ops = 1

\* The job's finish completes the close that waits for it.
LastUse(entry) == entry.ops = 1 /\ entry.closing # {}

\* finish: settle the job, and with the last job on a closing handle the
\* close that waited for it.  close(2) gives the number up even when it fails.
Finish(job, r) ==
  IF job.handle = NoHandle
    THEN /\ CloseOwned(job.fd)
         /\ Settle(job.op, r)
         /\ UNCHANGED files
    ELSE LET entry == files[job.handle] IN
         /\ UNCHANGED helperQ
         /\ IF LastUse(entry)
              THEN /\ files' = Without(files, job.handle)
                   /\ CloseFd(entry.fd)
                   /\ result' = [o \in Ops |-> CASE o = job.op -> r
                                              [] o \in entry.closing -> "done"
                                              [] OTHER -> result[o]]
              ELSE /\ files' = [files EXCEPT ![job.handle].ops = @ - 1]
                   /\ Settle(job.op, r)
                   /\ UNCHANGED open

\* Slip: enqueue does not count the job.
Uncounted(job) == files

\* The handle table with the job counted on its handle.
Counted(job) ==
  IF job.handle = NoHandle THEN files
  ELSE [files EXCEPT ![job.handle].ops = @ + 1]

\* enqueue: account for the job, queue it, and go on in submit_ready.
Enqueue(job, then) ==
  /\ queue' = Append(queue, job)
  /\ files' = Counted(job)
  /\ pc' = <<"submit", then>>

\* Slip: the next handle gets the same id.
RegisterSameId(o, fd, then) ==
  /\ files' = Insert(files, next_id, [fd |-> fd, ops |-> 0, closing |-> {}])
  /\ Settle(o, "done")
  /\ pc' = <<then>>
  /\ UNCHANGED <<next_id, queue>>

Register(o, fd, then) ==
  /\ files' = Insert(files, next_id, [fd |-> fd, ops |-> 0, closing |-> {}])
  /\ next_id' = next_id + 1
  /\ Settle(o, "done")
  /\ pc' = <<then>>
  /\ UNCHANGED queue

\* opened: what the driver does with the descriptor an op waited for.  A
\* whole-file read of a file above inline_max becomes a handle.
Opened(o, fd, then) ==
  LET kind == req[o].kind IN
  \/ /\ fd = NoFd
     /\ Settle(o, "done")
     /\ pc' = <<then>>
     /\ UNCHANGED <<files, next_id, queue>>
  \/ /\ fd # NoFd /\ kind \in {"Open", "ReadFile"}
     /\ Register(o, fd, then)
  \/ /\ fd # NoFd /\ kind \in {"ReadFile", "WriteFile"}
     /\ Enqueue(NewJob(o, fd, NoHandle), then)
     /\ UNCHANGED <<next_id, result>>

-----------------------------------------------------------------------------
(* handle_op, one action per kind of op; `then` is where the driver goes   *)
(* on afterwards.  with_fd refuses handles that are gone or closing.       *)

HandleNop(o, then) ==
  /\ Settle(o, "done")
  /\ pc' = <<then>>
  /\ UNCHANGED <<files, next_id, queue, inflight, openVars, helperQ, open>>

\* Slip: a handle that is closing is not refused.
UsableWhileClosing(h) == h \in DOMAIN files

Usable(h) == h \in DOMAIN files /\ files[h].closing = {}

\* Size, SetLen and transfers of length zero are answered on the spot.
HandleStat(o, then) ==
  /\ \/ ~Usable(req[o].handle) /\ Settle(o, "bad")
     \/ Usable(req[o].handle) /\ Settle(o, "done")
  /\ pc' = <<then>>
  /\ UNCHANGED <<files, next_id, queue, inflight, openVars, helperQ, open>>

\* ReadAt, ReadToEnd, WriteAt and Sync.
HandleIo(o, then) ==
  LET h == req[o].handle IN
  /\ \/ /\ ~Usable(h)
        /\ Settle(o, "bad")
        /\ pc' = <<then>>
        /\ UNCHANGED <<files, queue>>
     \/ /\ Usable(h)
        /\ Enqueue(NewJob(o, files[h].fd, h), then)
        /\ UNCHANGED result
  /\ UNCHANGED <<next_id, inflight, openVars, helperQ, open>>

\* Slip: close does not wait.
NeverDefers(h) == FALSE

DefersClose(h) == files[h].ops > 0

\* close: refused on a handle that is gone or closing, deferred while jobs
\* use the handle.
HandleClose(o, then) ==
  LET h == req[o].handle IN
  /\ \/ /\ ~Usable(h)
        /\ Settle(o, "bad")
        /\ UNCHANGED <<files, open>>
     \/ /\ Usable(h) /\ DefersClose(h)
        /\ files' = [files EXCEPT ![h].closing = {o}]
        /\ UNCHANGED <<open, result>>
     \/ /\ Usable(h) /\ ~DefersClose(h)
        /\ files' = Without(files, h)
        /\ CloseFd(files[h].fd)
        /\ Settle(o, "done")
  /\ pc' = <<then>>
  /\ UNCHANGED <<next_id, queue, inflight, openVars, helperQ>>

\* open_then: open on this thread, or hand the open to a helper while
\* anything else waits for this thread.
HandleOpen(o, then) ==
  /\ \/ /\ ~HasBacklog(rx', queue)
        /\ \E fd \in Fds \cup {NoFd} : OpenFd(o, fd) /\ Opened(o, fd, then)
        /\ UNCHANGED <<pending_opens, helperQ>>
     \/ /\ HasBacklog(rx', queue)
        /\ pending_opens' = pending_opens \cup {o}
        /\ helperQ' = Append(helperQ, [type |-> "Open", op |-> o])
        /\ pc' = <<then>>
        /\ UNCHANGED <<files, next_id, queue, open, result>>
  /\ UNCHANGED <<inflight, cancelled_opens>>

HandleOp(o, then) ==
  LET kind == req[o].kind IN
  \/ kind = "Nop" /\ HandleNop(o, then)
  \/ kind = "Stat" /\ HandleStat(o, then)
  \/ kind = "Io" /\ HandleIo(o, then)
  \/ kind = "Close" /\ HandleClose(o, then)
  \/ kind \in {"Open", "ReadFile", "WriteFile"} /\ HandleOpen(o, then)

-----------------------------------------------------------------------------
(* cancel: a queued job settles, one in flight is flagged and aio_cancel   *)
(* may catch it, an open still out is marked; anything else is over.       *)

CancelQueued(o, then) ==
  \E i \in DOMAIN queue :
    /\ queue[i].op = o
    /\ queue' = RemoveAt(queue, i)
    /\ Finish(queue[i], "cancelled")
    /\ pc' = <<then>>
    /\ UNCHANGED <<next_id, inflight, openVars>>

CancelInflight(o, then) ==
  \E e \in inflight :
    /\ e.job.op = o
    /\ \E status \in {e.status} \cup
                     (IF e.status = "running" THEN {"cancelled"} ELSE {}) :
         inflight' = (inflight \ {e}) \cup
           {[job |-> [e.job EXCEPT !.cancelled = TRUE], status |-> status]}
    /\ pc' = <<then>>
    /\ UNCHANGED <<files, next_id, queue, openVars, helperQ, open, result>>

\* Slip: any id that is not found is marked.
MarkAnyId(o) == {o}

MarkIfOut(o) == {o} \cap pending_opens

CancelElse(o, then) ==
  /\ \A i \in DOMAIN queue : queue[i].op # o
  /\ \A e \in inflight : e.job.op # o
  /\ cancelled_opens' = cancelled_opens \cup MarkIfOut(o)
  /\ pc' = <<then>>
  /\ UNCHANGED <<files, next_id, queue, inflight, pending_opens, helperQ, open,
                 result>>

CancelOp(o, then) ==
  \/ CancelQueued(o, then)
  \/ CancelInflight(o, then)
  \/ CancelElse(o, then)

HandleMsg(then) ==
  /\ rx # <<>>
  /\ rx' = Tail(rx)
  /\ \/ Head(rx).type = "Submit" /\ HandleOp(Head(rx).op, then)
     \/ Head(rx).type = "Cancel" /\ CancelOp(Head(rx).op, then)
  /\ UNCHANGED <<clientVars, disconnected, back>>

\* Slip: the mark is dropped unread.
NotMarked(o) == FALSE

Marked(o) == o \in cancelled_opens

\* Slip: the descriptor of a cancelled open is forgotten.
UndoForgotten(fd) == UNCHANGED open

UndoOpen(fd) == IF fd = NoFd THEN UNCHANGED open ELSE CloseFd(fd)

\* handle_opened: an open that came back to a cancelled op is undone.
HandleOpened(then) ==
  /\ back # <<>>
  /\ back' = Tail(back)
  /\ LET o == Head(back).op
         fd == Head(back).fd
     IN /\ pending_opens' = pending_opens \ {o}
        /\ cancelled_opens' = cancelled_opens \ {o}
        /\ \/ /\ Marked(o)
              /\ UndoOpen(fd)
              /\ Settle(o, "cancelled")
              /\ pc' = <<then>>
              /\ UNCHANGED <<files, next_id, queue>>
           \/ /\ ~Marked(o)
              /\ Opened(o, fd, then)
              /\ UNCHANGED open
  /\ UNCHANGED <<rx, clientVars, disconnected, inflight, helperQ>>

-----------------------------------------------------------------------------
(* Driver::run.  One pass: wait if there is nothing to do, reap what the   *)
(* kernel finished, empty the channels, submit.                            *)

At(label) == pc = <<label>>

Goto(label) ==
  /\ pc' = <<label>>
  /\ UNCHANGED <<rx, clientVars, files, next_id, queue, inflight, openVars,
                 helperQ, back, open, result>>

Idle == inflight = {} /\ queue = <<>>

Busy == At("top") /\ ~Idle /\ Goto("reap") /\ UNCHANGED disconnected

\* Slip: the driver leaves without its opens.
NothingAwaited == TRUE

NothingOut == pending_opens = {}

Exit ==
  /\ At("top") /\ Idle /\ disconnected /\ NothingOut
  /\ Goto("exited") /\ UNCHANGED disconnected

\* wait_idle
WaitMsg == At("top") /\ Idle /\ ~disconnected /\ HandleMsg("reap")

WaitOpened ==
  /\ At("top") /\ Idle /\ (disconnected => ~NothingOut)
  /\ HandleOpened("reap")

WaitDisconnect ==
  /\ At("top") /\ Idle /\ ~disconnected
  /\ submittersGone /\ rx = <<>>
  /\ disconnected' = TRUE
  /\ Goto("reap")

\* step: whether a chunk is the last one depends on its length.
MayHaveMore(job) == job.chunk < MaxChunks

\* Slip: the flag cancel() left is not looked at.
ResubmitsAlways(job) == TRUE

Resubmits(job) == ~job.cancelled

\* reap and advance: the last chunk, or an error, settles the job; after any
\* other chunk a cancelled job settles and the rest of one that is not goes to
\* the queue's front.
Reap(e) ==
  /\ At("reap")
  /\ e.status # "running"
  /\ inflight' = inflight \ {e}
  /\ UNCHANGED rx
  /\ \/ /\ e.status = "done"
        /\ UNCHANGED queue
        /\ Finish(e.job, "done")
        /\ UNCHANGED pc
     \/ /\ e.status = "done" /\ MayHaveMore(e.job)
        /\ ~Resubmits(e.job)
        /\ UNCHANGED queue
        /\ Finish(e.job, "cancelled")
        /\ UNCHANGED pc
     \/ /\ e.status = "done" /\ MayHaveMore(e.job)
        /\ Resubmits(e.job)
        /\ queue' = <<[e.job EXCEPT !.chunk = @ + 1]>> \o queue
        /\ pc' = <<"submit", "reap">>
        /\ UNCHANGED <<files, helperQ, open, result>>
     \/ /\ e.status = "cancelled"
        /\ UNCHANGED queue
        /\ Finish(e.job, "cancelled")
        /\ UNCHANGED pc
  /\ UNCHANGED <<clientVars, disconnected, next_id, openVars, back>>

\* A request that completes after the scan passed it is one that completes
\* after the scan.
EndReap ==
  /\ At("reap")
  /\ \A e \in inflight : e.status = "running"
  /\ Goto("drainRx") /\ UNCHANGED disconnected

\* drain_channel
DrainRx == At("drainRx") /\ HandleMsg("drainRx")

EndDrainRx ==
  /\ At("drainRx") /\ rx = <<>>
  /\ disconnected' = (disconnected \/ submittersGone)
  /\ Goto("drainBack")

DrainBack == At("drainBack") /\ HandleOpened("drainBack")

EndDrainBack ==
  /\ At("drainBack") /\ back = <<>>
  /\ pc' = <<"submit", "top">>
  /\ UNCHANGED <<rx, clientVars, disconnected, files, next_id, queue, inflight,
                 openVars, helperQ, back, open, result>>

-----------------------------------------------------------------------------
(* submit_ready and submit: one step per request tried.                    *)

Submitting ==
  /\ Head(pc) = "submit"
  /\ Cardinality(inflight) < MaxInflight
  /\ queue # <<>>

EndSubmit ==
  /\ Head(pc) = "submit"
  /\ Cardinality(inflight) >= MaxInflight \/ queue = <<>>
  /\ Goto(pc[2]) /\ UNCHANGED disconnected

\* The kernel takes the request.
SubmitOk ==
  /\ Submitting
  /\ inflight' = inflight \cup {[job |-> Head(queue), status |-> "running"]}
  /\ queue' = Tail(queue)
  /\ UNCHANGED <<rx, clientVars, pc, disconnected, files, next_id, openVars,
                 helperQ, back, open, result>>

\* Slip: wait for a slot although none of this process's will come free.
WaitsAnyway == TRUE

SlotWillFree == inflight # {}

\* EAGAIN while requests are in flight: the job goes back to the front.
SubmitFull ==
  /\ Submitting
  /\ SlotWillFree
  /\ Goto(pc[2]) /\ UNCHANGED disconnected

\* EAGAIN with nothing in flight: execute_sync runs the whole job here.
SubmitSync ==
  /\ Submitting
  /\ ~SlotWillFree
  /\ UNCHANGED rx
  /\ queue' = Tail(queue)
  /\ Finish(Head(queue), "done")
  /\ UNCHANGED <<clientVars, pc, disconnected, next_id, inflight, openVars, back>>

\* Any other error settles the job.
SubmitError ==
  /\ Submitting
  /\ UNCHANGED rx
  /\ queue' = Tail(queue)
  /\ Finish(Head(queue), "done")
  /\ UNCHANGED <<clientVars, pc, disconnected, next_id, inflight, openVars, back>>

DriverStep ==
  \/ Busy \/ Exit \/ WaitMsg \/ WaitOpened \/ WaitDisconnect
  \/ \E e \in inflight : Reap(e)
  \/ EndReap \/ DrainRx \/ EndDrainRx \/ DrainBack \/ EndDrainBack
  \/ EndSubmit \/ SubmitOk \/ SubmitFull \/ SubmitSync \/ SubmitError

-----------------------------------------------------------------------------
(* The kernel and the helper threads.  A request that is done has a count  *)
(* or an error other than ECANCELED.                                       *)

KernelDone(e) ==
  /\ e.status = "running"
  /\ inflight' = (inflight \ {e}) \cup {[e EXCEPT !.status = "done"]}
  /\ UNCHANGED <<rx, clientVars, pc, disconnected, files, next_id, queue,
                 openVars, helperQ, back, open, result>>

\* helper_loop: an open goes back to the driver, a close does not.
HelperStep(i) ==
  /\ i \in DOMAIN helperQ /\ i <= NHelpers
  /\ helperQ' = RemoveAt(helperQ, i)
  /\ LET job == helperQ[i] IN
     \/ /\ job.type = "Open"
        /\ \E fd \in Fds \cup {NoFd} :
             /\ OpenFd(job.op, fd)
             /\ back' = Append(back, [op |-> job.op, fd |-> fd])
     \/ /\ job.type = "Close"
        /\ CloseFd(job.fd)
        /\ UNCHANGED back
  /\ UNCHANGED <<rx, clientVars, pc, disconnected, files, next_id, queue,
                 inflight, openVars, result>>

Next ==
  \/ \E kind \in Kinds, h \in Handles \cup {NoHandle} : Submit(kind, h)
  \/ \E o \in Ops : Cancel(o)
  \/ DropSubmitters
  \/ DriverStep
  \/ \E e \in inflight : KernelDone(e)
  \/ \E i \in 1 .. NHelpers : HelperStep(i)

\* The driver and the helpers keep running, and the kernel completes every
\* request it took.  Nobody owes a submission, a cancel or the drop.
Fairness ==
  /\ WF_vars(DriverStep)
  /\ WF_vars(HelperStep(1))
  /\ \A o \in Ops : WF_vars(\E e \in inflight : e.job.op = o /\ KernelDone(e))

Spec == Init /\ [][Next]_vars /\ Fairness

-----------------------------------------------------------------------------
(* Properties.                                                             *)

Results == {"none", "done", "bad", "cancelled"}
Job == [op : Ops, fd : Fds, handle : Handles \cup {NoHandle},
        cancelled : BOOLEAN, chunk : 1 .. MaxChunks]
Phases == {"top", "reap", "drainRx", "drainBack"}

TypeOK ==
  /\ rx \in Seq([type : {"Submit", "Cancel"}, op : Ops])
  /\ submittersGone \in BOOLEAN
  /\ req \in Seq([kind : AllKinds, handle : Handles \cup {NoHandle}])
  /\ Len(req) <= NOps
  /\ cancelReq \subseteq DOMAIN req
  /\ \/ \E label \in Phases \cup {"exited"} : pc = <<label>>
     \/ \E label \in Phases : pc = <<"submit", label>>
  /\ disconnected \in BOOLEAN
  /\ DOMAIN files \subseteq 1 .. next_id - 1
  /\ \A h \in DOMAIN files :
       files[h] \in [fd : Fds, ops : Nat, closing : SUBSET Ops]
  /\ next_id \in Nat \ {0}
  /\ queue \in Seq(Job)
  /\ inflight \subseteq
       [job : Job, status : {"running", "done", "cancelled"}]
  /\ pending_opens \subseteq Ops
  /\ cancelled_opens \subseteq Ops
  /\ helperQ \in Seq([type : {"Open"}, op : Ops] \cup [type : {"Close"}, fd : Fds])
  /\ back \in Seq([op : Ops, fd : Fds \cup {NoFd}])
  /\ DOMAIN open \subseteq Fds
  /\ \A fd \in DOMAIN open : open[fd] \in Ops
  /\ result \in [Ops -> Results]

Jobs == Range(queue) \cup {e.job : e \in inflight}
JobsOn(h) == {job \in Jobs : job.handle = h}

\* Everything that holds a descriptor and will close it.
FdOwners ==
  {[owner |-> "handle", id |-> h, fd |-> files[h].fd] : h \in DOMAIN files}
    \cup {[owner |-> "job", id |-> job.op, fd |-> job.fd] : job \in JobsOn(NoHandle)}
    \cup {[owner |-> "helper", id |-> i, fd |-> helperQ[i].fd] :
            i \in {j \in DOMAIN helperQ : helperQ[j].type = "Close"}}
    \cup {[owner |-> "opened", id |-> i, fd |-> back[i].fd] :
            i \in {j \in DOMAIN back : back[j].fd # NoFd}}

\* No descriptor leaks and none is closed twice: through cancelled and failed
\* opens, hand-offs to helpers and deferred closes, the open descriptors are
\* exactly the owned ones, and each has one owner.
EveryFdOwnedOnce ==
  /\ DOMAIN open = {x.fd : x \in FdOwners}
  /\ \A x, y \in FdOwners : x.fd = y.fd => x = y

\* close defers to the jobs on its handle: a job that is queued or at the
\* kernel still has the descriptor it was given, so it never reads or writes
\* a file somebody else opened under the same number.
JobKeepsItsFile ==
  \A job \in Jobs :
    /\ job.fd \in DOMAIN open
    /\ IF job.handle = NoHandle
         THEN open[job.fd] = job.op
         ELSE job.handle \in DOMAIN files /\ files[job.handle].fd = job.fd

\* FileEntry.ops counts the jobs on the handle, so a deferred close has a job
\* left whose finish settles it.
OpsCountsJobs ==
  \A h \in DOMAIN files :
    /\ files[h].ops = Cardinality(JobsOn(h))
    /\ files[h].closing # {} => files[h].ops > 0

\* Where an op that is not settled can be.
Places(o) ==
  {<<"rx", i>> : i \in {j \in DOMAIN rx : rx[j] = [type |-> "Submit", op |-> o]}}
    \cup {<<"helper", i>> : i \in {j \in DOMAIN helperQ :
             helperQ[j] = [type |-> "Open", op |-> o]}}
    \cup {<<"back", i>> : i \in {j \in DOMAIN back : back[j].op = o}}
    \cup {<<"queue", i>> : i \in {j \in DOMAIN queue : queue[j].op = o}}
    \cup {<<"kernel", e.status>> : e \in {f \in inflight : f.job.op = o}}
    \cup {<<"closing", h>> : h \in {g \in DOMAIN files : o \in files[g].closing}}

\* An op is in one place until its callback runs and in none afterwards: no
\* hand-off between the channels, the queue, the kernel and the handle table
\* drops an op or does it twice.
OpInOnePlace ==
  \A o \in Ops :
    Cardinality(Places(o)) = IF o \in DOMAIN req /\ result[o] = "none" THEN 1 ELSE 0

\* pending_opens is what is out at the helpers, and a mark in cancelled_opens
\* is always consumed by the open it is for.
PendingOpensAreOut ==
  /\ pending_opens =
       {o \in Ops : \E place \in Places(o) : place[1] \in {"helper", "back"}}
  /\ cancelled_opens \subseteq pending_opens

\* "flagged so a surviving chunk is not resubmitted": a job whose cancel came
\* while it was in flight never waits for another transfer.
CancelledNotResubmitted == \A i \in DOMAIN queue : ~queue[i].cancelled

\* An open whose cancel arrived before the driver took it back settles
\* cancelled, whatever the helper's open returned.
MarkedOpenIsCancelled ==
  [][\A o \in cancelled_opens : result'[o] \in {"none", "cancelled"}]_vars

\* A handle is refused only to ops submitted after its close: a close never
\* overtakes an op that was submitted before it, whatever was cancelled,
\* resubmitted or deferred in between.
BadOnlyAfterClose ==
  \A o \in DOMAIN req :
    result[o] = "bad" =>
      \E c \in 1 .. o - 1 :
        req[c] = [kind |-> "Close", handle |-> req[o].handle]

\* The driver leaves only when everything submitted is settled.
ExitIsClean ==
  At("exited") => \A o \in DOMAIN req : result[o] # "none"

\* The driver as the contract every backend implements; this one serves to
\* the end, also when its submitters are gone.
Contract == INSTANCE DriverContract WITH
  submitted <- DOMAIN req,
  serving <- TRUE

\* Each op settles exactly once, ECANCELED only after a cancel, and, with a
\* kernel that completes what it takes, always.
ImplementsContract == Contract!Spec
=============================================================================
