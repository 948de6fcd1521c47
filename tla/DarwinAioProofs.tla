-------------------------- MODULE DarwinAioProofs --------------------------
(***************************************************************************)
(* Proofs about DarwinAio, for every number of ops, helpers, requests in   *)
(* flight, chunks and cancels.                                             *)
(*                                                                         *)
(* One inductive invariant carries them all.  Its core is two partitions:  *)
(* an op that is not settled is in one of six places (Apart, Placed), and  *)
(* an open descriptor has one of four owners (FdsApart, FdsOpen).  Around  *)
(* them: a handle counts its jobs (JobsKept), the opens that are out are   *)
(* the pending ones (MarksOk), cancelled results have a cancel behind them *)
(* (KernelOk, MarksOk), submissions leave the channel in order (RxOk), so  *)
(* a refused handle has an earlier Close behind it (Refused), and every    *)
(* descriptor was opened by an op of its own, so a free number is left for *)
(* the next one (FdsFew).  The steps of the driver are taken apart into    *)
(* what leaves a channel, the queue or the kernel (Taken, JobTaken) and    *)
(* what becomes of it (SettledIInv, RegisterIInv, EnqueueIInv, DeferIInv,  *)
(* CloseNowIInv, HandOverIInv, FinishIInv, JobMovedIInv).                  *)
(***************************************************************************)
EXTENDS DarwinAio, FiniteSetTheorems, WellFoundedInduction, TLAPS

-----------------------------------------------------------------------------
(* What the channels and the queue hold.                                   *)

OpsOf(s) == {s[i].op : i \in DOMAIN s}
OpsAs(s, type) == {s[i].op : i \in {j \in DOMAIN s : s[j].type = type}}
FdsOf(s) == {s[i].fd : i \in DOMAIN s} \ {NoFd}
FdsAs(s, type) == {s[i].fd : i \in {j \in DOMAIN s : s[j].type = type}}

\* No op, no descriptor is there twice.
Distinct(s) == \A i, j \in DOMAIN s : s[i].op = s[j].op => i = j

DistinctOps(s, type) ==
  \A i, j \in DOMAIN s :
    s[i].type = type /\ s[j].type = type /\ s[i].op = s[j].op => i = j

DistinctFds(s) ==
  \A i, j \in DOMAIN s : s[i].fd # NoFd /\ s[i].fd = s[j].fd => i = j

DistinctFdsAs(s, type) ==
  \A i, j \in DOMAIN s :
    s[i].type = type /\ s[j].type = type /\ s[i].fd = s[j].fd => i = j

\* Submissions leave the channel in the order of their ids.
InOrder(s) ==
  \A i, j \in DOMAIN s :
    i < j /\ s[i].type = "Submit" /\ s[j].type = "Submit" => s[i].op < s[j].op

-----------------------------------------------------------------------------
(* The inductive invariant.                                                *)

Msgs == [type : {"Submit", "Cancel"}, op : Ops]
Reqs == [kind : AllKinds, handle : Handles \cup {NoHandle}]
Entries == [fd : Fds, ops : Int, closing : SUBSET Ops]
Requests == [job : Job, status : {"running", "done", "cancelled"}]
HelperJobs == [type : {"Open"}, op : Ops] \cup [type : {"Close"}, fd : Fds]
Answers == [op : Ops, fd : Fds \cup {NoFd}]

\* The places an op can be in.
InRx == OpsAs(rx, "Submit")
AtHelper == OpsAs(helperQ, "Open")
InBack == OpsOf(back)
InQueue == OpsOf(queue)
AtKernel == {e.job.op : e \in inflight}
Waiting == UNION {files[h].closing : h \in DOMAIN files}

\* The owners a descriptor can have.
HandleFds == {files[h].fd : h \in DOMAIN files}
JobFds == {job.fd : job \in JobsOn(NoHandle)}
HelperFds == FdsAs(helperQ, "Close")
BackFds == FdsOf(back)

ClientOk ==
  /\ submittersGone \in BOOLEAN /\ disconnected \in BOOLEAN
  /\ req \in Seq(Reqs) /\ Len(req) <= NOps
  /\ cancelReq \subseteq DOMAIN req

\* What is in the channel came after what is not, and cancels were asked for.
RxOk ==
  /\ rx \in Seq(Msgs) /\ InOrder(rx)
  /\ \A i \in DOMAIN rx : rx[i].op \in DOMAIN req
  /\ \A i \in DOMAIN rx : rx[i].type = "Cancel" => rx[i].op \in cancelReq
  /\ \A o \in DOMAIN req \ InRx, p \in InRx : o < p
  /\ disconnected => submittersGone /\ rx = <<>>

PcOk ==
  /\ \/ \E label \in Phases \cup {"exited"} : pc = <<label>>
     \/ \E label \in Phases : pc = <<"submit", label>>
  /\ At("exited") => disconnected /\ Idle /\ pending_opens = {}

TableOk ==
  /\ next_id \in Nat \ {0}
  /\ DOMAIN files \subseteq 1 .. next_id - 1
  /\ \A h \in DOMAIN files : files[h] \in Entries
  /\ \A g, h \in DOMAIN files : \A o \in files[g].closing : o \in files[h].closing => g = h
  /\ \A g, h \in DOMAIN files : files[g].fd = files[h].fd => g = h

QueueOk == queue \in Seq(Job) /\ Distinct(queue) /\ CancelledNotResubmitted

KernelOk ==
  /\ inflight \subseteq Requests
  /\ \A e, f \in inflight : e.job.op = f.job.op => e = f
  /\ \A e \in inflight : e.job.cancelled \/ e.status = "cancelled" => e.job.op \in cancelReq

MarksOk ==
  /\ pending_opens = AtHelper \cup InBack
  /\ cancelled_opens \subseteq pending_opens
  /\ cancelled_opens \subseteq cancelReq

HelperOk ==
  /\ helperQ \in Seq(HelperJobs)
  /\ DistinctOps(helperQ, "Open") /\ DistinctFdsAs(helperQ, "Close")

BackOk == back \in Seq(Answers) /\ Distinct(back) /\ DistinctFds(back)

ResultOk ==
  /\ result \in [Ops -> Results]
  /\ \A o \in Ops \ DOMAIN req : result[o] = "none"
  /\ BadOnlyAfterClose

Apart ==
  /\ InRx \cap (AtHelper \cup InBack \cup InQueue \cup AtKernel \cup Waiting) = {}
  /\ AtHelper \cap (InBack \cup InQueue \cup AtKernel \cup Waiting) = {}
  /\ InBack \cap (InQueue \cup AtKernel \cup Waiting) = {}
  /\ InQueue \cap (AtKernel \cup Waiting) = {}
  /\ AtKernel \cap Waiting = {}

\* The ops that are out are those that are not settled.
Placed ==
  InRx \cup AtHelper \cup InBack \cup InQueue \cup AtKernel \cup Waiting
    = {o \in DOMAIN req : result[o] = "none"}

JobsKept ==
  /\ IsFiniteSet(Jobs)
  /\ \A job \in Jobs :
       job.handle # NoHandle => job.handle \in DOMAIN files /\ files[job.handle].fd = job.fd
  /\ OpsCountsJobs

\* A handle somebody may use was given out, and one that is refused has a
\* Close behind it that has left the channel.
Refused ==
  /\ \A o \in DOMAIN req :
       req[o].kind \in HandleKinds => req[o].handle \in 1 .. next_id - 1
  /\ \A h \in 1 .. next_id - 1 :
       ~Usable(h) => \E c \in DOMAIN req \ InRx : req[c] = [kind |-> "Close", handle |-> h]

FdsApart ==
  /\ \A j, k \in JobsOn(NoHandle) : j.fd = k.fd => j = k
  /\ HandleFds \cap (JobFds \cup HelperFds \cup BackFds) = {}
  /\ JobFds \cap (HelperFds \cup BackFds) = {}
  /\ HelperFds \cap BackFds = {}

FdsOpen ==
  /\ DOMAIN open = HandleFds \cup JobFds \cup HelperFds \cup BackFds
  /\ \A job \in JobsOn(NoHandle) : open[job.fd] = job.op
  /\ \A i \in DOMAIN back : back[i].fd # NoFd => open[back[i].fd] = back[i].op

\* Every open descriptor is another op's, and that op has tried to open: so
\* there is a number left for one that has not.
FdsFew ==
  /\ \A f, g \in DOMAIN open : open[f] = open[g] => f = g
  /\ \A fd \in DOMAIN open : open[fd] \in DOMAIN req \ (InRx \cup AtHelper)

IInv ==
  /\ ClientOk /\ RxOk /\ PcOk /\ TableOk /\ QueueOk /\ KernelOk /\ MarksOk
  /\ HelperOk /\ BackOk /\ ResultOk
  /\ Apart /\ Placed /\ JobsKept /\ Refused
  /\ FdsApart /\ FdsOpen /\ FdsFew

-----------------------------------------------------------------------------
(* Sequences that differ in one element.                                   *)

Skip(i, k) == IF k < i THEN k ELSE k + 1

\* t is s without its i-th element.
Dropped(s, t, i) ==
  /\ i \in DOMAIN s
  /\ \A k \in DOMAIN t : Skip(i, k) \in DOMAIN s \ {i} /\ t[k] = s[Skip(i, k)]
  /\ \A j \in DOMAIN s \ {i} : \E k \in DOMAIN t : j = Skip(i, k)
  /\ \A k, l \in DOMAIN t : Skip(i, k) = Skip(i, l) => k = l

\* What SMT knows of a sequence, stated once.
LEMMA SeqIs ==
  ASSUME NEW S, NEW s \in Seq(S)
  PROVE  /\ DOMAIN s = 1 .. Len(s) /\ Len(s) \in Nat
         /\ \A i \in DOMAIN s : s[i] \in S
  OBVIOUS

\* The elements of a concatenation.
LEMMA ConcatIs ==
  ASSUME NEW S, NEW a \in Seq(S), NEW b \in Seq(S)
  PROVE  /\ a \o b \in Seq(S) /\ Len(a \o b) = Len(a) + Len(b)
         /\ \A k \in 1 .. Len(a) + Len(b) :
              (a \o b)[k] = IF k <= Len(a) THEN a[k] ELSE b[k - Len(a)]
  OBVIOUS

\* RemoveAt drops the element it names.
LEMMA RemoveAtDrops ==
  ASSUME NEW S, NEW s \in Seq(S), NEW i \in DOMAIN s
  PROVE  RemoveAt(s, i) \in Seq(S) /\ Dropped(s, RemoveAt(s, i), i)
  <1> DEFINE t == RemoveAt(s, i)
  <1>1. DOMAIN s = 1 .. Len(s) /\ Len(s) \in Nat /\ i \in 1 .. Len(s)
    OBVIOUS
  <1>2. t = SubSeq(s, 1, i - 1) \o SubSeq(s, i + 1, Len(s))
    BY DEF RemoveAt
  <1> DEFINE a == SubSeq(s, 1, i - 1)
             b == SubSeq(s, i + 1, Len(s))
  <1>3. /\ a \in Seq(S) /\ Len(a) = i - 1 /\ \A k \in 1 .. i - 1 : a[k] = s[k]
        /\ b \in Seq(S) /\ Len(b) = Len(s) - i /\ \A k \in 1 .. Len(s) - i : b[k] = s[i + k]
    <2>1. a \in Seq(S) /\ Len(a) = i - 1 /\ \A k \in 1 .. i - 1 : a[k] = s[k]
      BY <1>1
    <2>2. b \in Seq(S) /\ Len(b) = Len(s) - i
      BY <1>1
    <2>3. \A k \in 1 .. Len(s) - i : b[k] = s[i + k]
      BY <1>1
    <2> QED
      BY <2>1, <2>2, <2>3
  <1> HIDE DEF t, a, b
  <1>4. /\ t \in Seq(S) /\ Len(t) = Len(s) - 1
        /\ \A k \in 1 .. Len(s) - 1 : t[k] = IF k < i THEN s[k] ELSE s[k + 1]
    <2>0. /\ t \in Seq(S) /\ Len(t) = Len(a) + Len(b)
          /\ \A k \in 1 .. Len(a) + Len(b) : t[k] = IF k <= Len(a) THEN a[k] ELSE b[k - Len(a)]
      <3>1. t = a \o b
        BY <1>2 DEF a, b
      <3>2. a \in Seq(S) /\ b \in Seq(S)
        BY <1>3
      <3> QED
        BY ONLY <3>1, <3>2, ConcatIs, Zenon
    <2>1. /\ t \in Seq(S) /\ Len(t) = Len(s) - 1
      BY <1>1, <2>0, <1>3
    <2>2. ASSUME NEW k \in 1 .. Len(s) - 1
          PROVE t[k] = IF k < i THEN s[k] ELSE s[k + 1]
      <3>1. CASE k < i
        BY <3>1, <1>1, <2>0, <1>3
      <3>2. CASE ~(k < i)
        <4>1. t[k] = b[k - (i - 1)]
          BY <3>2, <1>1, <2>0, <1>3
        <4>2. k - (i - 1) \in 1 .. Len(s) - i /\ i + (k - (i - 1)) = k + 1
          BY <3>2, <1>1
        <4>3. b[k - (i - 1)] = s[i + (k - (i - 1))]
          BY <4>2, <1>3
        <4> QED
          BY <4>1, <4>2, <4>3, <3>2
      <3> QED
        BY <3>1, <3>2
    <2> QED
      BY <2>1, <2>2
  <1>5. DOMAIN t = 1 .. Len(s) - 1
    BY <1>1, <1>4
  <1>6. Dropped(s, t, i)
    <2>1. \A k \in DOMAIN t : Skip(i, k) \in DOMAIN s \ {i} /\ t[k] = s[Skip(i, k)]
      BY <1>1, <1>4, <1>5 DEF Skip
    <2>2. ASSUME NEW j \in DOMAIN s \ {i}
          PROVE  \E k \in DOMAIN t : j = Skip(i, k)
      <3>1. CASE j < i
        <4>1. j \in DOMAIN t /\ Skip(i, j) = j
          BY <3>1, <1>1, <1>5 DEF Skip
        <4> QED
          BY <4>1
      <3>2. CASE ~(j < i)
        <4>1. j - 1 \in DOMAIN t /\ Skip(i, j - 1) = j
          BY <3>2, <1>1, <1>5 DEF Skip
        <4> QED
          BY <4>1
      <3> QED
        BY <3>1, <3>2
    <2>3. \A k, l \in DOMAIN t : Skip(i, k) = Skip(i, l) => k = l
      BY <1>1, <1>5 DEF Skip
    <2> QED
      BY <2>1, <2>2, <2>3 DEF Dropped
  <1> QED
    BY <1>4, <1>6 DEF t

\* Tail drops the first element.
LEMMA TailDrops ==
  ASSUME NEW S, NEW s \in Seq(S), s # <<>>
  PROVE  Tail(s) \in Seq(S) /\ Dropped(s, Tail(s), 1) /\ Head(s) = s[1]
  <1>1. /\ Tail(s) \in Seq(S) /\ Head(s) = s[1]
        /\ DOMAIN s = 1 .. Len(s) /\ Len(s) \in Nat \ {0}
        /\ DOMAIN Tail(s) = 1 .. Len(s) - 1
        /\ \A i \in DOMAIN Tail(s) : Tail(s)[i] = s[i + 1]
    OBVIOUS
  <1> DEFINE t == Tail(s)
  <1> HIDE DEF t
  <1>2. \A k \in DOMAIN t : Skip(1, k) \in DOMAIN s \ {1} /\ t[k] = s[Skip(1, k)]
    BY <1>1 DEF Skip, t
  <1>3. ASSUME NEW j \in DOMAIN s \ {1}
        PROVE  \E k \in DOMAIN t : j = Skip(1, k)
    <2>1. j - 1 \in DOMAIN t /\ Skip(1, j - 1) = j
      BY <1>1 DEF Skip, t
    <2> QED
      BY <2>1
  <1>4. \A k, l \in DOMAIN t : Skip(1, k) = Skip(1, l) => k = l
    BY <1>1 DEF Skip, t
  <1> QED
    BY <1>1, <1>2, <1>3, <1>4 DEF Dropped, t

\* What Append adds is the element that dropping it takes away.
LEMMA AppendAdds ==
  ASSUME NEW S, NEW s \in Seq(S), NEW x \in S
  PROVE  /\ Append(s, x) \in Seq(S) /\ Dropped(Append(s, x), s, Len(s) + 1)
         /\ Append(s, x)[Len(s) + 1] = x
  <1> DEFINE t == Append(s, x)
             n == Len(s) + 1
  <1>1. /\ t \in Seq(S) /\ t[n] = x
        /\ DOMAIN s = 1 .. Len(s) /\ Len(s) \in Nat
        /\ DOMAIN t = 1 .. n
        /\ \A i \in DOMAIN s : t[i] = s[i]
    OBVIOUS
  <1> HIDE DEF t
  <1>2. \A k \in DOMAIN s : Skip(n, k) = k /\ k \in DOMAIN t \ {n}
    BY <1>1 DEF Skip
  <1>3. \A j \in DOMAIN t \ {n} : j \in DOMAIN s
    BY <1>1
  <1> HIDE DEF n
  <1>4. Dropped(t, s, n)
    <2>1. n \in DOMAIN t
      BY <1>1 DEF n
    <2> QED
      BY <1>1, <1>2, <1>3, <2>1 DEF Dropped
  <1> QED
    BY <1>1, <1>4 DEF t, n

\* The same for an element put in front.
LEMMA ConsAdds ==
  ASSUME NEW S, NEW s \in Seq(S), NEW x \in S
  PROVE  /\ <<x>> \o s \in Seq(S) /\ Dropped(<<x>> \o s, s, 1)
         /\ (<<x>> \o s)[1] = x
  <1> DEFINE t == <<x>> \o s
  <1>1. /\ t \in Seq(S) /\ t[1] = x
        /\ DOMAIN s = 1 .. Len(s) /\ Len(s) \in Nat
        /\ DOMAIN t = 1 .. Len(s) + 1
        /\ \A i \in DOMAIN s : t[i + 1] = s[i]
    OBVIOUS
  <1> HIDE DEF t
  <1>2. \A k \in DOMAIN s : Skip(1, k) \in DOMAIN t \ {1} /\ s[k] = t[Skip(1, k)]
    BY <1>1 DEF Skip
  <1>3. ASSUME NEW j \in DOMAIN t \ {1}
        PROVE  \E k \in DOMAIN s : j = Skip(1, k)
    <2>1. j - 1 \in DOMAIN s /\ Skip(1, j - 1) = j
      BY <1>1 DEF Skip
    <2> QED
      BY <2>1
  <1>4. \A k, l \in DOMAIN s : Skip(1, k) = Skip(1, l) => k = l
    BY <1>1 DEF Skip
  <1>5. 1 \in DOMAIN t
    BY <1>1
  <1> QED
    BY <1>1, <1>2, <1>3, <1>4, <1>5 DEF Dropped, t

\* What dropping or adding one element does to what a sequence holds.
LEMMA DroppedOps ==
  ASSUME NEW s, NEW t, NEW i, Dropped(s, t, i)
  PROVE  /\ OpsOf(s) = OpsOf(t) \cup {s[i].op}
         /\ Distinct(s) <=> Distinct(t) /\ s[i].op \notin OpsOf(t)
         /\ Range(s) = Range(t) \cup {s[i]}
  <1>1. OpsOf(s) = OpsOf(t) \cup {s[i].op}
    BY DEF Dropped, OpsOf
  <1>2. Range(s) = Range(t) \cup {s[i]}
    BY DEF Dropped, Range
  <1>3. ASSUME Distinct(s) PROVE Distinct(t) /\ s[i].op \notin OpsOf(t)
    BY <1>3 DEF Dropped, OpsOf, Distinct
  <1>4. ASSUME Distinct(t), s[i].op \notin OpsOf(t) PROVE Distinct(s)
    BY <1>4 DEF Dropped, OpsOf, Distinct
  <1> QED
    BY <1>1, <1>2, <1>3, <1>4

\* The same, for the elements of one type.
LEMMA DroppedAs ==
  ASSUME NEW s, NEW t, NEW i, Dropped(s, t, i), NEW type
  PROVE  /\ s[i].type = type => OpsAs(s, type) = OpsAs(t, type) \cup {s[i].op}
         /\ s[i].type # type => OpsAs(s, type) = OpsAs(t, type)
         /\ DistinctOps(s, type) <=>
              /\ DistinctOps(t, type)
              /\ s[i].type = type => s[i].op \notin OpsAs(t, type)
  <1>1. s[i].type = type => OpsAs(s, type) = OpsAs(t, type) \cup {s[i].op}
    BY DEF Dropped, OpsAs
  <1>2. s[i].type # type => OpsAs(s, type) = OpsAs(t, type)
    BY DEF Dropped, OpsAs
  <1>3. ASSUME DistinctOps(s, type)
        PROVE  DistinctOps(t, type) /\ (s[i].type = type => s[i].op \notin OpsAs(t, type))
    BY <1>3 DEF Dropped, OpsAs, DistinctOps
  <1>4. ASSUME DistinctOps(t, type), s[i].type = type => s[i].op \notin OpsAs(t, type)
        PROVE  DistinctOps(s, type)
    BY <1>4 DEF Dropped, OpsAs, DistinctOps
  <1> QED
    BY <1>1, <1>2, <1>3, <1>4

\* The same, for the descriptors of the answers.
LEMMA DroppedFds ==
  ASSUME NEW s, NEW t, NEW i, Dropped(s, t, i)
  PROVE  /\ FdsOf(s) = FdsOf(t) \cup ({s[i].fd} \ {NoFd})
         /\ DistinctFds(s) <=>
              /\ DistinctFds(t)
              /\ s[i].fd # NoFd => s[i].fd \notin FdsOf(t)
  <1>1. FdsOf(s) = FdsOf(t) \cup ({s[i].fd} \ {NoFd})
    BY DEF Dropped, FdsOf
  <1>3. ASSUME DistinctFds(s)
        PROVE  DistinctFds(t) /\ (s[i].fd # NoFd => s[i].fd \notin FdsOf(t))
    BY <1>3 DEF Dropped, FdsOf, DistinctFds
  <1>4. ASSUME DistinctFds(t), s[i].fd # NoFd => s[i].fd \notin FdsOf(t)
        PROVE  DistinctFds(s)
    BY <1>4 DEF Dropped, FdsOf, DistinctFds
  <1> QED
    BY <1>1, <1>3, <1>4

\* The same, for the descriptors of the elements of one type.
LEMMA DroppedFdsAs ==
  ASSUME NEW s, NEW t, NEW i, Dropped(s, t, i), NEW type
  PROVE  /\ s[i].type = type => FdsAs(s, type) = FdsAs(t, type) \cup {s[i].fd}
         /\ s[i].type # type => FdsAs(s, type) = FdsAs(t, type)
         /\ DistinctFdsAs(s, type) <=>
              /\ DistinctFdsAs(t, type)
              /\ s[i].type = type => s[i].fd \notin FdsAs(t, type)
  <1>1. s[i].type = type => FdsAs(s, type) = FdsAs(t, type) \cup {s[i].fd}
    BY DEF Dropped, FdsAs
  <1>2. s[i].type # type => FdsAs(s, type) = FdsAs(t, type)
    BY DEF Dropped, FdsAs
  <1>3. ASSUME DistinctFdsAs(s, type)
        PROVE  DistinctFdsAs(t, type) /\ (s[i].type = type => s[i].fd \notin FdsAs(t, type))
    BY <1>3 DEF Dropped, FdsAs, DistinctFdsAs
  <1>4. ASSUME DistinctFdsAs(t, type), s[i].type = type => s[i].fd \notin FdsAs(t, type)
        PROVE  DistinctFdsAs(s, type)
    BY <1>4 DEF Dropped, FdsAs, DistinctFdsAs
  <1> QED
    BY <1>1, <1>2, <1>3, <1>4

-----------------------------------------------------------------------------
(* The state.                                                              *)

\* Op ids are positions in req.
LEMMA ReqIs ==
  ASSUME ClientOk
  PROVE  /\ DOMAIN req = 1 .. Len(req) /\ Len(req) \in Nat /\ DOMAIN req \subseteq Ops
         /\ \A o \in DOMAIN req : req[o] \in Reqs
  <1>1. req \in Seq(Reqs)
    BY DEF ClientOk
  <1>2. /\ DOMAIN req = 1 .. Len(req) /\ Len(req) \in Nat
        /\ \A o \in DOMAIN req : req[o] \in Reqs
    BY ONLY <1>1, SeqIs
  <1> QED
    BY <1>2, BoundsAssumption DEF ClientOk, Ops

\* An op that is somewhere was submitted and is not settled.
LEMMA OutIs ==
  ASSUME Placed, NEW o \in InRx \cup AtHelper \cup InBack \cup InQueue \cup AtKernel \cup Waiting
  PROVE  o \in DOMAIN req /\ result[o] = "none"
  BY DEF Placed

\* A job is well typed, and its op is where the job is.
LEMMA JobIs ==
  ASSUME QueueOk, KernelOk, NEW job \in Jobs
  PROVE  job \in Job /\ job.op \in InQueue \cup AtKernel
  <1>1. CASE job \in Range(queue)
    <2>1. PICK i \in DOMAIN queue : job = queue[i]
      BY <1>1 DEF Range
    <2>2. queue \in Seq(Job)
      BY DEF QueueOk
    <2>3. queue[i] \in Job
      BY ONLY <2>1, <2>2, SeqIs
    <2> QED
      BY <2>1, <2>3 DEF InQueue, OpsOf
  <1>2. CASE job \in {e.job : e \in inflight}
    BY <1>2 DEF KernelOk, Requests, AtKernel
  <1> QED
    BY <1>1, <1>2 DEF Jobs

\* No two jobs do the same op.
LEMMA JobsOnce ==
  ASSUME QueueOk, KernelOk, Apart, NEW j \in Jobs, NEW k \in Jobs, j.op = k.op
  PROVE  j = k
  <1>1. \A x \in Range(queue) : x.op \in InQueue
    BY DEF Range, InQueue, OpsOf
  <1>2. \A x \in {e.job : e \in inflight} : x.op \in AtKernel
    BY DEF AtKernel
  <1>3. InQueue \cap AtKernel = {}
    BY DEF Apart
  <1>4. CASE j \in Range(queue) /\ k \in Range(queue)
    BY <1>4 DEF QueueOk, Distinct, Range
  <1>5. CASE j \in {e.job : e \in inflight} /\ k \in {e.job : e \in inflight}
    BY <1>5 DEF KernelOk
  <1> QED
    BY <1>1, <1>2, <1>3, <1>4, <1>5 DEF Jobs

\* It holds when the driver starts.
LEMMA InitIInv == Init => IInv
  <1> SUFFICES ASSUME Init PROVE IInv
    OBVIOUS
  <1> USE BoundsAssumption
  <1>e. /\ DOMAIN <<>> = {} /\ Len(<<>>) = 0
        /\ \A S : <<>> \in Seq(S)
    OBVIOUS
  <1>0. /\ InRx = {} /\ AtHelper = {} /\ InBack = {} /\ InQueue = {} /\ AtKernel = {}
        /\ Waiting = {} /\ HandleFds = {} /\ HelperFds = {} /\ BackFds = {} /\ Jobs = {}
        /\ DOMAIN files = {} /\ DOMAIN req = {} /\ DOMAIN open = {}
    BY <1>e DEF Init, InRx, AtHelper, InBack, InQueue, AtKernel, Waiting, HandleFds, HelperFds,
                BackFds, Jobs, OpsAs, OpsOf, FdsAs, FdsOf, Range
  <1>j. JobsOn(NoHandle) = {} /\ JobFds = {}
    BY <1>0 DEF JobsOn, JobFds
  <1>1. ClientOk
    <2>1. req \in Seq(Reqs)
      BY <1>e DEF Init
    <2>2. Len(req) <= NOps /\ cancelReq \subseteq DOMAIN req
      BY <1>e DEF Init
    <2>3. submittersGone \in BOOLEAN /\ disconnected \in BOOLEAN
      BY DEF Init
    <2> QED
      BY <2>1, <2>2, <2>3 DEF ClientOk
  <1>2. RxOk
    <2>1. rx \in Seq(Msgs)
      BY <1>e DEF Init
    <2> QED
      BY <2>1, <1>0, <1>e DEF Init, RxOk, InOrder
  <1>3. PcOk
    BY DEF Init, PcOk, Phases, At
  <1>4. TableOk
    BY <1>0 DEF Init, TableOk
  <1>5. QueueOk
    <2>1. queue \in Seq(Job)
      BY <1>e DEF Init
    <2> QED
      BY <2>1, <1>e DEF Init, QueueOk, Distinct, CancelledNotResubmitted
  <1>6. KernelOk
    BY DEF Init, KernelOk
  <1>7. MarksOk
    BY <1>0 DEF Init, MarksOk
  <1>8. HelperOk
    <2>1. helperQ \in Seq(HelperJobs)
      BY <1>e DEF Init
    <2> QED
      BY <2>1, <1>e DEF Init, HelperOk, DistinctOps, DistinctFdsAs
  <1>9. BackOk
    <2>1. back \in Seq(Answers)
      BY <1>e DEF Init
    <2> QED
      BY <2>1, <1>e DEF Init, BackOk, Distinct, DistinctFds
  <1>10. ResultOk
    BY <1>0 DEF Init, ResultOk, Results, BadOnlyAfterClose
  <1>11. Apart /\ Placed
    BY <1>0 DEF Apart, Placed
  <1>12. JobsKept
    BY <1>0, FS_EmptySet DEF JobsKept, OpsCountsJobs
  <1>13. Refused
    BY <1>0 DEF Init, Refused
  <1>14. FdsApart /\ FdsFew
    BY <1>0, <1>j DEF FdsApart, FdsFew
  <1>15. FdsOpen
    BY <1>0, <1>j, <1>e DEF Init, FdsOpen
  <1> QED
    BY <1>1, <1>2, <1>3, <1>4, <1>5, <1>6, <1>7, <1>8, <1>9, <1>10, <1>11, <1>12,
       <1>13, <1>14, <1>15 DEF IInv

-----------------------------------------------------------------------------
(* Steps that leave every op where it is: the driver moves on, or a        *)
(* submitter asks for a cancel or drops its Driver.                        *)

\* A step that touches neither jobs, tables nor results keeps it.
LEMMA QuietIInv ==
  ASSUME IInv, ClientOk', RxOk', PcOk', InRx' = InRx, cancelReq \subseteq cancelReq',
         UNCHANGED <<req, files, next_id, queue, inflight, pending_opens, helperQ,
                     back, open, result>>,
         cancelled_opens \subseteq cancelled_opens',
         cancelled_opens' \subseteq pending_opens \cap cancelReq'
  PROVE  IInv'
  <1> USE DEF IInv
  <1>0. /\ AtHelper' = AtHelper /\ InBack' = InBack /\ InQueue' = InQueue
        /\ AtKernel' = AtKernel /\ Waiting' = Waiting /\ Jobs' = Jobs
        /\ HandleFds' = HandleFds /\ HelperFds' = HelperFds /\ BackFds' = BackFds
    BY DEF AtHelper, InBack, InQueue, AtKernel, Waiting, Jobs, HandleFds, HelperFds, BackFds
  <1>1. \A h : JobsOn(h)' = JobsOn(h)
    BY <1>0 DEF JobsOn
  <1>2. JobFds' = JobFds
    BY <1>1 DEF JobFds
  <1>3. TableOk' /\ QueueOk' /\ KernelOk' /\ HelperOk' /\ BackOk'
    BY DEF TableOk, QueueOk, KernelOk, HelperOk, BackOk, CancelledNotResubmitted
  <1>4. MarksOk'
    BY <1>0 DEF MarksOk
  <1>5. ResultOk'
    BY DEF ResultOk, BadOnlyAfterClose
  <1>6. Apart' /\ Placed'
    BY <1>0 DEF Apart, Placed
  <1>7. JobsKept'
    BY <1>0, <1>1 DEF JobsKept, OpsCountsJobs
  <1>8. Refused'
    BY DEF Refused, Usable
  <1>9. FdsApart' /\ FdsOpen' /\ FdsFew'
    BY <1>0, <1>1, <1>2 DEF FdsApart, FdsOpen, FdsFew
  <1> QED
    BY <1>3, <1>4, <1>5, <1>6, <1>7, <1>8, <1>9

\* A message put into the channel.
LEMMA RxAppended ==
  ASSUME rx \in Seq(Msgs), NEW m \in Msgs, rx' = Append(rx, m)
  PROVE  /\ rx' \in Seq(Msgs)
         /\ m.type = "Submit" => InRx' = InRx \cup {m.op}
         /\ m.type # "Submit" => InRx' = InRx
         /\ \A i \in DOMAIN rx' : (i \in DOMAIN rx /\ rx'[i] = rx[i]) \/ rx'[i] = m
         /\ InOrder(rx) /\ (m.type = "Submit" => \A o \in InRx : o < m.op) => InOrder(rx')
  <1>n. PICK n : n = Len(rx) + 1
    OBVIOUS
  <1>1. /\ rx' \in Seq(Msgs) /\ Dropped(rx', rx, n) /\ rx'[n] = m
    BY <1>n, AppendAdds
  <1>2. /\ m.type = "Submit" => InRx' = InRx \cup {m.op}
        /\ m.type # "Submit" => InRx' = InRx
    <2>1. Dropped(rx', rx, n) /\ rx'[n] = m
      BY <1>1
    <2> QED
      BY ONLY <2>1, DroppedAs DEF InRx
  <1>3. /\ DOMAIN rx' = 1 .. n /\ DOMAIN rx = 1 .. Len(rx) /\ Len(rx) \in Nat
        /\ \A i \in DOMAIN rx : rx'[i] = rx[i]
    BY <1>n
  <1>4. \A i \in DOMAIN rx' : (i \in DOMAIN rx /\ rx'[i] = rx[i]) \/ rx'[i] = m
    BY <1>1, <1>3, <1>n
  <1>5. ASSUME InOrder(rx), m.type = "Submit" => \A o \in InRx : o < m.op
        PROVE  InOrder(rx')
    <2>1. SUFFICES ASSUME NEW i \in DOMAIN rx', NEW j \in DOMAIN rx', i < j,
                          rx'[i].type = "Submit", rx'[j].type = "Submit"
                   PROVE  rx'[i].op < rx'[j].op
      BY DEF InOrder
    <2>2. i \in DOMAIN rx /\ rx'[i] = rx[i]
      BY <2>1, <1>3, <1>n
    <2>3. CASE j \in DOMAIN rx
      BY <2>1, <2>2, <2>3, <1>3, <1>5 DEF InOrder
    <2>4. CASE j \notin DOMAIN rx
      <3>1. rx'[j] = m
        BY <2>4, <1>4
      <3>2. rx[i].op \in InRx
        BY <2>1, <2>2 DEF InRx, OpsAs
      <3> QED
        BY <3>1, <3>2, <2>1, <2>2, <1>5
    <2> QED
      BY <2>3, <2>4
  <1> QED
    BY <1>1, <1>2, <1>4, <1>5

\* Driver::submit keeps it.
LEMMA SubmitIInv ==
  ASSUME IInv, NEW kind \in Kinds, NEW h \in Handles \cup {NoHandle}, Submit(kind, h)
  PROVE  IInv'
  <1> USE DEF IInv
  <1> DEFINE n == Len(req) + 1
             q == [kind |-> kind, handle |-> h]
             m == [type |-> "Submit", op |-> n]
  <1>1. /\ DOMAIN req = 1 .. Len(req) /\ Len(req) \in Nat /\ DOMAIN req \subseteq Ops
        /\ \A o \in DOMAIN req : req[o] \in Reqs
    BY ReqIs
  <1>2. n \in Ops /\ n \notin DOMAIN req
    BY <1>1, BoundsAssumption DEF Submit, Ops
  <1>3. /\ q \in Reqs /\ m \in Msgs /\ q.kind = kind /\ q.handle = h
        /\ m.type = "Submit" /\ m.op = n
    BY <1>2, BoundsAssumption DEF Reqs, Msgs
  <1>4. /\ req' = Append(req, q) /\ rx' = Append(rx, m)
        /\ ~submittersGone
        /\ kind \in HandleKinds => h \in 1 .. next_id - 1
        /\ UNCHANGED <<submittersGone, cancelReq, pc, disconnected, files, next_id,
                       queue, inflight, pending_opens, cancelled_opens, helperQ, back, open, result>>
    BY DEF Submit, openVars
  <1>5. Len(req) < NOps
    BY DEF Submit
  <1>6. /\ req' \in Seq(Reqs) /\ Len(req') = n
        /\ DOMAIN req' = DOMAIN req \cup {n} /\ req'[n] = q
        /\ \A o \in DOMAIN req : req'[o] = req[o]
    <2>1. req \in Seq(Reqs)
      BY DEF ClientOk
    <2> HIDE DEF q
    <2>2. /\ req' \in Seq(Reqs) /\ Len(req') = n /\ DOMAIN req' = 1 .. n
          /\ req'[n] = q /\ \A o \in DOMAIN req : req'[o] = req[o]
      BY <1>4, <2>1, <1>1, <1>3
    <2> QED
      BY <2>2, <1>1
  <1> HIDE DEF q, m
  <1>7. /\ rx' \in Seq(Msgs) /\ InRx' = InRx \cup {n}
        /\ \A i \in DOMAIN rx' : (i \in DOMAIN rx /\ rx'[i] = rx[i]) \/ rx'[i] = m
        /\ InOrder(rx) /\ (\A o \in InRx : o < n) => InOrder(rx')
    <2>1. rx \in Seq(Msgs)
      BY DEF RxOk
    <2> QED
      BY ONLY <2>1, <1>3, <1>4, RxAppended, Zenon
  <1>8. InRx \subseteq DOMAIN req
    BY OutIs
  <1>9. \A o \in DOMAIN req : o < n
    BY <1>1
  <1>q. q = [kind |-> kind, handle |-> h]
    BY DEF q
  <1> HIDE DEF n
  <1>10. /\ AtHelper' = AtHelper /\ InBack' = InBack /\ InQueue' = InQueue
         /\ AtKernel' = AtKernel /\ Waiting' = Waiting /\ Jobs' = Jobs
         /\ HandleFds' = HandleFds /\ HelperFds' = HelperFds /\ BackFds' = BackFds
    BY <1>4 DEF AtHelper, InBack, InQueue, AtKernel, Waiting, Jobs, HandleFds, HelperFds, BackFds
  <1>11. \A g : JobsOn(g)' = JobsOn(g)
    BY <1>10 DEF JobsOn
  <1>12. JobFds' = JobFds
    BY <1>11 DEF JobFds
  <1>c. ClientOk'
    <2>1. Len(req') <= NOps
      BY <1>5, <1>6, <1>1, BoundsAssumption DEF n
    <2> QED
      BY <2>1, <1>4, <1>6 DEF ClientOk
  <1>r. RxOk'
    <2>1. InOrder(rx')
      BY <1>7, <1>8, <1>9 DEF RxOk
    <2>2. \A i \in DOMAIN rx' : rx'[i].op \in DOMAIN req'
      BY <1>7, <1>6, <1>3 DEF RxOk
    <2>3. \A i \in DOMAIN rx' : rx'[i].type = "Cancel" => rx'[i].op \in cancelReq'
      BY <1>7, <1>3, <1>4 DEF RxOk
    <2>4. \A o \in DOMAIN req' \ InRx', p \in InRx' : o < p
      BY <1>6, <1>7, <1>9 DEF RxOk
    <2>5. ~disconnected
      BY <1>4 DEF RxOk
    <2> QED
      BY <1>7, <2>1, <2>2, <2>3, <2>4, <2>5, <1>4 DEF RxOk
  <1>13. PcOk'
    BY <1>4 DEF PcOk, At, Idle
  <1>14. TableOk' /\ QueueOk' /\ KernelOk' /\ HelperOk' /\ BackOk'
    BY <1>4 DEF TableOk, QueueOk, KernelOk, HelperOk, BackOk, CancelledNotResubmitted
  <1>15. MarksOk'
    BY <1>4, <1>10 DEF MarksOk
  <1>16. result[n] = "none"
    BY <1>2 DEF ResultOk
  <1>17. ResultOk'
    <2>1. BadOnlyAfterClose'
      <3> SUFFICES ASSUME NEW o \in DOMAIN req', result'[o] = "bad"
                   PROVE  \E c \in 1 .. o - 1 :
                            req'[c] = [kind |-> "Close", handle |-> req'[o].handle]
        BY DEF BadOnlyAfterClose
      <3>1. o \in DOMAIN req /\ result[o] = "bad"
        BY <1>4, <1>6, <1>16
      <3>2. PICK c \in 1 .. o - 1 : req[c] = [kind |-> "Close", handle |-> req[o].handle]
        BY <3>1 DEF ResultOk, BadOnlyAfterClose
      <3>3. c \in DOMAIN req
        BY <3>1, <3>2, <1>1
      <3> QED
        BY <3>1, <3>2, <3>3, <1>6
    <2> QED
      BY <2>1, <1>4, <1>6 DEF ResultOk
  <1>18. Apart'
    BY <1>10, <1>7, <1>2, OutIs DEF Apart
  <1>19. Placed'
    BY <1>10, <1>7, <1>6, <1>4, <1>16 DEF Placed
  <1>20. JobsKept'
    BY <1>4, <1>10, <1>11 DEF JobsKept, OpsCountsJobs
  <1>21. Refused'
    <2>1. \A o \in DOMAIN req' :
            req'[o].kind \in HandleKinds => req'[o].handle \in 1 .. next_id' - 1
      BY <1>3, <1>4, <1>6 DEF Refused
    <2>2. ASSUME NEW g \in 1 .. next_id' - 1, ~Usable(g)'
          PROVE  \E c \in DOMAIN req' \ InRx' : req'[c] = [kind |-> "Close", handle |-> g]
      <3>1. PICK c \in DOMAIN req \ InRx : req[c] = [kind |-> "Close", handle |-> g]
        BY <2>2, <1>4 DEF Refused, Usable
      <3> QED
        BY <3>1, <1>2, <1>6, <1>7
    <2> QED
      BY <2>1, <2>2 DEF Refused
  <1>22. FdsApart' /\ FdsOpen'
    BY <1>4, <1>10, <1>11, <1>12 DEF FdsApart, FdsOpen
  <1>23. FdsFew'
    BY <1>4, <1>10, <1>6, <1>7, <1>2 DEF FdsFew
  <1> QED
    BY <1>c, <1>r, <1>13, <1>14, <1>15, <1>17, <1>18, <1>19, <1>20, <1>21, <1>22, <1>23

-----------------------------------------------------------------------------
(* What the driver takes from its channels.                                *)

\* The head of the channel leaves it: a submission is the oldest one, a
\* cancel was asked for.
LEMMA RxTaken ==
  ASSUME IInv, rx # <<>>, rx' = Tail(rx), UNCHANGED <<clientVars, disconnected>>
  PROVE  /\ Head(rx) \in Msgs /\ Head(rx).op \in DOMAIN req /\ RxOk' /\ ClientOk'
         /\ Head(rx).type = "Submit" =>
              Head(rx).op \in InRx /\ InRx' = InRx \ {Head(rx).op}
         /\ Head(rx).type = "Cancel" => Head(rx).op \in cancelReq /\ InRx' = InRx
  <1> USE DEF IInv, clientVars
  <1>0. rx \in Seq(Msgs) /\ InOrder(rx)
    BY DEF RxOk
  <1>1. /\ Tail(rx) \in Seq(Msgs) /\ Head(rx) = rx[1]
        /\ DOMAIN rx = 1 .. Len(rx) /\ Len(rx) \in Nat \ {0}
        /\ DOMAIN Tail(rx) = 1 .. Len(rx) - 1
        /\ \A i \in DOMAIN Tail(rx) : Tail(rx)[i] = rx[i + 1]
    BY <1>0
  <1>2. PICK m : m = Head(rx)
    OBVIOUS
  <1>3. m = rx[1] /\ 1 \in DOMAIN rx /\ m \in Msgs
    BY <1>0, <1>1, <1>2
  <1>4. /\ rx' \in Seq(Msgs)
        /\ \A i \in DOMAIN rx' : i + 1 \in DOMAIN rx /\ rx'[i] = rx[i + 1]
    BY <1>1
  <1>5. m.op \in DOMAIN req /\ (m.type = "Cancel" => m.op \in cancelReq)
    BY <1>3 DEF RxOk
  <1>6. /\ m.type = "Submit" => InRx = InRx' \cup {m.op}
        /\ m.type # "Submit" => InRx = InRx'
    <2>1. Dropped(rx, rx', 1)
      BY <1>0, TailDrops
    <2> QED
      BY ONLY <2>1, <1>3, DroppedAs DEF InRx
  <1>7. \A i \in DOMAIN rx' : i \in Nat /\ i > 0
    BY <1>1
  <1>8. m.type = "Submit" => \A p \in InRx' : m.op < p
    <2> SUFFICES ASSUME m.type = "Submit", NEW p \in InRx' PROVE m.op < p
      OBVIOUS
    <2>1. PICK i \in DOMAIN rx' : rx'[i].type = "Submit" /\ rx'[i].op = p
      BY DEF InRx, OpsAs
    <2>2. i + 1 \in DOMAIN rx /\ rx[i + 1] = rx'[i] /\ 1 < i + 1
      BY <2>1, <1>4, <1>7
    <2> QED
      BY <2>1, <2>2, <1>0, <1>3 DEF InOrder
  <1>9. m.op \in Ops
    BY <1>3 DEF Msgs
  <1>10. m.type = "Submit" => m.op \notin InRx'
    BY <1>8, <1>9 DEF Ops
  <1>11. InOrder(rx')
    BY <1>0, <1>4, <1>7 DEF InOrder
  <1>12. \A o \in DOMAIN req' \ InRx', p \in InRx' : o < p
    <2> SUFFICES ASSUME NEW o \in DOMAIN req \ InRx', NEW p \in InRx' PROVE o < p
      OBVIOUS
    <2>1. CASE o \in InRx
      <3>1. o = m.op /\ m.type = "Submit"
        BY <2>1, <1>6
      <3> QED
        BY <3>1, <1>8
    <2>2. CASE o \notin InRx
      <3>1. p \in InRx
        BY <1>6
      <3> QED
        BY <2>2, <3>1 DEF RxOk
    <2> QED
      BY <2>1, <2>2
  <1>13. \A i \in DOMAIN rx' : rx'[i].op \in DOMAIN req'
    BY <1>4 DEF RxOk
  <1>14. \A i \in DOMAIN rx' : rx'[i].type = "Cancel" => rx'[i].op \in cancelReq'
    BY <1>4 DEF RxOk
  <1>15. ~disconnected
    BY DEF RxOk
  <1>16. RxOk'
    BY <1>4, <1>11, <1>12, <1>13, <1>14, <1>15 DEF RxOk
  <1>17. ClientOk'
    BY DEF ClientOk
  <1>18. m.type = "Submit" => m.op \in InRx
    BY <1>3 DEF InRx, OpsAs
  <1>19. m.type = "Cancel" => m.type # "Submit"
    OBVIOUS
  <1> QED
    BY <1>2, <1>3, <1>5, <1>6, <1>10, <1>16, <1>17, <1>18, <1>19

\* The head of what the helpers sent back leaves that channel.
LEMMA BackTaken ==
  ASSUME IInv, back # <<>>, back' = Tail(back)
  PROVE  /\ Head(back) \in Answers /\ BackOk'
         /\ Head(back).op \in InBack /\ InBack' = InBack \ {Head(back).op}
         /\ BackFds' = BackFds \ {Head(back).fd}
         /\ Head(back).fd # NoFd =>
              Head(back).fd \in BackFds /\ open[Head(back).fd] = Head(back).op
         /\ \A i \in DOMAIN back' : \E j \in DOMAIN back : back'[i] = back[j]
  <1> USE DEF IInv
  <1>0. back \in Seq(Answers) /\ Distinct(back) /\ DistinctFds(back)
    BY DEF BackOk
  <1>1. PICK a : a = Head(back)
    OBVIOUS
  <1>2. back' \in Seq(Answers) /\ Dropped(back, back', 1) /\ a = back[1]
    BY <1>0, <1>1, TailDrops
  <1>3. 1 \in DOMAIN back /\ a \in Answers
    BY <1>0, <1>2 DEF Dropped
  <1>4. Dropped(back, back', 1) /\ a = back[1]
    BY <1>2
  <1>5. /\ InBack = InBack' \cup {a.op} /\ a.op \notin InBack' /\ Distinct(back')
    BY ONLY <1>4, <1>0, DroppedOps DEF InBack
  <1>6. /\ BackFds = BackFds' \cup ({a.fd} \ {NoFd}) /\ DistinctFds(back')
        /\ a.fd # NoFd => a.fd \notin BackFds'
    BY ONLY <1>4, <1>0, DroppedFds DEF BackFds
  <1>7. NoFd \notin BackFds'
    BY DEF BackFds, FdsOf
  <1>8. a.fd # NoFd => open[a.fd] = a.op
    BY <1>2, <1>3 DEF FdsOpen
  <1>9. \A i \in DOMAIN back' : \E j \in DOMAIN back : back'[i] = back[j]
    BY <1>4 DEF Dropped
  <1>10. BackOk'
    BY <1>2, <1>5, <1>6 DEF BackOk
  <1> QED
    BY <1>1, <1>3, <1>5, <1>6, <1>7, <1>8, <1>9, <1>10

-----------------------------------------------------------------------------
(* What the driver does with an op it took.                                *)

\* o has left the channel it was in.
Taken(o) ==
  /\ o \in InRx \cup InBack
  /\ InRx' = InRx \ {o} /\ InBack' = InBack \ {o}
  /\ RxOk' /\ ClientOk' /\ BackOk'
  /\ UNCHANGED <<req, cancelReq>>

\* The descriptors X are o's, and nobody else's.
Held(o, X) ==
  /\ X \subseteq Fds
  /\ X \cap (HandleFds \cup JobFds \cup HelperFds) = {}
  /\ BackFds' \cap (HandleFds \cup JobFds \cup HelperFds \cup X) = {}
  /\ DOMAIN open' = HandleFds \cup JobFds \cup HelperFds \cup BackFds' \cup X
  /\ \A fd \in DOMAIN open' : IF fd \in X THEN open'[fd] = o ELSE open'[fd] = open[fd]
  /\ \A i \in DOMAIN back' : back'[i].fd # NoFd => open'[back'[i].fd] = back'[i].op
  /\ \A f, g \in DOMAIN open' : open'[f] = open'[g] => f = g
  /\ \A fd \in DOMAIN open' : open'[fd] \in DOMAIN req \ (InRx' \cup AtHelper)

\* It is no longer out at a helper.
Unmarked(o) ==
  /\ pending_opens' = pending_opens \ {o}
  /\ cancelled_opens' = cancelled_opens \ {o}

\* The op settles, "bad" only after a Close of its handle.
LEMMA Settled ==
  ASSUME IInv, NEW o \in DOMAIN req, NEW r \in Results \ {"none"}, Settle(o, r), req' = req,
         r = "bad" => \E c \in 1 .. o - 1 :
                        req[c] = [kind |-> "Close", handle |-> req[o].handle]
  PROVE  /\ ResultOk'
         /\ {p \in DOMAIN req' : result'[p] = "none"} =
              {p \in DOMAIN req : result[p] = "none"} \ {o}
  <1> USE DEF IInv
  <1>1. DOMAIN req \subseteq Ops
    BY ReqIs
  <1>2. result \in [Ops -> Results]
    BY DEF ResultOk
  <1>3. /\ \A p \in Ops : result'[p] = IF p = o THEN r ELSE result[p]
        /\ result' \in [Ops -> Results]
    BY <1>1, <1>2 DEF Settle
  <1>4. \A p \in Ops \ DOMAIN req' : result'[p] = "none"
    BY <1>3 DEF ResultOk
  <1>5. BadOnlyAfterClose'
    <2> SUFFICES ASSUME NEW p \in DOMAIN req, result'[p] = "bad"
                 PROVE  \E c \in 1 .. p - 1 :
                          req[c] = [kind |-> "Close", handle |-> req[p].handle]
      BY DEF BadOnlyAfterClose
    <2>1. CASE p = o
      BY <2>1, <1>1, <1>3
    <2>2. CASE p # o
      BY <2>2, <1>1, <1>3 DEF ResultOk, BadOnlyAfterClose
    <2> QED
      BY <2>1, <2>2
  <1> QED
    BY <1>1, <1>3, <1>4, <1>5 DEF ResultOk

\* An op just taken from a channel is in no other place and not settled.
LEMMA TakenIs ==
  ASSUME IInv, NEW o, Taken(o)
  PROVE  /\ o \in DOMAIN req /\ o \in Ops /\ result[o] = "none"
         /\ o \notin AtHelper \cup InQueue \cup AtKernel \cup Waiting
         /\ ~(o \in InRx /\ o \in InBack)
  <1>1. DOMAIN req \subseteq Ops
    BY ReqIs DEF IInv
  <1> QED
    BY <1>1, OutIs DEF IInv, Taken, Apart

\* An op that is answered on the spot.
LEMMA SettledIInv ==
  ASSUME IInv, NEW o, Taken(o), Held(o, {}), Unmarked(o), PcOk',
         NEW r \in Results \ {"none"}, Settle(o, r),
         r = "bad" =>
           o \in InRx /\ req[o].kind \in HandleKinds /\ ~Usable(req[o].handle),
         UNCHANGED <<files, next_id, queue, inflight, helperQ>>
  PROVE  IInv'
  <1> USE DEF IInv
  <1>0. /\ InRx' = InRx \ {o} /\ InBack' = InBack \ {o} /\ o \in InRx \cup InBack
        /\ RxOk' /\ ClientOk' /\ BackOk' /\ req' = req /\ cancelReq' = cancelReq
    BY DEF Taken
  <1>1. /\ o \in DOMAIN req /\ o \in Ops /\ result[o] = "none"
        /\ o \notin AtHelper \cup InQueue \cup AtKernel \cup Waiting
    BY TakenIs
  <1>2. /\ AtHelper' = AtHelper /\ InQueue' = InQueue /\ AtKernel' = AtKernel
        /\ Waiting' = Waiting /\ Jobs' = Jobs
        /\ HandleFds' = HandleFds /\ HelperFds' = HelperFds
    BY DEF AtHelper, InQueue, AtKernel, Waiting, Jobs, HandleFds, HelperFds
  <1>3. \A h : JobsOn(h)' = JobsOn(h)
    BY <1>2 DEF JobsOn
  <1>4. JobFds' = JobFds
    BY <1>3 DEF JobFds
  <1>5. r = "bad" => \E c \in 1 .. o - 1 :
                       req[c] = [kind |-> "Close", handle |-> req[o].handle]
    <2> SUFFICES ASSUME r = "bad"
                 PROVE  \E c \in 1 .. o - 1 :
                          req[c] = [kind |-> "Close", handle |-> req[o].handle]
      OBVIOUS
    <2>1. PICK c \in DOMAIN req \ InRx : req[c] = [kind |-> "Close", handle |-> req[o].handle]
      BY <1>1 DEF Refused
    <2>2. c < o /\ c \in 1 .. Len(req) /\ o \in 1 .. Len(req) /\ Len(req) \in Nat
      BY <1>1, <2>1, ReqIs DEF RxOk
    <2> QED
      BY <2>1, <2>2
  <1>6. /\ ResultOk'
        /\ {p \in DOMAIN req' : result'[p] = "none"} =
             {p \in DOMAIN req : result[p] = "none"} \ {o}
    BY <1>0, <1>1, <1>5, Settled
  <1>7. TableOk' /\ QueueOk' /\ KernelOk' /\ HelperOk'
    BY <1>0 DEF TableOk, QueueOk, KernelOk, HelperOk, CancelledNotResubmitted
  <1>8. MarksOk'
    BY <1>0, <1>1, <1>2 DEF MarksOk, Unmarked
  <1>9. Apart'
    BY <1>0, <1>2 DEF Apart
  <1>10. Placed'
    BY <1>0, <1>1, <1>2, <1>6 DEF Placed
  <1>11. JobsKept'
    BY <1>2, <1>3 DEF JobsKept, OpsCountsJobs
  <1>12. Refused'
    BY <1>0 DEF Refused, Usable
  <1>13. FdsApart'
    BY <1>2, <1>3, <1>4 DEF FdsApart, Held
  <1>14. FdsOpen'
    <2>1. \A job \in JobsOn(NoHandle) : job.fd \in JobFds
      BY DEF JobFds
    <2> QED
      BY <1>2, <1>3, <1>4, <2>1 DEF FdsOpen, Held
  <1>15. FdsFew'
    BY <1>0, <1>2 DEF FdsFew, Held
  <1> QED
    BY <1>0, <1>6, <1>7, <1>8, <1>9, <1>10, <1>11, <1>12, <1>13, <1>14, <1>15

\* What EXCEPT does to a function.
LEMMA ExceptIs ==
  ASSUME NEW f, NEW x \in DOMAIN f, NEW v
  PROVE  /\ DOMAIN [f EXCEPT ![x] = v] = DOMAIN f
         /\ [f EXCEPT ![x] = v][x] = v
         /\ \A y \in DOMAIN f : y # x => [f EXCEPT ![x] = v][y] = f[y]
  OBVIOUS

\* An op whose descriptor becomes a handle.
LEMMA RegisterIInv ==
  ASSUME IInv, NEW o, NEW fd, NEW then, Taken(o), Held(o, {fd}), Unmarked(o), PcOk',
         Register(o, fd, then), UNCHANGED <<inflight, helperQ>>
  PROVE  IInv'
  <1> USE DEF IInv
  <1>0. /\ InRx' = InRx \ {o} /\ InBack' = InBack \ {o} /\ o \in InRx \cup InBack
        /\ RxOk' /\ ClientOk' /\ BackOk' /\ req' = req /\ cancelReq' = cancelReq
    BY DEF Taken
  <1>1. /\ o \in DOMAIN req /\ o \in Ops /\ result[o] = "none"
        /\ o \notin AtHelper \cup InQueue \cup AtKernel \cup Waiting
    BY TakenIs
  <1> DEFINE entry == [fd |-> fd, ops |-> 0, closing |-> {}]
  <1>2. /\ files' = Insert(files, next_id, entry) /\ next_id' = next_id + 1
        /\ Settle(o, "done") /\ queue' = queue
    BY DEF Register
  <1>3. fd \in Fds /\ fd \notin HandleFds \cup JobFds \cup HelperFds
    BY DEF Held
  <1>4. entry \in Entries /\ entry.fd = fd /\ entry.ops = 0 /\ entry.closing = {}
    BY <1>3 DEF Entries
  <1> HIDE DEF entry
  <1>5. /\ DOMAIN files' = DOMAIN files \cup {next_id}
        /\ files'[next_id] = entry
        /\ \A h \in DOMAIN files : h # next_id => files'[h] = files[h]
    <2>1. files' = Insert(files, next_id, entry)
      BY <1>2
    <2> QED
      BY ONLY <2>1 DEF Insert
  <1>6. next_id \in Nat \ {0} /\ next_id \notin DOMAIN files /\ next_id # NoHandle
    BY DEF TableOk, NoHandle
  <1>7. \A h \in DOMAIN files : files'[h] = files[h]
    BY <1>5, <1>6
  <1>8. /\ AtHelper' = AtHelper /\ InQueue' = InQueue /\ AtKernel' = AtKernel
        /\ Jobs' = Jobs /\ HelperFds' = HelperFds
    BY <1>2 DEF AtHelper, InQueue, AtKernel, Jobs, HelperFds
  <1>9. Waiting' = Waiting
    BY <1>4, <1>5, <1>7 DEF Waiting
  <1>10. HandleFds' = HandleFds \cup {fd}
    BY <1>4, <1>5, <1>7 DEF HandleFds
  <1>11. \A h : JobsOn(h)' = JobsOn(h)
    BY <1>8 DEF JobsOn
  <1>12. JobFds' = JobFds
    BY <1>11 DEF JobFds
  <1>13. /\ ResultOk'
         /\ {p \in DOMAIN req' : result'[p] = "none"} =
              {p \in DOMAIN req : result[p] = "none"} \ {o}
    <2>1. "done" \in Results \ {"none"} /\ "done" # "bad"
      BY DEF Results
    <2> QED
      BY <1>0, <1>1, <1>2, <2>1, Settled
  <1>14. QueueOk' /\ KernelOk' /\ HelperOk'
    BY <1>0, <1>2 DEF QueueOk, KernelOk, HelperOk, CancelledNotResubmitted
  <1>15. TableOk'
    <2>1. next_id' \in Nat \ {0} /\ DOMAIN files' \subseteq 1 .. next_id' - 1
      BY <1>2, <1>5, <1>6 DEF TableOk
    <2>2. \A h \in DOMAIN files' : files'[h] \in Entries
      BY <1>4, <1>5, <1>7 DEF TableOk
    <2>3. \A g, h \in DOMAIN files' : \A p \in files'[g].closing : p \in files'[h].closing => g = h
      BY <1>4, <1>5, <1>7 DEF TableOk
    <2>4. \A g, h \in DOMAIN files' : files'[g].fd = files'[h].fd => g = h
      <3>1. \A h \in DOMAIN files : files[h].fd # fd
        BY <1>3 DEF HandleFds
      <3> QED
        BY <3>1, <1>4, <1>5, <1>7 DEF TableOk
    <2> QED
      BY <2>1, <2>2, <2>3, <2>4 DEF TableOk
  <1>16. MarksOk'
    BY <1>0, <1>1, <1>8 DEF MarksOk, Unmarked
  <1>17. Apart'
    BY <1>0, <1>8, <1>9 DEF Apart
  <1>18. Placed'
    BY <1>0, <1>1, <1>8, <1>9, <1>13 DEF Placed
  <1>19. JobsKept'
    <2>1. JobsOn(next_id) = {}
      BY <1>6 DEF JobsKept, JobsOn
    <2>2. Cardinality(JobsOn(next_id)) = 0
      BY <2>1, FS_EmptySet
    <2>3. OpsCountsJobs'
      BY <2>2, <1>4, <1>5, <1>7, <1>11 DEF JobsKept, OpsCountsJobs
    <2> QED
      BY <2>3, <1>5, <1>7, <1>8 DEF JobsKept
  <1>20. Refused'
    <2>1. \A p \in DOMAIN req : req[p].kind \in HandleKinds => req[p].handle \in 1 .. next_id' - 1
      BY <1>2, <1>6 DEF Refused
    <2>2. ASSUME NEW h \in 1 .. next_id' - 1, ~Usable(h)'
          PROVE  h \in 1 .. next_id - 1 /\ ~Usable(h)
      <3>1. h # next_id
        BY <2>2, <1>4, <1>5 DEF Usable
      <3>2. h \in 1 .. next_id - 1
        BY <3>1, <1>2, <1>6
      <3> QED
        BY <3>1, <3>2, <2>2, <1>5, <1>7 DEF Usable
    <2> QED
      BY <2>1, <2>2, <1>0 DEF Refused
  <1>21. FdsApart'
    BY <1>8, <1>10, <1>11, <1>12 DEF FdsApart, Held
  <1>22. FdsOpen'
    <2>1. ASSUME NEW job \in JobsOn(NoHandle) PROVE open'[job.fd] = job.op
      <3>1. job.fd \in JobFds
        BY DEF JobFds
      <3> QED
        BY <3>1, <1>3 DEF FdsOpen, Held
    <2>2. DOMAIN open' = HandleFds' \cup JobFds' \cup HelperFds' \cup BackFds'
      BY <1>8, <1>10, <1>12 DEF Held
    <2> QED
      BY <1>11, <2>1, <2>2 DEF FdsOpen, Held
  <1>23. FdsFew'
    BY <1>0, <1>8 DEF FdsFew, Held
  <1> QED
    BY <1>0, <1>13, <1>14, <1>15, <1>16, <1>17, <1>18, <1>19, <1>20, <1>21, <1>22, <1>23

\* The jobs on each handle when one comes or goes.
LEMMA JobsAdded ==
  ASSUME IsFiniteSet(Jobs), NEW job, job \notin Jobs, Jobs' = Jobs \cup {job}
  PROVE  /\ IsFiniteSet(Jobs')
         /\ JobsOn(job.handle)' = JobsOn(job.handle) \cup {job}
         /\ Cardinality(JobsOn(job.handle)') = Cardinality(JobsOn(job.handle)) + 1
         /\ Cardinality(JobsOn(job.handle)) \in Nat
         /\ \A g : g # job.handle => JobsOn(g)' = JobsOn(g)
  <1>1. IsFiniteSet(Jobs')
    BY FS_AddElement
  <1>2. JobsOn(job.handle)' = JobsOn(job.handle) \cup {job} /\ job \notin JobsOn(job.handle)
    BY DEF JobsOn
  <1>3. IsFiniteSet(JobsOn(job.handle))
    <2>1. JobsOn(job.handle) \subseteq Jobs
      BY DEF JobsOn
    <2> QED
      BY <2>1, FS_Subset
  <1>4. Cardinality(JobsOn(job.handle) \cup {job}) = Cardinality(JobsOn(job.handle)) + 1
    BY <1>2, <1>3, FS_AddElement
  <1>5. Cardinality(JobsOn(job.handle)) \in Nat
    BY <1>3, FS_CardinalityType
  <1>6. \A g : g # job.handle => JobsOn(g)' = JobsOn(g)
    BY DEF JobsOn
  <1> QED
    BY <1>1, <1>2, <1>4, <1>5, <1>6

\* Removing a job lowers the count on its handle by one.
LEMMA JobsRemoved ==
  ASSUME IsFiniteSet(Jobs), NEW job \in Jobs, Jobs' = Jobs \ {job}
  PROVE  /\ IsFiniteSet(Jobs')
         /\ JobsOn(job.handle)' = JobsOn(job.handle) \ {job}
         /\ job \in JobsOn(job.handle)
         /\ Cardinality(JobsOn(job.handle)') = Cardinality(JobsOn(job.handle)) - 1
         /\ Cardinality(JobsOn(job.handle)) \in Nat \ {0}
         /\ Cardinality(JobsOn(job.handle)) = 1 => JobsOn(job.handle)' = {}
         /\ \A g : g # job.handle => JobsOn(g)' = JobsOn(g)
  <1>1. IsFiniteSet(Jobs')
    BY FS_RemoveElement
  <1>2. JobsOn(job.handle)' = JobsOn(job.handle) \ {job} /\ job \in JobsOn(job.handle)
    BY DEF JobsOn
  <1>3. IsFiniteSet(JobsOn(job.handle))
    <2>1. JobsOn(job.handle) \subseteq Jobs
      BY DEF JobsOn
    <2> QED
      BY <2>1, FS_Subset
  <1>4. /\ IsFiniteSet(JobsOn(job.handle) \ {job})
        /\ Cardinality(JobsOn(job.handle) \ {job}) = Cardinality(JobsOn(job.handle)) - 1
    BY <1>2, <1>3, FS_RemoveElement
  <1>5. Cardinality(JobsOn(job.handle)) \in Nat \ {0}
    <2>1. Cardinality(JobsOn(job.handle)) \in Nat
      BY <1>3, FS_CardinalityType
    <2>2. Cardinality(JobsOn(job.handle)) # 0
      BY <1>2, <1>3, FS_EmptySet
    <2> QED
      BY <2>1, <2>2
  <1>6. \A g : g # job.handle => JobsOn(g)' = JobsOn(g)
    BY DEF JobsOn
  <1>7. Cardinality(JobsOn(job.handle)) = 1 => JobsOn(job.handle)' = {}
    <2> SUFFICES ASSUME Cardinality(JobsOn(job.handle)) = 1
                 PROVE  JobsOn(job.handle) \ {job} = {}
      BY <1>2
    <2>1. Cardinality(JobsOn(job.handle) \ {job}) = 0
      BY <1>4
    <2> QED
      BY <2>1, <1>4, FS_EmptySet
  <1> QED
    BY <1>1, <1>2, <1>4, <1>5, <1>6, <1>7

\* A job put at the end of the queue.
LEMMA QueueAppended ==
  ASSUME QueueOk, NEW job \in Job, ~job.cancelled, job.op \notin InQueue,
         queue' = Append(queue, job)
  PROVE  /\ QueueOk' /\ InQueue' = InQueue \cup {job.op}
         /\ Range(queue') = Range(queue) \cup {job}
  <1>1. PICK n : n = Len(queue) + 1
    OBVIOUS
  <1>2. queue \in Seq(Job) /\ Distinct(queue)
    BY DEF QueueOk
  <1>3. queue' \in Seq(Job) /\ Dropped(queue', queue, n) /\ queue'[n] = job
    BY <1>1, <1>2, AppendAdds
  <1>4. Dropped(queue', queue, n) /\ queue'[n] = job
    BY <1>3
  <1>5. /\ InQueue' = InQueue \cup {job.op} /\ Range(queue') = Range(queue) \cup {job}
        /\ Distinct(queue')
    BY ONLY <1>2, <1>4, DroppedOps, job.op \notin InQueue DEF InQueue
  <1>6. CancelledNotResubmitted'
    <2>1. \A x \in Range(queue) : ~x.cancelled
      BY DEF QueueOk, CancelledNotResubmitted, Range
    <2>2. \A x \in Range(queue') : ~x.cancelled
      BY <2>1, <1>5
    <2> QED
      BY <2>2 DEF CancelledNotResubmitted, Range
  <1> QED
    BY <1>3, <1>5, <1>6 DEF QueueOk

\* A new job is well typed.
LEMMA NewJobIs ==
  ASSUME NEW o \in Ops, NEW fd \in Fds, NEW h \in Handles \cup {NoHandle}
  PROVE  /\ NewJob(o, fd, h) \in Job
         /\ NewJob(o, fd, h).op = o /\ NewJob(o, fd, h).fd = fd
         /\ NewJob(o, fd, h).handle = h /\ ~NewJob(o, fd, h).cancelled
  BY BoundsAssumption DEF NewJob, Job

\* An op whose transfers are queued, on a handle that is open and not closing
\* or on a descriptor of its own.
LEMMA EnqueueIInv ==
  ASSUME IInv, NEW o, NEW fd, NEW h, NEW then, Taken(o), Unmarked(o), PcOk',
         Enqueue(NewJob(o, fd, h), then),
         Held(o, IF h = NoHandle THEN {fd} ELSE {}),
         h # NoHandle => h \in Handles /\ Usable(h) /\ fd = files[h].fd,
         UNCHANGED <<next_id, inflight, helperQ, result>>
  PROVE  IInv'
  <1> USE DEF IInv
  <1>0. /\ InRx' = InRx \ {o} /\ InBack' = InBack \ {o} /\ o \in InRx \cup InBack
        /\ RxOk' /\ ClientOk' /\ BackOk' /\ req' = req /\ cancelReq' = cancelReq
    BY DEF Taken
  <1>1. /\ o \in DOMAIN req /\ o \in Ops /\ result[o] = "none"
        /\ o \notin AtHelper \cup InQueue \cup AtKernel \cup Waiting
    BY TakenIs
  <1>2. PICK job : job = NewJob(o, fd, h)
    OBVIOUS
  <1>3. fd \in Fds /\ h \in Handles \cup {NoHandle}
    <2>1. CASE h = NoHandle
      BY <2>1 DEF Held
    <2>2. CASE h # NoHandle
      BY <2>2 DEF TableOk, Usable, Entries
    <2> QED
      BY <2>1, <2>2
  <1>4. /\ job \in Job /\ job.op = o /\ job.fd = fd /\ job.handle = h /\ ~job.cancelled
    BY ONLY <1>1, <1>2, <1>3, NewJobIs
  <1>5. PICK X : X = IF h = NoHandle THEN {fd} ELSE {}
    OBVIOUS
  <1>6. Held(o, X)
    BY <1>5
  <1>7. queue' = Append(queue, job) /\ files' = Counted(job)
    BY <1>2 DEF Enqueue
  <1>8. /\ QueueOk' /\ InQueue' = InQueue \cup {o}
        /\ Range(queue') = Range(queue) \cup {job}
    BY <1>1, <1>4, <1>7, QueueAppended
  <1>9. Jobs' = Jobs \cup {job}
    BY <1>8 DEF Jobs
  <1>10. job \notin Jobs
    BY <1>1, <1>4, JobIs
  <1>11. /\ IsFiniteSet(Jobs')
         /\ JobsOn(h)' = JobsOn(h) \cup {job}
         /\ Cardinality(JobsOn(h)') = Cardinality(JobsOn(h)) + 1
         /\ Cardinality(JobsOn(h)) \in Nat
         /\ \A g : g # h => JobsOn(g)' = JobsOn(g)
    BY <1>4, <1>9, <1>10, JobsAdded DEF JobsKept
  <1>12. /\ DOMAIN files' = DOMAIN files
         /\ \A g \in DOMAIN files :
              /\ files'[g] \in Entries
              /\ files'[g].fd = files[g].fd /\ files'[g].closing = files[g].closing
              /\ files'[g].ops = IF g = h THEN files[g].ops + 1 ELSE files[g].ops
    <2>0. NoHandle \notin DOMAIN files /\ \A g \in DOMAIN files : files[g] \in Entries
      BY DEF TableOk, NoHandle
    <2>1. CASE h = NoHandle
      BY <2>0, <2>1, <1>4, <1>7 DEF Counted
    <2>2. CASE h # NoHandle
      <3>1. h \in DOMAIN files
        BY <2>2 DEF Usable
      <3>2. PICK e : e = [files[h] EXCEPT !.ops = @ + 1]
        OBVIOUS
      <3>3. /\ e \in Entries /\ e.fd = files[h].fd /\ e.closing = files[h].closing
            /\ e.ops = files[h].ops + 1
        BY <2>0, <3>1, <3>2 DEF Entries
      <3>4. files' = [files EXCEPT ![h] = e]
        BY <2>2, <3>2, <1>4, <1>7 DEF Counted
      <3>5. /\ DOMAIN files' = DOMAIN files /\ files'[h] = e
            /\ \A g \in DOMAIN files : g # h => files'[g] = files[g]
        BY ONLY <3>1, <3>4
      <3> QED
        BY ONLY <2>0, <3>3, <3>5
    <2> QED
      BY <2>1, <2>2
  <1>13. /\ AtHelper' = AtHelper /\ AtKernel' = AtKernel /\ HelperFds' = HelperFds
    BY DEF AtHelper, AtKernel, HelperFds
  <1>14. Waiting' = Waiting /\ HandleFds' = HandleFds
    BY <1>12 DEF Waiting, HandleFds
  <1>15. JobFds' = JobFds \cup X /\ \A k \in JobsOn(NoHandle) : k.fd \in JobFds
    <2>1. CASE h = NoHandle
      BY <2>1, <1>4, <1>5, <1>11 DEF JobFds
    <2>2. CASE h # NoHandle
      BY <2>2, <1>5, <1>11 DEF JobFds
    <2> QED
      BY <2>1, <2>2
  <1>16. ResultOk'
    BY <1>0 DEF ResultOk, BadOnlyAfterClose
  <1>17. TableOk'
    BY <1>12 DEF TableOk
  <1>18. KernelOk' /\ HelperOk'
    BY <1>0 DEF KernelOk, HelperOk
  <1>19. MarksOk'
    BY <1>0, <1>1, <1>13 DEF MarksOk, Unmarked
  <1>20. Apart'
    BY <1>0, <1>1, <1>8, <1>13, <1>14 DEF Apart
  <1>21. Placed'
    BY <1>0, <1>1, <1>8, <1>13, <1>14 DEF Placed
  <1>22. JobsKept'
    <2>1. \A k \in Jobs' : k.handle # NoHandle =>
            k.handle \in DOMAIN files' /\ files'[k.handle].fd = k.fd
      BY <1>4, <1>9, <1>12 DEF JobsKept, Usable
    <2>2. ASSUME NEW g \in DOMAIN files'
          PROVE  /\ files'[g].ops = Cardinality(JobsOn(g)')
                 /\ files'[g].closing # {} => files'[g].ops > 0
      <3>1. /\ files[g].ops = Cardinality(JobsOn(g))
            /\ files[g].closing # {} => files[g].ops > 0
        BY <2>2, <1>12 DEF JobsKept, OpsCountsJobs
      <3>2. CASE g = h
        BY <3>1, <3>2, <1>11, <1>12
      <3>3. CASE g # h
        BY <3>1, <3>3, <1>11, <1>12
      <3> QED
        BY <3>2, <3>3
    <2> QED
      BY <2>1, <2>2, <1>11 DEF JobsKept, OpsCountsJobs
  <1>23. Refused'
    <2>1. \A g : Usable(g)' <=> Usable(g)
      BY <1>12 DEF Usable
    <2> QED
      BY <2>1, <1>0 DEF Refused
  <1>24. FdsApart'
    <2>1. \A j, k \in JobsOn(NoHandle)' : j.fd = k.fd => j = k
      <3>1. CASE h = NoHandle
        <4>1. \A k \in JobsOn(NoHandle) : k.fd # fd
          BY <3>1, <1>5, <1>6, <1>15 DEF Held
        <4> QED
          BY <4>1, <3>1, <1>4, <1>11 DEF FdsApart
      <3>2. CASE h # NoHandle
        BY <3>2, <1>11 DEF FdsApart
      <3> QED
        BY <3>1, <3>2
    <2> QED
      BY <2>1, <1>6, <1>13, <1>14, <1>15 DEF FdsApart, Held
  <1>25. FdsOpen'
    <2>1. ASSUME NEW k \in JobsOn(NoHandle)' PROVE open'[k.fd] = k.op
      <3>1. CASE k \in JobsOn(NoHandle)
        BY <3>1, <1>6, <1>15 DEF FdsOpen, Held
      <3>2. CASE k \notin JobsOn(NoHandle)
        <4>1. h = NoHandle /\ k = job
          BY <2>1, <3>2, <1>11
        <4> QED
          BY <4>1, <1>4, <1>5, <1>6 DEF Held
      <3> QED
        BY <3>1, <3>2
    <2>2. DOMAIN open' = HandleFds' \cup JobFds' \cup HelperFds' \cup BackFds'
      BY <1>6, <1>13, <1>14, <1>15 DEF Held
    <2> QED
      BY <2>1, <2>2, <1>6 DEF FdsOpen, Held
  <1>26. FdsFew'
    BY <1>0, <1>6, <1>13 DEF FdsFew, Held
  <1> QED
    BY <1>0, <1>8, <1>16, <1>17, <1>18, <1>19, <1>20, <1>21, <1>22, <1>23, <1>24, <1>25, <1>26

\* A Close that waits for the jobs on its handle.
LEMMA DeferIInv ==
  ASSUME IInv, NEW o, NEW h, Taken(o), Held(o, {}), Unmarked(o), PcOk',
         o \in InRx, req[o] = [kind |-> "Close", handle |-> h],
         Usable(h), DefersClose(h), files' = [files EXCEPT ![h].closing = {o}],
         UNCHANGED <<next_id, queue, inflight, helperQ, result>>
  PROVE  IInv'
  <1> USE DEF IInv
  <1>0. /\ InRx' = InRx \ {o} /\ InBack' = InBack \ {o}
        /\ RxOk' /\ ClientOk' /\ BackOk' /\ req' = req /\ cancelReq' = cancelReq
    BY DEF Taken
  <1>1. /\ o \in DOMAIN req /\ o \in Ops /\ result[o] = "none"
        /\ o \notin AtHelper \cup InQueue \cup AtKernel \cup Waiting
        /\ o \notin InBack
    BY TakenIs
  <1>2. h \in DOMAIN files /\ files[h].closing = {} /\ files[h].ops > 0
    BY DEF Usable, DefersClose
  <1>3. /\ DOMAIN files' = DOMAIN files
        /\ \A g \in DOMAIN files :
             /\ files'[g] \in Entries
             /\ files'[g].fd = files[g].fd /\ files'[g].ops = files[g].ops
             /\ files'[g].closing = IF g = h THEN {o} ELSE files[g].closing
    <2>1. \A g \in DOMAIN files : files[g] \in Entries
      BY DEF TableOk
    <2>2. PICK e : e = [files[h] EXCEPT !.closing = {o}]
      OBVIOUS
    <2>3. /\ e \in Entries /\ e.fd = files[h].fd /\ e.closing = {o}
          /\ e.ops = files[h].ops
      BY <2>1, <2>2, <1>1, <1>2 DEF Entries
    <2>4. files' = [files EXCEPT ![h] = e]
      BY <2>2
    <2>5. /\ DOMAIN files' = DOMAIN files /\ files'[h] = e
          /\ \A g \in DOMAIN files : g # h => files'[g] = files[g]
      BY ONLY <1>2, <2>4
    <2> QED
      BY ONLY <2>1, <2>3, <2>5
  <1>4. /\ AtHelper' = AtHelper /\ InQueue' = InQueue /\ AtKernel' = AtKernel
        /\ HelperFds' = HelperFds /\ Jobs' = Jobs
    BY DEF AtHelper, InQueue, AtKernel, HelperFds, Jobs
  <1>5. HandleFds' = HandleFds
    BY <1>3 DEF HandleFds
  <1>6. Waiting' = Waiting \cup {o}
    BY <1>2, <1>3 DEF Waiting
  <1>7. \A g : JobsOn(g)' = JobsOn(g)
    BY <1>4 DEF JobsOn
  <1>8. JobFds' = JobFds
    BY <1>7 DEF JobFds
  <1>9. ResultOk'
    BY <1>0 DEF ResultOk, BadOnlyAfterClose
  <1>10. TableOk'
    <2>1. \A g \in DOMAIN files : o \notin files[g].closing
      BY <1>1 DEF Waiting
    <2>2. \A f, g \in DOMAIN files' : \A p \in files'[f].closing : p \in files'[g].closing => f = g
      BY <2>1, <1>3 DEF TableOk
    <2>3. \A f, g \in DOMAIN files' : files'[f].fd = files'[g].fd => f = g
      BY <1>3 DEF TableOk
    <2>4. DOMAIN files' \subseteq 1 .. next_id' - 1 /\ next_id' \in Nat \ {0}
      BY <1>3 DEF TableOk
    <2>5. \A g \in DOMAIN files' : files'[g] \in Entries
      BY <1>3
    <2> QED
      BY <2>2, <2>3, <2>4, <2>5 DEF TableOk
  <1>11. QueueOk' /\ KernelOk' /\ HelperOk'
    BY <1>0 DEF QueueOk, KernelOk, HelperOk, CancelledNotResubmitted
  <1>12. MarksOk'
    BY <1>0, <1>1, <1>4 DEF MarksOk, Unmarked
  <1>13. Apart'
    BY <1>0, <1>1, <1>4, <1>6 DEF Apart
  <1>14. Placed'
    BY <1>0, <1>1, <1>4, <1>6 DEF Placed
  <1>15. JobsKept'
    BY <1>2, <1>3, <1>4, <1>7 DEF JobsKept, OpsCountsJobs
  <1>16. Refused'
    <2> SUFFICES ASSUME NEW g \in 1 .. next_id - 1, ~Usable(g)'
                 PROVE  \E c \in DOMAIN req \ InRx' : req[c] = [kind |-> "Close", handle |-> g]
      BY <1>0 DEF Refused
    <2>1. CASE g = h
      BY <2>1, <1>0, <1>1
    <2>2. CASE g # h
      <3>1. ~Usable(g)
        BY <2>2, <1>3 DEF Usable
      <3> QED
        BY <3>1, <1>0 DEF Refused
    <2> QED
      BY <2>1, <2>2
  <1>17. FdsApart'
    BY <1>4, <1>5, <1>7, <1>8 DEF FdsApart, Held
  <1>18. FdsOpen'
    <2>1. ASSUME NEW job \in JobsOn(NoHandle) PROVE open'[job.fd] = job.op
      <3>1. job.fd \in JobFds
        BY DEF JobFds
      <3> QED
        BY <3>1 DEF FdsOpen, Held
    <2> QED
      BY <1>4, <1>5, <1>7, <1>8, <2>1 DEF FdsOpen, Held
  <1>19. FdsFew'
    BY <1>0, <1>4 DEF FdsFew, Held
  <1> QED
    BY <1>0, <1>9, <1>10, <1>11, <1>12, <1>13, <1>14, <1>15, <1>16, <1>17, <1>18, <1>19

\* A Close of a handle no job uses.
LEMMA CloseNowIInv ==
  ASSUME IInv, NEW o, NEW h, Taken(o), Unmarked(o), PcOk',
         o \in InRx, req[o] = [kind |-> "Close", handle |-> h],
         Usable(h), ~DefersClose(h), files' = Without(files, h),
         CloseFd(files[h].fd), Settle(o, "done"),
         UNCHANGED <<next_id, queue, inflight, helperQ, back>>
  PROVE  IInv'
  <1> USE DEF IInv
  <1>0. /\ InRx' = InRx \ {o} /\ InBack' = InBack /\ RxOk' /\ ClientOk' /\ BackOk'
        /\ req' = req /\ cancelReq' = cancelReq
    BY TakenIs DEF Taken
  <1>1. /\ o \in DOMAIN req /\ o \in Ops /\ result[o] = "none"
        /\ o \notin AtHelper \cup InQueue \cup AtKernel \cup Waiting
        /\ o \notin InBack
    BY TakenIs
  <1>2. h \in DOMAIN files /\ files[h].closing = {} /\ ~(files[h].ops > 0)
    BY DEF Usable, DefersClose
  <1>3. /\ DOMAIN files' = DOMAIN files \ {h}
        /\ \A g \in DOMAIN files' : files'[g] = files[g]
    BY DEF Without
  <1>4. PICK fd : fd = files[h].fd
    OBVIOUS
  <1>5. /\ DOMAIN open' = DOMAIN open \ {fd}
        /\ \A f \in DOMAIN open' : open'[f] = open[f]
    BY <1>4 DEF Without, CloseFd
  <1>6. /\ AtHelper' = AtHelper /\ InQueue' = InQueue /\ AtKernel' = AtKernel
        /\ HelperFds' = HelperFds /\ BackFds' = BackFds /\ Jobs' = Jobs
    BY DEF AtHelper, InQueue, AtKernel, HelperFds, BackFds, Jobs
  <1>7. HandleFds' = HandleFds \ {fd} /\ fd \in HandleFds
    BY <1>2, <1>3, <1>4 DEF HandleFds, TableOk
  <1>8. Waiting' = Waiting
    BY <1>2, <1>3 DEF Waiting
  <1>9. \A g : JobsOn(g)' = JobsOn(g)
    BY <1>6 DEF JobsOn
  <1>10. JobFds' = JobFds
    BY <1>9 DEF JobFds
  <1>11. /\ ResultOk'
         /\ {p \in DOMAIN req' : result'[p] = "none"} =
              {p \in DOMAIN req : result[p] = "none"} \ {o}
    <2>1. "done" \in Results \ {"none"} /\ "done" # "bad"
      BY DEF Results
    <2> QED
      BY <1>0, <1>1, <2>1, Settled
  <1>12. JobsOn(h) = {}
    <2>1. IsFiniteSet(JobsOn(h))
      <3>1. JobsOn(h) \subseteq Jobs /\ IsFiniteSet(Jobs)
        BY DEF JobsOn, JobsKept
      <3> QED
        BY <3>1, FS_Subset
    <2>2. Cardinality(JobsOn(h)) \in Nat
      BY <2>1, FS_CardinalityType
    <2>3. Cardinality(JobsOn(h)) = 0
      BY <2>2, <1>2 DEF JobsKept, OpsCountsJobs
    <2> QED
      BY <2>1, <2>3, FS_EmptySet
  <1>13. TableOk'
    BY <1>3 DEF TableOk
  <1>14. QueueOk' /\ KernelOk' /\ HelperOk'
    BY <1>0 DEF QueueOk, KernelOk, HelperOk, CancelledNotResubmitted
  <1>15. MarksOk'
    BY <1>0, <1>1, <1>6 DEF MarksOk, Unmarked
  <1>16. Apart'
    BY <1>0, <1>6, <1>8 DEF Apart
  <1>17. Placed'
    BY <1>0, <1>1, <1>6, <1>8, <1>11 DEF Placed
  <1>18. JobsKept'
    <2>1. \A job \in Jobs : job.handle # h
      BY <1>12 DEF JobsOn
    <2> QED
      BY <2>1, <1>3, <1>6, <1>9 DEF JobsKept, OpsCountsJobs
  <1>19. Refused'
    <2> SUFFICES ASSUME NEW g \in 1 .. next_id - 1, ~Usable(g)'
                 PROVE  \E c \in DOMAIN req \ InRx' : req[c] = [kind |-> "Close", handle |-> g]
      BY <1>0 DEF Refused
    <2>1. CASE g = h
      BY <2>1, <1>0, <1>1
    <2>2. CASE g # h
      <3>1. ~Usable(g)
        BY <2>2, <1>3 DEF Usable
      <3> QED
        BY <3>1, <1>0 DEF Refused
    <2> QED
      BY <2>1, <2>2
  <1>20. FdsApart'
    BY <1>6, <1>7, <1>9, <1>10 DEF FdsApart
  <1>21. FdsOpen'
    <2>1. DOMAIN open' = HandleFds' \cup JobFds' \cup HelperFds' \cup BackFds'
      BY <1>5, <1>6, <1>7, <1>10 DEF FdsOpen, FdsApart
    <2>2. ASSUME NEW job \in JobsOn(NoHandle) PROVE open'[job.fd] = job.op
      <3>1. job.fd \in JobFds
        BY DEF JobFds
      <3>2. job.fd \in DOMAIN open'
        BY <3>1, <2>1, <1>10
      <3> QED
        BY <3>2, <1>5 DEF FdsOpen
    <2>3. ASSUME NEW i \in DOMAIN back, back[i].fd # NoFd
          PROVE  open'[back[i].fd] = back[i].op
      <3>1. back[i].fd \in BackFds
        BY <2>3 DEF BackFds, FdsOf
      <3>2. back[i].fd \in DOMAIN open'
        BY <3>1, <2>1, <1>6
      <3> QED
        BY <2>3, <3>2, <1>5 DEF FdsOpen
    <2> QED
      BY <1>9, <2>1, <2>2, <2>3 DEF FdsOpen
  <1>22. FdsFew'
    BY <1>0, <1>5, <1>6 DEF FdsFew
  <1> QED
    BY <1>0, <1>11, <1>13, <1>14, <1>15, <1>16, <1>17, <1>18, <1>19, <1>20, <1>21, <1>22

\* Work put at the end of the helpers' channel.
LEMMA HelperAppended ==
  ASSUME HelperOk, NEW x \in HelperJobs, helperQ' = Append(helperQ, x),
         x.type = "Open" => x.op \notin AtHelper,
         x.type = "Close" => x.fd \notin HelperFds
  PROVE  /\ HelperOk'
         /\ x.type = "Open" => AtHelper' = AtHelper \cup {x.op} /\ HelperFds' = HelperFds
         /\ x.type = "Close" => AtHelper' = AtHelper /\ HelperFds' = HelperFds \cup {x.fd}
  <1>1. PICK n : n = Len(helperQ) + 1
    OBVIOUS
  <1>2. /\ helperQ \in Seq(HelperJobs)
        /\ DistinctOps(helperQ, "Open") /\ DistinctFdsAs(helperQ, "Close")
    BY DEF HelperOk
  <1>3. helperQ' \in Seq(HelperJobs) /\ Dropped(helperQ', helperQ, n) /\ helperQ'[n] = x
    BY <1>1, <1>2, AppendAdds
  <1>4. Dropped(helperQ', helperQ, n) /\ helperQ'[n] = x
    BY <1>3
  <1>5. /\ x.type = "Open" => AtHelper' = AtHelper \cup {x.op}
        /\ x.type # "Open" => AtHelper' = AtHelper
        /\ DistinctOps(helperQ', "Open")
    BY ONLY <1>2, <1>4, DroppedAs, x.type = "Open" => x.op \notin AtHelper DEF AtHelper
  <1>6. /\ x.type = "Close" => HelperFds' = HelperFds \cup {x.fd}
        /\ x.type # "Close" => HelperFds' = HelperFds
        /\ DistinctFdsAs(helperQ', "Close")
    BY ONLY <1>2, <1>4, DroppedFdsAs, x.type = "Close" => x.fd \notin HelperFds DEF HelperFds
  <1>7. "Open" # "Close"
    OBVIOUS
  <1> QED
    BY <1>3, <1>5, <1>6, <1>7 DEF HelperOk

\* An open that is left to a helper.
LEMMA HandOverIInv ==
  ASSUME IInv, NEW o, Taken(o), PcOk', o \in InRx,
         pending_opens' = pending_opens \cup {o}, cancelled_opens' = cancelled_opens,
         helperQ' = Append(helperQ, [type |-> "Open", op |-> o]),
         UNCHANGED <<files, next_id, queue, inflight, open, result, back>>
  PROVE  IInv'
  <1> USE DEF IInv
  <1>0. /\ InRx' = InRx \ {o} /\ RxOk' /\ ClientOk' /\ BackOk'
        /\ req' = req /\ cancelReq' = cancelReq
    BY DEF Taken
  <1>1. /\ o \in DOMAIN req /\ o \in Ops /\ result[o] = "none"
        /\ o \notin AtHelper \cup InQueue \cup AtKernel \cup Waiting
        /\ o \notin InBack
    BY TakenIs
  <1>2. PICK x : x = [type |-> "Open", op |-> o]
    OBVIOUS
  <1>3. x \in HelperJobs /\ x.type = "Open" /\ x.op = o /\ x.type # "Close"
    BY <1>1, <1>2 DEF HelperJobs
  <1>4. HelperOk' /\ AtHelper' = AtHelper \cup {o} /\ HelperFds' = HelperFds
    BY <1>1, <1>2, <1>3, HelperAppended
  <1>5. /\ InBack' = InBack /\ InQueue' = InQueue /\ AtKernel' = AtKernel /\ Waiting' = Waiting
        /\ HandleFds' = HandleFds /\ BackFds' = BackFds /\ Jobs' = Jobs
    BY DEF InBack, InQueue, AtKernel, Waiting, HandleFds, BackFds, Jobs
  <1>6. \A g : JobsOn(g)' = JobsOn(g)
    BY <1>5 DEF JobsOn
  <1>7. JobFds' = JobFds
    BY <1>6 DEF JobFds
  <1>8. ResultOk'
    BY <1>0 DEF ResultOk, BadOnlyAfterClose
  <1>9. TableOk' /\ QueueOk' /\ KernelOk'
    BY <1>0 DEF TableOk, QueueOk, KernelOk, CancelledNotResubmitted
  <1>10. MarksOk'
    BY <1>0, <1>4, <1>5 DEF MarksOk
  <1>11. Apart'
    BY <1>0, <1>1, <1>4, <1>5 DEF Apart
  <1>12. Placed'
    BY <1>0, <1>1, <1>4, <1>5 DEF Placed
  <1>13. JobsKept'
    BY <1>5, <1>6 DEF JobsKept, OpsCountsJobs
  <1>14. Refused'
    BY <1>0 DEF Refused, Usable
  <1>15. FdsApart' /\ FdsOpen'
    BY <1>4, <1>5, <1>6, <1>7 DEF FdsApart, FdsOpen
  <1>16. FdsFew'
    BY <1>0, <1>4 DEF FdsFew
  <1> QED
    BY <1>0, <1>4, <1>8, <1>9, <1>10, <1>11, <1>12, <1>13, <1>14, <1>15, <1>16

-----------------------------------------------------------------------------
(* finish: a job leaves the queue or the kernel and settles.               *)

JobTaken(job) ==
  /\ job \in Jobs /\ Jobs' = Jobs \ {job}
  /\ InQueue' = InQueue \ {job.op} /\ AtKernel' = AtKernel \ {job.op}
  /\ QueueOk' /\ KernelOk' /\ RxOk' /\ ClientOk' /\ PcOk' /\ InRx' = InRx
  /\ UNCHANGED <<req, cancelReq, next_id, pending_opens, cancelled_opens, back>>

\* A job just taken belongs to an op that is not settled and is in no other place.
LEMMA JobTakenIs ==
  ASSUME IInv, NEW job, JobTaken(job)
  PROVE  /\ job \in Job /\ job.op \in DOMAIN req /\ job.op \in Ops /\ result[job.op] = "none"
         /\ job.op \in InQueue \cup AtKernel
         /\ job.op \notin InRx \cup AtHelper \cup InBack \cup Waiting
  <1>1. job \in Job /\ job.op \in InQueue \cup AtKernel
    BY JobIs DEF JobTaken, IInv
  <1>2. DOMAIN req \subseteq Ops
    BY ReqIs DEF IInv
  <1> QED
    BY <1>1, <1>2, OutIs DEF IInv, Apart

\* A job on a descriptor of its own closes it, here or at a helper.
LEMMA FinishOwnIInv ==
  ASSUME IInv, NEW job, JobTaken(job), job.handle = NoHandle,
         NEW r \in {"done", "cancelled"}, Finish(job, r)
  PROVE  IInv'
  <1> USE DEF IInv
  <1>0. /\ job \in Jobs /\ Jobs' = Jobs \ {job} /\ InRx' = InRx
        /\ InQueue' = InQueue \ {job.op} /\ AtKernel' = AtKernel \ {job.op}
        /\ QueueOk' /\ KernelOk' /\ RxOk' /\ ClientOk' /\ PcOk'
        /\ req' = req /\ cancelReq' = cancelReq /\ next_id' = next_id
        /\ pending_opens' = pending_opens /\ cancelled_opens' = cancelled_opens /\ back' = back
    BY DEF JobTaken
  <1>1. /\ job \in Job /\ job.op \in DOMAIN req /\ job.op \in Ops /\ result[job.op] = "none"
        /\ job.op \in InQueue \cup AtKernel
        /\ job.op \notin InRx \cup AtHelper \cup InBack \cup Waiting
    BY JobTakenIs
  <1>2. CloseOwned(job.fd) /\ Settle(job.op, r) /\ files' = files
    BY DEF Finish
  <1>3. PICK fd : fd = job.fd
    OBVIOUS
  <1>4. fd \in Fds
    BY <1>1, <1>3 DEF Job
  <1>5. /\ IsFiniteSet(Jobs')
        /\ JobsOn(NoHandle)' = JobsOn(NoHandle) \ {job}
        /\ job \in JobsOn(NoHandle)
        /\ \A g : g # NoHandle => JobsOn(g)' = JobsOn(g)
    BY <1>0, JobsRemoved DEF JobsKept
  <1>6. JobFds' = JobFds \ {fd} /\ fd \in JobFds
    BY <1>3, <1>5 DEF JobFds, FdsApart
  <1>7. /\ HandleFds' = HandleFds /\ Waiting' = Waiting /\ InBack' = InBack /\ BackFds' = BackFds
    BY <1>0, <1>2 DEF HandleFds, Waiting, InBack, BackFds
  <1>8. /\ HelperOk' /\ AtHelper' = AtHelper
        /\ \/ HelperFds' = HelperFds \cup {fd} /\ open' = open
           \/ HelperFds' = HelperFds /\ open' = Without(open, fd)
    <2>1. CASE HasBacklog(rx', queue')
      <3>1. PICK x : x = [type |-> "Close", fd |-> fd]
        OBVIOUS
      <3>2. x \in HelperJobs /\ x.type = "Close" /\ x.fd = fd /\ x.type # "Open"
        BY <1>4, <3>1 DEF HelperJobs
      <3>3. fd \notin HelperFds
        BY <1>6 DEF FdsApart
      <3>4. helperQ' = Append(helperQ, x) /\ open' = open
        BY <2>1, <3>1, <1>2, <1>3 DEF CloseOwned
      <3>5. HelperOk' /\ AtHelper' = AtHelper /\ HelperFds' = HelperFds \cup {fd}
        BY <3>2, <3>3, <3>4, HelperAppended
      <3> QED
        BY <3>4, <3>5
    <2>2. CASE ~HasBacklog(rx', queue')
      <3>1. helperQ' = helperQ /\ open' = Without(open, fd)
        BY <2>2, <1>2, <1>3 DEF CloseOwned, CloseFd
      <3> QED
        BY <3>1 DEF HelperOk, AtHelper, HelperFds
    <2> QED
      BY <2>1, <2>2
  <1>9. /\ ResultOk'
        /\ {p \in DOMAIN req' : result'[p] = "none"} =
             {p \in DOMAIN req : result[p] = "none"} \ {job.op}
    <2>1. r \in Results \ {"none"} /\ r # "bad"
      BY DEF Results
    <2> QED
      BY <1>0, <1>1, <1>2, <2>1, Settled
  <1>10. TableOk' /\ BackOk'
    BY <1>0, <1>2 DEF TableOk, BackOk
  <1>11. MarksOk'
    BY <1>0, <1>7, <1>8 DEF MarksOk
  <1>12. Apart'
    BY <1>0, <1>7, <1>8 DEF Apart
  <1>13. Placed'
    BY <1>0, <1>1, <1>7, <1>8, <1>9 DEF Placed
  <1>14. JobsKept'
    <2>1. NoHandle \notin DOMAIN files
      BY DEF TableOk, NoHandle
    <2> QED
      BY <2>1, <1>0, <1>2, <1>5 DEF JobsKept, OpsCountsJobs
  <1>15. Refused'
    BY <1>0, <1>2 DEF Refused, Usable
  <1>16. FdsApart'
    BY <1>5, <1>6, <1>7, <1>8 DEF FdsApart
  <1>17. /\ DOMAIN open' = HandleFds' \cup JobFds' \cup HelperFds' \cup BackFds'
         /\ DOMAIN open' \subseteq DOMAIN open
         /\ \A f \in DOMAIN open' : open'[f] = open[f]
    <2>1. CASE HelperFds' = HelperFds \cup {fd} /\ open' = open
      BY <2>1, <1>6, <1>7 DEF FdsOpen
    <2>2. CASE HelperFds' = HelperFds /\ open' = Without(open, fd)
      <3>1. /\ DOMAIN open' = DOMAIN open \ {fd}
            /\ \A f \in DOMAIN open' : open'[f] = open[f]
        BY <2>2 DEF Without
      <3> QED
        BY <3>1, <2>2, <1>6, <1>7 DEF FdsOpen, FdsApart
    <2> QED
      BY <2>1, <2>2, <1>8
  <1>18. FdsOpen'
    <2>1. ASSUME NEW k \in JobsOn(NoHandle)' PROVE open'[k.fd] = k.op
      <3>1. k.fd \in JobFds'
        BY DEF JobFds
      <3> QED
        BY <3>1, <1>5, <1>17 DEF FdsOpen
    <2>2. ASSUME NEW i \in DOMAIN back', back'[i].fd # NoFd
          PROVE  open'[back'[i].fd] = back'[i].op
      <3>1. back'[i].fd \in BackFds'
        BY <2>2 DEF BackFds, FdsOf
      <3> QED
        BY <2>2, <3>1, <1>0, <1>17 DEF FdsOpen
    <2> QED
      BY <2>1, <2>2, <1>17 DEF FdsOpen
  <1>19. FdsFew'
    BY <1>0, <1>8, <1>17 DEF FdsFew
  <1> QED
    BY <1>0, <1>8, <1>9, <1>10, <1>11, <1>12, <1>13, <1>14, <1>15, <1>16, <1>18, <1>19

\* A job that leaves its handle to others.
LEMMA FinishSharedIInv ==
  ASSUME IInv, NEW job, JobTaken(job), job.handle # NoHandle, ~LastUse(files[job.handle]),
         NEW r \in {"done", "cancelled"}, Finish(job, r)
  PROVE  IInv'
  <1> USE DEF IInv
  <1>0. /\ job \in Jobs /\ Jobs' = Jobs \ {job} /\ InRx' = InRx
        /\ InQueue' = InQueue \ {job.op} /\ AtKernel' = AtKernel \ {job.op}
        /\ QueueOk' /\ KernelOk' /\ RxOk' /\ ClientOk' /\ PcOk'
        /\ req' = req /\ cancelReq' = cancelReq /\ next_id' = next_id
        /\ pending_opens' = pending_opens /\ cancelled_opens' = cancelled_opens /\ back' = back
    BY DEF JobTaken
  <1>1. /\ job \in Job /\ job.op \in DOMAIN req /\ job.op \in Ops /\ result[job.op] = "none"
        /\ job.op \in InQueue \cup AtKernel
        /\ job.op \notin InRx \cup AtHelper \cup InBack \cup Waiting
    BY JobTakenIs
  <1>2. PICK h : h = job.handle
    OBVIOUS
  <1>3. h \in DOMAIN files /\ files[h].fd = job.fd
    BY <1>0, <1>2 DEF JobsKept
  <1>4. /\ files' = [files EXCEPT ![h].ops = @ - 1] /\ Settle(job.op, r)
        /\ helperQ' = helperQ /\ open' = open
    BY <1>2 DEF Finish
  <1>5. /\ DOMAIN files' = DOMAIN files
        /\ \A g \in DOMAIN files :
             /\ files'[g] \in Entries
             /\ files'[g].fd = files[g].fd /\ files'[g].closing = files[g].closing
             /\ files'[g].ops = IF g = h THEN files[g].ops - 1 ELSE files[g].ops
    <2>1. \A g \in DOMAIN files : files[g] \in Entries
      BY DEF TableOk
    <2>2. PICK e : e = [files[h] EXCEPT !.ops = @ - 1]
      OBVIOUS
    <2>3. /\ e \in Entries /\ e.fd = files[h].fd /\ e.closing = files[h].closing
          /\ e.ops = files[h].ops - 1
      BY <2>1, <2>2, <1>3 DEF Entries
    <2>4. files' = [files EXCEPT ![h] = e]
      BY <2>2, <1>4
    <2>5. /\ DOMAIN files' = DOMAIN files /\ files'[h] = e
          /\ \A g \in DOMAIN files : g # h => files'[g] = files[g]
      BY ONLY <1>3, <2>4
    <2> QED
      BY ONLY <2>1, <2>3, <2>5
  <1>6. /\ IsFiniteSet(Jobs')
        /\ Cardinality(JobsOn(h)') = Cardinality(JobsOn(h)) - 1
        /\ Cardinality(JobsOn(h)) \in Nat \ {0}
        /\ \A g : g # h => JobsOn(g)' = JobsOn(g)
    BY <1>0, <1>2, JobsRemoved DEF JobsKept
  <1>7. JobFds' = JobFds /\ JobsOn(NoHandle)' = JobsOn(NoHandle)
    BY <1>2, <1>6 DEF JobFds
  <1>8. /\ AtHelper' = AtHelper /\ HelperFds' = HelperFds /\ InBack' = InBack /\ BackFds' = BackFds
    BY <1>0, <1>4 DEF AtHelper, HelperFds, InBack, BackFds
  <1>9. HandleFds' = HandleFds /\ Waiting' = Waiting
    BY <1>5 DEF HandleFds, Waiting
  <1>10. /\ ResultOk'
         /\ {p \in DOMAIN req' : result'[p] = "none"} =
              {p \in DOMAIN req : result[p] = "none"} \ {job.op}
    <2>1. r \in Results \ {"none"} /\ r # "bad"
      BY DEF Results
    <2> QED
      BY <1>0, <1>1, <1>4, <2>1, Settled
  <1>11. TableOk'
    <2>1. \A f, g \in DOMAIN files' : \A p \in files'[f].closing : p \in files'[g].closing => f = g
      BY <1>5 DEF TableOk
    <2>2. \A f, g \in DOMAIN files' : files'[f].fd = files'[g].fd => f = g
      BY <1>5 DEF TableOk
    <2>3. DOMAIN files' \subseteq 1 .. next_id' - 1 /\ next_id' \in Nat \ {0}
      BY <1>0, <1>5 DEF TableOk
    <2>4. \A g \in DOMAIN files' : files'[g] \in Entries
      BY <1>5
    <2> QED
      BY <2>1, <2>2, <2>3, <2>4 DEF TableOk
  <1>12. HelperOk' /\ BackOk'
    BY <1>0, <1>4 DEF HelperOk, BackOk
  <1>13. MarksOk'
    BY <1>0, <1>8 DEF MarksOk
  <1>14. Apart'
    BY <1>0, <1>8, <1>9 DEF Apart
  <1>15. Placed'
    BY <1>0, <1>1, <1>8, <1>9, <1>10 DEF Placed
  <1>16. JobsKept'
    <2>1. \A k \in Jobs' : k.handle # NoHandle =>
            k.handle \in DOMAIN files' /\ files'[k.handle].fd = k.fd
      BY <1>0, <1>5 DEF JobsKept
    <2>2. ASSUME NEW g \in DOMAIN files'
          PROVE  /\ files'[g].ops = Cardinality(JobsOn(g)')
                 /\ files'[g].closing # {} => files'[g].ops > 0
      <3>1. /\ files[g].ops = Cardinality(JobsOn(g))
            /\ files[g].closing # {} => files[g].ops > 0
        BY <2>2, <1>5 DEF JobsKept, OpsCountsJobs
      <3>2. CASE g = h
        <4>1. files[g].ops # 1 \/ files[g].closing = {}
          BY <3>2, <1>2 DEF LastUse
        <4>2. files'[g].ops = Cardinality(JobsOn(g)')
          BY <3>1, <3>2, <1>5, <1>6
        <4>3. files[g].closing # {} => files[g].ops - 1 > 0
          BY <4>1, <3>1, <3>2, <1>6
        <4> QED
          BY <4>2, <4>3, <3>2, <1>5
      <3>3. CASE g # h
        BY <3>1, <3>3, <1>5, <1>6
      <3> QED
        BY <3>2, <3>3
    <2> QED
      BY <2>1, <2>2, <1>6 DEF JobsKept, OpsCountsJobs
  <1>17. Refused'
    <2>1. \A g : Usable(g)' <=> Usable(g)
      BY <1>5 DEF Usable
    <2> QED
      BY <2>1, <1>0 DEF Refused
  <1>18. FdsApart' /\ FdsOpen'
    BY <1>0, <1>4, <1>7, <1>8, <1>9 DEF FdsApart, FdsOpen
  <1>19. FdsFew'
    BY <1>0, <1>4, <1>8 DEF FdsFew
  <1> QED
    BY <1>0, <1>10, <1>11, <1>12, <1>13, <1>14, <1>15, <1>16, <1>17, <1>18, <1>19

\* The last job on a closing handle closes it, and the Close settles with it.
LEMMA FinishLastIInv ==
  ASSUME IInv, NEW job, JobTaken(job), job.handle # NoHandle, LastUse(files[job.handle]),
         NEW r \in {"done", "cancelled"}, Finish(job, r)
  PROVE  IInv'
  <1> USE DEF IInv
  <1>0. /\ job \in Jobs /\ Jobs' = Jobs \ {job} /\ InRx' = InRx
        /\ InQueue' = InQueue \ {job.op} /\ AtKernel' = AtKernel \ {job.op}
        /\ QueueOk' /\ KernelOk' /\ RxOk' /\ ClientOk' /\ PcOk'
        /\ req' = req /\ cancelReq' = cancelReq /\ next_id' = next_id
        /\ pending_opens' = pending_opens /\ cancelled_opens' = cancelled_opens /\ back' = back
    BY DEF JobTaken
  <1>1. /\ job \in Job /\ job.op \in DOMAIN req /\ job.op \in Ops /\ result[job.op] = "none"
        /\ job.op \in InQueue \cup AtKernel
        /\ job.op \notin InRx \cup AtHelper \cup InBack \cup Waiting
    BY JobTakenIs
  <1>2. PICK h : h = job.handle
    OBVIOUS
  <1>3. h \in DOMAIN files /\ files[h].fd = job.fd
    BY <1>0, <1>2 DEF JobsKept
  <1>4. PICK fd : fd = files[h].fd
    OBVIOUS
  <1>5. PICK C : C = files[h].closing
    OBVIOUS
  <1>6. /\ files' = Without(files, h) /\ open' = Without(open, fd) /\ helperQ' = helperQ
        /\ result' = [o \in Ops |-> CASE o = job.op -> r [] o \in C -> "done" [] OTHER -> result[o]]
    BY <1>2, <1>4, <1>5 DEF Finish, CloseFd
  <1>7. files[h].ops = 1 /\ C # {}
    BY <1>2, <1>5 DEF LastUse
  <1>8. /\ DOMAIN files' = DOMAIN files \ {h}
        /\ \A g \in DOMAIN files' : files'[g] = files[g]
    BY <1>6 DEF Without
  <1>9. /\ DOMAIN open' = DOMAIN open \ {fd}
        /\ \A f \in DOMAIN open' : open'[f] = open[f]
    BY <1>6 DEF Without
  <1>10. /\ IsFiniteSet(Jobs') /\ JobsOn(h)' = {}
         /\ \A g : g # h => JobsOn(g)' = JobsOn(g)
    <2>1. Cardinality(JobsOn(h)) = 1
      BY <1>3, <1>7 DEF JobsKept, OpsCountsJobs
    <2> QED
      BY <2>1, <1>0, <1>2, JobsRemoved DEF JobsKept
  <1>11. JobFds' = JobFds /\ JobsOn(NoHandle)' = JobsOn(NoHandle)
    BY <1>2, <1>10 DEF JobFds
  <1>12. /\ AtHelper' = AtHelper /\ HelperFds' = HelperFds /\ InBack' = InBack /\ BackFds' = BackFds
    BY <1>0, <1>6 DEF AtHelper, HelperFds, InBack, BackFds
  <1>13. HandleFds' = HandleFds \ {fd} /\ fd \in HandleFds
    BY <1>3, <1>4, <1>8 DEF HandleFds, TableOk
  <1>14. Waiting' = Waiting \ C /\ C \subseteq Waiting
    BY <1>3, <1>5, <1>8 DEF Waiting, TableOk
  <1>15. \A o \in C : o \in DOMAIN req /\ result[o] = "none"
    BY <1>14, OutIs
  <1>16. DOMAIN req \subseteq Ops /\ result \in [Ops -> Results]
    BY ReqIs DEF ResultOk
  <1>17. \A o \in Ops : result'[o] = IF o = job.op THEN r ELSE IF o \in C THEN "done" ELSE result[o]
    <2>1. job.op \notin C
      BY <1>1, <1>14
    <2> QED
      BY <2>1, <1>6
  <1>18. {p \in DOMAIN req' : result'[p] = "none"} =
           {p \in DOMAIN req : result[p] = "none"} \ ({job.op} \cup C)
    BY <1>0, <1>16, <1>17
  <1>19. ResultOk'
    <2>1. result' \in [Ops -> Results]
      <3>1. r \in Results /\ "done" \in Results
        BY DEF Results
      <3> QED
        BY <3>1, <1>6, <1>16
    <2>2. \A o \in Ops \ DOMAIN req' : result'[o] = "none"
      BY <1>0, <1>1, <1>15, <1>17 DEF ResultOk
    <2>3. \A o \in DOMAIN req : result'[o] = "bad" => result[o] = "bad"
      BY <1>16, <1>17
    <2>4. BadOnlyAfterClose'
      BY <2>3, <1>0 DEF ResultOk, BadOnlyAfterClose
    <2> QED
      BY <2>1, <2>2, <2>4 DEF ResultOk
  <1>20. TableOk'
    BY <1>0, <1>8 DEF TableOk
  <1>21. HelperOk' /\ BackOk'
    BY <1>0, <1>6 DEF HelperOk, BackOk
  <1>22. MarksOk'
    BY <1>0, <1>12 DEF MarksOk
  <1>23. Apart'
    BY <1>0, <1>12, <1>14 DEF Apart
  <1>24. Placed'
    <2>1. C \cap (InRx \cup AtHelper \cup InBack \cup InQueue \cup AtKernel) = {}
      BY <1>14 DEF Apart
    <2> QED
      BY <2>1, <1>0, <1>1, <1>12, <1>14, <1>18 DEF Placed
  <1>25. JobsKept'
    <2>1. \A k \in Jobs' : k.handle # h
      BY <1>10 DEF JobsOn
    <2> QED
      BY <2>1, <1>0, <1>8, <1>10 DEF JobsKept, OpsCountsJobs
  <1>26. Refused'
    <2> SUFFICES ASSUME NEW g \in 1 .. next_id - 1, ~Usable(g)'
                 PROVE  \E c \in DOMAIN req \ InRx : req[c] = [kind |-> "Close", handle |-> g]
      BY <1>0 DEF Refused
    <2>1. ~Usable(g)
      BY <1>5, <1>7, <1>8 DEF Usable
    <2> QED
      BY <2>1 DEF Refused
  <1>27. FdsApart'
    BY <1>11, <1>12, <1>13 DEF FdsApart
  <1>28. FdsOpen'
    <2>1. DOMAIN open' = HandleFds' \cup JobFds' \cup HelperFds' \cup BackFds'
      BY <1>9, <1>11, <1>12, <1>13 DEF FdsOpen, FdsApart
    <2>2. ASSUME NEW k \in JobsOn(NoHandle) PROVE open'[k.fd] = k.op
      <3>1. k.fd \in JobFds
        BY DEF JobFds
      <3>2. k.fd \in DOMAIN open'
        BY <3>1, <2>1, <1>11
      <3> QED
        BY <3>2, <1>9 DEF FdsOpen
    <2>3. ASSUME NEW i \in DOMAIN back, back[i].fd # NoFd
          PROVE  open'[back[i].fd] = back[i].op
      <3>1. back[i].fd \in BackFds
        BY <2>3 DEF BackFds, FdsOf
      <3>2. back[i].fd \in DOMAIN open'
        BY <3>1, <2>1, <1>12
      <3> QED
        BY <2>3, <3>2, <1>9 DEF FdsOpen
    <2> QED
      BY <1>0, <1>11, <2>1, <2>2, <2>3 DEF FdsOpen
  <1>29. FdsFew'
    BY <1>0, <1>9, <1>12 DEF FdsFew
  <1> QED
    BY <1>0, <1>19, <1>20, <1>21, <1>22, <1>23, <1>24, <1>25, <1>26, <1>27, <1>28, <1>29

\* finish keeps it, in each of its three cases.
LEMMA FinishIInv ==
  ASSUME IInv, NEW job, JobTaken(job), NEW r \in {"done", "cancelled"}, Finish(job, r)
  PROVE  IInv'
  <1>1. CASE job.handle = NoHandle
    BY <1>1, FinishOwnIInv
  <1>2. CASE job.handle # NoHandle /\ ~LastUse(files[job.handle])
    BY <1>2, FinishSharedIInv
  <1>3. CASE job.handle # NoHandle /\ LastUse(files[job.handle])
    BY <1>3, FinishLastIInv
  <1> QED
    BY <1>1, <1>2, <1>3

-----------------------------------------------------------------------------
(* Jobs on their way between the queue and the kernel.                     *)

\* A job goes on as k: between the queue and the kernel, or flagged.
LEMMA JobMovedIInv ==
  ASSUME IInv, NEW j \in Jobs, NEW k, k.op = j.op, k.fd = j.fd, k.handle = j.handle,
         Jobs' = (Jobs \ {j}) \cup {k},
         InQueue' \cup AtKernel' = InQueue \cup AtKernel, InQueue' \cap AtKernel' = {},
         QueueOk', KernelOk', RxOk', ClientOk', PcOk', InRx' = InRx,
         UNCHANGED <<req, cancelReq, files, next_id, pending_opens, cancelled_opens,
                     helperQ, back, open, result>>
  PROVE  IInv'
  <1> USE DEF IInv
  <1>1. k \notin Jobs \ {j}
    <2>1. ASSUME k \in Jobs \ {j} PROVE FALSE
      BY <2>1, JobsOnce
    <2> QED
      BY <2>1
  <1>2. /\ AtHelper' = AtHelper /\ InBack' = InBack /\ Waiting' = Waiting
        /\ HandleFds' = HandleFds /\ HelperFds' = HelperFds /\ BackFds' = BackFds
    BY DEF AtHelper, InBack, Waiting, HandleFds, HelperFds, BackFds
  <1>3. /\ \A h : h # j.handle => JobsOn(h)' = JobsOn(h)
        /\ JobsOn(j.handle)' = (JobsOn(j.handle) \ {j}) \cup {k}
        /\ j \in JobsOn(j.handle) /\ k \notin JobsOn(j.handle) \ {j}
    BY <1>1 DEF JobsOn
  <1>4. IsFiniteSet(Jobs')
    <2>1. IsFiniteSet(Jobs \ {j})
      BY FS_RemoveElement DEF JobsKept
    <2> QED
      BY <2>1, FS_AddElement
  <1>5. Cardinality(JobsOn(j.handle)') = Cardinality(JobsOn(j.handle))
    <2>1. IsFiniteSet(JobsOn(j.handle))
      <3>1. JobsOn(j.handle) \subseteq Jobs /\ IsFiniteSet(Jobs)
        BY DEF JobsOn, JobsKept
      <3> QED
        BY <3>1, FS_Subset
    <2>2. Cardinality(JobsOn(j.handle)) \in Nat
      BY <2>1, FS_CardinalityType
    <2>3. /\ IsFiniteSet(JobsOn(j.handle) \ {j})
          /\ Cardinality(JobsOn(j.handle) \ {j}) = Cardinality(JobsOn(j.handle)) - 1
      BY <2>1, <1>3, FS_RemoveElement
    <2>4. Cardinality((JobsOn(j.handle) \ {j}) \cup {k}) = Cardinality(JobsOn(j.handle) \ {j}) + 1
      BY <2>3, <1>3, FS_AddElement
    <2> QED
      BY <2>2, <2>3, <2>4, <1>3
  <1>6. \A h : Cardinality(JobsOn(h)') = Cardinality(JobsOn(h))
    BY <1>3, <1>5
  <1>7. /\ JobFds' = JobFds
        /\ \A m, n \in JobsOn(NoHandle)' : m.fd = n.fd => m = n
        /\ \A m \in JobsOn(NoHandle)' : open[m.fd] = m.op
    <2>1. CASE j.handle = NoHandle
      <3>1. JobFds' = JobFds
        BY <2>1, <1>3 DEF JobFds
      <3>2. \A m, n \in JobsOn(NoHandle)' : m.fd = n.fd => m = n
        BY <2>1, <1>3 DEF FdsApart
      <3>3. \A m \in JobsOn(NoHandle)' : open[m.fd] = m.op
        BY <2>1, <1>3 DEF FdsOpen
      <3> QED
        BY <3>1, <3>2, <3>3
    <2>2. CASE j.handle # NoHandle
      BY <2>2, <1>3 DEF JobFds, FdsApart, FdsOpen
    <2> QED
      BY <2>1, <2>2
  <1>8. TableOk' /\ HelperOk' /\ BackOk'
    BY DEF TableOk, HelperOk, BackOk
  <1>9. MarksOk'
    BY <1>2 DEF MarksOk
  <1>10. ResultOk'
    BY DEF ResultOk, BadOnlyAfterClose
  <1>11. Apart'
    BY <1>2 DEF Apart
  <1>12. Placed'
    BY <1>2 DEF Placed
  <1>13. JobsKept'
    <2>1. \A m \in Jobs' : m.handle # NoHandle =>
            m.handle \in DOMAIN files' /\ files'[m.handle].fd = m.fd
      BY DEF JobsKept
    <2> QED
      BY <2>1, <1>4, <1>6 DEF JobsKept, OpsCountsJobs
  <1>14. Refused'
    BY DEF Refused, Usable
  <1>15. FdsApart' /\ FdsOpen' /\ FdsFew'
    BY <1>2, <1>7 DEF FdsApart, FdsOpen, FdsFew
  <1> QED
    BY <1>8, <1>9, <1>10, <1>11, <1>12, <1>13, <1>14, <1>15

-----------------------------------------------------------------------------
(* Opening.                                                                *)

\* A set of numbers that is not empty has a least element.
LEMMA LeastOf ==
  ASSUME NEW S \in SUBSET Nat, S # {}
  PROVE  \E x \in S : \A y \in S : x <= y
  <1>1. \E x \in S : \A y \in S : ~(<<y, x>> \in OpToRel(<, Nat))
    <2>1. IsWellFoundedOn(OpToRel(<, Nat), Nat)
      BY NatLessThanWellFounded
    <2> QED
      BY <2>1, WFMin
  <1>2. \A x, y \in Nat : y < x => <<y, x>> \in OpToRel(<, Nat)
    BY DEF OpToRel
  <1>3. PICK x \in S : \A y \in S : ~(<<y, x>> \in OpToRel(<, Nat))
    BY <1>1
  <1>4. ASSUME NEW y \in S PROVE x <= y
    <2>1. x \in Nat /\ y \in Nat /\ ~(y < x)
      BY <1>2, <1>3
    <2> QED
      BY <2>1
  <1> QED
    BY <1>4

\* While an op has yet to open its file there is a free descriptor: every one
\* that is open was opened for another op.
LEMMA FreeFdIs ==
  ASSUME IInv, NEW o \in InRx \cup AtHelper
  PROVE  FreeFd \in Fds \ DOMAIN open
  <1> USE DEF IInv
  <1>1. o \in Ops /\ DOMAIN req \subseteq Ops
    BY OutIs, ReqIs
  <1>2. Fds \ DOMAIN open # {}
    <2>1. SUFFICES ASSUME Fds \subseteq DOMAIN open PROVE FALSE
      OBVIOUS
    <2>2. PICK f : f = [fd \in Fds |-> open[fd]]
      OBVIOUS
    <2>3. f \in [Fds -> Ops \ {o}]
      BY <2>1, <2>2, <1>1 DEF FdsFew
    <2>4. \A x, y \in Fds : f[x] = f[y] => x = y
      BY <2>1, <2>2 DEF FdsFew
    <2>5. IsFiniteSet(Fds) /\ Cardinality(Fds) = NOps
      <3>1. NOps \in Nat \ {0}
        BY BoundsAssumption
      <3>2. IsFiniteSet(1 .. NOps) /\ Cardinality(1 .. NOps) = IF 1 > NOps THEN 0 ELSE NOps - 1 + 1
        BY <3>1, FS_Interval
      <3> QED
        BY <3>1, <3>2 DEF Fds, Ops
    <2>6. IsFiniteSet(Ops \ {o}) /\ Cardinality(Ops \ {o}) = Cardinality(Fds) - 1
      BY <2>5, <1>1, FS_RemoveElement DEF Fds
    <2>7. Cardinality(Ops \ {o}) < Cardinality(Fds)
      BY <2>5, <2>6, BoundsAssumption
    <2>8. \E x, y \in Fds : x # y /\ f[x] = f[y]
      BY <2>3, <2>5, <2>6, <2>7, FS_PigeonHole
    <2> QED
      BY <2>4, <2>8
  <1>3. Fds \ DOMAIN open \in SUBSET Nat
    BY BoundsAssumption DEF Fds, Ops
  <1>4. \E x \in Fds \ DOMAIN open : \A y \in Fds \ DOMAIN open : x <= y
    BY <1>2, <1>3, LeastOf
  <1> QED
    BY <1>4 DEF FreeFd

\* The descriptor table after an open for o.
LEMMA OpenFdIs ==
  ASSUME IInv, NEW o \in InRx \cup AtHelper, NEW fd, OpenFd(o, fd)
  PROVE  \/ fd = NoFd /\ open' = open
         \/ /\ fd # NoFd /\ fd \in Fds /\ fd \notin DOMAIN open
            /\ DOMAIN open' = DOMAIN open \cup {fd} /\ open'[fd] = o
            /\ \A f \in DOMAIN open : open'[f] = open[f]
  <1>1. CASE fd = FreeFd /\ open' = Insert(open, fd, o)
    <2>1. fd \in Fds /\ fd \notin DOMAIN open
      BY <1>1, FreeFdIs
    <2>2. fd # NoFd
      BY <2>1, BoundsAssumption DEF Fds, Ops, NoFd
    <2>3. /\ DOMAIN open' = DOMAIN open \cup {fd} /\ open'[fd] = o
          /\ \A f \in DOMAIN open : f # fd => open'[f] = open[f]
      BY <1>1 DEF Insert
    <2> QED
      BY <2>1, <2>2, <2>3
  <1>2. CASE fd = NoFd /\ open' = open
    BY <1>2
  <1> QED
    BY <1>1, <1>2 DEF OpenFd

-----------------------------------------------------------------------------
(* The helper threads.                                                     *)

\* A helper takes a job from its channel.
LEMMA HelperTaken ==
  ASSUME HelperOk, NEW i \in DOMAIN helperQ, helperQ' = RemoveAt(helperQ, i),
         NEW x, x = helperQ[i]
  PROVE  /\ HelperOk' /\ x \in HelperJobs
         /\ x.type = "Open" =>
              x.op \in AtHelper /\ AtHelper' = AtHelper \ {x.op} /\ HelperFds' = HelperFds
         /\ x.type = "Close" =>
              x.fd \in HelperFds /\ HelperFds' = HelperFds \ {x.fd} /\ AtHelper' = AtHelper
  <1>2. /\ helperQ \in Seq(HelperJobs)
        /\ DistinctOps(helperQ, "Open") /\ DistinctFdsAs(helperQ, "Close")
    BY DEF HelperOk
  <1>3. helperQ' \in Seq(HelperJobs) /\ Dropped(helperQ, helperQ', i)
    BY <1>2, RemoveAtDrops
  <1>x. x \in HelperJobs
    BY ONLY <1>2, SeqIs, x = helperQ[i], i \in DOMAIN helperQ
  <1>4. Dropped(helperQ, helperQ', i) /\ helperQ[i] = x
    BY <1>3
  <1>5. /\ x.type = "Open" => AtHelper = AtHelper' \cup {x.op} /\ x.op \notin AtHelper'
        /\ x.type # "Open" => AtHelper' = AtHelper
        /\ DistinctOps(helperQ', "Open")
    BY ONLY <1>2, <1>4, DroppedAs DEF AtHelper
  <1>6. /\ x.type = "Close" => HelperFds = HelperFds' \cup {x.fd} /\ x.fd \notin HelperFds'
        /\ x.type # "Close" => HelperFds' = HelperFds
        /\ DistinctFdsAs(helperQ', "Close")
    BY ONLY <1>2, <1>4, DroppedFdsAs DEF HelperFds
  <1>7. "Open" # "Close"
    OBVIOUS
  <1>8. HelperOk'
    BY <1>3, <1>5, <1>6 DEF HelperOk
  <1>9. x.type = "Open" =>
          x.op \in AtHelper /\ AtHelper' = AtHelper \ {x.op} /\ HelperFds' = HelperFds
    BY <1>5, <1>6, <1>7
  <1>10. x.type = "Close" =>
           x.fd \in HelperFds /\ HelperFds' = HelperFds \ {x.fd} /\ AtHelper' = AtHelper
    BY <1>5, <1>6, <1>7
  <1> QED
    BY <1>x, <1>8, <1>9, <1>10

\* A helper sends an answer back.
LEMMA BackAppended ==
  ASSUME BackOk, NEW x \in Answers, back' = Append(back, x),
         x.op \notin InBack, x.fd # NoFd => x.fd \notin BackFds
  PROVE  /\ BackOk' /\ InBack' = InBack \cup {x.op}
         /\ BackFds' = BackFds \cup ({x.fd} \ {NoFd})
         /\ \A i \in DOMAIN back' : back'[i] = x \/ \E k \in DOMAIN back : back'[i] = back[k]
  <1>1. PICK n : n = Len(back) + 1
    OBVIOUS
  <1>2. back \in Seq(Answers) /\ Distinct(back) /\ DistinctFds(back)
    BY DEF BackOk
  <1>3. back' \in Seq(Answers) /\ Dropped(back', back, n) /\ back'[n] = x
    BY <1>1, <1>2, AppendAdds
  <1>4. Dropped(back', back, n) /\ back'[n] = x
    BY <1>3
  <1>5. InBack' = InBack \cup {x.op} /\ Distinct(back')
    BY ONLY <1>2, <1>4, DroppedOps, x.op \notin InBack DEF InBack
  <1>6. BackFds' = BackFds \cup ({x.fd} \ {NoFd}) /\ DistinctFds(back')
    BY ONLY <1>2, <1>4, DroppedFds, x.fd # NoFd => x.fd \notin BackFds DEF BackFds
  <1>7. \A i \in DOMAIN back' : back'[i] = x \/ \E k \in DOMAIN back : back'[i] = back[k]
    BY <1>4 DEF Dropped
  <1> QED
    BY <1>3, <1>5, <1>6, <1>7 DEF BackOk

\* helper_loop opens a file and sends the descriptor back.
LEMMA HelperOpenIInv ==
  ASSUME IInv, NEW i \in DOMAIN helperQ, helperQ' = RemoveAt(helperQ, i),
         helperQ[i].type = "Open", NEW fd \in Fds \cup {NoFd}, OpenFd(helperQ[i].op, fd),
         back' = Append(back, [op |-> helperQ[i].op, fd |-> fd]),
         UNCHANGED <<rx, clientVars, pc, disconnected, files, next_id, queue,
                     inflight, openVars, result>>
  PROVE  IInv'
  <1> USE DEF IInv
  <1>0. /\ rx' = rx /\ req' = req /\ cancelReq' = cancelReq /\ submittersGone' = submittersGone
        /\ pc' = pc /\ disconnected' = disconnected /\ files' = files /\ next_id' = next_id
        /\ queue' = queue /\ inflight' = inflight /\ pending_opens' = pending_opens
        /\ cancelled_opens' = cancelled_opens /\ result' = result
    BY DEF clientVars, openVars
  <1>1. PICK o : o = helperQ[i].op
    OBVIOUS
  <1>2. /\ HelperOk' /\ o \in AtHelper /\ AtHelper' = AtHelper \ {o} /\ HelperFds' = HelperFds
    BY <1>1, HelperTaken
  <1>3. /\ o \in Ops /\ o \notin InRx \cup InBack \cup InQueue \cup AtKernel \cup Waiting
        /\ o \in DOMAIN req
    BY <1>2, OutIs, ReqIs DEF Apart
  <1>4. \/ fd = NoFd /\ open' = open
        \/ /\ fd # NoFd /\ fd \in Fds /\ fd \notin DOMAIN open
           /\ DOMAIN open' = DOMAIN open \cup {fd} /\ open'[fd] = o
           /\ \A f \in DOMAIN open : open'[f] = open[f]
    BY <1>1, <1>2, OpenFdIs
  <1>5. PICK x : x = [op |-> o, fd |-> fd]
    OBVIOUS
  <1>6. x \in Answers /\ x.op = o /\ x.fd = fd
    BY <1>3, <1>5 DEF Answers
  <1>7. fd # NoFd => fd \notin BackFds
    BY <1>4 DEF FdsOpen
  <1>8. /\ BackOk' /\ InBack' = InBack \cup {o}
        /\ BackFds' = BackFds \cup ({fd} \ {NoFd})
        /\ \A k \in DOMAIN back' : back'[k] = x \/ \E m \in DOMAIN back : back'[k] = back[m]
    BY <1>1, <1>3, <1>5, <1>6, <1>7, BackAppended
  <1>9. /\ InRx' = InRx /\ InQueue' = InQueue /\ AtKernel' = AtKernel /\ Waiting' = Waiting
        /\ HandleFds' = HandleFds /\ Jobs' = Jobs
    BY <1>0 DEF InRx, InQueue, AtKernel, Waiting, HandleFds, Jobs
  <1>10. \A g : JobsOn(g)' = JobsOn(g)
    BY <1>9 DEF JobsOn
  <1>11. JobFds' = JobFds
    BY <1>10 DEF JobFds
  <1>12. ClientOk' /\ RxOk'
    BY <1>0, <1>9 DEF ClientOk, RxOk
  <1>13. PcOk'
    BY <1>0 DEF PcOk, At, Idle
  <1>14. TableOk' /\ QueueOk' /\ KernelOk'
    BY <1>0 DEF TableOk, QueueOk, KernelOk, CancelledNotResubmitted
  <1>15. MarksOk'
    BY <1>0, <1>2, <1>8 DEF MarksOk
  <1>16. ResultOk'
    BY <1>0 DEF ResultOk, BadOnlyAfterClose
  <1>17. Apart'
    BY <1>2, <1>3, <1>8, <1>9 DEF Apart
  <1>18. Placed'
    BY <1>0, <1>2, <1>8, <1>9 DEF Placed
  <1>19. JobsKept'
    BY <1>0, <1>9, <1>10 DEF JobsKept, OpsCountsJobs
  <1>20. Refused'
    BY <1>0, <1>9 DEF Refused, Usable
  <1>21. FdsApart'
    BY <1>2, <1>4, <1>8, <1>9, <1>10, <1>11 DEF FdsApart, FdsOpen
  <1>22. /\ DOMAIN open' = HandleFds' \cup JobFds' \cup HelperFds' \cup BackFds'
         /\ \A f \in DOMAIN open : open'[f] = open[f]
    <2>1. CASE fd = NoFd
      BY <2>1, <1>2, <1>4, <1>8, <1>9, <1>11 DEF FdsOpen
    <2>2. CASE fd # NoFd
      BY <2>2, <1>2, <1>4, <1>8, <1>9, <1>11 DEF FdsOpen
    <2> QED
      BY <2>1, <2>2
  <1>23. FdsOpen'
    <2>1. ASSUME NEW k \in JobsOn(NoHandle) PROVE open'[k.fd] = k.op
      <3>1. k.fd \in JobFds
        BY DEF JobFds
      <3> QED
        BY <3>1, <1>22 DEF FdsOpen
    <2>2. ASSUME NEW k \in DOMAIN back', back'[k].fd # NoFd
          PROVE  open'[back'[k].fd] = back'[k].op
      <3>1. CASE back'[k] = x
        BY <3>1, <2>2, <1>4, <1>6
      <3>2. CASE \E m \in DOMAIN back : back'[k] = back[m]
        <4>1. PICK m \in DOMAIN back : back'[k] = back[m]
          BY <3>2
        <4>2. back[m].fd \in BackFds
          BY <2>2, <4>1 DEF BackFds, FdsOf
        <4> QED
          BY <2>2, <4>1, <4>2, <1>22 DEF FdsOpen
      <3> QED
        BY <3>1, <3>2, <1>8
    <2> QED
      BY <2>1, <2>2, <1>10, <1>22 DEF FdsOpen
  <1>24. FdsFew'
    <2>1. CASE fd = NoFd
      BY <2>1, <1>0, <1>2, <1>4, <1>9 DEF FdsFew
    <2>2. CASE fd # NoFd
      <3>1. \A f \in DOMAIN open : open[f] # o
        BY <1>2 DEF FdsFew
      <3> QED
        BY <2>2, <3>1, <1>0, <1>2, <1>3, <1>4, <1>9 DEF FdsFew
    <2> QED
      BY <2>1, <2>2
  <1> QED
    BY <1>2, <1>8, <1>12, <1>13, <1>14, <1>15, <1>16, <1>17, <1>18, <1>19, <1>20, <1>21,
       <1>23, <1>24

\* helper_loop closes a descriptor the driver gave it.
LEMMA HelperCloseIInv ==
  ASSUME IInv, NEW i \in DOMAIN helperQ, helperQ' = RemoveAt(helperQ, i),
         helperQ[i].type = "Close", CloseFd(helperQ[i].fd),
         UNCHANGED <<rx, clientVars, pc, disconnected, files, next_id, queue,
                     inflight, openVars, back, result>>
  PROVE  IInv'
  <1> USE DEF IInv
  <1>0. /\ rx' = rx /\ req' = req /\ cancelReq' = cancelReq /\ submittersGone' = submittersGone
        /\ pc' = pc /\ disconnected' = disconnected /\ files' = files /\ next_id' = next_id
        /\ queue' = queue /\ inflight' = inflight /\ pending_opens' = pending_opens
        /\ cancelled_opens' = cancelled_opens /\ result' = result /\ back' = back
    BY DEF clientVars, openVars
  <1>1. PICK fd : fd = helperQ[i].fd
    OBVIOUS
  <1>2. /\ HelperOk' /\ fd \in HelperFds /\ HelperFds' = HelperFds \ {fd} /\ AtHelper' = AtHelper
    BY <1>1, HelperTaken
  <1>3. /\ DOMAIN open' = DOMAIN open \ {fd}
        /\ \A f \in DOMAIN open' : open'[f] = open[f]
    BY <1>1 DEF CloseFd, Without
  <1>4. /\ InRx' = InRx /\ InQueue' = InQueue /\ AtKernel' = AtKernel /\ Waiting' = Waiting
        /\ InBack' = InBack /\ HandleFds' = HandleFds /\ BackFds' = BackFds /\ Jobs' = Jobs
    BY <1>0 DEF InRx, InQueue, AtKernel, Waiting, InBack, HandleFds, BackFds, Jobs
  <1>5. \A g : JobsOn(g)' = JobsOn(g)
    BY <1>4 DEF JobsOn
  <1>6. JobFds' = JobFds
    BY <1>5 DEF JobFds
  <1>7. ClientOk' /\ RxOk'
    BY <1>0, <1>4 DEF ClientOk, RxOk
  <1>8. PcOk'
    BY <1>0 DEF PcOk, At, Idle
  <1>9. TableOk' /\ QueueOk' /\ KernelOk' /\ BackOk'
    BY <1>0 DEF TableOk, QueueOk, KernelOk, BackOk, CancelledNotResubmitted
  <1>10. MarksOk'
    BY <1>0, <1>2, <1>4 DEF MarksOk
  <1>11. ResultOk'
    BY <1>0 DEF ResultOk, BadOnlyAfterClose
  <1>12. Apart' /\ Placed'
    BY <1>0, <1>2, <1>4 DEF Apart, Placed
  <1>13. JobsKept'
    BY <1>0, <1>4, <1>5 DEF JobsKept, OpsCountsJobs
  <1>14. Refused'
    BY <1>0, <1>4 DEF Refused, Usable
  <1>15. FdsApart'
    BY <1>2, <1>4, <1>5, <1>6 DEF FdsApart
  <1>16. FdsOpen'
    <2>1. DOMAIN open' = HandleFds' \cup JobFds' \cup HelperFds' \cup BackFds'
      BY <1>2, <1>3, <1>4, <1>6 DEF FdsOpen, FdsApart
    <2>2. ASSUME NEW k \in JobsOn(NoHandle) PROVE open'[k.fd] = k.op
      <3>1. k.fd \in JobFds
        BY DEF JobFds
      <3>2. k.fd \in DOMAIN open'
        BY <3>1, <2>1, <1>6
      <3> QED
        BY <3>2, <1>3 DEF FdsOpen
    <2>3. ASSUME NEW k \in DOMAIN back, back[k].fd # NoFd
          PROVE  open'[back[k].fd] = back[k].op
      <3>1. back[k].fd \in BackFds
        BY <2>3 DEF BackFds, FdsOf
      <3>2. back[k].fd \in DOMAIN open'
        BY <3>1, <2>1, <1>4
      <3> QED
        BY <2>3, <3>2, <1>3 DEF FdsOpen
    <2> QED
      BY <1>0, <1>5, <2>1, <2>2, <2>3 DEF FdsOpen
  <1>17. FdsFew'
    BY <1>0, <1>2, <1>3, <1>4 DEF FdsFew
  <1> QED
    BY <1>2, <1>7, <1>8, <1>9, <1>10, <1>11, <1>12, <1>13, <1>14, <1>15, <1>16, <1>17

\* helper_loop keeps it.
LEMMA HelperStepIInv ==
  ASSUME IInv, NEW i, HelperStep(i)
  PROVE  IInv'
  <1>1. CASE helperQ[i].type = "Open"
    <2>1. PICK fd \in Fds \cup {NoFd} :
            /\ OpenFd(helperQ[i].op, fd)
            /\ back' = Append(back, [op |-> helperQ[i].op, fd |-> fd])
      BY <1>1 DEF HelperStep
    <2> QED
      BY <1>1, <2>1, HelperOpenIInv DEF HelperStep
  <1>2. CASE helperQ[i].type = "Close"
    BY <1>2, HelperCloseIInv DEF HelperStep
  <1> QED
    BY <1>1, <1>2 DEF HelperStep

-----------------------------------------------------------------------------
(* handle_op and handle_opened.                                            *)

\* Moving on to a phase keeps the call stack well formed.
LEMMA PcMoves ==
  ASSUME NEW then \in Phases, pc' = <<then>> \/ pc' = <<"submit", then>>
  PROVE  PcOk'
  <1>1. pc' # <<"exited">>
    BY DEF Phases
  <1> QED
    BY <1>1 DEF PcOk, At

\* Nothing was opened or closed.
LEMMA HeldNothing ==
  ASSUME IInv, NEW o, InRx' \subseteq InRx, UNCHANGED <<back, open>>
  PROVE  Held(o, {})
  <1>1. BackFds' = BackFds
    BY DEF BackFds
  <1> QED
    BY <1>1 DEF IInv, Held, FdsApart, FdsOpen, FdsFew

\* The descriptor, if any, was just opened for o.
LEMMA HeldNew ==
  ASSUME IInv, NEW o \in InRx, NEW fd, OpenFd(o, fd), InRx' = InRx \ {o}, back' = back
  PROVE  /\ fd = NoFd => Held(o, {})
         /\ fd # NoFd => Held(o, {fd})
  <1> USE DEF IInv
  <1>1. BackFds' = BackFds
    BY DEF BackFds
  <1>2. \/ fd = NoFd /\ open' = open
        \/ /\ fd # NoFd /\ fd \in Fds /\ fd \notin DOMAIN open
           /\ DOMAIN open' = DOMAIN open \cup {fd} /\ open'[fd] = o
           /\ \A f \in DOMAIN open : open'[f] = open[f]
    BY OpenFdIs
  <1>3. CASE fd = NoFd
    BY <1>2, <1>3, HeldNothing
  <1>4. CASE fd # NoFd
    <2>1. \A f \in DOMAIN open : open[f] # o
      BY DEF FdsFew
    <2>2. o \in DOMAIN req /\ o \notin AtHelper
      BY OutIs DEF Apart
    <2>3. /\ {fd} \subseteq Fds
          /\ {fd} \cap (HandleFds \cup JobFds \cup HelperFds) = {}
          /\ BackFds' \cap (HandleFds \cup JobFds \cup HelperFds \cup {fd}) = {}
          /\ DOMAIN open' = HandleFds \cup JobFds \cup HelperFds \cup BackFds' \cup {fd}
      BY <1>1, <1>2, <1>4 DEF FdsOpen, FdsApart
    <2>4. \A f \in DOMAIN open' : IF f \in {fd} THEN open'[f] = o ELSE open'[f] = open[f]
      BY <1>2, <1>4
    <2>5. ASSUME NEW i \in DOMAIN back', back'[i].fd # NoFd
          PROVE  open'[back'[i].fd] = back'[i].op
      <3>1. back[i].fd \in BackFds
        BY <2>5 DEF BackFds, FdsOf
      <3> QED
        BY <2>5, <3>1, <1>2, <1>4 DEF FdsOpen
    <2>6. \A f, g \in DOMAIN open' : open'[f] = open'[g] => f = g
      BY <2>1, <1>2, <1>4 DEF FdsFew
    <2>7. \A f \in DOMAIN open' : open'[f] \in DOMAIN req \ (InRx' \cup AtHelper)
      BY <2>2, <1>2, <1>4 DEF FdsFew
    <2> QED
      BY <1>4, <2>3, <2>4, <2>5, <2>6, <2>7 DEF Held
  <1> QED
    BY <1>3, <1>4

\* The descriptor, if any, came back from a helper; it is o's or was closed.
LEMMA HeldBack ==
  ASSUME IInv, back # <<>>, back' = Tail(back), InRx' = InRx,
         NEW o, o = Head(back).op, NEW fd, fd = Head(back).fd
  PROVE  /\ open' = open => (IF fd = NoFd THEN Held(o, {}) ELSE Held(o, {fd}))
         /\ UndoOpen(fd) => Held(o, {})
  <1> USE DEF IInv
  <1>1. /\ BackFds' = BackFds \ {fd}
        /\ fd # NoFd => fd \in BackFds /\ open[fd] = o
        /\ \A i \in DOMAIN back' : \E j \in DOMAIN back : back'[i] = back[j]
        /\ DistinctFds(back')
    BY BackTaken DEF BackOk
  <1>2. NoFd \notin BackFds
    BY DEF BackFds, FdsOf
  <1>3. BackFds \subseteq Fds
    <2>1. back \in Seq(Answers)
      BY DEF BackOk
    <2>2. \A i \in DOMAIN back : back[i] \in Answers
      BY ONLY <2>1, SeqIs
    <2> QED
      BY <2>2 DEF BackFds, FdsOf, Answers
  <1>4. \A i \in DOMAIN back' : back'[i].fd # NoFd =>
          back'[i].fd \in BackFds' /\ open[back'[i].fd] = back'[i].op
    <2>1. \A i \in DOMAIN back' : back'[i].fd # NoFd => back'[i].fd \in BackFds'
      BY DEF BackFds, FdsOf
    <2> QED
      BY <2>1, <1>1 DEF FdsOpen
  <1>5. ASSUME fd = NoFd, open' = open PROVE Held(o, {})
    BY <1>1, <1>2, <1>4, <1>5 DEF Held, FdsApart, FdsOpen, FdsFew
  <1>6. ASSUME fd # NoFd, open' = open PROVE Held(o, {fd})
    <2>1. /\ {fd} \subseteq Fds
          /\ {fd} \cap (HandleFds \cup JobFds \cup HelperFds) = {}
          /\ BackFds' \cap (HandleFds \cup JobFds \cup HelperFds \cup {fd}) = {}
          /\ DOMAIN open' = HandleFds \cup JobFds \cup HelperFds \cup BackFds' \cup {fd}
      BY <1>1, <1>3, <1>6 DEF FdsOpen, FdsApart
    <2>2. \A f \in DOMAIN open' : IF f \in {fd} THEN open'[f] = o ELSE open'[f] = open[f]
      BY <1>1, <1>6
    <2> QED
      BY <2>1, <2>2, <1>4, <1>6 DEF Held, FdsFew
  <1>7. ASSUME fd # NoFd, UndoOpen(fd) PROVE Held(o, {})
    <2>1. /\ DOMAIN open' = DOMAIN open \ {fd}
          /\ \A f \in DOMAIN open' : open'[f] = open[f]
      BY <1>7 DEF UndoOpen, CloseFd, Without
    <2>2. /\ BackFds' \cap (HandleFds \cup JobFds \cup HelperFds) = {}
          /\ DOMAIN open' = HandleFds \cup JobFds \cup HelperFds \cup BackFds'
      BY <2>1, <1>1, <1>7 DEF FdsOpen, FdsApart
    <2>3. \A i \in DOMAIN back' : back'[i].fd # NoFd => open'[back'[i].fd] = back'[i].op
      BY <2>1, <2>2, <1>4
    <2>4. /\ \A f, g \in DOMAIN open' : open'[f] = open'[g] => f = g
          /\ \A f \in DOMAIN open' : open'[f] \in DOMAIN req \ (InRx' \cup AtHelper)
      BY <2>1 DEF FdsFew
    <2> QED
      BY <2>1, <2>2, <2>3, <2>4 DEF Held
  <1>8. ASSUME fd = NoFd, UndoOpen(fd) PROVE Held(o, {})
    BY <1>5, <1>8 DEF UndoOpen
  <1> QED
    BY <1>5, <1>6, <1>7, <1>8

\* opened: the op settles, becomes a handle, or goes on as a job.
LEMMA OpenedIInv ==
  ASSUME IInv, NEW o, NEW fd, NEW then \in Phases, Taken(o), Unmarked(o),
         fd = NoFd => Held(o, {}), fd # NoFd => Held(o, {fd}),
         Opened(o, fd, then), UNCHANGED <<inflight, helperQ>>
  PROVE  IInv'
  <1>1. CASE /\ fd = NoFd /\ Settle(o, "done") /\ pc' = <<then>>
             /\ UNCHANGED <<files, next_id, queue>>
    <2>1. "done" \in Results \ {"none"} /\ "done" # "bad"
      BY DEF Results
    <2>2. PcOk'
      BY <1>1, PcMoves
    <2> QED
      BY <1>1, <2>1, <2>2, SettledIInv
  <1>2. CASE fd # NoFd /\ Register(o, fd, then)
    <2>1. PcOk'
      BY <1>2, PcMoves DEF Register
    <2> QED
      BY <1>2, <2>1, RegisterIInv
  <1>3. CASE fd # NoFd /\ Enqueue(NewJob(o, fd, NoHandle), then) /\ UNCHANGED <<next_id, result>>
    <2>1. PcOk'
      BY <1>3, PcMoves DEF Enqueue
    <2>2. PICK h : h = NoHandle
      OBVIOUS
    <2>3. Held(o, IF h = NoHandle THEN {fd} ELSE {})
      BY <1>3, <2>2
    <2>4. Enqueue(NewJob(o, fd, h), then)
      BY <1>3, <2>2
    <2> QED
      BY <1>3, <2>1, <2>2, <2>3, <2>4, EnqueueIInv
  <1> QED
    BY <1>1, <1>2, <1>3 DEF Opened

\* handle_op keeps it, whatever the op.
LEMMA HandleOpIInv ==
  ASSUME IInv, NEW o \in InRx, NEW then \in Phases, Taken(o), back' = back, HandleOp(o, then)
  PROVE  IInv'
  <1> USE DEF IInv
  <1>1. /\ o \in DOMAIN req /\ o \notin AtHelper /\ o \notin InBack /\ req[o] \in Reqs
        /\ InRx' = InRx \ {o}
    BY TakenIs, ReqIs DEF Taken
  <1>2. ASSUME UNCHANGED openVars PROVE Unmarked(o)
    BY <1>1, <1>2 DEF openVars, Unmarked, MarksOk
  <1>3. ASSUME open' = open PROVE Held(o, {})
    BY <1>1, <1>3, HeldNothing
  <1>4. ASSUME pc' = <<then>> PROVE PcOk'
    BY <1>4, PcMoves
  <1>r. /\ "done" \in Results \ {"none"} /\ "bad" \in Results \ {"none"} /\ "done" # "bad"
    BY DEF Results
  <1>5. PICK h : h = req[o].handle
    OBVIOUS
  <1>6. req[o].kind = "Close" => req[o] = [kind |-> "Close", handle |-> h]
    BY <1>1, <1>5 DEF Reqs
  <1>7. ASSUME req[o].kind = "Nop", HandleNop(o, then) PROVE IInv'
    BY <1>7, <1>2, <1>3, <1>4, <1>r, SettledIInv DEF HandleNop
  <1>8. ASSUME req[o].kind = "Stat", HandleStat(o, then) PROVE IInv'
    <2>1. /\ Unmarked(o) /\ Held(o, {}) /\ PcOk' /\ req[o].kind \in HandleKinds
          /\ UNCHANGED <<files, next_id, queue, inflight, helperQ>>
      BY <1>8, <1>2, <1>3, <1>4 DEF HandleStat, HandleKinds
    <2>2. CASE ~Usable(req[o].handle) /\ Settle(o, "bad")
      BY <2>1, <2>2, <1>r, SettledIInv
    <2>3. CASE Settle(o, "done")
      BY <2>1, <2>3, <1>r, SettledIInv
    <2> QED
      BY <1>8, <2>2, <2>3 DEF HandleStat
  <1>9. ASSUME req[o].kind = "Io", HandleIo(o, then) PROVE IInv'
    <2>1. /\ Unmarked(o) /\ Held(o, {}) /\ req[o].kind \in HandleKinds
          /\ UNCHANGED <<next_id, inflight, helperQ>>
      BY <1>9, <1>2, <1>3 DEF HandleIo, HandleKinds
    <2>2. CASE ~Usable(h) /\ Settle(o, "bad") /\ pc' = <<then>> /\ UNCHANGED <<files, queue>>
      BY <2>1, <2>2, <1>4, <1>5, <1>r, SettledIInv
    <2>3. CASE /\ Usable(h) /\ Enqueue(NewJob(o, files[h].fd, h), then)
               /\ UNCHANGED result
      <3>1. PICK fd : fd = files[h].fd
        OBVIOUS
      <3>2. h # NoHandle /\ h \in Handles
        BY <2>3, <1>1, <1>5 DEF Usable, TableOk, NoHandle, Reqs
      <3>3. Held(o, IF h = NoHandle THEN {fd} ELSE {})
        BY <2>1, <3>2
      <3>4. PcOk'
        BY <2>3, PcMoves DEF Enqueue
      <3>5. Enqueue(NewJob(o, fd, h), then)
        BY <2>3, <3>1
      <3> QED
        BY <2>1, <2>3, <3>1, <3>2, <3>3, <3>4, <3>5, EnqueueIInv
    <2> QED
      BY <1>9, <1>5, <2>2, <2>3 DEF HandleIo
  <1>10. ASSUME req[o].kind = "Close", HandleClose(o, then) PROVE IInv'
    <2>1. /\ Unmarked(o) /\ PcOk' /\ req[o].kind \in HandleKinds
          /\ UNCHANGED <<next_id, queue, inflight, helperQ>>
      BY <1>10, <1>2, <1>4 DEF HandleClose, HandleKinds
    <2>2. CASE ~Usable(h) /\ Settle(o, "bad") /\ UNCHANGED <<files, open>>
      BY <2>1, <2>2, <1>3, <1>5, <1>r, SettledIInv
    <2>3. CASE /\ Usable(h) /\ DefersClose(h) /\ files' = [files EXCEPT ![h].closing = {o}]
               /\ UNCHANGED <<open, result>>
      BY <2>1, <2>3, <1>3, <1>6, <1>10, DeferIInv
    <2>4. CASE /\ Usable(h) /\ ~DefersClose(h) /\ files' = Without(files, h)
               /\ CloseFd(files[h].fd) /\ Settle(o, "done")
      BY <2>1, <2>4, <1>6, <1>10, CloseNowIInv
    <2> QED
      BY <1>10, <1>5, <2>2, <2>3, <2>4 DEF HandleClose
  <1>11. ASSUME HandleOpen(o, then) PROVE IInv'
    <2>1. inflight' = inflight /\ cancelled_opens' = cancelled_opens
      BY <1>11 DEF HandleOpen
    <2>2. CASE /\ \E fd \in Fds \cup {NoFd} : OpenFd(o, fd) /\ Opened(o, fd, then)
               /\ UNCHANGED <<pending_opens, helperQ>>
      <3>1. PICK fd \in Fds \cup {NoFd} : OpenFd(o, fd) /\ Opened(o, fd, then)
        BY <2>2
      <3>2. (fd = NoFd => Held(o, {})) /\ (fd # NoFd => Held(o, {fd}))
        BY <3>1, <1>1, HeldNew
      <3>3. Unmarked(o)
        BY <2>1, <2>2, <1>2 DEF openVars
      <3> QED
        BY <2>1, <2>2, <3>1, <3>2, <3>3, OpenedIInv
    <2>3. CASE /\ pending_opens' = pending_opens \cup {o}
               /\ helperQ' = Append(helperQ, [type |-> "Open", op |-> o])
               /\ pc' = <<then>>
               /\ UNCHANGED <<files, next_id, queue, open, result>>
      BY <2>1, <2>3, <1>4, HandOverIInv
    <2> QED
      BY <1>11, <2>2, <2>3 DEF HandleOpen
  <1> QED
    BY <1>7, <1>8, <1>9, <1>10, <1>11 DEF HandleOp

\* handle_opened keeps it, for a cancelled op and for one that is not.
LEMMA HandleOpenedIInv ==
  ASSUME IInv, NEW then \in Phases, HandleOpened(then)
  PROVE  IInv'
  <1> USE DEF IInv
  <1>0. /\ back # <<>> /\ back' = Tail(back)
        /\ rx' = rx /\ req' = req /\ cancelReq' = cancelReq /\ submittersGone' = submittersGone
        /\ disconnected' = disconnected /\ inflight' = inflight /\ helperQ' = helperQ
    BY DEF HandleOpened, clientVars
  <1>1. PICK o, fd : o = Head(back).op /\ fd = Head(back).fd
    OBVIOUS
  <1>2. /\ BackOk' /\ o \in InBack /\ InBack' = InBack \ {o}
    BY <1>0, <1>1, BackTaken
  <1>3. InRx' = InRx
    BY <1>0 DEF InRx
  <1>4. RxOk' /\ ClientOk'
    BY <1>0, <1>3 DEF RxOk, ClientOk
  <1>5. Taken(o)
    <2>1. InRx = InRx \ {o}
      BY <1>2 DEF Apart
    <2> QED
      BY <2>1, <1>0, <1>2, <1>3, <1>4 DEF Taken
  <1>6. Unmarked(o)
    BY <1>1 DEF HandleOpened, Unmarked
  <1>7. /\ open' = open => (IF fd = NoFd THEN Held(o, {}) ELSE Held(o, {fd}))
        /\ UndoOpen(fd) => Held(o, {})
    BY <1>0, <1>1, <1>3, HeldBack
  <1>8. CASE /\ UndoOpen(fd) /\ Settle(o, "cancelled") /\ pc' = <<then>>
             /\ UNCHANGED <<files, next_id, queue>>
    <2>1. "cancelled" \in Results \ {"none"} /\ "cancelled" # "bad"
      BY DEF Results
    <2>2. PcOk'
      BY <1>8, PcMoves
    <2> QED
      BY <1>0, <1>5, <1>6, <1>7, <1>8, <2>1, <2>2, SettledIInv
  <1>9. CASE Opened(o, fd, then) /\ UNCHANGED open
    BY <1>0, <1>5, <1>6, <1>7, <1>9, OpenedIInv
  <1> QED
    BY <1>1, <1>8, <1>9 DEF HandleOpened

-----------------------------------------------------------------------------
(* Cancels, the queue and the kernel.                                      *)

\* A job leaves the queue.
LEMMA QueueDropped ==
  ASSUME IInv, NEW i, queue' \in Seq(Job), Dropped(queue, queue', i), NEW job, job = queue[i]
  PROVE  /\ QueueOk' /\ job \in Jobs /\ job \in Range(queue) /\ ~job.cancelled
         /\ job.op \in InQueue /\ InQueue' = InQueue \ {job.op}
         /\ job.op \notin AtKernel
         /\ Range(queue') = Range(queue) \ {job}
  <1> USE DEF IInv
  <1>1. Distinct(queue) /\ \A k \in DOMAIN queue : ~queue[k].cancelled
    BY DEF QueueOk, CancelledNotResubmitted
  <1>2. Dropped(queue, queue', i) /\ job = queue[i]
    OBVIOUS
  <1>3. /\ InQueue = InQueue' \cup {job.op} /\ Distinct(queue') /\ job.op \notin InQueue'
        /\ Range(queue) = Range(queue') \cup {job}
    BY ONLY <1>1, <1>2, DroppedOps DEF InQueue
  <1>4. job \notin Range(queue')
    BY <1>3 DEF InQueue, OpsOf, Range
  <1>5. job \in Range(queue) /\ job \in Jobs
    BY <1>3 DEF Jobs
  <1>6. CancelledNotResubmitted' /\ ~job.cancelled
    BY <1>1, <1>2 DEF Dropped, CancelledNotResubmitted
  <1>7. job.op \in InQueue /\ job.op \notin AtKernel
    BY <1>3 DEF Apart
  <1> QED
    BY <1>3, <1>4, <1>5, <1>6, <1>7 DEF QueueOk

\* A job leaves the queue for good.
LEMMA FromQueue ==
  ASSUME IInv, NEW i, queue' \in Seq(Job), Dropped(queue, queue', i), NEW job, job = queue[i],
         RxOk', ClientOk', PcOk', InRx' = InRx,
         UNCHANGED <<req, cancelReq, next_id, pending_opens, cancelled_opens, back, inflight>>
  PROVE  JobTaken(job)
  <1>1. /\ QueueOk' /\ job \in Jobs /\ job.op \in InQueue /\ InQueue' = InQueue \ {job.op}
        /\ job.op \notin AtKernel
        /\ Range(queue') = Range(queue) \ {job}
    BY QueueDropped
  <1>2. AtKernel' = AtKernel /\ AtKernel = AtKernel \ {job.op}
    BY <1>1 DEF AtKernel
  <1>3. job \notin {e.job : e \in inflight}
    BY <1>1 DEF AtKernel
  <1>4. Jobs' = Jobs \ {job}
    BY <1>1, <1>3 DEF Jobs
  <1>5. KernelOk'
    BY DEF IInv, KernelOk
  <1> QED
    BY <1>1, <1>2, <1>4, <1>5 DEF JobTaken

\* A request's job or status changes.
LEMMA RequestChanged ==
  ASSUME IInv, NEW e \in inflight, NEW f \in Requests, inflight' = (inflight \ {e}) \cup {f},
         f.job.op = e.job.op, queue' = queue, cancelReq' = cancelReq,
         f.job.cancelled \/ f.status = "cancelled" => f.job.op \in cancelReq
  PROVE  /\ QueueOk' /\ KernelOk' /\ e.job \in Jobs
         /\ Jobs' = (Jobs \ {e.job}) \cup {f.job}
         /\ InQueue' = InQueue /\ AtKernel' = AtKernel
  <1> USE DEF IInv
  <1>1. QueueOk' /\ InQueue' = InQueue
    BY DEF QueueOk, CancelledNotResubmitted, InQueue
  <1>2. AtKernel' = AtKernel
    BY DEF AtKernel
  <1>3. \A x, y \in inflight : x.job.op = y.job.op => x = y
    BY DEF KernelOk
  <1>4. KernelOk'
    <2>1. inflight' \subseteq Requests
      BY DEF KernelOk
    <2>2. \A x, y \in inflight' : x.job.op = y.job.op => x = y
      BY <1>3
    <2>3. \A x \in inflight' : x.job.cancelled \/ x.status = "cancelled" => x.job.op \in cancelReq'
      BY DEF KernelOk
    <2> QED
      BY <2>1, <2>2, <2>3 DEF KernelOk
  <1>5. e.job \notin Range(queue)
    <2>1. e.job.op \in AtKernel
      BY DEF AtKernel
    <2>2. \A x \in Range(queue) : x.op \in InQueue
      BY DEF InQueue, OpsOf, Range
    <2> QED
      BY <2>1, <2>2 DEF Apart
  <1>6. {x.job : x \in inflight'} = ({x.job : x \in inflight} \ {e.job}) \cup {f.job}
    BY <1>3
  <1>7. e.job \in Jobs
    BY DEF Jobs
  <1> QED
    BY <1>1, <1>2, <1>4, <1>5, <1>6, <1>7 DEF Jobs

\* A request leaves the kernel.
LEMMA RequestTaken ==
  ASSUME IInv, NEW e \in inflight, inflight' = inflight \ {e}, cancelReq' = cancelReq
  PROVE  /\ KernelOk' /\ e.job \in Jobs /\ e.job \in Job
         /\ e.job.op \in AtKernel /\ AtKernel' = AtKernel \ {e.job.op}
         /\ {x.job : x \in inflight'} = {x.job : x \in inflight} \ {e.job}
         /\ e.job \notin Range(queue) /\ e.job.op \notin InQueue
  <1> USE DEF IInv
  <1>1. \A x, y \in inflight : x.job.op = y.job.op => x = y
    BY DEF KernelOk
  <1>2. KernelOk'
    BY DEF KernelOk
  <1>3. e.job.op \in AtKernel /\ AtKernel' = AtKernel \ {e.job.op}
    BY <1>1 DEF AtKernel
  <1>4. \A x \in Range(queue) : x.op \in InQueue
    BY DEF InQueue, OpsOf, Range
  <1>5. e.job.op \notin InQueue /\ e.job \notin Range(queue)
    BY <1>3, <1>4 DEF Apart
  <1>6. {x.job : x \in inflight'} = {x.job : x \in inflight} \ {e.job}
    BY <1>1
  <1>7. e.job \in Jobs /\ e.job \in Job
    BY DEF Jobs, KernelOk, Requests
  <1> QED
    BY <1>2, <1>3, <1>5, <1>6, <1>7

\* cancel keeps it, wherever the op is.
LEMMA CancelOpIInv ==
  ASSUME IInv, NEW o \in cancelReq, NEW then \in Phases, CancelOp(o, then),
         RxOk', ClientOk', InRx' = InRx, UNCHANGED <<req, cancelReq, back, disconnected>>
  PROVE  IInv'
  <1> USE DEF IInv
  <1>1. ASSUME CancelQueued(o, then) PROVE IInv'
    <2>1. PICK i \in DOMAIN queue :
            /\ queue' = RemoveAt(queue, i)
            /\ Finish(queue[i], "cancelled")
            /\ pc' = <<then>>
            /\ UNCHANGED <<next_id, inflight, openVars>>
      BY <1>1 DEF CancelQueued
    <2>2. PICK job : job = queue[i]
      OBVIOUS
    <2>3. queue \in Seq(Job)
      BY DEF QueueOk
    <2>4. queue' \in Seq(Job) /\ Dropped(queue, queue', i)
      BY <2>1, <2>3, RemoveAtDrops
    <2>5. PcOk'
      BY <2>1, PcMoves
    <2>6. UNCHANGED <<next_id, inflight, pending_opens, cancelled_opens>>
      BY <2>1 DEF openVars
    <2>7. JobTaken(job)
      BY <2>2, <2>4, <2>5, <2>6, FromQueue
    <2> QED
      BY <2>1, <2>2, <2>7, FinishIInv
  <1>2. ASSUME CancelInflight(o, then) PROVE IInv'
    <2>1. PICK e \in inflight :
            /\ e.job.op = o
            /\ \E status \in {e.status} \cup
                             (IF e.status = "running" THEN {"cancelled"} ELSE {}) :
                 inflight' = (inflight \ {e}) \cup
                   {[job |-> [e.job EXCEPT !.cancelled = TRUE], status |-> status]}
            /\ pc' = <<then>>
            /\ UNCHANGED <<files, next_id, queue, openVars, helperQ, open, result>>
      BY <1>2 DEF CancelInflight
    <2>2. PICK status \in {e.status, "cancelled"} :
            inflight' = (inflight \ {e}) \cup
              {[job |-> [e.job EXCEPT !.cancelled = TRUE], status |-> status]}
      BY <2>1
    <2>3. PICK k : k = [e.job EXCEPT !.cancelled = TRUE]
      OBVIOUS
    <2>4. PICK f : f = [job |-> k, status |-> status]
      OBVIOUS
    <2>5. e \in Requests /\ e.job \in Job
      BY DEF KernelOk, Requests
    <2>6. k \in Job /\ k.op = e.job.op /\ k.fd = e.job.fd /\ k.handle = e.job.handle
      BY <2>3, <2>5 DEF Job
    <2>7. f \in Requests /\ f.job = k
      BY <2>4, <2>5, <2>6 DEF Requests
    <2>8. inflight' = (inflight \ {e}) \cup {f}
      BY <2>2, <2>3, <2>4
    <2>9. /\ QueueOk' /\ KernelOk' /\ e.job \in Jobs
          /\ Jobs' = (Jobs \ {e.job}) \cup {k}
          /\ InQueue' = InQueue /\ AtKernel' = AtKernel
      BY <2>1, <2>6, <2>7, <2>8, RequestChanged
    <2>10. InQueue \cap AtKernel = {}
      BY DEF Apart
    <2>11. PcOk'
      BY <2>1, PcMoves
    <2>12. UNCHANGED <<files, next_id, pending_opens, cancelled_opens, helperQ, open, result>>
      BY <2>1 DEF openVars
    <2> QED
      BY <2>6, <2>9, <2>10, <2>11, <2>12, JobMovedIInv
  <1>3. ASSUME CancelElse(o, then) PROVE IInv'
    <2>1. PcOk'
      BY <1>3, PcMoves DEF CancelElse
    <2>2. /\ cancelled_opens \subseteq cancelled_opens'
          /\ cancelled_opens' \subseteq pending_opens \cap cancelReq'
      BY <1>3 DEF CancelElse, MarkIfOut, MarksOk
    <2>3. UNCHANGED <<files, next_id, queue, inflight, pending_opens, helperQ, open, result>>
      BY <1>3 DEF CancelElse
    <2> QED
      BY <2>1, <2>2, <2>3, QuietIInv
  <1> QED
    BY <1>1, <1>2, <1>3 DEF CancelOp

\* Taking a message from the channel keeps it.
LEMMA HandleMsgIInv ==
  ASSUME IInv, NEW then \in Phases, HandleMsg(then)
  PROVE  IInv'
  <1> USE DEF IInv
  <1>0. /\ rx # <<>> /\ rx' = Tail(rx) /\ UNCHANGED <<clientVars, disconnected>> /\ back' = back
    BY DEF HandleMsg
  <1>1. PICK m : m = Head(rx)
    OBVIOUS
  <1>2. /\ m \in Msgs /\ m.op \in DOMAIN req /\ RxOk' /\ ClientOk'
        /\ m.type = "Submit" => m.op \in InRx /\ InRx' = InRx \ {m.op}
        /\ m.type = "Cancel" => m.op \in cancelReq /\ InRx' = InRx
    BY <1>0, <1>1, RxTaken
  <1>3. CASE m.type = "Submit" /\ HandleOp(m.op, then)
    <2>1. InBack' = InBack /\ BackOk' /\ m.op \notin InBack
      BY <1>0, <1>2, <1>3 DEF InBack, BackOk, Apart
    <2>2. Taken(m.op)
      BY <2>1, <1>0, <1>2, <1>3 DEF Taken, clientVars
    <2> QED
      BY <2>2, <1>0, <1>2, <1>3, HandleOpIInv
  <1>4. CASE m.type = "Cancel" /\ CancelOp(m.op, then)
    BY <1>0, <1>2, <1>4, CancelOpIInv DEF clientVars
  <1> QED
    BY <1>1, <1>3, <1>4 DEF HandleMsg

-----------------------------------------------------------------------------
(* The driver's own steps.                                                 *)

\* A step of the driver thread that only moves on.
LEMMA MovesIInv ==
  ASSUME IInv, PcOk', disconnected' \in BOOLEAN,
         disconnected' => disconnected \/ (submittersGone /\ rx = <<>>),
         UNCHANGED <<rx, clientVars, files, next_id, queue, inflight, openVars,
                     helperQ, back, open, result>>
  PROVE  IInv'
  <1> USE DEF IInv
  <1>1. UNCHANGED <<rx, submittersGone, req, cancelReq, files, next_id, queue, inflight,
                    pending_opens, cancelled_opens, helperQ, back, open, result>>
    BY DEF clientVars, openVars
  <1>2. InRx' = InRx
    BY <1>1 DEF InRx
  <1>3. ClientOk'
    BY <1>1 DEF ClientOk
  <1>4. RxOk'
    BY <1>1, <1>2 DEF RxOk
  <1>5. cancelled_opens' \subseteq pending_opens \cap cancelReq'
    BY <1>1 DEF MarksOk
  <1> QED
    BY <1>1, <1>2, <1>3, <1>4, <1>5, QuietIInv

\* Driver::cancel keeps it.
LEMMA CancelIInv ==
  ASSUME IInv, NEW o \in Ops, Cancel(o)
  PROVE  IInv'
  <1> USE DEF IInv
  <1>1. /\ ~submittersGone /\ o \in DOMAIN req
        /\ cancelReq' = cancelReq \cup {o}
        /\ rx' = Append(rx, [type |-> "Cancel", op |-> o])
        /\ UNCHANGED <<submittersGone, req, pc, disconnected, files, next_id, queue,
                       inflight, pending_opens, cancelled_opens, helperQ, back, open, result>>
    BY DEF Cancel, openVars
  <1>2. PICK m : m = [type |-> "Cancel", op |-> o]
    OBVIOUS
  <1>3. m \in Msgs /\ m.type = "Cancel" /\ m.type # "Submit" /\ m.op = o
    BY <1>2 DEF Msgs
  <1>4. rx \in Seq(Msgs) /\ rx' = Append(rx, m)
    BY <1>1, <1>2 DEF RxOk
  <1>5. /\ rx' \in Seq(Msgs) /\ InRx' = InRx
        /\ \A i \in DOMAIN rx' : (i \in DOMAIN rx /\ rx'[i] = rx[i]) \/ rx'[i] = m
        /\ InOrder(rx) => InOrder(rx')
    BY ONLY <1>3, <1>4, RxAppended, Zenon
  <1>6. RxOk'
    BY <1>1, <1>3, <1>5 DEF RxOk
  <1>7. ClientOk'
    BY <1>1 DEF ClientOk
  <1>8. PcOk'
    BY <1>1 DEF PcOk, At, Idle
  <1>9. cancelReq \subseteq cancelReq' /\ cancelled_opens' \subseteq pending_opens \cap cancelReq'
    BY <1>1 DEF MarksOk
  <1> QED
    BY <1>1, <1>5, <1>6, <1>7, <1>8, <1>9, QuietIInv

\* Dropping the last Driver keeps it.
LEMMA DropSubmittersIInv ==
  ASSUME IInv, DropSubmitters
  PROVE  IInv'
  <1> USE DEF IInv
  <1>1. /\ submittersGone' = TRUE
        /\ UNCHANGED <<rx, req, cancelReq, pc, disconnected, files, next_id, queue, inflight,
                       pending_opens, cancelled_opens, helperQ, back, open, result>>
    BY DEF DropSubmitters, openVars
  <1>2. InRx' = InRx
    BY <1>1 DEF InRx
  <1>3. ClientOk' /\ RxOk'
    BY <1>1, <1>2 DEF ClientOk, RxOk
  <1>4. PcOk'
    BY <1>1 DEF PcOk, At, Idle
  <1>5. cancelled_opens' \subseteq pending_opens \cap cancelReq'
    BY <1>1 DEF MarksOk
  <1> QED
    BY <1>1, <1>2, <1>3, <1>4, <1>5, QuietIInv

\* Where the driver thread is when it reaps, and when it submits.
LEMMA PcStays ==
  ASSUME IInv, At("reap") \/ Head(pc) = "submit", pc' = pc
  PROVE  PcOk'
  <1>1. PICK label \in Phases \cup {"exited"} : pc = <<label>> \/ pc = <<"submit", label>>
    BY DEF IInv, PcOk
  <1>2. Head(pc) # "exited"
    BY DEF At
  <1>3. pc # <<"exited">>
    BY <1>2
  <1> QED
    BY <1>3 DEF IInv, PcOk, At

\* submit_ready returns to one of the phases.
LEMMA SubmitGoesTo ==
  ASSUME IInv, Head(pc) = "submit"
  PROVE  pc[2] \in Phases
  <1>1. ASSUME NEW label \in Phases \cup {"exited"}, pc = <<label>> PROVE FALSE
    BY <1>1 DEF Phases
  <1>2. PICK label \in Phases : pc = <<"submit", label>>
    BY <1>1 DEF IInv, PcOk
  <1> QED
    BY <1>2

\* The last chunk of a transfer, or an error.
LEMMA ReapFinishIInv ==
  ASSUME IInv, NEW e \in inflight, inflight' = inflight \ {e}, At("reap"),
         NEW r \in {"done", "cancelled"}, Finish(e.job, r),
         UNCHANGED <<rx, clientVars, pc, disconnected, next_id, queue, openVars, back>>
  PROVE  IInv'
  <1> USE DEF IInv
  <1>1. UNCHANGED <<rx, submittersGone, req, cancelReq, pc, disconnected, next_id, queue,
                    pending_opens, cancelled_opens, back>>
    BY DEF clientVars, openVars
  <1>2. /\ KernelOk' /\ e.job \in Jobs
        /\ AtKernel' = AtKernel \ {e.job.op}
        /\ {x.job : x \in inflight'} = {x.job : x \in inflight} \ {e.job}
        /\ e.job \notin Range(queue) /\ e.job.op \notin InQueue
    BY <1>1, RequestTaken
  <1>3. Jobs' = Jobs \ {e.job}
    BY <1>1, <1>2 DEF Jobs
  <1>4. InQueue' = InQueue \ {e.job.op}
    BY <1>1, <1>2 DEF InQueue
  <1>5. InRx' = InRx
    BY <1>1 DEF InRx
  <1>6. QueueOk' /\ ClientOk' /\ RxOk'
    BY <1>1, <1>5 DEF QueueOk, CancelledNotResubmitted, ClientOk, RxOk
  <1>7. PcOk'
    BY <1>1, PcStays
  <1>8. JobTaken(e.job)
    BY <1>1, <1>2, <1>3, <1>4, <1>5, <1>6, <1>7 DEF JobTaken
  <1> QED
    BY <1>8, FinishIInv

\* The rest of a transfer goes to the queue's front.
LEMMA ResubmitIInv ==
  ASSUME IInv, NEW e \in inflight, inflight' = inflight \ {e},
         MayHaveMore(e.job), Resubmits(e.job),
         queue' = <<[e.job EXCEPT !.chunk = @ + 1]>> \o queue,
         pc' = <<"submit", "reap">>,
         UNCHANGED <<rx, clientVars, disconnected, files, next_id, openVars, helperQ, back,
                     open, result>>
  PROVE  IInv'
  <1> USE DEF IInv
  <1>1. UNCHANGED <<rx, submittersGone, req, cancelReq, disconnected, files, next_id,
                    pending_opens, cancelled_opens, helperQ, back, open, result>>
    BY DEF clientVars, openVars
  <1>2. /\ KernelOk' /\ e.job \in Jobs /\ e.job \in Job
        /\ e.job.op \in AtKernel /\ AtKernel' = AtKernel \ {e.job.op}
        /\ {x.job : x \in inflight'} = {x.job : x \in inflight} \ {e.job}
        /\ e.job \notin Range(queue) /\ e.job.op \notin InQueue
    BY <1>1, RequestTaken
  <1>3. PICK k : k = [e.job EXCEPT !.chunk = @ + 1]
    OBVIOUS
  <1>4. /\ k \in Job /\ k.op = e.job.op /\ k.fd = e.job.fd /\ k.handle = e.job.handle
        /\ ~k.cancelled
    <2>1. e.job.chunk + 1 \in 1 .. MaxChunks /\ ~e.job.cancelled
      BY <1>2, BoundsAssumption DEF Job, MayHaveMore, Resubmits
    <2>2. PICK n : n = e.job.chunk + 1
      OBVIOUS
    <2>3. k = [e.job EXCEPT !.chunk = n] /\ n \in 1 .. MaxChunks
      BY <1>3, <2>1, <2>2
    <2>4. k \in Job
      BY ONLY <1>2, <2>3 DEF Job
    <2>5. /\ k.op = e.job.op /\ k.fd = e.job.fd /\ k.handle = e.job.handle
          /\ k.cancelled = e.job.cancelled
      BY ONLY <1>2, <2>3 DEF Job
    <2> QED
      BY <2>1, <2>4, <2>5
  <1>5. queue \in Seq(Job) /\ Distinct(queue) /\ \A i \in DOMAIN queue : ~queue[i].cancelled
    BY DEF QueueOk, CancelledNotResubmitted
  <1>6. queue' \in Seq(Job) /\ Dropped(queue', queue, 1) /\ queue'[1] = k
    <2>1. queue' = <<k>> \o queue /\ queue \in Seq(Job) /\ k \in Job
      BY <1>3, <1>4, <1>5
    <2> QED
      BY ONLY <2>1, ConsAdds, Zenon
  <1>7. Dropped(queue', queue, 1) /\ queue'[1] = k
    BY <1>6
  <1>8. /\ InQueue' = InQueue \cup {k.op}
        /\ Distinct(queue') <=> Distinct(queue) /\ k.op \notin InQueue
    BY ONLY <1>7, DroppedOps DEF InQueue
  <1>9. \A i \in DOMAIN queue' : queue'[i] = k \/ \E l \in DOMAIN queue : queue'[i] = queue[l]
    BY ONLY <1>7 DEF Dropped
  <1>10. Range(queue') = Range(queue) \cup {k}
    BY ONLY <1>7 DEF Dropped, Range
  <1>11. QueueOk'
    BY <1>2, <1>4, <1>5, <1>6, <1>8, <1>9 DEF QueueOk, CancelledNotResubmitted
  <1>12. Jobs' = (Jobs \ {e.job}) \cup {k}
    BY <1>2, <1>10 DEF Jobs
  <1>13. InQueue' \cup AtKernel' = InQueue \cup AtKernel /\ InQueue' \cap AtKernel' = {}
    BY <1>2, <1>4, <1>8 DEF Apart
  <1>14. InRx' = InRx
    BY <1>1 DEF InRx
  <1>15. ClientOk' /\ RxOk'
    BY <1>1, <1>14 DEF ClientOk, RxOk
  <1>16. PcOk'
    <2>1. "reap" \in Phases
      BY DEF Phases
    <2> QED
      BY <2>1, PcMoves
  <1> QED
    BY <1>1, <1>2, <1>4, <1>11, <1>12, <1>13, <1>14, <1>15, <1>16, JobMovedIInv

\* reap keeps it.
LEMMA ReapIInv ==
  ASSUME IInv, NEW e \in inflight, Reap(e)
  PROVE  IInv'
  <1>1. CASE UNCHANGED <<queue, pc>> /\ (Finish(e.job, "done") \/ Finish(e.job, "cancelled"))
    <2>1. /\ inflight' = inflight \ {e} /\ At("reap")
          /\ UNCHANGED <<rx, clientVars, pc, disconnected, next_id, queue, openVars, back>>
      BY <1>1 DEF Reap
    <2> QED
      BY <2>1, <1>1, ReapFinishIInv
  <1>2. CASE /\ MayHaveMore(e.job) /\ Resubmits(e.job)
             /\ queue' = <<[e.job EXCEPT !.chunk = @ + 1]>> \o queue
             /\ pc' = <<"submit", "reap">>
             /\ UNCHANGED <<files, helperQ, open, result>>
    <2>1. /\ inflight' = inflight \ {e}
          /\ UNCHANGED <<rx, clientVars, disconnected, next_id, openVars, back>>
      BY DEF Reap
    <2> QED
      BY <2>1, <1>2, ResubmitIInv
  <1> QED
    BY <1>1, <1>2 DEF Reap

\* The front of the queue leaves it.
LEMMA QueueHeadTaken ==
  ASSUME IInv, Submitting, queue' = Tail(queue)
  PROVE  queue' \in Seq(Job) /\ Dropped(queue, queue', 1) /\ Head(queue) = queue[1]
  <1>1. queue \in Seq(Job) /\ queue # <<>>
    BY DEF IInv, QueueOk, Submitting
  <1> QED
    BY <1>1, TailDrops

\* A request the kernel takes moves from the queue to the kernel.
LEMMA SubmitOkIInv ==
  ASSUME IInv, SubmitOk
  PROVE  IInv'
  <1> USE DEF IInv
  <1>1. /\ Submitting /\ inflight' = inflight \cup {[job |-> Head(queue), status |-> "running"]}
        /\ queue' = Tail(queue)
        /\ UNCHANGED <<rx, submittersGone, req, cancelReq, pc, disconnected, files, next_id,
                       pending_opens, cancelled_opens, helperQ, back, open, result>>
    BY DEF SubmitOk, clientVars, openVars
  <1>2. PICK j : j = Head(queue)
    OBVIOUS
  <1>3. PICK f : f = [job |-> j, status |-> "running"]
    OBVIOUS
  <1>4. queue' \in Seq(Job) /\ Dropped(queue, queue', 1) /\ j = queue[1]
    BY <1>1, <1>2, QueueHeadTaken
  <1>5. /\ QueueOk' /\ j \in Jobs /\ j \in Range(queue) /\ ~j.cancelled
        /\ j.op \in InQueue /\ InQueue' = InQueue \ {j.op}
        /\ j.op \notin AtKernel
        /\ Range(queue') = Range(queue) \ {j}
    BY <1>4, QueueDropped
  <1>6. j \in Job
    BY <1>5, JobIs
  <1>7. f \in Requests /\ f.job = j /\ f.status = "running" /\ inflight' = inflight \cup {f}
    BY <1>1, <1>2, <1>3, <1>6 DEF Requests
  <1>8. AtKernel' = AtKernel \cup {j.op}
    BY <1>7 DEF AtKernel
  <1>9. KernelOk'
    <2>1. \A e \in inflight : e.job.op # j.op
      BY <1>5 DEF AtKernel
    <2> QED
      BY <2>1, <1>1, <1>5, <1>7 DEF KernelOk
  <1>10. \A e \in inflight : e.job # j
    BY <1>5 DEF AtKernel
  <1>11. Jobs' = (Jobs \ {j}) \cup {j}
    BY <1>5, <1>7, <1>10 DEF Jobs
  <1>12. InQueue' \cup AtKernel' = InQueue \cup AtKernel /\ InQueue' \cap AtKernel' = {}
    BY <1>5, <1>8 DEF Apart
  <1>13. InRx' = InRx
    BY <1>1 DEF InRx
  <1>14. ClientOk' /\ RxOk'
    BY <1>1, <1>13 DEF ClientOk, RxOk
  <1>15. PcOk'
    BY <1>1, PcStays DEF Submitting
  <1> QED
    BY <1>1, <1>5, <1>9, <1>11, <1>12, <1>13, <1>14, <1>15, JobMovedIInv

\* A job the kernel refused settles on this thread.
LEMMA SubmitFinishIInv ==
  ASSUME IInv, Submitting, queue' = Tail(queue), Finish(Head(queue), "done"),
         UNCHANGED <<rx, clientVars, pc, disconnected, next_id, inflight, openVars, back>>
  PROVE  IInv'
  <1> USE DEF IInv
  <1>1. UNCHANGED <<rx, submittersGone, req, cancelReq, pc, disconnected, next_id, inflight,
                    pending_opens, cancelled_opens, back>>
    BY DEF clientVars, openVars
  <1>2. PICK j : j = Head(queue)
    OBVIOUS
  <1>3. queue' \in Seq(Job) /\ Dropped(queue, queue', 1) /\ j = queue[1]
    BY <1>2, QueueHeadTaken
  <1>4. InRx' = InRx
    BY <1>1 DEF InRx
  <1>5. ClientOk' /\ RxOk'
    BY <1>1, <1>4 DEF ClientOk, RxOk
  <1>6. PcOk'
    BY <1>1, PcStays DEF Submitting
  <1>7. JobTaken(j)
    BY <1>1, <1>3, <1>4, <1>5, <1>6, FromQueue
  <1> QED
    BY <1>2, <1>7, FinishIInv

\* The kernel completing a request keeps it.
LEMMA KernelDoneIInv ==
  ASSUME IInv, NEW e \in inflight, KernelDone(e)
  PROVE  IInv'
  <1> USE DEF IInv
  <1>1. /\ e.status = "running"
        /\ inflight' = (inflight \ {e}) \cup {[e EXCEPT !.status = "done"]}
        /\ UNCHANGED <<rx, submittersGone, req, cancelReq, pc, disconnected, files, next_id,
                       queue, pending_opens, cancelled_opens, helperQ, back, open, result>>
    BY DEF KernelDone, clientVars, openVars
  <1>2. PICK f : f = [e EXCEPT !.status = "done"]
    OBVIOUS
  <1>3. e \in Requests
    BY DEF KernelOk
  <1>4. f \in Requests /\ f.job = e.job /\ f.status = "done"
    BY <1>2, <1>3 DEF Requests
  <1>5. e.job.cancelled => e.job.op \in cancelReq
    BY DEF KernelOk
  <1>6. /\ QueueOk' /\ KernelOk' /\ e.job \in Jobs
        /\ Jobs' = (Jobs \ {e.job}) \cup {e.job}
        /\ InQueue' = InQueue /\ AtKernel' = AtKernel
    BY <1>1, <1>2, <1>4, <1>5, RequestChanged
  <1>7. InQueue \cap AtKernel = {}
    BY DEF Apart
  <1>8. InRx' = InRx
    BY <1>1 DEF InRx
  <1>9. ClientOk' /\ RxOk'
    BY <1>1, <1>8 DEF ClientOk, RxOk
  <1>10. PcOk'
    BY <1>1 DEF PcOk, At, Idle
  <1> QED
    BY <1>1, <1>6, <1>7, <1>8, <1>9, <1>10, JobMovedIInv

\* Every step of the driver thread keeps it.
LEMMA DriverStepIInv ==
  ASSUME IInv, DriverStep
  PROVE  IInv'
  <1>0. "top" \in Phases /\ "reap" \in Phases /\ "drainRx" \in Phases /\ "drainBack" \in Phases
    BY DEF Phases
  <1>t. disconnected \in BOOLEAN /\ submittersGone \in BOOLEAN
    BY DEF IInv, ClientOk
  <1>1. CASE Busy
    BY <1>0, <1>1, <1>t, PcMoves, MovesIInv DEF Busy, Goto
  <1>2. CASE Exit
    <2>1. PcOk'
      BY <1>2 DEF Exit, Goto, PcOk, At, Idle, NothingOut, openVars
    <2> QED
      BY <1>2, <1>t, <2>1, MovesIInv DEF Exit, Goto
  <1>3. CASE WaitMsg
    BY <1>0, <1>3, HandleMsgIInv DEF WaitMsg
  <1>4. CASE WaitOpened
    BY <1>0, <1>4, HandleOpenedIInv DEF WaitOpened
  <1>5. CASE WaitDisconnect
    BY <1>0, <1>5, <1>t, PcMoves, MovesIInv DEF WaitDisconnect, Goto
  <1>6. CASE \E e \in inflight : Reap(e)
    BY <1>6, ReapIInv
  <1>7. CASE EndReap
    BY <1>0, <1>7, <1>t, PcMoves, MovesIInv DEF EndReap, Goto
  <1>8. CASE DrainRx
    BY <1>0, <1>8, HandleMsgIInv DEF DrainRx
  <1>9. CASE EndDrainRx
    BY <1>0, <1>9, <1>t, PcMoves, MovesIInv DEF EndDrainRx, Goto
  <1>10. CASE DrainBack
    BY <1>0, <1>10, HandleOpenedIInv DEF DrainBack
  <1>11. CASE EndDrainBack
    BY <1>0, <1>11, <1>t, PcMoves, MovesIInv DEF EndDrainBack
  <1>12. CASE EndSubmit
    BY <1>12, <1>t, SubmitGoesTo, PcMoves, MovesIInv DEF EndSubmit, Goto
  <1>13. CASE SubmitOk
    BY <1>13, SubmitOkIInv
  <1>14. CASE SubmitFull
    BY <1>14, <1>t, SubmitGoesTo, PcMoves, MovesIInv DEF SubmitFull, Submitting, Goto
  <1>15. CASE SubmitSync
    BY <1>15, SubmitFinishIInv DEF SubmitSync
  <1>16. CASE SubmitError
    BY <1>16, SubmitFinishIInv DEF SubmitError
  <1> QED
    BY <1>1, <1>2, <1>3, <1>4, <1>5, <1>6, <1>7, <1>8, <1>9, <1>10, <1>11, <1>12, <1>13,
       <1>14, <1>15, <1>16 DEF DriverStep

\* A stuttering step leaves all of it alone.
LEMMA StutterIInv == IInv /\ UNCHANGED vars => IInv'
  <1> SUFFICES ASSUME IInv, UNCHANGED vars PROVE IInv'
    OBVIOUS
  <1>1. /\ UNCHANGED <<pc, disconnected>>
        /\ UNCHANGED <<rx, clientVars, files, next_id, queue, inflight, openVars,
                       helperQ, back, open, result>>
    BY DEF vars, clientVars, openVars
  <1>2. PcOk'
    BY <1>1 DEF IInv, PcOk, At, Idle, openVars
  <1>3. disconnected \in BOOLEAN
    BY DEF IInv, ClientOk
  <1> QED
    BY <1>1, <1>2, <1>3, MovesIInv

\* Every step keeps it.
LEMMA NextIInv == IInv /\ [Next]_vars => IInv'
  <1> SUFFICES ASSUME IInv, [Next]_vars PROVE IInv'
    OBVIOUS
  <1>1. ASSUME NEW kind \in Kinds, NEW h \in Handles \cup {NoHandle}, Submit(kind, h)
        PROVE  IInv'
    BY <1>1, SubmitIInv
  <1>2. ASSUME NEW o \in Ops, Cancel(o) PROVE IInv'
    BY <1>2, CancelIInv
  <1>3. CASE DropSubmitters
    BY <1>3, DropSubmittersIInv
  <1>4. CASE DriverStep
    BY <1>4, DriverStepIInv
  <1>5. ASSUME NEW e \in inflight, KernelDone(e) PROVE IInv'
    BY <1>5, KernelDoneIInv
  <1>6. ASSUME NEW i \in 1 .. NHelpers, HelperStep(i) PROVE IInv'
    BY <1>6, HelperStepIInv
  <1>7. CASE UNCHANGED vars
    BY <1>7, StutterIInv
  <1> QED
    BY <1>1, <1>2, <1>3, <1>4, <1>5, <1>6, <1>7 DEF Next

\* The inductive invariant holds throughout: descriptors have one owner, ops one
\* place, and handles count their jobs, for any number of ops, helpers, requests
\* in flight, chunks and cancels.
THEOREM Invariant == Spec => []IInv
  BY InitIInv, NextIInv, PTL DEF Spec

-----------------------------------------------------------------------------
(* What the invariant says.                                                *)

\* Types, with job counts that are natural numbers.
LEMMA TypeFromIInv == IInv => TypeOK
  <1> SUFFICES ASSUME IInv PROVE TypeOK
    OBVIOUS
  <1> USE DEF IInv
  <1>1. DOMAIN req \subseteq Ops
    BY ReqIs
  <1>2. ASSUME NEW h \in DOMAIN files
        PROVE  files[h] \in [fd : Fds, ops : Nat, closing : SUBSET Ops]
    <2>1. IsFiniteSet(JobsOn(h))
      <3>1. IsFiniteSet(Jobs) /\ JobsOn(h) \subseteq Jobs
        BY DEF JobsKept, JobsOn
      <3> QED
        BY ONLY <3>1, FS_Subset
    <2>2. Cardinality(JobsOn(h)) \in Nat
      BY <2>1, FS_CardinalityType
    <2>3. files[h].ops \in Nat
      BY <2>2 DEF JobsKept, OpsCountsJobs
    <2>4. files[h] \in Entries
      BY DEF TableOk
    <2> QED
      BY <2>3, <2>4 DEF Entries
  <1>3. pending_opens \subseteq DOMAIN req
    BY OutIs DEF MarksOk
  <1>4. pending_opens \subseteq Ops /\ cancelled_opens \subseteq Ops
    BY <1>1, <1>3 DEF MarksOk
  <1>5. DOMAIN open \subseteq Fds /\ \A fd \in DOMAIN open : open[fd] \in Ops
    <2>1. \A fd \in DOMAIN open : open[fd] \in Ops
      BY <1>1 DEF FdsFew
    <2>2. HandleFds \subseteq Fds
      BY DEF HandleFds, TableOk, Entries
    <2>3. JobFds \subseteq Fds
      BY JobIs DEF JobFds, JobsOn, Job
    <2>4. HelperFds \subseteq Fds
      <3>1. \A i \in DOMAIN helperQ : helperQ[i] \in HelperJobs
        BY DEF HelperOk
      <3> QED
        BY <3>1 DEF HelperFds, FdsAs, HelperJobs
    <2>5. BackFds \subseteq Fds
      <3>1. \A i \in DOMAIN back : back[i] \in Answers
        BY DEF BackOk
      <3> QED
        BY <3>1 DEF BackFds, FdsOf, Answers
    <2> QED
      BY <2>1, <2>2, <2>3, <2>4, <2>5 DEF FdsOpen
  <1>6. rx \in Seq([type : {"Submit", "Cancel"}, op : Ops])
    BY DEF RxOk, Msgs
  <1>7. /\ submittersGone \in BOOLEAN /\ disconnected \in BOOLEAN
        /\ req \in Seq([kind : AllKinds, handle : Handles \cup {NoHandle}])
        /\ Len(req) <= NOps /\ cancelReq \subseteq DOMAIN req
    BY DEF ClientOk, Reqs
  <1>8. \/ \E label \in Phases \cup {"exited"} : pc = <<label>>
        \/ \E label \in Phases : pc = <<"submit", label>>
    BY DEF PcOk
  <1>9. DOMAIN files \subseteq 1 .. next_id - 1 /\ next_id \in Nat \ {0}
    BY DEF TableOk
  <1>10. /\ queue \in Seq(Job)
         /\ inflight \subseteq [job : Job, status : {"running", "done", "cancelled"}]
    BY DEF QueueOk, KernelOk, Requests
  <1>11. /\ helperQ \in Seq([type : {"Open"}, op : Ops] \cup [type : {"Close"}, fd : Fds])
         /\ back \in Seq([op : Ops, fd : Fds \cup {NoFd}])
    BY DEF HelperOk, HelperJobs, BackOk, Answers
  <1>12. result \in [Ops -> Results]
    BY DEF ResultOk
  <1> QED
    BY <1>2, <1>4, <1>5, <1>6, <1>7, <1>8, <1>9, <1>10, <1>11, <1>12 DEF TypeOK

\* The driver's state is well typed: job counts never go below zero, and
\* handles are below next_id.
THEOREM TypeCorrect == Spec => []TypeOK
  BY Invariant, TypeFromIInv, PTL

\* The four kinds of owner, each with descriptors of its own.
LEMMA OwnedFromIInv == IInv => EveryFdOwnedOnce
  <1> SUFFICES ASSUME IInv PROVE EveryFdOwnedOnce
    OBVIOUS
  <1> USE DEF IInv
  <1> DEFINE H == {[owner |-> "handle", id |-> h, fd |-> files[h].fd] : h \in DOMAIN files}
             J == {[owner |-> "job", id |-> job.op, fd |-> job.fd] : job \in JobsOn(NoHandle)}
             P == {[owner |-> "helper", id |-> i, fd |-> helperQ[i].fd] :
                     i \in {j \in DOMAIN helperQ : helperQ[j].type = "Close"}}
             B == {[owner |-> "opened", id |-> i, fd |-> back[i].fd] :
                     i \in {j \in DOMAIN back : back[j].fd # NoFd}}
  <1>1. FdOwners = H \cup J \cup P \cup B
    BY DEF FdOwners
  <1>2. /\ {x.fd : x \in H} = HandleFds
        /\ \A x, y \in H : x.fd = y.fd => x = y
    <2>1. \A x \in H : \E h \in DOMAIN files : x = [owner |-> "handle", id |-> h, fd |-> files[h].fd] /\ x.fd = files[h].fd
      OBVIOUS
    <2>2. \A h \in DOMAIN files : [owner |-> "handle", id |-> h, fd |-> files[h].fd] \in H /\ [owner |-> "handle", id |-> h, fd |-> files[h].fd].fd = files[h].fd
      OBVIOUS
    <2> HIDE DEF H
    <2>3. {x.fd : x \in H} = HandleFds
      <3>1. \A x \in H : x.fd \in HandleFds
        BY <2>1 DEF HandleFds
      <3>2. ASSUME NEW f \in HandleFds PROVE \E x \in H : x.fd = f
        <4>1. PICK h \in DOMAIN files : f = files[h].fd
          BY DEF HandleFds
        <4> QED
          BY <4>1, <2>2
      <3> QED
        BY <3>1, <3>2
    <2>4. \A x, y \in H : x.fd = y.fd => x = y
      BY <2>1 DEF TableOk
    <2> QED
      BY <2>3, <2>4
  <1>3. /\ {x.fd : x \in J} = JobFds
        /\ \A x, y \in J : x.fd = y.fd => x = y
    <2>1. \A x \in J : \E job \in JobsOn(NoHandle) : x = [owner |-> "job", id |-> job.op, fd |-> job.fd] /\ x.fd = job.fd
      OBVIOUS
    <2>2. \A job \in JobsOn(NoHandle) : [owner |-> "job", id |-> job.op, fd |-> job.fd] \in J /\ [owner |-> "job", id |-> job.op, fd |-> job.fd].fd = job.fd
      OBVIOUS
    <2> HIDE DEF J
    <2>3. {x.fd : x \in J} = JobFds
      <3>1. \A x \in J : x.fd \in JobFds
        BY <2>1 DEF JobFds
      <3>2. ASSUME NEW f \in JobFds PROVE \E x \in J : x.fd = f
        <4>1. PICK job \in JobsOn(NoHandle) : f = job.fd
          BY DEF JobFds
        <4> QED
          BY <4>1, <2>2
      <3> QED
        BY <3>1, <3>2
    <2>4. \A x, y \in J : x.fd = y.fd => x = y
      BY <2>1 DEF FdsApart
    <2> QED
      BY <2>3, <2>4
  <1>4. /\ {x.fd : x \in P} = HelperFds
        /\ \A x, y \in P : x.fd = y.fd => x = y
    <2>1. \A x \in P : \E i \in {j \in DOMAIN helperQ : helperQ[j].type = "Close"} : x = [owner |-> "helper", id |-> i, fd |-> helperQ[i].fd] /\ x.fd = helperQ[i].fd
      OBVIOUS
    <2>2. \A i \in {j \in DOMAIN helperQ : helperQ[j].type = "Close"} : [owner |-> "helper", id |-> i, fd |-> helperQ[i].fd] \in P /\ [owner |-> "helper", id |-> i, fd |-> helperQ[i].fd].fd = helperQ[i].fd
      OBVIOUS
    <2> HIDE DEF P
    <2>3. {x.fd : x \in P} = HelperFds
      <3>1. \A x \in P : x.fd \in HelperFds
        BY <2>1 DEF HelperFds, FdsAs
      <3>2. ASSUME NEW f \in HelperFds PROVE \E x \in P : x.fd = f
        <4>1. PICK i \in {j \in DOMAIN helperQ : helperQ[j].type = "Close"} : f = helperQ[i].fd
          BY DEF HelperFds, FdsAs
        <4> QED
          BY <4>1, <2>2
      <3> QED
        BY <3>1, <3>2
    <2>4. \A x, y \in P : x.fd = y.fd => x = y
      BY <2>1 DEF HelperOk, DistinctFdsAs
    <2> QED
      BY <2>3, <2>4
  <1>5. /\ {x.fd : x \in B} = BackFds
        /\ \A x, y \in B : x.fd = y.fd => x = y
    <2>1. \A x \in B : \E i \in {j \in DOMAIN back : back[j].fd # NoFd} : x = [owner |-> "opened", id |-> i, fd |-> back[i].fd] /\ x.fd = back[i].fd
      OBVIOUS
    <2>2. \A i \in {j \in DOMAIN back : back[j].fd # NoFd} : [owner |-> "opened", id |-> i, fd |-> back[i].fd] \in B /\ [owner |-> "opened", id |-> i, fd |-> back[i].fd].fd = back[i].fd
      OBVIOUS
    <2> HIDE DEF B
    <2>3. {x.fd : x \in B} = BackFds
      <3>1. \A x \in B : x.fd \in BackFds
        BY <2>1 DEF BackFds, FdsOf
      <3>2. ASSUME NEW f \in BackFds PROVE \E x \in B : x.fd = f
        <4>1. PICK i \in {j \in DOMAIN back : back[j].fd # NoFd} : f = back[i].fd
          BY DEF BackFds, FdsOf
        <4> QED
          BY <4>1, <2>2
      <3> QED
        BY <3>1, <3>2
    <2>4. \A x, y \in B : x.fd = y.fd => x = y
      BY <2>1 DEF BackOk, DistinctFds
    <2> QED
      BY <2>3, <2>4
  <1> HIDE DEF H, J, P, B
  <1>6. DOMAIN open = {x.fd : x \in FdOwners}
    BY <1>1, <1>2, <1>3, <1>4, <1>5 DEF FdsOpen
  <1>7. \A x, y \in FdOwners : x.fd = y.fd => x = y
    BY <1>1, <1>2, <1>3, <1>4, <1>5 DEF FdsApart
  <1> QED
    BY <1>6, <1>7 DEF EveryFdOwnedOnce

\* For any number of ops, helpers and requests: the open descriptors are
\* exactly those that a handle, a job, a close at a helper or an open on its
\* way back owns, and each has one owner, so none leaks or is closed twice.
THEOREM FdsOwnedOnce == Spec => []EveryFdOwnedOnce
  BY Invariant, OwnedFromIInv, PTL

\* However closes, cancels and finishes interleave, a job that is queued or at
\* the kernel still has the descriptor it was given.
THEOREM JobsKeepTheirFile == Spec => []JobKeepsItsFile
  <1>1. IInv => JobKeepsItsFile
    <2> SUFFICES ASSUME IInv, NEW job \in Jobs
                 PROVE  /\ job.fd \in DOMAIN open
                        /\ IF job.handle = NoHandle
                             THEN open[job.fd] = job.op
                             ELSE job.handle \in DOMAIN files /\ files[job.handle].fd = job.fd
      BY DEF JobKeepsItsFile
    <2>1. CASE job.handle = NoHandle
      BY <2>1 DEF IInv, FdsOpen, JobFds, JobsOn
    <2>2. CASE job.handle # NoHandle
      BY <2>2 DEF IInv, JobsKept, FdsOpen, HandleFds
    <2> QED
      BY <2>1, <2>2
  <1> QED
    BY <1>1, Invariant, PTL

\* FileEntry.ops is the number of jobs on the handle at every moment, and a
\* close that waits has a job left to complete it.
THEOREM OpsCounted == Spec => []OpsCountsJobs
  <1>1. IInv => OpsCountsJobs
    BY DEF IInv, JobsKept
  <1> QED
    BY <1>1, Invariant, PTL

\* A job that was cancelled while it was in flight is never queued again.
THEOREM CancelledStayOut == Spec => []CancelledNotResubmitted
  <1>1. IInv => CancelledNotResubmitted
    BY DEF IInv, QueueOk
  <1> QED
    BY <1>1, Invariant, PTL

\* A handle is refused only to ops submitted after a close of it.
THEOREM RefusedAfterClose == Spec => []BadOnlyAfterClose
  <1>1. IInv => BadOnlyAfterClose
    BY DEF IInv, ResultOk
  <1> QED
    BY <1>1, Invariant, PTL

\* The driver thread leaves only when every submitted op is settled, also the
\* closes that waited for jobs.
THEOREM LeavesNothing == Spec => []ExitIsClean
  <1>1. IInv => ExitIsClean
    <2> SUFFICES ASSUME IInv, At("exited"), NEW o \in DOMAIN req
                 PROVE  result[o] # "none"
      BY DEF ExitIsClean
    <2> USE DEF IInv
    <2>1. rx = <<>> /\ inflight = {} /\ queue = <<>> /\ pending_opens = {}
      BY DEF PcOk, RxOk, Idle
    <2>2. InRx = {} /\ InQueue = {} /\ AtKernel = {} /\ AtHelper = {} /\ InBack = {}
      BY <2>1 DEF InRx, OpsAs, InQueue, OpsOf, AtKernel, MarksOk
    <2>3. \A h \in DOMAIN files : files[h].closing = {}
      <3> SUFFICES ASSUME NEW h \in DOMAIN files, files[h].closing # {} PROVE FALSE
        OBVIOUS
      <3>1. Jobs = {}
        BY <2>2, JobIs
      <3>2. Cardinality(JobsOn(h)) = 0
        <4>1. JobsOn(h) = {}
          BY <3>1 DEF JobsOn
        <4> QED
          BY <4>1, FS_EmptySet
      <3> QED
        BY <3>2 DEF JobsKept, OpsCountsJobs
    <2>4. Waiting = {}
      BY <2>3 DEF Waiting
    <2> QED
      BY <2>2, <2>4 DEF Placed
  <1> QED
    BY <1>1, Invariant, PTL

-----------------------------------------------------------------------------
(* The places of an op.                                                    *)

RxPlaces(o) ==
  {<<"rx", i>> : i \in {j \in DOMAIN rx : rx[j] = [type |-> "Submit", op |-> o]}}
HelperPlaces(o) ==
  {<<"helper", i>> : i \in {j \in DOMAIN helperQ : helperQ[j] = [type |-> "Open", op |-> o]}}
BackPlaces(o) == {<<"back", i>> : i \in {j \in DOMAIN back : back[j].op = o}}
QueuePlaces(o) == {<<"queue", i>> : i \in {j \in DOMAIN queue : queue[j].op = o}}
KernelPlaces(o) == {<<"kernel", e.status>> : e \in {f \in inflight : f.job.op = o}}
ClosingPlaces(o) ==
  {<<"closing", h>> : h \in {g \in DOMAIN files : o \in files[g].closing}}

\* One element.
Single(S) == \E x : S = {x}

\* An op's places, by kind.
LEMMA PlacesAre ==
  ASSUME NEW o
  PROVE  Places(o) = RxPlaces(o) \cup HelperPlaces(o) \cup BackPlaces(o)
                       \cup QueuePlaces(o) \cup KernelPlaces(o) \cup ClosingPlaces(o)
  BY DEF Places, RxPlaces, HelperPlaces, BackPlaces, QueuePlaces, KernelPlaces, ClosingPlaces

\* An op is in the submitters' channel at most once.
LEMMA RxPlace ==
  ASSUME IInv, NEW o
  PROVE  IF o \in InRx THEN Single(RxPlaces(o)) ELSE RxPlaces(o) = {}
  <1> DEFINE I == {j \in DOMAIN rx : rx[j] = [type |-> "Submit", op |-> o]}
  <1>1. \A i \in DOMAIN rx : rx[i] \in Msgs
    BY DEF IInv, RxOk
  <1>2. \A i \in DOMAIN rx : i \in I <=> rx[i].type = "Submit" /\ rx[i].op = o
    BY <1>1 DEF Msgs
  <1>3. I # {} <=> o \in InRx
    BY <1>2 DEF InRx, OpsAs
  <1>4. \A i, j \in I : i = j
    <2>1. \A i, j \in DOMAIN rx : i \in Nat /\ j \in Nat
      BY DEF IInv, RxOk
    <2>2. \A i, j \in I : ~(i < j)
      <3> SUFFICES ASSUME NEW i \in I, NEW j \in I, i < j PROVE FALSE
        OBVIOUS
      <3>1. rx[i].op < rx[j].op
        BY <1>2 DEF IInv, RxOk, InOrder
      <3>2. rx[i].op \in Ops /\ rx[i].op = rx[j].op
        BY <1>1, <1>2 DEF Msgs
      <3> QED
        BY <3>1, <3>2, BoundsAssumption DEF Ops
    <2> QED
      BY <2>1, <2>2
  <1>5. RxPlaces(o) = {<<"rx", i>> : i \in I}
    BY DEF RxPlaces
  <1> HIDE DEF I
  <1>6. CASE I = {}
    BY <1>3, <1>5, <1>6
  <1>7. CASE I # {}
    <2>1. PICK i : I = {i}
      BY <1>4, <1>7
    <2>2. RxPlaces(o) = {<<"rx", i>>}
      BY <1>5, <2>1
    <2> QED
      BY <1>3, <1>7, <2>2 DEF Single
  <1> QED
    BY <1>6, <1>7

\* An op is at the helpers at most once.
LEMMA HelperPlace ==
  ASSUME IInv, NEW o
  PROVE  IF o \in AtHelper THEN Single(HelperPlaces(o)) ELSE HelperPlaces(o) = {}
  <1> DEFINE I == {j \in DOMAIN helperQ : helperQ[j] = [type |-> "Open", op |-> o]}
  <1>1. \A i \in DOMAIN helperQ : helperQ[i] \in HelperJobs
    BY DEF IInv, HelperOk
  <1>2. \A i \in DOMAIN helperQ : i \in I <=> helperQ[i].type = "Open" /\ helperQ[i].op = o
    BY <1>1 DEF HelperJobs
  <1>3. I # {} <=> o \in AtHelper
    BY <1>2 DEF AtHelper, OpsAs
  <1>4. \A i, j \in I : i = j
    BY <1>2 DEF IInv, HelperOk, DistinctOps
  <1>5. HelperPlaces(o) = {<<"helper", i>> : i \in I}
    BY DEF HelperPlaces
  <1> HIDE DEF I
  <1>6. CASE I = {}
    BY <1>3, <1>5, <1>6
  <1>7. CASE I # {}
    <2>1. PICK i : I = {i}
      BY <1>4, <1>7
    <2>2. HelperPlaces(o) = {<<"helper", i>>}
      BY <1>5, <2>1
    <2> QED
      BY <1>3, <1>7, <2>2 DEF Single
  <1> QED
    BY <1>6, <1>7

\* An op's answer is on its way back at most once.
LEMMA BackPlace ==
  ASSUME IInv, NEW o
  PROVE  IF o \in InBack THEN Single(BackPlaces(o)) ELSE BackPlaces(o) = {}
  <1> DEFINE I == {j \in DOMAIN back : back[j].op = o}
  <1>1. I # {} <=> o \in InBack
    BY DEF InBack, OpsOf
  <1>2. \A i, j \in I : i = j
    BY DEF IInv, BackOk, Distinct
  <1>3. BackPlaces(o) = {<<"back", i>> : i \in I}
    BY DEF BackPlaces
  <1> HIDE DEF I
  <1>4. CASE I = {}
    BY <1>1, <1>3, <1>4
  <1>5. CASE I # {}
    <2>1. PICK i : I = {i}
      BY <1>2, <1>5
    <2>2. BackPlaces(o) = {<<"back", i>>}
      BY <1>3, <2>1
    <2> QED
      BY <1>1, <1>5, <2>2 DEF Single
  <1> QED
    BY <1>4, <1>5

\* An op is queued at most once.
LEMMA QueuePlace ==
  ASSUME IInv, NEW o
  PROVE  IF o \in InQueue THEN Single(QueuePlaces(o)) ELSE QueuePlaces(o) = {}
  <1> DEFINE I == {j \in DOMAIN queue : queue[j].op = o}
  <1>1. I # {} <=> o \in InQueue
    BY DEF InQueue, OpsOf
  <1>2. \A i, j \in I : i = j
    BY DEF IInv, QueueOk, Distinct
  <1>3. QueuePlaces(o) = {<<"queue", i>> : i \in I}
    BY DEF QueuePlaces
  <1> HIDE DEF I
  <1>4. CASE I = {}
    BY <1>1, <1>3, <1>4
  <1>5. CASE I # {}
    <2>1. PICK i : I = {i}
      BY <1>2, <1>5
    <2>2. QueuePlaces(o) = {<<"queue", i>>}
      BY <1>3, <2>1
    <2> QED
      BY <1>1, <1>5, <2>2 DEF Single
  <1> QED
    BY <1>4, <1>5

\* An op has at most one request in flight.
LEMMA KernelPlace ==
  ASSUME IInv, NEW o
  PROVE  IF o \in AtKernel THEN Single(KernelPlaces(o)) ELSE KernelPlaces(o) = {}
  <1> DEFINE I == {f \in inflight : f.job.op = o}
  <1>1. I # {} <=> o \in AtKernel
    BY DEF AtKernel
  <1>2. \A e, f \in I : e = f
    BY DEF IInv, KernelOk
  <1>3. KernelPlaces(o) = {<<"kernel", e.status>> : e \in I}
    BY DEF KernelPlaces
  <1> HIDE DEF I
  <1>4. CASE I = {}
    BY <1>1, <1>3, <1>4
  <1>5. CASE I # {}
    <2>1. PICK e : I = {e}
      BY <1>2, <1>5
    <2>2. KernelPlaces(o) = {<<"kernel", e.status>>}
      BY <1>3, <2>1
    <2> QED
      BY <1>1, <1>5, <2>2 DEF Single
  <1> QED
    BY <1>4, <1>5

\* A close waits on at most one handle.
LEMMA ClosingPlace ==
  ASSUME IInv, NEW o
  PROVE  IF o \in Waiting THEN Single(ClosingPlaces(o)) ELSE ClosingPlaces(o) = {}
  <1> DEFINE I == {g \in DOMAIN files : o \in files[g].closing}
  <1>1. I # {} <=> o \in Waiting
    BY DEF Waiting
  <1>2. \A g, h \in I : g = h
    BY DEF IInv, TableOk
  <1>3. ClosingPlaces(o) = {<<"closing", h>> : h \in I}
    BY DEF ClosingPlaces
  <1> HIDE DEF I
  <1>4. CASE I = {}
    BY <1>1, <1>3, <1>4
  <1>5. CASE I # {}
    <2>1. PICK h : I = {h}
      BY <1>2, <1>5
    <2>2. ClosingPlaces(o) = {<<"closing", h>>}
      BY <1>3, <2>1
    <2> QED
      BY <1>1, <1>5, <2>2 DEF Single
  <1> QED
    BY <1>4, <1>5

\* The kinds of place exclude each other, so one place is all an op has.
LEMMA PlacedFromIInv == IInv => OpInOnePlace
  <1> SUFFICES ASSUME IInv, NEW o \in Ops
               PROVE  Cardinality(Places(o)) =
                        IF o \in DOMAIN req /\ result[o] = "none" THEN 1 ELSE 0
    BY DEF OpInOnePlace
  <1>1. /\ IF o \in InRx THEN Single(RxPlaces(o)) ELSE RxPlaces(o) = {}
        /\ IF o \in AtHelper THEN Single(HelperPlaces(o)) ELSE HelperPlaces(o) = {}
        /\ IF o \in InBack THEN Single(BackPlaces(o)) ELSE BackPlaces(o) = {}
        /\ IF o \in InQueue THEN Single(QueuePlaces(o)) ELSE QueuePlaces(o) = {}
        /\ IF o \in AtKernel THEN Single(KernelPlaces(o)) ELSE KernelPlaces(o) = {}
        /\ IF o \in Waiting THEN Single(ClosingPlaces(o)) ELSE ClosingPlaces(o) = {}
    BY RxPlace, HelperPlace, BackPlace, QueuePlace, KernelPlace, ClosingPlace
  <1>2. o \in InRx \cup AtHelper \cup InBack \cup InQueue \cup AtKernel \cup Waiting
          <=> o \in DOMAIN req /\ result[o] = "none"
    BY DEF IInv, Placed
  <1>3. CASE o \notin InRx \cup AtHelper \cup InBack \cup InQueue \cup AtKernel \cup Waiting
    <2>1. Places(o) = {}
      BY <1>1, <1>3, PlacesAre
    <2> QED
      BY <1>2, <1>3, <2>1, FS_EmptySet
  <1>4. CASE o \in InRx \cup AtHelper \cup InBack \cup InQueue \cup AtKernel \cup Waiting
    <2>1. Single(Places(o))
      <3>1. CASE o \in InRx
        <4>1. Places(o) = RxPlaces(o)
          BY <1>1, <3>1, PlacesAre DEF IInv, Apart
        <4> QED
          BY <1>1, <3>1, <4>1
      <3>2. CASE o \in AtHelper
        <4>1. Places(o) = HelperPlaces(o)
          BY <1>1, <3>2, PlacesAre DEF IInv, Apart
        <4> QED
          BY <1>1, <3>2, <4>1
      <3>3. CASE o \in InBack
        <4>1. Places(o) = BackPlaces(o)
          BY <1>1, <3>3, PlacesAre DEF IInv, Apart
        <4> QED
          BY <1>1, <3>3, <4>1
      <3>4. CASE o \in InQueue
        <4>1. Places(o) = QueuePlaces(o)
          BY <1>1, <3>4, PlacesAre DEF IInv, Apart
        <4> QED
          BY <1>1, <3>4, <4>1
      <3>5. CASE o \in AtKernel
        <4>1. Places(o) = KernelPlaces(o)
          BY <1>1, <3>5, PlacesAre DEF IInv, Apart
        <4> QED
          BY <1>1, <3>5, <4>1
      <3>6. CASE o \in Waiting
        <4>1. Places(o) = ClosingPlaces(o)
          BY <1>1, <3>6, PlacesAre DEF IInv, Apart
        <4> QED
          BY <1>1, <3>6, <4>1
      <3> QED
        BY <1>4, <3>1, <3>2, <3>3, <3>4, <3>5, <3>6
    <2>2. PICK x : Places(o) = {x}
      BY <2>1 DEF Single
    <2>3. Cardinality(Places(o)) = 1
      BY <2>2, FS_Singleton
    <2> QED
      BY <1>2, <1>4, <2>3
  <1> QED
    BY <1>3, <1>4

\* Every op that is not settled is in one place, once, and a settled one in
\* none: over the channels, the queue, the kernel and the deferred closes.
THEOREM OpsPlaced == Spec => []OpInOnePlace
  BY Invariant, PlacedFromIInv, PTL

\* pending_opens holds the opens that are out, no more and no less, and marks
\* are only on those.
THEOREM OpensOut == Spec => []PendingOpensAreOut
  <1>1. IInv => PendingOpensAreOut
    <2> SUFFICES ASSUME IInv PROVE PendingOpensAreOut
      OBVIOUS
    <2>1. pending_opens = AtHelper \cup InBack /\ cancelled_opens \subseteq pending_opens
      BY DEF IInv, MarksOk
    <2>2. DOMAIN req \subseteq Ops
      BY ReqIs DEF IInv
    <2>3. pending_opens \subseteq Ops
      BY <2>1, <2>2, OutIs DEF IInv
    <2>4. ASSUME NEW o \in Ops
          PROVE  o \in pending_opens <=> \E place \in Places(o) : place[1] \in {"helper", "back"}
      <3>1. \A place \in HelperPlaces(o) : place[1] = "helper"
        BY DEF HelperPlaces
      <3>2. \A place \in BackPlaces(o) : place[1] = "back"
        BY DEF BackPlaces
      <3>3. \A place \in RxPlaces(o) \cup QueuePlaces(o) \cup KernelPlaces(o) \cup ClosingPlaces(o) :
              place[1] \notin {"helper", "back"}
        BY DEF RxPlaces, QueuePlaces, KernelPlaces, ClosingPlaces
      <3>4. (\E place \in Places(o) : place[1] \in {"helper", "back"})
              <=> HelperPlaces(o) # {} \/ BackPlaces(o) # {}
        BY <3>1, <3>2, <3>3, PlacesAre
      <3>5. HelperPlaces(o) # {} <=> o \in AtHelper
        BY HelperPlace DEF Single
      <3>6. BackPlaces(o) # {} <=> o \in InBack
        BY BackPlace DEF Single
      <3> QED
        BY <2>1, <3>4, <3>5, <3>6
    <2> QED
      BY <2>1, <2>3, <2>4 DEF PendingOpensAreOut
  <1> QED
    BY <1>1, Invariant, PTL

-----------------------------------------------------------------------------
(* What a step does to the ops' results.                                   *)

\* The ops whose callback runs in this step were not settled, and those that
\* settle cancelled were asked to.
Settles ==
  /\ UNCHANGED <<req, cancelReq>>
  /\ \A o \in Ops :
       result'[o] # result[o] =>
         /\ o \in DOMAIN req /\ result[o] = "none"
         /\ result'[o] = "cancelled" => o \in cancelReq

\* One callback, of an op that was out.
LEMMA SettleSettles ==
  ASSUME IInv, UNCHANGED <<req, cancelReq>>,
         NEW o \in InRx \cup AtHelper \cup InBack \cup InQueue \cup AtKernel \cup Waiting,
         NEW r, Settle(o, r), r = "cancelled" => o \in cancelReq
  PROVE  Settles
  BY OutIs DEF Settle, Settles, IInv, ResultOk

\* No callback.
LEMMA QuietSettles ==
  ASSUME UNCHANGED <<req, cancelReq, result>>
  PROVE  Settles
  BY DEF Settles

\* finish runs the callbacks of ops that were out: the job's, and the close's
\* that waited for it.
LEMMA FinishSettles ==
  ASSUME IInv, UNCHANGED <<req, cancelReq>>, NEW job \in Jobs, NEW r, Finish(job, r),
         r = "cancelled" => job.op \in cancelReq
  PROVE  Settles
  <1> USE DEF IInv
  <1>1. job.op \in InQueue \cup AtKernel
    BY JobIs
  <1>2. CASE Settle(job.op, r)
    BY <1>1, <1>2, SettleSettles
  <1>3. CASE /\ job.handle # NoHandle
             /\ result' = [o \in Ops |-> CASE o = job.op -> r
                                           [] o \in files[job.handle].closing -> "done"
                                           [] OTHER -> result[o]]
    <2>1. job.handle \in DOMAIN files
      BY <1>3 DEF JobsKept
    <2>2. files[job.handle].closing \subseteq Waiting
      BY <2>1 DEF Waiting
    <2>3. ASSUME NEW o \in Ops, result'[o] # result[o]
          PROVE  /\ o \in DOMAIN req /\ result[o] = "none"
                 /\ result'[o] = "cancelled" => o \in cancelReq
      <3>1. CASE o = job.op
        BY <3>1, <1>1, <1>3, OutIs
      <3>2. CASE o # job.op /\ o \in files[job.handle].closing
        <4>1. result'[o] = "done"
          BY <3>2, <1>3
        <4> QED
          BY <3>2, <4>1, <2>2, OutIs
      <3>3. CASE o # job.op /\ o \notin files[job.handle].closing
        BY <3>3, <2>3, <1>3
      <3> QED
        BY <3>1, <3>2, <3>3
    <2> QED
      BY <2>3 DEF Settles
  <1> QED
    BY <1>2, <1>3 DEF Finish

\* opened runs at most the op's own callback.
LEMMA OpenedSettles ==
  ASSUME IInv, UNCHANGED <<req, cancelReq>>, NEW o \in InRx \cup InBack, NEW fd, NEW then,
         Opened(o, fd, then)
  PROVE  Settles
  <1>1. CASE Settle(o, "done")
    BY <1>1, SettleSettles
  <1>2. CASE UNCHANGED result
    BY <1>2, QuietSettles
  <1> QED
    BY <1>1, <1>2 DEF Opened, Register

\* handle_op runs at most the op's own callback, and not with ECANCELED.
LEMMA HandleOpSettles ==
  ASSUME IInv, UNCHANGED <<req, cancelReq>>, NEW o \in InRx, NEW then, HandleOp(o, then)
  PROVE  Settles
  <1>1. CASE Settle(o, "done") \/ Settle(o, "bad")
    BY <1>1, SettleSettles
  <1>2. CASE UNCHANGED result
    BY <1>2, QuietSettles
  <1>3. CASE \E fd \in Fds \cup {NoFd} : Opened(o, fd, then)
    BY <1>3, OpenedSettles
  <1>4. CASE HandleNop(o, then)
    BY <1>1, <1>4 DEF HandleNop
  <1>5. CASE HandleStat(o, then)
    BY <1>1, <1>5 DEF HandleStat
  <1>6. CASE HandleIo(o, then)
    BY <1>1, <1>2, <1>6 DEF HandleIo
  <1>7. CASE HandleClose(o, then)
    BY <1>1, <1>2, <1>7 DEF HandleClose
  <1>8. CASE HandleOpen(o, then)
    BY <1>2, <1>3, <1>8 DEF HandleOpen
  <1> QED
    BY <1>4, <1>5, <1>6, <1>7, <1>8 DEF HandleOp

\* A cancel settles only the op it names.
LEMMA HandleMsgSettles ==
  ASSUME IInv, NEW then, HandleMsg(then)
  PROVE  Settles
  <1>0. /\ rx # <<>> /\ rx' = Tail(rx) /\ UNCHANGED <<clientVars, disconnected>>
    BY DEF HandleMsg
  <1>1. UNCHANGED <<req, cancelReq>>
    BY <1>0 DEF clientVars
  <1>2. PICK m : m = Head(rx)
    OBVIOUS
  <1>3. /\ m.type = "Submit" => m.op \in InRx
        /\ m.type = "Cancel" => m.op \in cancelReq
    BY <1>0, <1>2, RxTaken
  <1>4. CASE m.type = "Submit" /\ HandleOp(m.op, then)
    BY <1>1, <1>3, <1>4, HandleOpSettles
  <1>5. CASE m.type = "Cancel" /\ CancelOp(m.op, then)
    <2>1. CASE CancelQueued(m.op, then)
      <3>1. PICK i \in DOMAIN queue : queue[i].op = m.op /\ Finish(queue[i], "cancelled")
        BY <2>1 DEF CancelQueued
      <3>2. queue[i] \in Jobs
        BY DEF Jobs, Range
      <3> QED
        BY <1>1, <1>3, <1>5, <3>1, <3>2, FinishSettles
    <2>2. CASE CancelInflight(m.op, then) \/ CancelElse(m.op, then)
      BY <1>1, <2>2, QuietSettles DEF CancelInflight, CancelElse
    <2> QED
      BY <1>5, <2>1, <2>2 DEF CancelOp
  <1> QED
    BY <1>2, <1>4, <1>5 DEF HandleMsg

\* handle_opened settles ECANCELED only what is marked.
LEMMA HandleOpenedSettles ==
  ASSUME IInv, NEW then, HandleOpened(then)
  PROVE  Settles
  <1>1. back # <<>> /\ back' = Tail(back) /\ UNCHANGED <<req, cancelReq>>
    BY DEF HandleOpened, clientVars
  <1>2. PICK o : o = Head(back).op
    OBVIOUS
  <1>3. o \in InBack
    BY <1>1, <1>2, BackTaken
  <1>4. CASE Marked(o) /\ Settle(o, "cancelled")
    <2>1. o \in cancelReq
      BY <1>4 DEF Marked, IInv, MarksOk
    <2> QED
      BY <1>1, <1>3, <1>4, <2>1, SettleSettles
  <1>5. CASE Opened(o, Head(back).fd, then)
    BY <1>1, <1>3, <1>5, OpenedSettles
  <1> QED
    BY <1>2, <1>4, <1>5 DEF HandleOpened

\* reap settles ECANCELED only what was flagged or caught by aio_cancel.
LEMMA ReapSettles ==
  ASSUME IInv, NEW e \in inflight, Reap(e)
  PROVE  Settles
  <1>1. UNCHANGED <<req, cancelReq>>
    BY DEF Reap, clientVars
  <1>2. e.job \in Jobs
    BY DEF Jobs
  <1>3. e.job.cancelled \/ e.status = "cancelled" => e.job.op \in cancelReq
    BY DEF IInv, KernelOk
  <1>4. CASE Finish(e.job, "done")
    BY <1>1, <1>2, <1>4, FinishSettles
  <1>5. CASE Finish(e.job, "cancelled") /\ (e.job.cancelled \/ e.status = "cancelled")
    BY <1>1, <1>2, <1>3, <1>5, FinishSettles
  <1>6. CASE UNCHANGED result
    BY <1>1, <1>6, QuietSettles
  <1> QED
    BY <1>4, <1>5, <1>6 DEF Reap, Resubmits

\* So does every step of the driver thread.
LEMMA DriverSettles ==
  ASSUME IInv, DriverStep
  PROVE  Settles
  <1>1. CASE \/ Busy \/ Exit \/ WaitDisconnect \/ EndReap \/ EndDrainRx
             \/ EndDrainBack \/ EndSubmit \/ SubmitOk \/ SubmitFull
    <2>1. UNCHANGED <<req, cancelReq, result>>
      BY <1>1 DEF Busy, Exit, WaitDisconnect, EndReap, EndDrainRx, EndDrainBack,
                  EndSubmit, SubmitOk, SubmitFull, Goto, clientVars
    <2> QED
      BY <2>1, QuietSettles
  <1>2. CASE WaitMsg \/ DrainRx
    BY <1>2, HandleMsgSettles DEF WaitMsg, DrainRx
  <1>3. CASE WaitOpened \/ DrainBack
    BY <1>3, HandleOpenedSettles DEF WaitOpened, DrainBack
  <1>4. CASE \E e \in inflight : Reap(e)
    BY <1>4, ReapSettles
  <1>5. CASE SubmitSync \/ SubmitError
    <2>1. /\ Submitting /\ queue' = Tail(queue) /\ Finish(Head(queue), "done")
          /\ UNCHANGED <<req, cancelReq>>
      BY <1>5 DEF SubmitSync, SubmitError, clientVars
    <2>2. Head(queue) = queue[1] /\ 1 \in DOMAIN queue
      BY <2>1, QueueHeadTaken DEF Dropped
    <2>3. Head(queue) \in Jobs
      BY <2>2 DEF Jobs, Range
    <2> QED
      BY <2>1, <2>3, FinishSettles
  <1> QED
    BY <1>1, <1>2, <1>3, <1>4, <1>5 DEF DriverStep

\* The contract's initial states.
LEMMA InitIsContract == Init => Contract!Init
  BY DEF Init, Contract!Init


\* A step that runs callbacks is a step of the contract, or a stutter.
LEMMA SettlesIsContract ==
  ASSUME IInv, IInv', Settles
  PROVE  [Contract!Next]_(Contract!contractVars)
  <1> DEFINE S == {o \in Ops : result'[o] # result[o]}
  <1>1. result \in [Ops -> Results] /\ result' \in [Ops -> Results]
    BY DEF IInv, ResultOk
  <1>2. UNCHANGED <<req, cancelReq>>
    BY DEF Settles
  <1>3. CASE S = {}
    <2>1. result' = result
      BY <1>1, <1>3
    <2> QED
      BY <2>1, <1>2 DEF Contract!contractVars
  <1>4. CASE S # {}
    <2>1. S \subseteq Contract!Pending
      BY DEF Settles, Contract!Pending
    <2>2. result' \in [Ops -> Contract!Results]
      BY <1>1 DEF Results, Contract!Results
    <2>3. \A o \in Ops : o \in S => /\ result'[o] # "none"
                                    /\ result'[o] = "cancelled" => o \in cancelReq
      BY DEF Settles
    <2>4. \A o \in Ops : o \notin S => result'[o] = result[o]
      OBVIOUS
    <2>5. S \in SUBSET Ops
      OBVIOUS
    <2> HIDE DEF S
    <2>6. Contract!SettleAll(S)
      BY <1>2, <2>1, <2>2, <2>3, <2>4 DEF Contract!SettleAll
    <2> QED
      BY <1>4, <2>5, <2>6 DEF Contract!Next
  <1> QED
    BY <1>3, <1>4

\* Every step is a step of the contract, or a stutter.
LEMMA NextIsContract ==
  IInv /\ IInv' /\ [Next]_vars => [Contract!Next]_(Contract!contractVars)
  <1> SUFFICES ASSUME IInv, IInv', [Next]_vars
               PROVE  [Contract!Next]_(Contract!contractVars)
    OBVIOUS
  <1>1. CASE \E kind \in Kinds, h \in Handles \cup {NoHandle} : Submit(kind, h)
    <2>1. PICK kind \in Kinds, h \in Handles \cup {NoHandle} : Submit(kind, h)
      BY <1>1
    <2>n. PICK n : n = Len(req) + 1
      OBVIOUS
    <2>2. DOMAIN req = 1 .. Len(req) /\ Len(req) \in Nat
      BY ReqIs DEF IInv
    <2>3. n \in Ops /\ n \notin DOMAIN req
      BY <2>1, <2>2, <2>n, BoundsAssumption DEF Submit, Ops
    <2>4. DOMAIN req' = DOMAIN req \cup {n}
      <3> DEFINE r == [kind |-> kind, handle |-> h]
      <3>1. req \in Seq(Reqs) /\ r \in Reqs /\ req' = Append(req, r)
        BY <2>1, BoundsAssumption DEF IInv, ClientOk, Submit, Reqs
      <3> HIDE DEF r
      <3>2. DOMAIN req' = 1 .. n
        BY ONLY <2>n, <2>2, <3>1
      <3> QED
        BY <2>2, <2>n, <3>2
    <2>5. UNCHANGED <<cancelReq, result>>
      BY <2>1 DEF Submit
    <2> QED
      BY <2>3, <2>4, <2>5 DEF Contract!Next, Contract!Submit
  <1>2. CASE \E o \in Ops : Cancel(o)
    BY <1>2 DEF Cancel, Contract!Next, Contract!Cancel
  <1>3. CASE DriverStep
    BY <1>3, DriverSettles, SettlesIsContract
  <1>4. CASE \/ DropSubmitters
             \/ \E e \in inflight : KernelDone(e)
             \/ \E i \in 1 .. NHelpers : HelperStep(i)
             \/ UNCHANGED vars
    <2>1. UNCHANGED <<req, cancelReq, result>>
      BY <1>4 DEF DropSubmitters, KernelDone, HelperStep, vars, clientVars
    <2> QED
      BY <2>1, QuietSettles, SettlesIsContract
  <1> QED
    BY <1>1, <1>2, <1>3, <1>4 DEF Next

\* The macOS driver keeps the safety half of what every backend promises, for
\* any number of ops, helpers and requests in flight: each op settles at most
\* once, only after it was submitted, and ECANCELED only after a cancel.
THEOREM KeepsContract == Spec => Contract!Safety
  BY InitIsContract, NextIsContract, Invariant, PTL DEF Spec, Contract!Safety

\* An open leaves pending_opens only when the driver takes its answer back.
LEMMA PendingUntilOpened ==
  ASSUME [Next]_vars
  PROVE  pending_opens \subseteq pending_opens' \/ \E then \in Phases : HandleOpened(then)
  <1>1. CASE \/ \E kind \in Kinds, h \in Handles \cup {NoHandle} : Submit(kind, h)
             \/ \E o \in Ops : Cancel(o)
             \/ DropSubmitters
             \/ \E e \in inflight : KernelDone(e)
             \/ \E i \in 1 .. NHelpers : HelperStep(i)
             \/ UNCHANGED vars
    BY <1>1 DEF Submit, Cancel, DropSubmitters, KernelDone, HelperStep, vars, openVars
  <1>2. CASE \/ Busy \/ Exit \/ WaitDisconnect \/ EndReap \/ EndDrainRx
             \/ EndDrainBack \/ EndSubmit \/ SubmitOk \/ SubmitFull
    BY <1>2 DEF Busy, Exit, WaitDisconnect, EndReap, EndDrainRx, EndDrainBack,
                EndSubmit, SubmitOk, SubmitFull, Goto, openVars
  <1>3. CASE (\E e \in inflight : Reap(e)) \/ SubmitSync \/ SubmitError
    BY <1>3 DEF Reap, SubmitSync, SubmitError, openVars
  <1>4. CASE WaitOpened \/ DrainBack
    BY <1>4 DEF WaitOpened, DrainBack, Phases
  <1>5. ASSUME NEW then, HandleMsg(then) PROVE pending_opens \subseteq pending_opens'
    <2>1. ASSUME NEW o, HandleOp(o, then) PROVE pending_opens \subseteq pending_opens'
      BY <2>1 DEF HandleOp, HandleNop, HandleStat, HandleIo, HandleClose, HandleOpen, openVars
    <2>2. ASSUME NEW o, CancelOp(o, then) PROVE pending_opens \subseteq pending_opens'
      BY <2>2 DEF CancelOp, CancelQueued, CancelInflight, CancelElse, openVars
    <2> QED
      BY <1>5, <2>1, <2>2 DEF HandleMsg
  <1> QED
    BY <1>1, <1>2, <1>3, <1>4, <1>5 DEF Next, DriverStep, WaitMsg, DrainRx

\* What one step does to a marked open.
LEMMA MarkedStep ==
  ASSUME IInv, IInv', [Next]_vars, NEW o \in cancelled_opens
  PROVE  result'[o] \in {"none", "cancelled"}
  <1>1. o \in AtHelper \cup InBack
    BY DEF IInv, MarksOk
  <1>2. o \in Ops /\ result[o] = "none"
    BY <1>1, OutIs, ReqIs DEF IInv
  <1>3. CASE o \in pending_opens'
    <2>1. o \in AtHelper' \cup InBack'
      BY <1>3 DEF IInv, MarksOk
    <2> QED
      BY <2>1 DEF IInv, Placed
  <1>4. CASE o \notin pending_opens'
    <2>1. PICK then \in Phases : HandleOpened(then)
      BY <1>1, <1>4, PendingUntilOpened DEF IInv, MarksOk
    <2>2. o = Head(back).op
      BY <1>1, <1>4, <2>1 DEF HandleOpened, IInv, MarksOk
    <2>3. Settle(o, "cancelled")
      BY <2>1, <2>2 DEF HandleOpened, Marked
    <2> QED
      BY <1>2, <2>3 DEF Settle, IInv, ResultOk
  <1> QED
    BY <1>3, <1>4

\* An open whose cancel reached the driver before its answer did never settles
\* with anything but ECANCELED, whatever the helper's open returned.
THEOREM MarkedOpensCancelled == Spec => MarkedOpenIsCancelled
  <1>1. IInv /\ IInv' /\ [Next]_vars
          => [\A o \in cancelled_opens : result'[o] \in {"none", "cancelled"}]_vars
    BY MarkedStep
  <1> QED
    BY <1>1, Invariant, PTL DEF Spec, MarkedOpenIsCancelled
=============================================================================
