------------------------- MODULE CompioDriverProofs -------------------------
(***************************************************************************)
(* Proofs about CompioDriver, for every number of ops, of chunks and of    *)
(* cancels.                                                                *)
(*                                                                         *)
(* The inductive invariant follows an op on its way.  Channel: submissions *)
(* are taken in the order of their ids, so that the ids given out never    *)
(* outrun the ops.  Placed: an op is in the channel or has a task until it *)
(* settles.  Staged: what a task holds in each stage, by the kind of its   *)
(* op.  Handed: a handle is with the open that will register it, in the    *)
(* table, or taken out for good.  OneFile: the tasks of one handle work on *)
(* one file, and a Close that came back from the kernel is alone with it.  *)
(***************************************************************************)
EXTENDS CompioDriver, TLAPS

\* The parts of TypeOK, the bound on ids aside.
ClientTyped ==
  /\ rx \in Seq([type : {"Submit", "Cancel"}, op : Ops])
  /\ submittersGone \in BOOLEAN
  /\ req \in Seq([kind : AllKinds, handle : Handles \cup {NoHandle}])
  /\ Len(req) <= NOps
  /\ cancelReq \subseteq DOMAIN req
  /\ exited \in BOOLEAN

TaskRecords ==
  [stage : Stages, io : {"none", "kernel", "more", "full", "end"},
   file : Ops \cup {NoFile}, chunk : 1 .. MaxChunks, open_id : Handles \cup {NoHandle}]

TaskTyped ==
  /\ DOMAIN task \subseteq Ops
  /\ \A o \in DOMAIN task : task[o] \in TaskRecords
  /\ DOMAIN flags \subseteq Ops
  /\ \A o \in DOMAIN flags : flags[o] \in BOOLEAN
  /\ touched \subseteq Ops
  /\ result \in [Ops -> Results]

FilesTyped ==
  /\ DOMAIN files \subseteq 1 .. next_id - 1
  /\ \A h \in DOMAIN files : files[h] \in Ops
  /\ next_id \in Nat \ {0}

\* A Submit of o is in the channel.
Sent(o) == \E i \in DOMAIN rx : rx[i] = [type |-> "Submit", op |-> o]

\* Submissions leave the channel in the order of their ids.
Channel ==
  /\ \A i \in DOMAIN rx : rx[i].op \in DOMAIN req
  /\ \A i, j \in DOMAIN rx :
       i < j /\ rx[i].type = "Submit" /\ rx[j].type = "Submit" => rx[i].op < rx[j].op
  /\ \A i \in DOMAIN rx : rx[i].type = "Submit" => next_id <= rx[i].op
  /\ next_id <= Len(req) + 1

Placed ==
  /\ \A o \in Ops :
       /\ ~exited => (o \in DOMAIN req /\ result[o] = "none" <=> Sent(o) \/ o \in DOMAIN task)
       /\ ~(Sent(o) /\ o \in DOMAIN task)
       /\ o \in DOMAIN flags <=> o \in DOMAIN task
       /\ o \notin DOMAIN req => result[o] = "none"
  /\ exited =>
       submittersGone /\ rx = <<>> /\ DOMAIN task = {} /\ DOMAIN files = {}

\* Only an op somebody asked to cancel has its flag raised.
Asked ==
  /\ \A i \in DOMAIN rx : rx[i].type = "Cancel" => rx[i].op \in cancelReq
  /\ \A o \in DOMAIN flags : flags[o] => o \in cancelReq
  /\ \A o \in Ops : result[o] = "cancelled" => o \in cancelReq

\* The kinds of op that come to a stage.
KindAt(kind, stage) ==
  /\ stage = "open" => kind \in {"Open", "ReadFile", "WriteFile"}
  /\ stage = "size" => kind \in {"Open", "ReadFile"}
  /\ stage = "read" => kind = "ReadAt"
  /\ stage = "transfer" => kind \in {"WriteAt", "ReadFile", "WriteFile"}
  /\ stage = "close" => kind \in {"Close", "ReadFile", "WriteFile"}

Staged ==
  \A o \in DOMAIN task :
    /\ KindAt(req[o].kind, task[o].stage)
    /\ task[o].stage \in {"start", "open"} <=> task[o].file = NoFile
    /\ task[o].file # NoFile /\ req[o].kind \notin HandleKinds => task[o].file = o
    /\ Allocates(req[o].kind) <=> task[o].open_id # NoHandle
    /\ task[o].io = "more" => task[o].chunk < MaxChunks

\* An op asks the kernel for something only once it has started.
Untouched ==
  \A o \in touched :
    /\ o \in DOMAIN req /\ ~Sent(o)
    /\ o \in DOMAIN task => task[o].stage # "start"

\* Handles in ops are known ones, and a handle is never given out twice.
Handed ==
  /\ \A o \in DOMAIN req :
       /\ req[o].kind \in HandleKinds <=> req[o].handle # NoHandle
       /\ req[o].handle < next_id
       /\ \A p \in DOMAIN task :
            req[o].handle # NoHandle => task[p].open_id # req[o].handle
  /\ \A o \in DOMAIN task : task[o].open_id < next_id
  /\ \A h \in DOMAIN files : files[h] \in DOMAIN req /\ result[files[h]] # "none"

OneFile ==
  /\ \A o, p \in DOMAIN task :
       /\ req[o].handle = req[p].handle /\ req[o].handle # NoHandle
       /\ task[o].file # NoFile /\ task[p].file # NoFile
       => task[o].file = task[p].file
  /\ \A o \in DOMAIN task :
       task[o].file # NoFile /\ req[o].handle \in DOMAIN files =>
         task[o].file = files[req[o].handle]
  /\ \A c, o \in DOMAIN task :
       req[c].kind = "Close" /\ task[c].stage = "close" =>
         /\ req[c].handle \notin DOMAIN files
         /\ task[c].io # "kernel" /\ o # c /\ req[o].handle = req[c].handle =>
              task[o].file = NoFile

IInv ==
  /\ ClientTyped /\ TaskTyped /\ FilesTyped
  /\ Channel /\ Placed /\ Asked /\ Staged /\ Untouched
  /\ Handed /\ FreshHandles /\ OneFile
  /\ CancelledTouchedNothing /\ ClosedForGood

-----------------------------------------------------------------------------
(* The model's operators.                                                  *)

\* What is left of the channel when its head is taken.
LEMMA TailIs ==
  ASSUME NEW S, NEW s \in Seq(S), s # <<>>
  PROVE  /\ Tail(s) \in Seq(S)
         /\ DOMAIN s = 1 .. Len(s) /\ Len(s) \in Nat \ {0}
         /\ DOMAIN Tail(s) = 1 .. Len(s) - 1
         /\ \A i \in DOMAIN Tail(s) : i + 1 \in DOMAIN s /\ Tail(s)[i] = s[i + 1]
         /\ 1 \in DOMAIN s /\ Head(s) = s[1]
         /\ \A i \in DOMAIN s : i # 1 => i - 1 \in DOMAIN Tail(s) /\ Tail(s)[i - 1] = s[i]
  OBVIOUS

\* What a sequence is once something is put at its end.
LEMMA AppendIs ==
  ASSUME NEW S, NEW s \in Seq(S), NEW x \in S
  PROVE  /\ Append(s, x) \in Seq(S)
         /\ DOMAIN s = 1 .. Len(s) /\ Len(s) \in Nat
         /\ DOMAIN Append(s, x) = 1 .. Len(s) + 1
         /\ DOMAIN s \subseteq DOMAIN Append(s, x)
         /\ Len(Append(s, x)) = Len(s) + 1
         /\ \A i \in DOMAIN s : Append(s, x)[i] = s[i]
         /\ Append(s, x)[Len(s) + 1] = x
         /\ \A i \in DOMAIN Append(s, x) : i \in DOMAIN s \/ i = Len(s) + 1
  OBVIOUS

\* The elements of a sequence.
LEMMA SeqIs ==
  ASSUME NEW S, NEW s \in Seq(S)
  PROVE  /\ DOMAIN s = 1 .. Len(s) /\ Len(s) \in Nat
         /\ \A i \in DOMAIN s : s[i] \in S
  OBVIOUS

\* A message is its type and its op.
LEMMA MessageFields ==
  ASSUME NEW m \in [type : {"Submit", "Cancel"}, op : Ops], NEW o
  PROVE  m = [type |-> "Submit", op |-> o] <=> m.type = "Submit" /\ m.op = o
  OBVIOUS

\* The fields of a task.
LEMMA TaskFields ==
  ASSUME NEW t \in TaskRecords
  PROVE  /\ t.stage \in Stages /\ t.io \in {"none", "kernel", "more", "full", "end"}
         /\ t.file \in Ops \cup {NoFile} /\ t.chunk \in 1 .. MaxChunks
         /\ t.open_id \in Handles \cup {NoHandle}
  BY DEF TaskRecords

\* Changing one entry of a table leaves the others alone.
LEMMA ExceptIs ==
  ASSUME NEW f, NEW x \in DOMAIN f, NEW v
  PROVE  /\ DOMAIN [f EXCEPT ![x] = v] = DOMAIN f
         /\ [f EXCEPT ![x] = v][x] = v
         /\ \A y \in DOMAIN f : y # x => [f EXCEPT ![x] = v][y] = f[y]
  OBVIOUS

LEMMA WithoutIs ==
  ASSUME NEW f, NEW x
  PROVE  /\ DOMAIN Without(f, x) = DOMAIN f \ {x}
         /\ \A y \in DOMAIN f : y # x => Without(f, x)[y] = f[y]
  BY DEF Without

\* An op that has a task was submitted and is not settled, and the driver runs.
LEMMA TaskIs ==
  ASSUME TaskTyped, Placed, NEW o \in DOMAIN task
  PROVE  /\ o \in Ops /\ o \in DOMAIN req /\ o \in DOMAIN flags /\ ~Sent(o)
         /\ result[o] = "none" /\ ~exited /\ task[o] \in TaskRecords
  <1>1. o \in Ops /\ task[o] \in TaskRecords
    BY DEF TaskTyped
  <1> QED
    BY <1>1 DEF Placed

\* The ops submitted, and what each one is.
LEMMA ReqIs ==
  ASSUME ClientTyped
  PROVE  /\ DOMAIN req = 1 .. Len(req) /\ Len(req) \in Nat /\ DOMAIN req \subseteq Ops
         /\ \A o \in DOMAIN req : req[o].kind \in AllKinds /\ req[o].handle \in Nat
  <1>1. /\ DOMAIN req = 1 .. Len(req) /\ Len(req) \in Nat
        /\ \A o \in DOMAIN req : req[o] \in [kind : AllKinds, handle : Handles \cup {NoHandle}]
    <2> DEFINE R == [kind : AllKinds, handle : Handles \cup {NoHandle}]
    <2>1. req \in Seq(R)
      BY DEF ClientTyped
    <2> HIDE DEF R
    <2>2. /\ DOMAIN req = 1 .. Len(req) /\ Len(req) \in Nat
          /\ \A o \in DOMAIN req : req[o] \in R
      BY ONLY <2>1, SeqIs
    <2> QED
      BY <2>2 DEF R
  <1>2. DOMAIN req \subseteq Ops
    BY <1>1, BoundsAssumption DEF ClientTyped, Ops
  <1> QED
    BY <1>1, <1>2 DEF Handles, Ops, NoHandle

-----------------------------------------------------------------------------
LEMMA InitIInv == Init => IInv
  <1> SUFFICES ASSUME Init PROVE IInv
    OBVIOUS
  <1> USE BoundsAssumption DEF Init
  <1>1. ClientTyped
    <2>1. Len(req) <= NOps /\ cancelReq \subseteq DOMAIN req
      OBVIOUS
    <2>2. /\ rx \in Seq([type : {"Submit", "Cancel"}, op : Ops])
          /\ req \in Seq([kind : AllKinds, handle : Handles \cup {NoHandle}])
      OBVIOUS
    <2> QED
      BY <2>1, <2>2 DEF ClientTyped
  <1>2. TaskTyped
    BY DEF TaskTyped, Results
  <1>3. FilesTyped
    BY DEF FilesTyped
  <1>4. Channel
    BY DEF Channel
  <1>5. Placed
    BY DEF Placed, Sent
  <1>6. Asked
    BY DEF Asked
  <1>7. Staged /\ Untouched /\ Handed /\ FreshHandles /\ OneFile
    BY DEF Staged, Untouched, Handed, FreshHandles, OneFile
  <1>8. CancelledTouchedNothing /\ ClosedForGood
    BY DEF CancelledTouchedNothing, ClosedForGood
  <1> QED
    BY <1>1, <1>2, <1>3, <1>4, <1>5, <1>6, <1>7, <1>8 DEF IInv

-----------------------------------------------------------------------------
(* The steps of a task: it settles, or it asks the kernel for something.   *)

\* A task that ends keeps the invariant: it settles ECANCELED only if asked
\* to, and before it has touched anything unless it is a ReadAt; a Close that
\* settles well is back from the kernel.
LEMMA SettleIInv ==
  ASSUME IInv, NEW o \in DOMAIN task, NEW r \in Results \ {"none"}, Settle(o, r),
         UNCHANGED <<rx, clientVars, exited, files, next_id>>,
         r = "cancelled" => o \in cancelReq /\ (req[o].kind = "ReadAt" \/ o \notin touched),
         r = "done" /\ req[o].kind = "Close" =>
           task[o].stage = "close" /\ task[o].io # "kernel"
  PROVE  IInv'
  <1> USE DEF IInv, clientVars
  <1>0. /\ o \in Ops /\ touched' = touched
        /\ \A p \in Ops : result'[p] = IF p = o THEN r ELSE result[p]
        /\ result' \in [Ops -> Results]
        /\ DOMAIN task' = DOMAIN task \ {o}
        /\ \A p \in DOMAIN task' : task'[p] = task[p]
        /\ DOMAIN flags' = DOMAIN flags \ {o}
        /\ \A p \in DOMAIN flags' : flags'[p] = flags[p]
    <2>1. o \in Ops /\ result \in [Ops -> Results]
      BY DEF TaskTyped
    <2>2. /\ touched' = touched /\ result' = [result EXCEPT ![o] = r]
          /\ task' = Without(task, o) /\ flags' = Without(flags, o)
      BY DEF Settle, FlagRemoved
    <2>3. /\ \A p \in Ops : result'[p] = IF p = o THEN r ELSE result[p]
          /\ result' \in [Ops -> Results]
      BY <2>1, <2>2
    <2>4. /\ DOMAIN task' = DOMAIN task \ {o}
          /\ \A p \in DOMAIN task' : task'[p] = task[p]
      BY ONLY <2>2, WithoutIs, ZenonT(30)
    <2>5. /\ DOMAIN flags' = DOMAIN flags \ {o}
          /\ \A p \in DOMAIN flags' : flags'[p] = flags[p]
      BY ONLY <2>2, WithoutIs, ZenonT(30)
    <2> QED
      BY <2>1, <2>2, <2>3, <2>4, <2>5
  <1>1. ClientTyped'
    BY DEF ClientTyped
  <1>2. TaskTyped'
    BY <1>0 DEF TaskTyped
  <1>3. FilesTyped'
    BY DEF FilesTyped
  <1>4. Channel'
    BY DEF Channel
  <1>5. \A p : Sent(p)' <=> Sent(p)
    BY DEF Sent
  <1>6. ~exited /\ o \in DOMAIN req
    BY TaskIs
  <1>7. Placed'
    BY <1>0, <1>5, <1>6 DEF Placed
  <1>8. Asked'
    BY <1>0 DEF Asked
  <1>9. Staged'
    BY <1>0 DEF Staged
  <1>10. Untouched'
    BY <1>0, <1>5 DEF Untouched
  <1>11. Handed'
    BY <1>0 DEF Handed, FilesTyped
  <1>12. FreshHandles'
    BY <1>0 DEF FreshHandles
  <1>13. OneFile'
    BY <1>0 DEF OneFile
  <1>14. CancelledTouchedNothing'
    BY <1>0, ReqIs DEF CancelledTouchedNothing
  <1>15. ClosedForGood'
    BY <1>0, <1>6, ReqIs DEF ClosedForGood, OneFile
  <1> QED
    BY <1>1, <1>2, <1>3, <1>4, <1>7, <1>8, <1>9, <1>10, <1>11, <1>12, <1>13,
       <1>14, <1>15

\* A task that goes on to its next await keeps the invariant: an op on a
\* handle takes the file the table has for it, and a Close takes it out.
LEMMA AwaitIInv ==
  ASSUME IInv, NEW o \in DOMAIN task, NEW stage \in Stages \ {"start"},
         NEW file \in Ops \cup {NoFile}, Await(o, stage, file),
         UNCHANGED <<rx, clientVars, exited, next_id>>,
         KindAt(req[o].kind, stage),
         stage = "open" <=> file = NoFile,
         IF req[o].kind \in HandleKinds
           THEN req[o].handle \in DOMAIN files /\ file = files[req[o].handle]
           ELSE file \in {NoFile, o},
         files' = IF req[o].kind = "Close" THEN TakesOut(req[o].handle) ELSE files
  PROVE  IInv'
  <1> USE DEF IInv, clientVars
  <1>0. /\ o \in Ops /\ touched' = touched \cup {o} /\ flags' = flags /\ result' = result
        /\ DOMAIN task' = DOMAIN task
        /\ \A p \in DOMAIN task : p # o => task'[p] = task[p]
        /\ task'[o] \in TaskRecords
        /\ task'[o].stage = stage /\ task'[o].io = "kernel" /\ task'[o].file = file
        /\ task'[o].chunk = task[o].chunk /\ task'[o].open_id = task[o].open_id
    <2>1. task[o] \in TaskRecords /\ o \in Ops
      BY DEF TaskTyped
    <2>2. task' = [task EXCEPT ![o] =
                     [task[o] EXCEPT !.stage = stage, !.io = "kernel", !.file = file]]
      BY DEF Await
    <2> DEFINE u == [task[o] EXCEPT !.stage = stage, !.io = "kernel", !.file = file]
    <2>3. /\ u \in TaskRecords
          /\ u.io = "kernel" /\ u.stage = stage /\ u.file = file
          /\ u.chunk = task[o].chunk /\ u.open_id = task[o].open_id
      <3>1. stage \in Stages
        OBVIOUS
      <3> QED
        BY ONLY <2>1, <3>1, file \in Ops \cup {NoFile} DEF TaskRecords
    <2> HIDE DEF u
    <2>4. /\ DOMAIN task' = DOMAIN task
          /\ \A p \in DOMAIN task : p # o => task'[p] = task[p]
          /\ task'[o] = u
      BY ONLY <2>2, ExceptIs, o \in DOMAIN task DEF u
    <2> QED
      BY <2>1, <2>3, <2>4 DEF Await
  <1>f. /\ DOMAIN files' \subseteq DOMAIN files
        /\ \A h \in DOMAIN files' : files'[h] = files[h]
        /\ req[o].kind = "Close" => req[o].handle \notin DOMAIN files'
        /\ \A h \in DOMAIN files : h \notin DOMAIN files' =>
             req[o].kind = "Close" /\ h = req[o].handle
    <2>1. CASE req[o].kind = "Close"
      <3>1. files' = Without(files, req[o].handle)
        BY <2>1 DEF TakesOut
      <3>2. /\ DOMAIN files' = DOMAIN files \ {req[o].handle}
            /\ \A h \in DOMAIN files : h # req[o].handle => files'[h] = files[h]
        BY ONLY <3>1, WithoutIs, ZenonT(30)
      <3> QED
        BY ONLY <2>1, <3>2
    <2>2. CASE req[o].kind # "Close"
      BY <2>2
    <2> QED
      BY <2>1, <2>2
  <1>1. ClientTyped'
    BY DEF ClientTyped
  <1>2. TaskTyped'
    BY <1>0 DEF TaskTyped
  <1>3. FilesTyped'
    BY <1>f DEF FilesTyped
  <1>4. Channel'
    BY DEF Channel
  <1>5. \A p : Sent(p)' <=> Sent(p)
    BY DEF Sent
  <1>6. ~exited /\ o \in DOMAIN req /\ ~Sent(o) /\ result[o] = "none"
    BY TaskIs
  <1>7. Placed'
    BY <1>0, <1>5, <1>6 DEF Placed
  <1>8. Asked'
    BY <1>0 DEF Asked
  <1>9. Staged'
    BY <1>0 DEF Staged, Stages
  <1>10. Untouched'
    BY <1>0, <1>5, <1>6 DEF Untouched
  <1>11. Handed'
    BY <1>0, <1>f DEF Handed, FilesTyped
  <1>12. FreshHandles'
    BY <1>0, <1>f DEF FreshHandles
  <1>h. /\ \A p \in DOMAIN task : p \in DOMAIN req
        /\ req[o].handle # NoHandle => req[o].handle \in DOMAIN files /\ file = files[req[o].handle]
    BY TaskIs DEF Handed
  <1>c. \A p \in DOMAIN req : req[p].kind = "Close" => req[p].handle # NoHandle
    BY DEF Handed, HandleKinds
  <1>13. OneFile'
    <2>1. ASSUME NEW p \in DOMAIN task, NEW q \in DOMAIN task,
                 req[p].handle = req[q].handle, req[p].handle # NoHandle,
                 task'[p].file # NoFile, task'[q].file # NoFile
          PROVE  task'[p].file = task'[q].file
      BY <2>1, <1>0, <1>h DEF OneFile
    <2>2. ASSUME NEW p \in DOMAIN task, task'[p].file # NoFile, req[p].handle \in DOMAIN files'
          PROVE  task'[p].file = files'[req[p].handle]
      <3>1. req[p].handle # NoHandle
        BY <2>2, <1>f DEF FilesTyped, NoHandle
      <3> QED
        BY <2>2, <3>1, <1>0, <1>h, <1>f DEF OneFile
    <2>3. ASSUME NEW c \in DOMAIN task, req[c].kind = "Close", task'[c].stage = "close"
          PROVE  req[c].handle \notin DOMAIN files'
      BY <2>3, <1>0, <1>f DEF OneFile
    <2>4. ASSUME NEW c \in DOMAIN task, NEW p \in DOMAIN task,
                 req[c].kind = "Close", task'[c].stage = "close", task'[c].io # "kernel",
                 p # c, req[p].handle = req[c].handle
          PROVE  task'[p].file = NoFile
      BY <2>4, <1>0, <1>h, <1>c DEF OneFile
    <2> QED
      BY <1>0, <2>1, <2>2, <2>3, <2>4 DEF OneFile
  <1>14. CancelledTouchedNothing'
    BY <1>0, <1>6 DEF CancelledTouchedNothing, Placed
  <1>15. ClosedForGood'
    BY <1>0, <1>f, <1>h, <1>c DEF ClosedForGood
  <1> QED
    BY <1>1, <1>2, <1>3, <1>4, <1>7, <1>8, <1>9, <1>10, <1>11, <1>12, <1>13,
       <1>14, <1>15

\* The kernel answers, or is asked for the next chunk: the task stays in its
\* stage, and a close is answered only when nobody else has the file.
LEMMA IoIInv ==
  ASSUME IInv, NEW o \in DOMAIN task, NEW u \in TaskRecords,
         task' = [task EXCEPT ![o] = u],
         u.stage = task[o].stage, u.file = task[o].file, u.open_id = task[o].open_id,
         u.io = "more" => u.chunk < MaxChunks,
         u.stage = "close" /\ u.io # "kernel" => LastClone(o),
         UNCHANGED <<rx, clientVars, exited, files, next_id, flags, touched, result>>
  PROVE  IInv'
  <1> USE DEF IInv, clientVars
  <1>0. /\ DOMAIN task' = DOMAIN task
        /\ \A p \in DOMAIN task : p # o => task'[p] = task[p]
        /\ task'[o] = u
    BY ONLY o \in DOMAIN task, task' = [task EXCEPT ![o] = u], ExceptIs
  <1>1. ClientTyped'
    BY DEF ClientTyped
  <1>2. TaskTyped'
    BY <1>0 DEF TaskTyped
  <1>3. FilesTyped'
    BY DEF FilesTyped
  <1>4. Channel'
    BY DEF Channel
  <1>5. \A p : Sent(p)' <=> Sent(p)
    BY DEF Sent
  <1>7. Placed'
    BY <1>0, <1>5 DEF Placed
  <1>8. Asked'
    BY DEF Asked
  <1>9. Staged'
    BY <1>0 DEF Staged
  <1>10. Untouched'
    BY <1>0, <1>5 DEF Untouched
  <1>11. Handed'
    BY <1>0 DEF Handed
  <1>12. FreshHandles'
    BY <1>0 DEF FreshHandles
  <1>13. OneFile'
    <2>1. ASSUME NEW p \in DOMAIN task, req[o].kind = "Close", u.stage = "close",
                 u.io # "kernel", p # o, req[p].handle = req[o].handle
          PROVE  task[p].file = NoFile
      <3>1. Users(task[o].file) = {o}
        BY <2>1 DEF LastClone
      <3>2. task[p].file # task[o].file
        BY <3>1, <2>1 DEF Users
      <3>3. task[o].file # NoFile
        BY <2>1 DEF Staged
      <3>4. req[o].handle # NoHandle
        BY <2>1, TaskIs DEF Handed, HandleKinds
      <3> QED
        BY <2>1, <3>2, <3>3, <3>4 DEF OneFile
    <2> QED
      BY <1>0, <2>1 DEF OneFile
  <1>14. CancelledTouchedNothing'
    BY DEF CancelledTouchedNothing
  <1>15. ClosedForGood'
    BY <1>0 DEF ClosedForGood
  <1> QED
    BY <1>1, <1>2, <1>3, <1>4, <1>7, <1>8, <1>9, <1>10, <1>11, <1>12, <1>13,
       <1>14, <1>15

\* An open that went well puts its file under the id it was given: nobody has
\* named that handle yet, and no other one has the file.
LEMMA RegisterIInv ==
  ASSUME IInv, NEW o \in DOMAIN task, task[o].stage = "size", Register(o),
         UNCHANGED <<rx, clientVars, exited, next_id>>
  PROVE  IInv'
  <1> USE DEF IInv, clientVars
  <1>h. PICK h : h = task[o].open_id
    OBVIOUS
  <1>a. /\ o \in Ops /\ o \in DOMAIN req /\ ~Sent(o) /\ result[o] = "none" /\ ~exited
        /\ task[o] \in TaskRecords
    BY TaskIs
  <1>b. /\ task[o].file = o /\ h # NoHandle /\ Allocates(req[o].kind)
        /\ req[o].kind \in {"Open", "ReadFile"}
    BY <1>h DEF Staged, KindAt, HandleKinds, Allocates
  <1>c. h \in 1 .. next_id - 1
    BY <1>a, <1>b, <1>h, TaskFields DEF Handed, Handles, Ops, NoHandle, FilesTyped
  <1>f. /\ DOMAIN files' = DOMAIN files \cup {h}
        /\ files'[h] = o
        /\ \A g \in DOMAIN files : g # h => files'[g] = files[g]
    <2>1. files' = Insert(files, h, o)
      BY <1>b, <1>h DEF Register
    <2> QED
      BY ONLY <2>1 DEF Insert
  <1>0. /\ touched' = touched
        /\ \A p \in Ops : result'[p] = IF p = o THEN "done" ELSE result[p]
        /\ result' \in [Ops -> Results]
        /\ DOMAIN task' = DOMAIN task \ {o}
        /\ \A p \in DOMAIN task' : task'[p] = task[p]
        /\ DOMAIN flags' = DOMAIN flags \ {o}
        /\ \A p \in DOMAIN flags' : flags'[p] = flags[p]
    <2>1. result \in [Ops -> Results]
      BY DEF TaskTyped
    <2>2. /\ touched' = touched /\ result' = [result EXCEPT ![o] = "done"]
          /\ task' = Without(task, o) /\ flags' = Without(flags, o)
      BY DEF Register, Settle, FlagRemoved
    <2>3. /\ \A p \in Ops : result'[p] = IF p = o THEN "done" ELSE result[p]
          /\ result' \in [Ops -> Results]
      BY <1>a, <2>1, <2>2 DEF Results
    <2>4. /\ DOMAIN task' = DOMAIN task \ {o}
          /\ \A p \in DOMAIN task' : task'[p] = task[p]
      BY ONLY <2>2, WithoutIs, ZenonT(30)
    <2>5. /\ DOMAIN flags' = DOMAIN flags \ {o}
          /\ \A p \in DOMAIN flags' : flags'[p] = flags[p]
      BY ONLY <2>2, WithoutIs, ZenonT(30)
    <2> QED
      BY <2>2, <2>3, <2>4, <2>5
  <1>n. /\ h \notin DOMAIN files
        /\ \A g \in DOMAIN files : files[g] # o
        /\ \A p \in DOMAIN req : req[p].handle # h
        /\ \A p \in DOMAIN task : p # o => task[p].open_id # h
    BY <1>a, <1>b, <1>h DEF FreshHandles, Handed
  <1>1. ClientTyped'
    BY DEF ClientTyped
  <1>2. TaskTyped'
    BY <1>0 DEF TaskTyped
  <1>3. FilesTyped'
    BY <1>a, <1>c, <1>f DEF FilesTyped
  <1>4. Channel'
    BY DEF Channel
  <1>5. \A p : Sent(p)' <=> Sent(p)
    BY DEF Sent
  <1>7. Placed'
    BY <1>0, <1>5, <1>a DEF Placed
  <1>8. Asked'
    BY <1>0 DEF Asked
  <1>9. Staged'
    BY <1>0 DEF Staged
  <1>10. Untouched'
    BY <1>0, <1>5 DEF Untouched
  <1>11. Handed'
    BY <1>0, <1>a, <1>f DEF Handed, FilesTyped
  <1>12. FreshHandles'
    BY <1>0, <1>f, <1>n DEF FreshHandles
  <1>13. OneFile'
    BY <1>0, <1>f, <1>n, TaskIs DEF OneFile
  <1>14. CancelledTouchedNothing'
    BY <1>0, ReqIs DEF CancelledTouchedNothing
  <1>15. ClosedForGood'
    BY <1>0, <1>b, <1>f, <1>n, ReqIs DEF ClosedForGood
  <1> QED
    BY <1>1, <1>2, <1>3, <1>4, <1>7, <1>8, <1>9, <1>10, <1>11, <1>12, <1>13,
       <1>14, <1>15

-----------------------------------------------------------------------------
(* The submitters and the message loop.                                    *)

\* An op is submitted: it is the last in the channel and has the highest id.
LEMMA SubmitIInv ==
  ASSUME IInv, NEW kind \in Kinds, NEW h \in Handles \cup {NoHandle}, Submit(kind, h)
  PROVE  IInv'
  <1> USE DEF IInv
  <1>n. PICK n : n = Len(req) + 1
    OBVIOUS
  <1> DEFINE R == [kind : AllKinds, handle : Handles \cup {NoHandle}]
             M == [type : {"Submit", "Cancel"}, op : Ops]
             r == [kind |-> kind, handle |-> h]
             m == [type |-> "Submit", op |-> n]
  <1>a. n \in Ops /\ n \notin DOMAIN req
    BY <1>n, ReqIs, BoundsAssumption DEF Submit, Ops
  <1>b. r \in R /\ m \in M /\ r.kind = kind /\ r.handle = h /\ m.type = "Submit" /\ m.op = n
    BY <1>a, BoundsAssumption
  <1>c. req \in Seq(R) /\ rx \in Seq(M) /\ req' = Append(req, r) /\ rx' = Append(rx, m)
    BY <1>n DEF ClientTyped, Submit
  <1> HIDE DEF R, M, r, m
  <1>d. /\ req' \in Seq(R)
        /\ DOMAIN req' = DOMAIN req \cup {n} /\ Len(req') = n
        /\ \A o \in DOMAIN req : req'[o] = req[o]
        /\ req'[n] = r
    BY ONLY <1>n, <1>b, <1>c, AppendIs
  <1>e. /\ rx' \in Seq(M)
        /\ DOMAIN rx' = DOMAIN rx \cup {Len(rx) + 1}
        /\ Len(rx) \in Nat /\ DOMAIN rx = 1 .. Len(rx)
        /\ \A i \in DOMAIN rx : rx'[i] = rx[i] /\ rx[i] \in M
        /\ rx'[Len(rx) + 1] = m
    BY ONLY <1>b, <1>c, AppendIs, SeqIs
  <1>s. /\ Sent(n)'
        /\ \A o : o # n => (Sent(o)' <=> Sent(o))
    <2>1. Sent(n)'
      BY <1>e DEF Sent, m
    <2>2. \A o : o # n => m # [type |-> "Submit", op |-> o]
      BY <1>b
    <2>3. ASSUME NEW o, o # n PROVE Sent(o)' <=> Sent(o)
      BY <1>e, <2>2, <2>3 DEF Sent
    <2> QED
      BY <2>1, <2>3
  <1>t. \A o \in DOMAIN task : o \in DOMAIN req
    BY TaskIs
  <1>k. /\ kind \in HandleKinds <=> h # NoHandle
        /\ h # NoHandle => h \in DOMAIN files \/ \E o \in DOMAIN req : req[o].handle = h
        /\ kind \in AllKinds
    BY BoundsAssumption DEF Submit, KnownHandles
  <1>1. ClientTyped'
    BY <1>a, <1>d, <1>e DEF ClientTyped, Submit, R, M, Ops
  <1>2. TaskTyped'
    BY DEF TaskTyped, Submit
  <1>3. FilesTyped'
    BY DEF FilesTyped, Submit
  <1>4. Channel'
    <2>1. next_id' = next_id /\ next_id <= n
      BY <1>n DEF Channel, Submit
    <2>2. \A i \in DOMAIN rx : rx[i].op < n
      BY <1>n, ReqIs DEF Channel
    <2>3. next_id' <= Len(req') + 1
      BY <1>a, <1>d, <2>1 DEF FilesTyped, Ops
    <2> QED
      BY <1>b, <1>d, <1>e, <2>1, <2>2, <2>3 DEF Channel
  <1>7. Placed'
    <2>1. /\ UNCHANGED <<exited, task, flags, files, result, submittersGone>>
          /\ ~exited
      BY DEF Submit, Placed
    <2>2. result[n] = "none" /\ ~Sent(n) /\ n \notin DOMAIN task
      BY <1>a, <1>t DEF Placed, Sent, Channel
    <2>3. ASSUME NEW o \in Ops, o # n
          PROVE  /\ o \in DOMAIN req' /\ result'[o] = "none" <=> Sent(o)' \/ o \in DOMAIN task'
                 /\ ~(Sent(o)' /\ o \in DOMAIN task')
                 /\ o \in DOMAIN flags' <=> o \in DOMAIN task'
                 /\ o \notin DOMAIN req' => result'[o] = "none"
      BY <1>d, <1>s, <2>1, <2>3 DEF Placed
    <2>4. n \notin DOMAIN flags
      BY <1>a, <2>2 DEF Placed
    <2> QED
      BY <1>a, <1>d, <1>s, <2>1, <2>2, <2>3, <2>4 DEF Placed
  <1>8. Asked'
    BY <1>b, <1>e DEF Asked, Submit
  <1>9. Staged'
    BY <1>d, <1>t DEF Staged, Submit
  <1>10. Untouched'
    BY <1>a, <1>d, <1>s DEF Untouched, Submit
  <1>11. Handed'
    <2>1. UNCHANGED <<task, files, next_id, result>>
      BY DEF Submit
    <2>2. h < next_id /\ (h # NoHandle => \A p \in DOMAIN task : task[p].open_id # h)
      <3>1. CASE h = NoHandle
        BY <3>1 DEF NoHandle, FilesTyped
      <3>2. CASE h \in DOMAIN files
        BY <3>2 DEF FilesTyped, FreshHandles
      <3>3. CASE h # NoHandle /\ \E o \in DOMAIN req : req[o].handle = h
        BY <3>3 DEF Handed
      <3> QED
        BY <1>k, <3>1, <3>2, <3>3
    <2> QED
      BY <1>b, <1>d, <1>k, <2>1, <2>2 DEF Handed
  <1>12. FreshHandles'
    BY DEF FreshHandles, Submit
  <1>13. OneFile'
    BY <1>d, <1>t DEF OneFile, Submit
  <1>14. CancelledTouchedNothing'
    <2>1. result[n] = "none"
      BY <1>a DEF Placed
    <2> QED
      BY <1>d, <2>1 DEF CancelledTouchedNothing, Submit
  <1>15. ClosedForGood'
    <2>1. result[n] = "none"
      BY <1>a DEF Placed
    <2> QED
      BY <1>d, <1>t, <2>1 DEF ClosedForGood, Submit
  <1> QED
    BY <1>1, <1>2, <1>3, <1>4, <1>7, <1>8, <1>9, <1>10, <1>11, <1>12, <1>13,
       <1>14, <1>15

\* A cancel is sent: nothing but the channel and the history of cancels
\* changes.
LEMMA CancelIInv ==
  ASSUME IInv, NEW c \in Ops, Cancel(c)
  PROVE  IInv'
  <1> USE DEF IInv
  <1> DEFINE M == [type : {"Submit", "Cancel"}, op : Ops]
             m == [type |-> "Cancel", op |-> c]
  <1>a. /\ UNCHANGED <<submittersGone, req, exited, files, next_id, flags, task, touched, result>>
        /\ cancelReq' = cancelReq \cup {c} /\ c \in DOMAIN req /\ ~submittersGone
    BY DEF Cancel
  <1>b. m \in M /\ m.type = "Cancel" /\ m.op = c
    OBVIOUS
  <1>c. rx \in Seq(M) /\ rx' = Append(rx, m)
    BY DEF ClientTyped, Cancel
  <1> HIDE DEF M, m
  <1>e. /\ rx' \in Seq(M)
        /\ DOMAIN rx' = DOMAIN rx \cup {Len(rx) + 1}
        /\ \A i \in DOMAIN rx : rx'[i] = rx[i]
        /\ rx'[Len(rx) + 1] = m
    BY ONLY <1>b, <1>c, AppendIs
  <1>s. \A o : Sent(o)' <=> Sent(o)
    <2>1. \A o : m # [type |-> "Submit", op |-> o]
      BY <1>b
    <2> QED
      BY <1>e, <2>1 DEF Sent
  <1>1. ClientTyped'
    BY <1>a, <1>e DEF ClientTyped, M
  <1>2. TaskTyped' /\ FilesTyped'
    BY <1>a DEF TaskTyped, FilesTyped
  <1>4. Channel'
    BY <1>a, <1>b, <1>e DEF Channel
  <1>7. Placed'
    BY <1>a, <1>s DEF Placed
  <1>8. Asked'
    BY <1>a, <1>b, <1>e DEF Asked
  <1>9. Staged' /\ Handed' /\ FreshHandles' /\ OneFile'
    BY <1>a DEF Staged, Handed, FreshHandles, OneFile
  <1>10. Untouched'
    BY <1>a, <1>s DEF Untouched
  <1>11. CancelledTouchedNothing' /\ ClosedForGood'
    BY <1>a DEF CancelledTouchedNothing, ClosedForGood
  <1> QED
    BY <1>1, <1>2, <1>4, <1>7, <1>8, <1>9, <1>10, <1>11

\* The head of the channel is taken: what is left of it, and whose Submit is
\* still in it.
LEMMA HeadTaken ==
  ASSUME IInv, rx # <<>>, rx' = Tail(rx)
  PROVE  /\ rx' \in Seq([type : {"Submit", "Cancel"}, op : Ops])
         /\ \A i \in DOMAIN rx' : i \in Nat /\ i + 1 \in DOMAIN rx /\ rx'[i] = rx[i + 1]
         /\ 1 \in DOMAIN rx /\ Head(rx) = rx[1]
         /\ rx[1] \in [type : {"Submit", "Cancel"}, op : Ops]
         /\ \A o : Sent(o)' => Sent(o)
         /\ \A o : Sent(o) /\ rx[1] # [type |-> "Submit", op |-> o] => Sent(o)'
         /\ \A o : rx[1] = [type |-> "Submit", op |-> o] => Sent(o) /\ ~Sent(o)'
  <1> DEFINE M == [type : {"Submit", "Cancel"}, op : Ops]
  <1>1. rx \in Seq(M)
    BY DEF IInv, ClientTyped
  <1> HIDE DEF M
  <1>2. /\ rx' \in Seq(M)
        /\ DOMAIN rx = 1 .. Len(rx) /\ Len(rx) \in Nat \ {0}
        /\ DOMAIN rx' = 1 .. Len(rx) - 1
        /\ \A i \in DOMAIN rx' : i + 1 \in DOMAIN rx /\ rx'[i] = rx[i + 1]
        /\ 1 \in DOMAIN rx /\ Head(rx) = rx[1]
        /\ \A i \in DOMAIN rx : i # 1 => i - 1 \in DOMAIN rx' /\ rx'[i - 1] = rx[i]
    BY <1>1, TailIs
  <1>3. \A i \in DOMAIN rx : rx[i] \in M
    BY ONLY <1>1, SeqIs
  <1>4. \A o : Sent(o)' => Sent(o)
    BY <1>2 DEF Sent
  <1>5. ASSUME NEW o, Sent(o), rx[1] # [type |-> "Submit", op |-> o]
        PROVE  Sent(o)'
    <2>1. PICK i \in DOMAIN rx : rx[i] = [type |-> "Submit", op |-> o]
      BY <1>5 DEF Sent
    <2>2. i - 1 \in DOMAIN rx' /\ rx'[i - 1] = [type |-> "Submit", op |-> o]
      BY <1>2, <1>5, <2>1
    <2> QED
      BY <2>2 DEF Sent
  <1>6. ASSUME NEW o, rx[1] = [type |-> "Submit", op |-> o]
        PROVE  Sent(o) /\ ~Sent(o)'
    <2>1. Sent(o)
      BY <1>2, <1>6 DEF Sent
    <2>2. ASSUME NEW i \in DOMAIN rx', rx'[i] = [type |-> "Submit", op |-> o]
          PROVE  FALSE
      <3>1. i + 1 \in DOMAIN rx /\ rx[i + 1] = rx[1] /\ 1 < i + 1 /\ 1 \in DOMAIN rx
        BY <1>2, <1>6, <2>2
      <3>2. rx[1].type = "Submit" /\ rx[1].op = o
        BY <1>6
      <3>3. o \in Nat
        BY <1>2, <1>3, <3>2 DEF M, Ops
      <3> QED
        BY <3>1, <3>2, <3>3 DEF IInv, Channel
    <2> QED
      BY <2>1, <2>2 DEF Sent
  <1> QED
    BY <1>2, <1>3, <1>4, <1>5, <1>6 DEF M

\* The loop takes a submission: its task takes the place of the message, with
\* an id nobody has yet if it needs one.
LEMMA RunSubmitIInv ==
  ASSUME IInv, RunSubmit
  PROVE  IInv'
  <1> USE DEF IInv, clientVars
  <1>n. PICK o : o = Head(rx).op
    OBVIOUS
  <1>i. PICK id : id = IF Allocates(req[o].kind) THEN next_id ELSE NoHandle
    OBVIOUS
  <1> DEFINE t == [stage |-> "start", io |-> "none", file |-> NoFile, chunk |-> 1,
                   open_id |-> id]
  <1>a. /\ UNCHANGED <<clientVars, exited, files, touched, result>>
        /\ ~exited /\ rx # <<>> /\ rx' = Tail(rx) /\ Head(rx).type = "Submit"
        /\ next_id' = IF Allocates(req[o].kind) THEN next_id + 1 ELSE next_id
        /\ flags' = Insert(flags, o, FALSE)
        /\ task' = Insert(task, o, t)
    BY <1>n, <1>i DEF RunSubmit, NextId
  <1>b. /\ rx' \in Seq([type : {"Submit", "Cancel"}, op : Ops])
        /\ \A i \in DOMAIN rx' : i \in Nat /\ i + 1 \in DOMAIN rx /\ rx'[i] = rx[i + 1]
        /\ 1 \in DOMAIN rx /\ rx[1].type = "Submit" /\ rx[1].op = o
        /\ o \in Ops
        /\ rx[1] = [type |-> "Submit", op |-> o]
    BY <1>a, <1>n, HeadTaken
  <1>s. /\ \A p : p # o => (Sent(p)' <=> Sent(p))
        /\ Sent(o) /\ ~Sent(o)'
    <2>1. \A p : p # o => rx[1] # [type |-> "Submit", op |-> p]
      BY <1>b
    <2> QED
      BY <1>a, <1>b, <2>1, HeadTaken
  <1>c. /\ o \in DOMAIN req /\ result[o] = "none" /\ o \notin DOMAIN task /\ o \notin DOMAIN flags
    BY <1>a, <1>b, <1>s DEF Placed
  <1>d. /\ next_id \in Nat \ {0} /\ next_id <= o /\ next_id' \in Nat /\ next_id <= next_id'
        /\ next_id' <= o + 1 /\ o \in Nat /\ o <= Len(req) /\ Len(req) \in Nat
    BY <1>a, <1>b, <1>c, ReqIs DEF Channel, FilesTyped, Ops
  <1>e. /\ DOMAIN task' = DOMAIN task \cup {o}
        /\ \A p \in DOMAIN task : task'[p] = task[p]
        /\ task'[o] = t
    BY ONLY <1>a, <1>c DEF Insert
  <1>f. /\ DOMAIN flags' = DOMAIN flags \cup {o}
        /\ \A p \in DOMAIN flags : flags'[p] = flags[p]
        /\ flags'[o] = FALSE
    BY ONLY <1>a, <1>c DEF Insert
  <1>g. /\ id \in Handles \cup {NoHandle}
        /\ Allocates(req[o].kind) => id = next_id /\ next_id' = next_id + 1
        /\ ~Allocates(req[o].kind) => id = NoHandle /\ next_id' = next_id
    <2>1. next_id \in Handles
      BY <1>b, <1>d, BoundsAssumption DEF Handles, Ops
    <2> QED
      BY <1>a, <1>i, <2>1
  <1>t. /\ t \in TaskRecords
        /\ t.stage = "start" /\ t.io = "none" /\ t.file = NoFile /\ t.chunk = 1 /\ t.open_id = id
    BY <1>g, BoundsAssumption DEF TaskRecords, Stages
  <1> HIDE DEF t
  <1>1. ClientTyped'
    BY <1>a, <1>b DEF ClientTyped
  <1>2. TaskTyped'
    BY <1>a, <1>b, <1>e, <1>f, <1>t DEF TaskTyped
  <1>3. FilesTyped'
    BY <1>a, <1>d DEF FilesTyped
  <1>4. Channel'
    <2>1. \A i \in DOMAIN rx' : rx'[i].op \in DOMAIN req
      BY <1>b DEF Channel
    <2>2. ASSUME NEW i \in DOMAIN rx', rx'[i].type = "Submit"
          PROVE  next_id' <= rx'[i].op
      <3>1. i + 1 \in DOMAIN rx /\ rx[i + 1].type = "Submit" /\ 1 < i + 1
            /\ rx'[i].op = rx[i + 1].op
        BY <1>b, <2>2
      <3>2. rx[1].op < rx[i + 1].op /\ rx[i + 1].op \in DOMAIN req
        BY <1>b, <3>1 DEF Channel
      <3>3. o < rx'[i].op /\ rx'[i].op \in Nat
        BY <1>b, <3>1, <3>2, ReqIs
      <3> QED
        BY <1>d, <3>3
    <2>3. next_id' <= Len(req') + 1
      BY <1>a, <1>d
    <2> QED
      BY <1>a, <1>b, <2>1, <2>2, <2>3 DEF Channel
  <1>7. Placed'
    BY <1>a, <1>b, <1>s, <1>c, <1>e, <1>f DEF Placed
  <1>8. Asked'
    <2>1. \A i \in DOMAIN rx' : rx'[i].type = "Cancel" => rx'[i].op \in cancelReq
      BY <1>b DEF Asked
    <2>2. \A p \in DOMAIN flags' : flags'[p] => p \in cancelReq
      BY <1>f DEF Asked
    <2> QED
      BY <1>a, <2>1, <2>2 DEF Asked
  <1>9. Staged'
    BY <1>a, <1>d, <1>e, <1>g, <1>t DEF Staged, KindAt, NoHandle
  <1>10. Untouched'
    BY <1>a, <1>s, <1>e DEF Untouched
  <1>11. Handed'
    <2>1. /\ \A p \in DOMAIN task : task[p].open_id < next_id
          /\ \A p \in DOMAIN req : req[p].handle < next_id /\ req[p].handle \in Nat
          /\ \A p \in DOMAIN task : task[p].open_id \in Nat
      BY TaskIs, TaskFields, ReqIs DEF Handed, Handles, Ops, NoHandle
    <2> QED
      BY <1>a, <1>d, <1>e, <1>g, <1>t, <2>1 DEF Handed, NoHandle
  <1>12. FreshHandles'
    <2>1. \A p \in DOMAIN task : task[p].open_id < next_id /\ task[p].open_id \in Nat
      BY TaskIs, TaskFields DEF Handed, Handles, Ops, NoHandle
    <2>2. id \notin DOMAIN files /\ \A p \in DOMAIN task : task[p].open_id = id => id = NoHandle
      BY <1>d, <1>g, <2>1 DEF FilesTyped, NoHandle
    <2> QED
      BY <1>a, <1>c, <1>e, <1>t, <2>2 DEF FreshHandles
  <1>13. OneFile'
    BY <1>a, <1>e, <1>t DEF OneFile
  <1>14. CancelledTouchedNothing'
    BY <1>a DEF CancelledTouchedNothing
  <1>15. ClosedForGood'
    BY <1>a, <1>e, <1>t DEF ClosedForGood
  <1> QED
    BY <1>1, <1>2, <1>3, <1>4, <1>7, <1>8, <1>9, <1>10, <1>11, <1>12, <1>13,
       <1>14, <1>15

\* The loop takes a cancel: at most the op's flag changes.
LEMMA RunCancelIInv ==
  ASSUME IInv, RunCancel
  PROVE  IInv'
  <1> USE DEF IInv, clientVars
  <1>n. PICK o : o = Head(rx).op
    OBVIOUS
  <1>a. /\ UNCHANGED <<clientVars, exited, files, next_id, task, touched, result>>
        /\ ~exited /\ rx # <<>> /\ rx' = Tail(rx) /\ Head(rx).type = "Cancel"
        /\ flags' = IF o \in DOMAIN flags THEN [flags EXCEPT ![o] = TRUE] ELSE flags
    BY <1>n DEF RunCancel
  <1>b. /\ rx' \in Seq([type : {"Submit", "Cancel"}, op : Ops])
        /\ \A i \in DOMAIN rx' : i \in Nat /\ i + 1 \in DOMAIN rx /\ rx'[i] = rx[i + 1]
        /\ 1 \in DOMAIN rx /\ rx[1].type = "Cancel" /\ rx[1].op = o
        /\ \A p : rx[1] # [type |-> "Submit", op |-> p]
    BY <1>a, <1>n, HeadTaken
  <1>s. \A p : Sent(p)' <=> Sent(p)
    BY <1>a, <1>b, HeadTaken
  <1>c. o \in cancelReq
    BY <1>b DEF Asked
  <1>f. /\ DOMAIN flags' = DOMAIN flags
        /\ \A p \in DOMAIN flags : p # o => flags'[p] = flags[p]
        /\ o \in DOMAIN flags => flags'[o] = TRUE
    BY ONLY <1>a
  <1>1. ClientTyped'
    BY <1>a, <1>b DEF ClientTyped
  <1>2. TaskTyped'
    <2>1. \A p \in DOMAIN flags' : flags'[p] \in BOOLEAN
      BY <1>f DEF TaskTyped
    <2> QED
      BY <1>a, <1>f, <2>1 DEF TaskTyped
  <1>3. FilesTyped'
    BY <1>a DEF FilesTyped
  <1>4. Channel'
    BY <1>a, <1>b DEF Channel
  <1>7. Placed'
    BY <1>a, <1>s, <1>f DEF Placed
  <1>8. Asked'
    <2>1. \A i \in DOMAIN rx' : rx'[i].type = "Cancel" => rx'[i].op \in cancelReq
      BY <1>b DEF Asked
    <2>2. \A p \in DOMAIN flags' : flags'[p] => p \in cancelReq
      BY <1>c, <1>f DEF Asked
    <2> QED
      BY <1>a, <2>1, <2>2 DEF Asked
  <1>9. Staged' /\ Handed' /\ FreshHandles' /\ OneFile'
    BY <1>a DEF Staged, Handed, FreshHandles, OneFile
  <1>10. Untouched'
    BY <1>a, <1>s DEF Untouched
  <1>11. CancelledTouchedNothing' /\ ClosedForGood'
    BY <1>a DEF CancelledTouchedNothing, ClosedForGood
  <1> QED
    BY <1>1, <1>2, <1>3, <1>4, <1>7, <1>8, <1>9, <1>10, <1>11

\* The channel is closed and empty: every table is dropped.
LEMMA RunReturnIInv ==
  ASSUME IInv, RunReturn
  PROVE  IInv'
  <1> USE DEF IInv, clientVars, RunReturn
  <1>0. DOMAIN files' = {} /\ DOMAIN task' = {} /\ DOMAIN flags' = {} /\ exited' = TRUE
    OBVIOUS
  <1>s. \A p : Sent(p)' <=> Sent(p)
    BY DEF Sent
  <1>e. rx' = <<>> /\ \A p : ~Sent(p)
    BY DEF Sent
  <1>1. ClientTyped' /\ Channel'
    BY DEF ClientTyped, Channel
  <1>2. TaskTyped'
    BY <1>0 DEF TaskTyped
  <1>3. FilesTyped'
    BY <1>0 DEF FilesTyped
  <1>7. Placed'
    BY <1>0, <1>s, <1>e DEF Placed
  <1>8. Asked'
    BY <1>0 DEF Asked
  <1>9. Staged' /\ Handed' /\ FreshHandles' /\ OneFile'
    BY <1>0 DEF Staged, Handed, FreshHandles, OneFile
  <1>10. Untouched'
    BY <1>0, <1>s DEF Untouched
  <1>11. CancelledTouchedNothing' /\ ClosedForGood'
    BY <1>0 DEF CancelledTouchedNothing, ClosedForGood
  <1> QED
    BY <1>1, <1>2, <1>3, <1>7, <1>8, <1>9, <1>10, <1>11

-----------------------------------------------------------------------------
(* One poll of one task.                                                   *)

LEMMA StartIInv ==
  ASSUME IInv, NEW o \in Ops, Start(o)
  PROVE  IInv'
  <1> USE DEF Start
  <1>0. /\ o \in DOMAIN task /\ task[o].stage = "start"
        /\ UNCHANGED <<rx, clientVars, exited, next_id>>
    BY DEF Polled
  <1>1. /\ o \in DOMAIN flags /\ o \in DOMAIN req
        /\ flags[o] => o \in cancelReq
        /\ o \notin touched
        /\ Stages = {"start", "open", "size", "read", "transfer", "close"}
        /\ Results = {"none", "done", "bad", "cancelled"}
        /\ HandleKinds = {"Close", "ReadAt", "WriteAt"}
    BY <1>0, TaskIs DEF IInv, Asked, Untouched, Stages, Results, HandleKinds
  <1>2. CASE flags[o] /\ Settle(o, "cancelled") /\ UNCHANGED files
    BY <1>0, <1>1, <1>2, SettleIInv
  <1>3. CASE req[o].kind = "Nop" /\ Settle(o, "done") /\ UNCHANGED files
    BY <1>0, <1>1, <1>3, SettleIInv
  <1>4. CASE /\ req[o].kind \in {"Open", "ReadFile", "WriteFile"}
             /\ Await(o, "open", NoFile) /\ UNCHANGED files
    BY <1>0, <1>1, <1>4, AwaitIInv DEF KindAt
  <1>5. CASE /\ req[o].kind \in HandleKinds /\ ~Lookup(req[o].handle)
             /\ Settle(o, "bad") /\ UNCHANGED files
    BY <1>0, <1>1, <1>5, SettleIInv
  <1>6. CASE req[o].kind = "ReadAt" /\ Settle(o, "done") /\ UNCHANGED files
    BY <1>0, <1>1, <1>6, SettleIInv
  <1>f. ASSUME Lookup(req[o].handle)
        PROVE  /\ files[req[o].handle] \in Ops \cup {NoFile}
               /\ files[req[o].handle] # NoFile
               /\ req[o].handle \in DOMAIN files
    BY <1>f DEF IInv, FilesTyped, Lookup, Ops, NoFile
  <1>7. CASE /\ req[o].kind = "ReadAt" /\ Lookup(req[o].handle)
             /\ Await(o, "read", files[req[o].handle]) /\ UNCHANGED files
    BY <1>0, <1>1, <1>f, <1>7, AwaitIInv DEF KindAt
  <1>8. CASE /\ req[o].kind = "WriteAt" /\ Lookup(req[o].handle)
             /\ Await(o, "transfer", files[req[o].handle]) /\ UNCHANGED files
    BY <1>0, <1>1, <1>f, <1>8, AwaitIInv DEF KindAt
  <1>9. CASE /\ req[o].kind = "Close" /\ Lookup(req[o].handle)
             /\ files' = TakesOut(req[o].handle)
             /\ Await(o, "close", files[req[o].handle])
    BY <1>0, <1>1, <1>f, <1>9, AwaitIInv DEF KindAt
  <1> QED
    BY <1>2, <1>3, <1>4, <1>5, <1>6, <1>7, <1>8, <1>9

\* The polls after the first: each settles the op or goes on to the next await.
LEMMA ResumeIInv ==
  ASSUME IInv, NEW o \in Ops,
         \/ AfterOpen(o) \/ AfterSize(o) \/ AfterChunk(o)
         \/ AfterTransfer(o) \/ AfterWholeFile(o) \/ AfterClose(o)
  PROVE  IInv'
  <1>0. /\ o \in DOMAIN task /\ task[o].stage # "start" /\ task[o].io # "kernel"
        /\ UNCHANGED <<rx, clientVars, exited, next_id>>
    BY DEF Polled, AfterOpen, AfterSize, AfterChunk, AfterTransfer, AfterWholeFile, AfterClose
  <1>1. /\ o \in DOMAIN flags /\ o \in DOMAIN req /\ task[o] \in TaskRecords
        /\ flags[o] => o \in cancelReq
        /\ Stages = {"start", "open", "size", "read", "transfer", "close"}
        /\ Results = {"none", "done", "bad", "cancelled"}
        /\ HandleKinds = {"Close", "ReadAt", "WriteAt"}
        /\ KindAt(req[o].kind, task[o].stage)
        /\ o # NoFile
    BY <1>0, TaskIs DEF IInv, Asked, Staged, Stages, Results, HandleKinds, Ops, NoFile
  <1>s. ASSUME Settle(o, "done"), UNCHANGED files,
               req[o].kind = "Close" => task[o].stage = "close"
        PROVE  IInv'
    BY <1>0, <1>1, <1>s, SettleIInv
  <1>2. CASE AfterOpen(o)
    <2>0. /\ task[o].stage = "open" /\ UNCHANGED files
          /\ req[o].kind \in {"Open", "ReadFile", "WriteFile"}
      BY <1>1, <1>2 DEF AfterOpen, Polled, KindAt
    <2>1. CASE Settle(o, "done")
      BY <1>s, <2>0, <2>1
    <2>2. CASE Allocates(req[o].kind) /\ Await(o, "size", o)
      BY <1>0, <1>1, <2>0, <2>2, AwaitIInv DEF KindAt, Allocates
    <2>3. CASE req[o].kind = "WriteFile" /\ Await(o, "transfer", o)
      BY <1>0, <1>1, <2>0, <2>3, AwaitIInv DEF KindAt
    <2> QED
      BY <1>2, <2>1, <2>2, <2>3 DEF AfterOpen
  <1>3. CASE AfterSize(o)
    <2>0. task[o].stage = "size" /\ req[o].kind \in {"Open", "ReadFile"}
      BY <1>1, <1>3 DEF AfterSize, Polled, KindAt
    <2>1. CASE Settle(o, "done") /\ UNCHANGED files
      BY <1>s, <2>0, <2>1
    <2>2. CASE Register(o)
      BY <1>0, <2>0, <2>2, RegisterIInv
    <2>3. CASE req[o].kind = "ReadFile" /\ Await(o, "transfer", o) /\ UNCHANGED files
      BY <1>0, <1>1, <2>0, <2>3, AwaitIInv DEF KindAt
    <2> QED
      BY <1>3, <2>1, <2>2, <2>3 DEF AfterSize
  <1>4. CASE AfterChunk(o)
    <2>0. task[o].stage = "read" /\ req[o].kind = "ReadAt" /\ UNCHANGED files
      BY <1>1, <1>4 DEF AfterChunk, Polled, KindAt
    <2>1. CASE Aborts(o) /\ Settle(o, "cancelled")
      BY <1>0, <1>1, <2>0, <2>1, SettleIInv DEF Aborts
    <2>2. CASE Settle(o, "done")
      BY <1>s, <2>0, <2>2
    <2>3. CASE /\ task[o].io = "more"
               /\ task' = [task EXCEPT ![o].io = "kernel", ![o].chunk = @ + 1]
               /\ UNCHANGED <<flags, touched, result>>
      <3> DEFINE u == [task[o] EXCEPT !.io = "kernel", !.chunk = @ + 1]
      <3>1. task[o].chunk + 1 \in 1 .. MaxChunks
        BY <1>0, <1>1, <2>3, TaskFields, BoundsAssumption DEF IInv, Staged
      <3>2. /\ u \in TaskRecords /\ u.io = "kernel"
            /\ u.stage = task[o].stage /\ u.file = task[o].file /\ u.open_id = task[o].open_id
        BY <1>1, <3>1 DEF TaskRecords
      <3>3. task' = [task EXCEPT ![o] = u]
        BY <2>3
      <3> HIDE DEF u
      <3> QED
        BY <1>0, <2>0, <2>3, <3>2, <3>3, IoIInv
    <2> QED
      BY <1>4, <2>1, <2>2, <2>3 DEF AfterChunk
  <1>5. CASE AfterTransfer(o)
    BY <1>s, <1>5 DEF AfterTransfer, Outcome
  <1>6. CASE AfterWholeFile(o)
    <2>0. /\ task[o].stage = "transfer" /\ UNCHANGED files
          /\ req[o].kind \in {"ReadFile", "WriteFile"}
      BY <1>6 DEF AfterWholeFile, Polled
    <2>1. CASE Settle(o, "done")
      BY <1>s, <2>0, <2>1
    <2>2. CASE Await(o, "close", task[o].file)
      <3>1. task[o].file = o
        BY <1>0, <1>1, <2>0 DEF IInv, Staged
      <3> QED
        BY <1>0, <1>1, <2>0, <2>2, <3>1, AwaitIInv DEF KindAt
    <2> QED
      BY <1>6, <2>1, <2>2 DEF AfterWholeFile
  <1>7. CASE AfterClose(o)
    BY <1>s, <1>7 DEF AfterClose, Polled
  <1> QED
    BY <1>2, <1>3, <1>4, <1>5, <1>6, <1>7

LEMMA KernelDoneIInv ==
  ASSUME IInv, NEW o \in Ops, KernelDone(o)
  PROVE  IInv'
  <1>1. PICK io \in {"end", "full", "more"} :
          /\ task' = [task EXCEPT ![o].io = io]
          /\ io = "more" => task[o].chunk < MaxChunks
    BY DEF KernelDone
  <1>2. /\ o \in DOMAIN task
        /\ task[o].stage = "close" => LastClone(o)
        /\ UNCHANGED <<rx, clientVars, exited, files, next_id, flags, touched, result>>
    BY DEF KernelDone
  <1>3. task[o] \in TaskRecords
    BY <1>2 DEF IInv, TaskTyped
  <1> DEFINE u == [task[o] EXCEPT !.io = io]
  <1>4. /\ u \in TaskRecords /\ u.io = io /\ u.chunk = task[o].chunk
        /\ u.stage = task[o].stage /\ u.file = task[o].file /\ u.open_id = task[o].open_id
    BY <1>3 DEF TaskRecords
  <1>5. task' = [task EXCEPT ![o] = u]
    BY <1>1
  <1> HIDE DEF u
  <1> QED
    BY <1>1, <1>2, <1>4, <1>5, IoIInv

\* Every step keeps the invariant.
LEMMA NextIInv == IInv /\ [Next]_vars => IInv'
  <1> SUFFICES ASSUME IInv, [Next]_vars PROVE IInv'
    OBVIOUS
  <1>1. CASE DropSubmitters
    <2>1. /\ UNCHANGED <<rx, req, cancelReq, exited, files, next_id, flags, task, touched, result>>
          /\ submittersGone' = TRUE
      BY <1>1 DEF DropSubmitters
    <2>2. \A p : Sent(p)' <=> Sent(p)
      BY <2>1 DEF Sent
    <2>3. ClientTyped' /\ TaskTyped' /\ FilesTyped' /\ Channel'
      BY <2>1 DEF IInv, ClientTyped, TaskTyped, FilesTyped, Channel
    <2>4. Placed' /\ Asked' /\ Staged' /\ Untouched'
      BY <2>1, <2>2 DEF IInv, Placed, Asked, Staged, Untouched
    <2> QED
      BY <2>1, <2>3, <2>4 DEF IInv, Handed, FreshHandles, OneFile,
         CancelledTouchedNothing, ClosedForGood
  <1>2. CASE UNCHANGED vars
    <2>1. \A p : Sent(p)' <=> Sent(p)
      BY <1>2 DEF Sent, vars
    <2>2. ClientTyped' /\ TaskTyped' /\ FilesTyped' /\ Channel'
      BY <1>2 DEF IInv, ClientTyped, TaskTyped, FilesTyped, Channel, vars
    <2>3. Placed' /\ Asked' /\ Staged' /\ Untouched'
      BY <1>2, <2>1 DEF IInv, Placed, Asked, Staged, Untouched, vars
    <2> QED
      BY <1>2, <2>2, <2>3 DEF IInv, Handed, FreshHandles, OneFile,
         CancelledTouchedNothing, ClosedForGood, vars
  <1>3. CASE \E o \in Ops : Poll(o)
    BY <1>3, StartIInv, ResumeIInv DEF Poll
  <1> QED
    BY <1>1, <1>2, <1>3, SubmitIInv, CancelIInv, RunSubmitIInv, RunCancelIInv,
       RunReturnIInv, KernelDoneIInv DEF Next, RunStep

-----------------------------------------------------------------------------
LEMMA IInvAlways == Spec => []IInv
  BY InitIInv, NextIInv, PTL DEF Spec

\* The compio driver's state is well typed; in particular, the ids run() gives
\* out to opens never outrun the ops submitted.
THEOREM TypeCorrect == Spec => []TypeOK
  <1>1. IInv => TypeOK
    BY DEF IInv, ClientTyped, TaskTyped, FilesTyped, TypeOK, TaskRecords
  <1> QED
    BY IInvAlways, <1>1, PTL

\* However many ops are submitted and cancelled, run() and the tasks drop no op
\* and leave no flag behind.
THEOREM OpsPlaced == Spec => []OpInOnePlace
  <1>1. IInv => OpInOnePlace
    BY DEF IInv, Placed, Sent, OpInOnePlace
  <1> QED
    BY IInvAlways, <1>1, PTL

\* However the opens in flight come back, none registers under a live handle or
\* under the id of another.
THEOREM HandlesFresh == Spec => []FreshHandles
  <1>1. IInv => FreshHandles
    BY DEF IInv
  <1> QED
    BY IInvAlways, <1>1, PTL

\* An op that never looks at its flag while it runs, and settles ECANCELED, has
\* asked the kernel for nothing.
THEOREM CancelledUntouched == Spec => []CancelledTouchedNothing
  <1>1. IInv => CancelledTouchedNothing
    BY DEF IInv
  <1> QED
    BY IInvAlways, <1>1, PTL

\* A Close that went through is the last use of its file, however many ops on
\* the handle were in flight.
THEOREM ClosesAreFinal == Spec => []ClosedForGood
  <1>1. IInv => ClosedForGood
    BY DEF IInv
  <1> QED
    BY IInvAlways, <1>1, PTL

-----------------------------------------------------------------------------
(* The driver implements the safety half of the contract.                  *)

\* A task that ends is the contract settling its op.
LEMMA SettleIsContract ==
  ASSUME IInv, NEW o \in DOMAIN task, NEW r \in Results \ {"none"}, Settle(o, r),
         UNCHANGED clientVars, r = "cancelled" => o \in cancelReq
  PROVE  Contract!Next
  <1>1. o \in Ops /\ o \in DOMAIN req /\ result[o] = "none"
    BY TaskIs DEF IInv
  <1>2. result \in [Ops -> Results] /\ result' = [result EXCEPT ![o] = r]
    BY DEF IInv, TaskTyped, Settle
  <1>3. result' \in [Ops -> Contract!Results]
    BY <1>1, <1>2 DEF Results, Contract!Results
  <1>4. {o} \subseteq Contract!Pending
    BY <1>1 DEF Contract!Pending
  <1>5. Contract!SettleAll({o})
    BY <1>1, <1>2, <1>3, <1>4 DEF Contract!SettleAll, clientVars
  <1>6. {o} \in SUBSET Ops /\ {o} # {}
    BY <1>1
  <1> QED
    BY <1>5, <1>6 DEF Contract!Next

\* Every other step of a task, of the kernel or of the loop is invisible.
LEMMA QuietIsContract ==
  ASSUME UNCHANGED clientVars, UNCHANGED result
  PROVE  UNCHANGED Contract!contractVars
  BY DEF clientVars, Contract!contractVars

LEMMA PollIsContract ==
  ASSUME IInv, NEW o \in Ops, Poll(o)
  PROVE  [Contract!Next]_(Contract!contractVars)
  <1>0. o \in DOMAIN task /\ UNCHANGED clientVars
    BY DEF Poll, Polled, Start, AfterOpen, AfterSize, AfterChunk, AfterTransfer,
       AfterWholeFile, AfterClose
  <1>1. /\ flags[o] => o \in cancelReq
        /\ Results = {"none", "done", "bad", "cancelled"}
    BY <1>0, TaskIs DEF IInv, Asked, Results
  <1>2. \/ flags[o] /\ Settle(o, "cancelled")
        \/ Settle(o, "done") \/ Settle(o, "bad") \/ UNCHANGED result
    BY DEF Poll, Start, AfterOpen, AfterSize, AfterChunk, AfterTransfer,
       AfterWholeFile, AfterClose, Register, Outcome, Await, Aborts
  <1> QED
    BY <1>0, <1>1, <1>2, SettleIsContract, QuietIsContract

LEMMA InitIsContract == Init => Contract!Init
  BY DEF Init, Contract!Init

LEMMA NextIsContract == IInv /\ [Next]_vars => [Contract!Next]_(Contract!contractVars)
  <1> SUFFICES ASSUME IInv, [Next]_vars PROVE [Contract!Next]_(Contract!contractVars)
    OBVIOUS
  <1>1. CASE \E kind \in Kinds, h \in Handles \cup {NoHandle} : Submit(kind, h)
    <2>1. PICK kind \in Kinds, h \in Handles \cup {NoHandle} : Submit(kind, h)
      BY <1>1
    <2>n. PICK n : n = Len(req) + 1
      OBVIOUS
    <2>2. n \in Ops /\ n \notin DOMAIN req
      BY <2>1, <2>n, ReqIs, BoundsAssumption DEF IInv, Submit, Ops
    <2>3. DOMAIN req' = DOMAIN req \cup {n}
      <3> DEFINE R == [kind : AllKinds, handle : Handles \cup {NoHandle}]
                 r == [kind |-> kind, handle |-> h]
      <3>1. req \in Seq(R) /\ r \in R /\ req' = Append(req, r)
        BY <2>1, BoundsAssumption DEF IInv, ClientTyped, Submit
      <3> HIDE DEF R, r
      <3> QED
        BY ONLY <2>n, <3>1, AppendIs
    <2>4. UNCHANGED <<submittersGone, cancelReq, result>>
      BY <2>1 DEF Submit
    <2> QED
      BY <2>2, <2>3, <2>4 DEF Contract!Next, Contract!Submit
  <1>2. CASE \E o \in Ops : Cancel(o)
    BY <1>2 DEF Cancel, Contract!Next, Contract!Cancel
  <1>3. CASE DropSubmitters
    BY <1>3 DEF DropSubmitters, Contract!Next, Contract!Retire
  <1>4. CASE RunStep
    BY <1>4, QuietIsContract DEF RunStep, RunSubmit, RunCancel, RunReturn
  <1>5. CASE \E o \in Ops : Poll(o)
    BY <1>5, PollIsContract
  <1>6. CASE \E o \in Ops : KernelDone(o)
    BY <1>6, QuietIsContract DEF KernelDone
  <1>7. CASE UNCHANGED vars
    BY <1>7, QuietIsContract DEF vars, clientVars
  <1> QED
    BY <1>1, <1>2, <1>3, <1>4, <1>5, <1>6, <1>7 DEF Next

\* The compio driver keeps the safety half of what every backend promises, for
\* any number of ops: each op settles at most once, only after it was submitted,
\* and ECANCELED only after a cancel.
THEOREM KeepsContract == Spec => Contract!Safety
  BY InitIsContract, NextIsContract, IInvAlways, PTL DEF Spec, Contract!Safety
=============================================================================
