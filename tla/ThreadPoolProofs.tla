-------------------------- MODULE ThreadPoolProofs --------------------------
(***************************************************************************)
(* What holds of the thread pool for every number of workers, every set of *)
(* jobs and every interleaving of the main thread with the workers.        *)
(***************************************************************************)
EXTENDS ThreadPool, FiniteSetTheorems, SequenceTheorems, TLAPS

-----------------------------------------------------------------------------
(* The inductive invariant *)

In(list, w) == \E i \in 1 .. Len(list) : list[i] = w
Distinct(list) ==
  \A i, j \in 1 .. Len(list) : list[i] = list[j] => i = j

\* A worker is in one of the two lists exactly from AddWorker on.
ListsInv ==
  /\ Distinct(free_threads_) /\ Distinct(busy_threads_)
  /\ \A w \in Worker : ~(In(free_threads_, w) /\ In(busy_threads_, w))
  /\ \A w \in Worker :
       wpc[w] = "none" <=> ~In(free_threads_, w) /\ ~In(busy_threads_, w)

\* Worker w has nothing to do.  Where its response was collected early it
\* has yet to clear its inbox, and DeliverWork finds it not empty.
Resting(w) ==
  /\ outbox_len_[w] = 0
  /\ \/ /\ wpc[w] \in {"none", "unstarted", "check", "lock", "done"}
        /\ inbox_len_[w] = 0
     \/ wpc[w] = "clear" /\ inbox_len_[w] # 0

\* Worker w has job j in its inbox and nothing in its outbox (a worker
\* whose thread was not started, for good) ...
Assigned(w, j) ==
  /\ inbox_[w] = {j} /\ inbox_len_[w] = InLen[j] /\ outbox_len_[w] = 0
  /\ wpc[w] \in {"unstarted", "check", "lock", "done", "busy", "drain",
                 "begin", "end", "publish"}
  /\ wpc[w] \in {"busy", "drain", "begin", "end", "publish"} =>
       inbox_len_[w] # 0
  /\ wpc[w] = "end" => winput[w] = {j}
  /\ wpc[w] = "publish" => outbox_[w] = {j}

\* ... or the response to j in its outbox.
Answered(w, j) ==
  /\ outbox_[w] = {j} /\ outbox_len_[w] = OutLen[j]
  /\ \/ wpc[w] = "clear" /\ inbox_len_[w] # 0
     \/ wpc[w] \in {"check", "lock", "done"} /\ inbox_len_[w] = 0

Working(w, j) == Assigned(w, j) \/ Answered(w, j)

\* The worker DeliverWork has given its job and not yet woken.
Handed(w) == mpc = "wake" /\ w = Head(free_threads_)

WorkersInv ==
  \A w \in Worker :
    /\ In(busy_threads_, w) => \E j \in Job : owed[w] = {j} /\ Working(w, j)
    /\ ~In(busy_threads_, w) => owed[w] = {}
    /\ ~In(busy_threads_, w) /\ ~Handed(w) => Resting(w)
    /\ In(free_threads_, w) /\ Handed(w) => Working(w, mjob)

\* The main thread: what DeliverWork has written, and what CollectRsp has
\* found in the worker it visits.
MainInv ==
  /\ mpc \in {"copy", "len", "wake"} => free_threads_ # <<>>
  /\ mpc \in {"copy", "len"} => inbox_len_[Head(free_threads_)] = 0
  /\ mpc = "len" => inbox_[Head(free_threads_)] = {mjob}
  /\ mpc \in {"fits", "nonzero", "output", "output_len", "release"} =>
       mpos <= Len(busy_threads_)
  /\ mpc \in {"output", "output_len", "release"} => outbox_len_[Visited] # 0
  /\ mpc = "output_len" => mcopy.data = owed[Visited]

PoolInv ==
  TypeOK /\ ListsInv /\ WorkersInv /\ MainInv /\ ResponseMatches

-----------------------------------------------------------------------------
(* The lists of the pool *)

\* push_back of a worker that is in neither list.
LEMMA AppendList ==
  ASSUME NEW list \in Seq(Worker), NEW w \in Worker
  PROVE  /\ Append(list, w) \in Seq(Worker)
         /\ Len(Append(list, w)) = Len(list) + 1
         /\ \A x \in Worker : In(Append(list, w), x) <=> In(list, x) \/ x = w
         /\ Distinct(list) /\ ~In(list, w) => Distinct(Append(list, w))
<1> DEFINE r == Append(list, w)
<1>1. /\ r \in Seq(Worker) /\ Len(r) = Len(list) + 1 /\ Len(list) \in Nat
      /\ \A i \in 1 .. Len(list) : r[i] = list[i]
      /\ r[Len(list) + 1] = w
  OBVIOUS
<1> HIDE DEF r
<1>2. \A x \in Worker : In(r, x) <=> In(list, x) \/ x = w
  BY <1>1 DEF In
<1>3. Distinct(list) /\ ~In(list, w) => Distinct(r)
  BY <1>1 DEF Distinct, In
<1> QED BY <1>1, <1>2, <1>3 DEF r

\* pop_front.
LEMMA TailList ==
  ASSUME NEW list \in Seq(Worker), list # <<>>
  PROVE  /\ Tail(list) \in Seq(Worker) /\ Head(list) \in Worker
         /\ In(list, Head(list))
         /\ Distinct(list) =>
              /\ Distinct(Tail(list))
              /\ \A x \in Worker :
                   In(Tail(list), x) <=> In(list, x) /\ x # Head(list)
<1> DEFINE r == Tail(list)
<1>1. /\ r \in Seq(Worker) /\ Len(list) \in Nat \ {0}
      /\ Len(r) = Len(list) - 1
      /\ \A i \in 1 .. Len(r) : r[i] = list[i + 1]
      /\ Head(list) = list[1] /\ list[1] \in Worker
  OBVIOUS
<1> HIDE DEF r
<1>2. In(list, Head(list))
  BY <1>1 DEF In
<1>3. ASSUME Distinct(list)
      PROVE  Distinct(r)
  BY <1>1, <1>3 DEF Distinct
<1>4. ASSUME Distinct(list), NEW x \in Worker
      PROVE  In(r, x) <=> In(list, x) /\ x # Head(list)
  <2>1. ASSUME In(r, x)
        PROVE  In(list, x) /\ x # Head(list)
    BY <1>1, <1>4, <2>1 DEF In, Distinct
  <2>2. ASSUME In(list, x), x # Head(list)
        PROVE  In(r, x)
    <3>1. PICK i \in 1 .. Len(list) : list[i] = x
      BY <2>2 DEF In
    <3>2. i - 1 \in 1 .. Len(r) /\ r[i - 1] = x
      BY <3>1, <2>2, <1>1
    <3> QED BY <3>2 DEF In
  <2> QED BY <2>1, <2>2
<1> QED BY <1>1, <1>2, <1>3, <1>4 DEF r

\* erase at a position.
LEMMA EraseList ==
  ASSUME NEW list \in Seq(Worker), NEW p \in 1 .. Len(list),
         Distinct(list)
  PROVE  LET r == SubSeq(list, 1, p - 1) \o SubSeq(list, p + 1, Len(list))
         IN  /\ r \in Seq(Worker) /\ Distinct(r)
             /\ \A x \in Worker : In(r, x) <=> In(list, x) /\ x # list[p]
<1> DEFINE a == SubSeq(list, 1, p - 1)
           b == SubSeq(list, p + 1, Len(list))
           r == a \o b
<1>1. /\ a \in Seq(Worker) /\ Len(a) = p - 1
      /\ \A i \in 1 .. p - 1 : a[i] = list[i]
  OBVIOUS
<1>2. /\ b \in Seq(Worker) /\ Len(b) = Len(list) - p
      /\ \A i \in 1 .. Len(list) - p : b[i] = list[p + i]
  OBVIOUS
<1> HIDE DEF a, b
<1>3. /\ r \in Seq(Worker) /\ Len(r) = Len(list) - 1
      /\ \A i \in 1 .. p - 1 : r[i] = list[i]
      /\ \A i \in p .. Len(list) - 1 : r[i] = list[i + 1]
  <2>1. r \in Seq(Worker)
    BY <1>1, <1>2
  <2>2. Len(r) = Len(list) - 1
    <3>1. Len(r) = Len(a) + Len(b)
      BY <1>1, <1>2, ConcatProperties
    <3> QED BY <3>1, <1>1, <1>2
  <2>3. \A i \in 1 .. p - 1 : r[i] = list[i]
    BY <1>1, <1>2
  <2>4. ASSUME NEW i \in p .. Len(list) - 1
        PROVE  r[i] = list[i + 1]
    <3>1. r[i] = b[i - (p - 1)]
      BY <1>1, <1>2
    <3>2. i - (p - 1) \in 1 .. Len(list) - p /\ p + (i - (p - 1)) = i + 1
      OBVIOUS
    <3> QED BY <3>1, <3>2, <1>2
  <2> QED BY <2>1, <2>2, <2>3, <2>4
<1> HIDE DEF r
<1>4. Distinct(r)
  <2> SUFFICES ASSUME NEW i \in 1 .. Len(r), NEW j \in 1 .. Len(r), r[i] = r[j]
               PROVE  i = j
    BY DEF Distinct
  <2> DEFINE At(k) == IF k < p THEN k ELSE k + 1
  <2>1. At(i) \in 1 .. Len(list) /\ At(j) \in 1 .. Len(list)
        /\ list[At(i)] = r[i] /\ list[At(j)] = r[j]
    BY <1>3
  <2>2. At(i) = At(j)
    BY <2>1 DEF Distinct
  <2> QED BY <2>2
<1>5. ASSUME NEW x \in Worker
      PROVE  In(r, x) <=> In(list, x) /\ x # list[p]
  <2>1. ASSUME In(r, x)
        PROVE  In(list, x) /\ x # list[p]
    <3>1. PICK i \in 1 .. Len(r) : r[i] = x
      BY <2>1 DEF In
    <3>2. CASE i < p
      BY <3>1, <3>2, <1>3 DEF In, Distinct
    <3>3. CASE i >= p
      BY <3>1, <3>3, <1>3 DEF In, Distinct
    <3> QED BY <3>2, <3>3
  <2>2. ASSUME In(list, x), x # list[p]
        PROVE  In(r, x)
    <3>1. PICK i \in 1 .. Len(list) : list[i] = x
      BY <2>2 DEF In
    <3>2. CASE i < p
      BY <3>1, <3>2, <1>3 DEF In
    <3>3. CASE i > p
      <4>1. i - 1 \in 1 .. Len(r) /\ r[i - 1] = x
        BY <3>1, <3>3, <1>3
      <4> QED BY <4>1 DEF In
    <3> QED BY <3>1, <3>2, <3>3, <2>2
  <2> QED BY <2>1, <2>2
<1> QED BY <1>3, <1>4, <1>5 DEF r, a, b

-----------------------------------------------------------------------------
(* The workers *)

\* A step of Run leaves the lists, the main thread and the other workers
\* alone.
LEMMA RunFrame ==
  ASSUME TypeOK, NEW w \in Worker, Run(w)
  PROVE  /\ UNCHANGED <<lists, main, owed, out>>
         /\ wpc[w] \notin {"none", "unstarted"} /\ wpc'[w] # "none"
         /\ \A x \in Worker \ {w} :
              /\ wpc'[x] = wpc[x] /\ winput'[x] = winput[x]
              /\ inbox_'[x] = inbox_[x] /\ inbox_len_'[x] = inbox_len_[x]
              /\ outbox_'[x] = outbox_[x] /\ outbox_len_'[x] = outbox_len_[x]
<1> USE DEF TypeOK, Goto, lists, boxes, worker, main
<1>1. CASE CheckInbox(w) BY <1>1 DEF CheckInbox
<1>2. CASE LockWake(w) BY <1>2 DEF LockWake
<1>3. CASE SetBusy(w) BY <1>3 DEF SetBusy
<1>4. CASE Drain(w) BY <1>4 DEF Drain
<1>5. CASE ProcessBegin(w) BY <1>5 DEF ProcessBegin
<1>6. CASE ProcessEnd(w) BY <1>6 DEF ProcessEnd
<1>7. CASE PublishRsp(w) BY <1>7 DEF PublishRsp
<1>8. CASE ClearInbox(w) BY <1>8 DEF ClearInbox
<1>9. CASE ClearBusy(w) BY <1>9 DEF ClearBusy
<1> QED
  BY <1>1, <1>2, <1>3, <1>4, <1>5, <1>6, <1>7, <1>8, <1>9 DEF Run

\* A step of Run keeps the types.
LEMMA RunType ==
  ASSUME TypeOK, NEW w \in Worker, Run(w)
  PROVE  TypeOK'
<1> USE LenAssumption DEF TypeOK, Goto, lists, boxes, worker, main
<1>1. CASE CheckInbox(w) BY <1>1 DEF CheckInbox
<1>2. CASE LockWake(w) BY <1>2 DEF LockWake
<1>3. CASE SetBusy(w) BY <1>3 DEF SetBusy
<1>4. CASE Drain(w) BY <1>4 DEF Drain
<1>5. CASE ProcessBegin(w) BY <1>5 DEF ProcessBegin
<1>6. CASE ProcessEnd(w) BY <1>6 DEF ProcessEnd
<1>7. CASE PublishRsp(w)
  <2>1. PICK j \in Job : outbox_len_' = [outbox_len_ EXCEPT ![w] = OutLen[j]]
    BY <1>7 DEF PublishRsp
  <2>2. OutLen[j] \in Nat
    OBVIOUS
  <2>3. outbox_len_' \in [Worker -> Nat]
    BY <2>1, <2>2
  <2> QED BY <1>7, <2>3 DEF PublishRsp
<1>8. CASE ClearInbox(w) BY <1>8 DEF ClearInbox
<1>9. CASE ClearBusy(w) BY <1>9 DEF ClearBusy
<1> QED
  BY <1>1, <1>2, <1>3, <1>4, <1>5, <1>6, <1>7, <1>8, <1>9 DEF Run

\* A worker with nothing to do does nothing that matters.
LEMMA RunResting ==
  ASSUME TypeOK, NEW w \in Worker, Run(w), Resting(w)
  PROVE  Resting(w)'
<1> USE DEF TypeOK, Goto, lists, boxes, worker, main, Resting
<1>1. CASE CheckInbox(w) BY <1>1 DEF CheckInbox
<1>2. CASE LockWake(w) BY <1>2 DEF LockWake
<1>3. CASE SetBusy(w) BY <1>3 DEF SetBusy
<1>4. CASE Drain(w) BY <1>4 DEF Drain
<1>5. CASE ProcessBegin(w) BY <1>5 DEF ProcessBegin
<1>6. CASE ProcessEnd(w) BY <1>6 DEF ProcessEnd
<1>7. CASE PublishRsp(w) BY <1>7 DEF PublishRsp
<1>8. CASE ClearInbox(w) BY <1>8 DEF ClearInbox
<1>9. CASE ClearBusy(w) BY <1>9 DEF ClearBusy
<1> QED
  BY <1>1, <1>2, <1>3, <1>4, <1>5, <1>6, <1>7, <1>8, <1>9 DEF Run

\* A worker with a job works on that job alone, and lets its response be.
LEMMA RunWorking ==
  ASSUME TypeOK, NEW w \in Worker, Run(w), NEW j \in Job, Working(w, j)
  PROVE  /\ Working(w, j)'
         /\ outbox_len_[w] # 0 => outbox_len_'[w] = outbox_len_[w]
<1> USE LenAssumption
    DEF TypeOK, Goto, lists, boxes, worker, main, Working, Assigned, Answered
<1>1. CASE CheckInbox(w) BY <1>1 DEF CheckInbox
<1>2. CASE LockWake(w) BY <1>2 DEF LockWake
<1>3. CASE SetBusy(w) BY <1>3 DEF SetBusy
<1>4. CASE Drain(w) BY <1>4 DEF Drain
<1>5. CASE ProcessBegin(w) BY <1>5 DEF ProcessBegin
<1>6. CASE ProcessEnd(w) BY <1>6 DEF ProcessEnd
<1>7. CASE PublishRsp(w)
  <2>1. wpc[w] = "publish" /\ inbox_len_[w] # 0 /\ outbox_len_[w] = 0 /\ outbox_[w] = {j}
    BY <1>7 DEF PublishRsp
  <2>2. /\ outbox_len_' = [outbox_len_ EXCEPT ![w] = OutLen[j]]
        /\ wpc' = [wpc EXCEPT ![w] = "clear"] /\ UNCHANGED <<inbox_len_, outbox_>>
    BY <1>7, <2>1 DEF PublishRsp
  <2> QED BY <2>1, <2>2
<1>8. CASE ClearInbox(w) BY <1>8 DEF ClearInbox
<1>9. CASE ClearBusy(w) BY <1>9 DEF ClearBusy
<1> QED
  BY <1>1, <1>2, <1>3, <1>4, <1>5, <1>6, <1>7, <1>8, <1>9 DEF Run

\* So a step of Run keeps the invariant.
LEMMA RunInv ==
  ASSUME PoolInv, NEW w \in Worker, Run(w)
  PROVE  PoolInv'
<1> USE DEF PoolInv
<1>1. TypeOK'
  BY RunType
<1>2. /\ UNCHANGED <<free_threads_, busy_threads_, owed, out>>
      /\ UNCHANGED <<mpc, mjob, mpos, mcopy>>
      /\ wpc[w] \notin {"none", "unstarted"} /\ wpc'[w] # "none"
  BY RunFrame DEF lists, main
<1>3. ListsInv'
  BY <1>2, RunFrame DEF ListsInv
<1>4. ASSUME NEW x \in Worker \ {w}
      PROVE  /\ Resting(x) => Resting(x)'
             /\ \A j \in Job : Working(x, j) => Working(x, j)'
  BY RunFrame DEF Resting, Working, Assigned, Answered
<1>5. WorkersInv'
  BY <1>2, <1>4, RunResting, RunWorking DEF WorkersInv, Handed, TypeOK
<1>6. MainInv'
  <2>1. mpc \in {"copy", "len"} =>
          LET h == Head(free_threads_) IN
          inbox_len_'[h] = 0 /\ inbox_'[h] = inbox_[h]
    <3> SUFFICES ASSUME mpc \in {"copy", "len"}
                 PROVE  LET h == Head(free_threads_) IN
                        inbox_len_'[h] = 0 /\ inbox_'[h] = inbox_[h]
      OBVIOUS
    <3> DEFINE h == Head(free_threads_)
    <3>1. h \in Worker /\ In(free_threads_, h)
      BY TailList DEF MainInv, TypeOK
    <3> HIDE DEF h
    <3>2. Resting(h) /\ inbox_len_[h] = 0
      BY <3>1 DEF WorkersInv, ListsInv, Handed, MainInv, h
    <3>3. CASE h # w
      BY <3>1, <3>2, <3>3, RunFrame DEF h
    <3>4. CASE h = w
      <4>1. wpc[w] \in {"check", "lock", "done"}
        BY <3>2, <3>4, <1>2 DEF Resting
      <4> QED
        BY <4>1, <3>2, <3>4 DEF h, Run, CheckInbox, LockWake, SetBusy, Drain,
           ProcessBegin, ProcessEnd, PublishRsp, ClearInbox, ClearBusy, Goto,
           boxes
    <3> QED BY <3>3, <3>4
  <2>2. mpc \in {"output", "output_len", "release"} => outbox_len_'[Visited] # 0
    <3> SUFFICES ASSUME mpc \in {"output", "output_len", "release"}
                 PROVE  outbox_len_'[Visited] # 0
      OBVIOUS
    <3>1. Visited \in Worker /\ In(busy_threads_, Visited)
      BY DEF MainInv, TypeOK, Visited, In
    <3>2. PICK j \in Job : Working(Visited, j)
      BY <3>1 DEF WorkersInv
    <3> QED BY <3>1, <3>2, RunFrame, RunWorking DEF MainInv
  <2> QED BY <1>2, <2>1, <2>2 DEF MainInv, Visited
<1>7. ResponseMatches'
  BY <1>2 DEF ResponseMatches
<1> QED BY <1>1, <1>3, <1>5, <1>6, <1>7

-----------------------------------------------------------------------------
(* The main thread *)

\* The worker DeliverWork is called on is free.
LEMMA HeadIsFree ==
  ASSUME PoolInv, free_threads_ # <<>>
  PROVE  LET h == Head(free_threads_)
         IN  /\ h \in Worker /\ In(free_threads_, h) /\ ~In(busy_threads_, h)
             /\ wpc[h] # "none" /\ owed[h] = {}
  BY TailList DEF PoolInv, TypeOK, ListsInv, WorkersInv

\* The worker HandleBusyThread visits has a job it owes the response to.
LEMMA VisitedIsBusy ==
  ASSUME PoolInv, mpos <= Len(busy_threads_)
  PROVE  /\ Visited \in Worker /\ In(busy_threads_, Visited)
         /\ ~In(free_threads_, Visited)
         /\ wpc[Visited] # "none"
         /\ \E j \in Job : owed[Visited] = {j} /\ Working(Visited, j)
<1>1. Visited \in Worker /\ In(busy_threads_, Visited)
  BY DEF PoolInv, TypeOK, Visited, In
<1> HIDE DEF Visited
<1> QED BY <1>1 DEF PoolInv, ListsInv, WorkersInv

\* Steps of the main thread that write nothing a worker reads.
LEMMA QuietInv ==
  ASSUME PoolInv,
         UNCHANGED <<lists, boxes, worker, owed>>,
         mpc # "wake", mpc' # "wake",
         TypeOK', MainInv', ResponseMatches'
  PROVE  PoolInv'
<1> USE DEF PoolInv, lists, boxes, worker
<1>1. ListsInv'
  BY DEF ListsInv
<1>2. \A w \in Worker : ~Handed(w) /\ ~Handed(w)'
  BY DEF Handed
<1>3. \A w \in Worker :
        /\ Resting(w) => Resting(w)'
        /\ \A j \in Job : Working(w, j) => Working(w, j)'
  BY DEF Resting, Working, Assigned, Answered
<1>4. WorkersInv'
  BY <1>2, <1>3 DEF WorkersInv
<1> QED BY <1>1, <1>4

\* Init of a larger pool.
LEMMA AddWorkerInv ==
  ASSUME PoolInv, NEW w \in Worker, AddWorker(w)
  PROVE  PoolInv'
<1> USE DEF PoolInv
<1>1. TypeOK'
  BY DEF AddWorker, Goto, Return, NoCopy, TypeOK
<1> PICK state \in {"check", "unstarted"} : Goto(w, "none", state)
  BY DEF AddWorker
<1>2. /\ wpc[w] = "none" /\ wpc' = [wpc EXCEPT ![w] = state]
      /\ free_threads_' = Append(free_threads_, w)
      /\ UNCHANGED <<busy_threads_, owed, out>>
      /\ mpc = "idle" /\ mpc' = "idle"
  BY DEF AddWorker, Goto, Return
<1>3. ~In(free_threads_, w) /\ ~In(busy_threads_, w) /\ owed[w] = {}
  BY <1>2 DEF ListsInv, WorkersInv
<1>4. /\ Distinct(free_threads_')
      /\ \A x \in Worker : In(free_threads_', x) <=> In(free_threads_, x) \/ x = w
  BY <1>2, <1>3, AppendList DEF ListsInv, TypeOK
<1>5. ListsInv'
  BY <1>2, <1>3, <1>4 DEF ListsInv, TypeOK
<1>6. Resting(w)'
  BY <1>2 DEF AddWorker, Resting, TypeOK
<1>7. ASSUME NEW x \in Worker \ {w}
      PROVE  /\ Resting(x) => Resting(x)'
             /\ \A j \in Job : Working(x, j) => Working(x, j)'
  BY <1>2 DEF AddWorker, Resting, Working, Assigned, Answered, TypeOK
<1>8. WorkersInv'
  BY <1>2, <1>3, <1>4, <1>6, <1>7 DEF WorkersInv, Handed
<1>9. MainInv'
  BY <1>2 DEF MainInv
<1>10. ResponseMatches'
  BY <1>2 DEF ResponseMatches
<1> QED BY <1>1, <1>5, <1>8, <1>9, <1>10

\* The memcpy to inbox_: the worker is free and does not look at it.
LEMMA DeliverBeginInv ==
  ASSUME PoolInv, NEW j \in Job, DeliverBegin(j)
  PROVE  PoolInv'
<1> USE DEF PoolInv
<1> DEFINE h == Head(free_threads_)
<1>1. free_threads_ # <<>> /\ inbox_len_[h] = 0
  BY DEF DeliverBegin, DeliverRefused
<1>2. h \in Worker /\ In(free_threads_, h) /\ ~In(busy_threads_, h)
  BY <1>1, HeadIsFree
<1>3. TypeOK'
  BY <1>2 DEF DeliverBegin, TypeOK, lists, worker
<1>4. /\ UNCHANGED <<free_threads_, busy_threads_, wpc, owed, out>>
      /\ mpc = "idle" /\ mpc' = "copy"
      /\ inbox_len_' = inbox_len_ /\ outbox_len_' = outbox_len_
      /\ outbox_' = outbox_ /\ winput' = winput
      /\ inbox_' = [inbox_ EXCEPT ![h] = {}]
  BY DEF DeliverBegin, lists, worker
<1> HIDE DEF h
<1>5. ListsInv'
  BY <1>4 DEF ListsInv
<1>6. \A x \in Worker : Resting(x) => Resting(x)'
  BY <1>4 DEF Resting
<1>7. ASSUME NEW x \in Worker \ {h}, NEW k \in Job, Working(x, k)
      PROVE  Working(x, k)'
  BY <1>4, <1>7 DEF Working, Assigned, Answered, TypeOK
<1>8. WorkersInv'
  BY <1>2, <1>4, <1>6, <1>7 DEF WorkersInv, Handed
<1>9. MainInv'
  BY <1>1, <1>4 DEF MainInv, h
<1>10. ResponseMatches'
  BY <1>4 DEF ResponseMatches
<1> QED BY <1>3, <1>5, <1>8, <1>9, <1>10

\* The whole input is in inbox_, which still counts as empty.
LEMMA DeliverCopyInv ==
  ASSUME PoolInv, DeliverCopy
  PROVE  PoolInv'
<1> USE DEF PoolInv
<1> DEFINE h == Head(free_threads_)
<1>1. free_threads_ # <<>> /\ inbox_len_[h] = 0
  BY DEF DeliverCopy, MainInv
<1>2. h \in Worker /\ In(free_threads_, h) /\ ~In(busy_threads_, h)
  BY <1>1, HeadIsFree
<1>3. TypeOK'
  BY <1>2 DEF DeliverCopy, TypeOK, lists, worker
<1>4. /\ UNCHANGED <<free_threads_, busy_threads_, wpc, owed, out, mjob>>
      /\ mpc = "copy" /\ mpc' = "len"
      /\ inbox_len_' = inbox_len_ /\ outbox_len_' = outbox_len_
      /\ outbox_' = outbox_ /\ winput' = winput
      /\ inbox_' = [inbox_ EXCEPT ![h] = {mjob}]
  BY DEF DeliverCopy, lists, worker
<1> HIDE DEF h
<1>5. ListsInv'
  BY <1>4 DEF ListsInv
<1>6. \A x \in Worker : Resting(x) => Resting(x)'
  BY <1>4 DEF Resting
<1>7. ASSUME NEW x \in Worker \ {h}, NEW k \in Job, Working(x, k)
      PROVE  Working(x, k)'
  BY <1>4, <1>7 DEF Working, Assigned, Answered, TypeOK
<1>8. WorkersInv'
  BY <1>2, <1>4, <1>6, <1>7 DEF WorkersInv, Handed
<1>9. MainInv'
  BY <1>1, <1>2, <1>4 DEF MainInv, h, TypeOK
<1>10. ResponseMatches'
  BY <1>4 DEF ResponseMatches
<1> QED BY <1>3, <1>5, <1>8, <1>9, <1>10

\* From here on the worker may run, before it is woken.
LEMMA DeliverLenInv ==
  ASSUME PoolInv, DeliverLen
  PROVE  PoolInv'
<1> USE DEF PoolInv
<1>0. free_threads_ # <<>>
  BY DEF DeliverLen, MainInv
<1> PICK h \in Worker : h = Head(free_threads_)
  BY <1>0, HeadIsFree
<1>1. inbox_len_[h] = 0 /\ inbox_[h] = {mjob}
  BY DEF DeliverLen, MainInv
<1>2. /\ In(free_threads_, h) /\ ~In(busy_threads_, h)
      /\ wpc[h] # "none"
  BY <1>0, HeadIsFree
<1>3. TypeOK'
  <2>1. InLen[mjob] \in Nat
    BY LenAssumption DEF TypeOK
  <2> QED BY <1>2, <2>1 DEF DeliverLen, TypeOK, lists, worker
<1>4. /\ UNCHANGED <<free_threads_, busy_threads_, wpc, owed, out, mjob>>
      /\ mpc = "len" /\ mpc' = "wake"
      /\ inbox_' = inbox_ /\ outbox_len_' = outbox_len_
      /\ outbox_' = outbox_ /\ winput' = winput
      /\ inbox_len_' = [inbox_len_ EXCEPT ![h] = InLen[mjob]]
  BY DEF DeliverLen, lists, worker
<1>5. ~Handed(h) /\ \A x \in Worker : Handed(x)' <=> x = h
  BY <1>4 DEF Handed
<1>6. ListsInv'
  BY <1>4 DEF ListsInv
<1>7. Working(h, mjob)'
  <2>1. Resting(h)
    BY <1>2, <1>5 DEF WorkersInv
  <2> QED BY <2>1, <1>1, <1>2, <1>4 DEF Resting, Working, Assigned, TypeOK
<1>8. ASSUME NEW x \in Worker \ {h}
      PROVE  /\ Resting(x) => Resting(x)'
             /\ \A k \in Job : Working(x, k) => Working(x, k)'
  BY <1>4 DEF Resting, Working, Assigned, Answered, TypeOK
<1>9. WorkersInv'
  <2>1. \A x \in Worker : ~Handed(x)
    BY <1>4 DEF Handed
  <2> QED BY <2>1, <1>2, <1>4, <1>5, <1>7, <1>8 DEF WorkersInv
<1>10. MainInv'
  BY <1>0, <1>1, <1>4 DEF MainInv
<1>11. ResponseMatches'
  BY <1>4 DEF ResponseMatches
<1> QED BY <1>3, <1>6, <1>9, <1>10, <1>11

\* The worker goes to the busy list with the job it owes.
LEMMA DeliverWakeInv ==
  ASSUME PoolInv, DeliverWake
  PROVE  PoolInv'
<1> USE DEF PoolInv
<1>1. free_threads_ # <<>> /\ mpc = "wake"
  BY DEF DeliverWake, MainInv
<1> PICK h \in Worker : h = Head(free_threads_)
  BY <1>1, HeadIsFree
<1>2. /\ In(free_threads_, h) /\ ~In(busy_threads_, h)
      /\ wpc[h] # "none"
  BY <1>1, HeadIsFree
<1>3. /\ UNCHANGED <<inbox_, inbox_len_, outbox_, outbox_len_, wpc, winput, out>>
      /\ UNCHANGED mjob /\ mpc' = "idle"
      /\ busy_threads_' = Append(busy_threads_, h)
      /\ free_threads_' = Tail(free_threads_)
      /\ owed' = [owed EXCEPT ![h] = {mjob}]
  BY DEF DeliverWake, Return, boxes, worker
<1>4. /\ free_threads_' \in Seq(Worker) /\ Distinct(free_threads_')
      /\ \A x \in Worker :
           In(free_threads_', x) <=> In(free_threads_, x) /\ x # h
  BY <1>1, <1>3, TailList DEF TypeOK, ListsInv
<1>5. /\ busy_threads_' \in Seq(Worker) /\ Distinct(busy_threads_')
      /\ \A x \in Worker : In(busy_threads_', x) <=> In(busy_threads_, x) \/ x = h
  BY <1>2, <1>3, AppendList DEF TypeOK, ListsInv
<1>6. TypeOK'
  BY <1>2, <1>4, <1>5 DEF DeliverWake, Return, NoCopy, TypeOK, boxes, worker
<1>7. /\ Handed(h)
      /\ \A x \in Worker \ {h} : ~Handed(x)
      /\ \A x \in Worker : ~Handed(x)'
  BY <1>1, <1>3 DEF Handed
<1>8. ListsInv'
  BY <1>2, <1>3, <1>4, <1>5 DEF ListsInv
<1>9. \A x \in Worker :
        /\ Resting(x) => Resting(x)'
        /\ \A k \in Job : Working(x, k) => Working(x, k)'
  BY <1>3 DEF Resting, Working, Assigned, Answered
<1>10. WorkersInv'
  <2>1. mjob \in Job /\ Working(h, mjob)'
    BY <1>2, <1>3, <1>7, <1>9 DEF WorkersInv, TypeOK
  <2>2. owed'[h] = {mjob} /\ \A x \in Worker \ {h} : owed'[x] = owed[x]
    BY <1>3, <1>2 DEF TypeOK
  <2> QED BY <2>1, <2>2, <1>3, <1>4, <1>5, <1>7, <1>9 DEF WorkersInv
<1>11. MainInv'
  BY <1>3 DEF MainInv
<1>12. ResponseMatches'
  BY <1>3 DEF ResponseMatches
<1> QED BY <1>6, <1>8, <1>10, <1>11, <1>12

\* The worker has given its response, and rests.
LEMMA CollectReleaseInv ==
  ASSUME PoolInv, CollectRelease
  PROVE  PoolInv'
<1> USE DEF PoolInv
<1>1. mpc = "release" /\ mpos \in 1 .. Len(busy_threads_) /\ outbox_len_[Visited] # 0
  BY DEF CollectRelease, MainInv, TypeOK
<1> PICK v \in Worker : v = Visited
  BY <1>1, VisitedIsBusy
<1>2. /\ In(busy_threads_, v) /\ ~In(free_threads_, v) /\ wpc[v] # "none"
      /\ \E j \in Job : owed[v] = {j} /\ Working(v, j)
  BY <1>1, VisitedIsBusy
<1>3. /\ UNCHANGED <<inbox_, inbox_len_, outbox_, wpc, winput, out>>
      /\ UNCHANGED <<mjob, wake_signal_, busy_>>
      /\ mpc' = "idle" /\ mret' = "true" /\ mpos' = 1 /\ mspace' = 0
      /\ mcopy' = NoCopy
      /\ outbox_len_' = [outbox_len_ EXCEPT ![v] = 0]
      /\ owed' = [owed EXCEPT ![v] = {}]
      /\ free_threads_' = Append(free_threads_, v)
  BY DEF CollectRelease, Return, worker
<1>4. /\ free_threads_' \in Seq(Worker) /\ Distinct(free_threads_')
      /\ \A x \in Worker : In(free_threads_', x) <=> In(free_threads_, x) \/ x = v
  BY <1>2, <1>3, AppendList DEF TypeOK, ListsInv
<1>5. /\ busy_threads_' \in Seq(Worker) /\ Distinct(busy_threads_')
      /\ \A x \in Worker : In(busy_threads_', x) <=> In(busy_threads_, x) /\ x # v
  BY <1>1, EraseList DEF TypeOK, ListsInv, CollectRelease, Visited
<1>6. TypeOK'
  BY <1>3, <1>4, <1>5 DEF NoCopy, TypeOK
<1>7. ListsInv'
  BY <1>2, <1>3, <1>4, <1>5 DEF ListsInv
<1>8. Resting(v)'
  <2>1. PICK j \in Job : Answered(v, j)
    BY <1>1, <1>2 DEF Working, Assigned
  <2> QED BY <2>1, <1>3 DEF Answered, Resting, TypeOK
<1>9. ASSUME NEW x \in Worker \ {v}
      PROVE  /\ Resting(x) => Resting(x)'
             /\ \A k \in Job : Working(x, k) => Working(x, k)'
  BY <1>3 DEF Resting, Working, Assigned, Answered, TypeOK
<1>10. WorkersInv'
  <2>1. owed'[v] = {} /\ \A x \in Worker \ {v} : owed'[x] = owed[x]
    BY <1>3 DEF TypeOK
  <2>2. \A x \in Worker : ~Handed(x) /\ ~Handed(x)'
    BY <1>1, <1>3 DEF Handed
  <2> QED BY <2>1, <2>2, <1>4, <1>5, <1>8, <1>9 DEF WorkersInv
<1>11. MainInv'
  BY <1>3 DEF MainInv
<1>12. ResponseMatches'
  BY <1>3 DEF ResponseMatches
<1> QED BY <1>6, <1>7, <1>10, <1>11, <1>12

\* HandleBusyThread and CollectRsp look at a worker's flag and lengths.
LEMMA TestInv ==
  ASSUME PoolInv, NEW at \in {"scan", "fits", "nonzero"}, NEW passes,
         NEW next \in {"fits", "nonzero", "output"}, Test(at, passes, next),
         passes /\ next = "output" => outbox_len_[Visited] # 0
  PROVE  PoolInv'
<1> USE DEF PoolInv
<1>2. /\ UNCHANGED <<lists, boxes, worker, owed, out>>
      /\ mpc = at /\ mpos <= Len(busy_threads_)
      /\ mpc' \in {"scan", "fits", "nonzero", "output"}
  BY DEF Test
<1>3. TypeOK'
  BY <1>2 DEF Test, TypeOK, lists, boxes, worker
<1>4. MainInv'
  BY <1>2 DEF Test, MainInv, Visited, lists, boxes
<1>5. ResponseMatches'
  BY <1>2 DEF ResponseMatches
<1> QED BY <1>2, <1>3, <1>4, <1>5, QuietInv

\* The response is copied while it stands.
LEMMA CollectCopyInv ==
  ASSUME PoolInv, CollectCopy
  PROVE  PoolInv'
<1> USE DEF PoolInv
<1>1. /\ mpc = "output" /\ mpc' = "output_len"
      /\ UNCHANGED <<lists, boxes, worker, owed, out, mpos>>
      /\ mcopy' = [data |-> outbox_[Visited], len |-> outbox_len_[Visited]]
  BY DEF CollectCopy
<1>2. mpos <= Len(busy_threads_) /\ outbox_len_[Visited] # 0
  BY <1>1 DEF MainInv
<1>3. Visited \in Worker
  BY <1>2, VisitedIsBusy
<1>4. owed[Visited] = outbox_[Visited]
  BY <1>2, VisitedIsBusy DEF Working, Assigned, Answered
<1>5. TypeOK'
  BY <1>1, <1>3 DEF CollectCopy, TypeOK, lists, boxes, worker
<1>6. MainInv'
  BY <1>1, <1>2, <1>4 DEF MainInv, Visited, lists, boxes
<1>7. ResponseMatches'
  BY <1>1 DEF ResponseMatches
<1> QED BY <1>1, <1>5, <1>6, <1>7, QuietInv

\* ... and handed out with its length.
LEMMA CollectLenInv ==
  ASSUME PoolInv, CollectLen
  PROVE  PoolInv'
<1> USE DEF PoolInv
<1>1. /\ mpc = "output_len" /\ mpc' = "release"
      /\ UNCHANGED <<lists, boxes, worker, owed, mpos>>
      /\ out' = [answers |-> owed[Visited], data |-> mcopy.data,
                 len |-> outbox_len_[Visited]]
  BY DEF CollectLen
<1>2. /\ mpos <= Len(busy_threads_) /\ outbox_len_[Visited] # 0
      /\ mcopy.data = owed[Visited]
  BY <1>1 DEF MainInv
<1>3. Visited \in Worker
  BY <1>2, VisitedIsBusy
<1>4. PICK j \in Job : owed[Visited] = {j} /\ outbox_len_[Visited] = OutLen[j]
  BY <1>2, VisitedIsBusy DEF Working, Assigned, Answered
<1>5. TypeOK'
  BY <1>1, <1>3 DEF CollectLen, TypeOK, lists, boxes, worker
<1>6. MainInv'
  BY <1>1, <1>2 DEF MainInv, Visited, lists, boxes
<1>7. ResponseMatches'
  BY <1>1, <1>2, <1>4 DEF ResponseMatches
<1> QED BY <1>1, <1>5, <1>6, <1>7, QuietInv

\* The calls that change nothing but the main thread's own variables.
LEMMA CallInv ==
  ASSUME PoolInv,
         \/ InitRefused
         \/ \E j \in Job : ProcessRefused(j)
         \/ \E space \in OutSpaces : HandleCall(space)
         \/ HandleNone
  PROVE  PoolInv'
<1> USE DEF PoolInv
<1>1. /\ UNCHANGED <<lists, boxes, worker, owed, out>>
      /\ mpc \in {"idle", "scan"} /\ mpc' \in {"idle", "scan"}
  BY DEF InitRefused, ProcessRefused, HandleCall, HandleNone, Return
<1>2. TypeOK'
  <2>1. CASE \E j \in Job : ProcessRefused(j)
    BY <1>1, <2>1
       DEF ProcessRefused, Return, NoCopy, TypeOK, lists, boxes, worker
  <2>2. CASE \E space \in OutSpaces : HandleCall(space)
    BY <1>1, <2>2, LenAssumption DEF HandleCall, TypeOK, lists, boxes, worker
  <2>3. CASE HandleNone
    BY <1>1, <2>3 DEF HandleNone, Return, NoCopy, TypeOK, lists, boxes, worker
  <2>4. CASE InitRefused
    BY <1>1, <2>4 DEF InitRefused, Return, NoCopy, TypeOK, lists, boxes, worker
  <2> QED BY <2>1, <2>2, <2>3, <2>4
<1>3. MainInv'
  BY <1>1 DEF MainInv
<1>4. ResponseMatches'
  BY <1>1 DEF ResponseMatches
<1> QED BY <1>1, <1>2, <1>3, <1>4, QuietInv

-----------------------------------------------------------------------------
(* The theorems *)

\* The invariant holds in every state the pool can reach: at any time a
\* worker rests or works on the one job it owes, or was handed, a response.
THEOREM PoolInvariant == Spec => []PoolInv
<1>1. Init => PoolInv
  <2> SUFFICES ASSUME Init
               PROVE  PoolInv
    OBVIOUS
  <2> USE DEF Init
  <2>1. TypeOK
    BY DEF TypeOK, NoCopy
  <2>2. ListsInv
    BY DEF ListsInv, Distinct, In
  <2>3. WorkersInv
    BY DEF WorkersInv, In, Resting, Handed
  <2>4. MainInv
    BY DEF MainInv
  <2>5. ResponseMatches
    BY DEF ResponseMatches
  <2> QED BY <2>1, <2>2, <2>3, <2>4, <2>5 DEF PoolInv
<1>2. PoolInv /\ [Next]_vars => PoolInv'
  <2> SUFFICES ASSUME PoolInv, [Next]_vars
               PROVE  PoolInv'
    OBVIOUS
  <2>1. ASSUME NEW w \in Worker, AddWorker(w)
        PROVE  PoolInv'
    BY <2>1, AddWorkerInv
  <2>2. ASSUME NEW w \in Worker, Run(w)
        PROVE  PoolInv'
    BY <2>2, RunInv
  <2>3. ASSUME NEW j \in Job, DeliverBegin(j)
        PROVE  PoolInv'
    BY <2>3, DeliverBeginInv
  <2>4. CASE \/ InitRefused
             \/ \E j \in Job : ProcessRefused(j)
             \/ \E space \in OutSpaces : HandleCall(space)
             \/ HandleNone
    BY <2>4, CallInv
  <2>5. CASE DeliverCopy
    BY <2>5, DeliverCopyInv
  <2>6. CASE DeliverLen
    BY <2>6, DeliverLenInv
  <2>7. CASE DeliverWake
    BY <2>7, DeliverWakeInv
  <2>8. CASE HandleIsBusy
    BY <2>8, TestInv, Zenon DEF HandleIsBusy
  <2>9. CASE CollectFits
    BY <2>9, TestInv, Zenon DEF CollectFits
  <2>10. CASE CollectNonzero
    BY <2>10, TestInv, Zenon DEF CollectNonzero
  <2>11. CASE CollectCopy
    BY <2>11, CollectCopyInv
  <2>12. CASE CollectLen
    BY <2>12, CollectLenInv
  <2>13. CASE CollectRelease
    BY <2>13, CollectReleaseInv
  <2>14. CASE UNCHANGED vars
    <3> USE <2>14 DEF vars, lists, boxes, worker, main
    <3>1. TypeOK' /\ ListsInv'
      BY DEF PoolInv, TypeOK, ListsInv
    <3>4. MainInv' /\ ResponseMatches'
      BY DEF PoolInv, MainInv, Visited, ResponseMatches
    <3>2. \A w \in Worker :
            /\ Handed(w)' <=> Handed(w)
            /\ Resting(w) => Resting(w)'
            /\ \A j \in Job : Working(w, j) => Working(w, j)'
      BY DEF Handed, Resting, Working, Assigned, Answered
    <3>3. WorkersInv'
      BY <3>2 DEF PoolInv, WorkersInv, TypeOK
    <3> QED BY <3>1, <3>3, <3>4 DEF PoolInv
  <2> QED
    BY <2>1, <2>2, <2>3, <2>4, <2>5, <2>6, <2>7, <2>8, <2>9, <2>10, <2>11,
       <2>12, <2>13, <2>14 DEF Next, MainStep
<1> QED BY <1>1, <1>2, PTL DEF Spec

\* Type correctness for any number of workers and jobs.
THEOREM PoolTypeCorrect == Spec => []TypeOK
<1>1. PoolInv => TypeOK
  BY DEF PoolInv
<1> QED BY <1>1, PoolInvariant, PTL

\* What HandleBusyThread hands out is the response to the job given to that
\* worker, whole and with its length.
THEOREM PoolResponses == Spec => []ResponseMatches
<1>1. PoolInv => ResponseMatches
  BY DEF PoolInv
<1> QED BY <1>1, PoolInvariant, PTL

\* DeliverWork never writes to an inbox that a worker's Process is reading.
THEOREM PoolInboxStable == Spec => []InboxStable
<1>1. PoolInv => InboxStable
  <2> SUFFICES ASSUME PoolInv, NEW w \in Worker, wpc[w] = "end"
               PROVE  winput[w] = inbox_[w]
    BY DEF InboxStable
  <2>1. ~Resting(w)
    BY DEF Resting
  <2>2. PICK j \in Job : Working(w, j)
    BY <2>1 DEF PoolInv, WorkersInv, ListsInv, TypeOK
  <2> QED BY <2>2 DEF Working, Assigned, Answered
<1> QED BY <1>1, PoolInvariant, PTL

\* The loop in Run that waits for the outbox to be collected never waits.
THEOREM PoolOutboxFree == Spec => []OutboxFree
<1>1. PoolInv => OutboxFree
  <2> SUFFICES ASSUME PoolInv, NEW w \in Worker,
                      wpc[w] \in {"drain", "begin", "end", "publish"}
               PROVE  outbox_len_[w] = 0
    BY DEF OutboxFree
  <2>1. ~Resting(w)
    BY DEF Resting
  <2>2. PICK j \in Job : Working(w, j)
    BY <2>1 DEF PoolInv, WorkersInv, ListsInv, TypeOK
  <2> QED BY <2>2 DEF Working, Assigned, Answered
<1> QED BY <1>1, PoolInvariant, PTL

\* A worker is at most once in a list.
LEMMA CountInList ==
  ASSUME NEW list \in Seq(Worker), Distinct(list), NEW w \in Worker
  PROVE  LET at == {i \in 1 .. Len(list) : list[i] = w}
         IN  /\ Cardinality(at) = IF In(list, w) THEN 1 ELSE 0
             /\ at # {} <=> In(list, w)
<1> DEFINE at == {i \in 1 .. Len(list) : list[i] = w}
<1>1. at # {} <=> In(list, w)
  BY DEF In
<1>2. CASE In(list, w)
  <2>1. PICK i \in 1 .. Len(list) : list[i] = w
    BY <1>2 DEF In
  <2>2. at = {i}
    BY <2>1 DEF Distinct
  <2> HIDE DEF at
  <2>3. Cardinality(at) = 1
    BY <2>2, FS_Singleton
  <2> QED BY <1>1, <1>2, <2>3 DEF at
<1>3. CASE ~In(list, w)
  <2>1. at = {}
    BY <1>1, <1>3
  <2> HIDE DEF at
  <2>2. Cardinality(at) = 0
    BY <2>1, FS_EmptySet
  <2> QED BY <1>1, <1>3, <2>2 DEF at
<1> QED BY <1>2, <1>3

\* Outside a call every worker is in exactly one list, and a free one has
\* nothing to answer and nothing left in its outbox.
THEOREM PoolFreeIsAnswered == Spec => []FreeIsAnswered
<1>1. PoolInv => FreeIsAnswered
  <2> SUFFICES ASSUME PoolInv, mpc = "idle", NEW w \in Worker
               PROVE  LET inFree == {i \in 1 .. Len(free_threads_) : free_threads_[i] = w}
                          inBusy == {i \in 1 .. Len(busy_threads_) : busy_threads_[i] = w}
                      IN  /\ Cardinality(inFree) + Cardinality(inBusy)
                               = IF wpc[w] = "none" THEN 0 ELSE 1
                          /\ inFree # {} <=> (wpc[w] # "none" /\ owed[w] = {})
                          /\ inFree # {} => outbox_len_[w] = 0
    BY DEF FreeIsAnswered
  <2> DEFINE inFree == {i \in 1 .. Len(free_threads_) : free_threads_[i] = w}
             inBusy == {i \in 1 .. Len(busy_threads_) : busy_threads_[i] = w}
  <2>1. /\ Cardinality(inFree) = IF In(free_threads_, w) THEN 1 ELSE 0
        /\ inFree # {} <=> In(free_threads_, w)
    BY CountInList DEF PoolInv, TypeOK, ListsInv
  <2>2. Cardinality(inBusy) = IF In(busy_threads_, w) THEN 1 ELSE 0
    BY CountInList DEF PoolInv, TypeOK, ListsInv
  <2> HIDE DEF inFree, inBusy
  <2>3. /\ ~(In(free_threads_, w) /\ In(busy_threads_, w))
        /\ wpc[w] = "none" <=> ~In(free_threads_, w) /\ ~In(busy_threads_, w)
    BY DEF PoolInv, ListsInv
  <2>4. /\ In(busy_threads_, w) => owed[w] # {}
        /\ ~In(busy_threads_, w) => owed[w] = {} /\ outbox_len_[w] = 0
    BY DEF PoolInv, WorkersInv, Handed, Resting
  <2>5. Cardinality(inFree) + Cardinality(inBusy)
          = IF wpc[w] = "none" THEN 0 ELSE 1
    BY <2>1, <2>2, <2>3
  <2>6. /\ inFree # {} <=> (wpc[w] # "none" /\ owed[w] = {})
        /\ inFree # {} => outbox_len_[w] = 0
    BY <2>1, <2>3, <2>4
  <2> QED BY <2>5, <2>6 DEF inFree, inBusy
<1> QED BY <1>1, PoolInvariant, PTL
=============================================================================
