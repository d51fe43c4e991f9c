----------------------------- MODULE ThreadPool -----------------------------
(***************************************************************************)
(* The thread pool of src/yarf/thread/thread_pool.cc.  One main thread     *)
(* hands jobs to workers (CThreadPool::Process, DeliverWork) and collects  *)
(* their responses (HandleBusyThread, CollectRsp); each worker runs        *)
(* CThreadPoolWorker::Run.  They share, per worker, two buffers with a     *)
(* length each and a flag, all written without a lock: every access to one *)
(* of them is a step.  The mutex wake_signal_ is used as a binary          *)
(* semaphore, unlocked by the main thread and locked by the worker.        *)
(*                                                                         *)
(* The pool never calls CThread::Stop on its workers, so that stop_ stays  *)
(* false and the outer loop of Run does not end.                           *)
(***************************************************************************)
EXTENDS Integers, Sequences, FiniteSets

CONSTANTS
  Worker,       \* the threads the pool may create
  Job,          \* the inputs a caller may hand to Process
  InLen,        \* InLen[j]: bytes of input j
  OutLen,       \* OutLen[j]: bytes of the response the worker gives to j
  kMaxInboxLen,
  kMaxOutboxLen,
  OutSpaces     \* values of output_len a caller may pass to HandleBusyThread

\* A worker's Process is told the size of the outbox and must not write
\* more; a caller's input_len is not negative (it is an int32_t).
ASSUME LenAssumption ==
  /\ kMaxInboxLen \in Nat /\ kMaxOutboxLen \in Nat
  /\ InLen \in [Job -> Nat] /\ OutLen \in [Job -> 0 .. kMaxOutboxLen]
  /\ OutSpaces \subseteq Nat
  /\ IsFiniteSet(Worker)

VARIABLES
  free_threads_, busy_threads_,  \* the lists of the pool (main thread only)
  wake_signal_,                  \* TRUE: unlocked
  busy_, inbox_, inbox_len_, outbox_, outbox_len_,
                                 \* per worker, shared with the main thread
  wpc, winput,                   \* per worker: position in Run, input read
  mpc, mjob, mspace, mpos, mcopy, mret,
                                 \* main thread: position, locals, result
  owed,    \* history: owed[w] holds the job accepted for w, not answered
  out      \* history: the last response collected, and what it answers

\* The content of inbox_ or outbox_ is {j} when it is the whole of input j,
\* or of the response to j, and {} when it is anything else.

lists == <<free_threads_, busy_threads_>>
boxes == <<busy_, inbox_, inbox_len_, outbox_, outbox_len_>>
worker == <<wpc, winput>>
main == <<mpc, mjob, mspace, mpos, mcopy, mret>>
vars == <<lists, wake_signal_, boxes, worker, main, owed, out>>

NoCopy == [data |-> {}, len |-> 0]

Init ==
  /\ free_threads_ = <<>> /\ busy_threads_ = <<>>
  /\ wake_signal_ = [w \in Worker |-> FALSE]
  /\ busy_ = [w \in Worker |-> FALSE]
  /\ inbox_ = [w \in Worker |-> {}] /\ inbox_len_ = [w \in Worker |-> 0]
  /\ outbox_ = [w \in Worker |-> {}] /\ outbox_len_ = [w \in Worker |-> 0]
  /\ wpc = [w \in Worker |-> "none"] /\ winput = [w \in Worker |-> {}]
  /\ mpc = "idle" /\ mjob \in Job /\ mspace = 0 /\ mpos = 1
  /\ mcopy = NoCopy /\ mret = "none"
  /\ owed = [w \in Worker |-> {}]
  /\ out = [answers |-> {}, data |-> {}, len |-> 0]

-----------------------------------------------------------------------------
(* CThreadPoolWorker::Run, one step per access to what is shared *)

Goto(w, from, to) == wpc[w] = from /\ wpc' = [wpc EXCEPT ![w] = to]

\* while (inbox_len_ == 0)
CheckInbox(w) ==
  /\ Goto(w, "check", IF inbox_len_[w] = 0 THEN "lock" ELSE "busy")
  /\ UNCHANGED <<lists, wake_signal_, boxes, winput, main, owed, out>>

\* pthread_mutex_lock(&wake_signal_): waits for an unlock not yet consumed.
LockWake(w) ==
  /\ Goto(w, "lock", "check")
  /\ wake_signal_[w]
  /\ wake_signal_' = [wake_signal_ EXCEPT ![w] = FALSE]
  /\ UNCHANGED <<lists, boxes, winput, main, owed, out>>

SetBusy(w) ==
  /\ Goto(w, "busy", "drain")
  /\ busy_' = [busy_ EXCEPT ![w] = TRUE]
  /\ UNCHANGED <<lists, wake_signal_, inbox_, inbox_len_, outbox_,
                 outbox_len_, winput, main, owed, out>>

\* while (outbox_len_ != 0) usleep: leaves the loop once it reads 0.
Drain(w) ==
  /\ Goto(w, "drain", "begin")
  /\ outbox_len_[w] = 0
  /\ UNCHANGED <<lists, wake_signal_, boxes, winput, main, owed, out>>

\* Process(inbox_, inbox_len_, outbox_, ...) is the user's code.  It reads
\* its input and writes its output all along.
ProcessBegin(w) ==
  /\ Goto(w, "begin", "end")
  /\ winput' = [winput EXCEPT ![w] =
                  {j \in inbox_[w] : InLen[j] = inbox_len_[w]}]
  /\ outbox_' = [outbox_ EXCEPT ![w] = {}]
  /\ UNCHANGED <<lists, wake_signal_, busy_, inbox_, inbox_len_,
                 outbox_len_, main, owed, out>>

\* An input that changed in the meantime gets no proper response.
ProcessEnd(w) ==
  /\ Goto(w, "end", "publish")
  /\ outbox_' = [outbox_ EXCEPT ![w] = winput[w] \intersect inbox_[w]]
  /\ winput' = [winput EXCEPT ![w] = {}]
  /\ UNCHANGED <<lists, wake_signal_, busy_, inbox_, inbox_len_,
                 outbox_len_, main, owed, out>>

\* outbox_len_ = cur_outbox_len
PublishRsp(w) ==
  /\ Goto(w, "publish", "clear")
  /\ \E j \in IF outbox_[w] = {} THEN Job ELSE outbox_[w] :
       outbox_len_' = [outbox_len_ EXCEPT ![w] = OutLen[j]]
  /\ UNCHANGED <<lists, wake_signal_, busy_, inbox_, inbox_len_, outbox_,
                 winput, main, owed, out>>

ClearInbox(w) ==
  /\ Goto(w, "clear", "done")
  /\ inbox_len_' = [inbox_len_ EXCEPT ![w] = 0]
  /\ UNCHANGED <<lists, wake_signal_, busy_, inbox_, outbox_, outbox_len_,
                 winput, main, owed, out>>

ClearBusy(w) ==
  /\ Goto(w, "done", "check")
  /\ busy_' = [busy_ EXCEPT ![w] = FALSE]
  /\ UNCHANGED <<lists, wake_signal_, inbox_, inbox_len_, outbox_,
                 outbox_len_, winput, main, owed, out>>

Run(w) ==
  \/ CheckInbox(w) \/ LockWake(w) \/ SetBusy(w) \/ Drain(w)
  \/ ProcessBegin(w) \/ ProcessEnd(w) \/ PublishRsp(w) \/ ClearInbox(w)
  \/ ClearBusy(w)

-----------------------------------------------------------------------------
(* The main thread *)

\* Mutant of Return: the next scan of the list starts one entry early.
ReturnOffByOne(ret) ==
  /\ mpc' = "idle" /\ mret' = ret
  /\ mpos' = 0 /\ mspace' = 0 /\ mcopy' = NoCopy

Return(ret) ==
  /\ mpc' = "idle" /\ mret' = ret
  /\ mpos' = 1 /\ mspace' = 0 /\ mcopy' = NoCopy

\* CThreadPool::Init(pool_size): one turn of its loop, which creates,
\* initialises (wake_signal_ is left locked) and starts a worker.  Calls
\* with a larger pool_size add workers to a pool in use.  The result of
\* Start is not looked at: a worker whose thread could not be created is
\* listed like any other, and nothing ever runs it.
AddWorker(w) ==
  /\ mpc = "idle"
  /\ \E state \in {"check", "unstarted"} : Goto(w, "none", state)
  /\ wake_signal_' = [wake_signal_ EXCEPT ![w] = FALSE]
  /\ busy_' = [busy_ EXCEPT ![w] = FALSE]
  /\ inbox_len_' = [inbox_len_ EXCEPT ![w] = 0]
  /\ outbox_len_' = [outbox_len_ EXCEPT ![w] = 0]
  /\ free_threads_' = Append(free_threads_, w)
  /\ Return("true") /\ UNCHANGED mjob
  /\ UNCHANGED <<busy_threads_, inbox_, outbox_, winput, owed, out>>

\* The mutex of a new worker cannot be made: the loop ends, and the worker
\* is not listed.
InitRefused ==
  /\ mpc = "idle"
  /\ \E w \in Worker : wpc[w] = "none"
  /\ Return("false") /\ UNCHANGED mjob
  /\ UNCHANGED <<lists, wake_signal_, boxes, worker, owed, out>>

\* CThreadPool::Process and CThreadPoolWorker::DeliverWork.  Process turns
\* every failure into kUnexpect.
DeliverRefused(j) ==
  \/ free_threads_ = <<>>
  \/ /\ free_threads_ # <<>>
     /\ inbox_len_[Head(free_threads_)] # 0 \/ InLen[j] > kMaxInboxLen

ProcessRefused(j) ==
  /\ mpc = "idle"
  /\ DeliverRefused(j)
  /\ mjob' = j /\ Return("kUnexpect")
  /\ UNCHANGED <<lists, wake_signal_, boxes, worker, owed, out>>

\* Mutant of DeliverBegin: inbox_len_ is set before the copy.
DeliverBeginLenFirst(j) ==
  /\ mpc = "idle"
  /\ ~DeliverRefused(j)
  /\ inbox_' = [inbox_ EXCEPT ![Head(free_threads_)] = {}]
  /\ inbox_len_' = [inbox_len_ EXCEPT ![Head(free_threads_)] = InLen[j]]
  /\ mpc' = "copy" /\ mjob' = j /\ mret' = "none"
  /\ UNCHANGED <<mspace, mpos, mcopy, busy_, outbox_>>
  /\ UNCHANGED <<outbox_len_, lists, wake_signal_, worker, owed, out>>

\* The memcpy to inbox_ begins ...
DeliverBegin(j) ==
  /\ mpc = "idle"
  /\ ~DeliverRefused(j)
  /\ inbox_' = [inbox_ EXCEPT ![Head(free_threads_)] = {}]
  /\ mpc' = "copy" /\ mjob' = j /\ mret' = "none"
  /\ UNCHANGED <<mspace, mpos, mcopy, busy_, inbox_len_, outbox_>>
  /\ UNCHANGED <<outbox_len_, lists, wake_signal_, worker, owed, out>>

\* ... and is complete.
DeliverCopy ==
  /\ mpc = "copy"
  /\ inbox_' = [inbox_ EXCEPT ![Head(free_threads_)] = {mjob}]
  /\ mpc' = "len"
  /\ UNCHANGED <<mjob, mspace, mpos, mcopy, mret, busy_, inbox_len_>>
  /\ UNCHANGED <<outbox_, outbox_len_, lists, wake_signal_, worker, owed, out>>

DeliverLen ==
  /\ mpc = "len"
  /\ inbox_len_' = [inbox_len_ EXCEPT ![Head(free_threads_)] = InLen[mjob]]
  /\ mpc' = "wake"
  /\ UNCHANGED <<mjob, mspace, mpos, mcopy, mret, busy_, inbox_, outbox_>>
  /\ UNCHANGED <<outbox_len_, lists, wake_signal_, worker, owed, out>>

\* Mutant of DeliverWake: the worker stays in the free list as well.
DeliverWakeKept ==
  /\ mpc = "wake"
  /\ LET w == Head(free_threads_) IN
       /\ wake_signal_' = [wake_signal_ EXCEPT ![w] = TRUE]
       /\ busy_threads_' = Append(busy_threads_, w)
       /\ owed' = [owed EXCEPT ![w] = {mjob}]
  /\ Return("kOk")
  /\ UNCHANGED <<mjob, free_threads_, boxes, worker, out>>

\* Mutant of DeliverWake: the worker is not woken.
DeliverWakeSilent ==
  /\ mpc = "wake"
  /\ LET w == Head(free_threads_) IN
       /\ busy_threads_' = Append(busy_threads_, w)
       /\ owed' = [owed EXCEPT ![w] = {mjob}]
  /\ free_threads_' = Tail(free_threads_)
  /\ Return("kOk")
  /\ UNCHANGED <<mjob, wake_signal_, boxes, worker, out>>

\* pthread_mutex_unlock, and the worker moves to the busy list.
DeliverWake ==
  /\ mpc = "wake"
  /\ LET w == Head(free_threads_) IN
       /\ wake_signal_' = [wake_signal_ EXCEPT ![w] = TRUE]
       /\ busy_threads_' = Append(busy_threads_, w)
       /\ owed' = [owed EXCEPT ![w] = {mjob}]
  /\ free_threads_' = Tail(free_threads_)
  /\ Return("kOk")
  /\ UNCHANGED <<mjob, boxes, worker, out>>

\* CThreadPool::HandleBusyThread(output, output_len = space).
HandleCall(space) ==
  /\ mpc = "idle"
  /\ mpc' = "scan" /\ mspace' = space /\ mret' = "none"
  /\ UNCHANGED <<mjob, mpos, mcopy, lists, wake_signal_, boxes, worker>>
  /\ UNCHANGED <<owed, out>>

Visited == busy_threads_[mpos]

\* The end of the list: no response to be had.
HandleNone ==
  /\ mpc = "scan"
  /\ mpos > Len(busy_threads_)
  /\ Return("false")
  /\ UNCHANGED <<mjob, lists, wake_signal_, boxes, worker, owed, out>>

\* A test of the loop body on the worker visited: go on to the next test,
\* or to the next worker.
Test(at, passes, next) ==
  /\ mpc = at
  /\ mpos <= Len(busy_threads_)
  /\ mpc' = IF passes THEN next ELSE "scan"
  /\ mpos' = IF passes THEN mpos ELSE mpos + 1
  /\ UNCHANGED <<mjob, mspace, mcopy, mret, lists, wake_signal_, boxes>>
  /\ UNCHANGED <<worker, owed, out>>

HandleIsBusy == Test("scan", ~busy_[Visited], "fits")
CollectFits == Test("fits", mspace >= outbox_len_[Visited], "nonzero")
\* Mutant of CollectNonzero: an empty outbox is taken for a response.
CollectAnyway == Test("nonzero", TRUE, "output")
CollectNonzero == Test("nonzero", outbox_len_[Visited] # 0, "output")

\* memcpy(output, outbox_, outbox_len_)
CollectCopy ==
  /\ mpc = "output"
  /\ mcopy' = [data |-> outbox_[Visited], len |-> outbox_len_[Visited]]
  /\ mpc' = "output_len"
  /\ UNCHANGED <<mjob, mspace, mpos, mret, lists, wake_signal_, boxes>>
  /\ UNCHANGED <<worker, owed, out>>

\* output_len = outbox_len_
CollectLen ==
  /\ mpc = "output_len"
  /\ out' = [answers |-> owed[Visited], data |-> mcopy.data,
             len |-> outbox_len_[Visited]]
  /\ mpc' = "release"
  /\ UNCHANGED <<mjob, mspace, mpos, mcopy, mret, lists, wake_signal_>>
  /\ UNCHANGED <<boxes, worker, owed>>

\* Mutant of CollectRelease: outbox_len_ keeps its value.
CollectReleaseKept ==
  /\ mpc = "release"
  /\ owed' = [owed EXCEPT ![Visited] = {}]
  /\ free_threads_' = Append(free_threads_, Visited)
  /\ busy_threads_' = SubSeq(busy_threads_, 1, mpos - 1)
                      \o SubSeq(busy_threads_, mpos + 1, Len(busy_threads_))
  /\ Return("true")
  /\ UNCHANGED <<mjob, wake_signal_, boxes, worker, out>>

\* outbox_len_ = 0, and the worker moves to the end of the free list.
CollectRelease ==
  /\ mpc = "release"
  /\ outbox_len_' = [outbox_len_ EXCEPT ![Visited] = 0]
  /\ owed' = [owed EXCEPT ![Visited] = {}]
  /\ free_threads_' = Append(free_threads_, Visited)
  /\ busy_threads_' = SubSeq(busy_threads_, 1, mpos - 1)
                      \o SubSeq(busy_threads_, mpos + 1, Len(busy_threads_))
  /\ Return("true")
  /\ UNCHANGED <<mjob, wake_signal_, busy_, inbox_, inbox_len_, outbox_>>
  /\ UNCHANGED <<worker, out>>

\* What the main thread does within a call it has begun.
MainStep ==
  \/ DeliverCopy \/ DeliverLen \/ DeliverWake
  \/ HandleNone \/ HandleIsBusy \/ CollectFits \/ CollectNonzero
  \/ CollectCopy \/ CollectLen \/ CollectRelease

Next ==
  \/ \E w \in Worker : AddWorker(w) \/ Run(w)
  \/ InitRefused
  \/ \E j \in Job : ProcessRefused(j) \/ DeliverBegin(j)
  \/ \E space \in OutSpaces : HandleCall(space)
  \/ MainStep

Spec == Init /\ [][Next]_vars

\* The scheduler runs every thread; the main thread finishes its calls and
\* keeps calling HandleBusyThread with a buffer of kMaxOutboxLen bytes, the
\* loop thread_pool.h prescribes and test_thread.cc has.
Fairness ==
  /\ \A w \in Worker : WF_vars(Run(w))
  /\ WF_vars(MainStep)
  /\ SF_vars(HandleCall(kMaxOutboxLen))

FairSpec == Spec /\ Fairness

-----------------------------------------------------------------------------
(* Properties *)

\* Type correctness of the pool's lists, the shared boxes and the locals of
\* Run, Process and HandleBusyThread.
TypeOK ==
  /\ free_threads_ \in Seq(Worker) /\ busy_threads_ \in Seq(Worker)
  /\ wake_signal_ \in [Worker -> BOOLEAN] /\ busy_ \in [Worker -> BOOLEAN]
  /\ inbox_ \in [Worker -> SUBSET Job] /\ inbox_len_ \in [Worker -> Nat]
  /\ outbox_ \in [Worker -> SUBSET Job] /\ outbox_len_ \in [Worker -> Nat]
  /\ wpc \in [Worker -> {"none", "unstarted", "check", "lock", "busy",
                         "drain", "begin", "end", "publish", "clear",
                         "done"}]
  /\ winput \in [Worker -> SUBSET Job]
  /\ mpc \in {"idle", "copy", "len", "wake", "scan", "fits", "nonzero",
              "output", "output_len", "release"}
  /\ mjob \in Job /\ mspace \in Nat /\ mpos \in 1 .. Len(busy_threads_) + 1
  /\ mcopy \in [data : SUBSET Job, len : Nat]
  /\ mret \in {"none", "true", "false", "kOk", "kUnexpect"}
  /\ owed \in [Worker -> SUBSET Job]
  /\ out \in [answers : SUBSET Job, data : SUBSET Job, len : Nat]

\* What HandleBusyThread hands out is the whole response to the job that
\* was given to that worker, with its length: neither the reuse of inbox_
\* by DeliverWork nor the early collection of a response by CollectRsp
\* (IsBusy() may have read a stale false) mixes two jobs.
ResponseMatches ==
  /\ out.data = out.answers
  /\ \A j \in out.answers : out.len = OutLen[j]

\* DeliverWork does not touch inbox_ while the worker's Process reads it.
InboxStable ==
  \A w \in Worker : wpc[w] = "end" => winput[w] = inbox_[w]

\* A worker about to process never finds its last response uncollected,
\* the loop the code comments with "should not happen here".
OutboxFree ==
  \A w \in Worker : wpc[w] \in {"drain", "begin", "end", "publish"} =>
    outbox_len_[w] = 0

\* Outside a call each worker is in one list, and a worker in the free list
\* has nothing to answer: no response is left behind in it.
FreeIsAnswered ==
  mpc = "idle" =>
    \A w \in Worker :
      LET inFree == {i \in 1 .. Len(free_threads_) : free_threads_[i] = w}
          inBusy == {i \in 1 .. Len(busy_threads_) : busy_threads_[i] = w} IN
      /\ Cardinality(inFree) + Cardinality(inBusy)
           = IF wpc[w] = "none" THEN 0 ELSE 1
      /\ inFree # {} <=> (wpc[w] # "none" /\ owed[w] = {})
      /\ inFree # {} => outbox_len_[w] = 0

\* Every job Process accepted for a worker that runs is answered: no wake-up
\* is lost between the worker's test of inbox_len_ and its
\* pthread_mutex_lock, and a worker without a thread, which keeps its job
\* and its place in the busy list for good, does not keep HandleBusyThread
\* from the others.
EveryJobAnswered ==
  \A w \in Worker, j \in Job :
    owed[w] = {j} /\ wpc[w] # "unstarted" ~> owed[w] = {}
=============================================================================
