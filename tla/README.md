# A TLA+ model of yarf

yarf ("yet another rpc framework") is a C++ library of building blocks for
servers that talk through shared memory, with Python tools beside it: code
generators and the style checker cpplint. This directory holds TLA+ modules
that model its concurrent core, the tools and the code they generate, TLC
configurations that check them on small instances, and TLAPS proofs, for every
instance, of the main invariants of the queue, the thread pool, the channel, the
generated codec, the generated struct, the generators and cpplint.

Run a check with `tlc -config X.cfg M` (the pairs are listed under *Runs*) and
the proofs with `tlapm M.tla` for each module whose name ends in `Proofs` and
for `BaseLemmas`.

## Inventory

| Component | State | Operations | Hard behaviour | What makes it correct |
|---|---|---|---|---|
| Lock-free queue (`channel/unlock_queue*.{cc,h}`) | `UnlockQueueHead` (capacity, head, tail, seq) and a byte ring, in memory shared by two threads or processes | `Send`; `Recv`, `Peek`, `Drop` over `GetNextPack`; `Init`, `CreateUnlockQueue` | sender and receiver share everything and lock nothing; wrap-around; death of a process in the middle; the ring outlives it | what is received is what was sent, once, in order; full is never taken for empty; a peeked message is stable; a refused send succeeds in the end |
| Pack head (`channel/channel_pack.*`) | 48 bytes in front of every message | written by `Send`, read by `GetNextPack` | 16-bit lengths | the lengths are those of the message |
| Channel (`channel/channel*.{cc,h}`) | map peer -> two-way queue, an iterator and a count | `Init`, `Send`, `Recv`, `Peek`, `Drop`, control messages | peers send while `Recv` goes round; fairness between queues; 32/64-bit identifiers | no peer starves; "empty" means every queue was; the reported source can be answered |
| Channel configuration (`channel/channel_config.*`) | `GlobalConfig` in shared memory: list of channels, their segments | `Create`, `CreateByKey`, `AddChannel`, `GetChansByProcId` | several processes create it without taking its lock; death half way | one channel per pair of processes, every listed channel usable |
| Shared memory (`memory/shm.*`) | segment id, address, size | `InitByKey`, `InitById`, `Detach`, `MarkDelete*` | create races, errors of `shmat` | a successful init has a segment |
| Thread pool (`thread/thread_pool.*`) | lists of free and busy workers; per worker an inbox, an outbox, their lengths, a flag and a mutex used as a signal | `Init`, `HasFreeThread`, `Process`, `HandleBusyThread`; worker `Run`, `DeliverWork`, `CollectRsp`, `IsBusy` | boxes and flags shared without a lock, wake-ups | a response belongs to its job; no wake-up is lost; every job is answered |
| Thread (`thread/thread.*`) | `stop_`, `start_`, thread id | `Start`, `Stop`, `Wait` | `start_` written by both threads; `Stop` of a blocked worker | start/stop agree with the thread's life |
| Fixed length pool (`memory/fixed_len_pool.*`) | header, blocks, free list | `Init`, `Alloc`, `Free`, iteration | long sequences of calls; offset arithmetic | blocks are disjoint, the free list is acyclic |
| Hash pool (`memory/hash_pool.h`) | buckets, chains of pool nodes | `Alloc`, `Insert`, `Get`, `Free` | chains share nodes with the pool | it is a map |
| Binary packer (`net/bin_packer.h`) | buffer, position | `Write`, `Read`, `Skip*`, `Set*Pos` | boundary of the buffer, byte order | what is written is read back |
| proto2bin, proto2obj4pb (`tools/*.py`) | the `.proto` file, the `..._pb2.py` files of protoc, a header and a cpp file | `read_proto`, `get_protodesc`, `gen_code` | many ways out half way; a line parser beside protoc's; a protoc that fails unnoticed | header and implementation belong together; a field is generated as its line says |
| codec generated by proto2bin | the caller's buffer, a packer per nested message | `Encode`, `Decode` | nested lengths, buffers that end anywhere, truncated input | the decoder inverts the encoder, nothing truncated is accepted |
| struct generated by proto2obj4pb | a fixed array and its size | `Add`, `Find`, `Del`, by index and key, `ToProtobuf`, `FromProtobuf` | stale slots behind the size, loads that fail half way | a bounded list with keys |
| proto2conf (`tools/proto2conf.py`) | the `.pb.txt` file | `handle_proto` | mutually recursive text generation | a text the protobuf text format reads |
| cpplint (`cpplint.py`) | verbosity, filters, counts, suppressions; per file includes, function, stack of blocks with checkpoints | `main`, `ProcessFile`, `ProcessLine` and the checks | module-wide state that must not leak from file to file; state carried over many lines and through conditional directives | an error is shown exactly if nothing the user wrote for this file silences it; the state agrees with the text |
| wizard2svr, `pb_config`, `time`, `log`, `err` | - | templates, file input, constants | - | - |

How they interact: `CChannel::Init` reads the `GlobalConfig` segment and
attaches, per peer, the two segments of a two-way queue; `CChannel::Recv` and
`Peek` poll the receiving ends in turn, `Send` finds the sending end of a peer.
A two-way queue is two one-way queues, each process holding the reading end of
one and the writing end of the other. The thread pool is independent of the
channel: a server's main thread takes requests from somewhere, hands them to
workers and collects responses by polling. The generators read a `.proto` file
and protoc's descriptor of it; what proto2bin generates runs on the binary
packer, what proto2obj4pb generates converts from and to protobuf's classes.
cpplint stands alone.

## Modules

| Module | Models |
|---|---|
| `UnlockQueue` | `unlock_queue.cc`: a one-way queue, its sender and its receiver, with crashes |
| `Fifo` | what a one-way queue promises: the interface in `include/yarf/channel/unlock_queue.h` |
| `UnlockQueueInv` | the properties of the queue, the refinement mapping to `Fifo`, the inductive invariant |
| `UnlockQueueLive` | the queue with the retrying clients of `test_unlock_queue.cc`, and liveness |
| `UnlockQueueProofs` | TLAPS proofs about `UnlockQueueInv` |
| `ThreadPool` | `thread_pool.cc`: the main thread and the workers |
| `Channel` | `channel.cc`: one process's channel over queues that are `Fifo`s of bounded length |
| `BinCodec` | the `Encode` and `Decode` that `proto2bin.py` generates, over `net/bin_packer.h` |
| `RawData` | the struct that `proto2obj4pb.py` generates for a repeated field |
| `KeyedList` | what that struct promises: a bounded list with keys; `RawData` implements it |
| `ProtoGen` | the generators `proto2bin.py`, `proto2obj4pb.py` and `proto2conf.py` themselves |
| `LintState` | `cpplint.py`: filters, verbosity, counts and suppressions behind `Error` |
| `LintNesting` | `cpplint.py`: `NestingState` and the checks that read it |
| `LintFile` | `cpplint.py`: includes, functions and the checks of a whole file |
| `CppLint` | `cpplint.py`: `main`, `ParseArguments`, `ProcessFile`, `ProcessLine`, composed of the three above |
| `FixedLenPool` | `memory/fixed_len_pool.*` |
| `ThreadPoolProofs`, `ChannelProofs`, `BinCodecProofs`, `RawDataProofs`, `ProtoGenProofs`, `CppLintProofs` | TLAPS proofs about the module each is named for, with its inductive invariant |
| `BaseLemmas` | facts about least elements, recursive functions and lists that those proofs share |
| `MC...` | instances for TLC: messages, jobs, files, command lines |

A definition whose comment begins with "Mutant of" is a version of the code
with a plausible bug in it. It is not part of any specification: a property is
known to mean something because putting the mutant in the place of the original
makes TLC report that property violated. PROJECT.json pairs them.

### UnlockQueue

*State.* `head`, `tail`, `seq` are the fields of `UnlockQueueHead`; `buf` is
the ring, byte by byte. A byte is abstracted to "the k-th byte of x", x a pack
head or a message: enough to tell whether a read finds a whole head or the
right body, without inventing contents. Reading a pack head from bytes that are
not one yields any head at all (`HeadAt`). `q` is a history variable, the packs
published and not yet consumed: the code does not depend on it. Neither does it
depend on `cut`, which is TRUE from the moment `Send` finds room for a message
whose sizes its types cut.

*Actions.* The sender and the receiver each own a program counter. A call
starts and then advances one shared access at a time: `Send` is `SendOverflow`,
`SendFull` or `SendFits` (first read of `head`), `SendInPlace`, `SendWrap` or
`SendWrapFull` (second read), `SendHold` (place holder), `SendHead`,
`SendBody`, `SendPublish` (`header_->tail = cur_tail`), `SendSeq`
(`header_->seq++`). `Recv`, `Peek`, `Drop` start with the one read of `tail`
(`RecvEmpty`, `RecvCall`), go through the rest of `GetNextPack` (`RecvScan`),
copy (`RecvCopy`) and publish `head` (`RecvAdvance`). A `memcpy` is one step:
the other side never looks at its target while it runs, which is what
`RingInv` establishes (the bytes `Send` is about to write are free from the
first of its steps on), so splitting it would add no behaviour.

*Crashes.* `CrashSender` and `CrashReceiver` forget the local variables at any
point and leave the shared memory as it is; attaching again changes nothing
(`CSendUnlockQueue::Init` only sets pointers; `IsValid` is constantly true).
`Reset` is `CreateUnlockQueue` with `reset = true`, which its documentation
allows only when no thread uses the ends.

*Integers.* Sizes are computed modulo `Word` (2^32): both the sum of the head's
and the message's length (`PackSize`) and the rounding up behind it
(`GetAlignmentSize`). `Send` only tests the second for a wrap (`Overflows`). The
lengths in a pack head are stored modulo `Half` (2^16), sequence numbers modulo
`SeqMod` (2^32). The length of a message is any value of a `uint32_t`.
`SizesKept` holds for the messages of which no size wraps or is cut; for any
other one that passes the tests the code goes on, and so does the model, with
what it computed: the copy of the body writes what of it lies in the ring, and
the process may end in the middle of a copy that leaves the ring
(`SendBodyDies`). What such a copy does to memory behind the ring is not
modelled. The properties promise nothing from there on (`cut`): that is what the
code gives its users; *Known limits* says what happens instead.

*Memory model.* The project's CMake files ask for no optimisation (gcc's `-O0`) and its README
for x86-64:
stores of one thread become visible in program order and loads are not
reordered, so that sequences of single accesses interleaved in any order cover
what the hardware does here, up to the delay of a store. A delayed `head` or
`tail` is an older value, and the other side only gains from a newer one. On a
weaker memory model the code has no barriers and this model would not apply.

### ThreadPool

*State.* The lists of the pool; per worker `busy_`, `inbox_`, `inbox_len_`,
`outbox_`, `outbox_len_`, `wake_signal_` (TRUE when the mutex is unlocked).
The content of a box is the job it belongs to, or "something else" while a copy
is under way. `owed` and `out` are history: the job a worker still has to answer
and the last response handed to the caller.

*Actions.* One per access to shared state in `Run` (`CheckInbox` ...
`ClearBusy`), `Process`/`DeliverWork` (`DeliverBegin` ... `DeliverWake`) and
`HandleBusyThread`/`CollectRsp` (`HandleIsBusy`, `CollectFits` ...
`CollectRelease`). The list operations belong to the main thread alone and
happen with the last access of their call. `AddWorker` is one turn of the loop
of `CThreadPool::Init`; it ignores the result of `Start`, so that a worker may be
listed which no thread runs (`"unstarted"`), and the whole call fails when a
worker cannot be initialised (`InitRefused`). The user's `Process` reads its
input and writes its output between `ProcessBegin` and `ProcessEnd`; an input
that changes in between yields no proper response. The mutex is glibc's default one: unlocking it from
another thread, or when it is unlocked already, leaves it unlocked.

### Channel

The model begins where `Init` has attached the queues; that they may hold packs
of an earlier life of the process is covered by peers that send first.

*State.* `unlock_queues_` as a queue of packs per peer in (`inq`) and a fill
level per peer out (`outq`), the iterator (`cur`, a key of the map) and
`cur_queue_recv_pkg_count_`. `seen` and `bypass` are history.

*Actions.* `Recv` and `Peek` are a `RecvCall` followed by one visit per queue
(`VisitEmpty`, `VisitTakes`, `VisitFails`), between which peers send
(`PeerSends`) and receive (`PeerTakes`). A visit is one step because the queue
below implements `Fifo`, in which receiving is one step.

### BinCodec

*State.* The caller's buffer with the memory behind it, byte by byte in base
`Base`, and a stack of frames, one per nested call of `Encode` or `Decode`, each
with the packer's position and length. *Actions.* One per `Write` or `Read` of a
packer, per nested call and per return from one; a false result ends every call
up to the first, because each caller tests it. `Receive` is the application
between the two calls: it passes on some prefix of the bytes, and what is behind
them in memory is arbitrary. A message type is a sequence of fields of the five
kinds `proto2bin.py` has templates for. The packer has no overloads for `double`
and `bool`; those types do not compile and do not occur.

The lengths of nested messages are `uint32_t` on the wire and `int` in the
parameters of `Encode` and `Decode` (`IntOf`), and the packer takes them as
`size_t`, where a negative one is no limit at all (`Fits`). A read behind the
memory modelled gets 0.

*The format.* `Message`, `Image` and `Legal` are constants: the messages of each
type, the bytes that stand for each, and the messages none of whose sizes is
above its maximum. `FormatAssumption` says what they are, field by field: the
image of a message is made of the images of its parts, and an inner message has
its length in front. So the format is stated without recursion and for every
set of types; `MCBinCodec` computes the images of its instance and TLC finds
that they satisfy the assumption. `OneElement` says that no vector of messages
has two elements.

### RawData and KeyedList

The array keeps old elements behind its size, as in the code. An element is a
key, a string with a maximum length and the number of entries of a repeated
field of its own, which is enough for `FromProtobuf` of the element to succeed,
to drop a string, or to fail. Strings are sequences of bytes, one of which is
`NUL`: `set_...` copies with `strncpy`, which writes zeros from the first NUL of
its source on, while the size is the full length. The struct has no constructor
and its sizes no initialisers; that its user has zeroed it before the first call
is an assumption of the model (`Zeroed`). `backward` is a property of the
machine: in which direction its `memcpy` copies, which matters because `Del...ByIdx` copies
overlapping memory. `KeyedList` says what the user sees; deletions that
overlap are the one place where it allows any elements.

### ProtoGen

*State.* The files of the working directory (`proto`, `pb2`, `out`, `conf`) and
the locals of the process that runs. An output is absent, empty, cut off or whole.
*Actions.* One per line of `read_proto`, per call of protoc, per field and message
of `gen_code`, and one for each opening and each writing of an output:
`OpenHeader`, `OpenCpp` (with the tests that follow it), `WriteHeader`, `WriteCpp`,
and `OpenConf`, `WriteConf` of proto2conf. Each of them may raise, and a writing
may leave a part of the text behind, with or without an exception (the text is
flushed when the file is closed, whose result nobody sees). Every way out of the
program is an `End`. A line of the file is what the generators see of it (which
field names occur in it, the annotation behind `|gen|max|`, the word "message")
and, for the properties alone, what protoc takes it for. Generated text is
abstracted to the template and the values put into it. The developer edits the
file between two runs, and protoc may fail at any time.

`Parse` is the reading of a configuration file by the protobuf text format,
written from the descriptor and not from the generator: which value a field of a
type takes (`Value`), that a singular field occurs once, that every field is
there, that braces balance. `ConfParses` claims it for the files proto2conf says
it supports (`SupportedConf`: no import, no `bytes`, of which its header has
"不支持"); for `bytes` the generator writes a 0, which is not a value of that type.

### CppLint

*State.* `_cpplint_state`, `_line_length`, `_root`, the suppressions, and the
three state objects of a file. *Actions.* One per file and per line: `ProcessLine`
is the function of that name. It makes every update of the state, and every
check that is a matter of state and of a line's record, in the
code's order. `log` is history, the errors the last step raised. The errors of a
step are counted together (`Errors`): `error()` changes nothing by which the next
error is judged, so that the counts after them are the sums over the ones shown.

A line is a record of what those checks look at: its tokens that matter for the
nesting, its directive, its indentation, its comments. The regular expressions
are thereby taken for what they recognise. The many checks that look for
something in one line's text and keep nothing are errors the line comes with
(`own`), of any category and confidence; they go through suppressions, filters
and counts like the others. Some of them ask the nesting whether they may report:
`CheckForNonConstReference` (not inside of a function), the constructors of
`CheckForNonStandardConstructs` (in the class of that name) and the space before
a brace in `CheckBracesSpacing` (not behind a type of an open template). For
these an own error has a `scope`, and `InScope` is that question. (One check,
`FlagCxx11Features`, also runs inside `asm` blocks; there `own` is empty.) Also
left out: the exceptions of the blank line check for indented initialiser lists
and `} else`, and the lines that may be long (their `width` is 0). cpplint ends
with an exception for a `--verbose` that is no number, for an `exclude_files` that
is no regular expression, for a bad filter, and for a function shorter than the
trigger that a negative `--verbose` reports; the state is then that of the step at
which it ended (`"raised"`).

### FixedLenPool

Addresses are bytes from the header. `AllocNew`, `AllocFree` and `Free` follow
`Alloc` and `Free` with both branches of `GetFreeBlock`.

## Runs

| Run | Module | Checks | Size |
|---|---|---|---|
| `UnlockQueueCrash` | `MCUnlockQueue` | `RingInv`, `SeqInv`, `EmptyIsEmpty`, `PeekStable`, `ImplementsFifo` | 1.2 M states |
| `UnlockQueueCalls` | `MCUnlockQueue` | the same | 0.23 M states |
| `UnlockQueueLive` | `MCUnlockQueueLive` | `FullIsTemporary`, `EveryPackTaken` | 66 k states |
| `ThreadPool` | `MCThreadPool` | `TypeOK`, `ResponseMatches`, `InboxStable`, `OutboxFree`, `FreeIsAnswered` | 1.4 M states |
| `ThreadPoolLive` | `MCThreadPool` | `EveryJobAnswered` | 45 k states |
| `Channel` | `MCChannel` | `TypeOK`, `BoundedBypass`, `EmptyMeansAllEmpty` | 0.16 M states |
| `BinCodec` | `MCBinCodec` | `TypeOK`, `RoundTrip`, `TruncatedRefused`, `EncodeExact` | 194 k states |
| `BinCodecVec` | `MCBinCodec` | `RoundTrip`: violated | |
| `RawData` | `MCRawData` | `TypeOK`, `LoadExact`, `ImplementsList` | 61 k states |
| `FixedLenPool` | `FixedLenPool` | `BlocksInside`: violated | |
| `ProtoGen` | `MCProtoGen` | `TypeOK`, `OutputsTogether`, `GeneratedAsAnnotated`, `ConfParses` | 385 k states |
| `CppLint` | `MCCppLint` | `TypeOK`, `FiltersRestored`, `ShownExactly`, `CountsAgree`, `NestingReference`, `DuplicateIsReal`, `OrderIsReal`, `LongFunctionShown` | 239 k states |

The configuration of a run has the run's name.

*Bounds of the queue.* Heads of 2 bytes, alignment 2, messages of 1 and 3 bytes
(packs of 4 and 6). Between them the rings meet their end in every way: in the
even one of 10 bytes (`UnlockQueueCalls`) a pack can end exactly there; in the odd
ones of 11 and 13 a rest of one byte, shorter than a head, can remain; in both a
rest can take a place holder. 13 bytes can hold twice the longest pack and one
byte, which is what `UnlockQueueLive` needs. In `UnlockQueueCalls`
`Word` is 32 and `Half` is 6, and there are three more messages:
the rounding up of `huge` wraps, which `Send` refuses; the sum of `wrapping`
wraps; the length of `wide` (`Half` bytes) is cut in the head. The constraint
`UntilCutSent` ends the exploration with the `Send` of a cut message, behind which
the properties say nothing. Nothing else bounds the state: the ring itself does.

*Bounds of the pool.* Two workers, enough for one to be collected while the
other is delivered to and for the lists to change order; jobs that differ in
length, one that does not fit the inbox; output buffers that are too small and
large enough; of each worker the thread may or may not have been started.
`ThreadPoolLive` uses one job: which job it is does not
influence progress when lengths are positive.

*Bounds of the channel.* Three peers, two packs in a row, queues of one pack:
the peers refill them at any point, so that a queue can be non-empty at every
visit.

*Bounds of the codec.* Bytes of base 8, sizes of 2 bytes, lengths up to 31 and
three types: a leaf, an inner type with a string around it, an outer one with a
vector of integers, a message and a vector of messages. Every buffer length from
0 to more than the longest legal image, every number of lost bytes, three values of
the memory behind them. In `BinCodec` vectors of messages have at most one
element, in `BinCodecVec` two.

*Bounds of the struct.* An array of three: one element to delete, one that
moves alone and two that overlap. Two keys, so that keys repeat; strings of no
byte, of the maximum of two and of one more, with a NUL at every place.

*Bounds of the generators.* Two messages, the first with two fields, one of
whose names is part of the other's, in both orders; every combination of field
kinds, annotations, comments and layout in one run, and three runs over edits
between four versions of a file, one of which protoc rejects and one of which
imports another file.

*Bounds of cpplint.* All files of four lines between blocks and conditionals
(and two more), of five lines of includes and conditionals, of four lines of a
function, three of a class, three of a header guard, four of the scopes own
errors ask for; functions of up to 65 lines, the length at which the confidence
reaches its cap of 5, with verbosities from 0 to 6 and, for TEST bodies, from -2
to 1; sessions of two files over
all pairs of eight CPPLINT.cfg files and over all pairs of eight lines with
NOLINT comments, with several verbosities, filters and counting styles. The
constants of the program (250 lines of a function, 80 columns, ...) are scaled
down to what such files reach.

### Fairness

`UnlockQueueLive`: both threads keep running (weak fairness of the sender's
steps within a call and of the receiver's calls and steps); a sender is not
obliged to send, but repeats a `Send` that returned `kChanFull`, as the loop in
`test_unlock_queue.cc` does. `ThreadPool`: weak fairness of each worker's `Run`
and of the main thread within a call, and the main thread calls
`HandleBusyThread` with a full-size buffer again and again, as the loop in
`thread_pool.h` prescribes. That one is strong fairness because the main thread
makes other calls in between, during which it cannot start this one.

### What the violated runs show

Each states what a comment or a test of the repository says of the program and
shows an execution of the code that contradicts it; PROJECT.json quotes the
lines.

* `BinCodecVec`: the template that encodes a repeated message field leaves its
  loop after the first element, so that a vector of two does not decode.
* `FixedLenPool`: `Deref` scales a byte position by the size of the header; the
  first block handed out is outside of the memory the pool asks for.

### Known limits

What the models show about the code beyond these two runs, and what the
properties, the instances or the hypotheses of the theorems therefore leave out:

* From the first message whose sizes `Send` cuts nothing holds of the queue any
  more (`cut`): neither `RingInv` nor the FIFO. The lengths are those of 2^16 bytes
  and more that the ring has room for, and those of 2^32 minus the head's and more,
  whose sum is so small that every ring has room. The model follows such a `Send` to
  its end, within the ring. Explored further it has the receiver advance by what is
  left of the length, stand in the middle of a pack and return `kUnexpect`, which
  `err.h` calls an error that in theory is never seen. A pack longer than half the ring can be
  refused as "full" for ever by an empty queue: with 11 bytes in place of 13,
  `FullIsTemporary` fails.
* A response collected early puts a worker in the free list while its inbox is
  still in use, and the next `Process` fails with `kUnexpect`. A response
  published between the size test and the copy of `CollectRsp` is copied
  whatever the room. A worker whose thread `Start` could not create takes a job
  and keeps it, and its place in the busy list, for good (`EveryJobAnswered` is
  about the others). Length 0 means "nothing" to the pool: a job with an empty
  input or response is never answered.
* Peer identifiers above 2^32 are reported truncated. `Init` of the channel can
  fail half way and be called again; that is not modelled.
* Fixed length pool: `Init` of memory that holds a pool already (`check_header`)
  is not modelled.
* Generated codec: an inner `Encode` with a negative length writes behind the
  buffer before its caller refuses (the memory modelled is larger than the
  buffer for that reason); `Decode` of a string does not test its maximum;
  `set_...` puts the digit `'0'` behind a string, not NUL.
* Generated struct: its memory has to be zeroed by its user (`Zeroed`); a string
  that is too long is dropped silently and the slot keeps the one it had; of a
  string with a NUL the bytes behind it are lost, while the length stays; a load that fails leaves half of each list; `ToProtobuf`
  appends to what the message holds.
* Generators: a protoc that fails leaves an old descriptor, which is combined
  with the new lines; a field name inside an earlier line takes that line's
  annotation, so that the field gets the maximum of another one; the word "message" in a comment cuts a message in two; of two
  messages with one simple name the first gives the key. `GeneratedAsAnnotated`
  is stated for files without these (`Clear`). proto2conf writes a 0 for a field of
  type `bytes` and raises where a type is imported (`SupportedConf`). A write that
  fails half way leaves a cut file beside one of the same or an older run.
* cpplint: `linelength` and `root` of a CPPLINT.cfg stay set for the files that
  follow; a comment that is not closed is reported one line too low; a header
  included before a nested conditional may be reported twice (`Nested`); NOLINT
  does not reach the checks that run before the lines are processed; a negative
  `--verbose` can end cpplint with a `ValueError` from `math.log`. A `linelength` in
  a CPPLINT.cfg that is no number is reported and ignored; it is left out.

## Proofs

Every theorem is about the specification that the runs check, for every value
of the constants that satisfies the assumptions of its module; TLC evaluates
those assumptions on the instances. Each inductive invariant was model-checked
on the bounds of the runs, or smaller ones, before it was proved. A step's proof
has one lemma or step per action and under it one per part of the invariant
that the action can disturb.

### The queue

`UnlockQueueProofs` proves, for every capacity, head size, alignment level in
{2, 4, 8}, modulus and set of messages that satisfy `SizeAssumption` and
`MsgAssumption`, with and without crashes. `SizeAssumption` is what `Init`
enforces and what the build fixes; `MsgAssumption` says that a length is a value
of `uint32_t`, any value:

* `TypeCorrect`: `Spec => []TypeOK`;
* `RingCorrect`: `Spec => []RingInv`;
* `EmptyCorrect`, `PeekCorrect`: `[]EmptyIsEmpty` and `[]PeekStable`;
* `SeqCorrect`: `Spec => []SeqInv`;
* `FifoCorrect`: `Spec => ImplementsFifo`: the byte ring implements the abstract
  queue, which promises nothing from its step to `broken` on, the step in which
  `Send` finds room for a message whose sizes it cuts.

The inductive invariant `RingInv` is `TypeOK` and six parts. `PacksInv`: each
published pack lies whole, in one piece, where the receiver will look.
`ChainInv`: the packs lead from `head` to `tail`, each beginning where the last
one ends. `OrderInv`: in the order the receiver will meet them (`Key`: offsets
counted from `head` onwards) they do not overlap. `SendInv`: what `Send` knows
at each of its steps about the bytes it is going to write; it must survive the
receiver moving `head`, even over the end of the ring. `RecvInv`: the receiver
works on the oldest pack, and the `tail` it read is not older than that pack.
`NoFatalError`: the result that follows. Without the order the ring's bytes
could be claimed twice, without `SendInv` nothing is known between the test
for room and the copy, and without `RecvInv` nothing about the old `tail`.

All of these but `TypeOK` are claimed as long as no size was cut. What is left to
prove about lengths is that of a message accepted with its sizes kept (`Proper`)
the body lies inside of the ring (`BodyStaysInside`) and that `cut` stays TRUE
once it is (`CutStays`).

The proof has one lemma per action and under it one step per part that the
action can disturb; lemmas about `Key`, the alignment arithmetic and the copies
into the ring are stated before them.

### The thread pool

Assumption: lengths are natural numbers, a response fits the outbox, the set of
workers is finite (`LenAssumption`). Proved, for any number of workers and jobs:

* `PoolTypeCorrect`: `[]TypeOK`;
* `PoolResponses`: `[]ResponseMatches`;
* `PoolInboxStable`, `PoolOutboxFree`: `[]InboxStable`, `[]OutboxFree`;
* `PoolFreeIsAnswered`: `[]FreeIsAnswered`.

`PoolInv` is `TypeOK`, `ResponseMatches` and three parts. `ListsInv`: from
`AddWorker` on a worker is in exactly one of the two lists, once, with a thread
or without. `WorkersInv`:
a free worker rests (`Resting`, which includes the worker whose response was
collected before it cleared its inbox), a busy one has the job it owes in its
inbox (`Assigned`) or the response to it in its outbox (`Answered`), and the
one that is being given a job is in between. `MainInv`: what the main thread
has written or found at each step of `DeliverWork` and `CollectRsp`. The pool
takes no lock, so that all of it rests on which side may write a box in which
state: `WorkersInv` is that protocol, which the code does not state.

### The channel

Assumption: the peers are finitely many numbers, at least one, and the limit of
packs in a row is positive (`ConfigAssumption`). Proved:

* `ChannelTypeCorrect`: `[]TypeOK`;
* `ChannelEmpty`: `[]EmptyMeansAllEmpty`;
* `ChannelFair`: `[]BoundedBypass`.

`ChannelInv` adds to the first two `CallInv` (within a call the queues found
empty form an arc of the map that ends at the iterator, as long as the loop has
turned) and `BypassInv` (a waiting pack was passed over at most one share for
each queue on the arc from its own to the iterator, plus the count at the
current one). The bound of `BoundedBypass` alone is not inductive: it says
nothing of how far round the map the iterator is.

### The generated codec

Assumptions: the fields of a type have the shape the generator gives them, the
buffer is at most `INT_MAX` long (`CodecAssumption`), and the format is the one
the templates intend (`FormatAssumption`): values have the width of their field,
strings and vectors a size of 32 bits, inner messages a length that is an `int`.
Proved, for every set of types, however deep they nest, every message, every
buffer and whatever is behind the received bytes:

* `CodecTypeCorrect`: `[]TypeOK`: the calls nest, and none works in front of
  where its caller is;
* `EncodeCorrect`: `[]EncodeExact`;
* `RoundTripCorrect`: `[]RoundTrip`;
* `TruncationRefused`: `[]TruncatedRefused`.

The last three have the hypothesis `OneElement`: with a vector of two messages
`Encode` leaves its loop too early and `RoundTrip` is false (`BinCodecVec`).

The stack of calls takes the place of an induction over messages: a message type
may nest to any depth, and what is true of a call is said of every frame at
once. There are three invariants, each on top of the one before:

* `FramesInv`: every frame is at a field of its type, every inner frame is the
  call its caller waits for, and their bytes lie one behind the other; in
  `Encode` all of them end where the buffer ends, so that the length of an inner
  call may be negative.
* `EncodeInv`: a call of `Encode` has written exactly the beginning of the image
  of its message (`EncAt`), the fields behind it were legal, and its image ends
  within the image of the root. What a caller has written is left alone by the
  inner calls (`EncodeWaits`): they write behind it.
* `DecodeInv`: either every call of `Decode` reads the image of a message and
  has kept the values in front of its place (`MatchedBy`), the inner calls on
  messages of which nothing is missing; or the image has lost its end and some
  inner call was given more than is left (`DoomedBy`). That call may read
  what is behind the received bytes, and may even end with success. It is its
  caller that refuses, in `SkipReadPos`, or that was itself given too much. The
  outermost call was given what is received, so that nothing doomed gets
  through it. Without this second half the invariant is not inductive, and TLC
  shows that such states are reached.

Under them are lemmas about the bytes of an integer (`FromNetToNet`), about
sequences joined by a recursive function (`ConcatStep`, `DoneNext`: the part
that a template writes next is the next part of the image) and about memory that
holds a string (`HoldsConcat`, `PutInKeeps`, `TakeFromHeld`).

### The generated struct

Assumptions: positive maximum, NUL is a byte (`RawAssumption`), callers pass
elements and messages of the right type (`CallerAssumption`); `Init` contains the
assumption that the struct was zeroed (`Zeroed`). Proved:

* `ListTypeCorrect`: `[]TypeOK`;
* `LoadCorrect`: `[]LoadExact`: of a string that fits every byte arrives that has no
  NUL in front of it, at its place, and the length (`StoredStrFacts`);
* `ListCorrect`: `Spec => ImplementsList`: every call of `RawData` is a call of
  `KeyedList` on the elements in front of the size.

The refinement needs what the code's loops find: the first element with a key
and the first one that cannot be loaded (`LeastElement`), and what the copies
of `Del...ByIdx` leave, element by element, in either direction of `memcpy`.

### The generators

No assumption on the files, their edits, protoc's descriptors or failures.
Proved:

* `ProtoTypeCorrect`: `[]TypeOK`;
* `OutputsAgree`: `[]OutputsTogether`.

`ProtoInv` adds `ToolInv` (which program is at which step), `ReaderInv` (the
message `read_proto` is in has a range of lines), `GenInv` and `FilesInv`. `GenInv`:
the texts that `gen_code` keeps for the two files already agree, class by class
and within the class under way. `FilesInv`: what is on disk in each of the steps
between the opening of the header and the writing of the cpp file. It carries
`OutputsTogether` through the windows in which the two are of different runs: the
new header is empty when the old cpp file is opened, both are empty while the
texts are made, and of a whole new header and an empty cpp file the header is the
text that agrees with the one about to be written. `OutputsTogether` compares the
functions of a class with the names of its repeated fields, a recursive function
of the list of fields. The library's induction theorems cannot be used (they
take an operator); `BaseLemmas` therefore derives from the well-foundedness of
the naturals that a non-empty set of numbers has a least one, and from it that
two solutions of a recursion agree (`AgreeUpTo`) and that one exists
(`RecursionExists`).

### cpplint

Assumption: a command line has an integer verbosity and a sequence of files
(`CommandsAssumption`); nothing about the files or the CPPLINT.cfg files. Proved:

* `LintTypeCorrect`: `[]TypeOK`;
* `LintFilters`: `[]FiltersRestored`.

`LintInv` is `FilterInv` (while a file is processed the saved filters are those
of the command line, between files the current ones), `FileInv` (what is kept
of a file) and `SessionInv`. It has to hold through every way out of
`ProcessFile` and through every check of `ProcessLine`.

### Only model-checked

* Liveness: `FullIsTemporary`, `EveryPackTaken`, `EveryJobAnswered`. The prover
  has no fairness reasoning.
* That the images `MCBinCodec` computes satisfy `FormatAssumption`: they are
  computed by a recursive operator, for its three types.
* `GeneratedAsAnnotated` and `ConfParses`: the whole descriptor and the whole
  generated text against a reference; the second goes through mutually
  recursive text.
* `ShownExactly`, `CountsAgree`, `NestingReference`, `DuplicateIsReal`,
  `OrderIsReal`, `LongFunctionShown`: they relate the state to folds over the
  lines, filters or errors so far.
* What the violated runs show.

## Plan

Done: the queue, its abstract specification and proofs; the thread pool and its
proofs; the channel over abstract queues and its proofs; the binary codec, and
the proofs that it encodes exactly, decodes what it encoded and refuses what is
cut; the generated struct, its abstract list and the proof that it implements it; the
three generators and the proof that their outputs belong together; cpplint and
the proof that filters do not leak; the fixed length pool.

Left:

1. `ChannelConfig`: `GlobalConfig` and `CShm` together, several processes
   creating the configuration at once, one dying half way.
2. Proofs: `CountsAgree` and `ShownExactly` of cpplint, with the folds over the
   errors written as recursive functions of the lines.

## Not modelled

* What the regular expressions of `cpplint.py` find in a line: pure text; it
  appears as the errors a line comes with, and as the line's record.
* `wizard2svr.py` and `yarf_util.py`: they write a fixed tree of directories and
  files in a straight line.
* `hash_pool.h`: every operation goes through the `Deref` of the pool below it,
  which leads outside of the pool (run `FixedLenPool`); a model would show
  nothing else.
* `thread.cc`, `shm.cc`: wrappers of pthread and System V calls.
* Control messages of the queue and the channel, `SetWritePos` and
  `SetReadPos`: nothing in the repository calls them.
* Protobuf configuration files, time, logging: input and output around library
  calls.
