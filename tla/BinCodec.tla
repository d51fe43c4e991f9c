------------------------------ MODULE BinCodec ------------------------------
(***************************************************************************)
(* The codec that tools/proto2bin.py generates for a message type (its     *)
(* templates cc_encode_... and cc_decode_...), on top of BinEncoder and    *)
(* BinDecoder of include/yarf/net/bin_packer.h.  Encode and Decode call    *)
(* themselves for the fields that are messages: a call is a frame on a     *)
(* stack, and every Write or Read of a packer is a step.                   *)
(*                                                                         *)
(* A message is the sequence of the values of its fields.  Between the two *)
(* calls the encoded bytes may lose their end.                             *)
(***************************************************************************)
EXTENDS Integers, Sequences, FiniteSets

CONSTANTS
  Type,      \* message types of the .proto file
  Fields,    \* Fields[t]: the fields of t, records of kind, width, max, sub
  Root,      \* the type that is encoded
  Message,   \* Message[t]: messages of type t, with all that are parts of others
  Image,     \* Image[t][m]: the bytes that stand for m in the format
  Legal,     \* Legal[t]: messages of type t in which no size is above its maximum
  BufLens,   \* lengths of the caller's buffer
  Base,      \* values of a byte: 256 in the build
  SizeWidth, \* sizeof(uint32_t), in bytes
  IntMax,    \* INT_MAX: the largest length
  FillBytes, \* what the memory behind the received bytes may hold
  MemSize    \* bytes of memory modelled, beyond the caller's buffer too

Kind == {"simple", "string", "simple_vec", "struct", "struct_vec"}

IsField(fd) ==
  /\ fd.kind \in Kind
  /\ fd.kind \in {"simple", "simple_vec"} => fd.width \in Nat
  /\ fd.kind \in {"struct", "struct_vec"} => fd.sub \in Type
  /\ fd.kind \in {"string", "simple_vec", "struct_vec"} => fd.max \in Nat

ASSUME CodecAssumption ==
  /\ Root \in Type
  /\ \A t \in Type : /\ Fields[t] \in Seq({Fields[t][i] : i \in DOMAIN Fields[t]})
                     /\ \A i \in DOMAIN Fields[t] : IsField(Fields[t][i])
  /\ Base \in Nat \ {0, 1} /\ SizeWidth \in Nat \ {0}
  /\ MemSize \in Nat /\ IntMax \in Nat
  /\ BufLens \subseteq 0..MemSize /\ BufLens \subseteq 0..IntMax
  /\ FillBytes \subseteq 0..(Base - 1)

VARIABLES
  msg,    \* the message the caller encodes
  room,   \* bytes of the caller's buffer: the len passed to Encode
  len,    \* len as Encode leaves it: the bytes written
  rcv,    \* bytes passed to Decode
  mem,    \* the caller's buffer and the memory behind it
  pc,     \* "encode", "encoded", "decode" or "done"
  stack,  \* frames of the calls under way, the innermost last
  ok,     \* what the last outermost call returned
  got     \* the message Decode filled in

vars == <<msg, room, len, rcv, mem, pc, stack, ok, got>>

Byte == 0..(Base - 1)

-----------------------------------------------------------------------------
(* Integers in network byte order: hton and memcpy, memcpy and ntoh. *)

\* v without its last i bytes.
Shifted(v, i) ==
  LET q[k \in 0..i] == IF k = 0 THEN v ELSE q[k - 1] \div Base
  IN  q[i]

ToNet(v, width) == [i \in 1..width |-> Shifted(v, width - i) % Base]

FromNet(bytes) ==
  LET w == Len(bytes)
      val[i \in 0..w] == IF i = 0 THEN 0 ELSE val[i - 1] * Base + bytes[i]
  IN  val[w]

\* BinEncoder and BinDecoder take their length as size_t: an int below 0
\* becomes a number no position reaches.
Fits(frame, n) == frame.len < 0 \/ frame.pos + n <= frame.len

Put(at, bytes) ==
  [i \in DOMAIN mem |->
     IF i \in at..(at + Len(bytes) - 1) THEN bytes[i - at + 1] ELSE mem[i]]

\* Memory behind what is modelled reads as 0.
Take(at, n) ==
  [i \in 1..n |-> IF at + i - 1 \in DOMAIN mem THEN mem[at + i - 1] ELSE 0]

\* A uint32_t passed as an int.
IntOf(n) == IF n > IntMax THEN n - 2 * (IntMax + 1) ELSE n

Top == stack[Len(stack)]
Below == SubSeq(stack, 1, Len(stack) - 1)
FieldOf(frame) == Fields[frame.type][frame.field]
AtEnd(frame) == frame.field > Len(Fields[frame.type])

-----------------------------------------------------------------------------
(* Encode *)

EncodeFrame(type, m, base, n) ==
  [type |-> type, msg |-> m, base |-> base, len |-> n, pos |-> 0,
   field |-> 1, step |-> 0]

\* The Write calls of a field's template, in their order.
Writes(fd, v) ==
  CASE fd.kind = "simple"     -> <<ToNet(v, fd.width)>>
    [] fd.kind = "string"     -> <<ToNet(Len(v), SizeWidth), v>>
    [] fd.kind = "simple_vec" -> <<ToNet(Len(v), SizeWidth)>> \o
                                 [i \in DOMAIN v |-> ToNet(v[i], fd.width)]
    [] fd.kind = "struct"     -> << >>
    [] fd.kind = "struct_vec" -> <<ToNet(Len(v), SizeWidth)>>

\* The messages a field's template encodes after that.  The loop over the
\* elements of a vector of messages ends with a break in its first turn.
Calls(fd, v) ==
  CASE fd.kind = "struct"     -> <<v>>
    [] fd.kind = "struct_vec" -> IF v = << >> THEN << >> ELSE <<Head(v)>>
    [] OTHER                  -> << >>

Value(frame) == frame.msg[frame.field]
NWrites(frame) == Len(Writes(FieldOf(frame), Value(frame)))
NCalls(frame) == Len(Calls(FieldOf(frame), Value(frame)))

\* _size > MAX_..._SIZE
TooMany(fd, v) == fd.kind \in {"string", "simple_vec", "struct_vec"}
                  /\ Len(v) > fd.max

StepDone(frame) ==
  IF frame.step + 1 = NWrites(frame) + NCalls(frame)
  THEN [frame EXCEPT !.step = 0, !.field = @ + 1]
  ELSE [frame EXCEPT !.step = @ + 1]

\* return false, in every caller up to the first: each tests the result.
Return(result) ==
  /\ stack' = << >> /\ ok' = result
  /\ pc' = IF pc = "encode" THEN "encoded" ELSE "done"

EncodeRefused ==
  /\ pc = "encode" /\ ~AtEnd(Top)
  /\ \/ Top.step = 0 /\ TooMany(FieldOf(Top), Value(Top))
     \/ /\ Top.step < NWrites(Top)
        /\ ~Fits(Top, Len(Writes(FieldOf(Top), Value(Top))[Top.step + 1]))
  /\ Return(FALSE)
  /\ UNCHANGED <<msg, room, len, rcv, mem, got>>

EncodeWrite ==
  /\ pc = "encode" /\ ~AtEnd(Top) /\ Top.step < NWrites(Top)
  /\ ~(Top.step = 0 /\ TooMany(FieldOf(Top), Value(Top)))
  /\ LET bytes == Writes(FieldOf(Top), Value(Top))[Top.step + 1]
     IN  /\ Fits(Top, Len(bytes))
         /\ mem' = Put(Top.base + Top.pos, bytes)
         /\ stack' = Append(Below,
              StepDone([Top EXCEPT !.pos = @ + Len(bytes)]))
  /\ UNCHANGED <<msg, room, len, rcv, pc, ok, got>>

\* Mutant of EncodeCall: the message is encoded where its length belongs.
EncodeCallAtPos ==
  /\ pc = "encode" /\ ~AtEnd(Top) /\ Top.step >= NWrites(Top)
  /\ LET subPos == Top.pos
         k == Top.step - NWrites(Top) + 1
     IN  stack' = Append(stack,
           EncodeFrame(FieldOf(Top).sub, Calls(FieldOf(Top), Value(Top))[k],
                       Top.base + subPos, Top.len - subPos))
  /\ UNCHANGED <<msg, room, len, rcv, mem, pc, ok, got>>

\* sub_pos leaves room for the length, which is written after the call.
EncodeCall ==
  /\ pc = "encode" /\ ~AtEnd(Top) /\ Top.step >= NWrites(Top)
  /\ LET subPos == Top.pos + SizeWidth
         k == Top.step - NWrites(Top) + 1
     IN  stack' = Append(stack,
           EncodeFrame(FieldOf(Top).sub, Calls(FieldOf(Top), Value(Top))[k],
                       Top.base + subPos, Top.len - subPos))
  /\ UNCHANGED <<msg, room, len, rcv, mem, pc, ok, got>>

\* The inner Encode sets sub_len; the caller writes it and skips the bytes.
EncodeReturn ==
  /\ pc = "encode" /\ AtEnd(Top) /\ Len(stack) > 1
  /\ LET caller == stack[Len(stack) - 1]
         subLen == Top.pos
     IN  IF Fits(caller, SizeWidth + subLen)
         THEN /\ mem' = Put(caller.base + caller.pos, ToNet(subLen, SizeWidth))
              /\ stack' = Append(SubSeq(stack, 1, Len(stack) - 2),
                   StepDone([caller EXCEPT !.pos = @ + SizeWidth + subLen]))
              /\ UNCHANGED <<pc, ok>>
         ELSE /\ mem' = IF Fits(caller, SizeWidth)
                        THEN Put(caller.base + caller.pos, ToNet(subLen, SizeWidth))
                        ELSE mem
              /\ Return(FALSE)
  /\ UNCHANGED <<msg, room, len, rcv, got>>

EncodeEnd ==
  /\ pc = "encode" /\ AtEnd(Top) /\ Len(stack) = 1
  /\ len' = Top.pos
  /\ Return(TRUE)
  /\ UNCHANGED <<msg, room, rcv, mem, got>>

-----------------------------------------------------------------------------
(* Decode *)

\* size is what the caller passes as the length, len what Decode makes of it;
\* count is what was read of the field's size, value the elements so far.
DecodeFrame(type, base, n) ==
  [type |-> type, base |-> base, size |-> n, len |-> IntOf(n), pos |-> 0,
   field |-> 1, step |-> 0, count |-> 0, value |-> << >>, msg |-> << >>]

\* The caller passes on n of the bytes Encode produced.
Receive(n, fill) ==
  /\ pc = "encoded" /\ ok /\ n <= len
  /\ pc' = "decode" /\ rcv' = n
  /\ mem' = [i \in DOMAIN mem |-> IF i < n THEN mem[i] ELSE fill]
  /\ stack' = <<DecodeFrame(Root, 0, n)>>
  /\ UNCHANGED <<msg, room, len, ok, got>>

\* Bytes of the next Read of a field's template.
ReadSize(frame) ==
  LET fd == FieldOf(frame)
  IN  CASE fd.kind = "simple" -> fd.width
        [] fd.kind = "string" ->
             IF frame.step = 0 THEN SizeWidth ELSE frame.count
        [] fd.kind = "simple_vec" ->
             IF frame.step = 0 THEN SizeWidth ELSE fd.width
        [] OTHER -> SizeWidth

\* Steps of the template: a struct has one, the others one for their size
\* and one for each element (a string is one element).
LastStep(frame) ==
  CASE FieldOf(frame).kind \in {"simple", "struct"} -> 0
    [] FieldOf(frame).kind = "string" -> 1
    [] OTHER -> frame.count

FieldDone(frame, v) ==
  [frame EXCEPT !.msg = Append(@, v), !.field = @ + 1, !.step = 0,
                !.count = 0, !.value = << >>]

ReadDone(frame, v) ==
  IF frame.step = LastStep(frame)
  THEN FieldDone(frame, v)
  ELSE [frame EXCEPT !.step = @ + 1, !.value = v]

\* The sizes of vectors are tested against MAX_..._SIZE, that of a string is
\* not.
CountRefused(frame, n) ==
  FieldOf(frame).kind \in {"simple_vec", "struct_vec"} /\ n > FieldOf(frame).max

ReadsCount(frame) ==
  frame.step = 0 /\ FieldOf(frame).kind \in {"string", "simple_vec", "struct_vec"}

ReadsSubLen(frame) ==
  \/ FieldOf(frame).kind = "struct"
  \/ FieldOf(frame).kind = "struct_vec" /\ frame.step > 0

Decoding == pc = "decode" /\ ~AtEnd(Top)
NextRead == Take(Top.base + Top.pos, ReadSize(Top))
Advanced == [Top EXCEPT !.pos = @ + ReadSize(Top)]

DecodeRefused ==
  /\ Decoding
  /\ \/ ~Fits(Top, ReadSize(Top))
     \/ /\ Fits(Top, ReadSize(Top)) /\ ReadsCount(Top)
        /\ CountRefused(Top, FromNet(NextRead))
  /\ Return(FALSE)
  /\ UNCHANGED <<msg, room, len, rcv, mem, got>>

\* Mutant of DecodeCount: the count includes itself.
DecodeCountOff ==
  /\ Decoding /\ Fits(Top, ReadSize(Top)) /\ ReadsCount(Top)
  /\ ~CountRefused(Top, FromNet(NextRead))
  /\ stack' = Append(Below,
       ReadDone([Advanced EXCEPT !.count = FromNet(NextRead) + 1], << >>))
  /\ UNCHANGED <<msg, room, len, rcv, mem, pc, ok, got>>

DecodeCount ==
  /\ Decoding /\ Fits(Top, ReadSize(Top)) /\ ReadsCount(Top)
  /\ ~CountRefused(Top, FromNet(NextRead))
  /\ stack' = Append(Below,
       ReadDone([Advanced EXCEPT !.count = FromNet(NextRead)], << >>))
  /\ UNCHANGED <<msg, room, len, rcv, mem, pc, ok, got>>

DecodeRead ==
  /\ Decoding /\ Fits(Top, ReadSize(Top))
  /\ ~ReadsCount(Top) /\ ~ReadsSubLen(Top)
  /\ LET v == CASE FieldOf(Top).kind = "simple" -> FromNet(NextRead)
                [] FieldOf(Top).kind = "string" -> NextRead
                [] OTHER -> Append(Top.value, FromNet(NextRead))
     IN  stack' = Append(Below, ReadDone(Advanced, v))
  /\ UNCHANGED <<msg, room, len, rcv, mem, pc, ok, got>>

\* Mutant of DecodeCall: the inner Decode gets data instead of data + ReadPos().
DecodeCallAtStart ==
  /\ Decoding /\ Fits(Top, ReadSize(Top)) /\ ReadsSubLen(Top)
  /\ stack' = Append(Append(Below, Advanced),
       DecodeFrame(FieldOf(Top).sub, Top.base, FromNet(NextRead)))
  /\ UNCHANGED <<msg, room, len, rcv, mem, pc, ok, got>>

\* The inner Decode gets sub_len as its length, whatever is left.
DecodeCall ==
  /\ Decoding /\ Fits(Top, ReadSize(Top)) /\ ReadsSubLen(Top)
  /\ stack' = Append(Append(Below, Advanced),
       DecodeFrame(FieldOf(Top).sub, Top.base + Advanced.pos,
                   FromNet(NextRead)))
  /\ UNCHANGED <<msg, room, len, rcv, mem, pc, ok, got>>

\* Mutant of DecodeReturn: the result of SkipReadPos is not tested.
DecodeReturnUnchecked ==
  /\ pc = "decode" /\ AtEnd(Top) /\ Len(stack) > 1
  /\ LET caller == stack[Len(stack) - 1]
         v == IF FieldOf(caller).kind = "struct" THEN Top.msg
              ELSE Append(caller.value, Top.msg)
     IN  stack' = Append(SubSeq(stack, 1, Len(stack) - 2),
           ReadDone([caller EXCEPT !.pos =
             IF Fits(caller, Top.size) THEN @ + Top.size ELSE @], v))
  /\ UNCHANGED <<msg, room, len, rcv, mem, pc, ok, got>>

\* SkipReadPos(sub_len)
DecodeReturn ==
  /\ pc = "decode" /\ AtEnd(Top) /\ Len(stack) > 1
  /\ LET caller == stack[Len(stack) - 1]
         v == IF FieldOf(caller).kind = "struct" THEN Top.msg
              ELSE Append(caller.value, Top.msg)
     IN  IF Fits(caller, Top.size)
         THEN /\ stack' = Append(SubSeq(stack, 1, Len(stack) - 2),
                   ReadDone([caller EXCEPT !.pos = @ + Top.size], v))
              /\ UNCHANGED <<pc, ok>>
         ELSE Return(FALSE)
  /\ UNCHANGED <<msg, room, len, rcv, mem, got>>

DecodeEnd ==
  /\ pc = "decode" /\ AtEnd(Top) /\ Len(stack) = 1
  /\ got' = Top.msg
  /\ Return(TRUE)
  /\ UNCHANGED <<msg, room, len, rcv, mem>>

-----------------------------------------------------------------------------
Init ==
  /\ msg \in Message[Root] /\ room \in BufLens /\ len = 0 /\ rcv = 0
  /\ mem = [i \in 0..(MemSize - 1) |-> 0]
  /\ pc = "encode" /\ stack = <<EncodeFrame(Root, msg, 0, room)>>
  /\ ok = FALSE /\ got = << >>

Next ==
  \/ EncodeRefused \/ EncodeWrite \/ EncodeCall \/ EncodeReturn \/ EncodeEnd
  \/ \E n \in 0..len, fill \in FillBytes : Receive(n, fill)
  \/ DecodeRefused \/ DecodeCount \/ DecodeRead \/ DecodeCall
  \/ DecodeReturn \/ DecodeEnd

Spec == Init /\ [][Next]_vars

-----------------------------------------------------------------------------
(* The format, without buffers: what Message, Image and Legal stand for.   *)

\* The first k of the sequences ss, one behind the other.
Concat(ss, k) ==
  LET f[i \in 0..Len(ss)] == IF i = 0 THEN << >> ELSE f[i - 1] \o ss[i]
  IN  f[k]

\* A message in another one has its length in front.
SubImage(t, m) == ToNet(Len(Image[t][m]), SizeWidth) \o Image[t][m]

\* A field is its value, a string or vector its size and its elements.
Parts(fd, v) ==
  CASE fd.kind = "simple"     -> <<ToNet(v, fd.width)>>
    [] fd.kind = "string"     -> <<ToNet(Len(v), SizeWidth), v>>
    [] fd.kind = "simple_vec" -> <<ToNet(Len(v), SizeWidth)>> \o
                                 [i \in DOMAIN v |-> ToNet(v[i], fd.width)]
    [] fd.kind = "struct"     -> <<SubImage(fd.sub, v)>>
    [] fd.kind = "struct_vec" -> <<ToNet(Len(v), SizeWidth)>> \o
                                 [i \in DOMAIN v |-> SubImage(fd.sub, v[i])]

FieldImage(fd, v) == Concat(Parts(fd, v), Len(Parts(fd, v)))
FieldImages(t, m) == [i \in DOMAIN m |-> FieldImage(Fields[t][i], m[i])]

Fits32(n) == Shifted(n, SizeWidth) = 0
SubFits(t, m) == Fits32(Len(Image[t][m])) /\ Len(Image[t][m]) <= IntMax

\* The values of a field: integers of its width, strings and vectors whose
\* sizes are uint32_t, messages whose length is an int.
IsValue(fd, v) ==
  CASE fd.kind = "simple"     -> v \in Nat /\ Shifted(v, fd.width) = 0
    [] fd.kind = "string"     -> v \in Seq(Byte) /\ Fits32(Len(v))
    [] fd.kind = "simple_vec" -> /\ v \in Seq(Nat) /\ Fits32(Len(v))
                                 /\ \A i \in DOMAIN v : Shifted(v[i], fd.width) = 0
    [] fd.kind = "struct"     -> v \in Message[fd.sub] /\ SubFits(fd.sub, v)
    [] fd.kind = "struct_vec" -> /\ v \in Seq(Message[fd.sub]) /\ Fits32(Len(v))
                                 /\ \A i \in DOMAIN v : SubFits(fd.sub, v[i])

\* No size is above its maximum.
LegalValue(fd, v) ==
  /\ fd.kind \in {"string", "simple_vec", "struct_vec"} => Len(v) <= fd.max
  /\ fd.kind = "struct" => v \in Legal[fd.sub]
  /\ fd.kind = "struct_vec" => \A i \in DOMAIN v : v[i] \in Legal[fd.sub]

ASSUME FormatAssumption ==
  \A t \in Type :
    /\ \A m \in Message[t] :
         /\ m = [i \in DOMAIN Fields[t] |-> m[i]]
         /\ \A i \in DOMAIN m : IsValue(Fields[t][i], m[i])
         /\ Image[t][m] \in Seq(Byte)
         /\ Image[t][m] = Concat(FieldImages(t, m), Len(Fields[t]))
    /\ Legal[t] = {m \in Message[t] :
                     \A i \in DOMAIN m : LegalValue(Fields[t][i], m[i])}

\* No vector of messages has two elements: of such a vector Encode writes only
\* the first one.
OneIn(fd, v) == fd.kind = "struct_vec" => Len(v) <= 1
OneElement ==
  \A t \in Type : \A m \in Message[t] :
    \A i \in DOMAIN m : OneIn(Fields[t][i], m[i])

-----------------------------------------------------------------------------
\* The frames nest: every call works on bytes of its caller's part of the
\* memory, behind what the caller has written or read, and only the
\* outermost call is left to return when the result is known.
TypeOK ==
  /\ pc \in {"encode", "encoded", "decode", "done"} /\ ok \in BOOLEAN
  /\ mem \in [0..(MemSize - 1) -> Byte]
  /\ (stack = << >>) = (pc \in {"encoded", "done"})
  /\ \A i \in 2..Len(stack) :
       stack[i].base >= stack[i - 1].base + stack[i - 1].pos

\* Encode succeeds exactly when no size exceeds its maximum and the buffer
\* has room for the whole image, and then leaves the image and its length;
\* in particular a buffer that ends inside a nested message is refused,
\* although the inner Encode may be given a negative length.
EncodeExact ==
  pc = "encoded" =>
    LET image == Image[Root][msg]
    IN  /\ ok <=> msg \in Legal[Root] /\ Len(image) <= room
        /\ ok => len = Len(image) /\ Take(0, len) = image

\* Decoding everything Encode produced succeeds and yields the message that
\* was encoded: each cc_decode template undoes its cc_encode template.
RoundTrip ==
  pc = "done" /\ rcv = len => ok /\ got = msg

\* Bytes that lost their end are refused, also where the loss is inside a
\* nested message whose Decode trusts the length in front of it.
TruncatedRefused ==
  pc = "done" /\ rcv < len => ~ok
=============================================================================
