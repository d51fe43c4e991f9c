------------------------------ MODULE ProtoGen ------------------------------
(***************************************************************************)
(* The generators of src/tools in the directory they work in: proto2bin.py *)
(* ("bin") and proto2obj4pb.py ("obj"), which are the same program but for *)
(* their templates and the key functions, and proto2conf.py ("conf").      *)
(* A developer edits the .proto file and runs them, again and again.       *)
(*                                                                         *)
(* A proto file is a record: lines, desc (the descriptor that protoc makes *)
(* of them: messages, the top-level ones; package, the parts of its name;  *)
(* deps, the imports) and valid (protoc accepts it); or NoFile.  What the  *)
(* generators see of a line:                                               *)
(*   words     the field names that occur in it, whole or inside a name    *)
(*   messages  how often "message" occurs;  name: what follows it, or ""   *)
(*   instruct  "begin" for //gen_begin, "end" for //gen_end, or ""         *)
(*   max, opt  the parts behind |gen|max|: max is "" if there is no such   *)
(*             text; opt is "keyopt", "other", or "absent"                 *)
(*   decl      what protoc takes it for: <<message>>, <<message, field>>   *)
(*             or << >> (used by the properties alone)                     *)
(* A message is [name, fields], a field [name, type, repeated, path], with *)
(* the type "message", "string", "bytes" (one of those not supported) or a *)
(* number, and path the parts of type_name.                                *)
(***************************************************************************)
EXTENDS Integers, Sequences, FiniteSets, SequencesExt

CONSTANTS
  Starts,   \* [proto, runs]: the file at the beginning, and a bound: the
            \* number of times a generator is run
  Edits,    \* versions of the file an edit may save
  Imports,  \* Imports[d]: the descriptor of the imported file d
  NoFile, NoDesc

VARIABLES
  proto,         \* the .proto file
  pb2,           \* ..._pb2.py of the file and of its imports, or NoDesc
  out,           \* out["bin"], out["obj"]: the header and the cpp file
  conf,          \* the .pb.txt file, and the descriptor and root it is of
  tool, pc,      \* the process that runs, and its step ("idle": none)
  root,          \* root_conf of proto2conf
  reader,        \* the locals of read_proto
  g_all_proto,   \* descriptors by import; the first is the file's own
  gen,           \* the locals of gen_code
  fresh, result, \* history: did protoc accept the file in this run, and how
                 \* did the run end ("" while it runs and after an edit;
                 \* "ioerror" where a file could not be opened or written)
  runs           \* bound: runs left

files == <<proto, pb2, out, conf>>
vars == <<files, tool, pc, root, reader, g_all_proto, gen, fresh, result, runs>>

g_proto_ns == "Proto"
Own == "own"

Absent == [kind |-> "absent", classes |-> << >>]
Empty == [kind |-> "empty", classes |-> << >>]
Full(c) == [kind |-> "full", classes |-> c]

\* Some of the bytes, none of them perhaps: the disk was full.
Part == [kind |-> "part", classes |-> << >>]

NoConf == [kind |-> "absent", text |-> << >>, desc |-> NoDesc, root |-> ""]

ReaderInit ==
  [no |-> 0, begin |-> FALSE, end |-> FALSE, instructs |-> 0,
   dict |-> << >>, last |-> ""]

\* h, cc: the finished classes; fields, opt, code: the current one.
GenInit ==
  [m |-> 1, f |-> 1, h |-> << >>, cc |-> << >>,
   fields |-> << >>, opt |-> << >>, code |-> << >>]

Init ==
  /\ \E s \in Starts : proto = s.proto /\ runs = s.runs
  /\ pb2 = [d \in {Own} \cup DOMAIN Imports |-> NoDesc]
  /\ out = [t \in {"bin", "obj"} |-> [h |-> Absent, cpp |-> Absent]]
  /\ conf = NoConf
  /\ tool = "" /\ pc = "idle" /\ root = ""
  /\ reader = ReaderInit /\ g_all_proto = << >> /\ gen = GenInit
  /\ fresh = FALSE /\ result = ""

\* The process ends.
End(r) == pc' = "idle" /\ result' = r

\* The developer saves another version.
Edit ==
  /\ pc = "idle" /\ result # "" /\ runs > 0
  /\ proto' \in Edits \ {proto} /\ result' = ""
  /\ UNCHANGED <<pb2, out, conf, tool, pc, root, reader, g_all_proto, gen,
                 fresh, runs>>

-----------------------------------------------------------------------------
(* handle_proto, up to the call of read_proto *)

Begin(t) ==
  /\ pc = "idle" /\ runs > 0 /\ runs' = runs - 1
  /\ tool' = t /\ fresh' = FALSE
  /\ reader' = ReaderInit /\ g_all_proto' = << >> /\ gen' = GenInit

HandleBin ==
  /\ Begin("bin")
  /\ IF proto = NoFile THEN End("return") ELSE pc' = "read" /\ result' = ""
  /\ UNCHANGED <<files, root>>

HandleObj ==
  /\ Begin("obj")
  /\ IF proto = NoFile THEN End("return") ELSE pc' = "read" /\ result' = ""
  /\ UNCHANGED <<files, root>>

-----------------------------------------------------------------------------
(* read_proto *)

\* The instructions: the lines from //gen_begin to the one before //gen_end.
GenInstruct(r, l) ==
  CASE r.end -> r
    [] ~r.end /\ ~r.begin /\ l.instruct = "begin" ->
         [r EXCEPT !.begin = TRUE, !.instructs = @ + 1]
    [] ~r.end /\ r.begin /\ l.instruct = "end" -> [r EXCEPT !.end = TRUE]
    [] ~r.end /\ r.begin /\ l.instruct # "end" -> [r EXCEPT !.instructs = @ + 1]
    [] OTHER -> r

\* Mutant of StructDict: lines are counted from 0.
StructDictZero(r, l, n) ==
  LET d == [m \in DOMAIN r.dict \cup {l.name} |->
              IF m = l.name THEN <<n - 1>> ELSE r.dict[m]]
  IN  IF l.messages = 0 THEN r
      ELSE [r EXCEPT !.last = l.name,
                     !.dict = IF r.last = "" THEN d
                              ELSE [d EXCEPT ![r.last] = Append(@, n - 1)]]

\* "message" on line n: its name gets a new range, and the message before it
\* ends (which appends to the new range if it has the same name).
StructDict(r, l, n) ==
  LET d == [m \in DOMAIN r.dict \cup {l.name} |->
              IF m = l.name THEN <<n>> ELSE r.dict[m]]
  IN  IF l.messages = 0 THEN r
      ELSE [r EXCEPT !.last = l.name,
                     !.dict = IF r.last = "" THEN d
                              ELSE [d EXCEPT ![r.last] = Append(@, n - 1)]]

\* Two definitions on a line, or no name: None, which handle_proto unpacks.
BadLine(l) == l.messages > 1 \/ (l.messages = 1 /\ l.name = "")

ReadLine ==
  /\ pc = "read" /\ reader.no < Len(proto.lines)
  /\ LET n == reader.no + 1
         l == proto.lines[n]
     IN  IF BadLine(l) THEN End("raise") /\ UNCHANGED reader
         ELSE /\ reader' = StructDict([GenInstruct(reader, l) EXCEPT !.no = n], l, n)
              /\ UNCHANGED <<pc, result>>
  /\ UNCHANGED <<files, tool, root, g_all_proto, gen, fresh, runs>>

\* struct_dict[last_msg_name] raises if there was no message.
ReadEnd ==
  /\ pc = "read" /\ reader.no = Len(proto.lines)
  /\ IF reader.last = "" THEN End("raise") /\ UNCHANGED reader
     ELSE /\ reader' = [reader EXCEPT !.dict[reader.last] = Append(@, reader.no)]
          /\ pc' = "protoc" /\ UNCHANGED result
  /\ UNCHANGED <<files, tool, root, g_all_proto, gen, fresh, runs>>

-----------------------------------------------------------------------------
(* get_protodesc and the rest of handle_proto *)

\* protoc on a file, which may fail to run; its exit status is not looked at,
\* and what is in the ..._pb2.py file afterwards is read.
Protoc(d, desc, ok) ==
  /\ pb2' = IF ok THEN [pb2 EXCEPT ![d] = desc] ELSE pb2
  /\ g_all_proto' = Append(g_all_proto, pb2'[d])

GetProtodesc ==
  /\ pc = "protoc"
  /\ \E ok \in BOOLEAN : /\ ok => proto # NoFile /\ proto.valid
                         /\ Protoc(Own, proto.desc, ok) /\ fresh' = ok
  /\ IF pb2'[Own] = NoDesc THEN End("raise")
     ELSE /\ pc' = IF tool = "conf" THEN "conf"
                   ELSE IF pb2'[Own].deps = << >> THEN "open" ELSE "deps"
          /\ UNCHANGED result
  /\ UNCHANGED <<proto, out, conf, tool, root, reader, gen, runs>>

GetDependency ==
  /\ pc = "deps"
  /\ LET i == Len(g_all_proto)
         deps == g_all_proto[1].deps
         d == deps[i]
     IN  /\ \E ok \in BOOLEAN : Protoc(d, Imports[d], ok)
         /\ IF pb2'[d] = NoDesc THEN End("raise")
            ELSE /\ pc' = IF i = Len(deps) THEN "open" ELSE "deps"
                 /\ UNCHANGED result
  /\ UNCHANGED <<proto, out, conf, tool, root, reader, gen, fresh, runs>>

-----------------------------------------------------------------------------
(* gen_code *)

desc == g_all_proto[1]
message_type == desc.messages
BadPackage == Len(desc.package) < 2 \/ desc.package[1] # g_proto_ns

\* open(file, 'w') raises and leaves the file as it was, or empties it.
CannotOpen == out' = out /\ End("ioerror")

OpenHeader ==
  /\ pc = "open"
  /\ \/ CannotOpen
     \/ out' = [out EXCEPT ![tool].h = Empty] /\ pc' = "opencpp" /\ UNCHANGED result
  /\ UNCHANGED <<proto, pb2, conf, tool, root, reader, g_all_proto, gen, fresh, runs>>

\* The way into the loop, or out of gen_code.
CheckInstruct ==
  IF reader.instructs < 2 \/ BadPackage
  THEN End("return") ELSE pc' = "gen" /\ UNCHANGED result

\* Mutant of OpenCpp: the cpp file is opened when it is written.
OpenCppLate ==
  /\ pc = "opencpp"
  /\ CheckInstruct /\ UNCHANGED out
  /\ UNCHANGED <<proto, pb2, conf, tool, root, reader, g_all_proto, gen, fresh, runs>>

\* Both files are emptied before anything is checked.
OpenCpp ==
  /\ pc = "opencpp"
  /\ \/ CannotOpen
     \/ out' = [out EXCEPT ![tool].cpp = Empty] /\ CheckInstruct
  /\ UNCHANGED <<proto, pb2, conf, tool, root, reader, g_all_proto, gen, fresh, runs>>

\* << >> is the empty string: the type is not supported.
prototype2ctype(f) ==
  CASE f.type = "message" -> SelectSeq(f.path, LAMBDA n : n # "" /\ n # g_proto_ns)
    [] f.type \in {"double", "uint64", "int64", "int32", "bool", "string", "uint32"} ->
         <<f.type>>
    [] OTHER -> << >>

Raises == [ok |-> FALSE, max |-> "", keyopt |-> FALSE]

\* Mutant of find_field_opt: a line too many is skipped at the end.
find_field_opt_short(class, field) ==
  LET range == reader.dict[class]
      found == {n \in range[1]..(range[2] - 2) : field \in proto.lines[n].words}
      l == proto.lines[CHOOSE n \in found : \A k \in found : n <= k]
  IN  IF \/ class \notin DOMAIN reader.dict
         \/ found = {} \/ l.max = "" \/ l.opt = "absent" THEN Raises
      ELSE [ok |-> TRUE, max |-> l.max, keyopt |-> l.opt = "keyopt"]

\* The first line of the message with the field's name in it, but for the
\* last line.  No such line, or nothing behind |gen|max|, is None, which
\* gen_code unpacks.
find_field_opt(class, field) ==
  LET range == reader.dict[class]
      found == {n \in range[1]..(range[2] - 1) : field \in proto.lines[n].words}
      l == proto.lines[CHOOSE n \in found : \A k \in found : n <= k]
  IN  IF \/ class \notin DOMAIN reader.dict
         \/ found = {} \/ l.max = "" \/ l.opt = "absent" THEN Raises
      ELSE [ok |-> TRUE, max |-> l.max, keyopt |-> l.opt = "keyopt"]

\* The first field of the first message with the type's simple name: none if
\* there is no such message (a nested or a simple type) or it has no field.
find_key_info(ctype) ==
  LET all == SelectSeq(FlattenSeq([i \in DOMAIN g_all_proto |-> g_all_proto[i].messages]),
                       LAMBDA m : m.name = Last(ctype))
  IN  IF all = << >> THEN << >>
      ELSE IF Head(all).fields = << >> THEN << >> ELSE <<Head(Head(all).fields)>>

\* Which templates a field takes.
Template(f) ==
  CASE f.repeated /\ f.type = "message" -> "struct_vec"
    [] f.repeated /\ f.type # "message" -> "simple_vec"
    [] ~f.repeated /\ f.type = "message" -> "struct"
    [] ~f.repeated /\ f.type = "string" -> "string"
    [] OTHER -> "simple"

NeedsMax(f) == f.repeated \/ f.type = "string"

\* What the loop makes of a field: "return", "raise" or "ok".
FieldOutcome(class, f) ==
  CASE prototype2ctype(f) = << >> -> "return"
    [] prototype2ctype(f) # << >> /\ NeedsMax(f)
       /\ ~find_field_opt(class, f.name).ok -> "raise"
    [] prototype2ctype(f) # << >> /\ f.repeated /\ f.type = "string"
       /\ find_field_opt(class, f.name).ok -> "return"
    [] OTHER -> "ok"

class_name == message_type[gen.m].name
field == message_type[gen.m].fields[gen.f]
AtField == pc = "gen" /\ gen.m \in DOMAIN message_type /\ gen.f \in DOMAIN message_type[gen.m].fields

\* The declaration, and what encodes and decodes the field.
WithField(g, class, f) ==
  [g EXCEPT !.f = @ + 1,
            !.fields = Append(@, [name |-> f.name, tmpl |-> Template(f),
                                  type |-> prototype2ctype(f),
                                  max |-> IF NeedsMax(f)
                                          THEN find_field_opt(class, f.name).max
                                          ELSE "1"]),
            !.code = Append(@, <<f.name, Template(f)>>)]

GenFieldBin ==
  /\ AtField /\ tool = "bin"
  /\ IF FieldOutcome(class_name, field) # "ok"
     THEN End(FieldOutcome(class_name, field)) /\ UNCHANGED gen
     ELSE gen' = WithField(gen, class_name, field) /\ UNCHANGED <<pc, result>>
  /\ UNCHANGED <<files, tool, root, reader, g_all_proto, fresh, runs>>

\* A repeated field has functions to add, find and delete, with keyopt by key
\* too; nothing checks that the key was found.
GenFieldObj ==
  /\ AtField /\ tool = "obj"
  /\ LET keyed == field.repeated /\ find_field_opt(class_name, field.name).keyopt
         key == find_key_info(prototype2ctype(field))
     IN  IF FieldOutcome(class_name, field) # "ok"
         THEN End(FieldOutcome(class_name, field)) /\ UNCHANGED gen
         ELSE IF keyed /\ key = << >> THEN End("raise") /\ UNCHANGED gen
         ELSE /\ gen' = [WithField(gen, class_name, field) EXCEPT
                           !.opt = IF ~field.repeated THEN @
                                   ELSE Append(@, <<field.name,
                                          IF keyed THEN <<key[1].name, prototype2ctype(key[1])>>
                                          ELSE << >>>>)]
              /\ UNCHANGED <<pc, result>>
  /\ UNCHANGED <<files, tool, root, reader, g_all_proto, fresh, runs>>

GenMessage ==
  /\ pc = "gen" /\ gen.m \in DOMAIN message_type /\ gen.f \notin DOMAIN message_type[gen.m].fields
  /\ gen' = [GenInit EXCEPT
               !.m = gen.m + 1,
               !.h = Append(gen.h, [class |-> class_name, fields |-> gen.fields]),
               !.cc = Append(gen.cc, [class |-> class_name, opt |-> gen.opt,
                                      code |-> gen.code])]
  /\ UNCHANGED <<files, tool, pc, root, reader, g_all_proto, fresh, result, runs>>

\* What does not fit on the disk raises, or is lost when the file is closed,
\* which nobody is told of.
WriteHeader ==
  /\ pc = "gen" /\ gen.m \notin DOMAIN message_type
  /\ \/ /\ \E w \in {Full(gen.h), Part} : out' = [out EXCEPT ![tool].h = w]
        /\ pc' = "write" /\ UNCHANGED result
     \/ out' = [out EXCEPT ![tool].h = Part] /\ End("ioerror")
  /\ UNCHANGED <<proto, pb2, conf, tool, root, reader, g_all_proto, gen, fresh, runs>>

WriteCpp ==
  /\ pc = "write"
  /\ \/ \E w \in {Full(gen.cc), Part} : out' = [out EXCEPT ![tool].cpp = w] /\ End("done")
     \/ out' = [out EXCEPT ![tool].cpp = Part] /\ End("ioerror")
  /\ UNCHANGED <<proto, pb2, conf, tool, root, reader, g_all_proto, gen, fresh, runs>>

-----------------------------------------------------------------------------
(* proto2conf.py *)

HandleConf(r) ==
  /\ Begin("conf")
  /\ root' = r /\ pc' = "protoc" /\ result' = ""
  /\ UNCHANGED files

Names(d) == {d[i].name : i \in DOMAIN d}

\* g_all_msg: the last of two messages with a name.
g_all_msg(d, n) == d[SelectLastInSeq(d, LAMBDA m : m.name = n)]

\* A raise (an unknown type, or a type that contains itself) in the text.
Raise == <<"raise">>

\* Mutant of gen_single_code: a message without fields has no closing brace.
gen_single_code_open(f, inner) ==
  CASE f.type = "message" ->
         <<<<"begin", f.name>>>> \o inner \o (IF inner = << >> THEN << >> ELSE <<<<"end">>>>)
    [] f.type = "string" -> <<<<"string", f.name>>>>
    [] OTHER -> <<<<"single", f.name>>>>

\* One field, given the text of its message's fields.
gen_single_code(f, inner) ==
  CASE f.type = "message" -> <<<<"begin", f.name>>>> \o inner \o <<<<"end">>>>
    [] f.type = "string" -> <<<<"string", f.name>>>>
    [] OTHER -> <<<<"single", f.name>>>>

\* gen_code(g_all_msg[n]); no chain of types without repetition is longer
\* than the number of messages.  A repeated field is written twice.
gen_code(d, n) ==
  LET code[k \in 0..Len(d)] ==
        [m \in Names(d) |->
           IF k = 0 THEN <<Raise>>
           ELSE LET fs == g_all_msg(d, m).fields
                    inner(f) == IF f.type # "message" THEN << >>
                                ELSE IF Last(f.path) \in Names(d)
                                THEN code[k - 1][Last(f.path)] ELSE <<Raise>>
                    one(f) == gen_single_code(f, inner(f))
                IN  FlattenSeq([i \in DOMAIN fs |->
                      one(fs[i]) \o (IF fs[i].repeated THEN one(fs[i]) ELSE << >>)])]
  IN  code[Len(d)][n]

output == gen_code(message_type, root)

\* The file is opened once the text is complete.
OpenConf ==
  /\ pc = "conf"
  /\ IF root \notin Names(message_type) \/ Contains(output, Raise)
     THEN End("raise") /\ UNCHANGED conf
     ELSE \/ End("ioerror") /\ UNCHANGED conf
          \/ /\ conf' = [NoConf EXCEPT !.kind = "empty"]
             /\ pc' = "writeconf" /\ UNCHANGED result
  /\ UNCHANGED <<proto, pb2, out, tool, root, reader, g_all_proto, gen, fresh, runs>>

WriteConf ==
  /\ pc = "writeconf"
  /\ \/ /\ conf' = [kind |-> "full", text |-> output, desc |-> desc, root |-> root]
        /\ End("done")
     \/ /\ conf' = [NoConf EXCEPT !.kind = "part"]
        /\ \E r \in {"done", "ioerror"} : End(r)
  /\ UNCHANGED <<proto, pb2, out, tool, root, reader, g_all_proto, gen, fresh, runs>>

-----------------------------------------------------------------------------
MsgNames == UNION {Names(s.proto.desc.messages) : s \in {s \in Starts : s.proto # NoFile}}

Next ==
  \/ Edit
  \/ HandleBin \/ HandleObj \/ \E r \in MsgNames : HandleConf(r)
  \/ ReadLine \/ ReadEnd \/ GetProtodesc \/ GetDependency
  \/ OpenHeader \/ OpenCpp \/ GenFieldBin \/ GenFieldObj \/ GenMessage
  \/ WriteHeader \/ WriteCpp
  \/ OpenConf \/ WriteConf

Spec == Init /\ [][Next]_vars

-----------------------------------------------------------------------------
(***************************************************************************)
(* Properties                                                              *)
(***************************************************************************)

\* The variables have their types; the reader is within the file, and the
\* range of every message it met begins at a line it has read.
TypeOK ==
  /\ pc \in {"idle", "read", "protoc", "deps", "open", "opencpp", "gen", "write",
             "conf", "writeconf"}
  /\ tool \in {"", "bin", "obj", "conf"}
  /\ result \in {"", "return", "raise", "ioerror", "done"}
  /\ \A t \in DOMAIN out : /\ out[t].h.kind \in {"absent", "empty", "part", "full"}
                           /\ out[t].cpp.kind \in {"absent", "empty", "part", "full"}
  /\ \A m \in DOMAIN reader.dict :
       reader.dict[m] # << >> /\ reader.dict[m][1] \in 1..reader.no
  /\ NoDesc \in ToSet(g_all_proto) => pc = "idle"

\* The names of the repeated fields of a class, in their order.
VecNames(fields) ==
  LET names[i \in 0..Len(fields)] ==
        IF i = 0 THEN << >>
        ELSE IF fields[i].tmpl \in {"struct_vec", "simple_vec"}
             THEN Append(names[i - 1], fields[i].name) ELSE names[i - 1]
  IN  names[Len(fields)]

\* A declaration of a class and its functions: the encoding and decoding of
\* the declared fields in their order, and the functions of the repeated ones.
SameClass(t, x, y) ==
  /\ x.class = y.class
  /\ y.code = [k \in DOMAIN x.fields |-> <<x.fields[k].name, x.fields[k].tmpl>>]
  /\ t = "obj" => [k \in DOMAIN y.opt |-> y.opt[k][1]] = VecNames(x.fields)

\* A whole header and a whole cpp file are always of one run: the same
\* classes in the same order, each with a declaration, an encoding and a
\* decoding of every field and the functions of exactly its repeated fields.
\* Whichever run failed at whichever of its steps, before, between or after
\* the two are opened or written, the header of one version of the .proto
\* file never stands beside the functions of another one: at least one of
\* the two files is missing, empty or cut off then.
OutputsTogether ==
  \A t \in DOMAIN out :
    LET h == out[t].h
        c == out[t].cpp
    IN  h.kind = "full" /\ c.kind = "full" =>
          /\ DOMAIN h.classes = DOMAIN c.classes
          /\ \A i \in DOMAIN h.classes : SameClass(t, h.classes[i], c.classes[i])

\* Where a message or a field is declared.
DeclLine(p, d) == CHOOSE n \in DOMAIN p.lines : p.lines[n].decl = d

\* All messages a file can use, with the full name of each.
Known(p) ==
  LET of(d) == {[path |-> <<"">> \o d.package \o <<d.messages[i].name>>, msg |-> d.messages[i]]
                  : i \in DOMAIN d.messages}
  IN  of(p.desc) \cup UNION {of(Imports[p.desc.deps[i]]) : i \in DOMAIN p.desc.deps}

\* A file written in the style the generators can read: the word "message" on
\* the declarations alone, no nested messages, a field's name nowhere in its
\* message above its own line, the closing brace on a line of its own, and no
\* two messages with one simple name.
Clear(p) ==
  /\ p.desc.messages # << >>
  /\ \A n \in DOMAIN p.lines :
       LET l == p.lines[n]
       IN  IF Len(l.decl) = 1
           THEN l.messages = 1 /\ l.name = l.decl[1] /\ l.name \in Names(p.desc.messages)
           ELSE l.messages = 0
  /\ \A i \in DOMAIN p.desc.messages : \A k \in DOMAIN p.desc.messages[i].fields :
       LET m == p.desc.messages[i]
           n == DeclLine(p, <<m.name, m.fields[k].name>>)
       IN  /\ \A j \in DeclLine(p, <<m.name>>)..(n - 1) :
                m.fields[k].name \notin p.lines[j].words
           /\ n < Len(p.lines) /\ Len(p.lines[n + 1].decl) # 1
  /\ \A x, y \in Known(p) : x.msg.name = y.msg.name => x = y

\* What such a file must say for a generator to accept it.
Acceptable(p, t) ==
  LET begins == {n \in DOMAIN p.lines : p.lines[n].instruct = "begin"}
      first == CHOOSE n \in begins : \A k \in begins : n <= k
      inside == {n \in DOMAIN p.lines : n >= first
                   /\ \A k \in first..n : p.lines[k].instruct # "end"}
  IN  /\ begins # {} /\ Cardinality(inside) >= 2
      /\ Len(p.desc.package) >= 2 /\ p.desc.package[1] = "Proto"
      /\ \A i \in DOMAIN p.desc.messages : \A k \in DOMAIN p.desc.messages[i].fields :
           LET f == p.desc.messages[i].fields[k]
               l == p.lines[DeclLine(p, <<p.desc.messages[i].name, f.name>>)]
           IN  /\ f.type # "bytes" /\ ~(f.repeated /\ f.type = "string")
               /\ f.repeated \/ f.type = "string" => l.max # "" /\ l.opt # "absent"
               /\ t = "obj" /\ f.repeated /\ l.opt = "keyopt" =>
                    \E x \in Known(p) : x.path = f.path /\ x.msg.fields # << >>

\* A file in this style is accepted exactly if it says all that is needed,
\* and then every field has the maximum that stands on its own line and every
\* keyed field the first field of its element's type for a key, in whichever
\* runs and versions went before; a file that is not accepted leaves the
\* outputs empty.  (If the files could be opened and written.)
GeneratedAsAnnotated ==
  pc = "idle" /\ result \notin {"", "ioerror"} /\ fresh /\ tool \in {"bin", "obj"}
  /\ out[tool].h.kind # "part" /\ out[tool].cpp.kind # "part"
  /\ g_all_proto[1] = proto.desc
  /\ Len(g_all_proto) = Len(proto.desc.deps) + 1 /\ NoDesc \notin ToSet(g_all_proto)
  /\ Clear(proto) =>
    LET ms == proto.desc.messages
        line(m, f) == proto.lines[DeclLine(proto, <<m.name, f.name>>)]
    IN  IF ~Acceptable(proto, tool) THEN out[tool].h = Empty
        ELSE /\ out[tool].h.kind = "full" /\ Len(out[tool].h.classes) = Len(ms)
             /\ \A i \in DOMAIN ms :
                  LET c == out[tool].h.classes[i]
                      keyed == {k \in DOMAIN ms[i].fields : ms[i].fields[k].repeated
                                  /\ line(ms[i], ms[i].fields[k]).opt = "keyopt"}
                  IN  /\ c.class = ms[i].name /\ Len(c.fields) = Len(ms[i].fields)
                      /\ \A k \in DOMAIN c.fields :
                           LET f == ms[i].fields[k]
                           IN  /\ c.fields[k].name = f.name
                               /\ c.fields[k].max = IF f.repeated \/ f.type = "string"
                                                    THEN line(ms[i], f).max ELSE "1"
                      /\ tool = "obj" => \A k \in keyed :
                           \E o \in ToSet(out[tool].cpp.classes[i].opt), x \in Known(proto) :
                             /\ o[1] = ms[i].fields[k].name
                             /\ x.path = ms[i].fields[k].path
                             /\ o[2][1] = x.msg.fields[1].name

\* The value of a field of some type in the protobuf text format: a message
\* in braces, a quoted text, or a bare one.
Value(type) ==
  CASE type = "message" -> "begin"
    [] type \in {"string", "bytes"} -> "string"
    [] OTHER -> "single"

\* A text as the protobuf text format reads it, against the descriptor: a
\* stack of messages, each with the fields it already has; or << >>, if it is
\* refused.  A type is found by its full name, and a message is complete
\* only with all of its fields.
Parse(text, d, r) ==
  LET package == <<"">> \o d.package
      named(path) == SelectSeq(d.messages, LAMBDA m : Append(package, m.name) = path)
      start(path) == [fields |-> Head(named(path)).fields, seen |-> {}]
      all(top) == top.seen = {f.name : f \in ToSet(top.fields)}
      step(st, item) ==
        LET top == Last(st)
            fs == SelectSeq(top.fields, LAMBDA f : f.name = item[2])
            seen == Append(Front(st), [top EXCEPT !.seen = @ \cup {item[2]}])
        IN  CASE st = << >> -> << >>
              [] st # << >> /\ item = <<"end">> -> IF all(top) THEN Front(st) ELSE << >>
              [] st # << >> /\ item # <<"end">> ->
                   IF fs = << >> THEN << >>
                   ELSE IF \/ Value(fs[1].type) # item[1]
                           \/ item[2] \in top.seen /\ ~fs[1].repeated THEN << >>
                   ELSE IF item[1] # "begin" THEN seen
                   ELSE IF named(fs[1].path) = << >> THEN << >>
                   ELSE Append(seen, start(fs[1].path))
      end == FoldLeft(step, <<start(Append(package, r))>>, text)
  IN  Len(end) = 1 /\ all(end[1])

\* What proto2conf says it supports (proto2conf.py:11-18): no import, and no
\* field of type bytes, for which it writes a 0 that no reader accepts.
SupportedConf(d) ==
  /\ d.deps = << >>
  /\ \A i \in DOMAIN d.messages : \A k \in DOMAIN d.messages[i].fields :
       d.messages[i].fields[k].type # "bytes"

\* A configuration file that has been written whole, from a .proto file that
\* keeps to what is supported, is read by the protobuf text format as one
\* complete message of the root type, however deep the types nest and
\* whichever runs failed before: known fields, values of their kind, a
\* singular field once, every field present, balanced braces.
ConfParses ==
  conf.kind = "full" /\ SupportedConf(conf.desc) => Parse(conf.text, conf.desc, conf.root)
=============================================================================
