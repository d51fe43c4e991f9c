----------------------------- MODULE MCProtoGen -----------------------------
(* Files with two messages A and B: all combinations of two fields of A, in  *)
(* both orders, of what B holds, of comments and layout, run once; and a few *)
(* versions of a file between which the developer goes back and forth.       *)
EXTENDS ProtoGen, TLC

CONSTANTS noFile, noDesc

Text == [words |-> {}, messages |-> 0, name |-> "", instruct |-> "", max |-> "",
         opt |-> "absent", decl |-> << >>]

Message(m) == [Text EXCEPT !.messages = 1, !.name = m, !.decl = <<m>>]
Instruct(i) == [Text EXCEPT !.instruct = i]
Close == Text

\* A field of message m: "a" occurs in "ab".
Path(r) == IF r = "" THEN << >> ELSE IF r = "C" THEN <<"", "Proto", "other", "C">>
           ELSE <<"", "Proto", "ns", r>>
F(n, t, rep, r, max, opt) ==
  [f |-> [name |-> n, type |-> t, repeated |-> rep, path |-> Path(r)], max |-> max, opt |-> opt]
Line(m, x) ==
  [Text EXCEPT !.words = IF x.f.name = "ab" THEN {"a", "ab"} ELSE {x.f.name},
               !.max = x.max, !.opt = x.opt, !.decl = <<m, x.f.name>>]

First == {F("ab", "int32", FALSE, "", "", "absent"), F("ab", "int32", TRUE, "", "5", "other"),
          F("ab", "string", FALSE, "", "9", "other"), F("ab", "message", TRUE, "B", "2", "keyopt")}
Second == {F("a", "string", FALSE, "", "7", "other"), F("a", "string", FALSE, "", "", "absent"),
           F("a", "message", TRUE, "B", "3", "keyopt"), F("a", "int32", TRUE, "", "4", "keyopt"),
           F("a", "string", TRUE, "", "4", "other"), F("a", "bytes", FALSE, "", "", "absent"),
           F("a", "message", FALSE, "B", "", "absent"), F("a", "message", TRUE, "C", "6", "keyopt"),
           F("a", "int32", TRUE, "", "4", "absent")}
InB == {<< >>, <<F("k", "int32", FALSE, "", "", "absent")>>,
        <<F("k", "message", FALSE, "A", "", "absent")>>}

Comments == {<< >>, <<[Text EXCEPT !.messages = 1, !.name = "A"]>>,
             <<[Text EXCEPT !.messages = 1]>>, <<[Text EXCEPT !.messages = 2, !.name = "A"]>>,
             <<[Text EXCEPT !.words = {"a"}]>>}

MCImports == [c \in {"other"} |-> [messages |-> <<[name |-> "C", fields |->
                <<F("c", "int32", FALSE, "", "", "absent").f>>]>>,
                package |-> <<"Proto", "other">>, deps |-> << >>]]

File(pre, a, own, comment, b, package) ==
  [lines |-> pre \o <<Message("A")>> \o comment \o [i \in DOMAIN a |-> Line("A", a[i])]
             \o (IF own THEN <<Close>> ELSE << >>)
             \o <<Message("B")>> \o [i \in DOMAIN b |-> Line("B", b[i])] \o <<Close>>,
   desc |-> [messages |-> <<[name |-> "A", fields |-> [i \in DOMAIN a |-> a[i].f]],
                            [name |-> "B", fields |-> [i \in DOMAIN b |-> b[i].f]]>>,
             package |-> package,
             deps |-> IF \E i \in DOMAIN a : a[i].f.path = Path("C") THEN <<"other">> ELSE << >>],
   valid |-> TRUE]

Good == <<Instruct("begin"), Text, Instruct("end")>>
Ns == <<"Proto", "ns">>

Wide ==
  {File(Good, a, own, c, b, Ns) :
     a \in UNION {{<<x, y>>, <<y, x>>} : x \in First, y \in Second},
     own \in BOOLEAN, c \in Comments, b \in InB}

Key == F("k", "int32", FALSE, "", "", "absent")
Keyed == F("a", "message", TRUE, "B", "3", "keyopt")
KeyedIn(p) == [Keyed EXCEPT !.f.path = <<"">> \o p \o <<"B">>]
Odd ==
  {File(pre, <<KeyedIn(p)>>, TRUE, << >>, <<Key>>, p) :
     pre \in {<< >>, <<Instruct("begin"), Instruct("end")>>, <<Instruct("begin"), Text>>,
              <<Instruct("end")>> \o Good, Good \o <<Instruct("begin")>>},
     p \in {Ns, <<"Proto">>, <<"Other", "ns">>}}
  \cup {noFile, [lines |-> <<Text>>, desc |-> [messages |-> << >>, package |-> Ns, deps |-> << >>],
                 valid |-> TRUE]}

MCEdits ==
  {File(Good, <<Keyed>>, TRUE, << >>, <<Key>>, Ns),
   [File(Good, <<F("a", "string", FALSE, "", "8", "other"), Key>>, TRUE, << >>, << >>, Ns)
      EXCEPT !.valid = FALSE],
   File(Good, <<F("a", "message", TRUE, "C", "6", "keyopt")>>, TRUE, << >>, <<Key>>, Ns),
   File(<< >>, <<F("a", "message", FALSE, "B", "", "absent")>>, TRUE, << >>, <<Key>>, Ns)}

MCStarts ==
  {[proto |-> p, runs |-> 1] : p \in Wide}
  \cup {[proto |-> p, runs |-> 2] : p \in Odd}
  \cup {[proto |-> p, runs |-> 3] : p \in MCEdits}
=============================================================================
