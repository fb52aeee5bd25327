------------------------------ MODULE MCClasses ------------------------------
(* Two arrays of up to three objects or values, or one string of up to four *)
(* characters; the capacities grow in steps small enough to be taken.  Or a *)
(* Json of up to two parts, read from texts that have every kind of token,  *)
(* comments, escapes, nesting and keys that come twice.  Or a file of up to *)
(* three bytes, written two at a time: a write fails in the middle,         *)
(* overwrites, and leaves a gap.                                            *)
EXTENDS Classes

Interchangeable == Permutations(Objects) \cup Permutations(Octets)

-----------------------------------------------------------------------------
(* Texts and what they mean.  No json: the text is refused.                 *)
Refused == [J!Fresh EXCEPT !.type = "Refused"]
Doc(chars, json) == [text |-> chars, json |-> json]
Value(chars, type, string) == Doc(chars, [J!Fresh EXCEPT !.type = type, !.string = string])

A1 == <<97>>
B1 == <<98>>
One == <<49>>
True == <<116, 114, 117, 101>>
Enclosed(open, inside, close) == <<open>> \o inside \o <<close>>
Quoted(str) == Enclosed(J!Quote, str, J!Quote)
Object(inside) == Enclosed(J!OpenObject, inside, J!CloseObject)
List(inside) == Enclosed(J!OpenArray, inside, J!CloseArray)
And(first, second) == first \o <<J!Comma, J!Space>> \o second
Comment == <<J!Hash>> \o A1 \o <<J!NewLine>>

\* "\u0041"
Numbered == <<J!Backslash, 117, 48, 48, 52, 49>>

ArrayOf(items) == [J!Fresh EXCEPT !.type = "Array", !.array = items]
ObjectOf(pairs) == [J!Fresh EXCEPT !.type = "Object", !.properties = pairs]
Pair(key, json) == [key |-> key, json |-> json]

JustA == Value(A1, "String", A1)
Number == Value(One, "Number", One)
Short == {Number, Value(True, "Boolean", True), Doc(Object(<<>>), ObjectOf(<<>>)),
         Doc(Object(B1 \o <<J!Colon>> \o One), ObjectOf(<<Pair(B1, Number.json)>>)),
         Doc(List(And(A1, List(<<>>))), ArrayOf(<<JustA.json, ArrayOf(<<>>)>>))}

SomeValues == Short \cup
    {JustA, Value(A1 \o <<J!Space>> \o B1, "String", A1 \o <<J!Space>> \o B1),
     Value(<<101>>, "Number", <<101>>), Value(True \o One, "String", True \o One),
     Value(<<110, 117, 108, 108>>, "Null", <<>>),
     Value(Quoted(<<J!Backslash, J!Quote, J!Backslash, J!Backslash>>), "String", <<J!Quote, J!Backslash>>),
     Value(Quoted(<<J!Backslash, 110>>), "String", <<J!NewLine>>),
     Value(Comment \o A1, "String", A1), Value(A1 \o Comment, "String", A1),
     Doc(Quoted(Numbered), Refused), Doc(<<>>, Refused), Doc(Quoted(A1) \o B1, Refused)}

SomeKeys == {JustA, Value(Quoted(B1), "String", B1), Value(Quoted(<<>>), "String", <<>>),
             Value(A1 \o <<J!Colon, J!Colon, J!Space>> \o B1, "String", A1 \o <<J!Colon, J!Colon, J!Space>> \o B1)}

Of(json, values) == IF \E v \in values : v.json = Refused THEN Refused ELSE json

\* What becomes of a member that comes twice; the objects of Short have one key at most.
Merged(v, w) ==
    CASE v.type = "Array" /\ w.type = "Array"   -> ArrayOf(v.array \o w.array)
      [] v.type = "Object" /\ w.type = "Object" -> IF w.properties = <<>> THEN v ELSE w
      [] OTHER -> w

Member(key, v) == key.text \o <<J!Space, J!Colon, J!NewLine>> \o v.text

MCDocuments ==
    {Doc(Object(Member(k, v)), Of(ObjectOf(<<Pair(k.json.string, v.json)>>), {v}))
        : k \in SomeKeys, v \in SomeValues}
    \cup {Doc(List(v.text), IF v.text = <<>> THEN ArrayOf(<<>>) ELSE Of(ArrayOf(<<v.json>>), {v}))
        : v \in SomeValues}
    \cup {Doc(List(And(v.text, w.text)), Of(ArrayOf(<<v.json, w.json>>), {v, w}))
        : v \in Short, w \in SomeValues}
    \cup {Doc(Object(And(Member(JustA, v), Member(JustA, w))),
              ObjectOf(<<Pair(A1, Merged(v.json, w.json))>>)) : v, w \in Short}
    \cup {Doc(Object(And(Member(Value(B1, "String", B1), v), Member(JustA, w))),
              ObjectOf(<<Pair(A1, w.json), Pair(B1, v.json)>>)) : v, w \in Short}
    \cup {Doc(One, Refused), Doc(<<J!Space>> \o List(<<>>), Refused),
          Doc(List(<<>>) \o A1, ArrayOf(<<>>)), Doc(List(One \o <<J!Space>> \o A1), Refused)}

MCKeys == {A1, <<>>}
MCValues == {<<J!Backslash, J!Quote, J!Quote>>, <<J!Quote, J!Quote, J!Quote>>, <<J!NewLine>>}
==============================================================================
