--------------------------------- MODULE Json ---------------------------------
(***************************************************************************)
(* csjp::Json (src/container/csjp_json): a tree of values that prints      *)
(* itself and is read back by a recursive descent parser.  A Json is a     *)
(* record of its members:                                                  *)
(*   type        "Null", "Boolean", "Number", "String", "Object", "Array"  *)
(*   string      the value, whatever the type                              *)
(*   properties  the pairs [key, json] of its container, by their keys     *)
(*   array       its elements                                              *)
(* The type says which of them is shown; the others may be there as well.  *)
(* A text is a sequence of characters, and a position in it counts those   *)
(* in front, as in the code; Lost is the position once the parser has      *)
(* thrown.                                                                 *)
(***************************************************************************)
EXTENDS Integers, Sequences, SequencesExt, FiniteSetsExt, TLC

CONSTANTS Slack, NumberBound   \* of String

LOCAL A == INSTANCE AStr
LOCAL S == INSTANCE String

Containers == {"Object", "Array"}
Types == {"Null", "Boolean", "Number", "String"} \cup Containers

Fresh == [type |-> "Null", string |-> <<>>, properties |-> <<>>, array |-> <<>>]

-----------------------------------------------------------------------------
(* Members.                                                                *)
Places(j, key) == {i \in DOMAIN j.properties : A!Compare(j.properties[i].key, key) = 0}

\* mutant: a member that was another kind of value keeps what it had
SetTypeKeepsAll(j, type) == [j EXCEPT !.type = type]

\* setValue(Type), operator<<=
SetType(j, type) ==
    CASE type = "Array"  -> [j EXCEPT !.type = type, !.properties = <<>>, !.string = <<>>]
      [] type = "Object" -> [j EXCEPT !.type = type, !.array = <<>>, !.string = <<>>]
      [] OTHER           -> [j EXCEPT !.type = type, !.array = <<>>, !.properties = <<>>]

\* operator=(Str): the members stay, hidden.
Assigned(j, str) == [j EXCEPT !.type = "String", !.string = str]

\* operator=(const Json &): the branches for containers are commented out.
AssignedFrom(j, other) ==
    IF other.type \in Containers THEN j
    ELSE [Fresh EXCEPT !.type = other.type, !.string = other.string]

\* What operator[](key) gives: the member, or a new one.  A copy may have equal keys;
\* of two the first one is the root of the tree, and is found.
Member(j, key) ==
    IF Places(j, key) = {} THEN Fresh ELSE j.properties[Min(Places(j, key))].json

\* Only a new member turns its owner into an object.
WithMember(j, key, json) ==
    LET pair == [key |-> key, json |-> json]
        before == {i \in DOMAIN j.properties : A!Compare(j.properties[i].key, key) < 0}
    IN  IF Places(j, key) = {}
        THEN [j EXCEPT !.type = "Object", !.properties = InsertAt(@, Cardinality(before) + 1, pair)]
        ELSE [j EXCEPT !.properties[Min(Places(j, key))] = pair]

\* operator[](idx), for an element there is and for the next one
Element(j, i) == IF i = Len(j.array) THEN Fresh ELSE j.array[i + 1]

WithElement(j, i, json) ==
    IF i = Len(j.array) THEN [j EXCEPT !.type = "Array", !.array = Append(@, json)]
    ELSE [j EXCEPT !.array[i + 1] = json]

\* The copy constructor copies neither the type nor the keys.
RECURSIVE Copied(_)
Copied(j) ==
    [Fresh EXCEPT
        !.string = j.string,
        !.properties = [i \in DOMAIN j.properties |->
                            [key |-> <<>>, json |-> Copied(j.properties[i].json)]],
        !.array = [i \in DOMAIN j.array |-> Copied(j.array[i])]]

-----------------------------------------------------------------------------
(* Reading: characters and tokens.                                         *)
Tab == 9
NewLine == 10
Space == 32
Quote == 34
Hash == 35
Comma == 44
Colon == 58
Backslash == 92
OpenArray == 91
CloseArray == 93
OpenObject == 123
CloseObject == 125
Nul == 0

Lost == -1

WhiteSpace == {Space, NewLine, Tab}
Marks == {OpenObject, CloseObject, OpenArray, CloseArray, Quote, Comma, Colon}
Terminal == WhiteSpace \cup Marks
NumberCharacters == (48 .. 57) \cup {46, 45, 43, 101, 69}
Control(c) == c < 32

At(data, pos) == IF pos \in 0 .. Len(data) - 1 THEN data[pos + 1] ELSE Nul

\* The first position from pos on with one of these characters; Lost when there is none.
NextOf(data, pos, IsOne(_)) ==
    LET found == {q \in pos .. Len(data) - 1 : IsOne(data[q + 1])}
    IN  IF pos = Lost \/ found = {} THEN Lost ELSE Min(found)

\* skipWhiteSpace(): comments, too, which end with the line or with the text.
SkipWhiteSpace(data, pos) ==
    LET CommentEnd(p) == NextOf(data, p, LAMBDA c : Control(c) /\ c # Tab)
        after[p \in 0 .. Len(data)] ==
            LET Behind(end) == IF end = Lost THEN Len(data)
                               ELSE IF At(data, end) = NewLine THEN after[end + 1]
                               ELSE Lost
            IN  IF At(data, p) \in WhiteSpace THEN after[p + 1]
                ELSE IF At(data, p) = Hash THEN Behind(CommentEnd(p)) ELSE p
    IN  IF pos = Lost THEN Lost ELSE after[pos]

\* readCharacter()
ReadCharacter(data, pos, expected) == IF At(data, pos) = expected THEN pos + 1 ELSE Lost

Token(found, pos, text) == [found |-> found, pos |-> pos, text |-> text]
Thrown == Token(FALSE, Lost, <<>>)

\* readNumber(): any of the characters of numbers, up to a terminal
ReadNumber(data, pos) ==
    LET end == NextOf(data, pos, LAMBDA c : c \notin NumberCharacters)
    IN  IF end = Lost THEN Thrown
        ELSE IF end > pos /\ At(data, end) \in Terminal
        THEN Token(TRUE, end, SubSeq(data, pos + 1, end))
        ELSE Token(FALSE, pos, <<>>)

\* readKeyword()
IsKeyword(data, pos, word) ==
    /\ pos + Len(word) < Len(data)
    /\ SubSeq(data, pos + 1, pos + Len(word)) = word
    /\ At(data, pos + Len(word)) \in Terminal

Unquoted(data, pos, end) ==
    LET read == S!Assign(S!Empty, SubSeq(data, pos + 1, end))
        text == S!Trim(read, <<Space, Tab, NewLine>>).items
    IN  IF end = Lost THEN Thrown ELSE Token(text # <<>>, end, text)

\* readFreeString(): without quotes, up to a mark or a comment; "::" is none
ReadFreeString(data, pos) ==
    LET end[p \in pos .. Len(data)] ==
            LET c == At(data, p)
            IN  IF p = Len(data) \/ (Control(c) /\ c \notin {NewLine, Tab}) THEN Lost
                ELSE IF c = Colon /\ At(data, p + 1) = Colon THEN end[p + 2]
                ELSE IF c \in Marks \cup {Hash} THEN p
                ELSE end[p + 1]
    IN  Unquoted(data, pos, end[pos])

\* The characters behind a backslash, and what they stand for; not \u.
Escapes == (Quote :> Quote) @@ (Backslash :> Backslash) @@ (47 :> 47) @@ (98 :> 8)
           @@ (102 :> 12) @@ (110 :> NewLine) @@ (114 :> 13) @@ (116 :> Tab)

\* readString() behind the quote
ReadQuoted(data, pos) ==
    LET read[p \in 0 .. Len(data) + 1] ==
            LET c == At(data, p)
                Then(char, token) == [token EXCEPT !.text = <<char>> \o @]
            IN  IF p >= Len(data) \/ Control(c) THEN Thrown
                ELSE IF c = Quote THEN Token(TRUE, p + 1, <<>>)
                ELSE IF c # Backslash THEN Then(c, read[p + 1])
                ELSE IF At(data, p + 1) \in DOMAIN Escapes
                THEN Then(Escapes[At(data, p + 1)], read[p + 2])
                ELSE Thrown
    IN  read[pos]

ReadString(data, pos) ==
    IF pos = Lost THEN Thrown
    ELSE IF At(data, pos) = Quote THEN ReadQuoted(data, pos + 1) ELSE ReadFreeString(data, pos)

\* The words true, false and null
Keywords == (<<116, 114, 117, 101>> :> "Boolean") @@ (<<102, 97, 108, 115, 101>> :> "Boolean")
            @@ (<<110, 117, 108, 108>> :> "Null")

-----------------------------------------------------------------------------
(* Reading: values.  The parser changes the tree in place: a key that      *)
(* comes again changes the member there is, and adds to it if both are     *)
(* objects, or arrays.                                                     *)
Read(found, pos, json) == [found |-> found, pos |-> pos, json |-> json]

Scalar(token, type, json) ==
    Read(token.found, token.pos, SetType(Assigned(json, token.text), type))

RECURSIVE ReadValue(_, _, _), ReadMembers(_, _, _, _), ReadElements(_, _, _, _)

\* Behind the value of a member: there is one more behind a comma.
AfterMember(data, key, value, json) ==
    LET with == WithMember(json, key, value.json)
        end == SkipWhiteSpace(data, value.pos)
    IN  IF ~value.found THEN Read(FALSE, Lost, json)
        ELSE IF At(data, end) = Comma
        THEN ReadMembers(data, SkipWhiteSpace(data, end + 1), with, TRUE)
        ELSE Read(TRUE, end, with)

AfterKey(data, key, json, must) ==
    LET colon == ReadCharacter(data, SkipWhiteSpace(data, key.pos), Colon)
    IN  IF ~key.found THEN Read(FALSE, IF must THEN Lost ELSE key.pos, json)
        ELSE IF colon = Lost THEN Read(FALSE, Lost, json)
        ELSE AfterMember(data, key.text,
                ReadValue(data, SkipWhiteSpace(data, colon), Member(json, key.text)), json)

\* readPair() and readMembers(); the first pair may be missing.
ReadMembers(data, pos, json, must) == AfterKey(data, ReadString(data, pos), json, must)

AfterElement(data, value, json, must) ==
    LET with == WithElement(json, Len(json.array), value.json)
        end == SkipWhiteSpace(data, value.pos)
    IN  IF ~value.found THEN Read(~must, IF must THEN Lost ELSE value.pos, json)
        ELSE IF At(data, end) = Comma
        THEN ReadElements(data, SkipWhiteSpace(data, end + 1), with, TRUE)
        ELSE Read(TRUE, end, with)

\* readElements(); the first element may be missing.
ReadElements(data, pos, json, must) == AfterElement(data, ReadValue(data, pos, Fresh), json, must)

Closed(data, inside, mark) ==
    LET end == IF inside.found THEN SkipWhiteSpace(data, inside.pos) ELSE inside.pos
        close == ReadCharacter(data, end, mark)
    IN  Read(close # Lost, close, inside.json)

\* readObject() and readArray() into a Json, from the opening to the closing mark
ReadContainer(data, pos, json) ==
    LET first == SkipWhiteSpace(data, pos + 1)
    IN  CASE At(data, pos) = OpenObject ->
                Closed(data, ReadMembers(data, first, SetType(json, "Object"), FALSE), CloseObject)
          [] At(data, pos) = OpenArray ->
                Closed(data, ReadElements(data, first, SetType(json, "Array"), FALSE), CloseArray)
          [] OTHER -> Read(FALSE, pos, json)

FirstThatFits(data, pos, json, number, string) ==
    LET words == {word \in DOMAIN Keywords : IsKeyword(data, pos, word)}
        word == CHOOSE w \in words : TRUE
        text == IF Keywords[word] = "Null" THEN <<>> ELSE word
    IN  IF number.found \/ number.pos = Lost THEN Scalar(number, "Number", json)
        ELSE IF words # {} THEN Scalar(Token(TRUE, pos + Len(word), text), Keywords[word], json)
        ELSE IF string.found \/ string.pos = Lost THEN Scalar(string, "String", json)
        ELSE ReadContainer(data, string.pos, json)

\* readValue(): the first of number, keyword, string, object and array that fits
ReadValue(data, pos, json) ==
    FirstThatFits(data, pos, json, ReadNumber(data, pos), ReadString(data, pos))

\* parse(): the document starts with the first character; what is behind it is not looked at.
Parse(data) ==
    LET read == ReadContainer(data, 0, Fresh)
    IN  [raises |-> ~read.found, json |-> read.json]

-----------------------------------------------------------------------------
(* Printing.                                                               *)
Indent(depth) == <<NewLine>> \o [i \in 1 .. depth |-> Tab]

\* Backslashes and quotes are escaped by String::replace(), with what it does to them.
Doubled(outcome, c) ==
    LET b == outcome.self
    IN  IF outcome.raises THEN outcome
        ELSE S!Replace(b, <<c>>, <<Backslash, c>>, 0, Len(b.items), Len(b.items))

Escaped(text) ==
    Doubled(Doubled([self |-> S!Assign(S!Empty, text), raises |-> FALSE], Backslash), Quote)

InQuotes(outcome) ==
    [text |-> <<Quote>> \o outcome.self.items \o <<Quote>>, raises |-> outcome.raises]

\* The prints of the members or elements, each on a line of its own
Enclosed(prints, depth, open, close) ==
    LET Joined == FlattenSeq([i \in DOMAIN prints |->
            (IF i = 1 THEN <<>> ELSE <<Comma, Space>>) \o Indent(depth + 1) \o prints[i].text])
    IN  [text |-> <<open>> \o Joined
                  \o (IF prints = <<>> THEN <<>> ELSE Indent(depth)) \o <<close>>,
         raises |-> \E i \in DOMAIN prints : prints[i].raises]

PrintedKey(key) == <<Quote>> \o key \o <<Quote, Space, Colon, Space>>

\* toString(): keys are not escaped.
RECURSIVE Printed(_, _)
Printed(j, depth) ==
    CASE j.type = "Array"  ->
            Enclosed([i \in DOMAIN j.array |-> Printed(j.array[i], depth + 1)],
                     depth, OpenArray, CloseArray)
      [] j.type = "Object" ->
            Enclosed([i \in DOMAIN j.properties |->
                        [Printed(j.properties[i].json, depth + 1) EXCEPT
                            !.text = PrintedKey(j.properties[i].key) \o @]],
                     depth, OpenObject, CloseObject)
      [] OTHER -> InQuotes(Escaped(j.string))

AsText(j) == Printed(j, 0)
==============================================================================
