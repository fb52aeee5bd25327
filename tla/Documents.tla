------------------------------ MODULE Documents ------------------------------
(***************************************************************************)
(* A program that builds one csjp::Json, by parsing and member by member,  *)
(* and prints it.  Its values are texts as those of module Strings.        *)
(***************************************************************************)
EXTENDS Strings

CONSTANTS
    Documents,  \* the texts it parses, with what they mean
    JsonKeys,   \* the keys and the values it sets
    JsonValues,
    JsonTypes,  \* the types it gives it
    MaxParts    \* a bound on the members and elements of its Json, and its string

VARIABLE doc    \* the Json

J == INSTANCE Json

ASSUME DocumentsAssumption == MaxParts \in Nat /\ JsonTypes \subseteq J!Types

DocumentsInit == doc = J!Fresh

Parts(j) == Len(j.properties) + Len(j.array) + (IF j.string = <<>> THEN 0 ELSE 1)

Holds(json) ==
    /\ Parts(json) <= MaxParts /\ Len(json.string) <= MaxText
    /\ doc' = json

\* parse() replaces all there was, when all has been read; so it need not be tried twice.
Parsed == {J!Parse(d.text) : d \in Documents}

ParseText == doc = J!Fresh /\ \E read \in Parsed : ~read.raises /\ Holds(read.json)

SetMember(key, str) == Holds(J!WithMember(doc, key, J!Assigned(J!Member(doc, key), str)))

\* doc[key] = doc[other]
SetMemberFrom(key, other) ==
    /\ J!Places(doc, other) # {}
    /\ Holds(J!WithMember(doc, key, J!AssignedFrom(J!Member(doc, key), J!Member(doc, other))))

SetElement(i, str) ==
    /\ i <= Len(doc.array)
    /\ Holds(J!WithElement(doc, i, J!Assigned(J!Element(doc, i), str)))

SetText(str) == Holds(J!Assigned(doc, str))
AppendValue(str) == Holds([doc EXCEPT !.string = @ \o str])
ChangeType(type) == Holds(J!SetType(doc, type))
ClearDocument == Holds(J!Fresh)
CopyDocument == Holds(J!Copied(doc))

DocumentsNext ==
    \/ ParseText \/ ClearDocument \/ CopyDocument
    \/ \E str \in JsonValues : SetText(str) \/ AppendValue(str)
                               \/ \E i \in 0 .. MaxParts : SetElement(i, str)
                               \/ \E key \in JsonKeys : SetMember(key, str)
    \/ \E key, other \in JsonKeys : SetMemberFrom(key, other)
    \/ \E type \in JsonTypes : ChangeType(type)

-----------------------------------------------------------------------------
(* What a Json shows: its type says which members, and a value of any      *)
(* other type looks like a string.                                         *)
RECURSIVE Shown(_)
Shown(j) ==
    CASE j.type = "Array"  ->
            [J!Fresh EXCEPT !.type = "Array", !.array = [i \in DOMAIN j.array |-> Shown(j.array[i])]]
      [] j.type = "Object" ->
            [J!Fresh EXCEPT !.type = "Object", !.properties =
                [i \in DOMAIN j.properties |-> [j.properties[i] EXCEPT !.json = Shown(@)]]]
      [] OTHER -> J!Assigned(J!Fresh, j.string)

RECURSIVE ShownTexts(_)
ShownTexts(j) ==
    CASE j.type = "Array"  -> UNION {ShownTexts(j.array[i]) : i \in DOMAIN j.array}
      [] j.type = "Object" ->
            UNION {{j.properties[i].key} \cup ShownTexts(j.properties[i].json) : i \in DOMAIN j.properties}
      [] OTHER -> {j.string}

RECURSIVE KeysFit(_)
KeysFit(j) ==
    CASE j.type = "Array"  -> \A i \in DOMAIN j.array : KeysFit(j.array[i])
      [] j.type = "Object" ->
            /\ IsInjective([i \in DOMAIN j.properties |-> j.properties[i].key])
            /\ \A i \in DOMAIN j.properties :
                  /\ ~Contains(j.properties[i].key, J!Quote) /\ ~Contains(j.properties[i].key, J!Backslash)
                  /\ KeysFit(j.properties[i].json)
      [] OTHER -> TRUE

HasControl(str) == \E i \in DOMAIN str : J!Control(str[i])

\* replace() copes with two of them side by side only when they are the first ones.
Escapable(str) ==
    \A c \in {J!Quote, J!Backslash}, i \in 2 .. Len(str) :
        str[i] = c /\ str[i - 1] = c => \A k \in 1 .. i - 2 : str[k] # c

\* Read as it is meant; a text without a meaning is refused.
IsMeant(read, json) ==
    IF json.type \in J!Types THEN read = [raises |-> FALSE, json |-> json] ELSE read.raises

ReadsAsMeant == \A d \in Documents : IsMeant(J!Parse(d.text), d.json)

\* All of the text is read as the Json; with less of it, it is refused.
ReadsBack(printed, json) ==
    /\ ~printed.raises
    /\ \A n \in 0 .. Len(printed.text) :
          IsMeant(J!Parse(SubSeq(printed.text, 1, n)),
                  IF n = Len(printed.text) THEN json ELSE [type |-> "Refused"])

PrintsAndReadsBack ==
    LET texts == ShownTexts(doc)
    IN  doc.type \in J!Containers /\ KeysFit(doc) /\ (\A str \in texts : Escapable(str)) =>
            IF \E str \in texts : HasControl(str) THEN J!Parse(J!AsText(doc).text).raises
            ELSE ReadsBack(J!AsText(doc), Shown(doc))

SetsOneMember ==
    \A key \in JsonKeys, str \in JsonValues :
        LET with == J!WithMember(doc, key, J!Assigned(J!Member(doc, key), str))
        IN  /\ J!Member(with, key).string = str /\ J!Member(with, key).type = "String"
            /\ \A other \in JsonKeys \ {key} : J!Member(with, other) = J!Member(doc, other)
            /\ with.type = IF J!Places(doc, key) = {} THEN "Object" ELSE doc.type

JsonAsMeant ==
    /\ doc = J!Fresh => ReadsAsMeant
    /\ PrintsAndReadsBack
    /\ SetsOneMember
==============================================================================
