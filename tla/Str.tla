--------------------------------- MODULE Str ---------------------------------
(***************************************************************************)
(* csjp::Str (src/core/csjp_str): a view of characters that belong to      *)
(* somebody else.  Its operations move its two ends and never change a     *)
(* character, so a Str is the sequence it shows.  An operation whose       *)
(* arguments lie outside raises InvalidArgument and changes nothing.       *)
(***************************************************************************)
LOCAL INSTANCE Integers
LOCAL INSTANCE Sequences
INSTANCE AStr

\* Str(str, from, until), assign(data + from, until - from) and read()
View(s, from, until) == SubSeq(s, from + 1, until)

\* The overloads without an end search to the end of the text.
FirstText(s, str, from) == FindFirst(s, str, from, Len(s))
FirstIn(s, set, from) == FindFirstOf(s, set, from, Len(s))
FirstNotIn(s, set, from) == FindFirstNotOf(s, set, from, Len(s))
LastText(s, str) == FindLast(s, str, Len(s))
LastIn(s, set) == FindLastOf(s, set, Len(s))
LastNotIn(s, set) == FindLastNotOf(s, set, Len(s))
Counted(s, str, from) == Count(s, str, from, Len(s))
Starts(s, str) == StartsWith(s, str)
Ends(s, str) == EndsWith(s, str)
Pieces(s, delimiters, avoidEmpty) == Split(s, delimiters, avoidEmpty)

\* cutAt(length)
CutAt(s, length) == SubSeq(s, 1, length)

\* chopFront(length) and chopBack(length)
ChopFront(s, length) == SubSeq(s, length + 1, Len(s))
ChopBack(s, length) == SubSeq(s, 1, Len(s) - length)

\* chopFront(str): true and without it, if the text starts with it
ChopFrontText(s, str) ==
    [text |-> IF Starts(s, str) THEN ChopFront(s, Len(str)) ELSE s, chopped |-> Starts(s, str)]

\* trimFront(set); an empty set trims nothing
TrimFront(s, set) ==
    IF set = <<>> THEN s
    ELSE IF FirstNotIn(s, set, 0) = NotFound THEN CutAt(s, 0)
    ELSE ChopFront(s, FirstNotIn(s, set, 0))

\* trimBack(set), which leaves a text that has nothing else as it is
TrimBack(s, set) == IF LastNotIn(s, set) = NotFound THEN s ELSE CutAt(s, LastNotIn(s, set) + 1)

\* trim(set): the front, then what is left from the back
Trim(s, set) == TrimBack(TrimFront(s, set), set)
==============================================================================
