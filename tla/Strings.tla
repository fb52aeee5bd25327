------------------------------- MODULE Strings -------------------------------
(***************************************************************************)
(* A program that edits one csjp::String (src/core/csjp_string) by its     *)
(* methods, and asks a csjp::Str (src/core/csjp_str) that shows the same   *)
(* characters.  The properties are the promises of every method, for every *)
(* string the program can have and every argument.                         *)
(***************************************************************************)
EXTENDS Integers, Sequences, SequencesExt, FiniteSetsExt

CONSTANTS
    Slack,         \* String grows by a tenth from here on: 2048 in the code
    NumberBound,   \* numbers go from minus this, LLONG_MIN, to one below
    Alphabet,      \* the characters the program writes
    MaxArgument,   \* a bound on the length of a text it passes
    MaxPattern,    \* a bound on the length of a text it searches for
    MaxText,       \* a bound on the length of its string
    MaxTextCap     \* a bound on the capacity it asks for

ASSUME StringsAssumption ==
    /\ {Slack, NumberBound, MaxArgument, MaxPattern, MaxText, MaxTextCap} \subseteq Nat
    /\ Alphabet \subseteq 1 .. 254

VARIABLES
    text,     \* the String
    state     \* "none" before the program has a string, "sound" while all is well,
              \* "trusted" after setLength(), which believes what it is told,
              \* "undefined" once a call has touched memory that is not the string's

stringVars == <<text, state>>

A == INSTANCE AStr
V == INSTANCE Str
S == INSTANCE String

Texts == BoundedSeq(Alphabet, MaxArgument)
Patterns == BoundedSeq(Alphabet, MaxPattern)
Ranges == {r \in (0 .. MaxText) \X (0 .. MaxText) : r[1] <= r[2]}

StringsInit == text = S!Empty /\ state = "none"

Create == state = "none" /\ state' = "sound" /\ UNCHANGED text

Returns(outcome) ==
    /\ state \in {"sound", "trusted"}
    /\ Len(outcome.self.items) <= MaxText
    /\ text' = outcome.self
    /\ state' = IF outcome.ruins THEN "undefined" ELSE state

Leaves(self) == Returns([self |-> self, raises |-> FALSE, ruins |-> FALSE])

-----------------------------------------------------------------------------
(* One action for each method that changes the string.                     *)
SetCapacity(capacity) == Leaves(S!SetCapacity(text, capacity))
Clear == Leaves(S!Clear(text))
Assign(str) == Leaves(S!Assign(text, str))
Fill(c, length) == Leaves(S!Fill(text, c, length))
Write(pos, str) == Returns(S!Write(text, pos, str))
Prepend(str) == Leaves(S!Prepend(text, str))
AppendText(str) == Leaves(S!AppendText(text, str))
AppendSelf == \E outcome \in S!AppendSelf(text) : Returns(outcome)
AppendChar(c) == Leaves(S!AppendChar(text, c))
Insert(pos, str) == Returns(S!Insert(text, pos, str))
Erase(from, until) == Returns(S!Erase(text, from, until))
Read(from, until) == until <= Len(text.items) /\ Leaves(S!Read(text, from, until))
ChopFront(length) == Returns(S!ChopFront(text, length))
ChopBack(length) == Returns(S!ChopBack(text, length))
CutAt(length) == Returns(S!CutAt(text, length))
Chop == Leaves(S!Chop(text))
Trim(set) == Leaves(S!Trim(text, set))
TrimFront(set) == Leaves(S!TrimFront(text, set))
TrimBack(set) == Leaves(S!TrimBack(text, set))
Adopt(str, size) == Len(str) <= size /\ Leaves(S!Adopt(str, size))
Lower == Leaves(S!Lower(text))
Upper == Leaves(S!Upper(text))
Replace(what, to, from, until) ==
    what # <<>> /\ Returns(S!Replace(text, what, to, from, until, Len(text.items)))

SetLength(length) ==
    /\ state \in {"sound", "trusted"}
    /\ text' = S!SetLength(text, length).self
    /\ state' = IF S!SetLength(text, length).raises THEN state ELSE "trusted"

StringsNext ==
    \/ Create \/ Clear \/ AppendSelf \/ Chop \/ Lower \/ Upper
    \/ \E str \in Texts : Assign(str) \/ Prepend(str) \/ AppendText(str)
                          \/ Trim(str) \/ TrimFront(str) \/ TrimBack(str)
    \/ \E c \in Alphabet : AppendChar(c) \/ \E length \in 0 .. MaxText : Fill(c, length)
    \/ \E n \in 0 .. MaxText + 1 : ChopFront(n) \/ ChopBack(n) \/ CutAt(n) \/ SetLength(n)
    \/ \E n \in 0 .. MaxText + 1, str \in Texts : Insert(n, str) \/ Write(n, str)
    \/ \E n \in 0 .. MaxTextCap : SetCapacity(n) \/ \E str \in Texts : Adopt(str, n)
    \/ \E r \in Ranges : Erase(r[1], r[2]) \/ Read(r[1], r[2])
    \/ \E from \in {0, 1}, what, to \in Texts : Replace(what, to, from, Len(text.items))

-----------------------------------------------------------------------------
(* The invariants of the class comment (csjp_string.h:36): len < size and  *)
(* data[len] == 0 with a block, len == 0 without.                          *)
Ended(b) ==
    IF b.block THEN Len(b.items) <= b.cap /\ b.end = S!Nul
    ELSE b.items = <<>> /\ b.cap = 0

(* They hold for the string of the program until it calls setLength(),     *)
(* which moves the end and writes no zero there (csjp_string.cpp:47): that *)
(* breaks the second of the invariants, the first holds even then.         *)
StringEnded ==
    /\ state = "sound" => Ended(text)
    /\ state = "trusted" /\ text.block => Len(text.items) <= text.cap

Returned(outcome, items) ==
    ~outcome.raises /\ ~outcome.ruins /\ Ended(outcome.self) /\ outcome.self.items = items
Unchanged(outcome) == outcome.raises /\ ~outcome.ruins /\ outcome.self = text
Fine(self) == [self |-> self, raises |-> FALSE, ruins |-> FALSE]

(* A String is the sequence of its characters: whatever its capacity, each *)
(* edit gives the sequence one would expect, and the end behind it; chops, *)
(* cuts and trims give what they give for a Str; a call with arguments     *)
(* outside throws and changes nothing.  trimBack() leaves a string alone   *)
(* that has only characters to trim, and chopBack() writes the end of a    *)
(* string that has no block.                                               *)
StringIsASequence ==
    state = "sound" =>
        LET s == text.items
            Inside(n) == n <= Len(s)
        IN  /\ \A n \in 0 .. MaxText + 1 :
                  /\ IF Inside(n) THEN /\ Returned(S!ChopFront(text, n), V!ChopFront(s, n))
                                       /\ Returned(S!CutAt(text, n), V!CutAt(s, n))
                                       /\ text.block => Returned(S!ChopBack(text, n), V!ChopBack(s, n))
                     ELSE /\ Unchanged(S!ChopFront(text, n)) /\ Unchanged(S!CutAt(text, n))
                          /\ Unchanged(S!ChopBack(text, n))
                  /\ \A c \in Alphabet : Returned(Fine(S!Fill(text, c, n)), [i \in 1 .. n |-> c])
            /\ ~text.block => S!ChopBack(text, 0).ruins
            /\ \A r \in Ranges :
                  IF Inside(r[2])
                  THEN /\ Returned(S!Erase(text, r[1], r[2]), V!CutAt(s, r[1]) \o V!ChopFront(s, r[2]))
                       /\ Returned(Fine(S!Read(text, r[1], r[2])), V!View(s, r[1], r[2]))
                  ELSE Unchanged(S!Erase(text, r[1], r[2]))
            /\ \A str \in Texts :
                  /\ \A n \in 0 .. MaxText + 1 :
                        /\ IF Inside(n)
                           THEN Returned(S!Insert(text, n, str), V!CutAt(s, n) \o str \o V!ChopFront(s, n))
                           ELSE Unchanged(S!Insert(text, n, str))
                        /\ IF Inside(n + Len(str))
                           THEN Returned(S!Write(text, n, str),
                                    V!CutAt(s, n) \o str \o V!ChopFront(s, n + Len(str)))
                           ELSE Unchanged(S!Write(text, n, str))
                  /\ Returned(Fine(S!Assign(text, str)), str)
                  /\ Returned(Fine(S!AppendText(text, str)), s \o str)
                  /\ Returned(Fine(S!Prepend(text, str)), str \o s)
                  /\ Returned(Fine(S!Trim(text, str)), V!Trim(s, str))
                  /\ Returned(Fine(S!TrimFront(text, str)), V!TrimFront(s, str))
                  /\ Returned(Fine(S!TrimBack(text, str)), V!TrimBack(s, str))
                  /\ LET kept == {i \in DOMAIN s : ~Contains(str, s[i])}
                     IN  V!Trim(s, str) = IF str = <<>> THEN s ELSE IF kept = {} THEN <<>>
                                          ELSE SubSeq(s, Min(kept), Max(kept))
            /\ \A outcome \in S!AppendSelf(text) :
                  outcome.self.items = s \o s /\ (outcome.ruins => text.cap < 2 * Len(s))
            /\ S!Upper(S!Lower(text)) = S!Upper(text) /\ S!Lower(S!Upper(text)) = S!Lower(text)

-----------------------------------------------------------------------------
(* Searching and replacing.                                                *)
Occurrences(s, str, from, until) ==
    {i \in from .. until - Len(str) : SubSeq(s, i + 1, i + Len(str)) = str}
StartsOnce(str) == \A i \in 2 .. Len(str) : str[i] # str[1]
EndsOnce(str) == StartsOnce(Reverse(str))

(* A search reports a place where the text really is.  It reports the      *)
(* first one, the last one and all of them when the first (for the last:   *)
(* the last) character of the text occurs in it once; for other texts      *)
(* findFirst() may miss, as it does "aab" in "aaab".  The searches for     *)
(* characters are exact, but findFirstOf() gives up on a range shorter     *)
(* than the set.  A text in front is chopped off, or all is left.  split() *)
(* cuts at every delimiter, and nowhere else.                              *)
SearchesFind ==
    state = "sound" =>
        LET s == text.items
            In(str, i) == Contains(str, s[i + 1])
        IN  /\ \A str \in Patterns \ {<<>>}, r \in {q \in Ranges : q[2] <= Len(s)} :
                  LET occurrences == Occurrences(s, str, r[1], r[2])
                      positions == r[1] .. r[2] - 1
                  IN  /\ S!FirstText(text, str, r[1], r[2]) \in occurrences \cup {A!NotFound}
                      /\ StartsOnce(str) =>
                            S!FirstText(text, str, r[1], r[2]) = A!FirstOf(occurrences)
                      /\ S!FirstIn(text, str, r[1], r[2]) =
                            IF r[2] - r[1] < Len(str) THEN A!NotFound
                            ELSE A!FirstOf({i \in positions : In(str, i)})
                      /\ S!FirstNotIn(text, str, r[1], r[2]) =
                            A!FirstOf({i \in positions : ~In(str, i)})
            /\ \A str \in Patterns \ {<<>>}, until \in 0 .. Len(s) :
                  LET occurrences == Occurrences(s, str, 0, until)
                  IN  /\ S!LastText(text, str, until) \in occurrences \cup {A!NotFound}
                      /\ EndsOnce(str) => S!LastText(text, str, until) = A!LastOf(occurrences)
                      /\ S!LastIn(text, str, until) = A!LastOf({i \in 0 .. until - 1 : In(str, i)})
                      /\ S!LastNotIn(text, str, until) =
                            A!LastOf({i \in 0 .. until - 1 : ~In(str, i)})
            /\ \A str \in Patterns \ {<<>>} :
                  /\ StartsOnce(str) =>
                        S!Counted(text, str, 0) = Cardinality(Occurrences(s, str, 0, Len(s)))
                  /\ S!Starts(text, str) = (0 \in Occurrences(s, str, 0, Len(s)))
                  /\ S!Ends(text, str) = (Len(s) - Len(str) \in Occurrences(s, str, 0, Len(s)))
                  /\ LET chop == V!ChopFrontText(s, str)
                     IN  chop.chopped = S!Starts(text, str)
                         /\ s = IF chop.chopped THEN str \o chop.text ELSE chop.text
                  /\ LET pieces == S!Pieces(text, str, FALSE)
                     IN  /\ FlattenSeq(pieces) = SelectSeq(s, LAMBDA c : ~Contains(str, c))
                         /\ Len(pieces) = 1 + Cardinality({i \in DOMAIN s : Contains(str, s[i])})
                         /\ S!Pieces(text, str, TRUE) = SelectSeq(pieces, LAMBDA p : p # <<>>)

Replaced(s, what, to, from, until) ==
    LET at == Occurrences(s, what, from, until)
        behind[i \in 0 .. Len(s)] ==
            IF i = Len(s) THEN <<>>
            ELSE IF i \in at THEN to \o behind[i + Len(what)]
            ELSE <<s[i + 1]>> \o behind[i + 1]
    IN  behind[0]

(* replace() changes exactly the matches of the range, in these cases: the *)
(* text to replace starts and ends with a character it has once, and       *)
(*  - the new one is as long, or                                           *)
(*  - it is longer, and no two matches touch (two single characters may,   *)
(*    when the text occurs nowhere in front of them), or                   *)
(*  - it is shorter, and there is no match in front of the range.          *)
(* In the other cases it has been seen to throw half way and to leave a    *)
(* string that is neither the old nor the new one; the string still ends.  *)
ReplaceReplaces ==
    state = "sound" =>
        \A what \in Texts \ {<<>>}, to \in Patterns, r \in Ranges :
            LET s == text.items
                at == Occurrences(s, what, r[1], r[2])
                outcome == S!Replace(text, what, to, r[1], r[2], Len(s))
                touching == \E i \in at : /\ i + Len(what) \in at
                                           /\ Len(what) = 1 => Occurrences(s, what, 0, i) # {}
                before == Occurrences(s, what, 0, r[2]) # at
            IN  IF r[2] > Len(s) THEN Unchanged(outcome)
                ELSE /\ Ended(outcome.self)
                     /\ StartsOnce(what) /\ EndsOnce(what)
                        /\ (Len(to) > Len(what) => ~touching)
                        /\ (Len(to) < Len(what) => ~before)
                           => Returned(outcome, Replaced(s, what, to, r[1], r[2]))

\* The arguments are told from the format by their characters.
FormatsArguments ==
    \A fmt \in BoundedSeq(Alphabet \cup {S!Percent}, MaxPattern), n \in 0 .. MaxPattern + 1 :
        LET Argument(c) == c > 200
            Placed(i) == fmt[i] = S!Percent
            places == Cardinality({i \in DOMAIN fmt : Placed(i)})
            all == [k \in 1 .. n |-> 200 + k]
            kept == {i \in DOMAIN fmt :
                        ~Placed(i) \/ Cardinality({j \in 1 .. i : Placed(j)}) > n}
            result == S!Formatted(fmt, [k \in 1 .. n |-> <<200 + k>>])
        IN  (\A i \in 1 .. Len(fmt) - 1 : ~Placed(i) \/ ~Placed(i + 1)) =>
                /\ SelectSeq(result, Argument) =
                       IF n > places + 1 THEN SelectSeq(all, LAMBDA c : c # 201 + places) ELSE all
                /\ SelectSeq(result, LAMBDA c : ~Argument(c)) =
                       [i \in 1 .. Cardinality(kept) |->
                           fmt[CHOOSE j \in kept : Cardinality({l \in kept : l <= j}) = i]]

(* What is encoded is decoded to the same bytes; characters the array has  *)
(* no digit for, and padding anywhere but at the end, are refused.  The    *)
(* array has a digit more than base64: '[' is read as 'Z' is, for all that *)
(* the table in the comment has none there.  A number written into a       *)
(* string is read back; only the least number is not.  The arguments of    *)
(* catf() are all there and in order, unless two or more find no place in  *)
(* the format: then the first of those is missing.                         *)
ConversionsReadBack ==
    state = "sound" =>
        LET digits == A!EncodeBase64(text.items)
        IN  /\ FormatsArguments
            /\ A!DecodeBase64(digits) = [text |-> text.items, raises |-> FALSE]
            /\ \A i \in DOMAIN digits :
                  /\ A!DecodeBase64([digits EXCEPT ![i] = A!NoDigit]).raises
                  /\ A!DecodeBase64([digits EXCEPT ![i] = A!ZAgain]) =
                         A!DecodeBase64([digits EXCEPT ![i] = 25])
                  /\ i < Len(digits) - 1 => A!DecodeBase64([digits EXCEPT ![i] = A!Pad]).raises
                  /\ A!DecodeBase64(Tail(digits)).raises
            /\ \A n \in -NumberBound .. NumberBound - 1 :
                  (S!NumberOf(S!AppendNumber(S!Empty, n).items) = n) = (n # -NumberBound)
==============================================================================
