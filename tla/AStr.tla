-------------------------------- MODULE AStr --------------------------------
(***************************************************************************)
(* csjp::AStr (src/core/csjp_astr): what String and Str share, searching,  *)
(* comparing, splitting and base64.  A text is the sequence of its         *)
(* characters, which are numbers from 0 to 255; a position counts the      *)
(* characters before it, as in the code.  The callers stay inside the text *)
(* (ENSURE(from <= until && until <= len)).                                *)
(***************************************************************************)
EXTENDS Integers, Sequences, SequencesExt, FiniteSetsExt

NotFound == -1

\* A position of a set, or NotFound when there is none.
FirstOf(positions) == IF positions = {} THEN NotFound ELSE Min(positions)
LastOf(positions) == IF positions = {} THEN NotFound ELSE Max(positions)

\* char is signed.
Signed(c) == IF c < 128 THEN c ELSE c - 256

\* compare(): -1, 0 or 1.
Compare(s, str) ==
    LET common == Min({Len(s), Len(str)})
        differ == {i \in 1 .. common : s[i] # str[i]}
        Order(a, b) == IF a < b THEN -1 ELSE IF b < a THEN 1 ELSE 0
    IN  IF differ = {} THEN Order(Len(s), Len(str))
        ELSE Order(Signed(s[Min(differ)]), Signed(str[Min(differ)]))

\* isEqual(): lengths first, then compare().
IsEqual(s, str) == Len(s) = Len(str) /\ Compare(s, str) = 0

-----------------------------------------------------------------------------
(* How much of the pattern is matched after one more character: the scan   *)
(* starts over at this very character and never backs up further.          *)
Advance(matched, c, pattern) ==
    IF matched < Len(pattern) /\ pattern[matched + 1] = c THEN matched + 1
    ELSE IF pattern[1] = c THEN 1 ELSE 0

\* findFirst() of a pattern between two positions
FindFirst(s, str, from, until) ==
    LET matched[i \in from .. until] ==
            IF i = from THEN 0 ELSE Advance(matched[i - 1], s[i], str)
        ends == {i \in from + 1 .. until : matched[i] = Len(str)}
    IN  IF str = <<>> \/ ends = {} THEN NotFound ELSE Min(ends) - Len(str)

\* findLast(): the same backwards; the pattern is not empty
FindLast(s, str, until) ==
    LET matched[i \in 0 .. until] ==
            IF i = until THEN 0 ELSE Advance(matched[i + 1], s[i + 1], Reverse(str))
    IN  LastOf({i \in 0 .. until - 1 : matched[i] = Len(str)})

\* findFirstOf(), which gives up when the set is larger than the range.
FindFirstOf(s, set, from, until) ==
    IF until - from < Len(set) THEN NotFound
    ELSE FirstOf({i \in from .. until - 1 : Contains(set, s[i + 1])})

\* mutant: looks at the last character only when there is one behind it
FindFirstNotOfShort(s, set, from, until) ==
    FirstOf({i \in from .. until - 2 : ~Contains(set, s[i + 1])})

\* findFirstNotOf()
FindFirstNotOf(s, set, from, until) ==
    FirstOf({i \in from .. until - 1 : ~Contains(set, s[i + 1])})

\* findLastOf()
FindLastOf(s, set, until) == LastOf({i \in 0 .. until - 1 : Contains(set, s[i + 1])})

\* findLastNotOf()
FindLastNotOf(s, set, until) == LastOf({i \in 0 .. until - 1 : ~Contains(set, s[i + 1])})

\* startsWith() and endsWith()
StartsWith(s, str) == IsPrefix(str, s)
EndsWith(s, str) == IsSuffix(str, s)

\* Where the matches end that findFirst() finds one behind the other; the search
\* stops when their number equals "most", so zero is no limit.
MatchEnds(s, str, from, until, most) ==
    LET ends[p \in from .. until] ==
            LET end == FindFirst(s, str, p, until) + Len(str)
            IN  IF FindFirst(s, str, p, until) = NotFound THEN <<>> ELSE <<end>> \o ends[end]
        all == ends[from]
    IN  IF most = 0 THEN all ELSE SubSeq(all, 1, Min({most, Len(all)}))

\* count()
Count(s, str, from, until) == Len(MatchEnds(s, str, from, until, 0))

\* split() at any of the delimiters
Split(s, delimiters, avoidEmpty) ==
    LET Keep(results, result) ==
            IF avoidEmpty /\ result = <<>> THEN results ELSE Append(results, result)
        scanned == FoldLeft(
            LAMBDA sofar, c :
                IF Contains(delimiters, c)
                THEN [results |-> Keep(sofar.results, sofar.result), result |-> <<>>]
                ELSE [sofar EXCEPT !.result = Append(@, c)],
            [results |-> <<>>, result |-> <<>>], s)
    IN  Keep(scanned.results, scanned.result)

-----------------------------------------------------------------------------
(* Base64.  A digit is its index in base64EncodeArray; the other entries   *)
(* of base64DecodeArray are the padding, and 768 for no digit.  The table  *)
(* has 25 twice, so '[' is read like 'Z'.                                  *)
Pad == 256
NoDigit == 768
ZAgain == 1000

\* mutant: the table has a zero for the padding
DecodeArrayPadIsZero(c) == IF c = ZAgain THEN 25 ELSE c % Pad

DecodeArray(c) == IF c = ZAgain THEN 25 ELSE c

\* encodeBase64(): three bytes become four digits
EncodeBase64(s) ==
    LET Group(i) ==
            LET d0 == s[i]
                d1 == IF i + 1 <= Len(s) THEN s[i + 1] ELSE 0
                d2 == IF i + 2 <= Len(s) THEN s[i + 2] ELSE 0
            IN  <<d0 \div 4,
                  (d0 % 4) * 16 + d1 \div 16,
                  IF i + 1 <= Len(s) THEN (d1 % 16) * 4 + d2 \div 64 ELSE Pad,
                  IF i + 2 <= Len(s) THEN d2 % 64 ELSE Pad>>
    IN  FlattenSeq([g \in 1 .. (Len(s) + 2) \div 3 |-> Group(3 * g - 2)])

\* The characters decodeBase64() refuses: padding only at the very end.
Refused(d, last) ==
    IF last
    THEN \/ NoDigit <= d[1] + d[2] + d[3] + d[4]
         \/ 2 * Pad <= d[1] + d[2] + d[3]
         \/ Pad <= d[1] + d[2]
         \/ d[3] = Pad /\ d[4] # Pad
    ELSE Pad <= d[1] + d[2] + d[3] + d[4]

\* decodeBase64(): bytes are cut to 8 bits, one goes for each padding
DecodeBase64(s) ==
    LET d(g) == [k \in 1 .. 4 |-> DecodeArray(s[4 * g - 4 + k])]
        groups == Len(s) \div 4
        Bytes(g) == <<(d(g)[1] * 4 + d(g)[2] \div 16) % 256,
                      (d(g)[2] * 16 + (d(g)[3] % 256) \div 4) % 256,
                      ((d(g)[3] % 256) * 64 + (d(g)[4] % 256)) % 256>>
        all == FlattenSeq([g \in 1 .. groups |-> Bytes(g)])
        pads == IF groups = 0 THEN {} ELSE {k \in {3, 4} : d(groups)[k] = Pad}
    IN  IF Len(s) % 4 # 0 \/ \E g \in 1 .. groups : Refused(d(g), g = groups)
        THEN [text |-> <<>>, raises |-> TRUE]
        ELSE [text |-> SubSeq(all, 1, Len(all) - Cardinality(pads)), raises |-> FALSE]
==============================================================================
