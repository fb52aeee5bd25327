------------------------------- MODULE String -------------------------------
(***************************************************************************)
(* csjp::String (src/core/csjp_string): characters in a block of its own,  *)
(* which grows, and a zero behind the last one.  A string is a record:     *)
(*   block   data is not NULL                                              *)
(*   cap     how many characters fit in front of the last byte of the      *)
(*           block: size - 1, and 0 without a block                        *)
(*   items   the len characters                                            *)
(*   end     data[len]; what lies behind is never read                     *)
(* An operation gives an outcome: the string afterwards, whether it has    *)
(* thrown, and whether it is undefined, for it has touched no memory of    *)
(* the string.  Throwing half way keeps what has been done so far.         *)
(***************************************************************************)
LOCAL INSTANCE Integers
LOCAL INSTANCE Sequences
INSTANCE AStr
INSTANCE Outcome
LOCAL T == INSTANCE Str

CONSTANTS
    Slack,        \* growth by a tenth is enough from here on: 2048 in the code
    NumberBound   \* numbers go from minus this, LLONG_MIN, to one below

Nul == 0
Percent == 37
Garbage == 255    \* stands for a character nobody has written

Empty == [block |-> FALSE, cap |-> 0, items |-> <<>>, end |-> Nul]

\* realloc, then the length cut to the new capacity
SetCapacity(b, capacity) ==
    [block |-> TRUE, cap |-> capacity,
     items |-> SubSeq(b.items, 1, Min({capacity, Len(b.items)})), end |-> Nul]

\* 10% more than needed, or twice as much while that is less than the slack
Grown(needed) ==
    needed + (IF needed \div 10 < Slack THEN needed ELSE needed \div 10)

ExtendCapacity(b, needed) == SetCapacity(b, Grown(needed))

\* mutant: forgets that the zero needs a byte of its own
RoomForTight(b, last, needed) ==
    IF ~b.block \/ b.cap + 1 < last THEN ExtendCapacity(b, needed) ELSE b

\* if(size <= last) extendCapacity(needed)
RoomFor(b, last, needed) ==
    IF ~b.block \/ b.cap + 1 <= last THEN ExtendCapacity(b, needed) ELSE b

WithItems(b, items) == [b EXCEPT !.items = items, !.end = Nul]

\* setLength() believes its caller: it writes nothing, neither characters nor the end.
SetLength(b, length) ==
    IF ~b.block \/ b.cap < length THEN Raised(b)
    ELSE LET all == Append(b.items, b.end)
             At(i) == IF i <= Len(all) THEN all[i] ELSE Garbage
         IN  Done([b EXCEPT !.items = [i \in 1 .. length |-> At(i)], !.end = At(length + 1)])

-----------------------------------------------------------------------------
(* Searching, as in a Str, what is in front of the end.                    *)
FirstText(b, str, from, until) == FindFirst(b.items, str, from, until)
FirstIn(b, set, from, until) == FindFirstOf(b.items, set, from, until)
FirstNotIn(b, set, from, until) == FindFirstNotOf(b.items, set, from, until)
LastText(b, str, until) == FindLast(b.items, str, until)
LastIn(b, set, until) == FindLastOf(b.items, set, until)
LastNotIn(b, set, until) == FindLastNotOf(b.items, set, until)
Starts(b, str) == T!Starts(b.items, str)
Ends(b, str) == T!Ends(b.items, str)
Counted(b, str, from) == T!Counted(b.items, str, from)
Pieces(b, delimiters, avoidEmpty) == T!Pieces(b.items, delimiters, avoidEmpty)

-----------------------------------------------------------------------------
(* Writing.                                                                *)
Clear(b) == Empty

Assign(b, str) == WithItems(RoomFor(b, Len(str), Len(str)), str)

Fill(b, c, length) == WithItems(RoomFor(b, length, length), [i \in 1 .. length |-> c])

\* mutant: leaves the length
ShiftForwardKeepsLength(b, from, until, offset) ==
    IF ~b.block THEN b
    ELSE WithItems(b, [i \in DOMAIN b.items |->
        IF i > from - offset /\ i <= until - offset THEN b.items[i + offset] ELSE b.items[i]])

\* Moves [from, until) towards the front, over what is there.
ShiftForward(b, from, until, offset) ==
    IF ~b.block THEN b
    ELSE WithItems(b,
        [i \in 1 .. IF until = Len(b.items) THEN Len(b.items) - offset ELSE Len(b.items) |->
            IF i > from - offset /\ i <= until - offset THEN b.items[i + offset] ELSE b.items[i]])

\* Moves [from, until) towards the back, over what is there; the gap keeps what it had.
ShiftBackward(b, from, until, offset) ==
    LET room == RoomFor(b, until + offset, Len(b.items) + offset)
        last == Max({Len(b.items), until + offset})
    IN  WithItems(room, [i \in 1 .. last |->
            IF i > from + offset /\ i <= until + offset THEN room.items[i - offset]
            ELSE IF i <= Len(room.items) THEN room.items[i] ELSE Garbage])

\* memcpy into the characters there are
Written(b, pos, str) ==
    [b EXCEPT !.items = [i \in DOMAIN @ |->
        IF i > pos /\ i <= pos + Len(str) THEN str[i - pos] ELSE @[i]]]

Write(b, pos, str) ==
    IF pos + Len(str) > Len(b.items) THEN Raised(b) ELSE Done(Written(b, pos, str))

Prepend(b, str) == Written(ShiftBackward(b, 0, Len(b.items), Len(str)), 0, str)

AppendText(b, str) ==
    IF str = <<>> THEN b
    ELSE LET total == Len(b.items) + Len(str)
         IN  WithItems(RoomFor(b, total, total), b.items \o str)

(* append() of the string to itself: once the block has moved, the         *)
(* characters are read from memory that has been given back.               *)
AppendSelf(b) ==
    LET doubled == AppendText(b, b.items)
    IN  {Done(doubled)} \cup (IF doubled.cap # b.cap THEN {Ruined(doubled)} ELSE {})

\* append(char), and with it append(bool), append(unsigned char) and all digits
AppendChar(b, c) ==
    LET total == Len(b.items) + 1 IN WithItems(RoomFor(b, total, total), Append(b.items, c))

Insert(b, pos, str) ==
    IF pos > Len(b.items) THEN Raised(b)
    ELSE IF str = <<>> THEN Done(b)
    ELSE Done(Written(ShiftBackward(b, pos, Len(b.items), Len(str)), pos, str))

Erase(b, from, until) ==
    IF until > Len(b.items) \/ from > until THEN Raised(b)
    ELSE Done(ShiftForward(b, until, Len(b.items), until - from))

Read(b, from, until) == IF from = until THEN Empty ELSE Assign(Empty, SubSeq(b.items, from + 1, until))

ChopFront(b, length) ==
    IF length > Len(b.items) THEN Raised(b)
    ELSE Done(ShiftForward(b, length, Len(b.items), length))

\* Writes the end without asking for a block.
ChopBack(b, length) ==
    IF length > Len(b.items) THEN Raised(b)
    ELSE IF ~b.block THEN Ruined(b)
    ELSE Done(WithItems(b, SubSeq(b.items, 1, Len(b.items) - length)))

CutAt(b, length) ==
    IF length > Len(b.items) THEN Raised(b)
    ELSE Done(IF b.block THEN WithItems(b, SubSeq(b.items, 1, length)) ELSE b)

\* The length becomes zero, the block stays.
Chop(b) == IF b.block THEN WithItems(b, <<>>) ELSE b

TrimFront(b, set) ==
    LET first == FindFirstNotOf(b.items, set, 0, Len(b.items))
    IN  IF set = <<>> THEN b
        ELSE IF first = NotFound THEN CutAt(b, 0).self ELSE ChopFront(b, first).self

TrimBack(b, set) ==
    LET last == FindLastNotOf(b.items, set, Len(b.items))
    IN  IF set = <<>> \/ last = NotFound THEN b ELSE CutAt(b, last + 1).self

\* The back first, then the front, unlike Str.
Trim(b, set) == TrimFront(TrimBack(b, set), set)

\* adopt() of a block somebody else has allocated, made one byte longer if it is full
Adopt(str, size) ==
    IF str = <<>> THEN Empty
    ELSE [block |-> TRUE, cap |-> Max({size - 1, Len(str)}), items |-> str, end |-> Nul]

\* lower() and upper()
Lower(b) == [b EXCEPT !.items = [i \in DOMAIN @ |-> IF @[i] \in 65 .. 90 THEN @[i] + 32 ELSE @[i]]]
Upper(b) == [b EXCEPT !.items = [i \in DOMAIN @ |-> IF @[i] \in 97 .. 122 THEN @[i] - 32 ELSE @[i]]]

(* append(long long int): the least number cannot be negated and stays     *)
(* negative, so its digits count down from '0'.                            *)
NumberText(n) ==
    LET digits[m \in 0 .. NumberBound] ==
            (IF m < 10 THEN <<>> ELSE digits[m \div 10])
            \o <<IF n = -NumberBound THEN 48 - (m % 10) ELSE 48 + (m % 10)>>
    IN  (IF n < 0 THEN <<45>> ELSE <<>>) \o digits[IF n < 0 THEN -n ELSE n]

(* catf(): each '%' takes the next argument and "%%" is one '%', while     *)
(* arguments are left; then the format is taken as it is.  What is left    *)
(* over comes last; of two or more, the first is dropped.                  *)
Formatted(fmt, args) ==
    LET Pair(i) == i < Len(fmt) /\ fmt[i + 1] = Percent
        behind[i \in 1 .. Len(fmt) + 1, k \in 0 .. Len(args)] ==
            IF k = Len(args) THEN SubSeq(fmt, i, Len(fmt))
            ELSE IF i > Len(fmt)
            THEN FlattenSeq(SubSeq(args, IF k + 1 = Len(args) THEN k + 1 ELSE k + 2, Len(args)))
            ELSE IF fmt[i] # Percent THEN <<fmt[i]>> \o behind[i + 1, k]
            ELSE IF Pair(i) THEN <<Percent>> \o behind[i + 2, k]
            ELSE args[k + 1] \o behind[i + 1, k + 1]
    IN  behind[1, 0]

AppendNumber(b, n) == AppendText(b, NumberText(n))

\* operator<<=(long long int &, String), which is atoll(): digits up to the first other character
NumberOf(text) ==
    LET start == IF text # <<>> /\ text[1] = 45 THEN 2 ELSE 1
        after == {i \in start .. Len(text) : text[i] \notin 48 .. 57}
        last == IF after = {} THEN Len(text) ELSE Min(after) - 1
        value[i \in start - 1 .. last] == IF i < start THEN 0 ELSE 10 * value[i - 1] + text[i] - 48
    IN  IF start = 2 THEN -value[last] ELSE value[last]

-----------------------------------------------------------------------------
(* replace(): three cases, by the lengths of the two texts.                *)
\* mutant: steps over the match before it writes
ReplaceSameLate(b, to, ends) ==
    LET written[n \in 0 .. Len(ends)] ==
            IF n = 0 THEN b ELSE Written(written[n - 1], ends[n], to)
    IN  Done(written[Len(ends)])

ReplaceSame(b, to, ends) ==
    LET written[n \in 0 .. Len(ends)] ==
            IF n = 0 THEN b ELSE Written(written[n - 1], ends[n] - Len(to), to)
    IN  Done(written[Len(ends)])

(* Longer: from the last match to the first, the text behind a match moves *)
(* once.  The match before is looked for in front of the character in      *)
(* front of this one, and there has to be such a character.                *)
ReplaceGrowing(b, what, to, ends) ==
    LET more == Len(to) - Len(what)
        matches == Len(ends)
        room == RoomFor(b, Len(b.items) + matches * more, Len(b.items) + matches * more)
        Found(self, pos) ==
            LET at == FindLast(self.items, what, pos) IN IF at = NotFound THEN pos ELSE at
        Round(sofar, n) ==
            LET offset == n * more
                self == Written(ShiftBackward(sofar.self, sofar.pos, sofar.chunkEnd, offset),
                                sofar.pos + offset - Len(to), to)
                start == sofar.pos - Len(what)
            IN  IF sofar.raises \/ sofar.pos > sofar.chunkEnd THEN [sofar EXCEPT !.raises = TRUE]
                ELSE IF n = 1 \/ start = 0 THEN [sofar EXCEPT !.self = self, !.raises = n # 1]
                ELSE [self |-> self, raises |-> FALSE, chunkEnd |-> start,
                      pos |-> Found(self, start - 1) + Len(what)]
        rounds[k \in 0 .. matches] ==
            IF k = 0 THEN [self |-> room, raises |-> FALSE, chunkEnd |-> Len(b.items),
                           pos |-> ends[matches]]
            ELSE Round(rounds[k - 1], matches + 1 - k)
    IN  IF matches = 0 THEN Done(room)
        ELSE [self |-> rounds[matches].self, raises |-> rounds[matches].raises, ruins |-> FALSE]

(* Shorter: from the first match to the last, the text between two matches *)
(* moves once.  The search starts over at the front, wherever the caller   *)
(* wanted it to.                                                           *)
ReplaceShrinking(b, what, to, until, matches) ==
    LET less == Len(what) - Len(to)
        At(self, from, pos) ==
            LET at == FindFirst(self.items, what, from, until) IN IF at = NotFound THEN pos ELSE at
        Round(sofar, n) ==
            LET offset == n * less
                self == Write(sofar.self, sofar.pos, to).self
                last == sofar.pos + Len(to)
                pos == IF n = matches THEN Len(self.items) ELSE At(self, last + offset, sofar.pos)
            IN  IF sofar.raises \/ last > Len(sofar.self.items) THEN [sofar EXCEPT !.raises = TRUE]
                ELSE IF last + offset > until \/ last + offset > pos
                THEN [sofar EXCEPT !.self = self, !.raises = TRUE]
                ELSE [self |-> ShiftForward(self, last + offset, pos, offset), raises |-> FALSE,
                      pos |-> pos - offset]
        rounds[n \in 0 .. matches] ==
            IF n = 0 THEN [self |-> b, raises |-> FALSE, pos |-> At(b, 0, 0)]
            ELSE Round(rounds[n - 1], n)
    IN  [self |-> rounds[matches].self, raises |-> rounds[matches].raises, ruins |-> FALSE]

Replace(b, what, to, from, until, most) ==
    LET ends == MatchEnds(b.items, what, from, until, most)
    IN  IF from > until \/ until > Len(b.items) THEN Raised(b)
        ELSE IF from = until \/ until - from < Len(what) THEN Done(b)
        ELSE IF Len(what) = Len(to) THEN ReplaceSame(b, to, ends)
        ELSE IF Len(what) < Len(to) THEN ReplaceGrowing(b, what, to, ends)
        ELSE ReplaceShrinking(b, what, to, until, Len(ends))
==============================================================================
