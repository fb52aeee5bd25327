-------------------------------- MODULE HTTP --------------------------------
(***************************************************************************)
(* csjp::HTTPRequest and csjp::HTTPResponse (src/system/csjp_http):        *)
(* composing a message and parsing one from the bytes received so far,     *)
(* over several calls.                                                     *)
(*                                                                         *)
(* A stream is a sequence of characters CR and LF and of pieces that stand *)
(* for the text between: the start line, a header line, a body byte.  A    *)
(* header line is a record; without a key it continues the line before.    *)
(***************************************************************************)
EXTENDS Naturals, Sequences, SequencesExt

CONSTANTS CR, LF, NoKey

\* HTTPRequest::HTTPRequest() and clear(); "text" is the value of the Json headers.
EmptyMessage == [line |-> <<>>, text |-> <<>>, headers |-> <<>>, body |-> <<>>]

ContentLength == "content-length"

HeaderLine(key, value, indented) == [key |-> key, value |-> value, indented |-> indented]

\* A value of several lines goes out as it is, its later lines being headers without key.
LinesOf(header) ==
    [i \in 1 .. Len(header.pieces) |->
        HeaderLine(IF i = 1 THEN header.key ELSE NoKey, header.pieces[i], i = 1 \/ header.indented)]

\* toString(): the headers in the order of the keys, the length of the body last.
Composed(message) ==
    LET lines == FlattenSeq([i \in 1 .. Len(message.headers) |-> LinesOf(message.headers[i])])
        all == Append(lines, HeaderLine(ContentLength, Len(message.body), TRUE))
    IN  <<message.line, CR, LF>>
        \o FlattenSeq([i \in 1 .. Len(all) |-> <<all[i], CR, LF>>])
        \o <<CR, LF>> \o message.body

-----------------------------------------------------------------------------
(* findFirst(): where the pattern can be found; positions count from 0.    *)
(* The code never backs up in the data, which loses nothing for the two    *)
(* patterns it is called with.                                             *)
Found(data, pattern, from) ==
    {p \in from .. Len(data) - Len(pattern) :
        SubSeq(data, p + 1, p + Len(pattern)) = pattern}

First(positions) == CHOOSE p \in positions : \A q \in positions : p <= q

\* The start line, once it is complete; it is kept for the next call.
WithLine(m, data) ==
    LET ends == Found(data, <<CR, LF>>, 0)
    IN  IF m.line # <<>> \/ ends = {} THEN m
        ELSE [m EXCEPT !.line = SubSeq(data, 1, First(ends))]

\* headers[key] << value
AddValue(headers, key, value) ==
    [k \in DOMAIN headers \cup {key} |->
        (IF k \in DOMAIN headers THEN headers[k] ELSE <<>>)
        \o (IF k = key THEN <<value>> ELSE <<>>)]

\* mutant: a line without key starts over instead of continuing the header before it
HeadersOfForgetful(text) ==
    FoldLeft(
        LAMBDA sofar, line :
            IF sofar.raises THEN sofar
            ELSE [sofar EXCEPT !.headers = AddValue(@, line.key, line.value)],
        [key |-> NoKey, headers |-> <<>>, raises |-> FALSE],
        SelectSeq(text, LAMBDA c : c # CR /\ c # LF))

\* The headers up to the first line that is not one; "key" is the key of the line before.
HeadersOf(text) ==
    FoldLeft(
        LAMBDA sofar, line :
            LET key == IF line.key = NoKey THEN sofar.key ELSE line.key
            IN  IF sofar.raises \/ key = NoKey \/ ~line.indented THEN [sofar EXCEPT !.raises = TRUE]
                ELSE [sofar EXCEPT !.key = key, !.headers = AddValue(@, key, line.value)],
        [key |-> NoKey, headers |-> <<>>, raises |-> FALSE],
        SelectSeq(text, LAMBDA c : c # CR /\ c # LF))

\* The headers, once the empty line behind them is there, from one look at them.
WithHeaders(m, data) ==
    LET from == Len(m.line) + 2
        ends == Found(data, <<CR, LF, CR, LF>>, from)
        text == SubSeq(data, from + 1, First(ends))
    IN  IF m.line = <<>> \/ m.text # <<>> \/ ends = {}
        THEN [m |-> m, raises |-> FALSE]
        ELSE [m |-> [m EXCEPT !.text = text, !.headers = HeadersOf(text).headers],
              raises |-> HeadersOf(text).raises]

\* Without the header the text of the number is empty and reads as 0.
BodyLength(m) == IF ContentLength \in DOMAIN m.headers THEN m.headers[ContentLength][1] ELSE 0

\* mutant: counts the end of the last header line twice
BodyStartTooLate(m) == Len(m.line) + 2 + Len(m.text) + 6

\* readIn
BodyStart(m) == Len(m.line) + 2 + Len(m.text) + 4

\* parse(): whatever was parsed before is skipped; a message with a body is complete.
Parsed(message, data) ==
    LET step == WithHeaders(WithLine(message, data), data)
        m == step.m
        end == BodyStart(m) + BodyLength(m)
    IN  IF step.raises \/ m.text = <<>> \/ m.body # <<>> \/ Len(data) < end
        THEN [parser |-> m, processed |-> 0, raises |-> step.raises]
        ELSE [parser |-> [m EXCEPT !.body = SubSeq(data, BodyStart(m) + 1, end)],
              processed |-> end, raises |-> FALSE]
==============================================================================
