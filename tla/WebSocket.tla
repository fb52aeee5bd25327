------------------------------ MODULE WebSocket ------------------------------
(***************************************************************************)
(* csjp::WebSocketFrame (src/system/csjp_websocket): composing a frame and *)
(* parsing one from the bytes received so far.                             *)
(*                                                                         *)
(* A byte has Radix values (256 in the code) and a length up to ShortMax   *)
(* (125) fits into the second byte; two bytes hold a medium and eight a    *)
(* long one.  The first two bytes are records of their bit fields.         *)
(***************************************************************************)
EXTENDS Naturals, Sequences, SequencesExt, Bitwise

CONSTANTS Radix, ShortMax, FrameLengthLimit

Opcodes == {"Continue", "Text", "Binary", "Close", "Ping", "Pong"}

\* WebSocketFrame::WebSocketFrame() and clear()
EmptyFrame == [final |-> FALSE, opcode |-> "Continue", payload |-> <<>>]

\* htons(), htonl(): the k digits of n, most significant first.
Digits(n, k) == [i \in 1 .. k |-> (n \div Radix ^ (k - i)) % Radix]

\* ntohs(), ntohl()
ValueOf(digits) == FoldLeft(LAMBDA value, digit : value * Radix + digit, 0, digits)

\* The payload under the key; twice gives the payload back.
Masked(payload, key) ==
    IF key = <<>> THEN payload
    ELSE [i \in 1 .. Len(payload) |-> payload[i] ^^ key[((i - 1) % 4) + 1]]

LengthCode(n) ==
    IF n <= ShortMax THEN n ELSE IF n < Radix ^ 2 THEN ShortMax + 1 ELSE ShortMax + 2

\* A long length is written with its low half first.
Extension(n) ==
    IF n <= ShortMax THEN <<>>
    ELSE IF n < Radix ^ 2 THEN Digits(n, 2)
    ELSE Digits(n % Radix ^ 4, 4) \o Digits(n \div Radix ^ 4, 4)

\* toString(): key is empty on the server side and has 4 bytes on the client side.
Composed(frame, key) ==
    LET n == Len(frame.payload)
    IN  <<[final |-> frame.final, opcode |-> frame.opcode, reserved |-> FALSE],
          [masked |-> key # <<>>, length |-> LengthCode(n)]>>
        \o Extension(n) \o key \o Masked(frame.payload, key)

-----------------------------------------------------------------------------
ExtensionWidth(code) ==
    IF code <= ShortMax THEN 0 ELSE IF code = ShortMax + 1 THEN 2 ELSE 8

\* payloadStartPos
PayloadStart(h1) == 2 + ExtensionWidth(h1.length) + (IF h1.masked THEN 4 ELSE 0)

(* The length of the payload.  The bytes of the extension are read without *)
(* looking whether they have been received: behind the data are the        *)
(* terminator of the string and junk.                                      *)
PayloadLength(data, junk) ==
    LET code == data[2].length
        byte(i) == IF i <= Len(data) THEN data[i] ELSE IF i = Len(data) + 1 THEN 0 ELSE junk
        bytes(from, until) == ValueOf([i \in 1 .. until - from |-> byte(from + i)])
    IN  IF code <= ShortMax THEN code
        ELSE IF code = ShortMax + 1 THEN bytes(2, 4)
        ELSE bytes(6, 10) * Radix ^ 4 + bytes(2, 6)

Nothing(frame) == [parser |-> frame, processed |-> 0, raises |-> FALSE]
Raise(frame) == [parser |-> frame, processed |-> 0, raises |-> TRUE]

(* parse().  The end of the frame is computed in 64 bits.  Str::read()     *)
(* raises when it is asked for bytes that are not there, which happens to  *)
(* the masking key.                                                        *)
Parsed(frame, data, junk) ==
    IF Len(data) < 2 THEN Nothing(frame)
    ELSE LET h0 == data[1]
             h1 == data[2]
             header == [frame EXCEPT !.final = h0.final, !.opcode = h0.opcode]
             start == PayloadStart(h1)
             end == (PayloadLength(data, junk) + start) % Radix ^ 8
             keyMissing == h1.masked /\ Len(data) < start
         IN  IF h0.opcode \notin Opcodes THEN Raise([frame EXCEPT !.final = h0.final])
             ELSE IF h0.reserved \/ keyMissing \/ FrameLengthLimit < end THEN Raise(header)
             ELSE IF Len(data) < end THEN Nothing(header)
             ELSE IF end < start THEN Raise(header)
             ELSE [parser |-> [header EXCEPT !.payload =
                        Masked(SubSeq(data, start + 1, end),
                               IF h1.masked THEN SubSeq(data, start - 3, start) ELSE <<>>)],
                   processed |-> end, raises |-> FALSE]
==============================================================================
