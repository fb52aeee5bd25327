------------------------------- MODULE Receive -------------------------------
(***************************************************************************)
(* Socket::receive(TypeReceive &) (src/system/csjp_socket.h): messages that *)
(* toString() has composed reach the read buffer of a socket in any pieces, *)
(* and a parser is called on the buffer at any time.  The parser is an      *)
(* HTTPRequest, an HTTPResponse or a WebSocketFrame.                        *)
(***************************************************************************)
EXTENDS Naturals, Sequences, SequencesExt

CONSTANTS
    HttpMessages,     \* messages that may be sent over a HTTP connection
    Frames,           \* [frame, key] that may be sent over a WebSocket
    MaxMessages,      \* bound: messages in a behaviour
    Junk,             \* bytes that may be found behind the data in the buffer
    CR, LF, NoKey, Radix, ShortMax, FrameLengthLimit

Http == INSTANCE HTTP
WebSocket == INSTANCE WebSocket

ASSUME WidthAssumption == Radix \in Nat \ {0, 1} /\ ShortMax \in Nat /\ ShortMax < Radix ^ 2

VARIABLES
    kind,         \* "http" or "websocket", for the whole connection
    sent,         \* what the peer has sent
    wire,         \* bytes not yet read from the kernel
    readBuffer,   \* Socket::readBuffer
    parser,       \* the TypeReceive object
    received,     \* what the business logic has got
    due,          \* dataReceived() is running
    raised        \* parse() has thrown: the connection is given up

vars == <<kind, sent, wire, readBuffer, parser, received, due, raised>>

Messages == IF kind = "http" THEN HttpMessages ELSE Frames

Bytes(m) == IF m \in HttpMessages THEN Http!Composed(m) ELSE WebSocket!Composed(m.frame, m.key)

Fresh(k) == IF k = "http" THEN Http!EmptyMessage ELSE WebSocket!EmptyFrame

Init ==
    /\ kind \in {"http", "websocket"}
    /\ sent = <<>> /\ wire = <<>> /\ readBuffer = <<>> /\ received = <<>>
    /\ parser = Fresh(kind)
    /\ due = FALSE /\ raised = FALSE

\* The peer sends what toString() makes of a message.
Send(m) ==
    /\ Len(sent) < MaxMessages
    /\ sent' = Append(sent, m)
    /\ wire' = wire \o Bytes(m)
    /\ UNCHANGED <<kind, readBuffer, parser, received, due, raised>>

\* One read of readToBuffer(), which then calls dataReceived().
Read(n) ==
    /\ ~due /\ ~raised
    /\ readBuffer' = readBuffer \o SubSeq(wire, 1, n)
    /\ wire' = SubSeq(wire, n + 1, Len(wire))
    /\ due' = TRUE
    /\ UNCHANGED <<kind, sent, parser, received, raised>>

\* parser.parse(readBuffer)
Parse(junk) ==
    IF kind = "http" THEN Http!Parsed(parser, readBuffer)
    ELSE WebSocket!Parsed(parser, readBuffer, junk)

\* What the business logic sees of a parsed object.
Seen(p) ==
    IF kind = "http" THEN [line |-> p.line, headers |-> p.headers, body |-> p.body] ELSE p

(* parse() has thrown.  Nothing is taken from the buffer; the programs let *)
(* the connection go.                                                      *)
ReceiveRaises(done) ==
    /\ due /\ done.raises
    /\ raised' = TRUE /\ due' = FALSE
    /\ parser' = done.parser
    /\ UNCHANGED <<kind, sent, wire, readBuffer, received>>

\* receive() returns false; the object keeps what has been parsed.
ReceivePart(done) ==
    /\ due /\ ~done.raises /\ done.processed = 0
    /\ parser' = done.parser
    /\ due' = FALSE
    /\ UNCHANGED <<kind, sent, wire, readBuffer, received, raised>>

\* mutant: takes the message out of the buffer one byte short
ReceiveWholeChopsShort(done) ==
    /\ due /\ ~done.raises /\ done.processed > 0
    /\ readBuffer' = SubSeq(readBuffer, done.processed, Len(readBuffer))
    /\ received' = Append(received, Seen(done.parser))
    /\ parser' = Fresh(kind)
    /\ UNCHANGED <<kind, sent, wire, raised, due>>

(* receive() returns true; the message leaves the buffer.  The business    *)
(* logic takes it and clears the object, which a WebSocketFrame does not   *)
(* even need, and calls again.                                             *)
ReceiveWhole(done) ==
    /\ due /\ ~done.raises /\ done.processed > 0
    /\ readBuffer' = SubSeq(readBuffer, done.processed + 1, Len(readBuffer))
    /\ received' = Append(received, Seen(done.parser))
    /\ \/ parser' = Fresh(kind)
       \/ kind = "websocket" /\ parser' = done.parser
    /\ UNCHANGED <<kind, sent, wire, raised, due>>

Receive ==
    \E done \in {Parse(junk) : junk \in Junk} :
        ReceiveRaises(done) \/ ReceivePart(done) \/ ReceiveWhole(done)

Next ==
    \/ \E m \in Messages : Send(m)
    \/ \E n \in 1 .. Len(wire) : Read(n)
    \/ Receive

\* receive() has returned false or thrown, and dataReceived() is over.
DataReceivedReturns == due /\ due' = FALSE

(* Bytes that are there are read, and dataReceived(), which calls          *)
(* receive() until it has taken all there is, comes to its end.            *)
FairSpec ==
    /\ Init /\ [][Next]_vars
    /\ WF_vars(\E n \in 1 .. Len(wire) : Read(n))
    /\ WF_due(DataReceivedReturns)

-----------------------------------------------------------------------------
(* Messages are taken whole or not at all, wherever the stream was cut:    *)
(* what is in the buffer and on the way are exactly the bytes of the       *)
(* messages that have not been received.                                   *)
StreamIntact ==
    readBuffer \o wire =
        FlattenSeq([i \in 1 .. Len(sent) - Len(received) |-> Bytes(sent[Len(received) + i])])

\* A message the parser should take, and what it should make of it.
Acceptable(m) ==
    IF m \in HttpMessages
    THEN \A i \in DOMAIN m.headers : m.headers[i].indented \/ Len(m.headers[i].pieces) = 1
    ELSE Len(Bytes(m)) <= FrameLengthLimit

HeaderNames(m) == {m.headers[i].key : i \in DOMAIN m.headers}

AsSent(m) ==
    IF kind = "http"
    THEN [line |-> <<m.line>>, body |-> m.body,
          headers |-> [k \in HeaderNames(m) \cup {Http!ContentLength} |->
              IF k = Http!ContentLength THEN <<Len(m.body)>>
              ELSE m.headers[CHOOSE i \in DOMAIN m.headers : m.headers[i].key = k].pieces]]
    ELSE m.frame

(* What arrives is what was sent, message for message: composing, cutting  *)
(* anywhere and parsing over any number of calls gives every message back, *)
(* with the lines of a header joined and the mask taken off; a message     *)
(* that is malformed or longer than the limit is never handed over.        *)
Garbled == "garbled"
Understood ==
    [i \in DOMAIN received |-> IF received[i] = AsSent(sent[i]) THEN sent[i] ELSE Garbled]
Promise == INSTANCE MessageChannel WITH
    Messages <- HttpMessages \cup Frames, received <- Understood
ImplementsMessageChannel == Promise!Spec

\* The second frame header byte has come, but not yet all of the header.
HeaderCut ==
    /\ kind = "websocket" /\ Len(readBuffer) >= 2
    /\ Len(readBuffer) < WebSocket!PayloadStart(readBuffer[2])

(* Every acceptable message is received in the end, unless parse() throws, *)
(* and it throws only over a message it should refuse and over a cut       *)
(* frame header.                                                           *)
AllArrive ==
    \A k \in 1 .. MaxMessages :
        (Len(sent) >= k /\ \A i \in 1 .. k : Acceptable(sent[i]))
            ~> (Len(received) >= k \/ (raised /\ HeaderCut))

(* csjp_websocket.cpp:144-148 "If any bytes missing even from the body,    *)
(* the parser will report 0 processed bytes": it does not throw while an   *)
(* acceptable message is still incomplete.                                 *)
CutReportsZero ==
    raised => \/ ~Acceptable(sent[Len(received) + 1])
              \/ IsPrefix(Bytes(sent[Len(received) + 1]), readBuffer)
==============================================================================
