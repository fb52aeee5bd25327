-------------------------------- MODULE EPoll --------------------------------
(***************************************************************************)
(* A connection served by csjp::EPollControl (src/system): the socket, its *)
(* edge-triggered registration, the loop of waitAndControl, the business   *)
(* logic in its callbacks, and the kernel with the peer behind it.         *)
(*                                                                         *)
(* The process is single-threaded: between two steps of waitAndControl it  *)
(* is the peer and the kernel that move.  What makes the component hard is *)
(* the edge: an event is reported once, and what the handler leaves unread *)
(* or unsent is never reported again unless something new happens.         *)
(*                                                                         *)
(* Bytes are numbered in the order they are sent, 1, 2, 3, ... in each     *)
(* direction, so that a lost, repeated or reordered byte shows.            *)
(***************************************************************************)
EXTENDS Naturals, Sequences

CONSTANTS
    MaxIn,      \* bound: bytes the peer sends
    MaxOut,     \* bound: bytes the business logic sends
    ReadSize,   \* bytes one ::read may return (the 64K buffer of readToBuffer)
    SendSpace   \* bytes the kernel holds until the peer reads them

ASSUME EPollAssumption ==
    MaxIn \in Nat /\ MaxOut \in Nat /\ ReadSize \in Nat \ {0} /\ SendSpace \in Nat \ {0}

VARIABLES
    file,           \* Socket::file: "none" before accept, "open", "closed" (-1)
    readBuffer, writeBuffer,        \* Socket::readBuffer, Socket::writeBuffer
    totalReceived, totalSent,       \* Socket::totalReceived, Socket::totalSent
    closeOnSent,    \* Socket::closeOnSent
    pc,             \* "wait", "control" (events left), "read", "write", "report"
    written,        \* bytes this call of writeFromBuffer has written
    writer,         \* who called it: "wait", "control", "read" (send()), "dataOut"
    reader,         \* who called receive(): "wait", or "control" (another's callback)
    batch,          \* the events waitAndControl has still to control
    old,            \* totalReceived before the read of controlDataIn
    want,           \* the length receive() was asked for; 0 inside controlDataIn
    report,         \* the control events waitAndControl will return
    told,           \* the control events waitAndControl has returned so far
    rx, fin, reset, \* kernel: bytes not yet read, FIN received, RST received
    tx, noSpace,    \* kernel: bytes the peer has not read, a writer found it full
    ready,          \* kernel: the socket is in the ready list of the epoll file
    peer,           \* "open" or "closed"
    consumed, appSent,      \* bytes the business logic has received and sent
    peerSent, peerGot,      \* bytes the peer has sent and received
    dropped,        \* bytes for the peer that went down with the connection
    drained         \* receive() in another's callback read in this batch

buffers == <<readBuffer, writeBuffer, totalReceived, totalSent>>
calls   == <<written, writer, reader, want>>
loop    == <<pc, batch, old, report, told, drained>>
kernel  == <<rx, fin, reset, tx, noSpace, ready>>
streams == <<consumed, appSent, peerSent, peerGot, dropped>>
vars    == <<file, buffers, closeOnSent, calls, loop, kernel, peer, streams>>

Min(a, b) == IF a < b THEN a ELSE b
First(n, s) == SubSeq(s, 1, n)
Without(n, s) == SubSeq(s, n + 1, Len(s))
UpTo(m, n) == [i \in 1 .. n - m |-> m + i]      \* bytes m+1, ..., n

Init ==
    /\ file = "none"
    /\ readBuffer = <<>> /\ writeBuffer = <<>>
    /\ totalReceived = 0 /\ totalSent = 0
    /\ closeOnSent = FALSE
    /\ pc = "wait" /\ batch = <<>> /\ old = 0
    /\ written = 0 /\ writer = "wait" /\ reader = "wait" /\ want = 0
    /\ report = {} /\ told = {} /\ drained = FALSE
    /\ rx = <<>> /\ fin = FALSE /\ reset = FALSE /\ tx = <<>> /\ noSpace = FALSE
    /\ ready = FALSE
    /\ peer = "open"
    /\ consumed = 0 /\ appSent = 0 /\ peerSent = 0 /\ peerGot = 0 /\ dropped = 0

-----------------------------------------------------------------------------
(* The peer and the kernel.  Whatever arrives wakes the epoll item up.     *)

PeerSend ==
    /\ peer = "open" /\ ~reset /\ file # "closed" /\ peerSent < MaxIn
    /\ peerSent' = peerSent + 1
    /\ rx' = Append(rx, peerSent + 1)
    /\ ready' = (file = "open")
    /\ UNCHANGED <<file, buffers, closeOnSent, calls, loop, fin, reset, tx, noSpace, peer,
                   consumed, appSent, peerGot, dropped>>

\* Room in the send queue wakes up only a writer that found it full.
PeerRead ==
    /\ peer = "open" /\ ~reset /\ tx # <<>>
    /\ peerGot' = Head(tx)
    /\ tx' = Tail(tx)
    /\ noSpace' = FALSE
    /\ ready' = (ready \/ (noSpace /\ file = "open"))
    /\ UNCHANGED <<file, buffers, closeOnSent, calls, loop, rx, fin, reset, peer,
                   consumed, appSent, peerSent, dropped>>

PeerClose ==
    /\ peer = "open" /\ ~reset
    /\ peer' = "closed"
    /\ fin' = TRUE
    /\ ready' = (file = "open")
    /\ UNCHANGED <<file, buffers, closeOnSent, calls, loop, rx, reset, tx, noSpace, streams>>

\* Bytes for a closed peer are answered with a reset.
PeerResets ==
    /\ peer = "closed" /\ ~reset /\ tx # <<>>
    /\ reset' = TRUE
    /\ tx' = <<>> /\ dropped' = dropped + Len(tx)
    /\ ready' = (file = "open")
    /\ UNCHANGED <<file, buffers, closeOnSent, calls, loop, rx, fin, noSpace, peer,
                   consumed, appSent, peerSent, peerGot>>

\* The peer dies with bytes unread: a reset and no FIN.
PeerAborts ==
    /\ peer = "open" /\ ~reset
    /\ peer' = "closed" /\ reset' = TRUE
    /\ tx' = <<>> /\ dropped' = dropped + Len(tx)
    /\ ready' = (file = "open")
    /\ UNCHANGED <<file, buffers, closeOnSent, calls, loop, rx, fin, noSpace,
                   consumed, appSent, peerSent, peerGot>>

\* What poll reports; IN and OUT are subscribed, HUP comes unasked, RDHUP does not.
Readable == rx # <<>> \/ fin \/ reset
Writable == Len(tx) < SendSpace \/ reset
Polled == (IF Readable THEN <<"DataIn">> ELSE <<>>) \o (IF Writable THEN <<"DataOut">> ELSE <<>>)

-----------------------------------------------------------------------------
(* Pieces of Socket.                                                       *)

(* Socket::close: shutdown and close.  The kernel goes on delivering what  *)
(* it holds for the peer unless bytes of the peer are left unread.         *)
Close(unread) ==
    /\ file' = "closed"
    /\ tx' = IF unread = <<>> THEN tx ELSE <<>>
    /\ dropped' = IF unread = <<>> THEN dropped ELSE dropped + Len(tx)

Stay == UNCHANGED <<file, tx, dropped>>

\* What this call of writeFromBuffer has still to write.
Pending == Without(written, writeBuffer)

\* Socket::send of the next byte of the business logic, as far as the first ::write.
Send(caller) ==
    /\ appSent < MaxOut
    /\ appSent' = appSent + 1
    /\ writeBuffer' = Append(writeBuffer, appSent + 1)
    /\ pc' = "write" /\ writer' = caller

\* receive(bytesAvailable): everything in the read buffer.
TakeAll(available) ==
    /\ readBuffer' = <<>>
    /\ consumed' = consumed + Len(available)

Keep(available) == readBuffer' = available /\ UNCHANGED consumed

Silent == UNCHANGED <<closeOnSent, appSent, writeBuffer, pc, writer>>

(* dataReceived() of the business logic, with "available" in the read      *)
(* buffer: keep it, take it, take it and answer, perhaps for the last      *)
(* time, or close (the flood protection of src/system/test/epoll.cpp).     *)
DataReceived(available, unread) ==
    \/ Keep(available) /\ Silent /\ Stay
    \/ TakeAll(available) /\ Silent /\ Stay
    \/ TakeAll(available) /\ closeOnSent' \in {closeOnSent, TRUE} /\ Send("read") /\ Stay
    \/ Keep(available) /\ Silent /\ Close(unread)

-----------------------------------------------------------------------------
(* The event loop.                                                         *)

\* The listener's dataReceived(): accept, and EPoll::add, which finds OUT ready.
Accept ==
    /\ pc = "wait" /\ file = "none"
    /\ file' = "open"
    /\ ready' = TRUE
    /\ UNCHANGED <<buffers, closeOnSent, calls, loop, rx, fin, reset, tx, noSpace, peer, streams>>

\* EPoll::wait: one edge, turned into the events of the socket.
Wait ==
    /\ pc = "wait" /\ file = "open" /\ ready
    /\ ready' = FALSE
    /\ batch' = IF reset THEN <<"Hangup">> ELSE Polled
    /\ noSpace' = (noSpace \/ ~Writable)
    /\ pc' = "control"
    /\ UNCHANGED <<file, buffers, closeOnSent, calls, old, report, told, drained,
                   rx, fin, reset, tx, peer, streams>>

\* An event of a socket closed since the harvest is skipped.
SkipClosed ==
    /\ pc = "control" /\ batch # <<>> /\ file = "closed"
    /\ batch' = Tail(batch)
    /\ UNCHANGED <<file, buffers, closeOnSent, calls, pc, old, report, told, drained,
                   kernel, peer, streams>>

\* controlError: EPOLLHUP and EPOLLERR end the connection.
Hangup ==
    /\ pc = "control" /\ batch # <<>> /\ file = "open" /\ Head(batch) = "Hangup"
    /\ report' = report \cup {"ClosedByPeer"}
    /\ batch' = Tail(batch)
    /\ UNCHANGED <<file, buffers, closeOnSent, calls, pc, old, told, drained,
                   kernel, peer, streams>>

\* controlDataIn, as far as the first ::read of readToBuffer.
DataIn ==
    /\ pc = "control" /\ batch # <<>> /\ file = "open" /\ Head(batch) = "DataIn"
    /\ old' = totalReceived
    /\ batch' = Tail(batch)
    /\ pc' = "read"
    /\ UNCHANGED <<file, buffers, closeOnSent, calls, report, told, drained, kernel, peer, streams>>

\* controlDataOut, as far as the first ::write of writeFromBuffer.
DataOut ==
    /\ pc = "control" /\ batch # <<>> /\ file = "open" /\ Head(batch) = "DataOut"
    /\ batch' = Tail(batch)
    /\ pc' = "write" /\ writer' = "dataOut"
    /\ UNCHANGED <<file, buffers, closeOnSent, written, reader, want, old, report, told,
                   drained, kernel, peer, streams>>

\* Who called readToBuffer gets the control back, and its locals are gone.
ReaderReturns ==
    /\ pc' = IF want = 0 THEN "control" ELSE reader
    /\ want' = 0 /\ reader' = "wait" /\ old' = 0

\* An exception leaves readToBuffer: caught by waitAndControl, or receive() raises it.
ReadRaises ==
    /\ ReaderReturns
    /\ report' = report \cup (IF want = 0 THEN {"Exception"} ELSE {})

\* mutant: one read for an edge
ReadBytesOnce ==
    /\ pc = "read" /\ file = "open" /\ rx # <<>>
    /\ LET n == Min(ReadSize, Len(rx))
           unread == Without(n, rx)
       IN  /\ rx' = unread
           /\ totalReceived' = totalReceived + n
           /\ TakeAll(readBuffer \o First(n, rx))
    /\ ReaderReturns
    /\ UNCHANGED <<file, writeBuffer, totalSent, closeOnSent, written, writer, batch,
                   report, told, drained, fin, reset, tx, noSpace, ready, peer, appSent,
                   peerSent, peerGot, dropped>>

(* readToBuffer: one ::read that returns bytes, and dataReceived() for     *)
(* them, as far as the first ::write if it answers; if it closes the       *)
(* socket nothing more is read.                                            *)
ReadBytes ==
    /\ pc = "read" /\ file = "open" /\ rx # <<>>
    /\ LET n == Min(ReadSize, Len(rx))
           unread == Without(n, rx)
       IN  /\ rx' = unread
           /\ totalReceived' = totalReceived + n
           /\ DataReceived(readBuffer \o First(n, rx), unread)
    /\ drained' = (drained \/ (want > 0 /\ reader = "control"))
    /\ UNCHANGED <<totalSent, written, reader, want, batch, old, report, told,
                   fin, reset, noSpace, ready, peer, peerSent, peerGot>>

\* readToBuffer: ::read returns ECONNRESET, or EOF if the error was already fetched.
ReadFails ==
    /\ pc = "read" /\ file = "open" /\ rx = <<>> /\ reset /\ ~fin
    /\ ReadRaises
    /\ UNCHANGED <<file, buffers, closeOnSent, written, writer, batch, told,
                   drained, kernel, peer, streams>>

ReadEnds == pc = "read" /\ (file = "closed" \/ rx = <<>>)

\* mutant: every read that ends is taken for the end of the connection
ControlDataInReturnsAlwaysClosed ==
    /\ ReadEnds /\ want = 0
    /\ report' = report \cup {"ClosedByPeer"}
                        \cup (IF file = "closed" THEN {"ClosedByHost"} ELSE {})
    /\ ReaderReturns
    /\ UNCHANGED <<file, buffers, closeOnSent, written, writer, batch, told,
                   drained, kernel, peer, streams>>

\* mutant: the connection ended if it never carried a byte
ControlDataInReturnsNeverAny ==
    /\ ReadEnds /\ want = 0
    /\ report' = report \cup (IF totalReceived = 0 THEN {"ClosedByPeer"} ELSE {})
                        \cup (IF file = "closed" THEN {"ClosedByHost"} ELSE {})
    /\ ReaderReturns
    /\ UNCHANGED <<file, buffers, closeOnSent, written, writer, batch, told,
                   drained, kernel, peer, streams>>

\* controlDataIn after readToBuffer: nothing new means that the peer has closed.
ControlDataInReturns ==
    /\ ReadEnds /\ want = 0
    /\ report' = report \cup (IF old = totalReceived THEN {"ClosedByPeer"} ELSE {})
                        \cup (IF file = "closed" THEN {"ClosedByHost"} ELSE {})
    /\ ReaderReturns
    /\ UNCHANGED <<file, buffers, closeOnSent, written, writer, batch, told,
                   drained, kernel, peer, streams>>

\* The bytes receive() returns; with fewer it raises "Can not yet read".
Take(length) ==
    IF Len(readBuffer) < length
    THEN UNCHANGED <<readBuffer, consumed>>
    ELSE readBuffer' = Without(length, readBuffer) /\ consumed' = consumed + length

\* receive(want) after readToBuffer.
ReceiveReturns ==
    /\ ReadEnds /\ want > 0
    /\ Take(want)
    /\ ReaderReturns
    /\ UNCHANGED <<file, writeBuffer, totalReceived, totalSent, closeOnSent, written, writer,
                   batch, report, told, drained, kernel, peer, appSent,
                   peerSent, peerGot, dropped>>

(* writeFromBuffer: one ::write, of as much as the kernel has room for.    *)
(* Between two of them the peer may read, close or reset.                  *)
WriteBytes ==
    /\ pc = "write" /\ ~reset /\ Pending # <<>> /\ Len(tx) < SendSpace
    /\ LET n == Min(Len(Pending), SendSpace - Len(tx))
       IN  /\ tx' = tx \o First(n, Pending)
           /\ written' = written + n
           /\ noSpace' = (noSpace \/ n < Len(Pending))
    /\ UNCHANGED <<file, buffers, closeOnSent, writer, reader, want, loop, rx, fin, reset,
                   ready, peer, streams>>

(* Who called writeFromBuffer gets the control back.  controlDataOut       *)
(* re-arms the item when the kernel was full (dataIsPending) and reports a *)
(* reset or a close; send() raises a reset, out of readToBuffer when       *)
(* dataReceived() has called it, or to the program.                        *)
WriterReturns(full) ==
    /\ writer' = "wait"
    /\ \/ /\ writer = "dataOut"
          /\ pc' = "control"
          /\ report' = report \cup (IF reset THEN {"ClosedByPeer"} ELSE {})
                              \cup (IF file' = "closed" THEN {"ClosedByHost"} ELSE {})
          /\ ready' = (ready \/ (full /\ Readable))
          /\ UNCHANGED <<want, reader, old>>
       \/ /\ writer = "read" /\ reset
          /\ ReadRaises
          /\ UNCHANGED ready
       \/ /\ \/ writer = "read" /\ ~reset /\ pc' = "read"
             \/ writer \in {"wait", "control"} /\ pc' = writer
          /\ UNCHANGED <<want, reader, old, report, ready>>

\* mutant: a reset is raised before the bytes already written are counted and chopped off
WriteEndsRaisesFirst ==
    /\ pc = "write" /\ (reset \/ Pending = <<>> \/ Len(tx) >= SendSpace)
    /\ IF reset THEN UNCHANGED <<totalSent, writeBuffer>>
       ELSE totalSent' = totalSent + written /\ writeBuffer' = Pending
    /\ written' = 0
    /\ LET full == ~reset /\ Pending # <<>>
       IN  /\ noSpace' = (noSpace \/ full)
           /\ IF closeOnSent /\ ~reset /\ ~full THEN Close(rx) ELSE Stay
           /\ WriterReturns(full)
    /\ UNCHANGED <<readBuffer, totalReceived, closeOnSent, batch, told,
                   drained, rx, fin, reset, peer, consumed, appSent, peerSent, peerGot>>

\* mutant: closes with data left in writeBuffer
WriteEndsHasty ==
    /\ pc = "write" /\ (reset \/ Pending = <<>> \/ Len(tx) >= SendSpace)
    /\ totalSent' = totalSent + written
    /\ writeBuffer' = Pending
    /\ written' = 0
    /\ LET full == ~reset /\ Pending # <<>>
       IN  /\ noSpace' = (noSpace \/ full)
           /\ IF closeOnSent /\ ~reset THEN Close(rx) ELSE Stay
           /\ WriterReturns(full)
    /\ UNCHANGED <<readBuffer, totalReceived, closeOnSent, batch, told,
                   drained, rx, fin, reset, peer, consumed, appSent, peerSent, peerGot>>

(* writeFromBuffer after its last ::write, which found nothing left to     *)
(* write, the kernel full (EAGAIN) or the connection reset.  The bytes     *)
(* written are counted and chopped off in every case, then a reset is      *)
(* raised, and closeOnSent closes once nothing is left.                    *)
WriteEnds ==
    /\ pc = "write" /\ (reset \/ Pending = <<>> \/ Len(tx) >= SendSpace)
    /\ totalSent' = totalSent + written
    /\ writeBuffer' = Pending
    /\ written' = 0
    /\ LET full == ~reset /\ Pending # <<>>
       IN  /\ noSpace' = (noSpace \/ full)
           /\ IF closeOnSent /\ ~reset /\ ~full THEN Close(rx) ELSE Stay
           /\ WriterReturns(full)
    /\ UNCHANGED <<readBuffer, totalReceived, closeOnSent, batch, told,
                   drained, rx, fin, reset, peer, consumed, appSent, peerSent, peerGot>>

\* waitAndControl returns its list.
WaitAndControlReturns ==
    /\ pc = "control" /\ batch = <<>>
    /\ pc' = "report"
    /\ drained' = FALSE
    /\ UNCHANGED <<file, buffers, closeOnSent, calls, batch, old, report, told,
                   kernel, peer, streams>>

(* The main loop of the business logic (src/tools/nc.cpp): a connection    *)
(* with any control event is removed, and its destructor closes.           *)
HandleReport ==
    /\ pc = "report"
    /\ told' = told \cup report
    /\ report' = {}
    /\ pc' = "wait"
    /\ IF report # {} /\ file = "open" THEN Close(rx) ELSE Stay
    /\ UNCHANGED <<buffers, closeOnSent, calls, batch, old, drained, rx, fin, reset, noSpace,
                   ready, peer, consumed, appSent, peerSent, peerGot>>

-----------------------------------------------------------------------------
(* The program between two calls of waitAndControl, and in the callbacks   *)
(* of the other sockets of a batch: send(), receive() and closeOnSent are  *)
(* public.                                                                 *)

Outside == pc \in {"wait", "control"} /\ file = "open"

CallSend ==
    /\ Outside
    /\ Send(pc)
    /\ UNCHANGED <<file, readBuffer, totalReceived, totalSent, closeOnSent, written, reader, want,
                   batch, old, report, told, drained, kernel, peer,
                   consumed, peerSent, peerGot, dropped>>

SetCloseOnSent ==
    /\ Outside /\ ~closeOnSent
    /\ closeOnSent' = TRUE
    /\ UNCHANGED <<file, buffers, calls, loop, kernel, peer, streams>>

\* receive(length): what is buffered is enough, or readToBuffer is called.
CallReceive(length) ==
    /\ Outside
    /\ IF length <= Len(readBuffer)
       THEN Take(length) /\ UNCHANGED <<pc, want, reader>>
       ELSE /\ pc' = "read" /\ want' = length /\ reader' = pc
            /\ UNCHANGED <<readBuffer, consumed>>
    /\ UNCHANGED <<file, writeBuffer, totalReceived, totalSent, closeOnSent, written, writer,
                   batch, old, report, told, drained, kernel, peer, appSent,
                   peerSent, peerGot, dropped>>

-----------------------------------------------------------------------------
Peer == PeerSend \/ PeerRead \/ PeerClose \/ PeerResets \/ PeerAborts

WaitAndControl ==
    \/ Wait \/ SkipClosed \/ Hangup \/ DataIn \/ DataOut
    \/ WaitAndControlReturns \/ HandleReport

Reading == ReadBytes \/ ReadFails \/ ControlDataInReturns \/ ReceiveReturns

Writing == WriteBytes \/ WriteEnds

EventLoop == Accept \/ WaitAndControl \/ Reading \/ Writing

Program == CallSend \/ SetCloseOnSent \/ \E length \in 1 .. MaxIn : CallReceive(length)

Next == Peer \/ EventLoop \/ Program

Spec == Init /\ [][Next]_vars

(* The program calls waitAndControl in a loop and its callbacks return, so *)
(* the loop moves whenever it can, and goes on however often the program   *)
(* calls receive() in between: hence SF.  A peer that stays reads what it  *)
(* was sent, and a kernel that owes a reset sends it; a peer need not      *)
(* send, close or die.  That a read loop ends is the bound MaxIn.          *)
FairSpec ==
    /\ Spec
    /\ WF_vars(EventLoop)
    /\ SF_vars(WaitAndControl)
    /\ WF_vars(PeerRead)
    /\ WF_vars(PeerResets)

-----------------------------------------------------------------------------
(* Properties.                                                             *)

(* readToBuffer, dataReceived() and receive() neither lose, repeat nor     *)
(* reorder a byte: what the business logic has not taken yet is, in order, *)
(* what the read buffer and the kernel hold.                               *)
ReadStreamIntact == readBuffer \o rx = UpTo(consumed, peerSent)

(* The same for send() and writeFromBuffer, in every step of the loop of   *)
(* ::write, whatever partial writes, full kernels and resets come between: *)
(* behind the bytes the peer has got, and those that went down with a      *)
(* connection that was reset or closed, come in order those the kernel     *)
(* holds and those the write buffer has still to give it.                  *)
WriteStreamIntact ==
    /\ tx \o Pending = UpTo(peerGot + dropped, appSent)
    /\ dropped > 0 => reset \/ file = "closed"

(* totalBytesReceived and totalBytesSent are what was read and written,    *)
(* also when a callback closes the socket, or a write raises after bytes   *)
(* went out; controlDataIn decides from the first of them.                 *)
TotalsAgree ==
    /\ totalReceived = consumed + Len(readBuffer)
    /\ totalSent + Len(writeBuffer) = appSent

(* The three together: what controlDataIn infers from a total is only as   *)
(* good as the streams the total counts, in every interleaving of          *)
(* callbacks, partial writes and resets.                                   *)
StreamsIntact == ReadStreamIntact /\ WriteStreamIntact /\ TotalsAgree

(* ClosedByPeer is reported only for a peer that has closed or died, so    *)
(* never for an edge that simply brought nothing to read, with one         *)
(* exception: between the harvest of the batch and the handling of its     *)
(* DataIn, receive() in the callback of another socket has read the bytes  *)
(* the event was about.                                                    *)
NoSpuriousClosedByPeer ==
    [][("ClosedByPeer" \in report' \ report) => fin \/ reset \/ drained]_vars

(* closeOnSent never closes over unsent bytes: outside dataReceived() and  *)
(* the destructor, the socket closes with an empty write buffer and only   *)
(* when it was asked to.                                                   *)
ClosesOnlyWhenAllIsSent ==
    [][(file = "open" /\ file' = "closed" /\ pc \notin {"read", "report"})
            => (closeOnSent /\ writeBuffer' = <<>>)]_vars

(* No edge is lost.  The bytes that arrived are all read, and what send()  *)
(* could not write is written later "in the background".                   *)
DataEventuallyReceived == (rx # <<>> /\ file = "open") ~> (rx = <<>> \/ file = "closed")

PendingEventuallySent ==
    (writeBuffer # <<>> /\ file = "open") ~> (writeBuffer = <<>> \/ file = "closed")

NoEdgeIsLost == DataEventuallyReceived /\ PendingEventuallySent

(* A connection asked to close on sent, with bytes to send, is closed.     *)
ClosesOnceSent == (closeOnSent /\ writeBuffer # <<>> /\ file = "open") ~> (file = "closed")

(* closeOnSent keeps both halves of its word: never too early, and not     *)
(* never, also when a full kernel splits the last write.                   *)
CloseOnSentWaits == ClosesOnlyWhenAllIsSent /\ ClosesOnceSent

(* A connection that was reset is reported and removed.                    *)
ResetIsReported == (reset /\ file = "open") ~> (file = "closed")

(* A FIN whose edge has not been harvested when the bytes before it have   *)
(* all been read is reported, and the connection removed.                  *)
LoneCloseIsReported ==
    (fin /\ ready /\ rx = <<>> /\ pc = "wait" /\ file = "open") ~> (file = "closed")

(* Whatever else the batch says, a connection whose peer is gone leaves    *)
(* the program, unless its FIN hides behind data (PeerCloseIsReported).    *)
HangupsAreReported == ResetIsReported /\ LoneCloseIsReported

(* "Server experiences closed by peer state": whenever the peer has        *)
(* closed, the business logic is told.                                     *)
PeerCloseIsReported == (fin /\ file = "open") ~> (told # {} \/ file = "closed")
==============================================================================
