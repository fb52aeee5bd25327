------------------------------- MODULE Listening -------------------------------
(***************************************************************************)
(* A program with one csjp::EPollControl, a csjp::Listener in it, and a    *)
(* csjp::Server for each connection it accepts.  EPoll looks at the bytes  *)
(* of one connection; here they are only there or not, and what matters is *)
(* what several sockets do to each other: edges that share an event        *)
(* buffer, events of a batch that come after their socket was closed, and  *)
(* control events that name a socket the program has removed.              *)
(*                                                                         *)
(* Two programs: "nc" (src/tools/nc.cpp) takes one connection, and stops   *)
(* with the first control event; "server" is the one the tests of the      *)
(* library are written after (src/system/test/epoll.cpp, http.cpp): it     *)
(* adds what it has accepted after waitAndControl, and removes every       *)
(* socket that is reported.                                                *)
(***************************************************************************)
EXTENDS Naturals, Sequences, FiniteSets, SequencesExt, FiniteSetsExt

CONSTANTS
    Connections,  \* the peers that may connect
    EventLengths  \* the lengths the event buffer may have

ASSUME ListeningAssumption ==
    /\ IsFiniteSet(Connections)
    /\ "listener" \notin Connections
    /\ EventLengths \subseteq Nat \ {0}

VARIABLES
    program,    \* "nc" or "server"
    events,     \* the length of EPoll::events
    phase,      \* of a connection: "away", "queued" for accept, "accepted", "served" (in
                \* the epoll file), "closed" by the program (-1), "gone" (the object, too)
    unread, fin, reset,  \* kernel: of each connection, what its socket would report
    queue,      \* kernel: the connections to accept
    listening,  \* the listener is in the epoll file
    ready,      \* kernel: the ready list of the epoll file
    pc,         \* "wait", "control", "report"; "done" and "failed" end the program
    batch,      \* the sockets waitAndControl has still to control, with their events
    reading,    \* the read loop for the first of them: "no" (it does not run), "nothing"
                \* or "bytes" (what it has read so far)
    reports     \* the control events it returns

peers == <<unread, fin, reset>>
vars == <<program, events, phase, peers, queue, listening, ready, pc, batch, reading, reports>>

Listener == "listener"
Event(socket, code) == [socket |-> socket, code |-> code]

\* mutant: a queue for accept()
IncomingConnectionQueueLengthOne == 1

\* The default of the listener: one connection is queued, the next one is not taken in.
IncomingConnectionQueueLength == 0

Init ==
    /\ program \in {"nc", "server"} /\ events \in EventLengths
    /\ phase = [c \in Connections |-> "away"]
    /\ unread = [c \in Connections |-> FALSE] /\ fin = unread /\ reset = unread
    /\ queue = <<>> /\ listening = TRUE /\ ready = <<>>
    /\ pc = "wait" /\ batch = <<>> /\ reading = "no" /\ reports = <<>>

-----------------------------------------------------------------------------
(* The peers and the kernel.  An item is in the ready list once.           *)
Woken(item) == IF Contains(ready, item) THEN ready ELSE Append(ready, item)

Connect(c) ==
    /\ phase[c] = "away" /\ Len(queue) <= IncomingConnectionQueueLength
    /\ phase' = [phase EXCEPT ![c] = "queued"]
    /\ queue' = Append(queue, c)
    /\ ready' = IF listening THEN Woken(Listener) ELSE ready
    /\ UNCHANGED <<program, events, peers, listening, pc, batch, reading, reports>>

Moves(c) ==
    /\ phase[c] \in {"queued", "accepted", "served"} /\ ~reset[c]
    /\ ready' = IF phase[c] = "served" THEN Woken(c) ELSE ready
    /\ UNCHANGED <<program, events, phase, queue, listening, pc, batch, reading, reports>>

PeerSends(c) == ~fin[c] /\ Moves(c) /\ unread' = [unread EXCEPT ![c] = TRUE] /\ UNCHANGED <<fin, reset>>
PeerCloses(c) == ~fin[c] /\ Moves(c) /\ fin' = [fin EXCEPT ![c] = TRUE] /\ UNCHANGED <<unread, reset>>
PeerResets(c) == Moves(c) /\ reset' = [reset EXCEPT ![c] = TRUE] /\ UNCHANGED <<unread, fin>>

-----------------------------------------------------------------------------
(* EPoll::wait: as many sockets as the buffer holds, each with its events. *)
(* Nothing is sent here, so a socket can always be written to.             *)
EventsOf(socket) ==
    IF socket = Listener THEN <<"IncomingConnection">>
    ELSE IF reset[socket] THEN <<"Hangup">>
    ELSE IF unread[socket] \/ fin[socket] THEN <<"DataIn", "DataOut">>
    ELSE <<"DataOut">>

Harvest(taken) ==
    [i \in DOMAIN taken |-> [socket |-> taken[i], codes |-> EventsOf(taken[i])]]

Wait ==
    /\ pc = "wait" /\ ready # <<>>
    /\ LET n == Min({events, Len(ready)})
       IN  /\ batch' = Harvest(SubSeq(ready, 1, n))
           /\ ready' = SubSeq(ready, n + 1, Len(ready))
    /\ pc' = "control"
    /\ UNCHANGED <<program, events, phase, peers, queue, listening, reading, reports>>

-----------------------------------------------------------------------------
(* waitAndControl, one event after the other.                              *)
IsNext(socket, code) ==
    /\ pc = "control" /\ batch # <<>>
    /\ Head(batch).socket = socket /\ Head(Head(batch).codes) = code

\* The event has been controlled.
Controls(socket, code) ==
    /\ IsNext(socket, code)
    /\ reading' = "no"
    /\ batch' = IF Len(Head(batch).codes) = 1 THEN Tail(batch)
                ELSE <<[Head(batch) EXCEPT !.codes = Tail(@)]>> \o Tail(batch)
    /\ UNCHANGED <<program, events, fin, reset, pc>>

Reports(socket, codes) ==
    reports' = reports \o [i \in DOMAIN codes |-> Event(socket, codes[i])]

\* An event of a socket closed since the harvest is skipped.
SkipClosed(c, code) ==
    /\ Controls(c, code) /\ phase[c] = "closed"
    /\ UNCHANGED <<phase, unread, queue, listening, ready, reports>>

\* dataReceived() of the listener: the constructor of Server calls accept4() once.
Accept ==
    /\ Controls(Listener, "IncomingConnection")
    /\ queue' = Tail(queue)
    /\ IF program = "nc"
       THEN /\ phase' = [phase EXCEPT ![Head(queue)] = "served"]
            /\ listening' = FALSE
            /\ ready' = Append(RemoveFirst(ready, Listener), Head(queue))
       ELSE /\ phase' = [phase EXCEPT ![Head(queue)] = "accepted"]
            /\ UNCHANGED <<listening, ready>>
    /\ UNCHANGED <<unread, reports>>

\* accept4() fails, for want of a descriptor, say: it is the listener that is reported.
AcceptFails ==
    /\ Controls(Listener, "IncomingConnection")
    /\ Reports(Listener, <<"Exception">>)
    /\ UNCHANGED <<phase, unread, queue, listening, ready>>

Hangup(c) ==
    /\ Controls(c, "Hangup") /\ phase[c] = "served"
    /\ Reports(c, <<"ClosedByPeer">>)
    /\ UNCHANGED <<phase, unread, queue, listening, ready>>

\* controlDataIn, as far as the first ::read of readToBuffer.
DataIn(c) ==
    /\ IsNext(c, "DataIn") /\ phase[c] = "served" /\ reading = "no"
    /\ reading' = "nothing"
    /\ UNCHANGED <<program, events, phase, peers, queue, listening, ready, pc, batch, reports>>

(* readToBuffer: a ::read that returns bytes.  It goes on until there are  *)
(* none, and a peer that sends faster than that keeps it, and with it the  *)
(* program, for itself.                                                    *)
ReadBytes(c) ==
    /\ IsNext(c, "DataIn") /\ reading # "no" /\ unread[c]
    /\ unread' = [unread EXCEPT ![c] = FALSE]
    /\ reading' = "bytes"
    /\ UNCHANGED <<program, events, phase, fin, reset, queue, listening, ready, pc, batch, reports>>

\* The callback for those bytes closes the socket, which the kernel then forgets.
ReadCloses(c) ==
    /\ Controls(c, "DataIn") /\ reading # "no" /\ unread[c] /\ phase[c] = "served"
    /\ unread' = [unread EXCEPT ![c] = FALSE]
    /\ phase' = [phase EXCEPT ![c] = "closed"]
    /\ ready' = RemoveFirst(ready, c)
    /\ Reports(c, <<"ClosedByHost">>)
    /\ UNCHANGED <<queue, listening>>

\* Nothing is left: a reset raises, and a FIN is noticed only when nothing came before it.
ReadEnds(c) ==
    /\ Controls(c, "DataIn") /\ reading # "no" /\ ~unread[c] /\ phase[c] = "served"
    /\ Reports(c, IF reset[c] /\ ~fin[c] THEN <<"Exception">>
                  ELSE IF reading = "nothing" THEN <<"ClosedByPeer">> ELSE <<>>)
    /\ UNCHANGED <<phase, unread, queue, listening, ready>>

\* mutant: it is not looked whether the socket is closed; writeFromBuffer throws then
DataOutOfClosed(c) ==
    /\ Controls(c, "DataOut")
    /\ Reports(c, IF phase[c] = "closed" THEN <<"Exception">>
                  ELSE IF reset[c] THEN <<"ClosedByPeer">> ELSE <<>>)
    /\ UNCHANGED <<phase, unread, queue, listening, ready>>

DataOut(c) ==
    /\ Controls(c, "DataOut") /\ phase[c] = "served"
    /\ Reports(c, IF reset[c] THEN <<"ClosedByPeer">> ELSE <<>>)
    /\ UNCHANGED <<phase, unread, queue, listening, ready>>

WaitAndControlReturns ==
    /\ pc = "control" /\ batch = <<>>
    /\ pc' = "report"
    /\ UNCHANGED <<program, events, phase, peers, queue, listening, ready, batch, reading, reports>>

-----------------------------------------------------------------------------
(* The main loops.  Whatever is reported is removed from the container,    *)
(* which throws for a socket it does not hold.                             *)
Held(socket) == socket # Listener /\ phase[socket] # "gone"

RemoveReported ==
    /\ phase' = [phase EXCEPT ![Head(reports).socket] = "gone"]
    /\ ready' = RemoveFirst(ready, Head(reports).socket)

\* mutant: nc goes on with the list
HandleReportGoesOn ==
    /\ pc = "report" /\ reports # <<>> /\ Held(Head(reports).socket)
    /\ RemoveReported
    /\ reports' = Tail(reports)
    /\ pc' = IF program = "nc" /\ Len(reports) = 1 THEN "done" ELSE pc
    /\ UNCHANGED <<program, events, peers, queue, listening, batch, reading>>

HandleReport ==
    /\ pc = "report" /\ reports # <<>> /\ Held(Head(reports).socket)
    /\ RemoveReported
    /\ reports' = Tail(reports)
    /\ pc' = IF program = "nc" THEN "done" ELSE pc
    /\ UNCHANGED <<program, events, peers, queue, listening, batch, reading>>

RemoveFails ==
    /\ pc = "report" /\ reports # <<>> /\ ~Held(Head(reports).socket)
    /\ pc' = "failed"
    /\ UNCHANGED <<program, events, phase, peers, queue, listening, ready, batch, reading, reports>>

\* The list is done; the server adds what it has accepted, and add() finds OUT ready.
GoOn ==
    /\ pc = "report" /\ reports = <<>>
    /\ LET accepted == {c \in Connections : phase[c] = "accepted"}
       IN  /\ phase' = [c \in Connections |-> IF c \in accepted THEN "served" ELSE phase[c]]
           /\ \E added \in SetToSeqs(accepted) : ready' = ready \o added
    /\ pc' = "wait"
    /\ UNCHANGED <<program, events, peers, queue, listening, batch, reading, reports>>

-----------------------------------------------------------------------------
Peers == \E c \in Connections : Connect(c) \/ PeerSends(c) \/ PeerCloses(c) \/ PeerResets(c)

MainLoop ==
    \/ Wait \/ Accept \/ AcceptFails \/ WaitAndControlReturns
    \/ \E c \in Connections :
          \/ Hangup(c) \/ DataOut(c)
          \/ DataIn(c) \/ ReadBytes(c) \/ ReadCloses(c) \/ ReadEnds(c)
          \/ \E code \in {"DataIn", "DataOut", "Hangup"} : SkipClosed(c, code)
    \/ HandleReport \/ RemoveFails \/ GoOn

Next == Peers \/ MainLoop

(* The program calls waitAndControl again and again, its callbacks return, *)
(* and ::read does not block; the peers need not do anything.  That a read *)
(* loop ends is not assumed.                                               *)
Spec == Init /\ [][Next]_vars /\ WF_vars(MainLoop)

-----------------------------------------------------------------------------
(* Properties.                                                             *)

(* A list of control events names a socket twice only if its connection    *)
(* was reset while the batch was controlled: the read has noticed it, or a *)
(* FIN before it, and then the write does.  A socket the program closed,   *)
(* and the listener, are reported once.                                    *)
ReportedOnce ==
    \A i, j \in DOMAIN reports :
        i < j /\ reports[i].socket = reports[j].socket =>
            /\ reports[i].socket # Listener /\ reset[reports[i].socket]
            /\ reports[i].code # "ClosedByHost" /\ reports[j].code = "ClosedByPeer"

(* The container throws only for the listener, whose accept() has failed,  *)
(* or, in a program that goes through the whole list, for the second       *)
(* report of a reset connection; nc is right to stop with the first.       *)
RemovesWhatItHolds ==
    pc = "failed" =>
        LET socket == Head(reports).socket
        IN  socket = Listener \/ (program = "server" /\ reset[socket])

Stopped == pc \in {"done", "failed"}

(* No peer sends for ever without a pause in which readToBuffer finds      *)
(* nothing: the one thing the loop needs of its peers.                     *)
ReadLoopsEnd == []<>(reading = "no")

(* As long as the read loops end, every connection is accepted though the  *)
(* listener accepts one for an edge: while one is queued, no other can     *)
(* come in whose edge is the same.  With a longer queue the second of two  *)
(* would wait for a third.  And however few events the buffer holds, and   *)
(* whatever the other sockets do, bytes are read and resets end the        *)
(* connection.                                                             *)
EveryoneIsServed ==
    ReadLoopsEnd => \A c \in Connections :
        /\ program = "server" => (phase[c] = "queued") ~> (phase[c] # "queued" \/ Stopped)
        /\ (phase[c] = "served" /\ unread[c]) ~> (~unread[c] \/ phase[c] # "served" \/ Stopped)
        /\ (phase[c] = "served" /\ reset[c]) ~> (phase[c] # "served" \/ Stopped)
==============================================================================
