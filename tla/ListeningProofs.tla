--------------------------- MODULE ListeningProofs ---------------------------
(***************************************************************************)
(* Proofs about a program with a listener and the connections it accepts,  *)
(* for any number of connections and any length of the event buffer: a     *)
(* list of control events names a socket twice only if it was reset, and   *)
(* the container throws for nothing else.                                  *)
(*                                                                         *)
(* What was reported is not enough to know what will be: the invariant     *)
(* ties the reports to the events that are still to come, these to the     *)
(* ready list of the kernel, and that to the phases of the connections.    *)
(***************************************************************************)
EXTENDS Listening, SequenceTheorems, FiniteSetTheorems, TLAPS

Sockets == Connections \cup {Listener}
Phases == {"away", "queued", "accepted", "served", "closed", "gone"}
CodeLists == {<<"IncomingConnection">>, <<"Hangup">>, <<"DataIn", "DataOut">>, <<"DataOut">>}
ControlCodes == {"ClosedByPeer", "ClosedByHost", "Exception"}
Batches == [socket : Sockets, codes : CodeLists]
ControlEvents == [socket : Sockets, code : ControlCodes]

TypeOK ==
    /\ program \in {"nc", "server"} /\ events \in Nat \ {0}
    /\ phase \in [Connections -> Phases]
    /\ unread \in [Connections -> BOOLEAN] /\ fin \in [Connections -> BOOLEAN]
    /\ reset \in [Connections -> BOOLEAN]
    /\ queue \in Seq(Connections) /\ listening \in BOOLEAN
    /\ ready \in Seq(Sockets)
    /\ pc \in {"wait", "control", "report", "done", "failed"}
    /\ batch \in Seq(Batches) /\ reading \in {"no", "nothing", "bytes"}
    /\ reports \in Seq(ControlEvents)

Distinct(s) == \A i, j \in 1 .. Len(s) : s[i] = s[j] => i = j

InReady(socket) == \E i \in 1 .. Len(ready) : ready[i] = socket
InBatch(socket) == \E i \in 1 .. Len(batch) : batch[i].socket = socket

\* The ready list has a socket once, and of the connections those in the epoll file.
ReadyIsServed ==
    /\ Distinct(ready)
    /\ \A i \in 1 .. Len(ready) : ready[i] # Listener => phase[ready[i]] = "served"

\* So has a batch; a connection may have been closed since the harvest.
BatchWasServed ==
    /\ \A i, j \in 1 .. Len(batch) : batch[i].socket = batch[j].socket => i = j
    /\ \A i \in 1 .. Len(batch) :
          /\ batch[i].socket = Listener <=> batch[i].codes = <<"IncomingConnection">>
          /\ batch[i].socket # Listener => phase[batch[i].socket] \in {"served", "closed"}
    /\ pc # "control" => batch = <<>>

\* An edge of the listener is there for the one connection that is queued.
EdgeMeansQueued ==
    /\ Len(queue) <= 1
    /\ \A i \in 1 .. Len(queue) : phase[queue[i]] = "queued"
    /\ InReady(Listener) \/ InBatch(Listener) => Len(queue) = 1
    /\ ~(InReady(Listener) /\ InBatch(Listener))

\* What was reported has at most its write to come, and none if the program closed it.
ReportedAndPending ==
    /\ pc = "wait" => reports = <<>>
    /\ \A i \in 1 .. Len(reports), k \in 1 .. Len(batch) :
          reports[i].socket = batch[k].socket =>
              /\ k = 1 /\ batch[k].codes = <<"DataOut">>
              /\ reports[i].code = "ClosedByHost" => phase[batch[k].socket] = "closed"

\* What was reported is removed when its report is handled, and not before.
ReportedIsHeld ==
    \A i \in 1 .. Len(reports) :
        reports[i].socket # Listener =>
            /\ phase[reports[i].socket] \in {"served", "closed", "gone"}
            /\ pc = "control" => phase[reports[i].socket] \in {"served", "closed"}
            /\ pc \in {"report", "failed"} /\ phase[reports[i].socket] = "gone" =>
                   program = "server" /\ reset[reports[i].socket]

FailedAtReport ==
    pc = "failed" => reports # <<>> /\ ~Held(Head(reports).socket)

IInv ==
    /\ TypeOK /\ ReadyIsServed /\ BatchWasServed /\ EdgeMeansQueued
    /\ ReportedOnce /\ ReportedAndPending /\ ReportedIsHeld /\ FailedAtReport

-----------------------------------------------------------------------------
(* Sequences without repetition.                                           *)

LEMMA AppendKeepsDistinct ==
    ASSUME NEW S, NEW s \in Seq(S), Distinct(s), NEW x \in S,
           \A i \in 1 .. Len(s) : s[i] # x
    PROVE  /\ Append(s, x) \in Seq(S) /\ Distinct(Append(s, x))
           /\ Len(Append(s, x)) = Len(s) + 1
           /\ \A i \in 1 .. Len(Append(s, x)) :
                 Append(s, x)[i] = IF i = Len(s) + 1 THEN x ELSE s[i]
BY DEF Distinct

LEMMA SelectsTheOne ==
    ASSUME NEW S, NEW s \in Seq(S), Distinct(s), NEW x, NEW k \in 1 .. Len(s), s[k] = x
    PROVE  RemoveFirst(s, x) = RemoveAt(s, k)
<1>1. {i \in 1 .. Len(s) : s[i] = x} = {k}
  BY DEF Distinct
<1>2. Min({k}) = k
  <2>1. \A y \in {k} : (\A z \in {k} : y =< z) => y = k
    OBVIOUS
  <2>2. k \in {k} /\ \A z \in {k} : k =< z
    OBVIOUS
  <2> QED
    BY <2>1, <2>2 DEF Min
<1>3. SelectInSeq(s, LAMBDA v : v = x) = k
  BY <1>1, <1>2 DEF SelectInSeq
<1> QED
  BY <1>3 DEF RemoveFirst

\* What is removed is gone, for it was there once.
LEMMA RemoveFirstProperties ==
    ASSUME NEW S, NEW s \in Seq(S), Distinct(s), NEW x
    PROVE  /\ RemoveFirst(s, x) \in Seq(S) /\ Distinct(RemoveFirst(s, x))
           /\ \A i \in 1 .. Len(RemoveFirst(s, x)) :
                 /\ RemoveFirst(s, x)[i] # x
                 /\ \E j \in 1 .. Len(s) : RemoveFirst(s, x)[i] = s[j]
<1>0. Len(s) \in Nat
  OBVIOUS
<1>1. CASE \A i \in 1 .. Len(s) : s[i] # x
  BY <1>1 DEF RemoveFirst
<1>2. CASE \E i \in 1 .. Len(s) : s[i] = x
  <2>1. PICK k \in 1 .. Len(s) : s[k] = x
    BY <1>2
  <2> DEFINE before == SubSeq(s, 1, k - 1)
             behind == SubSeq(s, k + 1, Len(s))
             r == before \o behind
  <2>2. RemoveFirst(s, x) = r
    BY <2>1, SelectsTheOne DEF RemoveAt
  <2>3. before \in Seq(S) /\ behind \in Seq(S) /\ Len(before) = k - 1 /\ Len(behind) = Len(s) - k
    BY <1>0
  <2>4. /\ \A i \in 1 .. k - 1 : before[i] = s[i]
        /\ \A i \in 1 .. Len(s) - k : behind[i] = s[k + i]
    BY <1>0
  <2> HIDE DEF before, behind
  <2>5. r \in Seq(S) /\ Len(r) = Len(s) - 1
    BY <1>0, <2>3
  <2>6. \A i \in 1 .. Len(s) - 1 : r[i] = IF i < k THEN s[i] ELSE s[i + 1]
    <3> SUFFICES ASSUME NEW i \in 1 .. Len(s) - 1 PROVE r[i] = IF i < k THEN s[i] ELSE s[i + 1]
      OBVIOUS
    <3>1. CASE i < k
      <4>1. i \in 1 .. k - 1
        BY <1>0, <3>1
      <4>2. r[i] = before[i]
        BY <2>3, <4>1
      <4> QED
        BY <2>4, <3>1, <4>1, <4>2
    <3>2. CASE ~(i < k)
      <4>1. i - (k - 1) \in 1 .. Len(s) - k /\ k + (i - (k - 1)) = i + 1
        BY <1>0, <3>2
      <4>2. r[i] = behind[i - (k - 1)]
        BY <1>0, <2>3, <3>2, <4>1
      <4> QED
        BY <2>4, <3>2, <4>1, <4>2
    <3> QED
      BY <3>1, <3>2
  <2> HIDE DEF r
  <2>7. Distinct(r)
    BY <1>0, <2>5, <2>6 DEF Distinct
  <2>8. \A i \in 1 .. Len(r) : r[i] # x /\ \E j \in 1 .. Len(s) : r[i] = s[j]
    <3> SUFFICES ASSUME NEW i \in 1 .. Len(r) PROVE r[i] # x /\ \E j \in 1 .. Len(s) : r[i] = s[j]
      OBVIOUS
    <3> DEFINE j == IF i < k THEN i ELSE i + 1
    <3>1. j \in 1 .. Len(s) /\ j # k /\ r[i] = s[j]
      BY <1>0, <2>5, <2>6
    <3> HIDE DEF j
    <3> QED
      BY <2>1, <3>1 DEF Distinct
  <2> QED
    BY <2>2, <2>5, <2>7, <2>8
<1> QED
  BY <1>1, <1>2

-----------------------------------------------------------------------------
(* One event is controlled.                                                *)

LEMMA ControlsAnEvent ==
    ASSUME IInv, NEW socket, NEW code, Controls(socket, code)
    PROVE  /\ pc = "control" /\ 1 \in 1 .. Len(batch) /\ batch[1] \in Batches
           /\ batch[1].socket = socket /\ Head(batch[1].codes) = code
           /\ batch' \in Seq(Batches)
           /\ UNCHANGED <<program, events, fin, reset, pc>> /\ reading' = "no"
           /\ \/ /\ code # "DataIn" /\ batch[1].codes = <<code>>
                 /\ Len(batch') = Len(batch) - 1
                 /\ \A k \in 1 .. Len(batch') : k + 1 \in 1 .. Len(batch) /\ batch'[k] = batch[k + 1]
              \/ /\ code = "DataIn" /\ batch[1].codes = <<"DataIn", "DataOut">>
                 /\ Len(batch') = Len(batch)
                 /\ batch'[1].socket = socket /\ batch'[1].codes = <<"DataOut">>
                 /\ \A k \in 2 .. Len(batch) : batch'[k] = batch[k]
<1>0. batch \in Seq(Batches) /\ batch # <<>> /\ Len(batch) \in Nat
  BY DEF Controls, IsNext, IInv, TypeOK
<1> DEFINE b == batch[1]
           rest == Tail(batch)
           last == [b EXCEPT !.codes = Tail(b.codes)]
<1>1. 1 \in 1 .. Len(batch) /\ b \in Batches /\ Head(batch) = b
  BY <1>0, EmptySeq
<1>2. b.codes \in CodeLists /\ b.socket \in Sockets
  BY <1>1 DEF Batches
<1>3. rest \in Seq(Batches) /\ Len(rest) = Len(batch) - 1
      /\ \A k \in 1 .. Len(rest) : rest[k] = batch[k + 1]
  BY <1>0
<1>4. /\ pc = "control" /\ UNCHANGED <<program, events, fin, reset, pc>> /\ reading' = "no"
      /\ b.socket = socket /\ Head(b.codes) = code
      /\ batch' = IF Len(b.codes) = 1 THEN rest ELSE <<last>> \o rest
  BY <1>1 DEF Controls, IsNext
<1> HIDE DEF b, rest
<1>5. CASE b.codes # <<"DataIn", "DataOut">>
  <2>1. Len(b.codes) = 1 /\ b.codes = <<code>> /\ code # "DataIn"
    BY <1>2, <1>4, <1>5 DEF CodeLists
  <2>2. \A k \in 1 .. Len(rest) : k + 1 \in 1 .. Len(batch)
    BY <1>0, <1>3
  <2> QED
    BY <1>1, <1>3, <1>4, <2>1, <2>2 DEF b
<1>6. CASE b.codes = <<"DataIn", "DataOut">>
  <2>1. Len(b.codes) = 2 /\ code = "DataIn" /\ Tail(b.codes) = <<"DataOut">>
    BY <1>4, <1>6
  <2>2. last.socket = socket /\ last.codes = <<"DataOut">> /\ last \in Batches
    BY <1>1, <1>4, <2>1 DEF Batches, CodeLists
  <2> HIDE DEF last
  <2>3. batch' = <<last>> \o rest
    BY <1>4, <2>1
  <2>4. <<last>> \in Seq(Batches) /\ Len(<<last>>) = 1 /\ <<last>>[1] = last
    BY <2>2
  <2>5. batch' \in Seq(Batches) /\ Len(batch') = Len(batch)
    BY <1>0, <1>3, <2>3, <2>4
  <2>6. batch'[1] = last
    BY <1>1, <1>3, <2>3, <2>4
  <2>7. \A k \in 2 .. Len(batch) : batch'[k] = batch[k]
    <3> SUFFICES ASSUME NEW k \in 2 .. Len(batch) PROVE batch'[k] = batch[k]
      OBVIOUS
    <3>1. k - 1 \in 1 .. Len(rest) /\ (k - 1) + 1 = k
      BY <1>0, <1>3
    <3>2. batch'[k] = rest[k - 1]
      BY <1>0, <1>3, <2>3, <2>4, <3>1
    <3> QED
      BY <1>3, <3>1, <3>2
  <2> QED
    BY <1>1, <1>4, <1>6, <2>1, <2>2, <2>5, <2>6, <2>7 DEF b
<1> QED
  BY <1>5, <1>6

\* What is left of the batch, and where it was.
LEMMA LeftInBatch ==
    ASSUME IInv, NEW socket, NEW code, Controls(socket, code), NEW k \in 1 .. Len(batch')
    PROVE  \/ /\ k = 1 /\ code = "DataIn" /\ batch'[k].socket = socket
              /\ batch'[k].codes = <<"DataOut">>
           \/ /\ batch'[k].socket # socket
              /\ \E j \in 2 .. Len(batch) : batch'[k] = batch[j] /\ j = IF code = "DataIn" THEN k ELSE k + 1
<1>0. Len(batch) \in Nat /\ Len(batch') \in Nat
  BY ControlsAnEvent DEF IInv, TypeOK
<1>1. \A j \in 2 .. Len(batch) : batch[j].socket # socket
  BY <1>0, ControlsAnEvent DEF IInv, BatchWasServed
<1>2. CASE code # "DataIn"
  <2>1. k + 1 \in 2 .. Len(batch) /\ batch'[k] = batch[k + 1]
    BY <1>0, <1>2, ControlsAnEvent
  <2> QED
    BY <1>1, <1>2, <2>1
<1>3. CASE code = "DataIn" /\ k # 1
  <2>1. k \in 2 .. Len(batch) /\ batch'[k] = batch[k]
    BY <1>0, <1>3, ControlsAnEvent
  <2> QED
    BY <1>1, <1>3, <2>1
<1>4. CASE code = "DataIn" /\ k = 1
  BY <1>4, ControlsAnEvent
<1> QED
  BY <1>2, <1>3, <1>4

\* What controlling an event of a socket may do to the connections: one that
\* is queued is accepted, and the socket's own is closed.
PhaseMoves(socket) ==
    /\ phase' \in [Connections -> Phases]
    /\ \A c \in Connections :
          \/ phase'[c] = phase[c]
          \/ phase[c] = "queued"
          \/ c = socket /\ phase[c] = "served" /\ phase'[c] = "closed"

\* And what it may report.
NewReport(socket, code, x) ==
    /\ reports' = Append(reports, Event(socket, x)) /\ x \in ControlCodes
    /\ socket # Listener => phase[socket] = "served"
    /\ x = "ClosedByHost" => socket # Listener /\ phase'[socket] = "closed"
    /\ code = "DataOut" => x = "ClosedByPeer" /\ reset[socket]

LEMMA ReportsOne ==
    ASSUME NEW socket, NEW x, reports \in Seq(ControlEvents),
           Reports(socket, <<x>>), Event(socket, x) \in ControlEvents
    PROVE  reports' = Append(reports, Event(socket, x))
<1> DEFINE e == Event(socket, x)
           one == [i \in DOMAIN <<x>> |-> Event(socket, <<x>>[i])]
<1>1. one = <<e>>
  <2>1. DOMAIN <<x>> = 1 .. 1 /\ <<x>>[1] = x
    OBVIOUS
  <2>2. one = [i \in 1 .. 1 |-> e]
    BY <2>1
  <2> HIDE DEF e
  <2>3. [i \in 1 .. 1 |-> e] \in Seq(ControlEvents) /\ Len([i \in 1 .. 1 |-> e]) = 1
        /\ [i \in 1 .. 1 |-> e][1] = e
    BY DEF e
  <2>4. <<e>> \in Seq(ControlEvents) /\ Len(<<e>>) = 1 /\ <<e>>[1] = e
    BY DEF e
  <2>5. [i \in 1 .. 1 |-> e] = <<e>>
    BY <2>3, <2>4, SeqEqual
  <2> QED
    BY <2>2, <2>5
<1>2. reports' = reports \o one
  BY DEF Reports
<1> HIDE DEF e, one
<1>3. reports' = reports \o <<e>>
  BY <1>1, <1>2
<1>4. reports \o <<e>> = Append(reports, e)
  BY DEF e
<1> QED
  BY <1>3, <1>4 DEF e

LEMMA ReportsNone ==
    ASSUME NEW socket, reports \in Seq(ControlEvents), Reports(socket, <<>>)
    PROVE  reports' = reports
<1>1. [i \in DOMAIN <<>> |-> Event(socket, <<>>[i])] = <<>>
  OBVIOUS
<1>2. reports' = reports \o <<>>
  BY <1>1 DEF Reports
<1> QED
  BY <1>2, ConcatEmptySeq

LEMMA ControlKeepsBatch ==
    ASSUME IInv, NEW socket, NEW code, Controls(socket, code), PhaseMoves(socket)
    PROVE  BatchWasServed'
<1>0. /\ pc = "control" /\ pc' = pc /\ Len(batch) \in Nat /\ Len(batch') \in Nat
      /\ batch \in Seq(Batches) /\ batch' \in Seq(Batches)
      /\ 1 \in 1 .. Len(batch)
  BY ControlsAnEvent DEF IInv, TypeOK
<1>1. \A i, j \in 1 .. Len(batch') : batch'[i].socket = batch'[j].socket => i = j
  <2> SUFFICES ASSUME NEW i \in 1 .. Len(batch'), NEW j \in 1 .. Len(batch'),
                      batch'[i].socket = batch'[j].socket
               PROVE  i = j
    OBVIOUS
  <2>1. CASE batch'[i].socket = socket
    BY <2>1, LeftInBatch
  <2>2. CASE batch'[i].socket # socket
    <3>1. PICK k \in 2 .. Len(batch) : batch'[i] = batch[k] /\ k = IF code = "DataIn" THEN i ELSE i + 1
      BY <2>2, LeftInBatch
    <3>2. PICK l \in 2 .. Len(batch) : batch'[j] = batch[l] /\ l = IF code = "DataIn" THEN j ELSE j + 1
      BY <2>2, LeftInBatch
    <3>3. k = l
      BY <1>0, <3>1, <3>2 DEF IInv, BatchWasServed
    <3> QED
      BY <1>0, <3>1, <3>2, <3>3
  <2> QED
    BY <2>1, <2>2
<1>2. \A i \in 1 .. Len(batch') :
          /\ batch'[i].socket = Listener <=> batch'[i].codes = <<"IncomingConnection">>
          /\ batch'[i].socket # Listener => phase'[batch'[i].socket] \in {"served", "closed"}
  <2> SUFFICES ASSUME NEW i \in 1 .. Len(batch')
               PROVE  /\ batch'[i].socket = Listener <=> batch'[i].codes = <<"IncomingConnection">>
                      /\ batch'[i].socket # Listener =>
                             phase'[batch'[i].socket] \in {"served", "closed"}
    OBVIOUS
  <2>1. \E j \in 1 .. Len(batch) :
            /\ batch'[i].socket = batch[j].socket
            /\ batch[j].socket = Listener <=> batch'[i].codes = <<"IncomingConnection">>
    <3>1. CASE batch'[i].socket = socket
      <4>1. code = "DataIn" /\ batch'[i].codes = <<"DataOut">>
        BY <3>1, LeftInBatch
      <4>2. <<"DataOut">> # <<"IncomingConnection">> /\ <<"DataIn", "DataOut">> # <<"IncomingConnection">>
        OBVIOUS
      <4>3. batch[1].socket = socket /\ batch[1].socket # Listener
        BY <1>0, <4>1, <4>2, ControlsAnEvent DEF IInv, BatchWasServed
      <4> QED
        BY <1>0, <3>1, <4>1, <4>2, <4>3
    <3>2. CASE batch'[i].socket # socket
      <4>1. PICK j \in 2 .. Len(batch) : batch'[i] = batch[j]
        BY <3>2, LeftInBatch
      <4>2. j \in 1 .. Len(batch)
        BY <1>0
      <4> QED
        BY <4>1, <4>2 DEF IInv, BatchWasServed
    <3> QED
      BY <3>1, <3>2
  <2>2. PICK j \in 1 .. Len(batch) :
            /\ batch'[i].socket = batch[j].socket
            /\ batch[j].socket = Listener <=> batch'[i].codes = <<"IncomingConnection">>
    BY <2>1
  <2>3. batch[j].socket # Listener =>
            batch[j].socket \in Connections /\ phase[batch[j].socket] \in {"served", "closed"}
    <3>1. batch[j] \in Batches
      BY <1>0
    <3>2. batch[j].socket \in Sockets
      BY <3>1 DEF Batches
    <3> QED
      BY <3>2 DEF IInv, BatchWasServed, Sockets
  <2> QED
    BY <2>2, <2>3 DEF PhaseMoves
<1> QED
  BY <1>0, <1>1, <1>2 DEF BatchWasServed

LEMMA ControlKeepsReports ==
    ASSUME IInv, NEW socket, NEW code, Controls(socket, code), PhaseMoves(socket),
           reports' = reports \/ \E x : NewReport(socket, code, x)
    PROVE  /\ reports' \in Seq(ControlEvents)
           /\ ReportedOnce' /\ ReportedAndPending' /\ ReportedIsHeld' /\ FailedAtReport'
<1>0. /\ pc = "control" /\ pc' = pc /\ reset' = reset /\ program' = program
      /\ Len(batch) \in Nat /\ Len(batch') \in Nat /\ 1 \in 1 .. Len(batch)
      /\ batch[1].socket = socket /\ socket \in Sockets /\ Head(batch[1].codes) = code
      /\ reports \in Seq(ControlEvents) /\ Len(reports) \in Nat
  BY ControlsAnEvent DEF IInv, TypeOK, Batches
<1> DEFINE n == Len(reports)
\* What was reported before is in the batch as the socket at its head, if at all.
<1>1. ASSUME NEW i \in 1 .. n, NEW k \in 1 .. Len(batch')
      PROVE  reports[i].socket # batch'[k].socket
  <2> SUFFICES ASSUME reports[i].socket = batch'[k].socket PROVE FALSE
    OBVIOUS
  <2>1. CASE batch'[k].socket = socket
    <3>1. code = "DataIn" /\ batch[1].codes = <<"DataIn", "DataOut">>
      BY <2>1, LeftInBatch, ControlsAnEvent
    <3>2. batch[1].codes = <<"DataOut">>
      BY <1>0, <2>1 DEF IInv, ReportedAndPending
    <3> QED
      BY <3>1, <3>2
  <2>2. CASE batch'[k].socket # socket
    <3>1. PICK j \in 2 .. Len(batch) : batch'[k] = batch[j]
      BY <2>2, LeftInBatch
    <3>2. j \in 1 .. Len(batch) /\ j # 1 /\ reports[i].socket = batch[j].socket
      BY <1>0, <3>1
    <3> QED
      BY <3>2 DEF IInv, ReportedAndPending
  <2> QED
    BY <2>1, <2>2
<1>2. ASSUME NEW i \in 1 .. n, reports[i].socket = socket
      PROVE  /\ code = "DataOut" /\ socket # Listener
             /\ reports[i].code = "ClosedByHost" => phase[socket] = "closed"
  <2>1. batch[1].codes = <<"DataOut">> /\ (reports[i].code = "ClosedByHost" => phase[socket] = "closed")
    BY <1>0, <1>2 DEF IInv, ReportedAndPending
  <2>2. <<"DataOut">> # <<"IncomingConnection">> /\ Head(<<"DataOut">>) = "DataOut"
    OBVIOUS
  <2> QED
    BY <1>0, <2>1, <2>2 DEF IInv, BatchWasServed
<1>3. ASSUME NEW c \in Connections, phase[c] \in {"served", "closed"}
      PROVE  phase'[c] \in {"served", "closed"}
  BY <1>3 DEF PhaseMoves
<1>4. \A i \in 1 .. n : reports[i] \in ControlEvents /\ reports[i].socket \in Sockets
  <2>1. \A i \in 1 .. n : reports[i] \in ControlEvents
    BY <1>0
  <2> QED
    BY <2>1 DEF ControlEvents
<1>5. CASE reports' = reports
  <2>1. ReportedOnce'
    BY <1>0, <1>5 DEF IInv, ReportedOnce
  <2>2. ReportedAndPending'
    BY <1>0, <1>1, <1>5 DEF ReportedAndPending
  <2>3. ReportedIsHeld'
    <3> SUFFICES ASSUME NEW i \in 1 .. n, reports[i].socket # Listener
                 PROVE  phase'[reports[i].socket] \in {"served", "closed"}
      BY <1>0, <1>5 DEF ReportedIsHeld
    <3>1. reports[i].socket \in Connections /\ phase[reports[i].socket] \in {"served", "closed"}
      BY <1>0, <1>4 DEF IInv, ReportedIsHeld, Sockets
    <3> QED
      BY <1>3, <3>1
  <2> QED
    BY <1>0, <1>5, <2>1, <2>2, <2>3 DEF FailedAtReport
<1>6. ASSUME NEW x, NewReport(socket, code, x)
      PROVE  /\ reports' \in Seq(ControlEvents)
             /\ ReportedOnce' /\ ReportedAndPending' /\ ReportedIsHeld' /\ FailedAtReport'
  <2> DEFINE e == Event(socket, x)
  <2>1. e \in ControlEvents /\ e.socket = socket /\ e.code = x
    BY <1>0, <1>6 DEF NewReport, Event, ControlEvents
  <2>2. reports' = Append(reports, e)
    BY <1>6 DEF NewReport
  <2> HIDE DEF e
  <2>3. /\ reports' \in Seq(ControlEvents) /\ Len(reports') = n + 1
        /\ reports'[n + 1] = e /\ \A i \in 1 .. n : reports'[i] = reports[i]
    BY <1>0, <2>1, <2>2
  <2> HIDE DEF n
  <2>4. n \in Nat /\ \A i \in 1 .. n + 1 : i \in 1 .. n \/ i = n + 1
    BY <1>0 DEF n
  <2>5. ReportedOnce'
    <3> SUFFICES ASSUME NEW i \in 1 .. n + 1, NEW j \in 1 .. n + 1, i < j,
                        reports'[i].socket = reports'[j].socket
                 PROVE  /\ reports'[i].socket # Listener /\ reset[reports'[i].socket]
                        /\ reports'[i].code # "ClosedByHost" /\ reports'[j].code = "ClosedByPeer"
      BY <1>0, <2>3 DEF ReportedOnce
    <3>1. i \in 1 .. n
      BY <2>4
    <3>2. CASE j \in 1 .. n
      <4>1. i \in DOMAIN reports /\ j \in DOMAIN reports
        BY <1>0, <3>1, <3>2 DEF n
      <4> QED
        BY <2>3, <3>1, <3>2, <4>1 DEF IInv, ReportedOnce
    <3>3. CASE j = n + 1
      <4>1. reports'[i] = reports[i] /\ reports'[j] = e /\ reports[i].socket = socket
        BY <2>1, <2>3, <3>1, <3>3
      <4>2. /\ code = "DataOut" /\ socket # Listener
            /\ reports[i].code = "ClosedByHost" => phase[socket] = "closed"
        BY <1>2, <3>1, <4>1
      <4>3. x = "ClosedByPeer" /\ reset[socket] /\ phase[socket] = "served"
        BY <1>6, <4>2 DEF NewReport
      <4> QED
        BY <2>1, <4>1, <4>2, <4>3
    <3> QED
      BY <2>4, <3>2, <3>3
  <2>6. ReportedAndPending'
    <3> SUFFICES ASSUME NEW i \in 1 .. n + 1, NEW k \in 1 .. Len(batch'),
                        reports'[i].socket = batch'[k].socket
                 PROVE  /\ k = 1 /\ batch'[k].codes = <<"DataOut">>
                        /\ reports'[i].code = "ClosedByHost" => phase'[batch'[k].socket] = "closed"
      BY <1>0, <2>3 DEF ReportedAndPending
    <3>1. CASE i \in 1 .. n
      BY <1>1, <2>3, <3>1 DEF n
    <3>2. CASE i = n + 1
      <4>1. reports'[i] = e /\ batch'[k].socket = socket
        BY <2>1, <2>3, <3>2
      <4>2. k = 1 /\ batch'[k].codes = <<"DataOut">>
        BY <4>1, LeftInBatch
      <4>3. x = "ClosedByHost" => phase'[socket] = "closed"
        BY <1>6 DEF NewReport
      <4> QED
        BY <2>1, <4>1, <4>2, <4>3
    <3> QED
      BY <2>4, <3>1, <3>2
  <2>7. ReportedIsHeld'
    <3> SUFFICES ASSUME NEW i \in 1 .. n + 1, reports'[i].socket # Listener
                 PROVE  phase'[reports'[i].socket] \in {"served", "closed"}
      BY <1>0, <2>3 DEF ReportedIsHeld
    <3>1. CASE i \in 1 .. n
      <4>1. reports[i].socket \in Connections /\ phase[reports[i].socket] \in {"served", "closed"}
        BY <1>0, <1>4, <2>3, <3>1 DEF IInv, ReportedIsHeld, Sockets, n
      <4> QED
        BY <1>3, <2>3, <3>1, <4>1
    <3>2. CASE i = n + 1
      <4>1. reports'[i].socket = socket /\ socket \in Connections /\ phase[socket] = "served"
        BY <1>0, <1>6, <2>1, <2>3, <3>2 DEF NewReport, Sockets
      <4> QED
        BY <1>3, <4>1
    <3> QED
      BY <2>4, <3>1, <3>2
  <2> QED
    BY <1>0, <2>3, <2>5, <2>6, <2>7 DEF FailedAtReport
<1> QED
  BY <1>0, <1>5, <1>6

\* The listener is in a batch once.
LEMMA ListenerIsControlled ==
    ASSUME IInv, NEW socket, NEW code, Controls(socket, code)
    PROVE  /\ socket = Listener => InBatch(Listener)
           /\ InBatch(Listener)' => InBatch(Listener) /\ socket # Listener
<1>0. /\ 1 \in 1 .. Len(batch) /\ batch[1].socket = socket /\ Len(batch) \in Nat
      /\ code = "DataIn" => batch[1].codes = <<"DataIn", "DataOut">>
  BY ControlsAnEvent DEF IInv, TypeOK
<1>1. socket = Listener => InBatch(Listener)
  BY <1>0 DEF InBatch
<1>2. ASSUME NEW k \in 1 .. Len(batch'), batch'[k].socket = Listener
      PROVE  InBatch(Listener) /\ socket # Listener
  <2>1. CASE socket = Listener
    <3>1. code = "DataIn"
      BY <1>2, <2>1, LeftInBatch
    <3>2. <<"DataIn", "DataOut">> # <<"IncomingConnection">>
      OBVIOUS
    <3> QED
      BY <1>0, <2>1, <3>1, <3>2 DEF IInv, BatchWasServed
  <2>2. CASE socket # Listener
    <3>1. PICK j \in 2 .. Len(batch) : batch'[k] = batch[j]
      BY <1>2, <2>2, LeftInBatch
    <3>2. j \in 1 .. Len(batch)
      BY <1>0
    <3> QED
      BY <1>2, <2>2, <3>1, <3>2 DEF InBatch
  <2> QED
    BY <2>1, <2>2
<1> QED
  BY <1>1, <1>2 DEF InBatch

\* As long as nothing is accepted.
LEMMA ControlKeepsEdge ==
    ASSUME IInv, NEW socket, NEW code, Controls(socket, code), queue' = queue,
           \A c \in Connections : phase[c] = "queued" => phase'[c] = "queued",
           \A i \in 1 .. Len(ready') : \E j \in 1 .. Len(ready) : ready'[i] = ready[j]
    PROVE  EdgeMeansQueued'
<1>1. \A i \in 1 .. Len(queue) : queue[i] \in Connections
  BY DEF IInv, TypeOK
<1>2. InReady(Listener)' => InReady(Listener)
  BY DEF InReady
<1>3. InBatch(Listener)' => InBatch(Listener)
  BY ListenerIsControlled
<1> QED
  BY <1>1, <1>2, <1>3 DEF IInv, EdgeMeansQueued

LEMMA ReadingKeepsIInv ==
    ASSUME IInv, NEW c \in Connections,
           Hangup(c) \/ ReadCloses(c) \/ ReadEnds(c) \/ DataOut(c)
           \/ \E code \in {"DataIn", "DataOut", "Hangup"} : SkipClosed(c, code)
    PROVE  IInv'
<1>0. /\ TypeOK /\ ReadyIsServed /\ c # Listener /\ c \in Sockets
      /\ reports \in Seq(ControlEvents) /\ ready \in Seq(Sockets) /\ Distinct(ready)
  BY ListeningAssumption DEF IInv, TypeOK, ReadyIsServed, Sockets, Listener
\* In all five, one event is controlled, and the kernel forgets at most the socket.
<1>1. \E code :
          /\ Controls(c, code) /\ PhaseMoves(c)
          /\ \A d \in Connections : phase'[d] = phase[d] \/ (phase[d] = "served" /\ d = c)
          /\ reports' = reports \/ \E x : NewReport(c, code, x)
          /\ unread' \in [Connections -> BOOLEAN]
          /\ UNCHANGED <<queue, listening>>
          /\ \/ ready' = ready /\ phase' = phase
             \/ ready' = RemoveFirst(ready, c) /\ phase' = [phase EXCEPT ![c] = "closed"]
  <2>0. \A x \in ControlCodes : Event(c, x) \in ControlEvents
    BY <1>0 DEF Event, ControlEvents
  <2>1. ASSUME phase' = phase
        PROVE  PhaseMoves(c) /\ \A d \in Connections : phase'[d] = phase[d] \/ (phase[d] = "served" /\ d = c)
    <3>1. phase \in [Connections -> Phases]
      BY <1>0 DEF TypeOK
    <3> QED
      BY <2>1, <3>1 DEF PhaseMoves
  <2>2. ASSUME NEW code \in {"DataIn", "DataOut", "Hangup"}, SkipClosed(c, code)
        PROVE  \E any :
                  /\ Controls(c, any) /\ PhaseMoves(c)
                  /\ \A d \in Connections : phase'[d] = phase[d] \/ (phase[d] = "served" /\ d = c)
                  /\ reports' = reports \/ \E x : NewReport(c, any, x)
                  /\ unread' \in [Connections -> BOOLEAN]
                  /\ UNCHANGED <<queue, listening>>
                  /\ \/ ready' = ready /\ phase' = phase
                     \/ ready' = RemoveFirst(ready, c) /\ phase' = [phase EXCEPT ![c] = "closed"]
    BY <1>0, <2>1, <2>2 DEF SkipClosed, TypeOK
  <2>3. CASE Hangup(c)
    <3>1. reports' = Append(reports, Event(c, "ClosedByPeer"))
      BY <1>0, <2>0, <2>3, ReportsOne DEF Hangup, ControlCodes
    <3>2. NewReport(c, "Hangup", "ClosedByPeer")
      BY <2>3, <3>1 DEF Hangup, NewReport, ControlCodes
    <3> QED
      BY <1>0, <2>1, <2>3, <3>2 DEF Hangup, TypeOK
  <2>4. CASE DataOut(c)
    <3>1. reports' = reports \/ NewReport(c, "DataOut", "ClosedByPeer")
      <4>1. CASE reset[c]
        <5>1. reports' = Append(reports, Event(c, "ClosedByPeer"))
          BY <1>0, <2>0, <2>4, <4>1, ReportsOne DEF DataOut, ControlCodes
        <5> QED
          BY <2>4, <4>1, <5>1 DEF DataOut, NewReport, ControlCodes
      <4>2. CASE ~reset[c]
        BY <1>0, <2>4, <4>2, ReportsNone DEF DataOut
      <4> QED
        BY <4>1, <4>2
    <3> QED
      BY <1>0, <2>1, <2>4, <3>1 DEF DataOut, TypeOK
  <2>5. CASE ReadEnds(c)
    <3>1. reports' = reports \/ \E x \in {"Exception", "ClosedByPeer"} : reports' = Append(reports, Event(c, x))
      <4>1. CASE reset[c] /\ ~fin[c]
        BY <1>0, <2>0, <2>5, <4>1, ReportsOne DEF ReadEnds, ControlCodes
      <4>2. CASE ~(reset[c] /\ ~fin[c]) /\ reading = "nothing"
        BY <1>0, <2>0, <2>5, <4>2, ReportsOne DEF ReadEnds, ControlCodes
      <4>3. CASE ~(reset[c] /\ ~fin[c]) /\ reading # "nothing"
        BY <1>0, <2>5, <4>3, ReportsNone DEF ReadEnds
      <4> QED
        BY <4>1, <4>2, <4>3
    <3>2. reports' = reports \/ \E x : NewReport(c, "DataIn", x)
      BY <2>5, <3>1 DEF ReadEnds, NewReport, ControlCodes
    <3> QED
      BY <1>0, <2>1, <2>5, <3>2 DEF ReadEnds, TypeOK
  <2>6. CASE ReadCloses(c)
    <3>0. /\ Controls(c, "DataIn") /\ phase[c] = "served" /\ UNCHANGED <<queue, listening>>
          /\ unread' \in [Connections -> BOOLEAN]
          /\ phase' = [phase EXCEPT ![c] = "closed"] /\ ready' = RemoveFirst(ready, c)
      BY <1>0, <2>6 DEF ReadCloses, TypeOK
    <3>1. reports' = Append(reports, Event(c, "ClosedByHost"))
      BY <1>0, <2>0, <2>6, ReportsOne DEF ReadCloses, ControlCodes
    <3>2. phase'[c] = "closed" /\ phase' \in [Connections -> Phases]
          /\ \A d \in Connections : phase'[d] = phase[d] \/ (phase[d] = "served" /\ d = c)
      <4>1. phase \in [Connections -> Phases] /\ "closed" \in Phases
        BY <1>0 DEF TypeOK, Phases
      <4> QED
        BY <3>0, <4>1
    <3>3. NewReport(c, "DataIn", "ClosedByHost")
      BY <1>0, <3>0, <3>1, <3>2 DEF NewReport, ControlCodes
    <3>4. PhaseMoves(c)
      BY <3>0, <3>2 DEF PhaseMoves
    <3> QED
      BY <3>0, <3>2, <3>3, <3>4
  <2> QED
    BY <2>2, <2>3, <2>4, <2>5, <2>6
<1>2. PICK code :
          /\ Controls(c, code) /\ PhaseMoves(c)
          /\ \A d \in Connections : phase'[d] = phase[d] \/ (phase[d] = "served" /\ d = c)
          /\ reports' = reports \/ \E x : NewReport(c, code, x)
          /\ unread' \in [Connections -> BOOLEAN]
          /\ UNCHANGED <<queue, listening>>
          /\ \/ ready' = ready /\ phase' = phase
             \/ ready' = RemoveFirst(ready, c) /\ phase' = [phase EXCEPT ![c] = "closed"]
  BY <1>1
<1>3. /\ ready' \in Seq(Sockets) /\ Distinct(ready')
      /\ \A i \in 1 .. Len(ready') : \E j \in 1 .. Len(ready) : ready'[i] = ready[j]
      /\ phase' = phase \/ (phase' = [phase EXCEPT ![c] = "closed"]
                            /\ \A i \in 1 .. Len(ready') : ready'[i] # c)
  BY <1>0, <1>2, RemoveFirstProperties
<1>4. ReadyIsServed'
  <2> SUFFICES ASSUME NEW i \in 1 .. Len(ready'), ready'[i] # Listener
               PROVE  phase'[ready'[i]] = "served"
    BY <1>3 DEF ReadyIsServed, Distinct
  <2>1. ready'[i] \in Connections /\ phase[ready'[i]] = "served"
    BY <1>0, <1>3 DEF ReadyIsServed, Sockets
  <2> QED
    BY <1>0, <1>3, <2>1 DEF TypeOK
<1>5. EdgeMeansQueued'
  BY <1>2, <1>3, ControlKeepsEdge
<1>6. BatchWasServed'
  BY <1>2, ControlKeepsBatch
<1>7. /\ reports' \in Seq(ControlEvents)
      /\ ReportedOnce' /\ ReportedAndPending' /\ ReportedIsHeld' /\ FailedAtReport'
  BY <1>2, ControlKeepsReports
<1>8. TypeOK'
  <2>1. batch' \in Seq(Batches) /\ UNCHANGED <<program, events, fin, reset, pc>> /\ reading' = "no"
    BY <1>2, ControlsAnEvent
  <2> QED
    BY <1>0, <1>2, <1>3, <1>7, <2>1 DEF TypeOK, PhaseMoves
<1> QED
  BY <1>4, <1>5, <1>6, <1>7, <1>8 DEF IInv

LEMMA AcceptingKeepsIInv ==
    ASSUME IInv, Accept \/ AcceptFails
    PROVE  IInv'
<1> DEFINE code == "IncomingConnection"
           c == Head(queue)
<1>0. /\ TypeOK /\ ReadyIsServed /\ EdgeMeansQueued
      /\ reports \in Seq(ControlEvents) /\ ready \in Seq(Sockets) /\ Distinct(ready)
      /\ Controls(Listener, code)
  BY DEF IInv, TypeOK, ReadyIsServed, Accept, AcceptFails
<1>1. /\ InBatch(Listener) /\ ~InBatch(Listener)' /\ ~InReady(Listener)
      /\ batch' \in Seq(Batches) /\ UNCHANGED <<program, events, fin, reset, pc>> /\ reading' = "no"
  BY <1>0, ListenerIsControlled, ControlsAnEvent DEF EdgeMeansQueued
<1>2. queue \in Seq(Connections) /\ Len(queue) = 1 /\ c \in Connections /\ phase[c] = "queued"
      /\ Tail(queue) \in Seq(Connections) /\ Len(Tail(queue)) = 0 /\ c # Listener
  <2>1. queue \in Seq(Connections) /\ Len(queue) = 1
    BY <1>0, <1>1 DEF TypeOK, EdgeMeansQueued
  <2>2. queue # <<>> /\ c = queue[1] /\ 1 \in 1 .. Len(queue)
    BY <2>1
  <2>3. c \in Connections /\ phase[c] = "queued"
    BY <1>0, <2>1, <2>2 DEF EdgeMeansQueued
  <2> QED
    BY <2>1, <2>2, <2>3, ListeningAssumption DEF Listener
<1> HIDE DEF c
<1>3. CASE AcceptFails
  <2>1. Event(Listener, "Exception") \in ControlEvents
    BY DEF Event, ControlEvents, Sockets, ControlCodes
  <2>2. UNCHANGED <<phase, unread, queue, listening, ready>>
        /\ reports' = Append(reports, Event(Listener, "Exception"))
    BY <1>0, <1>3, <2>1, ReportsOne DEF AcceptFails
  <2>3. NewReport(Listener, code, "Exception") /\ PhaseMoves(Listener)
    BY <1>0, <2>2 DEF NewReport, ControlCodes, PhaseMoves, TypeOK
  <2>4. BatchWasServed' /\ reports' \in Seq(ControlEvents)
        /\ ReportedOnce' /\ ReportedAndPending' /\ ReportedIsHeld' /\ FailedAtReport'
    BY <1>0, <2>3, ControlKeepsBatch, ControlKeepsReports
  <2>5. EdgeMeansQueued' /\ ReadyIsServed'
    BY <1>0, <1>1, <2>2 DEF EdgeMeansQueued, ReadyIsServed, InReady
  <2>6. TypeOK'
    BY <1>0, <1>1, <2>2, <2>4 DEF TypeOK
  <2> QED
    BY <2>4, <2>5, <2>6 DEF IInv
<1>4. CASE Accept
  <2>1. /\ queue' = Tail(queue) /\ UNCHANGED <<unread, reports>>
        /\ \/ /\ phase' = [phase EXCEPT ![c] = "served"] /\ listening' = FALSE
              /\ ready' = Append(RemoveFirst(ready, Listener), c)
           \/ /\ phase' = [phase EXCEPT ![c] = "accepted"] /\ UNCHANGED <<listening, ready>>
    BY <1>4 DEF Accept, c
  <2>2. PhaseMoves(Listener) /\ phase'[c] \in {"served", "accepted"}
        /\ \A d \in Connections \ {c} : phase'[d] = phase[d]
    BY <1>0, <1>2, <2>1 DEF PhaseMoves, TypeOK, Phases
  <2>3. BatchWasServed' /\ reports' \in Seq(ControlEvents)
        /\ ReportedOnce' /\ ReportedAndPending' /\ ReportedIsHeld' /\ FailedAtReport'
    BY <1>0, <2>1, <2>2, ControlKeepsBatch, ControlKeepsReports
  \* A queued connection is not in the ready list.
  <2>4. \A i \in 1 .. Len(ready) : ready[i] \in Connections /\ ready[i] # c /\ phase[ready[i]] = "served"
    BY <1>0, <1>1, <1>2 DEF ReadyIsServed, InReady, Sockets
  <2>5. ready' \in Seq(Sockets) /\ ReadyIsServed' /\ ~InReady(Listener)'
    <3>1. CASE UNCHANGED ready
      BY <1>0, <1>1, <2>2, <2>4, <3>1 DEF ReadyIsServed, InReady
    <3>2. CASE phase' = [phase EXCEPT ![c] = "served"]
               /\ ready' = Append(RemoveFirst(ready, Listener), c)
      <4> DEFINE r == RemoveFirst(ready, Listener)
      <4>1. r \in Seq(Sockets) /\ Distinct(r)
            /\ \A i \in 1 .. Len(r) : \E j \in 1 .. Len(ready) : r[i] = ready[j]
        BY <1>0, RemoveFirstProperties
      <4> HIDE DEF r
      <4>2. c \in Sockets /\ \A i \in 1 .. Len(r) : r[i] # c
        BY <1>2, <2>4, <4>1 DEF Sockets
      <4>3. ready' = Append(r, c)
        BY <3>2 DEF r
      <4>4. /\ ready' \in Seq(Sockets) /\ Distinct(ready') /\ Len(ready') = Len(r) + 1
            /\ \A i \in 1 .. Len(ready') : ready'[i] = IF i = Len(r) + 1 THEN c ELSE r[i]
        BY <4>1, <4>2, <4>3, AppendKeepsDistinct
      <4>5. phase'[c] = "served"
        BY <1>0, <1>2, <3>2 DEF TypeOK
      <4>6. Len(r) \in Nat
        BY <4>1
      <4>7. \A i \in 1 .. Len(ready') : ready'[i] # Listener /\ phase'[ready'[i]] = "served"
        <5> SUFFICES ASSUME NEW i \in 1 .. Len(ready')
                     PROVE  ready'[i] # Listener /\ phase'[ready'[i]] = "served"
          OBVIOUS
        <5>1. CASE i = Len(r) + 1
          BY <1>2, <4>4, <4>5, <5>1
        <5>2. CASE i # Len(r) + 1
          <6>1. i \in 1 .. Len(r) /\ ready'[i] = r[i]
            BY <4>4, <4>6, <5>2
          <6>2. PICK j \in 1 .. Len(ready) : r[i] = ready[j]
            BY <4>1, <6>1
          <6>3. ready[j] \in Connections \ {c} /\ phase[ready[j]] = "served" /\ ready[j] # Listener
            BY <1>1, <2>4 DEF InReady
          <6> QED
            BY <2>2, <6>1, <6>2, <6>3
        <5> QED
          BY <5>1, <5>2
      <4> QED
        BY <4>4, <4>7 DEF ReadyIsServed, InReady, Distinct
    <3> QED
      BY <2>1, <3>1, <3>2
  <2>6. EdgeMeansQueued'
    BY <1>1, <1>2, <2>1, <2>5 DEF EdgeMeansQueued
  <2>7. TypeOK'
    BY <1>0, <1>1, <1>2, <2>1, <2>2, <2>3, <2>5 DEF TypeOK, PhaseMoves
  <2> QED
    BY <2>3, <2>5, <2>6, <2>7 DEF IInv
<1> QED
  BY <1>3, <1>4

-----------------------------------------------------------------------------
(* The peers, the wait, and what the program does with the reports.        *)

LEMMA InitIInv ==
    Init => IInv
<1> SUFFICES ASSUME Init PROVE IInv
  OBVIOUS
<1>0. /\ program \in {"nc", "server"} /\ events \in Nat \ {0}
      /\ phase = [c \in Connections |-> "away"] /\ unread = [c \in Connections |-> FALSE]
      /\ fin = unread /\ reset = unread
      /\ queue = <<>> /\ listening = TRUE /\ ready = <<>>
      /\ pc = "wait" /\ batch = <<>> /\ reading = "no" /\ reports = <<>>
  BY ListeningAssumption DEF Init
<1>1. TypeOK
  BY <1>0 DEF TypeOK, Phases
<1>2. ReadyIsServed /\ BatchWasServed /\ EdgeMeansQueued
  BY <1>0 DEF ReadyIsServed, BatchWasServed, EdgeMeansQueued, Distinct, InReady, InBatch
<1>3. ReportedOnce /\ ReportedAndPending /\ ReportedIsHeld /\ FailedAtReport
  BY <1>0 DEF ReportedOnce, ReportedAndPending, ReportedIsHeld, FailedAtReport
<1> QED
  BY <1>1, <1>2, <1>3 DEF IInv

LEMMA WokenProperties ==
    ASSUME IInv, NEW socket \in Sockets
    PROVE  /\ Woken(socket) \in Seq(Sockets) /\ Distinct(Woken(socket))
           /\ \A i \in 1 .. Len(Woken(socket)) :
                 Woken(socket)[i] = socket \/ \E j \in 1 .. Len(ready) : Woken(socket)[i] = ready[j]
<1>0. ready \in Seq(Sockets) /\ Distinct(ready) /\ Len(ready) \in Nat
  BY DEF IInv, TypeOK, ReadyIsServed
<1>1. CASE Contains(ready, socket)
  BY <1>0, <1>1 DEF Woken
<1>2. CASE ~Contains(ready, socket)
  <2>1. Woken(socket) = Append(ready, socket)
    BY <1>2 DEF Woken
  <2>2. \A i \in 1 .. Len(ready) : ready[i] # socket
    BY <1>2 DEF Contains
  <2>3. /\ Append(ready, socket) \in Seq(Sockets) /\ Distinct(Append(ready, socket))
        /\ Len(Append(ready, socket)) = Len(ready) + 1
        /\ \A i \in 1 .. Len(Append(ready, socket)) :
              Append(ready, socket)[i] = IF i = Len(ready) + 1 THEN socket ELSE ready[i]
    BY <1>0, <2>2, AppendKeepsDistinct
  <2>4. \A i \in 1 .. Len(ready) + 1 : i = Len(ready) + 1 \/ i \in 1 .. Len(ready)
    BY <1>0
  <2> QED
    BY <2>1, <2>3, <2>4
<1> QED
  BY <1>1, <1>2

LEMMA ConnectKeepsIInv ==
    ASSUME IInv, NEW c \in Connections, Connect(c)
    PROVE  IInv'
<1>0. /\ phase[c] = "away" /\ phase' = [phase EXCEPT ![c] = "queued"]
      /\ queue' = Append(queue, c)
      /\ ready' = IF listening THEN Woken(Listener) ELSE ready
      /\ UNCHANGED <<program, events, peers, listening, pc, batch, reading, reports>>
      /\ UNCHANGED <<unread, fin, reset>>
  BY DEF Connect, peers
<1>1. TypeOK /\ ReadyIsServed /\ BatchWasServed /\ EdgeMeansQueued
      /\ queue \in Seq(Connections) /\ Len(queue) = 0
  <2>1. queue \in Seq(Connections) /\ Len(queue) <= 0
    BY DEF Connect, IncomingConnectionQueueLength, IInv, TypeOK
  <2> QED
    BY <2>1 DEF IInv
<1>2. ~InReady(Listener) /\ ~InBatch(Listener)
  BY <1>1 DEF EdgeMeansQueued
<1>3. /\ phase' \in [Connections -> Phases] /\ phase'[c] = "queued"
      /\ \A d \in Connections \ {c} : phase'[d] = phase[d]
  <2>1. phase \in [Connections -> Phases] /\ "queued" \in Phases
    BY <1>1 DEF TypeOK, Phases
  <2> QED
    BY <1>0, <2>1
<1>4. /\ ready' \in Seq(Sockets) /\ Distinct(ready')
      /\ \A i \in 1 .. Len(ready') :
            ready'[i] = Listener \/ \E j \in 1 .. Len(ready) : ready'[i] = ready[j]
  <2>1. Listener \in Sockets
    BY DEF Sockets
  <2>2. CASE listening
    BY <1>0, <2>1, <2>2, WokenProperties
  <2>3. CASE ~listening
    BY <1>0, <1>1, <2>3 DEF ReadyIsServed, TypeOK
  <2> QED
    BY <2>2, <2>3
<1>5. queue' \in Seq(Connections) /\ Len(queue') = 1 /\ queue'[1] = c
  BY <1>0, <1>1
<1>6. TypeOK'
  BY <1>0, <1>1, <1>3, <1>4, <1>5 DEF TypeOK
<1>7. ReadyIsServed'
  <2> SUFFICES ASSUME NEW i \in 1 .. Len(ready'), ready'[i] # Listener
               PROVE  phase'[ready'[i]] = "served"
    BY <1>4 DEF ReadyIsServed, Distinct
  <2>1. PICK j \in 1 .. Len(ready) : ready'[i] = ready[j]
    BY <1>4
  <2>2. ready \in Seq(Sockets)
    BY <1>1 DEF TypeOK
  <2>3. ready[j] \in Connections
    BY <2>1, <2>2 DEF Sockets
  <2>4. phase[ready[j]] = "served"
    BY <1>1, <2>1 DEF ReadyIsServed
  <2> QED
    BY <1>0, <1>3, <2>1, <2>3, <2>4
<1>8. BatchWasServed'
  <2>1. \A i \in 1 .. Len(batch) :
            batch[i].socket # Listener =>
                batch[i].socket \in Connections /\ phase[batch[i].socket] \in {"served", "closed"}
    <3> SUFFICES ASSUME NEW i \in 1 .. Len(batch), batch[i].socket # Listener
                 PROVE  batch[i].socket \in Connections /\ phase[batch[i].socket] \in {"served", "closed"}
      OBVIOUS
    <3>1. batch[i] \in Batches
      BY <1>1 DEF TypeOK
    <3>2. batch[i].socket \in Sockets
      BY <3>1 DEF Batches
    <3> QED
      BY <1>1, <3>2 DEF BatchWasServed, Sockets
  <2>2. \A i \in 1 .. Len(batch) :
            batch[i].socket # Listener => phase'[batch[i].socket] \in {"served", "closed"}
    BY <1>0, <1>3, <2>1
  <2> QED
    BY <1>0, <1>1, <2>2 DEF BatchWasServed
<1>9. EdgeMeansQueued'
  BY <1>0, <1>2, <1>3, <1>5 DEF EdgeMeansQueued, InBatch
<1>10. ReportedOnce' /\ ReportedAndPending' /\ ReportedIsHeld' /\ FailedAtReport'
  <2>1. \A i \in 1 .. Len(reports) :
            reports[i].socket # Listener =>
                reports[i].socket \in Connections /\
                   (phase[reports[i].socket] \in {"served", "closed"}
                    \/ (phase'[reports[i].socket] = "gone" => phase[reports[i].socket] = "gone"))
    <3> SUFFICES ASSUME NEW i \in 1 .. Len(reports), reports[i].socket # Listener
                 PROVE  /\ reports[i].socket \in Connections
                        /\ phase'[reports[i].socket] = "gone" => phase[reports[i].socket] = "gone"
      OBVIOUS
    <3>1. reports[i] \in ControlEvents
      BY <1>1 DEF TypeOK
    <3>2. reports[i].socket \in Sockets
      BY <3>1 DEF ControlEvents
    <3> QED
      BY <1>3, <3>2 DEF Sockets
  <2>2. ReportedOnce'
    BY <1>0 DEF IInv, ReportedOnce
  <2>3. ASSUME NEW d \in Connections, phase[d] \in {"served", "closed"} PROVE phase'[d] = phase[d]
    BY <1>0, <1>3, <2>3
  <2>4. ASSUME NEW d \in Connections, phase'[d] = "gone" PROVE phase[d] = "gone"
    BY <1>0, <1>3, <2>4
  <2>5. ReportedIsHeld'
    BY <1>0, <2>1, <2>3, <2>4 DEF IInv, ReportedIsHeld
  <2>6. ReportedAndPending'
    <3> SUFFICES ASSUME NEW i \in 1 .. Len(reports), NEW k \in 1 .. Len(batch),
                        reports[i].socket = batch[k].socket
                 PROVE  /\ k = 1 /\ batch[k].codes = <<"DataOut">>
                        /\ reports[i].code = "ClosedByHost" => phase'[batch[k].socket] = "closed"
      BY <1>0 DEF IInv, ReportedAndPending
    <3>1. /\ k = 1 /\ batch[k].codes = <<"DataOut">>
          /\ reports[i].code = "ClosedByHost" => phase[batch[k].socket] = "closed"
      BY DEF IInv, ReportedAndPending
    <3>2. <<"DataOut">> # <<"IncomingConnection">>
      OBVIOUS
    <3>3. batch[k].socket # Listener
      BY <1>1, <3>1, <3>2 DEF BatchWasServed
    <3>4. batch[k].socket \in Connections
      BY <2>1, <3>3
    <3> QED
      BY <2>3, <3>1, <3>4
  <2>7. FailedAtReport'
    <3> SUFFICES ASSUME pc = "failed"
                 PROVE  reports # <<>> /\ ~(Head(reports).socket # Listener /\ phase'[Head(reports).socket] # "gone")
      BY <1>0 DEF FailedAtReport, Held
    <3>1. reports # <<>> /\ ~(Head(reports).socket # Listener /\ phase[Head(reports).socket] # "gone")
      BY DEF IInv, FailedAtReport, Held
    <3>2. 1 \in 1 .. Len(reports) /\ Head(reports) = reports[1]
      BY <1>1, <3>1, EmptySeq DEF TypeOK
    <3>3. CASE Head(reports).socket # Listener
      <4>1. Head(reports).socket \in Connections /\ phase[Head(reports).socket] = "gone"
        BY <2>1, <3>1, <3>2, <3>3
      <4> QED
        BY <1>0, <1>3, <3>1, <4>1
    <3> QED
      BY <3>1, <3>3
  <2> QED
    BY <2>2, <2>5, <2>6, <2>7
<1> QED
  BY <1>6, <1>7, <1>8, <1>9, <1>10 DEF IInv

LEMMA MovesKeepsIInv ==
    ASSUME IInv, NEW c \in Connections, PeerSends(c) \/ PeerCloses(c) \/ PeerResets(c)
    PROVE  IInv'
<1>0. /\ TypeOK /\ ReadyIsServed /\ EdgeMeansQueued
      /\ ready' = IF phase[c] = "served" THEN Woken(c) ELSE ready
      /\ UNCHANGED <<program, events, phase, queue, listening, pc, batch, reading, reports>>
      /\ c # Listener /\ c \in Sockets
  BY ListeningAssumption DEF PeerSends, PeerCloses, PeerResets, Moves, IInv, Sockets, Listener
<1>1. /\ unread' \in [Connections -> BOOLEAN] /\ fin' \in [Connections -> BOOLEAN]
      /\ reset' \in [Connections -> BOOLEAN]
      /\ \A d \in Connections : reset[d] => reset'[d]
  <2>1. /\ unread \in [Connections -> BOOLEAN] /\ fin \in [Connections -> BOOLEAN]
        /\ reset \in [Connections -> BOOLEAN]
    BY <1>0 DEF TypeOK
  <2>2. CASE PeerSends(c)
    BY <2>1, <2>2 DEF PeerSends
  <2>3. CASE PeerCloses(c)
    BY <2>1, <2>3 DEF PeerCloses
  <2>4. CASE PeerResets(c)
    BY <2>1, <2>4 DEF PeerResets
  <2> QED
    BY <2>2, <2>3, <2>4
<1>2. ready \in Seq(Sockets) /\ Distinct(ready)
      /\ \A i \in 1 .. Len(ready) : ready[i] # Listener => phase[ready[i]] = "served"
  BY <1>0 DEF TypeOK, ReadyIsServed
<1>3. /\ ready' \in Seq(Sockets) /\ Distinct(ready')
      /\ \A i \in 1 .. Len(ready') :
            \/ ready'[i] = c /\ phase[c] = "served"
            \/ \E j \in 1 .. Len(ready) : ready'[i] = ready[j]
  <2>1. CASE phase[c] = "served"
    BY <1>0, <2>1, WokenProperties
  <2>2. CASE phase[c] # "served"
    BY <1>0, <1>2, <2>2
  <2> QED
    BY <2>1, <2>2
<1>4. TypeOK'
  BY <1>0, <1>1, <1>3 DEF TypeOK
<1>5. ReadyIsServed'
  BY <1>0, <1>2, <1>3 DEF ReadyIsServed, Distinct
<1>6. BatchWasServed'
  BY <1>0 DEF IInv, BatchWasServed
<1>7. EdgeMeansQueued'
  BY <1>0, <1>3 DEF EdgeMeansQueued, InReady, InBatch
<1>8. \A i \in 1 .. Len(reports) : reports[i].socket = Listener \/ reports[i].socket \in Connections
  <2> SUFFICES ASSUME NEW i \in 1 .. Len(reports)
               PROVE  reports[i].socket = Listener \/ reports[i].socket \in Connections
    OBVIOUS
  <2>1. reports[i] \in ControlEvents
    BY <1>0 DEF TypeOK
  <2> QED
    BY <2>1 DEF ControlEvents, Sockets
<1>9. ReportedOnce'
  <2> SUFFICES ASSUME NEW i \in DOMAIN reports, NEW j \in DOMAIN reports,
                      i < j, reports[i].socket = reports[j].socket
               PROVE  /\ reports[i].socket # Listener /\ reset'[reports[i].socket]
                      /\ reports[i].code # "ClosedByHost" /\ reports[j].code = "ClosedByPeer"
    BY <1>0 DEF ReportedOnce
  <2>1. /\ reports[i].socket # Listener /\ reset[reports[i].socket]
        /\ reports[i].code # "ClosedByHost" /\ reports[j].code = "ClosedByPeer"
    BY DEF IInv, ReportedOnce
  <2>2. i \in 1 .. Len(reports) /\ reports[i].socket \in Connections
    BY <1>0, <1>8, <2>1 DEF TypeOK
  <2> QED
    BY <1>1, <2>1, <2>2
<1>10. ReportedAndPending' /\ FailedAtReport'
  BY <1>0 DEF IInv, ReportedAndPending, FailedAtReport, Held
<1>11. ReportedIsHeld'
  BY <1>0, <1>1, <1>8 DEF IInv, ReportedIsHeld
<1> QED
  BY <1>4, <1>5, <1>6, <1>7, <1>9, <1>10, <1>11 DEF IInv

LEMMA WaitKeepsIInv ==
    ASSUME IInv, Wait
    PROVE  IInv'
<1> DEFINE n == Min({events, Len(ready)})
<1>0. /\ TypeOK /\ ReadyIsServed /\ EdgeMeansQueued /\ BatchWasServed
      /\ pc = "wait" /\ pc' = "control" /\ reports = <<>> /\ batch = <<>> /\ ready # <<>>
      /\ batch' = Harvest(SubSeq(ready, 1, n))
      /\ ready' = SubSeq(ready, n + 1, Len(ready))
      /\ UNCHANGED <<program, events, phase, queue, listening, reading, reports>>
      /\ UNCHANGED <<unread, fin, reset>>
  BY DEF IInv, Wait, BatchWasServed, ReportedAndPending, peers
<1>1. ready \in Seq(Sockets) /\ Len(ready) \in Nat \ {0} /\ events \in Nat \ {0}
  BY <1>0, EmptySeq DEF TypeOK
<1>2. n \in 1 .. Len(ready)
  <2> DEFINE m == IF events =< Len(ready) THEN events ELSE Len(ready)
  <2>1. m \in {events, Len(ready)} /\ \A y \in {events, Len(ready)} : m =< y
    BY <1>1
  <2>2. n \in {events, Len(ready)} /\ \A y \in {events, Len(ready)} : n =< y
    BY <2>1 DEF Min
  <2> HIDE DEF n
  <2> QED
    BY <1>1, <2>2
<1> HIDE DEF n
<1> DEFINE taken == SubSeq(ready, 1, n)
<1>3. /\ DOMAIN taken = 1 .. n /\ \A i \in 1 .. n : taken[i] = ready[i] /\ i \in 1 .. Len(ready)
  BY <1>1, <1>2
<1>4. /\ ready' \in Seq(Sockets) /\ Len(ready') = Len(ready) - n
      /\ \A i \in 1 .. Len(ready) - n : n + i \in 1 .. Len(ready) /\ ready'[i] = ready[n + i]
  BY <1>0, <1>1, <1>2
<1> HIDE DEF taken
<1>5. ASSUME NEW s \in Sockets
      PROVE  EventsOf(s) \in CodeLists /\ (s = Listener <=> EventsOf(s) = <<"IncomingConnection">>)
  <2>1. /\ <<"Hangup">> # <<"IncomingConnection">> /\ <<"DataOut">> # <<"IncomingConnection">>
        /\ <<"DataIn", "DataOut">> # <<"IncomingConnection">>
    OBVIOUS
  <2> QED
    BY <2>1 DEF EventsOf, CodeLists
<1>6. batch' = [i \in 1 .. n |-> [socket |-> ready[i], codes |-> EventsOf(ready[i])]]
  BY <1>0, <1>3 DEF Harvest, taken
<1>7. /\ batch' \in Seq(Batches) /\ Len(batch') = n
      /\ \A i \in 1 .. n : batch'[i].socket = ready[i] /\ batch'[i].codes = EventsOf(ready[i])
  <2>1. \A i \in 1 .. n : [socket |-> ready[i], codes |-> EventsOf(ready[i])] \in Batches
    BY <1>1, <1>3, <1>5 DEF Batches
  <2>2. batch' \in [1 .. n -> Batches]
    BY <1>6, <2>1
  <2>3. n \in Nat
    BY <1>1, <1>2
  <2> QED
    BY <1>6, <2>2, <2>3
<1>8. TypeOK'
  BY <1>0, <1>4, <1>7 DEF TypeOK
<1>9. ReadyIsServed'
  <2>1. Distinct(ready')
    <3> SUFFICES ASSUME NEW i \in 1 .. Len(ready'), NEW j \in 1 .. Len(ready'), ready'[i] = ready'[j]
                 PROVE  i = j
      BY DEF Distinct
    <3>1. i \in 1 .. Len(ready) - n /\ j \in 1 .. Len(ready) - n
      BY <1>4
    <3>2. n + i \in 1 .. Len(ready) /\ n + j \in 1 .. Len(ready) /\ ready[n + i] = ready[n + j]
      BY <1>4, <3>1
    <3>3. \A k, l \in 1 .. Len(ready) : ready[k] = ready[l] => k = l
      BY <1>0 DEF ReadyIsServed, Distinct
    <3>4. n + i = n + j
      BY <3>2, <3>3
    <3> QED
      BY <1>1, <1>2, <3>4
  <2> QED
    BY <1>0, <1>4, <2>1 DEF ReadyIsServed
<1>10. BatchWasServed'
  <2>1. \A i, j \in 1 .. n : ready[i] = ready[j] => i = j
    BY <1>0, <1>3 DEF ReadyIsServed, Distinct
  <2>2. \A i \in 1 .. n : ready[i] \in Sockets /\ (ready[i] # Listener => phase[ready[i]] = "served")
    BY <1>0, <1>1, <1>3 DEF ReadyIsServed
  <2>3. \A i \in 1 .. n : ready[i] = Listener <=> EventsOf(ready[i]) = <<"IncomingConnection">>
    BY <1>5, <2>2
  <2>4. \A i, j \in 1 .. Len(batch') : batch'[i].socket = batch'[j].socket => i = j
    BY <1>7, <2>1
  <2>5. \A i \in 1 .. Len(batch') :
            /\ batch'[i].socket = Listener <=> batch'[i].codes = <<"IncomingConnection">>
            /\ batch'[i].socket # Listener => phase'[batch'[i].socket] \in {"served", "closed"}
    <3> SUFFICES ASSUME NEW i \in 1 .. n
                 PROVE  /\ batch'[i].socket = Listener <=> batch'[i].codes = <<"IncomingConnection">>
                        /\ batch'[i].socket # Listener => phase'[batch'[i].socket] = "served"
      BY <1>7
    <3>1. batch'[i].socket = ready[i] /\ batch'[i].codes = EventsOf(ready[i])
      BY <1>7
    <3>2. ready[i] = Listener <=> EventsOf(ready[i]) = <<"IncomingConnection">>
      BY <2>3
    <3>3. ready[i] # Listener => phase'[ready[i]] = "served"
      BY <1>0, <2>2
    <3> QED
      BY <3>1, <3>2, <3>3
  <2> QED
    BY <1>0, <2>4, <2>5 DEF BatchWasServed
<1>11. EdgeMeansQueued'
  <2>1. InReady(Listener)' => \E i \in 1 .. Len(ready) : i > n /\ ready[i] = Listener
    BY <1>1, <1>2, <1>4 DEF InReady
  <2>2. InBatch(Listener)' => \E i \in 1 .. Len(ready) : i <= n /\ ready[i] = Listener
    BY <1>1, <1>2, <1>3, <1>7 DEF InBatch
  <2>3. ~(InReady(Listener)' /\ InBatch(Listener)')
    BY <1>0, <1>1, <1>2, <2>1, <2>2 DEF ReadyIsServed, Distinct
  <2> QED
    BY <1>0, <2>1, <2>2, <2>3 DEF EdgeMeansQueued, InReady
<1>12. ReportedOnce' /\ ReportedAndPending' /\ ReportedIsHeld' /\ FailedAtReport'
  BY <1>0 DEF ReportedOnce, ReportedAndPending, ReportedIsHeld, FailedAtReport
<1> QED
  BY <1>8, <1>9, <1>10, <1>11, <1>12 DEF IInv

\* Entering the read loop and reading in it change nothing the invariant looks at.
LEMMA ReadLoopKeepsIInv ==
    ASSUME IInv, NEW c \in Connections, DataIn(c) \/ ReadBytes(c)
    PROVE  IInv'
<1>1. /\ unread' \in [Connections -> BOOLEAN] /\ reading' \in {"no", "nothing", "bytes"}
      /\ UNCHANGED <<program, events, phase, fin, reset, queue, listening, ready, pc, batch, reports>>
  BY DEF DataIn, ReadBytes, peers, IInv, TypeOK
<1> QED
  BY <1>1 DEF IInv, TypeOK, ReadyIsServed, BatchWasServed, EdgeMeansQueued, InReady,
     InBatch, ReportedOnce, ReportedAndPending, ReportedIsHeld, FailedAtReport, Held

\* The program has an empty batch, and looks at the reports.
LEMMA LoopKeepsIInv ==
    ASSUME IInv, WaitAndControlReturns \/ RemoveFails
    PROVE  IInv'
<1>0. /\ UNCHANGED <<program, events, phase, queue, listening, ready, batch, reading, reports>>
      /\ UNCHANGED <<unread, fin, reset>>
      /\ \/ pc = "control" /\ pc' = "report" /\ batch = <<>>
         \/ pc = "report" /\ pc' = "failed" /\ reports # <<>> /\ ~Held(Head(reports).socket)
  BY DEF WaitAndControlReturns, RemoveFails, peers
<1>1. batch = <<>> /\ pc' \in {"report", "failed"}
  BY <1>0 DEF IInv, BatchWasServed
<1>2. TypeOK' /\ ReadyIsServed' /\ EdgeMeansQueued' /\ ReportedOnce'
  BY <1>0 DEF IInv, TypeOK, ReadyIsServed, EdgeMeansQueued, ReportedOnce, InReady, InBatch
<1>3. BatchWasServed' /\ ReportedAndPending'
  BY <1>0, <1>1 DEF BatchWasServed, ReportedAndPending
<1>4. ReportedIsHeld'
  <2>1. CASE pc = "control"
    BY <1>0, <2>1 DEF IInv, ReportedIsHeld
  <2>2. CASE pc = "report"
    BY <1>0, <2>2 DEF IInv, ReportedIsHeld
  <2> QED
    BY <1>0, <2>1, <2>2
<1>5. FailedAtReport'
  BY <1>0 DEF FailedAtReport, Held
<1> QED
  BY <1>2, <1>3, <1>4, <1>5 DEF IInv

LEMMA HandleReportKeepsIInv ==
    ASSUME IInv, HandleReport
    PROVE  IInv'
<1> DEFINE s == Head(reports).socket
<1>0. /\ TypeOK /\ ReadyIsServed /\ EdgeMeansQueued /\ pc = "report"
      /\ reports # <<>> /\ s # Listener /\ phase[s] # "gone"
      /\ phase' = [phase EXCEPT ![s] = "gone"] /\ ready' = RemoveFirst(ready, s)
      /\ reports' = Tail(reports)
      /\ \/ program = "nc" /\ pc' = "done"
         \/ program = "server" /\ pc' = "report"
      /\ UNCHANGED <<program, events, queue, listening, batch, reading>>
      /\ UNCHANGED <<unread, fin, reset>>
  BY DEF HandleReport, RemoveReported, Held, peers, IInv, TypeOK
<1>1. /\ reports \in Seq(ControlEvents) /\ Len(reports) \in Nat \ {0}
      /\ 1 \in 1 .. Len(reports) /\ Head(reports) = reports[1]
  BY <1>0, EmptySeq DEF TypeOK
<1>2. \A i \in 1 .. Len(reports) : reports[i] \in ControlEvents /\ reports[i].socket \in Sockets
  <2>1. \A i \in 1 .. Len(reports) : reports[i] \in ControlEvents
    BY <1>1
  <2> QED
    BY <2>1 DEF ControlEvents
<1>3. s \in Connections /\ phase[s] \in {"served", "closed"} /\ s = reports[1].socket
  BY <1>0, <1>1, <1>2 DEF IInv, ReportedIsHeld, Sockets
<1> HIDE DEF s
<1>4. /\ phase' \in [Connections -> Phases] /\ phase'[s] = "gone"
      /\ \A d \in Connections \ {s} : phase'[d] = phase[d]
  <2>1. phase \in [Connections -> Phases] /\ "gone" \in Phases
    BY <1>0 DEF TypeOK, Phases
  <2> QED
    BY <1>0, <1>3, <2>1
<1>5. /\ ready' \in Seq(Sockets) /\ Distinct(ready')
      /\ \A i \in 1 .. Len(ready') : ready'[i] # s /\ \E j \in 1 .. Len(ready) : ready'[i] = ready[j]
  <2>1. ready \in Seq(Sockets) /\ Distinct(ready)
    BY <1>0 DEF TypeOK, ReadyIsServed
  <2> QED
    BY <1>0, <2>1, RemoveFirstProperties
<1>6. /\ reports' \in Seq(ControlEvents) /\ Len(reports') = Len(reports) - 1
      /\ \A i \in 1 .. Len(reports') : i + 1 \in 2 .. Len(reports) /\ reports'[i] = reports[i + 1]
  BY <1>0, <1>1
<1>7. batch = <<>> /\ batch' = <<>>
  BY <1>0 DEF IInv, BatchWasServed
<1>8. TypeOK'
  BY <1>0, <1>4, <1>5, <1>6 DEF TypeOK
<1>9. ReadyIsServed'
  <2> SUFFICES ASSUME NEW i \in 1 .. Len(ready'), ready'[i] # Listener
               PROVE  phase'[ready'[i]] = "served"
    BY <1>5 DEF ReadyIsServed, Distinct
  <2>1. ready'[i] \in Connections \ {s}
    BY <1>5 DEF Sockets
  <2>2. phase[ready'[i]] = "served"
    BY <1>0, <1>5 DEF ReadyIsServed
  <2> QED
    BY <1>4, <2>1, <2>2
<1>10. BatchWasServed' /\ ReportedAndPending' /\ FailedAtReport'
  BY <1>0, <1>7 DEF BatchWasServed, ReportedAndPending, FailedAtReport
<1>11. EdgeMeansQueued'
  <2>1. \A i \in 1 .. Len(queue) : phase'[queue[i]] = "queued"
    <3> SUFFICES ASSUME NEW i \in 1 .. Len(queue) PROVE phase'[queue[i]] = "queued"
      OBVIOUS
    <3>1. queue[i] \in Connections /\ phase[queue[i]] = "queued"
      BY <1>0 DEF EdgeMeansQueued, TypeOK
    <3> QED
      BY <1>3, <1>4, <3>1
  <2>2. (InReady(Listener)' => InReady(Listener)) /\ ~InBatch(Listener)'
    BY <1>5, <1>7 DEF InReady, InBatch
  <2> QED
    BY <1>0, <2>1, <2>2 DEF EdgeMeansQueued
<1>12. ReportedOnce'
  <2> SUFFICES ASSUME NEW i \in 1 .. Len(reports'), NEW j \in 1 .. Len(reports'), i < j,
                      reports'[i].socket = reports'[j].socket
               PROVE  /\ reports'[i].socket # Listener /\ reset[reports'[i].socket]
                      /\ reports'[i].code # "ClosedByHost" /\ reports'[j].code = "ClosedByPeer"
    <3>1. DOMAIN reports' = 1 .. Len(reports') /\ reset' = reset
      BY <1>0, <1>6
    <3> QED
      BY <3>1 DEF ReportedOnce
  <2>1. i + 1 \in DOMAIN reports /\ j + 1 \in DOMAIN reports /\ i + 1 < j + 1
    BY <1>1, <1>6
  <2> QED
    BY <1>6, <2>1 DEF IInv, ReportedOnce
<1>13. ReportedIsHeld'
  <2> SUFFICES ASSUME NEW i \in 1 .. Len(reports'), reports'[i].socket # Listener
               PROVE  /\ phase'[reports'[i].socket] \in {"served", "closed", "gone"}
                      /\ pc' = "report" /\ phase'[reports'[i].socket] = "gone" =>
                             program = "server" /\ reset[reports'[i].socket]
    BY <1>0 DEF ReportedIsHeld
  <2> DEFINE t == reports'[i].socket
  <2>1. i + 1 \in 2 .. Len(reports) /\ i + 1 \in 1 .. Len(reports) /\ t = reports[i + 1].socket
    BY <1>1, <1>6
  <2>2. t \in Connections
    BY <1>2, <2>1 DEF Sockets
  <2>3. CASE t = s
    <3>1. 1 \in DOMAIN reports /\ i + 1 \in DOMAIN reports /\ 1 < i + 1
      BY <1>1, <2>1
    <3>2. reset[s]
      BY <1>3, <2>1, <2>3, <3>1 DEF IInv, ReportedOnce
    <3> QED
      BY <1>0, <1>4, <2>3, <3>2
  <2>4. CASE t # s
    <3>1. /\ phase[t] \in {"served", "closed", "gone"}
          /\ phase[t] = "gone" => program = "server" /\ reset[t]
      BY <1>0, <2>1 DEF IInv, ReportedIsHeld
    <3> QED
      BY <1>4, <2>2, <2>4, <3>1
  <2> QED
    BY <2>3, <2>4
<1> QED
  BY <1>8, <1>9, <1>10, <1>11, <1>12, <1>13 DEF IInv

LEMMA GoOnKeepsIInv ==
    ASSUME IInv, GoOn
    PROVE  IInv'
<1> DEFINE accepted == {c \in Connections : phase[c] = "accepted"}
<1>0. /\ TypeOK /\ ReadyIsServed /\ EdgeMeansQueued
      /\ pc = "report" /\ pc' = "wait" /\ reports = <<>> /\ batch = <<>>
      /\ UNCHANGED <<program, events, queue, listening, batch, reading, reports>>
      /\ UNCHANGED <<unread, fin, reset>>
      /\ phase' = [c \in Connections |-> IF c \in accepted THEN "served" ELSE phase[c]]
  BY DEF IInv, GoOn, peers, BatchWasServed
<1>1. PICK added \in SetToSeqs(accepted) : ready' = ready \o added
  BY DEF GoOn
<1>2. ready \in Seq(Sockets) /\ Distinct(ready) /\ Len(ready) \in Nat
      /\ \A i \in 1 .. Len(ready) :
            ready[i] # Listener => ready[i] \in Connections /\ phase[ready[i]] = "served"
  <2>1. ready \in Seq(Sockets) /\ Distinct(ready)
    BY <1>0 DEF TypeOK, ReadyIsServed
  <2> QED
    BY <1>0, <2>1 DEF ReadyIsServed, Sockets
<1>3. /\ added \in Seq(accepted) /\ Distinct(added)
  <2>1. Cardinality(accepted) \in Nat
    BY ListeningAssumption, FS_Subset, FS_CardinalityType
  <2> HIDE DEF accepted
  <2>2. added \in [1 .. Cardinality(accepted) -> accepted]
        /\ \A i, j \in 1 .. Cardinality(accepted) : i # j => added[i] # added[j]
    BY <1>1, <2>1 DEF SetToSeqs
  <2> QED
    BY <2>1, <2>2 DEF Distinct
<1>4. accepted \subseteq Sockets /\ \A c \in accepted : c \in Connections /\ phase[c] = "accepted" /\ c # Listener
  BY ListeningAssumption DEF Sockets, Listener
<1>5. /\ phase' \in [Connections -> Phases]
      /\ \A c \in Connections : phase[c] = "accepted" => phase'[c] = "served"
      /\ \A c \in Connections : phase[c] # "accepted" => phase'[c] = phase[c]
  <2>1. phase \in [Connections -> Phases] /\ "served" \in Phases
    BY <1>0 DEF TypeOK, Phases
  <2> QED
    BY <1>0, <2>1
<1> HIDE DEF accepted
<1>6. \A i \in 1 .. Len(added) : added[i] \in Connections /\ phase[added[i]] = "accepted" /\ added[i] # Listener
  BY <1>3, <1>4
<1>7. /\ added \in Seq(Sockets) /\ Len(added) \in Nat
      /\ ready' \in Seq(Sockets) /\ Len(ready') = Len(ready) + Len(added)
      /\ \A i \in 1 .. Len(ready) : ready'[i] = ready[i]
      /\ \A i \in 1 .. Len(added) : ready'[Len(ready) + i] = added[i]
  <2>1. added \in Seq(Sockets) /\ Len(added) \in Nat
    BY <1>3, <1>4
  <2> QED
    BY <1>1, <1>2, <2>1
<1>8. ASSUME NEW i \in 1 .. Len(ready')
      PROVE  \/ i \in 1 .. Len(ready) /\ ready'[i] = ready[i]
             \/ \E k \in 1 .. Len(added) : i = Len(ready) + k /\ ready'[i] = added[k]
  <2>1. CASE i \in 1 .. Len(ready)
    BY <1>7, <2>1
  <2>2. CASE i \notin 1 .. Len(ready)
    <3>1. i - Len(ready) \in 1 .. Len(added) /\ i = Len(ready) + (i - Len(ready))
      BY <1>2, <1>7, <2>2
    <3> QED
      BY <1>7, <3>1
  <2> QED
    BY <2>1, <2>2
<1>9. ReadyIsServed'
  <2>1. Distinct(ready')
    <3> SUFFICES ASSUME NEW i \in 1 .. Len(ready'), NEW j \in 1 .. Len(ready'), ready'[i] = ready'[j]
                 PROVE  i = j
      BY DEF Distinct
    <3>1. CASE i \in 1 .. Len(ready) /\ j \in 1 .. Len(ready)
      BY <1>2, <1>7, <3>1 DEF Distinct
    <3>2. CASE i \in 1 .. Len(ready) /\ j \notin 1 .. Len(ready)
      <4>1. PICK k \in 1 .. Len(added) : ready'[j] = added[k]
        BY <1>8, <3>2
      <4>2. ready[i] = added[k]
        BY <1>7, <3>2, <4>1
      <4> QED
        BY <1>2, <1>6, <3>2, <4>2
    <3>3. CASE i \notin 1 .. Len(ready) /\ j \in 1 .. Len(ready)
      <4>1. PICK k \in 1 .. Len(added) : ready'[i] = added[k]
        BY <1>8, <3>3
      <4>2. ready[j] = added[k]
        BY <1>7, <3>3, <4>1
      <4> QED
        BY <1>2, <1>6, <3>3, <4>2
    <3>4. CASE i \notin 1 .. Len(ready) /\ j \notin 1 .. Len(ready)
      <4>1. PICK k \in 1 .. Len(added) : i = Len(ready) + k /\ ready'[i] = added[k]
        BY <1>8, <3>4
      <4>2. PICK l \in 1 .. Len(added) : j = Len(ready) + l /\ ready'[j] = added[l]
        BY <1>8, <3>4
      <4>3. k = l
        BY <1>3, <4>1, <4>2 DEF Distinct
      <4> QED
        BY <4>1, <4>2, <4>3
    <3> QED
      BY <3>1, <3>2, <3>3, <3>4
  <2>2. \A i \in 1 .. Len(ready') : ready'[i] # Listener => phase'[ready'[i]] = "served"
    <3> SUFFICES ASSUME NEW i \in 1 .. Len(ready'), ready'[i] # Listener
                 PROVE  phase'[ready'[i]] = "served"
      OBVIOUS
    <3>1. CASE i \in 1 .. Len(ready)
      BY <1>2, <1>5, <1>7, <3>1
    <3>2. CASE i \notin 1 .. Len(ready)
      <4>1. PICK k \in 1 .. Len(added) : ready'[i] = added[k]
        BY <1>8, <3>2
      <4> QED
        BY <1>5, <1>6, <4>1
    <3> QED
      BY <3>1, <3>2
  <2> QED
    BY <2>1, <2>2 DEF ReadyIsServed
<1>10. EdgeMeansQueued'
  <2>1. \A i \in 1 .. Len(queue) : queue[i] \in Connections /\ phase[queue[i]] = "queued"
    BY <1>0 DEF EdgeMeansQueued, TypeOK
  <2>2. \A i \in 1 .. Len(queue) : phase'[queue[i]] = "queued"
    BY <1>5, <2>1
  <2>3. (InReady(Listener)' => InReady(Listener)) /\ ~InBatch(Listener)'
    <3>1. InReady(Listener)' => InReady(Listener)
      BY <1>6, <1>8 DEF InReady
    <3>2. ~InBatch(Listener)'
      BY <1>0 DEF InBatch
    <3> QED
      BY <3>1, <3>2
  <2> QED
    BY <1>0, <2>2, <2>3 DEF EdgeMeansQueued
<1>11. TypeOK'
  BY <1>0, <1>5, <1>7 DEF TypeOK
<1>12. BatchWasServed' /\ ReportedOnce' /\ ReportedAndPending' /\ ReportedIsHeld' /\ FailedAtReport'
  BY <1>0 DEF BatchWasServed, ReportedOnce, ReportedAndPending, ReportedIsHeld, FailedAtReport
<1> QED
  BY <1>9, <1>10, <1>11, <1>12 DEF IInv

-----------------------------------------------------------------------------
(* The theorems.                                                           *)

LEMMA NextKeepsIInv ==
    IInv /\ [Next]_vars => IInv'
<1> SUFFICES ASSUME IInv, [Next]_vars PROVE IInv'
  OBVIOUS
<1>1. CASE Peers
  BY <1>1, ConnectKeepsIInv, MovesKeepsIInv DEF Peers
<1>2. CASE MainLoop
  BY <1>2, WaitKeepsIInv, AcceptingKeepsIInv, LoopKeepsIInv, ReadLoopKeepsIInv, ReadingKeepsIInv,
     HandleReportKeepsIInv, GoOnKeepsIInv DEF MainLoop
<1>3. CASE UNCHANGED vars
  BY <1>3 DEF vars, peers, IInv, TypeOK, ReadyIsServed, BatchWasServed, EdgeMeansQueued, InReady,
     InBatch, ReportedOnce, ReportedAndPending, ReportedIsHeld, FailedAtReport, Held
<1> QED
  BY <1>1, <1>2, <1>3 DEF Next

(* What the code keeps between any two steps of the program, its peers and *)
(* the kernel: the inductive invariant of waitAndControl (csjp_epoll.cpp). *)
THEOREM InvariantHolds == Spec => []IInv
<1>1. Init => IInv
  BY InitIInv
<1>2. IInv /\ [Next]_vars => IInv'
  BY NextKeepsIInv
<1> QED
  BY <1>1, <1>2, PTL DEF Spec

(* A list of control events names a socket twice only if its connection    *)
(* was reset while the batch was controlled, whatever the order and the    *)
(* number of the connections: waitAndControl never reports the listener,   *)
(* or a socket the program itself has closed, a second time.               *)
THEOREM SocketsAreReportedOnce == Spec => []ReportedOnce
<1>1. IInv => ReportedOnce
  BY DEF IInv
<1> QED
  BY <1>1, InvariantHolds, PTL

(* The program that removes what is reported meets a socket it no longer   *)
(* holds for one of two reasons: accept() of the listener has failed, or   *)
(* it goes through the whole list and a reset connection is in it twice.   *)
THEOREM RemovesOnlyWhatItHolds == Spec => []RemovesWhatItHolds
<1>1. IInv => RemovesWhatItHolds
  <2> SUFFICES ASSUME IInv, pc = "failed", Head(reports).socket # Listener
               PROVE  program = "server" /\ reset[Head(reports).socket]
    BY DEF RemovesWhatItHolds
  <2>1. reports # <<>> /\ phase[Head(reports).socket] = "gone"
    BY DEF IInv, FailedAtReport, Held
  <2>2. 1 \in 1 .. Len(reports) /\ Head(reports) = reports[1]
    BY <2>1, EmptySeq DEF IInv, TypeOK
  <2> QED
    BY <2>1, <2>2 DEF IInv, ReportedIsHeld
<1> QED
  BY <1>1, InvariantHolds, PTL

(* accept4() is called once for each edge of the listener, and there is a  *)
(* connection for it whenever its event is in the batch: the constructor   *)
(* of Server never finds the queue empty.                                  *)
AcceptFindsAConnection == InBatch(Listener) => queue # <<>>

THEOREM EveryEdgeIsAConnection == Spec => []AcceptFindsAConnection
<1>1. IInv => AcceptFindsAConnection
  BY DEF IInv, EdgeMeansQueued, AcceptFindsAConnection
<1> QED
  BY <1>1, InvariantHolds, PTL
==============================================================================
