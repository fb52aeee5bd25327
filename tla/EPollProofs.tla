----------------------------- MODULE EPollProofs -----------------------------
(***************************************************************************)
(* Proofs about the connection of csjp::EPollControl, for any number of    *)
(* bytes in either direction, any size of a read and any room in the       *)
(* kernel.  No stream loses, repeats or reorders a byte, ClosedByPeer is   *)
(* reported of a peer that is there only when receive() in the callback of *)
(* another socket has taken what an event was about, and closeOnSent never *)
(* closes over unsent bytes.                                               *)
(*                                                                         *)
(* None of the three is inductive as it stands: the streams need their     *)
(* types, the bound of the kernel's queue, and that bytes are pending only *)
(* on a socket that is open; ClosedByPeer needs to be followed from the    *)
(* kernel's word to the batch, from the batch to the read, and from the    *)
(* read to the comparison of the totals.  The invariant has a part for     *)
(* each direction and one for the loop.                                    *)
(***************************************************************************)
EXTENDS EPoll, SequenceTheorems, TLAPS

Bytes == Seq(Nat)
Events == {"DataIn", "DataOut", "Hangup"}
ControlEvents == {"ClosedByPeer", "ClosedByHost", "Exception"}

(* What the business logic takes from the socket: the bytes before         *)
(* "consumed" are its own, the rest is in the read buffer and the kernel.  *)
Receiving ==
    /\ readBuffer \in Bytes /\ rx \in Bytes
    /\ totalReceived \in Nat /\ consumed \in Nat /\ peerSent \in Nat
    /\ consumed <= peerSent
    /\ ReadStreamIntact
    /\ totalReceived = consumed + Len(readBuffer)

(* What it hands to the socket.  The kernel's queue never holds more than  *)
(* its room, without which a partial write could take a negative number,   *)
(* and is empty for good once bytes went down with the connection.  While  *)
(* the loop of ::write runs, on a socket that is open, a prefix of the     *)
(* write buffer is the kernel's already.                                   *)
Sending ==
    /\ writeBuffer \in Bytes /\ tx \in Bytes /\ Len(tx) <= SendSpace
    /\ totalSent \in Nat /\ appSent \in Nat /\ peerGot \in Nat /\ dropped \in Nat
    /\ peerGot + dropped <= appSent
    /\ dropped > 0 => tx = <<>>
    /\ WriteStreamIntact
    /\ totalSent + Len(writeBuffer) = appSent
    /\ written \in 0 .. Len(writeBuffer)
    /\ pc = "write" => file = "open"
    /\ pc # "write" => written = 0

\* readToBuffer has been called and has not returned.
InRead == pc = "read" \/ (pc = "write" /\ writer = "read")

ControlTypeOK ==
    /\ file \in {"none", "open", "closed"}
    /\ pc \in {"wait", "control", "read", "write", "report"}
    /\ writer \in {"wait", "control", "read", "dataOut"}
    /\ reader \in {"wait", "control"}
    /\ batch \in Seq(Events)
    /\ old \in Nat /\ want \in Nat
    /\ report \subseteq ControlEvents /\ told \subseteq ControlEvents
    /\ fin \in BOOLEAN /\ reset \in BOOLEAN
    /\ closeOnSent \in BOOLEAN /\ drained \in BOOLEAN

(* A batch is asked for only when the last one is spent: nothing is left   *)
(* of it outside waitAndControl, nor in a call of send() or receive() from *)
(* there; and receive() wants bytes only until it returns.                 *)
LoopDiscipline ==
    /\ pc \in {"wait", "report"} => batch = <<>>
    /\ pc = "write" /\ writer = "wait" => batch = <<>>
    /\ InRead /\ want # 0 /\ reader = "wait" => batch = <<>>
    /\ ~InRead => want = 0

(* DataIn comes first in a batch and is there for bytes, a FIN or a reset, *)
(* which only receive() in another's callback takes away before            *)
(* controlDataIn reads.                                                    *)
DataInMeansReadable ==
    \A i \in 1 .. Len(batch) :
        batch[i] = "DataIn" => i = 1 /\ (InRead => want # 0) /\ (Readable \/ drained)

HangupMeansReset ==
    \A i \in 1 .. Len(batch) : batch[i] = "Hangup" => reset

(* Inside controlDataIn the total has grown, or the read that has yet to   *)
(* come will find something, on a socket no callback could have closed.    *)
ReadFindsSomething ==
    InRead /\ want = 0 =>
        /\ old <= totalReceived
        /\ old = totalReceived => pc = "read" /\ file = "open" /\ (Readable \/ drained)

Control ==
    /\ ControlTypeOK
    /\ LoopDiscipline
    /\ DataInMeansReadable /\ HangupMeansReset /\ ReadFindsSomething

\* The inductive invariant.
IInv == Receiving /\ Sending /\ Control

-----------------------------------------------------------------------------
(* Sequences of numbered bytes.                                            *)

\* UpTo(m, n) is the bytes after m up to n, and so one byte longer than UpTo(m, n - 1).
LEMMA UpToProperties ==
    ASSUME NEW m \in Nat, NEW n \in Nat, m <= n
    PROVE  /\ UpTo(m, n) \in Bytes
           /\ Len(UpTo(m, n)) = n - m
           /\ \A i \in 1 .. n - m : UpTo(m, n)[i] = m + i
           /\ Append(UpTo(m, n), n + 1) = UpTo(m, n + 1)
  <1> DEFINE s == UpTo(m, n)
             t == UpTo(m, n + 1)
             k == n - m
  <1>1. k \in Nat /\ n + 1 - m = k + 1 /\ n + 1 = m + (k + 1)
    OBVIOUS
  <1>2. /\ s \in Seq(Nat) /\ Len(s) = k /\ \A i \in 1 .. k : s[i] = m + i
        /\ t \in Seq(Nat) /\ Len(t) = k + 1 /\ \A i \in 1 .. k + 1 : t[i] = m + i
    BY <1>1 DEF UpTo
  <1> HIDE DEF s, t, k
  <1>3. /\ Append(s, n + 1) \in Seq(Nat) /\ Len(Append(s, n + 1)) = k + 1
        /\ \A i \in 1 .. k : Append(s, n + 1)[i] = s[i]
        /\ Append(s, n + 1)[k + 1] = n + 1
    <2>1. n + 1 \in Nat
      OBVIOUS
    <2>2. QED
      BY <1>2, <2>1, AppendProperties
  <1>4. ASSUME NEW i \in 1 .. k + 1 PROVE Append(s, n + 1)[i] = t[i]
    <2>1. CASE i = k + 1
      BY <1>1, <1>2, <1>3, <2>1
    <2>2. CASE i \in 1 .. k
      BY <1>1, <1>2, <1>3, <2>2
    <2>3. i = k + 1 \/ i \in 1 .. k
      BY <1>1
    <2>4. QED
      BY <2>1, <2>2, <2>3
  <1>5. Append(s, n + 1) = t
    BY <1>2, <1>3, <1>4, SeqEqual
  <1>6. QED
    BY <1>2, <1>5 DEF s, t, k, Bytes

\* A prefix and what remains without it are the whole sequence.
LEMMA FirstAndWithout ==
    ASSUME NEW S, NEW s \in Seq(S), NEW k \in 0 .. Len(s)
    PROVE  /\ First(k, s) \in Seq(S) /\ Len(First(k, s)) = k
           /\ Without(k, s) \in Seq(S) /\ Len(Without(k, s)) = Len(s) - k
           /\ First(k, s) \o Without(k, s) = s
           /\ \A i \in 1 .. Len(s) - k : Without(k, s)[i] = s[k + i]
  <1>1. Len(s) \in Nat /\ \A i \in 1 .. Len(s) : s[i] \in S
    BY LenProperties, ElementOfSeq
  <1>2. /\ First(k, s) \in Seq(S) /\ Len(First(k, s)) = k
        /\ \A i \in 1 .. k : First(k, s)[i] = s[i]
    BY <1>1, SubSeqProperties DEF First
  <1>3. /\ Without(k, s) \in Seq(S) /\ Len(Without(k, s)) = Len(s) - k
        /\ \A i \in 1 .. Len(s) - k : Without(k, s)[i] = s[k + i]
    BY <1>1, SubSeqProperties DEF Without
  <1>4. First(k, s) \o Without(k, s) = s
    <2>1. /\ First(k, s) \o Without(k, s) \in Seq(S)
          /\ Len(First(k, s) \o Without(k, s)) = Len(s)
          /\ \A i \in 1 .. Len(s) : (First(k, s) \o Without(k, s))[i]
                = IF i <= k THEN First(k, s)[i] ELSE Without(k, s)[i - k]
      BY <1>1, <1>2, <1>3, ConcatProperties
    <2>2. \A i \in 1 .. Len(s) : (First(k, s) \o Without(k, s))[i] = s[i]
      BY <1>1, <1>2, <1>3, <2>1
    <2>3. QED
      BY <2>1, <2>2, SeqEqual
  <1>5. QED
    BY <1>2, <1>3, <1>4

\* Taking the first k bytes of UpTo(m, n) leaves the bytes after m + k.
LEMMA WithoutUpTo ==
    ASSUME NEW m \in Nat, NEW n \in Nat, NEW k \in Nat, m + k <= n
    PROVE  Without(k, UpTo(m, n)) = UpTo(m + k, n)
  <1> DEFINE s == UpTo(m, n)
             t == UpTo(m + k, n)
             l == n - (m + k)
  <1>1. l \in Nat /\ n - m = k + l
    OBVIOUS
  <1>2. m <= n /\ m + k \in Nat
    OBVIOUS
  <1>3. /\ s \in Seq(Nat) /\ Len(s) = k + l
        /\ \A i \in 1 .. k + l : s[i] = m + i
    BY <1>1, <1>2 DEF UpTo
  <1>4. /\ t \in Seq(Nat) /\ Len(t) = l
        /\ \A i \in 1 .. l : t[i] = (m + k) + i
    BY <1>1, <1>2 DEF UpTo
  <1> HIDE DEF s, t, l
  <1>5. k \in 0 .. Len(s) /\ Len(s) - k = l
    BY <1>1, <1>3
  <1>6. /\ Without(k, s) \in Seq(Nat) /\ Len(Without(k, s)) = l
        /\ \A i \in 1 .. l : Without(k, s)[i] = s[k + i]
    BY <1>3, <1>5, FirstAndWithout
  <1>7. ASSUME NEW i \in 1 .. l PROVE Without(k, s)[i] = t[i]
    <2>1. k + i \in 1 .. k + l /\ (m + k) + i = m + (k + i)
      BY <1>1
    <2>2. QED
      BY <1>3, <1>4, <1>6, <2>1
  <1>8. Without(k, s) = t
    BY <1>4, <1>6, <1>7, SeqEqual
  <1>9. QED
    BY <1>8 DEF s, t

\* What is left of s \o t without the first bytes of s.
LEMMA WithoutConcat ==
    ASSUME NEW S, NEW s \in Seq(S), NEW t \in Seq(S), NEW k \in 0 .. Len(s)
    PROVE  Without(k, s) \o t = Without(k, s \o t)
  <1> DEFINE u == s \o t
             a == Without(k, s)
             l == Len(s) - k
  <1>1. Len(s) \in Nat /\ Len(t) \in Nat /\ k \in Nat /\ l \in Nat /\ Len(s) = k + l
    BY LenProperties
  <1>2. /\ u \in Seq(S) /\ Len(u) = Len(s) + Len(t)
        /\ \A i \in 1 .. Len(s) + Len(t) : u[i] = IF i <= Len(s) THEN s[i] ELSE t[i - Len(s)]
    BY ConcatProperties
  <1>3. /\ a \in Seq(S) /\ Len(a) = l
        /\ \A i \in 1 .. l : a[i] = s[k + i]
    BY FirstAndWithout
  <1> HIDE DEF u, a, l
  <1>4. k \in 0 .. Len(u) /\ Len(u) - k = l + Len(t)
    BY <1>1, <1>2
  <1>5. /\ Without(k, u) \in Seq(S) /\ Len(Without(k, u)) = l + Len(t)
        /\ \A i \in 1 .. l + Len(t) : Without(k, u)[i] = u[k + i]
    <2>1. /\ Without(k, u) \in Seq(S) /\ Len(Without(k, u)) = Len(u) - k
          /\ \A i \in 1 .. Len(u) - k : Without(k, u)[i] = u[k + i]
      BY <1>2, <1>4, FirstAndWithout
    <2>2. QED
      BY <1>4, <2>1
  <1>6. /\ a \o t \in Seq(S)
        /\ Len(a \o t) = l + Len(t)
        /\ \A i \in 1 .. l + Len(t) : (a \o t)[i] = IF i <= l THEN a[i] ELSE t[i - l]
    BY <1>3, ConcatProperties
  <1>7. ASSUME NEW i \in 1 .. l + Len(t)
        PROVE  (a \o t)[i] = Without(k, u)[i]
    <2>1. k + i \in 1 .. Len(s) + Len(t) /\ i \in Nat
      BY <1>1
    <2>2. (a \o t)[i] = IF i <= l THEN a[i] ELSE t[i - l]
      BY <1>6
    <2>3. Without(k, u)[i] = IF k + i <= Len(s) THEN s[k + i] ELSE t[k + i - Len(s)]
      BY <1>2, <1>5, <2>1
    <2>4. CASE i <= l
      <3>1. i \in 1 .. l /\ k + i <= Len(s)
        BY <1>1, <2>4
      <3>2. QED
        BY <1>3, <2>2, <2>3, <2>4, <3>1
    <2>5. CASE ~ (i <= l)
      <3>1. ~ (k + i <= Len(s)) /\ k + i - Len(s) = i - l
        BY <1>1, <2>1, <2>5
      <3>2. QED
        BY <2>2, <2>3, <2>5, <3>1
    <2>6. QED
      BY <2>4, <2>5
  <1>8. a \o t = Without(k, u)
    BY <1>5, <1>6, <1>7, SeqEqual
  <1>9. QED
    BY <1>8 DEF a, u

\* Sequences of numbers may be put together in either order.
LEMMA NatConcat ==
    \A s, t, u \in Seq(Nat) : (s \o t) \o u = s \o (t \o u)
  <1>1. ASSUME NEW s \in Seq(Nat), NEW t \in Seq(Nat), NEW u \in Seq(Nat)
        PROVE  (s \o t) \o u = s \o (t \o u)
    OBVIOUS
  <1>2. QED
    BY <1>1

\* Appending to t appends to s \o t.
LEMMA ConcatAppend ==
    ASSUME NEW S, NEW s \in Seq(S), NEW t \in Seq(S), NEW e \in S
    PROVE  s \o Append(t, e) = Append(s \o t, e)
  <1>1. <<e>> \in Seq(S) /\ s \o t \in Seq(S)
    BY ConcatProperties
  <1>2. (s \o t) \o <<e>> = s \o (t \o <<e>>)
    BY <1>1, ConcatAssociative
  <1>3. QED
    BY <1>1, <1>2, AppendIsConcat

\* The first of s \o t is the first of s.
LEMMA HeadConcat ==
    ASSUME NEW S, NEW s \in Seq(S), NEW t \in Seq(S), s # <<>>
    PROVE  /\ Head(s) = (s \o t)[1]
           /\ Tail(s) = Without(1, s)
           /\ Len(s) \in Nat \ {0}
  <1>1. Len(s) \in Nat \ {0}
    BY EmptySeq
  <1>2. (s \o t)[1] = s[1]
    BY <1>1, ConcatProperties, LenProperties
  <1>3. QED
    BY <1>1, <1>2, TailIsSubSeq DEF Without

-----------------------------------------------------------------------------
(* The sending side.                                                       *)

\* The rest of the rest of a sequence.
LEMMA WithoutWithout ==
    ASSUME NEW S, NEW s \in Seq(S), NEW k \in 0 .. Len(s), NEW n \in 0 .. Len(s) - k
    PROVE  Without(n, Without(k, s)) = Without(k + n, s)
  <1> DEFINE a == Without(k, s)
             b == Without(k + n, s)
             l == Len(s) - (k + n)
  <1>1. /\ Len(s) \in Nat /\ k \in Nat /\ n \in Nat /\ l \in Nat
        /\ Len(s) - k = n + l /\ k + n \in 0 .. Len(s)
    BY LenProperties
  <1>2. /\ a \in Seq(S) /\ Len(a) = n + l
        /\ \A i \in 1 .. n + l : a[i] = s[k + i]
    BY <1>1, FirstAndWithout
  <1>3. /\ b \in Seq(S) /\ Len(b) = l
        /\ \A i \in 1 .. l : b[i] = s[(k + n) + i]
    BY <1>1, FirstAndWithout
  <1> HIDE DEF a, b, l
  <1>4. n \in 0 .. Len(a) /\ Len(a) - n = l
    BY <1>1, <1>2
  <1>5. /\ Without(n, a) \in Seq(S) /\ Len(Without(n, a)) = l
        /\ \A i \in 1 .. l : Without(n, a)[i] = a[n + i]
    BY <1>2, <1>4, FirstAndWithout
  <1>6. ASSUME NEW i \in 1 .. l PROVE Without(n, a)[i] = b[i]
    <2>1. n + i \in 1 .. n + l /\ k + (n + i) = (k + n) + i
      BY <1>1
    <2>2. QED
      BY <1>2, <1>3, <1>5, <2>1
  <1>7. Without(n, a) = b
    BY <1>3, <1>5, <1>6, SeqEqual
  <1>8. QED
    BY <1>7 DEF a, b

\* What the loop of ::write has still to write, and what it makes of the write buffer.
LEMMA PendingIs ==
    ASSUME Sending
    PROVE  /\ Pending \in Bytes /\ Len(Pending) = Len(writeBuffer) - written
           /\ Len(writeBuffer) \in Nat /\ written \in Nat
           /\ written = 0 => Pending = writeBuffer
  <1>1. /\ writeBuffer \in Seq(Nat) /\ written \in 0 .. Len(writeBuffer)
        /\ Len(writeBuffer) \in Nat
    BY LenProperties DEF Sending, Bytes
  <1>2. Pending \in Seq(Nat) /\ Len(Pending) = Len(writeBuffer) - written
    BY <1>1, FirstAndWithout DEF Pending
  <1>3. Without(0, writeBuffer) = writeBuffer
    BY <1>1, SubSeqFull DEF Without
  <1>4. QED
    BY <1>1, <1>2, <1>3 DEF Pending, Bytes

\* What is pending is the end of the stream, behind what the kernel holds.
LEMMA KernelThenPending ==
    ASSUME Sending
    PROVE  /\ (peerGot + dropped) + Len(tx) <= appSent
           /\ Pending = UpTo((peerGot + dropped) + Len(tx), appSent)
  <1> DEFINE m == peerGot + dropped
  <1>1. /\ tx \in Seq(Nat) /\ Pending \in Seq(Nat) /\ Len(tx) \in Nat
        /\ Len(tx) \in 0 .. Len(tx)
    BY PendingIs, LenProperties DEF Sending, Bytes
  <1>2. m \in Nat /\ appSent \in Nat /\ m <= appSent
    BY DEF Sending
  <1>3. tx \o Pending = UpTo(m, appSent)
    BY DEF Sending, WriteStreamIntact
  <1> HIDE DEF m
  <1>4. m + Len(tx) <= appSent
    <2>1. Len(tx \o Pending) = Len(tx) + Len(Pending) /\ Len(Pending) \in Nat
      BY <1>1, ConcatProperties, LenProperties
    <2>2. Len(UpTo(m, appSent)) = appSent - m
      BY <1>2, UpToProperties
    <2>3. QED
      BY <1>1, <1>2, <1>3, <2>1, <2>2
  <1>5. Without(Len(tx), tx) = <<>> /\ <<>> \o Pending = Pending
    BY <1>1, SubSeqEmpty, ConcatEmptySeq DEF Without
  <1>6. Without(Len(tx), tx) \o Pending = Without(Len(tx), tx \o Pending)
    BY <1>1, WithoutConcat
  <1>7. Without(Len(tx), UpTo(m, appSent)) = UpTo(m + Len(tx), appSent)
    BY <1>1, <1>2, <1>4, WithoutUpTo
  <1>8. QED
    BY <1>3, <1>4, <1>5, <1>6, <1>7 DEF m

(* A step that leaves alone what is pending, be it that written bytes are  *)
(* counted and chopped off.                                                *)
Chopped ==
    /\ Pending' = Pending
    /\ writeBuffer' \in Bytes /\ written' \in 0 .. Len(writeBuffer')
    /\ totalSent' \in Nat /\ totalSent' + Len(writeBuffer') = appSent
    /\ UNCHANGED <<appSent, peerGot>>

LEMMA NothingChopped ==
    ASSUME Sending, UNCHANGED <<writeBuffer, written, totalSent, appSent, peerGot>>
    PROVE  Chopped
  BY DEF Sending, Chopped, Pending, Without

\* A step that neither writes, sends nor closes.
LEMMA StillSending ==
    ASSUME Sending, Chopped, UNCHANGED <<tx, dropped>>,
           reset => reset', file = "closed" => file' = "closed",
           pc' = "write" => file' = "open", pc' # "write" => written' = 0
    PROVE  Sending'
  <1>1. WriteStreamIntact'
    <2>1. UpTo(peerGot + dropped, appSent)' = UpTo(peerGot + dropped, appSent)
      BY DEF UpTo, Chopped
    <2>2. QED
      BY <2>1 DEF Sending, WriteStreamIntact, Chopped
  <1>2. QED
    BY <1>1 DEF Sending, Chopped

\* The connection goes down with the bytes in the kernel: they are dropped, and counted.
LEMMA DroppingKeepsSending ==
    ASSUME Sending, Chopped,
           tx' = <<>>, dropped' = dropped + Len(tx),
           reset' \/ file' = "closed",
           pc' = "write" => file' = "open", pc' # "write" => written' = 0
    PROVE  Sending'
  <1>1. /\ tx \in Bytes /\ Len(tx) \in Nat /\ Pending \in Bytes
        /\ peerGot + dropped \in Nat /\ appSent \in Nat /\ peerGot + dropped <= appSent
        /\ tx \o Pending = UpTo(peerGot + dropped, appSent)
    BY PendingIs, LenProperties DEF Sending, WriteStreamIntact, Bytes
  <1>2. /\ (peerGot + dropped) + Len(tx) <= appSent
        /\ Pending = UpTo((peerGot + dropped) + Len(tx), appSent)
    BY KernelThenPending
  <1>3. <<>> \in Bytes /\ Len(<<>>) = 0 /\ <<>> \o Pending = Pending
    BY <1>1, EmptySeq, ConcatEmptySeq DEF Bytes
  <1>4. dropped' \in Nat /\ peerGot + dropped' = (peerGot + dropped) + Len(tx)
    BY <1>1 DEF Sending
  <1>5. WriteStreamIntact'
    <2>1. UpTo(peerGot + dropped, appSent)' = UpTo(peerGot + dropped', appSent)
      BY DEF UpTo, Chopped
    <2>2. QED
      BY <1>2, <1>3, <1>4, <2>1 DEF WriteStreamIntact, Chopped
  <1>6. Len(tx') <= SendSpace /\ peerGot' + dropped' <= appSent'
    BY <1>2, <1>3, <1>4, EPollAssumption DEF Chopped
  <1>7. QED
    BY <1>3, <1>4, <1>5, <1>6 DEF Sending, Chopped

(* Socket::close; the kernel goes on delivering what it holds, or drops    *)
(* it.                                                                     *)
LEMMA CloseKeepsSending ==
    ASSUME Sending, Chopped, NEW unread, Close(unread), pc' # "write", written' = 0,
           reset => reset'
    PROVE  Sending'
  <1>1. CASE unread = <<>>
    BY <1>1, StillSending DEF Close
  <1>2. CASE unread # <<>>
    BY <1>2, DroppingKeepsSending DEF Close
  <1>3. QED
    BY <1>1, <1>2

\* send() puts the next byte of the business logic behind what has not been written.
LEMMA SendKeepsSending ==
    ASSUME Sending, NEW caller, Send(caller), pc # "write", file = "open",
           UNCHANGED <<file, tx, dropped, written, totalSent, peerGot, reset>>
    PROVE  Sending'
  <1>1. /\ writeBuffer \in Seq(Nat) /\ tx \in Seq(Nat) /\ Len(writeBuffer) \in Nat
        /\ appSent \in Nat /\ appSent + 1 \in Nat /\ peerGot + dropped \in Nat
        /\ peerGot + dropped <= appSent /\ written = 0
        /\ tx \o writeBuffer = UpTo(peerGot + dropped, appSent)
    BY PendingIs, LenProperties DEF Sending, WriteStreamIntact, Bytes
  <1>2. /\ appSent' = appSent + 1 /\ writeBuffer' = Append(writeBuffer, appSent + 1)
        /\ pc' = "write"
    BY DEF Send
  <1>3. writeBuffer' \in Seq(Nat) /\ Len(writeBuffer') = Len(writeBuffer) + 1
    BY <1>1, <1>2, AppendProperties
  <1>4. tx \o writeBuffer' = UpTo(peerGot + dropped, appSent + 1)
    <2>1. tx \o Append(writeBuffer, appSent + 1) = Append(tx \o writeBuffer, appSent + 1)
      <3>1. tx \in Seq(Nat) /\ writeBuffer \in Seq(Nat) /\ appSent + 1 \in Nat
        BY <1>1
      <3>2. QED
        BY <3>1, ConcatAppend
    <2> DEFINE m == peerGot + dropped
    <2>2. m \in Nat /\ m <= appSent /\ tx \o writeBuffer = UpTo(m, appSent)
      BY <1>1
    <2> HIDE DEF m
    <2>3. Append(UpTo(m, appSent), appSent + 1) = UpTo(m, appSent + 1)
      BY <1>1, <2>2, UpToProperties
    <2>4. QED
      BY <1>2, <2>1, <2>2, <2>3 DEF m
  <1>5. WriteStreamIntact'
    <2>1. Pending' = writeBuffer'
      <3>1. Without(0, writeBuffer') = writeBuffer'
        BY <1>3, SubSeqFull DEF Without
      <3>2. QED
        BY <1>1, <3>1 DEF Pending
    <2>2. UpTo(peerGot + dropped, appSent)' = UpTo(peerGot + dropped, appSent + 1)
      BY <1>2 DEF UpTo
    <2>3. QED
      BY <1>4, <2>1, <2>2 DEF Sending, WriteStreamIntact
  <1>6. written' \in 0 .. Len(writeBuffer') /\ totalSent' + Len(writeBuffer') = appSent'
    <2>1. totalSent \in Nat /\ totalSent + Len(writeBuffer) = appSent
      BY DEF Sending
    <2>2. written' = 0 /\ totalSent' = totalSent
      BY <1>1
    <2>3. /\ Len(writeBuffer') = Len(writeBuffer) + 1 /\ Len(writeBuffer) \in Nat
          /\ appSent' = appSent + 1 /\ appSent \in Nat
      BY <1>1, <1>2, <1>3
    <2>4. QED
      BY <2>1, <2>2, <2>3
  <1>7. QED
    BY <1>1, <1>2, <1>3, <1>5, <1>6 DEF Sending, Bytes

\* One ::write moves a prefix of what is pending to the kernel.
LEMMA WriteBytesKeepsSending ==
    ASSUME Sending, WriteBytes
    PROVE  Sending'
  <1> DEFINE n == Min(Len(Pending), SendSpace - Len(tx))
  <1>1. /\ tx' = tx \o First(n, Pending) /\ written' = written + n
        /\ pc = "write" /\ ~reset
        /\ UNCHANGED <<writeBuffer, totalSent, appSent, peerGot, dropped, file, pc, reset>>
    BY DEF WriteBytes, buffers, loop, streams
  <1>2. /\ Pending \in Seq(Nat) /\ Len(Pending) = Len(writeBuffer) - written
        /\ Len(writeBuffer) \in Nat /\ written \in Nat /\ tx \in Seq(Nat) /\ Len(tx) \in Nat
        /\ writeBuffer \in Seq(Nat) /\ written \in 0 .. Len(writeBuffer)
    BY PendingIs, LenProperties DEF Sending, Bytes
  <1>3. n \in 0 .. Len(Pending) /\ Len(tx) + n <= SendSpace
    BY <1>2, EPollAssumption DEF Sending, Min
  <1> HIDE DEF n
  <1>4. /\ First(n, Pending) \in Seq(Nat) /\ Len(First(n, Pending)) = n
        /\ Without(n, Pending) \in Seq(Nat)
        /\ First(n, Pending) \o Without(n, Pending) = Pending
    BY <1>2, <1>3, FirstAndWithout
  <1>5. tx' \in Seq(Nat) /\ Len(tx') = Len(tx) + n
    <2> DEFINE first == First(n, Pending)
    <2>1. first \in Seq(Nat) /\ Len(first) = n /\ tx \in Seq(Nat)
      BY <1>2, <1>4
    <2> HIDE DEF first
    <2>2. tx \o first \in Seq(Nat) /\ Len(tx \o first) = Len(tx) + n
      BY <2>1, ConcatProperties
    <2>3. QED
      BY <1>1, <2>2 DEF first
  <1>6. Pending' = Without(n, Pending)
    <2>1. n \in 0 .. Len(writeBuffer) - written
      BY <1>2, <1>3
    <2>2. Without(n, Without(written, writeBuffer)) = Without(written + n, writeBuffer)
      BY <1>2, <2>1, WithoutWithout
    <2>3. QED
      BY <1>1, <2>2 DEF Pending
  <1>7. tx' \o Pending' = tx \o Pending
    <2> DEFINE a == First(n, Pending)
               b == Without(n, Pending)
    <2>1. a \in Seq(Nat) /\ b \in Seq(Nat) /\ tx \in Seq(Nat)
      BY <1>2, <1>4
    <2>2. a \o b = Pending
      BY <1>4
    <2> HIDE DEF a, b
    <2>3. (tx \o a) \o b = tx \o (a \o b)
      BY <2>1, NatConcat
    <2>4. QED
      BY <1>1, <1>6, <2>2, <2>3 DEF a, b
  <1>8. dropped = 0
    BY <1>1 DEF Sending, WriteStreamIntact
  <1>9. WriteStreamIntact'
    <2>1. UpTo(peerGot + dropped, appSent)' = UpTo(peerGot + dropped, appSent)
      BY <1>1 DEF UpTo
    <2>2. QED
      BY <1>1, <1>7, <1>8, <2>1 DEF Sending, WriteStreamIntact
  <1>10. written' \in 0 .. Len(writeBuffer') /\ Len(tx') <= SendSpace
    BY <1>1, <1>2, <1>3, <1>5
  <1>11. QED
    BY <1>1, <1>5, <1>8, <1>9, <1>10 DEF Sending, Bytes

(* The end of writeFromBuffer: what was written is counted and chopped off *)
(* together, whether the kernel is full, nothing is left or the connection *)
(* was reset.                                                              *)
LEMMA WriteEndsKeepsSending ==
    ASSUME Sending, reader \in {"wait", "control"}, WriteEnds
    PROVE  Sending'
  <1>1. /\ totalSent' = totalSent + written /\ writeBuffer' = Pending /\ written' = 0
        /\ UNCHANGED <<appSent, peerGot, reset>>
        /\ pc = "write"
        /\ Close(rx) \/ Stay
    BY DEF WriteEnds
  <1>2. pc' # "write"
    BY DEF WriteEnds, WriterReturns, ReadRaises, ReaderReturns
  <1>3. /\ Pending \in Seq(Nat) /\ Len(Pending) = Len(writeBuffer) - written
        /\ Len(writeBuffer) \in Nat /\ written \in Nat /\ Len(Pending) \in Nat
    BY PendingIs, LenProperties DEF Bytes
  <1>4. Pending' = Pending
    <2>1. Without(0, Pending) = Pending
      BY <1>3, SubSeqFull DEF Without
    <2>2. Pending' = Without(0, Pending)
      BY <1>1 DEF Pending
    <2>3. QED
      BY <2>1, <2>2
  <1>5. Chopped
    <2>1. /\ totalSent \in Nat /\ totalSent + Len(writeBuffer) = appSent
          /\ written <= Len(writeBuffer)
      BY <1>3 DEF Sending
    <2>2. totalSent' \in Nat /\ totalSent' + Len(writeBuffer') = appSent
      BY <1>1, <1>3, <2>1
    <2>3. writeBuffer' \in Bytes /\ written' \in 0 .. Len(writeBuffer')
      BY <1>1, <1>3 DEF Bytes
    <2>4. QED
      BY <1>1, <1>4, <2>2, <2>3 DEF Chopped
  <1>6. CASE Close(rx)
    BY <1>1, <1>2, <1>5, <1>6, CloseKeepsSending
  <1>7. CASE Stay
    BY <1>1, <1>2, <1>5, <1>7, StillSending DEF Stay
  <1>8. QED
    BY <1>1, <1>6, <1>7

\* The peer takes the first byte of those in the kernel, the next one of the stream.
LEMMA PeerReadKeepsSending ==
    ASSUME Sending, PeerRead
    PROVE  Sending'
  <1>1. /\ tx # <<>> /\ tx' = Tail(tx) /\ peerGot' = Head(tx)
        /\ UNCHANGED <<writeBuffer, written, totalSent, appSent, dropped, file, pc, reset>>
    BY DEF PeerRead, buffers, calls, loop
  <1>2. /\ tx \in Seq(Nat) /\ Pending \in Seq(Nat) /\ Pending' = Pending
        /\ peerGot \in Nat /\ appSent \in Nat /\ peerGot <= appSent /\ dropped = 0
        /\ tx \o Pending = UpTo(peerGot, appSent)
    <2>1. Pending \in Bytes
      BY PendingIs
    <2>2. dropped = 0
      BY <1>1 DEF Sending
    <2>3. peerGot + dropped = peerGot /\ peerGot \in Nat
      BY <2>2 DEF Sending
    <2>4. Pending' = Pending
      BY <1>1 DEF Pending, Without
    <2>5. QED
      BY <2>1, <2>2, <2>3, <2>4 DEF Sending, WriteStreamIntact, Bytes
  <1>3. /\ Tail(tx) \in Seq(Nat) /\ Len(Tail(tx)) = Len(tx) - 1 /\ Head(tx) \in Nat
        /\ Len(tx) \in Nat
    BY <1>1, <1>2, HeadTailProperties, LenProperties
  <1>4. /\ Head(tx) = (tx \o Pending)[1] /\ Tail(tx) = Without(1, tx)
        /\ Len(tx) \in Nat \ {0}
    BY <1>1, <1>2, HeadConcat
  <1>5. peerGot + 1 <= appSent /\ 1 \in 1 .. appSent - peerGot
    <2>1. Len(UpTo(peerGot, appSent)) = appSent - peerGot
      BY <1>2, UpToProperties
    <2>2. Len(tx \o Pending) = Len(tx) + Len(Pending) /\ Len(Pending) \in Nat
      BY <1>2, ConcatProperties, LenProperties
    <2>3. QED
      BY <1>2, <1>4, <2>1, <2>2
  <1>6. UpTo(peerGot, appSent)[1] = peerGot + 1
    BY <1>2, <1>5, UpToProperties
  <1>7. Tail(tx) \o Pending = UpTo(peerGot + 1, appSent)
    <2>1. Tail(tx) \o Pending = Without(1, tx \o Pending)
      <3>1. 1 \in 0 .. Len(tx)
        BY <1>4
      <3>2. QED
        BY <1>2, <1>4, <3>1, WithoutConcat
    <2>2. Without(1, UpTo(peerGot, appSent)) = UpTo(peerGot + 1, appSent)
      BY <1>2, <1>5, WithoutUpTo
    <2>3. QED
      BY <1>2, <2>1, <2>2
  <1>8. peerGot' = peerGot + 1 /\ peerGot' + dropped' = peerGot + 1
    BY <1>1, <1>2, <1>4, <1>6
  <1>9. WriteStreamIntact'
    <2>1. UpTo(peerGot + dropped, appSent)' = UpTo(peerGot + 1, appSent)
      BY <1>1, <1>8 DEF UpTo
    <2>2. tx' \o Pending' = UpTo(peerGot + dropped, appSent)'
      BY <1>1, <1>2, <1>7, <2>1
    <2>3. ~(dropped' > 0)
      BY <1>1, <1>2
    <2>4. QED
      BY <2>2, <2>3 DEF WriteStreamIntact
  <1>10. Len(tx') <= SendSpace
    BY <1>1, <1>3, EPollAssumption DEF Sending
  <1>11. QED
    BY <1>1, <1>2, <1>3, <1>5, <1>8, <1>9, <1>10 DEF Sending, Bytes

\* The sending side through every step: one byte at a time, in order, to the peer.
LEMMA NextSending ==
    ASSUME Sending, reader \in {"wait", "control"}, [Next]_vars
    PROVE  Sending'
  <1>1. ASSUME UNCHANGED <<writeBuffer, written, totalSent, appSent, peerGot, tx, dropped>>,
               reset => reset', file = "closed" => file' = "closed",
               pc' = "write" => file' = "open", pc' # "write" => written = 0
        PROVE  Sending'
    BY <1>1, NothingChopped, StillSending
  <1>2. CASE PeerRead
    BY <1>2, PeerReadKeepsSending
  <1>3. CASE PeerResets \/ PeerAborts
    <2>1. /\ tx' = <<>> /\ dropped' = dropped + Len(tx) /\ reset'
          /\ UNCHANGED <<writeBuffer, written, totalSent, appSent, peerGot, file, pc>>
      BY <1>3 DEF PeerResets, PeerAborts, buffers, calls, loop
    <2>2. (pc' = "write" => file' = "open") /\ (pc' # "write" => written' = 0)
      BY <2>1 DEF Sending
    <2>3. QED
      BY <2>1, <2>2, NothingChopped, DroppingKeepsSending
  <1>4. CASE PeerSend \/ PeerClose \/ SetCloseOnSent
    <2>1. UNCHANGED <<writeBuffer, written, totalSent, appSent, peerGot, tx, dropped, reset, file, pc>>
      BY <1>4 DEF PeerSend, PeerClose, SetCloseOnSent, buffers, calls, loop, streams, kernel
    <2>2. (pc' = "write" => file' = "open") /\ (pc' # "write" => written = 0)
      BY <2>1 DEF Sending
    <2>3. QED
      BY <1>1, <2>1, <2>2
  <1>5. CASE DataOut
    <2>1. /\ UNCHANGED <<writeBuffer, written, totalSent, appSent, peerGot, tx, dropped, reset, file>>
          /\ file = "open" /\ pc' = "write"
      BY <1>5 DEF DataOut, buffers, streams, kernel
    <2>2. QED
      BY <1>1, <2>1
  <1>6. CASE ReadBytes
    <2>1. /\ UNCHANGED <<totalSent, written, peerGot, reset>> /\ pc = "read" /\ file = "open"
          /\ DataReceived(readBuffer \o First(Min(ReadSize, Len(rx)), rx),
                          Without(Min(ReadSize, Len(rx)), rx))
      BY <1>6 DEF ReadBytes
    <2>2. written = 0
      BY <2>1 DEF Sending
    <2>3. CASE Silent /\ Stay
      BY <1>1, <2>1, <2>2, <2>3 DEF Silent, Stay
    <2>4. CASE Send("read") /\ Stay
      BY <2>1, <2>2, <2>4, SendKeepsSending DEF Stay
    <2>5. CASE Silent /\ Close(Without(Min(ReadSize, Len(rx)), rx))
      <3>1. UNCHANGED <<writeBuffer, written, totalSent, appSent, peerGot>>
        BY <2>1, <2>5 DEF Silent
      <3>2. pc' # "write" /\ written' = 0 /\ (reset => reset')
        BY <2>1, <2>2, <2>5 DEF Silent
      <3>3. QED
        BY <2>5, <3>1, <3>2, NothingChopped, CloseKeepsSending
    <2>6. QED
      BY <2>1, <2>3, <2>4, <2>5 DEF DataReceived
  <1>7. CASE WriteBytes
    BY <1>7, WriteBytesKeepsSending
  <1>8. CASE WriteEnds
    BY <1>8, WriteEndsKeepsSending
  <1>9. CASE HandleReport
    <2>1. /\ UNCHANGED <<writeBuffer, written, totalSent, appSent, peerGot, reset>>
          /\ pc' = "wait" /\ pc = "report"
      BY <1>9 DEF HandleReport, buffers, calls
    <2>2. written = 0
      BY <2>1 DEF Sending
    <2>3. Close(rx) \/ Stay
      BY <1>9 DEF HandleReport
    <2>4. CASE Stay
      BY <1>1, <2>1, <2>2, <2>4 DEF Stay
    <2>5. CASE Close(rx)
      BY <2>1, <2>2, <2>5, NothingChopped, CloseKeepsSending
    <2>6. QED
      BY <2>3, <2>4, <2>5
  <1>10. CASE CallSend
    <2>1. /\ Send(pc) /\ pc # "write" /\ file = "open"
          /\ UNCHANGED <<file, tx, dropped, written, totalSent, peerGot, reset>>
      BY <1>10 DEF CallSend, Outside, kernel
    <2>2. QED
      BY <2>1, SendKeepsSending
  <1>11. CASE Accept
    <2>1. /\ UNCHANGED <<writeBuffer, written, totalSent, appSent, peerGot, tx, dropped, reset, pc>>
          /\ pc = "wait" /\ file = "none"
      BY <1>11 DEF Accept, buffers, calls, loop, streams
    <2>2. QED
      BY <1>1, <2>1 DEF Sending
  <1>12. CASE Wait \/ SkipClosed \/ Hangup \/ DataIn \/ WaitAndControlReturns
    <2>1. /\ UNCHANGED <<writeBuffer, written, totalSent, appSent, peerGot, tx, dropped, reset, file>>
          /\ pc # "write" /\ pc' # "write"
      BY <1>12 DEF Wait, SkipClosed, Hangup, DataIn, WaitAndControlReturns, buffers, calls,
                   streams, kernel
    <2>2. QED
      BY <1>1, <2>1 DEF Sending
  <1>13. CASE ReadFails \/ ControlDataInReturns \/ ReceiveReturns
    <2>1. /\ UNCHANGED <<writeBuffer, written, totalSent, appSent, peerGot, tx, dropped, reset, file>>
          /\ pc = "read" /\ pc' # "write"
      BY <1>13 DEF ReadFails, ControlDataInReturns, ReceiveReturns, ReadEnds, ReadRaises,
                   ReaderReturns, buffers, streams, kernel
    <2>2. QED
      BY <1>1, <2>1 DEF Sending
  <1>14. CASE \E length \in 1 .. MaxIn : CallReceive(length)
    <2>1. /\ UNCHANGED <<writeBuffer, written, totalSent, appSent, peerGot, tx, dropped, reset, file>>
          /\ pc # "write" /\ pc' # "write"
      BY <1>14 DEF CallReceive, Outside, kernel
    <2>2. QED
      BY <1>1, <2>1 DEF Sending
  <1>15. CASE UNCHANGED vars
    <2>1. UNCHANGED <<writeBuffer, written, totalSent, appSent, peerGot, tx, dropped, reset, file, pc>>
      BY <1>15 DEF vars, buffers, calls, loop, kernel, streams
    <2>2. (pc' = "write" => file' = "open") /\ (pc' # "write" => written = 0)
      BY <2>1 DEF Sending
    <2>3. QED
      BY <1>1, <2>1, <2>2
  <1>16. QED
    BY <1>2, <1>3, <1>4, <1>5, <1>6, <1>7, <1>8, <1>9, <1>10, <1>11, <1>12, <1>13, <1>14, <1>15
       DEF Next, Peer, EventLoop, WaitAndControl, Reading, Writing, Program

-----------------------------------------------------------------------------
(* The receiving side.                                                     *)

\* The bytes taken from the front of the read buffer are the next ones of the stream.
LEMMA TakingKeepsReceiving ==
    ASSUME Receiving, NEW buffered \in Bytes, NEW unread \in Bytes,
           NEW length \in 0 .. Len(buffered),
           buffered \o unread = UpTo(consumed, peerSent),
           totalReceived' = consumed + Len(buffered),
           readBuffer' = Without(length, buffered), consumed' = consumed + length,
           rx' = unread, peerSent' = peerSent
    PROVE  Receiving'
  <1>1. /\ buffered \in Seq(Nat) /\ unread \in Seq(Nat)
        /\ Len(buffered) \in Nat /\ Len(unread) \in Nat /\ length \in Nat
        /\ consumed \in Nat /\ peerSent \in Nat /\ consumed <= peerSent
    BY LenProperties DEF Receiving, Bytes
  <1>2. Len(buffered) + Len(unread) = peerSent - consumed
    <2>1. Len(buffered \o unread) = Len(buffered) + Len(unread)
      BY <1>1, ConcatProperties
    <2>2. Len(UpTo(consumed, peerSent)) = peerSent - consumed
      BY <1>1, UpToProperties
    <2>3. QED
      BY <2>1, <2>2
  <1>3. /\ Without(length, buffered) \in Seq(Nat)
        /\ Len(Without(length, buffered)) = Len(buffered) - length
    BY <1>1, FirstAndWithout
  <1>4. consumed + length <= peerSent /\ consumed + length \in Nat
    BY <1>1, <1>2
  <1>5. Without(length, buffered) \o unread = UpTo(consumed + length, peerSent)
    <2>1. Without(length, buffered) \o unread = Without(length, buffered \o unread)
      BY <1>1, WithoutConcat
    <2>2. Without(length, UpTo(consumed, peerSent)) = UpTo(consumed + length, peerSent)
      BY <1>1, <1>4, WithoutUpTo
    <2>3. QED
      BY <2>1, <2>2
  <1>6. ReadStreamIntact'
    BY <1>5 DEF ReadStreamIntact, UpTo
  <1>7. totalReceived' = consumed' + Len(readBuffer') /\ totalReceived' \in Nat
    BY <1>1, <1>3
  <1>8. QED
    BY <1>1, <1>3, <1>4, <1>6, <1>7 DEF Receiving, Bytes

\* receive(length), as far as it takes bytes.
LEMMA TakeKeepsReceiving ==
    ASSUME Receiving, NEW length \in Nat, Take(length),
           UNCHANGED <<rx, totalReceived, peerSent>>
    PROVE  Receiving'
  <1>1. CASE Len(readBuffer) < length
    BY <1>1 DEF Take, Receiving, ReadStreamIntact, UpTo
  <1>2. CASE ~(Len(readBuffer) < length)
    <2>1. /\ length \in 0 .. Len(readBuffer)
          /\ readBuffer' = Without(length, readBuffer) /\ consumed' = consumed + length
      BY <1>2, LenProperties DEF Take, Receiving, Bytes
    <2>2. /\ readBuffer \in Bytes /\ rx \in Bytes
          /\ readBuffer \o rx = UpTo(consumed, peerSent)
          /\ totalReceived' = consumed + Len(readBuffer)
      BY DEF Receiving, ReadStreamIntact
    <2>3. QED
      BY <2>1, <2>2, TakingKeepsReceiving
  <1>3. QED
    BY <1>1, <1>2

(* One ::read and its callback: the bytes pass from the kernel to the read *)
(* buffer, and at least one does.                                          *)
LEMMA ReadBytesKeepsReceiving ==
    ASSUME Receiving, ReadBytes
    PROVE  Receiving' /\ totalReceived' > totalReceived
  <1> DEFINE n == Min(ReadSize, Len(rx))
             available == readBuffer \o First(n, rx)
             unread == Without(n, rx)
  <1>1. /\ rx # <<>> /\ rx' = unread /\ totalReceived' = totalReceived + n
        /\ peerSent' = peerSent
        /\ DataReceived(available, unread)
    BY DEF ReadBytes
  <1>2. n \in 1 .. Len(rx) /\ n \in 0 .. Len(rx) /\ n \in Nat \ {0}
    BY <1>1, EmptySeq, EPollAssumption DEF Min, Receiving, Bytes
  <1>3. \/ readBuffer' = available /\ consumed' = consumed
        \/ readBuffer' = <<>> /\ consumed' = consumed + Len(available)
    BY <1>1, Zenon DEF DataReceived, TakeAll, Keep
  <1> HIDE DEF n
  <1>4. /\ readBuffer \in Seq(Nat) /\ rx \in Seq(Nat)
        /\ totalReceived \in Nat /\ consumed \in Nat /\ peerSent \in Nat
        /\ Len(readBuffer) \in Nat /\ totalReceived = consumed + Len(readBuffer)
    BY LenProperties DEF Receiving, Bytes
  <1>5. /\ First(n, rx) \in Seq(Nat) /\ Len(First(n, rx)) = n
        /\ unread \in Seq(Nat) /\ First(n, rx) \o unread = rx
    BY <1>2, <1>4, FirstAndWithout
  <1>6. /\ available \in Seq(Nat) /\ Len(available) = Len(readBuffer) + n
        /\ available \o unread = readBuffer \o rx
    <2>1. available \in Seq(Nat) /\ Len(available) = Len(readBuffer) + n
      BY <1>4, <1>5, ConcatProperties
    <2>2. available \o unread = readBuffer \o (First(n, rx) \o unread)
      <3> DEFINE first == First(n, rx)
      <3>1. first \in Seq(Nat) /\ unread \in Seq(Nat) /\ readBuffer \in Seq(Nat)
        BY <1>4, <1>5
      <3> HIDE DEF first, unread
      <3>2. (readBuffer \o first) \o unread = readBuffer \o (first \o unread)
        BY <3>1, NatConcat
      <3>3. QED
        BY <3>2 DEF first
    <2>3. QED
      BY <1>5, <2>1, <2>2
  <1> HIDE DEF available, unread
  <1>7. /\ available \o unread = UpTo(consumed, peerSent)
        /\ totalReceived' = consumed + Len(available)
        /\ Len(available) \in Nat
    BY <1>1, <1>2, <1>4, <1>6 DEF Receiving, ReadStreamIntact
  <1>8. PICK length \in {0, Len(available)} :
            readBuffer' = Without(length, available) /\ consumed' = consumed + length
    <2>1. Without(0, available) = available
      BY <1>6, <1>7, SubSeqFull DEF Without
    <2>2. Without(Len(available), available) = <<>>
      BY <1>7, SubSeqEmpty DEF Without
    <2>3. QED
      BY <1>3, <1>4, <2>1, <2>2
  <1>9. available \in Bytes /\ unread \in Bytes /\ length \in 0 .. Len(available)
    BY <1>5, <1>6, <1>7 DEF Bytes
  <1>10. Receiving'
    BY <1>1, <1>7, <1>8, <1>9, TakingKeepsReceiving
  <1>11. QED
    BY <1>1, <1>2, <1>4, <1>10

\* The receiving side through every step.
LEMMA NextReceiving ==
    ASSUME Receiving, want \in Nat, [Next]_vars
    PROVE  Receiving'
  <1>1. SUFFICES ASSUME ~UNCHANGED <<readBuffer, rx, totalReceived, consumed, peerSent>>
                 PROVE  Receiving'
    BY DEF Receiving, ReadStreamIntact, UpTo
  <1>2. CASE PeerSend
    <2>1. /\ readBuffer \in Seq(Nat) /\ rx \in Seq(Nat)
          /\ consumed \in Nat /\ peerSent \in Nat /\ peerSent + 1 \in Nat
          /\ consumed <= peerSent /\ consumed <= peerSent + 1
          /\ readBuffer \o rx = UpTo(consumed, peerSent)
      BY DEF Receiving, ReadStreamIntact, Bytes
    <2>2. /\ rx' = Append(rx, peerSent + 1) /\ peerSent' = peerSent + 1
          /\ UNCHANGED <<readBuffer, totalReceived, consumed>>
      BY <1>2 DEF PeerSend, buffers
    <2>3. rx' \in Seq(Nat)
      BY <2>1, <2>2, AppendProperties
    <2>4. readBuffer \o Append(rx, peerSent + 1) = UpTo(consumed, peerSent + 1)
      <3> DEFINE e == peerSent + 1
      <3>1. e \in Nat /\ readBuffer \in Seq(Nat) /\ rx \in Seq(Nat)
        BY <2>1
      <3>2. Append(UpTo(consumed, peerSent), e) = UpTo(consumed, e)
        BY <2>1, UpToProperties
      <3> HIDE DEF e
      <3>3. readBuffer \o Append(rx, e) = Append(readBuffer \o rx, e)
        BY <3>1, ConcatAppend
      <3>4. readBuffer \o Append(rx, e) = UpTo(consumed, e)
        BY <2>1, <3>2, <3>3
      <3>5. QED
        BY <3>4 DEF e
    <2>5. ReadStreamIntact'
      BY <2>2, <2>4 DEF ReadStreamIntact, UpTo
    <2>6. QED
      BY <2>1, <2>2, <2>3, <2>5 DEF Receiving, Bytes
  <1>3. CASE ReadBytes
    BY <1>3, ReadBytesKeepsReceiving
  <1>4. CASE ReceiveReturns
    BY <1>4, TakeKeepsReceiving DEF ReceiveReturns, kernel
  <1>5. ASSUME NEW length \in 1 .. MaxIn, CallReceive(length)
        PROVE  Receiving'
    <2>1. length \in Nat
      BY EPollAssumption
    <2>2. CASE Take(length)
      BY <1>5, <2>1, <2>2, TakeKeepsReceiving DEF CallReceive, kernel
    <2>3. CASE UNCHANGED <<readBuffer, consumed>>
      BY <1>1, <1>5, <2>3 DEF CallReceive, kernel
    <2>4. QED
      BY <1>5, <2>2, <2>3 DEF CallReceive
  <1>6. CASE PeerRead \/ PeerClose \/ PeerResets \/ PeerAborts
    BY <1>1, <1>6 DEF PeerRead, PeerClose, PeerResets, PeerAborts, buffers, streams
  <1>7. CASE Accept \/ Wait \/ SkipClosed \/ Hangup \/ DataIn
    BY <1>1, <1>7 DEF Accept, Wait, SkipClosed, Hangup, DataIn, buffers, streams, kernel
  <1>8. CASE DataOut \/ WriteBytes \/ WriteEnds \/ WaitAndControlReturns \/ HandleReport
    BY <1>1, <1>8 DEF DataOut, WriteBytes, WriteEnds, WaitAndControlReturns, HandleReport,
                      buffers, streams, kernel
  <1>9. CASE ReadFails \/ ControlDataInReturns
    BY <1>1, <1>9 DEF ReadFails, ControlDataInReturns, buffers, streams, kernel
  <1>10. CASE CallSend \/ SetCloseOnSent
    BY <1>1, <1>10 DEF CallSend, SetCloseOnSent, buffers, streams, kernel
  <1>11. CASE UNCHANGED vars
    BY <1>1, <1>11 DEF vars, buffers, kernel, streams
  <1>12. QED
    BY <1>2, <1>3, <1>4, <1>5, <1>6, <1>7, <1>8, <1>9, <1>10, <1>11
       DEF Next, Peer, EventLoop, WaitAndControl, Reading, Writing, Program

-----------------------------------------------------------------------------
(* The loop: from the kernel's word to the report.                         *)

\* What the first event of a batch stands for, and what the others cannot be.
LEMMA HeadAndTailOfBatch ==
    ASSUME Control, batch # <<>>
    PROVE  /\ Tail(batch) \in Seq(Events)
           /\ Head(batch) = "DataIn" => Readable \/ drained
           /\ Head(batch) = "Hangup" => reset
           /\ \A i \in 1 .. Len(Tail(batch)) :
                /\ Tail(batch)[i] # "DataIn"
                /\ Tail(batch)[i] = "Hangup" => reset
  <1>1. batch \in Seq(Events)
    BY DEF Control, ControlTypeOK
  <1>2. Len(batch) \in Nat \ {0} /\ Head(batch) = batch[1]
    BY <1>1, EmptySeq
  <1>3. /\ Tail(batch) \in Seq(Events) /\ Len(Tail(batch)) = Len(batch) - 1
        /\ \A i \in 1 .. Len(Tail(batch)) : Tail(batch)[i] = batch[i + 1]
    BY <1>1, HeadTailProperties
  <1>4. ASSUME NEW i \in 1 .. Len(Tail(batch))
        PROVE  Tail(batch)[i] # "DataIn" /\ (Tail(batch)[i] = "Hangup" => reset)
    <2>1. i + 1 \in 1 .. Len(batch) /\ i + 1 # 1
      BY <1>2, <1>3
    <2>2. QED
      BY <1>3, <2>1 DEF Control, DataInMeansReadable, HangupMeansReset
  <1>5. 1 \in 1 .. Len(batch)
    BY <1>2
  <1>6. QED
    BY <1>2, <1>3, <1>4, <1>5 DEF Control, DataInMeansReadable, HangupMeansReset

(* A step that moves neither the loop nor a call; it takes nothing from    *)
(* what is to be read.                                                     *)
LEMMA OutsideKeepsControl ==
    ASSUME Control,
           UNCHANGED <<pc, batch, old, want, writer, reader, report, told, drained, totalReceived>>,
           file' \in {"none", "open", "closed"}, InRead => file' = file,
           Readable => Readable', reset => reset',
           fin' \in BOOLEAN, reset' \in BOOLEAN, closeOnSent' \in BOOLEAN
    PROVE  Control'
  <1>1. InRead' = InRead
    BY DEF InRead
  <1>2. ControlTypeOK' /\ LoopDiscipline'
    BY <1>1 DEF Control, ControlTypeOK, LoopDiscipline
  <1>3. DataInMeansReadable' /\ HangupMeansReset'
    BY <1>1 DEF Control, DataInMeansReadable, HangupMeansReset
  <1>4. ReadFindsSomething'
    BY <1>1 DEF Control, ReadFindsSomething, InRead
  <1>5. QED
    BY <1>2, <1>3, <1>4 DEF Control

(* An event of the batch has been handled, but for the call it makes.      *)
LEMMA HandledKeepsControl ==
    ASSUME Control, pc = "control", batch # <<>>, batch' = Tail(batch),
           UNCHANGED <<old, want, reader, told, drained, fin, reset, closeOnSent, file>>,
           \/ pc' = "control" /\ writer' = writer
           \/ pc' = "write" /\ writer' = "dataOut",
           report' \subseteq ControlEvents
    PROVE  Control'
  <1>1. /\ batch' \in Seq(Events)
        /\ \A i \in 1 .. Len(batch') : batch'[i] # "DataIn" /\ (batch'[i] = "Hangup" => reset)
    BY HeadAndTailOfBatch
  <1>2. ~InRead /\ ~InRead'
    BY DEF InRead
  <1>3. ControlTypeOK' /\ LoopDiscipline'
    BY <1>1, <1>2 DEF Control, ControlTypeOK, LoopDiscipline
  <1>4. DataInMeansReadable' /\ HangupMeansReset'
    BY <1>1 DEF DataInMeansReadable, HangupMeansReset
  <1>5. ReadFindsSomething'
    BY <1>2 DEF ReadFindsSomething
  <1>6. QED
    BY <1>3, <1>4, <1>5 DEF Control

(* readToBuffer has returned or raised, and with it the handling of DataIn *)
(* or the call of receive().                                               *)
LEMMA ReadEndKeepsControl ==
    ASSUME Control, InRead, ReaderReturns, writer' \in {writer, "wait"},
           UNCHANGED <<batch, told, drained, rx, fin, reset, closeOnSent>>,
           file' \in {file, "closed"},
           report' \subseteq ControlEvents
    PROVE  Control'
  <1>1. /\ pc' \in {"wait", "control"} /\ want' = 0 /\ reader' = "wait" /\ old' = 0
        /\ pc' = "wait" => want # 0 /\ reader = "wait"
    BY DEF ReaderReturns, Control, ControlTypeOK
  <1>2. ~InRead'
    BY <1>1 DEF InRead
  <1>3. ControlTypeOK' /\ LoopDiscipline'
    BY <1>1, <1>2 DEF Control, ControlTypeOK, LoopDiscipline
  <1>4. DataInMeansReadable' /\ HangupMeansReset'
    BY <1>2 DEF Control, DataInMeansReadable, HangupMeansReset, Readable
  <1>5. ReadFindsSomething'
    BY <1>2 DEF ReadFindsSomething
  <1>6. QED
    BY <1>3, <1>4, <1>5 DEF Control

\* A ::read returned bytes, and dataReceived() has been called for them.
LEMMA ReadBytesKeepsControl ==
    ASSUME Control, Receiving, ReadBytes
    PROVE  Control'
  <1>1. /\ pc = "read" /\ file = "open"
        /\ UNCHANGED <<reader, want, batch, old, report, told, fin, reset>>
        /\ drained' = (drained \/ (want > 0 /\ reader = "control"))
        /\ DataReceived(readBuffer \o First(Min(ReadSize, Len(rx)), rx),
                        Without(Min(ReadSize, Len(rx)), rx))
    BY DEF ReadBytes
  <1>2. /\ file' \in {file, "closed"} /\ closeOnSent' \in {closeOnSent, TRUE}
        /\ \/ UNCHANGED <<pc, writer>>
           \/ pc' = "write" /\ writer' = "read"
    BY <1>1 DEF DataReceived, Send, Silent, Close, Stay
  <1>3. totalReceived' > totalReceived /\ totalReceived' \in Nat /\ totalReceived \in Nat
    BY ReadBytesKeepsReceiving DEF Receiving
  <1>4. InRead /\ InRead'
    BY <1>1, <1>2 DEF InRead
  <1>5. ControlTypeOK'
    BY <1>1, <1>2 DEF Control, ControlTypeOK
  <1>6. LoopDiscipline'
    BY <1>1, <1>2, <1>4 DEF Control, LoopDiscipline
  <1>7. DataInMeansReadable' /\ HangupMeansReset'
    <2>1. ASSUME NEW i \in 1 .. Len(batch), batch[i] = "DataIn"
          PROVE  i = 1 /\ want # 0 /\ drained'
      <3>1. i = 1 /\ want # 0
        BY <1>4, <2>1 DEF Control, DataInMeansReadable
      <3>2. batch # <<>>
        BY <2>1
      <3>3. reader = "control"
        BY <1>4, <3>1, <3>2 DEF Control, LoopDiscipline, ControlTypeOK
      <3>4. want > 0
        BY <3>1 DEF Control, ControlTypeOK
      <3>5. QED
        BY <1>1, <3>1, <3>3, <3>4
    <2>2. QED
      BY <1>1, <2>1 DEF Control, DataInMeansReadable, HangupMeansReset
  <1>8. ReadFindsSomething'
    BY <1>1, <1>3, <1>4 DEF Control, ControlTypeOK, ReadFindsSomething
  <1>9. QED
    BY <1>5, <1>6, <1>7, <1>8 DEF Control

\* writeFromBuffer returns or raises to whoever called it.
LEMMA WriteEndsKeepsControl ==
    ASSUME Control, WriteEnds
    PROVE  Control'
  <1>1. /\ pc = "write"
        /\ UNCHANGED <<batch, told, drained, rx, fin, reset, closeOnSent, totalReceived>>
        /\ Close(rx) \/ Stay
        /\ WriterReturns(~reset /\ Pending # <<>>)
    BY DEF WriteEnds
  <1>2. file' \in {file, "closed"} /\ writer' = "wait"
    BY <1>1 DEF Close, Stay, WriterReturns
  <1>3. CASE writer = "read" /\ reset
    <2>1. ReadRaises
      BY <1>1, <1>3 DEF WriterReturns
    <2>2. InRead
      BY <1>1, <1>3 DEF InRead
    <2>3. report' \subseteq ControlEvents
      BY <2>1 DEF ReadRaises, Control, ControlTypeOK, ControlEvents
    <2>4. QED
      BY <1>1, <1>2, <2>1, <2>2, <2>3, ReadEndKeepsControl DEF ReadRaises
  <1>4. CASE writer = "read" /\ ~reset
    <2>1. pc' = "read" /\ UNCHANGED <<want, reader, old, report>>
      BY <1>1, <1>4 DEF WriterReturns
    <2>2. InRead /\ InRead'
      BY <1>1, <1>4, <2>1 DEF InRead
    <2>3. ControlTypeOK' /\ LoopDiscipline'
      BY <1>1, <1>2, <2>1, <2>2 DEF Control, ControlTypeOK, LoopDiscipline
    <2>4. DataInMeansReadable' /\ HangupMeansReset'
      BY <1>1, <2>1, <2>2 DEF Control, DataInMeansReadable, HangupMeansReset, Readable
    <2>5. ReadFindsSomething'
      BY <1>1, <2>1, <2>2 DEF Control, ReadFindsSomething
    <2>6. QED
      BY <2>3, <2>4, <2>5 DEF Control
  <1>5. CASE writer # "read"
    <2>1. /\ pc' \in {"wait", "control"} /\ UNCHANGED <<want, reader, old>>
          /\ pc' = "wait" => writer = "wait"
          /\ report' \subseteq ControlEvents
      BY <1>1, <1>5 DEF WriterReturns, Control, ControlTypeOK, ControlEvents
    <2>2. ~InRead /\ ~InRead'
      BY <1>1, <1>5, <2>1 DEF InRead
    <2>3. ControlTypeOK' /\ LoopDiscipline'
      BY <1>1, <1>2, <2>1, <2>2 DEF Control, ControlTypeOK, LoopDiscipline
    <2>4. DataInMeansReadable' /\ HangupMeansReset' /\ ReadFindsSomething'
      BY <1>1, <2>2 DEF Control, DataInMeansReadable, HangupMeansReset, ReadFindsSomething,
                        Readable
    <2>5. QED
      BY <2>3, <2>4 DEF Control
  <1>6. QED
    BY <1>3, <1>4, <1>5

\* The loop through every step.
LEMMA NextControl ==
    ASSUME IInv, [Next]_vars
    PROVE  Control'
  <1>1. Control /\ ControlTypeOK /\ Receiving /\ Sending
    BY DEF IInv, Control
  <1>2. CASE Peer
    <2>1. /\ UNCHANGED <<pc, batch, old, want, writer, reader, report, told, drained, totalReceived>>
          /\ UNCHANGED <<file, closeOnSent>>
          /\ (reset => reset') /\ (fin => fin')
          /\ fin' \in BOOLEAN /\ reset' \in BOOLEAN
      BY <1>1, <1>2 DEF Peer, PeerSend, PeerRead, PeerClose, PeerResets, PeerAborts,
                        loop, calls, buffers, ControlTypeOK
    <2>2. rx' = rx \/ rx' # <<>>
      <3>1. CASE PeerSend
        <4>1. rx \in Seq(Nat) /\ peerSent + 1 \in Nat
          BY <1>1 DEF Receiving, Bytes
        <4>2. QED
          BY <3>1, <4>1, AppendProperties DEF PeerSend
      <3>2. QED
        BY <1>2, <3>1 DEF Peer, PeerRead, PeerClose, PeerResets, PeerAborts
    <2>3. Readable => Readable'
      <3>1. (reset => reset') /\ (fin => fin')
        BY <2>1
      <3>2. (rx # <<>> \/ fin \/ reset) => (rx' # <<>> \/ fin' \/ reset')
        BY <2>2, <3>1, Zenon
      <3>3. QED
        BY <3>2 DEF Readable
    <2>4. file' \in {"none", "open", "closed"} /\ file' = file /\ closeOnSent' \in BOOLEAN
      BY <1>1, <2>1 DEF ControlTypeOK
    <2>5. QED
      BY <1>1, <2>1, <2>3, <2>4, OutsideKeepsControl
  <1>3. CASE CallSend
    <2>1. /\ UNCHANGED <<batch, old, want, reader, report, told, drained, totalReceived>>
          /\ UNCHANGED <<file, rx, fin, reset, closeOnSent>>
          /\ pc \in {"wait", "control"} /\ pc' = "write" /\ writer' = pc
      BY <1>3 DEF CallSend, Outside, Send, kernel
    <2>2. ~InRead /\ ~InRead'
      BY <2>1 DEF InRead
    <2>3. ControlTypeOK' /\ LoopDiscipline'
      BY <1>1, <2>1, <2>2 DEF ControlTypeOK, Control, LoopDiscipline
    <2>4. DataInMeansReadable' /\ HangupMeansReset' /\ ReadFindsSomething'
      BY <1>1, <2>1, <2>2 DEF Control, DataInMeansReadable, HangupMeansReset,
                              ReadFindsSomething, Readable
    <2>5. QED
      BY <2>3, <2>4 DEF Control
  <1>4. CASE SetCloseOnSent \/ WriteBytes \/ UNCHANGED vars
    <2>1. /\ UNCHANGED <<pc, batch, old, want, writer, reader, report, told, drained, totalReceived>>
          /\ UNCHANGED <<file, rx, fin, reset>>
          /\ closeOnSent' \in BOOLEAN
      BY <1>1, <1>4 DEF SetCloseOnSent, WriteBytes, vars, calls, loop, kernel, buffers,
                        ControlTypeOK
    <2>2. QED
      BY <1>1, <2>1, OutsideKeepsControl DEF ControlTypeOK, Readable
  <1>5. ASSUME NEW length \in 1 .. MaxIn, CallReceive(length)
        PROVE  Control'
    <2>1. /\ UNCHANGED <<file, closeOnSent, batch, old, writer, report, told, drained, totalReceived>>
          /\ UNCHANGED <<rx, fin, reset>>
          /\ pc \in {"wait", "control"}
          /\ \/ UNCHANGED <<pc, want, reader>>
             \/ pc' = "read" /\ want' = length /\ reader' = pc
      BY <1>5 DEF CallReceive, Outside, kernel
    <2>2. length \in Nat /\ length # 0
      BY EPollAssumption
    <2>3. CASE UNCHANGED <<pc, want, reader>>
      BY <1>1, <2>1, <2>3, OutsideKeepsControl DEF ControlTypeOK, Readable
    <2>4. CASE pc' = "read" /\ want' = length /\ reader' = pc
      <3>1. InRead' /\ ~InRead
        BY <2>1, <2>4 DEF InRead
      <3>2. ControlTypeOK' /\ LoopDiscipline'
        BY <1>1, <2>1, <2>2, <2>4, <3>1 DEF ControlTypeOK, Control, LoopDiscipline
      <3>3. DataInMeansReadable' /\ HangupMeansReset' /\ ReadFindsSomething'
        BY <1>1, <2>1, <2>2, <2>4 DEF Control, DataInMeansReadable, HangupMeansReset,
                                      ReadFindsSomething, Readable
      <3>4. QED
        BY <3>2, <3>3 DEF Control
    <2>5. QED
      BY <2>1, <2>3, <2>4
  <1>6. CASE Accept
    <2>1. /\ file' = "open" /\ pc = "wait"
          /\ UNCHANGED <<pc, batch, old, want, writer, reader, report, told, drained, totalReceived>>
          /\ UNCHANGED <<closeOnSent, rx, fin, reset>>
      BY <1>6 DEF Accept, calls, loop, buffers
    <2>2. ~InRead
      BY <2>1 DEF InRead
    <2>3. QED
      BY <1>1, <2>1, <2>2, OutsideKeepsControl DEF ControlTypeOK, Readable
  <1>7. CASE Wait
    <2>1. /\ UNCHANGED <<file, closeOnSent, old, want, writer, reader, report, told, drained>>
          /\ UNCHANGED <<rx, fin, reset>>
          /\ pc' = "control" /\ pc = "wait"
          /\ batch' = IF reset THEN <<"Hangup">> ELSE Polled
      BY <1>7 DEF Wait, calls
    <2>2. /\ batch' \in {<<"Hangup">>, <<>>, <<"DataIn">>, <<"DataOut">>, <<"DataIn", "DataOut">>}
          /\ batch' = <<"Hangup">> => reset
          /\ batch' \in {<<"DataIn">>, <<"DataIn", "DataOut">>} => Readable
      <3>1. CASE reset
        BY <2>1, <3>1
      <3>2. CASE ~reset
        <4>1. /\ <<>> \o <<>> = <<>> /\ <<"DataIn">> \o <<>> = <<"DataIn">>
              /\ <<>> \o <<"DataOut">> = <<"DataOut">>
          BY ConcatEmptySeq
        <4>2. <<"DataIn">> \o <<"DataOut">> = <<"DataIn", "DataOut">>
          <5>1. <<"DataIn">> \in Seq(Events) /\ "DataOut" \in Events
            BY DEF Events
          <5> DEFINE both == <<"DataIn">> \o <<"DataOut">>
          <5>2. /\ <<"DataOut">> \in Seq(Events) /\ <<"DataIn", "DataOut">> \in Seq(Events)
                /\ Len(<<"DataIn">>) = 1 /\ Len(<<"DataOut">>) = 1
                /\ Len(<<"DataIn", "DataOut">>) = 2
            BY DEF Events
          <5>3. /\ both \in Seq(Events) /\ Len(both) = 2
                /\ both[1] = <<"DataIn">>[1] /\ both[2] = <<"DataOut">>[1]
            BY <5>1, <5>2, ConcatProperties
          <5> HIDE DEF both
          <5>4. \A i \in 1 .. 2 : both[i] = <<"DataIn", "DataOut">>[i]
            BY <5>3
          <5>5. both = <<"DataIn", "DataOut">>
            BY <5>2, <5>3, <5>4, SeqEqual
          <5>6. QED
            BY <5>5 DEF both
        <4>3. Polled \in {<<>>, <<"DataIn">>, <<"DataOut">>, <<"DataIn", "DataOut">>}
          BY <4>1, <4>2 DEF Polled
        <4>4. ~Readable => Polled \in {<<>>, <<"DataOut">>}
          BY <4>1 DEF Polled
        <4>5. QED
          BY <2>1, <3>2, <4>3, <4>4
      <3>3. QED
        BY <3>1, <3>2
    <2>3. /\ batch' \in Seq(Events)
          /\ \A i \in 1 .. Len(batch') : /\ batch'[i] = "DataIn" => i = 1 /\ Readable
                                         /\ batch'[i] = "Hangup" => reset
      <3>1. CASE batch' = <<"Hangup">>
        BY <2>2, <3>1 DEF Events
      <3>2. CASE batch' = <<>>
        BY <3>2, EmptySeq DEF Events
      <3>3. CASE batch' = <<"DataIn">>
        BY <2>2, <3>3 DEF Events
      <3>4. CASE batch' = <<"DataOut">>
        BY <3>4 DEF Events
      <3>5. CASE batch' = <<"DataIn", "DataOut">>
        BY <2>2, <3>5 DEF Events
      <3>6. QED
        BY <2>2, <3>1, <3>2, <3>3, <3>4, <3>5
    <2>4. ~InRead /\ ~InRead'
      BY <2>1 DEF InRead
    <2>5. ControlTypeOK' /\ LoopDiscipline'
      BY <1>1, <2>1, <2>3, <2>4 DEF ControlTypeOK, Control, LoopDiscipline
    <2>6. DataInMeansReadable' /\ HangupMeansReset' /\ ReadFindsSomething'
      BY <2>1, <2>3, <2>4 DEF DataInMeansReadable, HangupMeansReset, ReadFindsSomething, Readable
    <2>7. QED
      BY <2>5, <2>6 DEF Control
  <1>8. CASE SkipClosed
    <2>1. /\ pc = "control" /\ batch # <<>> /\ batch' = Tail(batch)
          /\ UNCHANGED <<pc, writer, old, want, reader, told, drained, fin, reset>>
          /\ UNCHANGED <<closeOnSent, file, report>>
      BY <1>8 DEF SkipClosed, calls, kernel
    <2>2. QED
      BY <1>1, <2>1, HandledKeepsControl DEF ControlTypeOK
  <1>9. CASE Hangup
    <2>1. /\ pc = "control" /\ batch # <<>> /\ batch' = Tail(batch)
          /\ UNCHANGED <<pc, writer, old, want, reader, told, drained, fin, reset>>
          /\ UNCHANGED <<closeOnSent, file>>
      BY <1>9 DEF Hangup, calls, kernel
    <2>2. report' \subseteq ControlEvents
      BY <1>1, <1>9 DEF Hangup, ControlTypeOK, ControlEvents
    <2>3. QED
      BY <1>1, <2>1, <2>2, HandledKeepsControl
  <1>10. CASE DataOut
    <2>1. /\ pc = "control" /\ batch # <<>> /\ batch' = Tail(batch)
          /\ UNCHANGED <<old, want, reader, told, drained, fin, reset, closeOnSent, file, report>>
          /\ pc' = "write" /\ writer' = "dataOut"
      BY <1>10 DEF DataOut, kernel
    <2>2. QED
      BY <1>1, <2>1, HandledKeepsControl DEF ControlTypeOK
  <1>11. CASE DataIn
    <2>1. /\ pc = "control" /\ batch # <<>> /\ file = "open" /\ Head(batch) = "DataIn"
          /\ old' = totalReceived /\ batch' = Tail(batch) /\ pc' = "read"
          /\ UNCHANGED <<file, closeOnSent, want, writer, reader, report, told, drained, totalReceived>>
          /\ UNCHANGED <<rx, fin, reset>>
      BY <1>11 DEF DataIn, buffers, calls, kernel
    <2>2. /\ batch' \in Seq(Events) /\ (Readable \/ drained)
          /\ \A i \in 1 .. Len(batch') : batch'[i] # "DataIn" /\ (batch'[i] = "Hangup" => reset)
      BY <1>1, <2>1, HeadAndTailOfBatch
    <2>3. InRead' /\ ~InRead /\ want = 0
      BY <1>1, <2>1 DEF InRead, Control, LoopDiscipline
    <2>4. ControlTypeOK' /\ LoopDiscipline'
      BY <1>1, <2>1, <2>2, <2>3 DEF ControlTypeOK, Control, LoopDiscipline, Receiving
    <2>5. DataInMeansReadable' /\ HangupMeansReset'
      BY <2>1, <2>2 DEF DataInMeansReadable, HangupMeansReset
    <2>6. ReadFindsSomething'
      BY <1>1, <2>1, <2>2 DEF ReadFindsSomething, Readable, Receiving
    <2>7. QED
      BY <2>4, <2>5, <2>6 DEF Control
  <1>12. CASE ReadBytes
    BY <1>1, <1>12, ReadBytesKeepsControl
  <1>13. CASE WriteEnds
    BY <1>1, <1>13, WriteEndsKeepsControl
  <1>14. CASE ReadFails \/ ControlDataInReturns \/ ReceiveReturns
    <2>1. /\ pc = "read" /\ ReaderReturns
          /\ UNCHANGED <<writer, batch, told, drained, rx, fin, reset, closeOnSent, file>>
      BY <1>14 DEF ReadFails, ReadRaises, ControlDataInReturns, ReceiveReturns, ReadEnds, kernel
    <2>2. report' \subseteq ControlEvents
      BY <1>1, <1>14 DEF ReadFails, ReadRaises, ControlDataInReturns, ReceiveReturns,
                         ControlTypeOK, ControlEvents
    <2>3. InRead
      BY <2>1 DEF InRead
    <2>4. QED
      BY <1>1, <2>1, <2>2, <2>3, ReadEndKeepsControl
  <1>15. CASE WaitAndControlReturns
    <2>1. /\ batch = <<>> /\ pc = "control" /\ pc' = "report" /\ drained' = FALSE
          /\ UNCHANGED <<file, closeOnSent, batch, old, want, writer, reader, report, told>>
          /\ UNCHANGED <<fin, reset>>
      BY <1>15 DEF WaitAndControlReturns, calls, kernel
    <2>2. ~InRead /\ ~InRead' /\ Len(batch) = 0
      BY <2>1 DEF InRead
    <2>3. ControlTypeOK' /\ LoopDiscipline'
      BY <1>1, <2>1, <2>2 DEF ControlTypeOK, Control, LoopDiscipline
    <2>4. DataInMeansReadable' /\ HangupMeansReset' /\ ReadFindsSomething'
      BY <2>1, <2>2 DEF DataInMeansReadable, HangupMeansReset, ReadFindsSomething
    <2>5. QED
      BY <2>3, <2>4 DEF Control
  <1>16. CASE HandleReport
    <2>1. /\ pc = "report" /\ pc' = "wait" /\ told' = told \cup report /\ report' = {}
          /\ UNCHANGED <<closeOnSent, batch, old, want, writer, reader, drained>>
          /\ UNCHANGED <<rx, fin, reset>>
          /\ file' \in {file, "closed"}
      BY <1>16 DEF HandleReport, calls, Close, Stay
    <2>2. ~InRead /\ ~InRead'
      BY <2>1 DEF InRead
    <2>3. ControlTypeOK' /\ LoopDiscipline'
      BY <1>1, <2>1, <2>2 DEF ControlTypeOK, Control, LoopDiscipline
    <2>4. DataInMeansReadable' /\ HangupMeansReset' /\ ReadFindsSomething'
      BY <1>1, <2>1, <2>2 DEF Control, DataInMeansReadable, HangupMeansReset,
                              ReadFindsSomething, Readable
    <2>5. QED
      BY <2>3, <2>4 DEF Control
  <1>17. QED
    BY <1>2, <1>3, <1>4, <1>5, <1>6, <1>7, <1>8, <1>9, <1>10, <1>11, <1>12, <1>13, <1>14,
       <1>15, <1>16
       DEF Next, EventLoop, WaitAndControl, Reading, Writing, Program

(* Whatever step reports ClosedByPeer stands for a FIN, a reset, or an     *)
(* event whose bytes another's callback has read.                          *)
LEMMA ClosedByPeerMeans ==
    ASSUME IInv, Next, "ClosedByPeer" \in report' \ report
    PROVE  fin \/ reset \/ drained
  <1>1. Control
    BY DEF IInv
  <1>2. CASE Hangup
    BY <1>1, <1>2, HeadAndTailOfBatch DEF Hangup
  <1>3. CASE ControlDataInReturns
    <2>1. /\ pc = "read" /\ want = 0 /\ old = totalReceived
          /\ file = "closed" \/ rx = <<>>
      BY <1>3 DEF ControlDataInReturns, ReadEnds
    <2>2. file = "open" /\ (Readable \/ drained)
      BY <1>1, <2>1 DEF Control, ReadFindsSomething, InRead
    <2>3. QED
      BY <2>1, <2>2 DEF Readable
  <1>4. CASE WriteEnds
    BY <1>4 DEF WriteEnds, WriterReturns, ReadRaises
  <1>5. CASE ReadFails \/ HandleReport
    BY <1>5 DEF ReadFails, ReadRaises, HandleReport
  <1>6. CASE ~(Hangup \/ ControlDataInReturns \/ WriteEnds \/ ReadFails \/ HandleReport)
    BY <1>6 DEF Next, Peer, PeerSend, PeerRead, PeerClose, PeerResets, PeerAborts,
                EventLoop, WaitAndControl, Reading, Writing,
                Accept, Wait, SkipClosed, DataIn, DataOut, ReadBytes, WriteBytes,
                ReceiveReturns, WaitAndControlReturns,
                Program, CallSend, SetCloseOnSent, CallReceive, loop
  <1>7. QED
    BY <1>2, <1>3, <1>4, <1>5, <1>6

-----------------------------------------------------------------------------
\* The initial states: nothing has been sent either way.
LEMMA InitIInv == Init => IInv
  <1> SUFFICES ASSUME Init PROVE IInv
    OBVIOUS
  <1>1. <<>> \in Bytes /\ <<>> \in Seq(Events) /\ Len(<<>>) = 0
    BY EmptySeq DEF Bytes
  <1>2. UpTo(0, 0) = <<>> /\ <<>> \o <<>> = <<>>
    <2>1. UpTo(0, 0) \in Bytes /\ Len(UpTo(0, 0)) = 0 - 0
      <3>1. 0 \in Nat /\ 0 <= 0
        OBVIOUS
      <3>2. QED
        BY <3>1, UpToProperties
    <2>2. QED
      BY <2>1, EmptySeq, ConcatEmptySeq DEF Bytes
  <1>3. Receiving
    BY <1>1, <1>2 DEF Init, Receiving, ReadStreamIntact
  <1>4. Sending
    <2>1. WriteStreamIntact
      <3>1. Pending = <<>>
        <4>1. Without(0, <<>>) = <<>>
          BY <1>1, SubSeqFull DEF Without, Bytes
        <4>2. QED
          BY <4>1 DEF Init, Pending
      <3>2. peerGot + dropped = 0 /\ tx = <<>> /\ appSent = 0 /\ ~(dropped > 0)
        BY DEF Init
      <3>3. QED
        BY <1>2, <3>1, <3>2 DEF WriteStreamIntact
    <2>2. /\ Len(tx) <= SendSpace /\ totalSent + Len(writeBuffer) = appSent
          /\ peerGot + dropped <= appSent /\ written \in 0 .. Len(writeBuffer)
      BY <1>1, EPollAssumption DEF Init
    <2>3. QED
      BY <1>1, <2>1, <2>2 DEF Init, Sending
  <1>5. Control
    <2>1. ControlTypeOK
      BY <1>1 DEF Init, ControlTypeOK
    <2>2. LoopDiscipline /\ ReadFindsSomething
      BY DEF Init, LoopDiscipline, ReadFindsSomething, InRead
    <2>3. DataInMeansReadable /\ HangupMeansReset
      BY <1>1 DEF Init, DataInMeansReadable, HangupMeansReset
    <2>4. QED
      BY <2>1, <2>2, <2>3 DEF Control
  <1>6. QED
    BY <1>3, <1>4, <1>5 DEF IInv

\* The invariant is inductive.
LEMMA NextIInv == IInv /\ [Next]_vars => IInv'
  <1> SUFFICES ASSUME IInv, [Next]_vars PROVE IInv'
    OBVIOUS
  <1>1. Receiving /\ Sending /\ want \in Nat /\ reader \in {"wait", "control"}
    BY DEF IInv, Control, ControlTypeOK
  <1>2. QED
    BY <1>1, NextReceiving, NextSending, NextControl DEF IInv

(* Every reachable state satisfies the invariant, the types of all that    *)
(* readToBuffer, writeFromBuffer and waitAndControl read among them.       *)
THEOREM InvariantHolds == Spec => []IInv
  BY InitIInv, NextIInv, PTL DEF Spec

(* No byte is lost, repeated or reordered between the peer, the kernel,    *)
(* Socket's buffers and the business logic, and totalBytesReceived and     *)
(* totalBytesSent count what was read and written: for streams of every    *)
(* length, every interleaving of callbacks, and every size of a read.      *)
THEOREM StreamsAreIntact == Spec => []StreamsIntact
  <1>1. IInv => StreamsIntact
    BY DEF IInv, Receiving, Sending, StreamsIntact, TotalsAgree
  <1>2. QED
    BY <1>1, InvariantHolds, PTL

(* controlDataIn, controlDataOut and controlError report ClosedByPeer only *)
(* for a peer that has closed or died, or when receive() in the callback   *)
(* of another socket has read, between wait() and controlDataIn, what the  *)
(* event was about; nothing else that is read, written or called back      *)
(* before can bring it about.                                              *)
THEOREM ClosedByPeerIsTrue == Spec => NoSpuriousClosedByPeer
  <1>1. IInv /\ [Next]_vars
            => [("ClosedByPeer" \in report' \ report) => fin \/ reset \/ drained]_vars
    BY ClosedByPeerMeans DEF vars
  <1>2. QED
    BY <1>1, InvariantHolds, PTL DEF Spec, NoSpuriousClosedByPeer

(* Whatever closes the socket outside dataReceived() and the destructor is *)
(* closeOnSent, with nothing left in the write buffer.                     *)
THEOREM CloseOnSentWaitsForTheLastByte == Spec => ClosesOnlyWhenAllIsSent
  <1> DEFINE Closing == /\ file = "open" /\ file' = "closed"
                        /\ pc \notin {"read", "report"}
  <1>1. ASSUME IInv, Next, Closing
        PROVE  closeOnSent /\ writeBuffer' = <<>>
    <2>1. WriteEnds
      BY <1>1 DEF Next, Peer, PeerSend, PeerRead, PeerClose, PeerResets, PeerAborts,
                  EventLoop, WaitAndControl, Reading, Writing, Accept, Wait, SkipClosed,
                  Hangup, DataIn, DataOut, ReadBytes, ReadFails, WriteBytes,
                  ControlDataInReturns, ReadEnds, ReceiveReturns, WaitAndControlReturns,
                  HandleReport, Program, CallSend, SetCloseOnSent, CallReceive
    <2>2. /\ writeBuffer' = Pending
          /\ closeOnSent /\ ~reset /\ ~(~reset /\ Pending # <<>>)
      BY <1>1, <2>1 DEF WriteEnds, Stay
    <2>3. QED
      BY <2>2
  <1>2. IInv /\ [Next]_vars => [Closing => closeOnSent /\ writeBuffer' = <<>>]_vars
    BY <1>1 DEF vars
  <1>3. QED
    BY <1>2, InvariantHolds, PTL DEF Spec, ClosesOnlyWhenAllIsSent

==============================================================================
