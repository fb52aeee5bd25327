--------------------------------- MODULE File ---------------------------------
(***************************************************************************)
(* csjp::File (src/core/csjp_file): a file that opens itself when it is    *)
(* used, and closes and opens itself again to change between reading and   *)
(* writing.  One File object, the file it names, and another process that  *)
(* may append to that.  Every call of the operating system may fail, a     *)
(* write or a read also after some of its bytes.  When close() fails, the  *)
(* descriptor is gone all the same (as close(2) has it for Linux), but the *)
(* object keeps its number, and every later use of it fails.               *)
(*                                                                         *)
(* The record f is the object, the file, and descriptor 0:                 *)
(*   exists, bytes   what is on the disk                                   *)
(*   open, writable   as in the object; open is 0 <= file                  *)
(*   gone   the descriptor is: a close() of it has failed                   *)
(*   size   fileSize while it is open, for write() to undo a failed one    *)
(*   pos    the offset of the descriptor, 0 when there is none              *)
(*   zero   whose descriptor 0 is: "own", "free", or "other" (stdin)       *)
(* An operation gives the set of its outcomes.                             *)
(***************************************************************************)
EXTENDS Naturals, Sequences, SequencesExt, FiniteSetsExt

LOCAL INSTANCE Outcome

CONSTANTS
    Octets,      \* what is written; zero fills a gap
    MaxData,    \* a bound on the bytes of one call
    MaxSize,    \* a bound on the bytes of the file
    MaxMoves    \* a bound on the moves

ASSUME FileAssumption ==
    0 \notin Octets /\ MaxData \in Nat /\ MaxSize \in Nat /\ MaxMoves \in Nat

VARIABLES
    f,          \* the object and its file
    appending,  \* since it was opened for writing, this object alone wrote, behind the end
    leftover,   \* the descriptor in a File that was moved from and still exists, or "none"
    moves,      \* how many were moved from
    spoiled     \* "no", "wild" (a write in front of a buffer), "stolen" (f's descriptor is closed)

fileVars == <<f, appending, leftover, moves, spoiled>>

Data == BoundedSeq(Octets, MaxData)

New(exists, bytes) ==
    [exists |-> exists, bytes |-> bytes, open |-> FALSE, writable |-> FALSE, gone |-> FALSE,
     size |-> 0, pos |-> 0, zero |-> "other"]

\* What follows a call that has worked; one that has thrown ends the caller, too.
Then(outcomes, Following(_)) ==
    UNION {IF o.raises THEN {o} ELSE Following(o.self) : o \in outcomes}

-----------------------------------------------------------------------------
(* Opening and closing.  A new descriptor is the lowest that is free.      *)
Usable(g) == g.open /\ ~g.gone
Writing(g) == Usable(g) /\ g.writable

\* fileSize is asked for anew before it is used again, so what it was is not kept.
Released(g) == [g EXCEPT !.size = 0, !.pos = 0, !.zero = IF @ = "own" THEN "free" ELSE @]
Closed(g) == [Released(g) EXCEPT !.open = FALSE, !.writable = FALSE]
Lost(g) == [Released(g) EXCEPT !.gone = TRUE]

Close(g) ==
    IF ~g.open THEN {Done(g)}
    ELSE {Raised(Lost(g))} \cup (IF g.gone THEN {} ELSE {Done(Closed(g))})

Opened(g, writable) ==
    [g EXCEPT !.open = TRUE, !.writable = writable, !.pos = 0,
              !.zero = IF @ = "free" THEN "own" ELSE @]

\* A call on the closed file that needs it to be there, and may fail even so.
IfThere(g, h) == {Raised(g)} \cup (IF g.exists THEN {Done(h)} ELSE {})

OpenForRead(g) ==
    IF g.open /\ ~g.writable THEN {Done(g)}
    ELSE Then(Close(g), LAMBDA h : IfThere(h, Opened(h, FALSE)))

\* create(): an existing file stays as it is.
CreateFile(g) ==
    Then(Close(g), LAMBDA h :
        {Raised(h)} \cup
        IF h.exists THEN {Done(h)}
        ELSE Close(Opened([h EXCEPT !.exists = TRUE, !.bytes = <<>>], FALSE)))

ToWrite(g) ==
    Then(IF ~g.open /\ ~g.exists THEN CreateFile(g) ELSE Close(g),
         LAMBDA h : IfThere(h, Opened(h, TRUE)))

\* openForWrite(): the size is asked for once, when the file is opened.
OpenForWrite(g) ==
    IF g.open /\ g.writable THEN {Done(g)}
    ELSE Then(ToWrite(g), LAMBDA h : {Done([h EXCEPT !.size = Len(h.bytes)])})

-----------------------------------------------------------------------------
(* Writing.                                                                *)

\* write(2) at a position: what is there is overwritten, a gap is filled with zeros.
Put(bytes, pos, data) ==
    IF data = <<>> THEN bytes
    ELSE [i \in 1 .. Max({Len(bytes), pos + Len(data)}) |->
             IF i > pos /\ i <= pos + Len(data) THEN data[i - pos]
             ELSE IF i <= Len(bytes) THEN bytes[i] ELSE 0]

Truncated(bytes, n) == [i \in 1 .. n |-> IF i <= Len(bytes) THEN bytes[i] ELSE 0]

\* resize() closes the file, and changes it through a descriptor of its own.
Resize(g, n) ==
    Then(Close(g), LAMBDA h : IfThere(h, [h EXCEPT !.bytes = Truncated(@, n)]))

Advanced(g, data) == [g EXCEPT !.bytes = Put(@, g.pos, data), !.pos = @ + Len(data)]

(* The loop of write().  When some bytes are written and the next are not, *)
(* the file is closed and cut to fileSize; each may fail as well.          *)
Failing(g, data) ==
    UNION {IF n = 0 THEN {Raised(g)}
           ELSE {Raised(o.self) : o \in Resize(Advanced(g, SubSeq(data, 1, n)), g.size)}
           : n \in 0 .. Len(data) - 1}

\* Without a descriptor nothing is written.
WriteOrFail(g, data, h) ==
    IF g.gone /\ data # <<>> THEN {Raised(g)} ELSE {Done(h)} \cup Failing(g, data)

\* mutant: does not count what it has written
WriteOpenDoesNotCount(g, data) == WriteOrFail(g, data, Advanced(g, data))

\* What is overwritten is counted as if it were new.
WriteOpen(g, data) ==
    WriteOrFail(g, data, [Advanced(g, data) EXCEPT !.size = @ + Len(data)])

Seek(g, pos) == {Raised(g)} \cup (IF g.gone THEN {} ELSE {Done([g EXCEPT !.pos = pos])})

WriteData(g, data) == Then(OpenForWrite(g), LAMBDA h : WriteOpen(h, data))

WriteAtPos(g, data, pos) ==
    Then(Then(OpenForWrite(g), LAMBDA h : Seek(h, pos)), LAMBDA k : WriteData(k, data))

\* append(), and with it appendf() and appendPrintf()
AppendData(g, data) ==
    Then(Then(OpenForWrite(g), LAMBDA h : Seek(h, Len(h.bytes))), LAMBDA k : WriteData(k, data))

OverWrite(g, data) ==
    Then({Raised(g)} \cup (IF g.exists THEN Resize(g, 0) ELSE {Done(g)}),
         LAMBDA h : WriteData(h, data))

-----------------------------------------------------------------------------
(* Reading.                                                                *)
OpenToRead(g) == IF g.open THEN {Done(g)} ELSE OpenForRead(g)

Rest(g) == SubSeq(g.bytes, g.pos + 1, Len(g.bytes))

(* readAll(): a read that fails counts as -1 bytes, and a zero is written  *)
(* behind them before errno is looked at: in front of the buffer, if it is *)
(* the first.                                                              *)
ReadAll(g) ==
    Then(OpenToRead(g), LAMBDA h :
        IF h.gone THEN {Ruined(h)}
        ELSE {Done([h EXCEPT !.pos = Max({@, Len(h.bytes)})])}
        \cup {IF n = 0 THEN Ruined(h) ELSE Raised([h EXCEPT !.pos = @ + n])
              : n \in 0 .. Len(Rest(h))})

\* read(): fewer bytes than asked for are thrown away, and the file stays at its end.
ReadBytes(g, bytes) ==
    Then(OpenToRead(g), LAMBDA h :
        IF h.gone THEN {IF bytes = 0 THEN Done(h) ELSE Raised(h)}
        ELSE {IF Len(Rest(h)) < bytes
              THEN Raised([h EXCEPT !.pos = Max({@, Len(h.bytes)})])
              ELSE Done([h EXCEPT !.pos = @ + bytes])}
             \cup {Raised([h EXCEPT !.pos = @ + n]) : n \in {k \in 0 .. Len(Rest(h)) : k < bytes}})

From(g, pos) == Then(OpenToRead(g), LAMBDA h : Seek(h, pos))

\* size() seeks to the end, and back.
Size(g) ==
    Then(OpenToRead(g), LAMBDA h :
        Then(Seek(h, Len(h.bytes)), LAMBDA k : {Raised(k), Done(h)}))
Rewind(g) == IF g.open THEN Seek(g, 0) ELSE {Done(g)}

-----------------------------------------------------------------------------
\* TempFile: mkstemp() makes a new file and opens it, without going through openForWrite().
Temporary == [New(TRUE, <<>>) EXCEPT !.open = TRUE, !.writable = TRUE]

FileInit ==
    /\ f \in {New(TRUE, bytes) : bytes \in Data} \cup {New(FALSE, <<>>), Temporary}
    /\ appending = f.open /\ leftover = "none" /\ moves = 0 /\ spoiled = "no"

Small(g) == Len(g.bytes) <= MaxSize /\ g.pos <= MaxSize /\ g.size <= MaxSize

\* One call; "behind" when all it writes comes behind what is there.
Call(outcomes, behind) ==
    /\ spoiled = "no"
    /\ \E o \in outcomes :
          /\ Small(o.self)
          /\ f' = o.self
          /\ spoiled' = IF o.ruins THEN "wild" ELSE "no"
          /\ appending' = (Writing(o.self) /\ behind /\ (Writing(f) => appending))
    /\ UNCHANGED <<leftover, moves>>

DoOpenForRead == Call(OpenForRead(f), TRUE)
DoOpenForWrite == Call(OpenForWrite(f), TRUE)
DoClose == Call(Close(f), TRUE)
DoCreate == Call(CreateFile(f), TRUE)
DoResize(n) == Call(Resize(f, n), TRUE)
DoWrite(data) == Call(WriteData(f, data), IF Writing(f) THEN f.pos = Len(f.bytes) ELSE f.bytes = <<>>)
DoWriteAtPos(data, pos) == Call(WriteAtPos(f, data, pos), pos = Len(f.bytes))
DoAppend(data) == Call(AppendData(f, data), TRUE)
DoOverWrite(data) == Call(OverWrite(f, data), TRUE)
DoReadAll == Call(ReadAll(f), TRUE)
DoReadBytes(n) == Call(ReadBytes(f, n), TRUE)
DoReadAllFromPos(pos) == Call(Then(From(f, pos), ReadAll), TRUE)
DoReadFromPos(pos, n) == Call(Then(From(f, pos), LAMBDA h : ReadBytes(h, n)), TRUE)
DoSize == Call(Size(f), TRUE)
DoRewind == Call(Rewind(f), TRUE)

\* rename() closes the file; f is then the file of the new name.
DoRename == Call(Then(Close(f), LAMBDA h : IfThere(h, h)), TRUE)
DoUnlink ==
    Call(Then(Close(f), LAMBDA h : IfThere(h, [h EXCEPT !.exists = FALSE, !.bytes = <<>>])), TRUE)

\* Another process appends to the file.
OtherAppends(byte) ==
    /\ spoiled = "no" /\ f.exists
    /\ Len(f.bytes) < MaxSize
    /\ f' = [f EXCEPT !.bytes = Append(@, byte)]
    /\ appending' = FALSE
    /\ UNCHANGED <<leftover, moves, spoiled>>

\* mutant: a moved File keeps its descriptor
LeftBehindItsOwn == "own"

\* A File that was moved from is not without a descriptor: it has descriptor 0.
LeftBehind == "zero"

\* One more File is moved from, and will be destroyed later.
Moving ==
    /\ spoiled = "no" /\ leftover = "none" /\ moves < MaxMoves
    /\ leftover' = LeftBehind
    /\ moves' = moves + 1
    /\ UNCHANGED spoiled

\* The move constructor: f goes on in another object.
MoveOut == Moving /\ UNCHANGED <<f, appending>>

\* The move assignment of a closed File of the same name: f forgets what it had open.
MoveInto ==
    /\ Moving
    /\ f' = [f EXCEPT !.open = FALSE, !.writable = FALSE, !.gone = FALSE, !.size = 0, !.pos = 0,
                       !.zero = IF @ = "own" THEN "other" ELSE @]
    /\ appending' = FALSE

\* The destructor of a File that was moved from closes the descriptor in it.
DestroyLeftover ==
    /\ spoiled = "no" /\ leftover # "none"
    /\ leftover' = "none"
    /\ IF Usable(f) /\ (leftover = "own" \/ f.zero = "own")
       THEN spoiled' = "stolen" /\ UNCHANGED f
       ELSE f' = [f EXCEPT !.zero = "free"] /\ UNCHANGED spoiled
    /\ UNCHANGED <<appending, moves>>

\* The process dies, also in the middle of a write, and is started again.
Die ==
    /\ \E data \in Data :
          /\ data # <<>> => Writing(f)
          /\ f' = New(f.exists, Put(f.bytes, f.pos, data))
          /\ Small(f')
    /\ appending' = FALSE /\ leftover' = "none" /\ moves' = 0 /\ spoiled' = "no"

FileNext ==
    \/ DoOpenForRead \/ DoOpenForWrite \/ DoClose \/ DoCreate \/ DoReadAll \/ DoSize \/ DoRewind
    \/ DoRename \/ DoUnlink \/ MoveOut \/ DestroyLeftover \/ MoveInto \/ Die
    \/ \E data \in Data : DoWrite(data) \/ DoAppend(data) \/ DoOverWrite(data)
    \/ \E data \in Data, pos \in 0 .. MaxSize : DoWriteAtPos(data, pos)
    \/ \E n \in 0 .. MaxSize : DoResize(n) \/ DoReadBytes(n) \/ DoReadAllFromPos(n)
    \/ \E pos \in 0 .. MaxSize, n \in 0 .. MaxData : DoReadFromPos(pos, n)
    \/ \E byte \in Octets : OtherAppends(byte)

-----------------------------------------------------------------------------
(* csjp_file.h, "On Writting" and "On Closing".  append() adds all of its  *)
(* data.  If it throws, it has added none; or it has added some, and the   *)
(* object is closed, or it could not be closed and cannot be used any      *)
(* more.  This takes that since the file was opened this object alone      *)
(* has written, and only behind the end: write() undoes a failed write by  *)
(* cutting the file to the size it has counted (FIXME in                   *)
(* csjp_file.cpp:479).  overWrite() leaves the new bytes, or if it throws  *)
(* the old ones or the first of the new.  writeAtPos() keeps what is       *)
(* before and behind, and what it has written is read there.  write() of a *)
(* closed object starts at the front and leaves the tail of what was       *)
(* longer.                                                                 *)
WrittenAsPromised ==
    spoiled = "no" => \A data \in Data :
        /\ \A o \in AppendData(f, data) :
              IF ~o.raises THEN o.self.bytes = f.bytes \o data
              ELSE (Writing(f) => appending) =>
                       /\ IsPrefix(f.bytes, o.self.bytes)
                       /\ IsPrefix(o.self.bytes, f.bytes \o data)
                       /\ Usable(o.self) => o.self.bytes = f.bytes
        /\ \A o \in OverWrite(f, data) :
              IF ~o.raises THEN o.self.bytes = data
              ELSE o.self.bytes = f.bytes \/ IsPrefix(o.self.bytes, data)
        /\ \A pos \in 0 .. MaxSize : \A o \in WriteAtPos(f, data, pos) :
              ~o.raises =>
                  /\ Len(o.self.bytes) = IF data = <<>> THEN Len(f.bytes)
                                         ELSE Max({Len(f.bytes), pos + Len(data)})
                  /\ \A i \in DOMAIN f.bytes :
                        i <= pos \/ i > pos + Len(data) => o.self.bytes[i] = f.bytes[i]
                  /\ SubSeq(o.self.bytes, pos + 1, pos + Len(data)) = data
        /\ ~f.open => \A o \in WriteData(f, data) :
              ~o.raises => o.self.bytes = data \o SubSeq(f.bytes, Len(data) + 1, Len(f.bytes))

(* A File that was moved from takes descriptor 0 with it when it dies.     *)
(* The first one takes stdin.  From then on the next file opened has       *)
(* descriptor 0, and it needs a second one to close that under its owner.  *)
DescriptorsKept ==
    /\ f.zero = "own" => f.open /\ moves > 0
    /\ spoiled = "stolen" => moves > 1
==============================================================================
