---------------------------- MODULE DaemonProofs ----------------------------
(***************************************************************************)
(* Proofs about the daemon and the logger it shares with its signal        *)
(* handler, for any number of threads before and after the fork, of starts *)
(* and of signals.                                                         *)
(*                                                                         *)
(* The lock inside msgLogger is not proved again: its steps are shown to   *)
(* be steps of module Mutex, and the inductive invariant of MutexProofs is *)
(* instantiated for the frames.  Only a restart is no step of a Mutex; it  *)
(* brings the lock back to its initial state.                              *)
(***************************************************************************)
EXTENDS Daemon, FiniteSetTheorems, SequenceTheorems, TLAPS

FrameStates == {"idle", "add", "undo"} \cup Owning

\* The lock of msgLogger with what has been proved about every Mutex.
Lock == INSTANCE MutexProofs WITH
    Threads <- Frames, mutex <- loggerMutex, pc <- [f \in Frames |-> AsMutex(pc[f])]

TypeOK ==
    /\ pc \in [Frames -> FrameStates]
    /\ haveLogDir \in BOOLEAN
    /\ g_LogDir \in {"", "parent", "daemon"}
    /\ g_LogFileName \in {"", "parent", "daemon"}
    /\ unprinted \subseteq Frames
    /\ place \in Places
    /\ process \in Nat
    /\ pidLength \in PidLengths
    /\ pidFile \in [exists : BOOLEAN, text : Seq(Nat)]

(* A message waits for its print only in the frame that wrote it, and that *)
(* frame still owns the lock.                                              *)
UnprintedIsHeld == \A f \in unprinted : pc[f] = "std"

(* From setLogDir() on the directory is the daemon's own, so that a name   *)
(* composed anew cannot lie elsewhere.                                     *)
DirIsOwn == place \in (InCtor \cup InProgram) \ {"setLogDir"} => g_LogDir = "daemon"

(* The pid file is created before it is written, and begins with the pid   *)
(* of the daemon that runs, however long a text an earlier one left there. *)
PidFileBegins ==
    /\ place \in {"writePid", "logReady", "logDone"} \cup InProgram => pidFile.exists
    /\ place \in {"logReady", "logDone"} \cup InProgram =>
            /\ pidLength <= Len(pidFile.text)
            /\ SubSeq(pidFile.text, 1, pidLength) = OwnPid

\* No text outgrows the longest pid there may be.
PidFileFits ==
    \A digits \in Nat : (\A m \in PidLengths : m <= digits) => Len(pidFile.text) <= digits

IInv ==
    /\ TypeOK
    /\ Lock!IInv
    /\ UnprintedIsHeld
    /\ DirIsOwn /\ LogsIntoItsOwnDir
    /\ PidFileBegins /\ PidFileFits

-----------------------------------------------------------------------------
\* Every thread has two frames, so there are finitely many.
LEMMA FramesAreFinite == IsFiniteSet(Frames)
  <1> DEFINE bodies == [t \in Threads |-> Body(t)]
             handlers == [t \in Threads |-> Handler(t)]
             B == {Body(t) : t \in Threads}
             H == {Handler(t) : t \in Threads}
  <1>1. bodies \in Surjection(Threads, B) /\ handlers \in Surjection(Threads, H)
    BY DEF Surjection
  <1> HIDE DEF bodies, handlers, B, H
  <1>2. IsFiniteSet(B) /\ IsFiniteSet(H)
    BY <1>1, FS_Surjection, DaemonAssumption
  <1>3. IsFiniteSet(B \cup H)
    BY <1>2, FS_Union
  <1>4. QED
    BY <1>3 DEF Frames, B, H

\* The frames satisfy what module Mutex assumes of its threads.
LEMMA FramesFitTheWord ==
    /\ Lock!IsFiniteSet(Frames)
    /\ Modulus \in Nat /\ Lock!Cardinality(Frames) < Modulus
  <1>1. Lock!IsFiniteSet(Frames)
    BY FramesAreFinite DEF IsFiniteSet, Lock!IsFiniteSet
  <1>2. Lock!Cardinality(Frames) = Cardinality(Frames)
    BY DEF Cardinality, Lock!Cardinality
  <1>3. QED
    BY <1>1, <1>2, DaemonAssumption

\* The two frames of a thread are frames.
LEMMA FramesOfThreads ==
    ASSUME NEW t \in Threads
    PROVE  Body(t) \in Frames /\ Handler(t) \in Frames
  BY DEF Frames

\* The thread that becomes the daemon is one of them.
LEMMA MainIsAThread == Main \in Threads /\ Body(Main) \in Frames
  BY FramesOfThreads DEF Threads

-----------------------------------------------------------------------------
(* A step calls the logger in one frame, moves one frame inside it, starts *)
(* the program again, or leaves the lock alone.                            *)
LEMMA EveryStep ==
    ASSUME [Next]_vars
    PROVE  \/ \E f \in Frames : CallLogger(f) /\ UNCHANGED <<logging, daemon>>
           \/ \E f \in Frames : InLogger(f)
           \/ Restart
           \/ UNCHANGED <<lock, unprinted>>
  <1>1. CASE LogDaemonizing \/ LogForked \/ LogReady \/ LogDone \/ LoopOnce
    BY <1>1, MainIsAThread
       DEF LogDaemonizing, LogForked, LogReady, LogDone, LoopOnce, LogAndGoTo
  <1>2. CASE Fork \/ SetLogDir \/ CreatePidFile \/ WritePidFile \/ InstallHandler
    BY <1>2 DEF Fork, SetLogDir, CreatePidFile, WritePidFile, InstallHandler, logging
  <1>3. CASE LeaveLoop \/ RestoreHandler \/ UnlinkPidFile
    BY <1>3 DEF LeaveLoop, RestoreHandler, UnlinkPidFile, logging
  <1>4. ASSUME NEW w \in ParentWorkers \cup ChildWorkers, WorkerLogs(w)
        PROVE  \E f \in Frames : CallLogger(f) /\ UNCHANGED <<logging, daemon>>
    <2>1. Body(w) \in Frames
      BY FramesOfThreads DEF Threads
    <2>2. QED
      BY <1>4, <2>1 DEF WorkerLogs
  <1>5. ASSUME NEW t \in Threads, DeliverTerm(t)
        PROVE  \E f \in Frames : CallLogger(f) /\ UNCHANGED <<logging, daemon>>
    BY <1>5, FramesOfThreads DEF DeliverTerm
  <1>6. CASE SendTerm \/ Die
    BY <1>6 DEF SendTerm, Die, logging
  <1>7. CASE UNCHANGED vars
    BY <1>7 DEF vars, logging
  <1>8. QED
    BY <1>1, <1>2, <1>3, <1>4, <1>5, <1>6, <1>7 DEF Next, MainStep

\* A process that has stopped does nothing until it is started again.
LEMMA StoppedMeansStill ==
    ASSUME [Next]_vars, place \in Stopped
    PROVE  Restart \/ UNCHANGED vars
  <1>1. /\ place \notin InParent /\ place \notin InCtor /\ place \notin InProgram
        /\ \A t \in Threads : ~Alive(t)
    BY DEF Stopped, InParent, InCtor, InProgram, Alive, Threads
  <1>2. \A f \in Frames : ~Runs(f)
    BY <1>1 DEF Runs, Frames, Body, Handler
  <1>3. ~MainStep
    BY <1>1, <1>2, MainIsAThread
       DEF MainStep, LogDaemonizing, Fork, SetLogDir, LogForked, CreatePidFile, WritePidFile,
           LogReady, LogDone, InstallHandler, LoopOnce, LeaveLoop, RestoreHandler,
           UnlinkPidFile, LogAndGoTo, MainAt
  <1>4. \A f \in Frames : ~InLogger(f)
    BY <1>2 DEF InLogger, FetchAndAdd, FetchAndSub, WriteLogFile, BasicLogger, Release
  <1>5. \A w \in ParentWorkers \cup ChildWorkers : ~WorkerLogs(w)
    BY <1>2, FramesOfThreads DEF WorkerLogs, Threads
  <1>6. \A t \in Threads : ~DeliverTerm(t)
    BY <1>1 DEF DeliverTerm
  <1>7. ~SendTerm /\ ~Die
    BY <1>1 DEF SendTerm, Die
  <1>8. QED
    BY <1>3, <1>4, <1>5, <1>6, <1>7 DEF Next

-----------------------------------------------------------------------------
(* Every step but a restart is a step, or a stutter, of a Mutex.           *)
LEMMA StepIsMutexStep ==
    ASSUME TypeOK, [Next]_vars
    PROVE  Restart \/ [Lock!Next]_(Lock!vars)
  <1> DEFINE seen == [f \in Frames |-> AsMutex(pc[f])]
  <1>1. ASSUME NEW f \in Frames, CallLogger(f) PROVE [Lock!Next]_(Lock!vars)
    <2>1. CASE pc' = [pc EXCEPT ![f] = "add"]
      <3>1. Lock!Lock(f)
        BY <1>1, <2>1 DEF CallLogger, Lock!Lock, AsMutex, Owning, TypeOK, FrameStates
      <3>2. QED
        BY <3>1 DEF Lock!Next
    <2>2. CASE pc' = [pc EXCEPT ![f] = "idle"]
      <3>1. pc' = pc
        BY <1>1, <2>2 DEF CallLogger, TypeOK
      <3>2. QED
        BY <1>1, <3>1 DEF CallLogger, Lock!vars
    <2>3. QED
      BY <1>1, <2>1, <2>2 DEF CallLogger
  <1>2. ASSUME NEW f \in Frames, InLogger(f) PROVE [Lock!Next]_(Lock!vars)
    <2>1. CASE FetchAndAdd(f)
      <3>1. Lock!FetchAndAdd(f)
        BY <2>1 DEF FetchAndAdd, Increment, Lock!FetchAndAdd, Lock!Incremented,
                    AsMutex, Owning, TypeOK, FrameStates
      <3>2. QED
        BY <3>1 DEF Lock!Next
    <2>2. CASE FetchAndSub(f)
      <3>1. Lock!FetchAndSub(f)
        BY <2>2 DEF FetchAndSub, Decrement, Lock!FetchAndSub, Lock!Decremented,
                    AsMutex, Owning, TypeOK, FrameStates
      <3>2. QED
        BY <3>1 DEF Lock!Next
    <2>3. CASE Release(f)
      <3>1. Lock!Unlock(f)
        BY <2>3 DEF Release, Decrement, Lock!Unlock, Lock!Decremented,
                    AsMutex, Owning, TypeOK, FrameStates
      <3>2. QED
        BY <3>1 DEF Lock!Next
    <2>4. CASE WriteLogFile(f) \/ BasicLogger(f)
      <3>1. loggerMutex' = loggerMutex /\ seen' = seen
        BY <2>4 DEF WriteLogFile, BasicLogger, AsMutex, Owning, TypeOK, FrameStates
      <3>2. QED
        BY <3>1 DEF Lock!vars
    <2>5. QED
      BY <1>2, <2>1, <2>2, <2>3, <2>4 DEF InLogger
  <1>3. ASSUME UNCHANGED lock PROVE [Lock!Next]_(Lock!vars)
    BY <1>3 DEF lock, Lock!vars
  <1>4. QED
    BY <1>1, <1>2, <1>3, EveryStep

\* A program that starts has a lock that nobody holds or tries for.
LEMMA StartsUnlocked ==
    /\ Init => Lock!Init
    /\ Restart => Lock!Init'
  <1>1. Init => Lock!Init
    BY DEF Init, Lock!Init, AsMutex, Owning
  <1>2. Restart => Lock!Init'
    BY DEF Restart, Lock!Init, AsMutex, Owning
  <1>3. QED
    BY <1>1, <1>2

\* The invariant of the lock, from its initial state on, in whichever state that is.
LEMMA LockInvStarts ==
    /\ Lock!Init => Lock!IInv
    /\ (Lock!Init)' => (Lock!IInv)'
  <1>1. Lock!Init => Lock!IInv
    BY FramesFitTheWord, Lock!InitIInv
  <1>2. (Lock!Init => Lock!IInv)'
    BY <1>1, PTL
  <1>3. QED
    BY <1>1, <1>2

\* What MutexProofs has shown of every lock holds of the logger's through every step.
LEMMA LockInvKept ==
    ASSUME TypeOK, Lock!IInv, [Next]_vars
    PROVE  (Lock!IInv)'
  <1>1. Lock!IInv /\ [Lock!Next]_(Lock!vars) => (Lock!IInv)'
    BY FramesFitTheWord, Lock!NextIInv
  <1>2. QED
    BY <1>1, StepIsMutexStep, StartsUnlocked, LockInvStarts

\* At most one frame is past the lock.
LEMMA OneOwner ==
    ASSUME TypeOK, Lock!IInv, NEW f \in Frames, NEW g \in Frames,
           pc[f] \in Owning, pc[g] \in Owning
    PROVE  f = g
  <1>1. f \in Lock!Owners /\ g \in Lock!Owners
    BY DEF Lock!Owners, AsMutex
  <1>2. QED
    BY <1>1 DEF Lock!IInv, Lock!MutualExclusion

-----------------------------------------------------------------------------
\* What is in the file and not yet printed stays with the owner of the lock.
LEMMA UnprintedKept ==
    ASSUME TypeOK, Lock!IInv, UnprintedIsHeld, [Next]_vars
    PROVE  UnprintedIsHeld'
  <1>1. ASSUME NEW f \in Frames, CallLogger(f), UNCHANGED logging
        PROVE  UnprintedIsHeld'
    BY <1>1 DEF CallLogger, logging, UnprintedIsHeld, TypeOK, FrameStates
  <1>2. ASSUME NEW f \in Frames, InLogger(f)
        PROVE  UnprintedIsHeld'
    <2>1. CASE FetchAndAdd(f) \/ FetchAndSub(f) \/ Release(f)
      BY <2>1 DEF FetchAndAdd, FetchAndSub, Release, logging, UnprintedIsHeld, TypeOK,
                  FrameStates
    <2>2. CASE WriteLogFile(f)
      BY <2>2 DEF WriteLogFile, UnprintedIsHeld, TypeOK, FrameStates
    <2>3. CASE BasicLogger(f)
      BY <2>3 DEF BasicLogger, UnprintedIsHeld, TypeOK, FrameStates
    <2>4. QED
      BY <1>2, <2>1, <2>2, <2>3 DEF InLogger
  <1>3. CASE Restart
    BY <1>3 DEF Restart, UnprintedIsHeld
  <1>4. CASE UNCHANGED <<lock, unprinted>>
    BY <1>4 DEF lock, UnprintedIsHeld
  <1>5. QED
    BY <1>1, <1>2, <1>3, <1>4, EveryStep

-----------------------------------------------------------------------------
(* The steps that move the main thread or touch the log directory: the     *)
(* others leave both alone.                                                *)
LEMMA EveryPlace ==
    ASSUME [Next]_vars
    PROVE  \/ UNCHANGED <<haveLogDir, g_LogDir, g_LogFileName>>
              /\ (MainStep \/ UNCHANGED <<place, daemon>> \/ Die)
           \/ SetLogDir
           \/ \E f \in Frames : WriteLogFile(f)
           \/ Restart
  <1>1. CASE LogDaemonizing \/ LogForked \/ LogReady \/ LogDone \/ LoopOnce
    BY <1>1 DEF LogDaemonizing, LogForked, LogReady, LogDone, LoopOnce, LogAndGoTo, logging,
                MainStep
  <1>2. CASE Fork \/ CreatePidFile \/ WritePidFile \/ InstallHandler
    BY <1>2 DEF Fork, CreatePidFile, WritePidFile, InstallHandler, logging, MainStep
  <1>3. CASE LeaveLoop \/ RestoreHandler \/ UnlinkPidFile
    BY <1>3 DEF LeaveLoop, RestoreHandler, UnlinkPidFile, logging, MainStep
  <1>4. ASSUME NEW f \in Frames, InLogger(f), ~WriteLogFile(f)
        PROVE  UNCHANGED <<haveLogDir, g_LogDir, g_LogFileName, place, daemon>>
    BY <1>4 DEF InLogger, FetchAndAdd, FetchAndSub, BasicLogger, Release, logging
  <1>5. ASSUME NEW w \in ParentWorkers \cup ChildWorkers, WorkerLogs(w)
        PROVE  UNCHANGED <<haveLogDir, g_LogDir, g_LogFileName, place, daemon>>
    BY <1>5 DEF WorkerLogs, logging
  <1>6. ASSUME NEW t \in Threads, DeliverTerm(t)
        PROVE  UNCHANGED <<haveLogDir, g_LogDir, g_LogFileName, place, daemon>>
    BY <1>6 DEF DeliverTerm, logging
  <1>7. CASE SendTerm \/ Die
    BY <1>7 DEF SendTerm, Die, logging
  <1>8. CASE UNCHANGED vars
    BY <1>8 DEF vars, logging
  <1>9. QED
    BY <1>1, <1>2, <1>3, <1>4, <1>5, <1>6, <1>7, <1>8 DEF Next, MainStep

\* Where the main thread stands after each of its steps.
LEMMA PlacesOfMain ==
    ASSUME MainStep, place \in Places
    PROVE  /\ place' \in Places
           /\ place' \in (InCtor \cup InProgram) \ {"setLogDir"} =>
                SetLogDir \/ place \in (InCtor \cup InProgram) \ {"setLogDir"}
  <1> USE DEF MainAt, Places, InParent, InCtor, InProgram, Stopped
  <1>1. CASE LogDaemonizing \/ LogForked \/ LogReady \/ LogDone \/ LoopOnce
    BY <1>1 DEF LogDaemonizing, LogForked, LogReady, LogDone, LoopOnce, LogAndGoTo
  <1>2. CASE Fork \/ SetLogDir \/ CreatePidFile \/ WritePidFile \/ InstallHandler
    BY <1>2 DEF Fork, SetLogDir, CreatePidFile, WritePidFile, InstallHandler
  <1>3. CASE LeaveLoop \/ RestoreHandler \/ UnlinkPidFile
    BY <1>3 DEF LeaveLoop, RestoreHandler, UnlinkPidFile
  <1>4. QED
    BY <1>1, <1>2, <1>3 DEF MainStep

\* A name composed after setLogDir() lies in the daemon's own directory.
LEMMA DirKept ==
    ASSUME TypeOK, DirIsOwn, LogsIntoItsOwnDir, [Next]_vars
    PROVE  DirIsOwn' /\ LogsIntoItsOwnDir'
  <1> DEFINE Own(p) == p \in (InCtor \cup InProgram) \ {"setLogDir"}
  <1>1. /\ Own(place) => g_LogDir = "daemon" /\ g_LogFileName \in {"", "daemon"}
        /\ place \in Places
    BY DEF DirIsOwn, LogsIntoItsOwnDir, TypeOK
  <1>2. CASE SetLogDir
    BY <1>2 DEF SetLogDir, DirIsOwn, LogsIntoItsOwnDir
  <1>3. CASE /\ UNCHANGED <<haveLogDir, g_LogDir, g_LogFileName>>
             /\ MainStep /\ ~SetLogDir
    <2>1. Own(place') => Own(place)
      BY <1>1, <1>3, PlacesOfMain
    <2>2. QED
      BY <1>1, <1>3, <2>1 DEF DirIsOwn, LogsIntoItsOwnDir
  <1>4. CASE UNCHANGED <<haveLogDir, g_LogDir, g_LogFileName>> /\ UNCHANGED place
    BY <1>1, <1>4 DEF DirIsOwn, LogsIntoItsOwnDir
  <1>5. CASE Die \/ Restart
    BY <1>5 DEF Die, Restart, DirIsOwn, LogsIntoItsOwnDir, InCtor, InProgram
  <1>6. ASSUME NEW f \in Frames, WriteLogFile(f) PROVE DirIsOwn' /\ LogsIntoItsOwnDir'
    <2>1. UNCHANGED <<g_LogDir, place>>
      BY <1>6 DEF WriteLogFile
    <2>2. g_LogFileName' \in {"", g_LogDir, g_LogFileName}
      BY <1>6 DEF WriteLogFile, LogFileName
    <2>3. QED
      BY <1>1, <2>1, <2>2 DEF DirIsOwn, LogsIntoItsOwnDir
  <1>7. QED
    BY <1>2, <1>3, <1>4, <1>5, <1>6, EveryPlace

-----------------------------------------------------------------------------
(* The digits of the pid overwrite the beginning of the text, and what is  *)
(* behind them stays.                                                      *)
LEMMA Overwriting ==
    ASSUME NEW s \in Seq(Nat), NEW t \in Seq(Nat), NEW n, n = Len(s),
           NEW u, u = s \o SubSeq(t, n + 1, Len(t))
    PROVE  /\ u \in Seq(Nat)
           /\ SubSeq(u, 1, n) = s
           /\ Len(u) = IF n <= Len(t) THEN Len(t) ELSE n
  <1> DEFINE rest == SubSeq(t, Len(s) + 1, Len(t))
  <1>1. Len(s) \in Nat /\ Len(t) \in Nat
    BY LenProperties
  <1>2. /\ rest \in Seq(Nat)
        /\ Len(rest) = IF Len(s) + 1 <= Len(t) THEN Len(t) - Len(s) ELSE 0
    <2>1. \A i \in Len(s) + 1 .. Len(t) : t[i] \in Nat
      BY <1>1, ElementOfSeq
    <2>2. /\ rest \in Seq(Nat)
          /\ Len(rest) = IF Len(s) + 1 <= Len(t) THEN Len(t) - (Len(s) + 1) + 1 ELSE 0
      BY <1>1, <2>1, SubSeqProperties
    <2>3. QED
      BY <1>1, <2>2
  <1> HIDE DEF rest
  <1>3. /\ u \in Seq(Nat) /\ Len(u) = Len(s) + Len(rest)
        /\ \A i \in 1 .. Len(s) : u[i] = s[i]
    <2>1. u = s \o rest
      BY DEF rest
    <2>2. /\ s \o rest \in Seq(Nat) /\ Len(s \o rest) = Len(s) + Len(rest)
          /\ \A i \in 1 .. Len(s) + Len(rest) :
                (s \o rest)[i] = IF i <= Len(s) THEN s[i] ELSE rest[i - Len(s)]
      BY <1>2, ConcatProperties
    <2>3. Len(rest) \in Nat
      BY <1>2, LenProperties
    <2>4. ASSUME NEW i \in 1 .. Len(s) PROVE u[i] = s[i]
      <3>1. i \in 1 .. Len(s) + Len(rest) /\ i <= Len(s)
        BY <1>1, <2>3
      <3>2. QED
        BY <2>1, <2>2, <3>1
    <2>5. QED
      BY <2>1, <2>2, <2>4
  <1>4. Len(u) = IF Len(s) <= Len(t) THEN Len(t) ELSE Len(s)
    BY <1>1, <1>2, <1>3
  <1>5. SubSeq(u, 1, Len(s)) = s
    <2>1. \A i \in 1 .. Len(s) : u[i] \in Nat
      BY <1>1, <1>3, ElementOfSeq
    <2>2. /\ SubSeq(u, 1, Len(s)) \in Seq(Nat) /\ Len(SubSeq(u, 1, Len(s))) = Len(s)
          /\ \A i \in 1 .. Len(s) : SubSeq(u, 1, Len(s))[i] = u[i]
      BY <1>1, <2>1, SubSeqProperties
    <2>3. QED
      BY <1>3, <2>2, SeqEqual
  <1>6. QED
    BY <1>3, <1>4, <1>5

\* The pid of the running daemon has as many digits as its length says.
LEMMA OwnPidIsText ==
    ASSUME TypeOK
    PROVE  /\ pidLength \in Nat \ {0}
           /\ OwnPid \in Seq(Nat) /\ pidLength = Len(OwnPid)
  <1>1. pidLength \in Nat \ {0} /\ process \in Nat
    BY DaemonAssumption DEF TypeOK
  <1>2. QED
    BY <1>1 DEF OwnPid

(* Only the main thread and a restart touch the pid file or what should be *)
(* in it.                                                                  *)
LEMMA PidFileTouched ==
    ASSUME [Next]_vars
    PROVE  MainStep \/ Die \/ Restart \/ UNCHANGED <<place, daemon>>
  <1>1. ASSUME NEW f \in Frames, WriteLogFile(f) PROVE UNCHANGED <<place, daemon>>
    BY <1>1 DEF WriteLogFile
  <1>2. SetLogDir => MainStep
    BY DEF MainStep
  <1>3. QED
    BY <1>1, <1>2, EveryPlace

\* What CreatePidFile and WritePidFile have done stays until UnlinkPidFile.
LEMMA PidFileKept ==
    ASSUME TypeOK, PidFileBegins, [Next]_vars
    PROVE  PidFileBegins'
  <1> DEFINE Ready(p) == p \in {"logReady", "logDone"} \cup InProgram
             Created(p) == p \in {"writePid", "logReady", "logDone"} \cup InProgram
             Begins == /\ pidLength <= Len(pidFile.text)
                       /\ SubSeq(pidFile.text, 1, pidLength) = OwnPid
  <1>1. (Created(place) => pidFile.exists) /\ (Ready(place) => Begins)
    BY DEF PidFileBegins
  <1>2. CASE UNCHANGED daemon /\ (Created(place') => Created(place))
             /\ (Ready(place') => Ready(place))
    BY <1>1, <1>2 DEF PidFileBegins, daemon, OwnPid
  <1>3. CASE UNCHANGED <<place, daemon>>
    BY <1>2, <1>3
  <1>4. CASE Die \/ Restart \/ UnlinkPidFile
    BY <1>4 DEF Die, Restart, UnlinkPidFile, PidFileBegins, InProgram
  <1>5. CASE LogDaemonizing \/ LogForked \/ LogReady \/ LogDone \/ LoopOnce
    BY <1>2, <1>5 DEF LogDaemonizing, LogForked, LogReady, LogDone, LoopOnce, LogAndGoTo,
                      MainAt, InProgram
  <1>6. CASE Fork \/ SetLogDir \/ InstallHandler \/ LeaveLoop \/ RestoreHandler
    BY <1>2, <1>6 DEF Fork, SetLogDir, InstallHandler, LeaveLoop, RestoreHandler, MainAt,
                      InProgram
  <1>7. CASE CreatePidFile
    BY <1>7 DEF CreatePidFile, PidFileBegins, InProgram, TypeOK
  <1>8. CASE WritePidFile
    <2>1. /\ place = "writePid" /\ place' = "logReady" /\ UNCHANGED <<process, pidLength>>
          /\ pidFile' = [pidFile EXCEPT !.text =
                OwnPid \o SubSeq(pidFile.text, pidLength + 1, Len(pidFile.text))]
      BY <1>8 DEF WritePidFile, MainAt
    <2>2. pidFile.exists /\ pidFile.text \in Seq(Nat)
      BY <1>1, <2>1 DEF TypeOK
    <2>3. /\ pidFile'.exists = pidFile.exists
          /\ pidFile'.text = OwnPid \o SubSeq(pidFile.text, pidLength + 1, Len(pidFile.text))
      BY <2>1 DEF TypeOK
    <2>4. /\ SubSeq(pidFile'.text, 1, pidLength) = OwnPid
          /\ Len(pidFile'.text) = IF pidLength <= Len(pidFile.text)
                                  THEN Len(pidFile.text) ELSE pidLength
      <3>1. OwnPid \in Seq(Nat) /\ pidLength = Len(OwnPid)
        BY OwnPidIsText
      <3>2. QED
        BY <2>2, <2>3, <3>1, Overwriting
    <2>5. pidLength <= Len(pidFile'.text)
      BY <2>2, <2>4, OwnPidIsText, LenProperties
    <2>6. OwnPid' = OwnPid
      BY <2>1 DEF OwnPid
    <2>7. QED
      BY <2>1, <2>2, <2>3, <2>4, <2>5, <2>6 DEF PidFileBegins
  <1>9. QED
    BY <1>3, <1>4, <1>5, <1>6, <1>7, <1>8, PidFileTouched DEF MainStep

\* The file never outgrows the longest pid that may be written to it.
LEMMA PidFileFitsKept ==
    ASSUME TypeOK, PidFileFits, [Next]_vars
    PROVE  PidFileFits'
  <1>1. CASE UNCHANGED pidFile
    BY <1>1 DEF PidFileFits
  <1>2. CASE UNCHANGED <<place, daemon>> \/ Die \/ Restart
    BY <1>1, <1>2 DEF Die, Restart, daemon
  <1>3. CASE LogDaemonizing \/ LogForked \/ LogReady \/ LogDone \/ LoopOnce
    BY <1>1, <1>3 DEF LogDaemonizing, LogForked, LogReady, LogDone, LoopOnce, LogAndGoTo,
                      daemon
  <1>4. CASE Fork \/ SetLogDir \/ InstallHandler \/ LeaveLoop \/ RestoreHandler
    BY <1>1, <1>4 DEF Fork, SetLogDir, InstallHandler, LeaveLoop, RestoreHandler, daemon
  <1>5. CASE CreatePidFile
    BY <1>5 DEF CreatePidFile, PidFileFits, TypeOK
  <1>6. CASE UnlinkPidFile
    BY <1>6, EmptySeq DEF UnlinkPidFile, PidFileFits
  <1>7. CASE WritePidFile
    <2>1. pidFile'.text = OwnPid \o SubSeq(pidFile.text, pidLength + 1, Len(pidFile.text))
      BY <1>7 DEF WritePidFile, TypeOK
    <2>2. pidFile.text \in Seq(Nat) /\ pidLength \in PidLengths
      BY DEF TypeOK
    <2>3. Len(pidFile'.text) \in {Len(pidFile.text), pidLength}
      <3>1. OwnPid \in Seq(Nat) /\ pidLength = Len(OwnPid)
        BY OwnPidIsText
      <3>2. QED
        BY <2>1, <2>2, <3>1, Overwriting
    <2>4. QED
      BY <2>2, <2>3 DEF PidFileFits
  <1>8. QED
    BY <1>2, <1>3, <1>4, <1>5, <1>6, <1>7, PidFileTouched DEF MainStep

-----------------------------------------------------------------------------
\* Every step leaves every variable of the program in its range.
LEMMA TypesKept ==
    ASSUME TypeOK, [Next]_vars
    PROVE  TypeOK'
  <1>1. pc' \in [Frames -> FrameStates]
    <2>1. ASSUME NEW f \in Frames, CallLogger(f) PROVE pc' \in [Frames -> FrameStates]
      BY <2>1 DEF CallLogger, TypeOK, FrameStates
    <2>2. ASSUME NEW f \in Frames, InLogger(f) PROVE pc' \in [Frames -> FrameStates]
      BY <2>2 DEF InLogger, FetchAndAdd, FetchAndSub, WriteLogFile, BasicLogger, Release,
                  TypeOK, FrameStates, Owning
    <2>3. QED
      BY <2>1, <2>2, EveryStep DEF Restart, lock, TypeOK, FrameStates
  <1>2. unprinted' \subseteq Frames
    <2>1. ASSUME NEW f \in Frames, InLogger(f) PROVE unprinted' \subseteq Frames
      BY <2>1 DEF InLogger, FetchAndAdd, FetchAndSub, WriteLogFile, BasicLogger, Release,
                  TypeOK, logging
    <2>2. QED
      BY <2>1, EveryStep DEF Restart, logging, TypeOK
  <1>3. /\ haveLogDir' \in BOOLEAN
        /\ g_LogDir' \in {"", "parent", "daemon"}
        /\ g_LogFileName' \in {"", "parent", "daemon"}
    <2>1. ASSUME NEW f \in Frames, WriteLogFile(f)
          PROVE  /\ haveLogDir' \in BOOLEAN /\ g_LogDir' = g_LogDir
                 /\ g_LogFileName' \in {"", "parent", "daemon"}
      BY <2>1 DEF WriteLogFile
    <2>2. QED
      BY <2>1, EveryPlace DEF SetLogDir, Restart, TypeOK
  <1>4. place' \in Places
    BY PidFileTouched, PlacesOfMain DEF Die, Restart, TypeOK, Places, Stopped, InParent
  <1>5. process' \in Nat /\ pidLength' \in PidLengths
    <2>1. MainStep => UNCHANGED <<process, pidLength>>
      BY DEF MainStep, LogDaemonizing, Fork, SetLogDir, LogForked, CreatePidFile,
             WritePidFile, LogReady, LogDone, InstallHandler, LoopOnce, LeaveLoop,
             RestoreHandler, UnlinkPidFile, LogAndGoTo, daemon
    <2>2. Restart => process' = process + 1 /\ pidLength' \in PidLengths
      BY DEF Restart
    <2>3. Die \/ UNCHANGED daemon => UNCHANGED <<process, pidLength>>
      BY DEF Die, daemon
    <2>4. process \in Nat /\ pidLength \in PidLengths
      BY DEF TypeOK
    <2>5. QED
      BY <2>1, <2>2, <2>3, <2>4, PidFileTouched
  <1>6. pidFile' \in [exists : BOOLEAN, text : Seq(Nat)]
    <2>1. CASE WritePidFile
      <3>1. pidFile.text \in Seq(Nat)
        BY DEF TypeOK
      <3>2. OwnPid \o SubSeq(pidFile.text, pidLength + 1, Len(pidFile.text)) \in Seq(Nat)
        BY <3>1, OwnPidIsText, Overwriting
      <3>3. QED
        BY <2>1, <3>2 DEF WritePidFile, TypeOK
    <2>2. CASE CreatePidFile
      BY <2>2 DEF CreatePidFile, TypeOK
    <2>3. CASE UnlinkPidFile
      BY <2>3, EmptySeq DEF UnlinkPidFile
    <2>4. MainStep => WritePidFile \/ CreatePidFile \/ UnlinkPidFile \/ UNCHANGED pidFile
      BY DEF MainStep, LogDaemonizing, Fork, SetLogDir, LogForked, LogReady, LogDone,
             InstallHandler, LoopOnce, LeaveLoop, RestoreHandler, LogAndGoTo, daemon
    <2>5. QED
      BY <2>1, <2>2, <2>3, <2>4, PidFileTouched DEF Die, Restart, daemon, TypeOK
  <1>7. QED
    BY <1>1, <1>2, <1>3, <1>4, <1>5, <1>6 DEF TypeOK

-----------------------------------------------------------------------------
\* A process whose main() has not logged anything yet.
LEMMA InitIInv == Init => IInv
  <1> SUFFICES ASSUME Init PROVE IInv
    OBVIOUS
  <1>1. TypeOK
    <2>1. <<>> \in Seq(Nat)
      BY EmptySeq
    <2>2. QED
      BY <2>1 DEF Init, TypeOK, FrameStates, Places, InParent
  <1>2. Lock!IInv
    BY StartsUnlocked, LockInvStarts
  <1>3. UnprintedIsHeld /\ DirIsOwn /\ LogsIntoItsOwnDir /\ PidFileBegins
    BY DEF Init, UnprintedIsHeld, DirIsOwn, LogsIntoItsOwnDir, PidFileBegins, InCtor, InProgram
  <1>4. PidFileFits
    <2>1. Init => pidFile = [exists |-> FALSE, text |-> <<>>]
      BY DEF Init
    <2>2. Len([exists |-> FALSE, text |-> <<>>].text) = 0
      OBVIOUS
    <2>3. QED
      BY <2>1, <2>2 DEF PidFileFits
  <1>5. QED
    BY <1>1, <1>2, <1>3, <1>4 DEF IInv

\* The invariant is inductive.
LEMMA NextIInv == IInv /\ [Next]_vars => IInv'
  <1> SUFFICES ASSUME IInv, [Next]_vars PROVE IInv'
    OBVIOUS
  <1>1. /\ TypeOK /\ Lock!IInv /\ UnprintedIsHeld /\ DirIsOwn /\ LogsIntoItsOwnDir
        /\ PidFileBegins /\ PidFileFits
    BY DEF IInv
  <1>2. TypeOK' /\ (Lock!IInv)' /\ UnprintedIsHeld'
    BY <1>1, TypesKept, LockInvKept, UnprintedKept
  <1>3. DirIsOwn' /\ LogsIntoItsOwnDir' /\ PidFileBegins' /\ PidFileFits'
    BY <1>1, DirKept, PidFileKept, PidFileFitsKept
  <1>4. QED
    BY <1>2, <1>3 DEF IInv

(* Every reachable state satisfies the invariant; at its heart the word of *)
(* msgLogger counts exactly the frames inside its lock or failing at it.   *)
THEOREM InvariantHolds == Spec => []IInv
  BY InitIInv, NextIInv, PTL DEF Spec

(* csjp_logger.cpp:176: with any number of threads, and handlers that      *)
(* interrupt them inside msgLogger, a message in the log file is printed   *)
(* before the next one is written to it.                                   *)
THEOREM OutputsAgree == Spec => []SameOrderInFileAndStream
  <1>1. IInv => SameOrderInFileAndStream
    BY OneOwner DEF IInv, TypeOK, UnprintedIsHeld, SameOrderInFileAndStream, Owning
  <1>2. QED
    BY <1>1, InvariantHolds, PTL

(* csjp_logger.cpp:190-214: msgLogger takes and gives its lock only as     *)
(* csjp::Mutex does, whatever a fork or a handler leaves of its frames.    *)
THEOREM LoggerUsesAMutex == Spec => LoggerLockIsMutex
  <1>1. Init => LoggerLock!Init
    BY DEF Init, LoggerLock!Init, AsMutex, Owning
  <1>2. ASSUME TypeOK, [Next]_vars PROVE [LockStep]_(LoggerLock!vars)
    <2>1. CASE place \in Stopped
      BY <2>1 DEF LockStep
    <2>2. CASE Restart
      BY <2>2 DEF Restart, LockStep
    <2>3. CASE [Lock!Next]_(Lock!vars)
      BY <2>3 DEF LockStep, Lock!Next, Lock!vars, Lock!Lock, Lock!FetchAndAdd,
                  Lock!FetchAndSub, Lock!Unlock, Lock!Incremented, Lock!Decremented,
                  LoggerLock!Next, LoggerLock!vars, LoggerLock!Lock, LoggerLock!FetchAndAdd,
                  LoggerLock!FetchAndSub, LoggerLock!Unlock, LoggerLock!Incremented,
                  LoggerLock!Decremented
    <2>4. QED
      BY <1>2, <2>1, <2>2, <2>3, StepIsMutexStep
  <1>3. IInv => TypeOK
    BY DEF IInv
  <1>4. QED
    BY <1>1, <1>2, <1>3, InvariantHolds, PTL DEF Spec, LoggerLockIsMutex

(* csjp_daemon.cpp:76: from setLogDir() on a log file lies in the daemon's *)
(* own directory, whatever the parent had cached.                          *)
THEOREM LogFileIsOwn == Spec => []LogsIntoItsOwnDir
  <1>1. IInv => LogsIntoItsOwnDir
    BY DEF IInv
  <1>2. QED
    BY <1>1, InvariantHolds, PTL

(* csjp_daemon.cpp:82: from the announcement until it is removed, the file *)
(* is there and begins with the pid of the daemon that runs, whatever the  *)
(* deaths and restarts before it left; a daemon whose pid is among the     *)
(* longest finds it holding its pid and nothing else.  For a shorter pid   *)
(* this is all there is: the digits behind it may be another's.            *)
THEOREM PidFileIsForTheLongest == Spec => []PidFileServesTheLongest
  <1>1. ASSUME IInv PROVE PidFileServesTheLongest
    <2> SUFFICES ASSUME Announced
                 PROVE  /\ pidFile.exists /\ pidLength <= Len(pidFile.text)
                        /\ SubSeq(pidFile.text, 1, pidLength) = OwnPid
                        /\ (\A m \in PidLengths : m <= pidLength) => pidFile.text = OwnPid
      BY DEF PidFileServesTheLongest
    <2>1. /\ pidFile.exists /\ pidLength <= Len(pidFile.text)
          /\ SubSeq(pidFile.text, 1, pidLength) = OwnPid
      BY <1>1 DEF IInv, PidFileBegins, Announced
    <2>2. pidFile.text \in Seq(Nat) /\ Len(pidFile.text) \in Nat /\ pidLength \in Nat
      <3>1. TypeOK
        BY <1>1 DEF IInv
      <3>2. pidFile.text \in Seq(Nat)
        BY <3>1 DEF TypeOK
      <3>3. QED
        BY <3>1, <3>2, OwnPidIsText, LenProperties
    <2>3. ASSUME \A m \in PidLengths : m <= pidLength PROVE pidFile.text = OwnPid
      <3>1. pidLength = Len(pidFile.text)
        BY <1>1, <2>1, <2>2, <2>3 DEF IInv, PidFileFits
      <3>2. QED
        BY <2>1, <2>2, <3>1, SubSeqFull
    <2>4. QED
      BY <2>1, <2>3
  <1>2. QED
    BY <1>1, InvariantHolds, PTL

==============================================================================
