------------------------------- MODULE Daemon -------------------------------
(***************************************************************************)
(* A daemon built from the library: csjp::Daemon (src/system), a TERM      *)
(* handler of csjp::Signal, and csjp::msgLogger (src/devel) which both of  *)
(* them call.  The program is the one of src/system/test/signal.cpp: fork, *)
(* write the pid file, install the handler, log in a loop until TERM has   *)
(* been received, and remove the pid file on the way out.                  *)
(*                                                                         *)
(* A FRAME is an activation of msgLogger that may exist: every thread has  *)
(* one for its own code and one for the signal handler that may interrupt  *)
(* it anywhere, in the middle of msgLogger too.  While the handler frame   *)
(* is active the body frame of the thread does not move.  The lock inside  *)
(* msgLogger is the algorithm of module Mutex over these frames.           *)
(*                                                                         *)
(* fork() copies the memory of the process and one thread of it: the       *)
(* parent's other threads are simply never scheduled in the child.  The    *)
(* model follows the child.                                                *)
(***************************************************************************)
EXTENDS Naturals, Sequences, FiniteSets

CONSTANTS
    Main,           \* the thread that becomes the daemon
    ParentWorkers,  \* the other threads of the process that forks
    ChildWorkers,   \* threads the daemon starts after daemonization
    Modulus,        \* one more than the largest value of loggerMutex
    PidLengths,     \* the numbers of digits a process id may have
    MaxProcesses,   \* bound: how many times the daemon is started
    MaxTerms        \* bound: how many TERM signals are sent in all

Threads == {Main} \cup ParentWorkers \cup ChildWorkers
Body(t) == <<t, "body">>
Handler(t) == <<t, "handler">>
Frames == {Body(t) : t \in Threads} \cup {Handler(t) : t \in Threads}

ASSUME DaemonAssumption ==
    /\ IsFiniteSet(Threads)
    /\ Modulus \in Nat /\ Cardinality(Frames) < Modulus
    /\ PidLengths \subseteq Nat \ {0}

VARIABLES
    loggerMutex,        \* the lock word of msgLogger
    pc,                 \* where each frame stands in msgLogger
    haveLogDir,         \* csjp::haveLogDir
    g_LogDir,           \* "", or whose directory: "parent", "daemon"
    g_LogFileName,      \* "", or the directory the cached name lies in
    unprinted,          \* the frames whose message is in the file, not yet printed
    place,              \* where the main thread stands in the program
    termAction,         \* the disposition of SIGTERM: "default", "sigtermHandler"
    termPending,        \* a SIGTERM was sent and not yet delivered
    sigTermReceived,    \* Signal::sigTermReceived
    terms,              \* how many SIGTERM were sent
    process,            \* which start of the daemon is running
    pidLength,          \* the number of digits of its pid
    pidFile             \* [exists, text]: text is a sequence of digits, each digit
                        \* named by the process that wrote it

lock    == <<loggerMutex, pc>>
logging == <<haveLogDir, g_LogDir, g_LogFileName, unprinted>>
signal  == <<termAction, termPending, sigTermReceived, terms>>
daemon  == <<process, pidLength, pidFile>>
vars    == <<lock, logging, place, signal, daemon>>

(* The places of the main thread, in the order it passes them.  At a place *)
(* of Log the next thing it does is call msgLogger.                        *)
InParent  == {"logDaemonizing", "fork"}
InCtor    == {"setLogDir", "logForked", "createPid", "writePid", "logReady", "logDone"}
InProgram == {"install", "loop", "restore", "unlink"}
Stopped   == {"exited", "dead"}
Places    == InParent \cup InCtor \cup InProgram \cup Stopped

Owning == {"file", "std", "release"}

Alive(t) ==
    CASE t = Main          -> place \notin Stopped
      [] t \in ParentWorkers -> place \in InParent
      [] t \in ChildWorkers  -> place \in InProgram

\* The handler runs on top of the thread it interrupted.
Runs(f) == Alive(f[1]) /\ (f[2] = "body" => pc[Handler(f[1])] = "idle")

OwnPid == [i \in 1 .. pidLength |-> process]

\* A process whose main() has not logged anything yet.
Init ==
    /\ loggerMutex = 0
    /\ pc = [f \in Frames |-> "idle"]
    /\ haveLogDir = TRUE /\ g_LogDir \in {"", "parent"} /\ g_LogFileName = ""
    /\ unprinted = {}
    /\ place = "logDaemonizing"
    /\ termAction = "default" /\ termPending = FALSE /\ sigTermReceived = FALSE
    /\ pidLength \in PidLengths
    /\ terms = 0
    /\ process = 1
    /\ pidFile = [exists |-> FALSE, text |-> <<>>]

-----------------------------------------------------------------------------
(* msgLogger *)

Increment(word) == IF word + 1 = Modulus THEN 0 ELSE word + 1
Decrement(word) == IF word = 0 THEN Modulus - 1 ELSE word - 1

(* A frame enters msgLogger up to the loop on the lock, or returns before  *)
(* it because the message could not be allocated or formatted.             *)
CallLogger(f) ==
    /\ pc[f] = "idle"
    /\ \E next \in {"add", "idle"} : pc' = [pc EXCEPT ![f] = next]
    /\ UNCHANGED loggerMutex

\* mutant: the lock is taken as free when at most one contender is counted
FetchAndAddOffByOne(f) ==
    /\ Runs(f) /\ pc[f] = "add"
    /\ loggerMutex' = Increment(loggerMutex)
    /\ pc' = [pc EXCEPT ![f] = IF loggerMutex <= 1 THEN "file" ELSE "undo"]
    /\ UNCHANGED <<logging, place, signal, daemon>>

FetchAndAdd(f) ==
    /\ Runs(f) /\ pc[f] = "add"
    /\ loggerMutex' = Increment(loggerMutex)
    /\ pc' = [pc EXCEPT ![f] = IF loggerMutex = 0 THEN "file" ELSE "undo"]
    /\ UNCHANGED <<logging, place, signal, daemon>>

FetchAndSub(f) ==
    /\ Runs(f) /\ pc[f] = "undo"
    /\ loggerMutex' = Decrement(loggerMutex)
    /\ pc' = [pc EXCEPT ![f] = "add"]
    /\ UNCHANGED <<logging, place, signal, daemon>>

(* logFileName(): the name is cached; it is composed when the log directory *)
(* is there (stat says so), and file logging is given up when it is not.    *)
LogFileName(name, have) ==
    \/ g_LogFileName = "" /\ haveLogDir /\ g_LogDir # "" /\ name = g_LogDir /\ have = TRUE
    \/ g_LogFileName = "" /\ haveLogDir /\ name = "" /\ have = FALSE
    \/ (g_LogFileName # "" \/ ~haveLogDir) /\ name = g_LogFileName /\ have = haveLogDir

\* Under the lock: append to the log file, or, when there is a stderr to say so on,
\* give file logging up.
WriteLogFile(f) ==
    /\ Runs(f) /\ pc[f] = "file"
    /\ \E name \in {"", "parent", "daemon"}, have, opened \in BOOLEAN :
        /\ LogFileName(name, have)
        /\ g_LogFileName' = name
        /\ LET toFile == haveLogDir /\ name # ""
           IN  /\ haveLogDir' \in IF toFile /\ ~opened THEN {have, FALSE} ELSE {have}
               /\ unprinted' = IF toFile /\ opened THEN unprinted \cup {f} ELSE unprinted
    /\ pc' = [pc EXCEPT ![f] = "std"]
    /\ UNCHANGED <<loggerMutex, g_LogDir, place, signal, daemon>>

\* basicLogger(): the same message to the standard stream.
BasicLogger(f) ==
    /\ Runs(f) /\ pc[f] = "std"
    /\ unprinted' = unprinted \ {f}
    /\ pc' = [pc EXCEPT ![f] = "release"]
    /\ UNCHANGED <<loggerMutex, haveLogDir, g_LogDir, g_LogFileName, place, signal, daemon>>

\* mutant: the release stores zero
ReleaseByStore(f) ==
    /\ Runs(f) /\ pc[f] = "release"
    /\ loggerMutex' = 0
    /\ pc' = [pc EXCEPT ![f] = "idle"]
    /\ UNCHANGED <<logging, place, signal, daemon>>

Release(f) ==
    /\ Runs(f) /\ pc[f] = "release"
    /\ loggerMutex' = Decrement(loggerMutex)
    /\ pc' = [pc EXCEPT ![f] = "idle"]
    /\ UNCHANGED <<logging, place, signal, daemon>>

InLogger(f) ==
    FetchAndAdd(f) \/ FetchAndSub(f) \/ WriteLogFile(f) \/ BasicLogger(f) \/ Release(f)

\* Any other thread may log at any time.
WorkerLogs(w) ==
    /\ Runs(Body(w))
    /\ CallLogger(Body(w))
    /\ UNCHANGED <<logging, place, signal, daemon>>

-----------------------------------------------------------------------------
(* The main thread: Daemon::daemonize, then the program, then destructors. *)

MainAt(p) == place = p /\ Runs(Body(Main)) /\ pc[Body(Main)] = "idle"

LogAndGoTo(p, next) ==
    /\ MainAt(p)
    /\ CallLogger(Body(Main))
    /\ place' = next
    /\ UNCHANGED <<logging, signal, daemon>>

LogDaemonizing == LogAndGoTo("logDaemonizing", "fork")
LogForked      == LogAndGoTo("logForked", "createPid")
LogReady       == LogAndGoTo("logReady", "logDone")
LogDone        == LogAndGoTo("logDone", "install")

\* The child has the parent's memory, the lock word of its logger included.
Fork ==
    /\ MainAt("fork")
    /\ place' = "setLogDir"
    /\ UNCHANGED <<lock, logging, signal, daemon>>

\* mutant: the cached file name survives the change of directory
SetLogDirKeepsName ==
    /\ MainAt("setLogDir")
    /\ g_LogDir' = "daemon"
    /\ haveLogDir' = TRUE
    /\ place' = "logForked"
    /\ UNCHANGED <<lock, g_LogFileName, unprinted, signal, daemon>>

\* setLogDir(logDirName), which also calls resetLogFileName().
SetLogDir ==
    /\ MainAt("setLogDir")
    /\ g_LogDir' = "daemon"
    /\ haveLogDir' = TRUE
    /\ g_LogFileName' = ""
    /\ place' = "logForked"
    /\ UNCHANGED <<lock, unprinted, signal, daemon>>

\* lockFile.write(): File::openForWrite creates the file if it does not exist ...
CreatePidFile ==
    /\ MainAt("createPid")
    /\ pidFile' = [pidFile EXCEPT !.exists = TRUE]
    /\ place' = "writePid"
    /\ UNCHANGED <<lock, logging, signal, process, pidLength>>

\* mutant: the announcement does not wait for the pid to be in the file
WritePidFileLater ==
    /\ MainAt("writePid")
    /\ place' = "logReady"
    /\ UNCHANGED <<lock, logging, signal, daemon>>

\* ... and the digits overwrite what is there from the beginning of the file.
WritePidFile ==
    /\ MainAt("writePid")
    /\ pidFile' = [pidFile EXCEPT !.text =
            OwnPid \o SubSeq(pidFile.text, pidLength + 1, Len(pidFile.text))]
    /\ place' = "logReady"
    /\ UNCHANGED <<lock, logging, signal, process, pidLength>>

\* csjp::Signal termSignal(SIGTERM, sigtermHandler).
InstallHandler ==
    /\ MainAt("install")
    /\ termAction' = "sigtermHandler"
    /\ place' = "loop"
    /\ UNCHANGED <<lock, logging, termPending, sigTermReceived, terms, daemon>>

\* while(!sigTermReceived){ DBG(...); usleep(...); }
LoopOnce ==
    /\ ~sigTermReceived
    /\ LogAndGoTo("loop", "loop")

LeaveLoop ==
    /\ MainAt("loop") /\ sigTermReceived
    /\ place' = "restore"
    /\ UNCHANGED <<lock, logging, signal, daemon>>

\* ~Signal restores the old disposition, ~Daemon unlinks the pid file.
RestoreHandler ==
    /\ MainAt("restore")
    /\ termAction' = "default"
    /\ place' = "unlink"
    /\ UNCHANGED <<lock, logging, termPending, sigTermReceived, terms, daemon>>

UnlinkPidFile ==
    /\ MainAt("unlink")
    /\ pidFile' = [exists |-> FALSE, text |-> <<>>]
    /\ place' = "exited"
    /\ UNCHANGED <<lock, logging, signal, process, pidLength>>

MainStep ==
    \/ LogDaemonizing \/ Fork \/ SetLogDir \/ LogForked \/ CreatePidFile
    \/ WritePidFile \/ LogReady \/ LogDone \/ InstallHandler
    \/ LoopOnce \/ LeaveLoop \/ RestoreHandler \/ UnlinkPidFile

-----------------------------------------------------------------------------
(* Signals and the end of a process. *)

SendTerm ==
    /\ terms < MaxTerms
    /\ place \in InCtor \cup InProgram
    /\ termPending' = TRUE
    /\ terms' = terms + 1
    /\ UNCHANGED <<lock, logging, place, termAction, sigTermReceived, daemon>>

\* mutant: the handler only logs
HandlerWithoutFlag(t) ==
    /\ Alive(t) /\ termPending /\ termAction = "sigtermHandler"
    /\ CallLogger(Handler(t))
    /\ termPending' = FALSE
    /\ UNCHANGED <<logging, place, termAction, sigTermReceived, terms, daemon>>

(* sigtermHandler on any thread: set the flag, then LOG.  The signal is    *)
(* blocked in a thread for as long as the handler runs there.              *)
DeliverTerm(t) ==
    /\ Alive(t) /\ termPending /\ termAction = "sigtermHandler"
    /\ CallLogger(Handler(t))
    /\ termPending' = FALSE
    /\ sigTermReceived' = TRUE
    /\ UNCHANGED <<logging, place, termAction, terms, daemon>>

\* Without a handler SIGTERM kills; SIGKILL or a power failure may at any time.
Die ==
    /\ place \notin Stopped
    /\ \/ termPending /\ termAction = "default"
       \/ process < MaxProcesses
    /\ place' = "dead"
    /\ UNCHANGED <<lock, logging, signal, daemon>>

\* The daemon is started again, whatever the last one left behind.
Restart ==
    /\ place \in Stopped /\ process < MaxProcesses
    /\ process' = process + 1
    /\ loggerMutex' = 0
    /\ pc' = [f \in Frames |-> "idle"]
    /\ haveLogDir' = TRUE /\ g_LogDir' \in {"", "parent"} /\ g_LogFileName' = ""
    /\ unprinted' = {}
    /\ place' = "logDaemonizing"
    /\ termAction' = "default" /\ termPending' = FALSE /\ sigTermReceived' = FALSE
    /\ pidLength' \in PidLengths
    /\ UNCHANGED <<terms, pidFile>>

Next ==
    \/ MainStep
    \/ \E f \in Frames : InLogger(f)
    \/ \E w \in ParentWorkers \cup ChildWorkers : WorkerLogs(w)
    \/ \E t \in Threads : DeliverTerm(t)
    \/ SendTerm \/ Die \/ Restart

Spec == Init /\ [][Next]_vars

(***************************************************************************)
(* Every thread that can run is scheduled and the kernel delivers a        *)
(* pending signal.  Nobody need send one, and no worker need log.          *)
(***************************************************************************)
Fairness ==
    /\ WF_vars(MainStep)
    /\ \A f \in Frames : WF_vars(InLogger(f))
    /\ WF_vars(\E t \in Threads : DeliverTerm(t))

FairSpec == Spec /\ Fairness

-----------------------------------------------------------------------------
\* csjp_logger.cpp:176 "We need to have logging thread safe": a message that is in
\* the log file is printed before another frame, of another thread or of a
\* handler, writes to the file: both outputs have one and the same order.
SameOrderInFileAndStream == \A f, g \in unprinted : f = g

\* csjp_logger.cpp:190-214: over threads, handlers that interrupt them and threads
\* lost in a fork, the lock of msgLogger moves only as csjp::Mutex does.
AsMutex(state) == IF state \in Owning THEN "owner" ELSE state
LoggerLock == INSTANCE Mutex WITH
    Threads <- Frames, mutex <- loggerMutex, pc <- [f \in Frames |-> AsMutex(pc[f])]
LockStep == place \in Stopped \/ LoggerLock!Next
LoggerLockIsMutex == LoggerLock!Init /\ [][LockStep]_(LoggerLock!vars)

\* csjp_daemon.cpp:76: once the daemon has set its log directory, a name cached
\* by the parent is never used again.
LogsIntoItsOwnDir ==
    place \in (InCtor \cup InProgram) \ {"setLogDir"} => g_LogFileName \in {"", "daemon"}

\* The pid file has been announced and not yet removed.
Announced == place \in {"logReady", "logDone"} \cup InProgram

\* csjp_daemon.cpp:82: what the file begins with is the pid of the daemon that runs,
\* also after an earlier daemon died and left its own file behind; and there is
\* nothing else in it if no pid has more digits.  File::write does not truncate.
PidFileServesTheLongest ==
    Announced =>
        /\ pidFile.exists /\ pidLength <= Len(pidFile.text)
        /\ SubSeq(pidFile.text, 1, pidLength) = OwnPid
        /\ (\A m \in PidLengths : m <= pidLength) => pidFile.text = OwnPid

\* The same without the condition, as csjp_daemon.cpp:86 has it: "Administrator can
\* use the pid file from now on".
PidFileIsReady == Announced => pidFile.exists /\ pidFile.text = OwnPid

-----------------------------------------------------------------------------
\* A handler interrupted its own thread between the increment and the decrement
\* of loggerMutex: the thread cannot go on before the handler returns.
Trapped == \E t \in Threads : pc[Handler(t)] # "idle" /\ pc[Body(t)] \in Owning \cup {"undo"}

\* The parent forked while another thread of it was counted in loggerMutex.
LockLostInFork ==
    place \notin InParent /\ \E w \in ParentWorkers : pc[Body(w)] \in Owning \cup {"undo"}

WorkersRest == \A w \in ChildWorkers : pc[Body(w)] = "idle" /\ pc[Handler(w)] = "idle"

TermArrives == termPending /\ termAction = "sigtermHandler"

Gone == ~pidFile.exists \/ place = "dead"

\* A TERM that reaches the daemon ends it and removes the pid file, when in the end
\* the other threads stop logging, no handler trapped its own thread inside
\* msgLogger and no lock was lost in the fork (signal.cpp:38-58).
TermStopsDaemon ==
    <>[]WorkersRest => (TermArrives ~> (Gone \/ Trapped \/ LockLostInFork))

\* The same without the conditions, as signal.cpp:56 "Verify that pidfile is
\* removed" expects of a single-threaded daemon.
TermRemovesPidFile == TermArrives ~> Gone

\* One of the two at least; a behaviour that breaks this breaks both.
PidFileCanBeUsed == ([]PidFileIsReady) \/ TermRemovesPidFile

==============================================================================
