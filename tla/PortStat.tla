------------------------------- MODULE PortStat -------------------------------
(***************************************************************************)
(* The life of the process: main (src/src/main.cpp) creates, runs and      *)
(* closes the capture and its outers through PortStat, and the signal      *)
(* handler sigproc closes them too, on whichever thread takes the signal,  *)
(* in the middle of whatever that thread is doing.                         *)
(*                                                                         *)
(* There are two threads, "main" and GatherOuter's "timer".  A thread in   *)
(* the handler does nothing else until the handler returns.  The handler   *)
(* and the main function both call PortStat::Close, so Close is written    *)
(* once, for a frame: "body" is main's own call, "main" and "timer" are    *)
(* the handler's calls on the two threads.                                 *)
(*                                                                         *)
(* What GatherOuter does with its lines is in module GatherOuter; here it  *)
(* is only known whether bytes are waiting to be printed.  The logs that   *)
(* Create returns with are open here: a FileWriter without one is in       *)
(* module Capture, a file that cannot be rolled in module RollingFile.     *)
(*                                                                         *)
(* There are five mishaps the code is not prepared for, and a pid file that*)
(* cannot be opened.  The specification says which of them may happen, and *)
(* mishaps remembers which did.                                            *)
(***************************************************************************)
EXTENDS Naturals

CONSTANTS
  MaxSignals,  \* bound: how many SIGTERM or SIGINT are sent
  Allowed      \* the mishaps that may happen

\*   "early"     a signal after signal() but before the capture polls
\*   "inCall"    a signal inside localtime_r, which holds a lock of the C library
\*   "race"      a signal after the handler has tested its flag, before it sets it
\*   "late"      a signal while the preferences are being deleted
\*   "noThread"  pthread_create fails
\*   "unstored"  the pid file cannot be opened: the daemon goes on without
Mishap == {"early", "inCall", "race", "late", "noThread", "unstored"}

ASSUME SignalAssumption ==
  MaxSignals \in Nat /\ Allowed \subseteq Mishap

Outer == {"file", "gather", "raw"}

\* The order of the array PortStat::mOuter.
Following == [file |-> "gather", gather |-> "raw", raw |-> "return"]

\* The outers made for the output modes 1 to 5, the modes an option can set.
OutputModes ==
  {{"file"}, {"gather"}, {"file", "gather"}, {"raw"}, {"file", "raw"}}

Thread == {"main", "timer"}
Frame  == Thread \cup {"body"}

VARIABLES
  outers,   \* the outers that exist
  daemon,   \* Prefs::isDaemonize
  main,     \* where the main function is
  turn,     \* the outer that Run or Write is at
  status,   \* NetOutputer::mStatus of the outers
  usable,   \* the outers whose handle (logFd, mData, mFile) is not null
  inputer,  \* NetInputer::mStatus
  pidFile,  \* the pid file: not made, made, written, or unlinked by the handler
  timer,    \* where GatherOuter's thread is
  lock,     \* the thread that a signal has found inside localtime_r, if any
  unsaved,  \* GatherOuter holds bytes that are not printed
  frame,    \* where each call of Close is; for a handler, where the handler is
  called,   \* sigproc's static flag
  nested,   \* threads on which a handler interrupted another one
  signals,  \* signals sent so far
  mishaps,  \* history: the mishaps that happened
  ended     \* how the process ended

vars == <<outers, daemon, main, turn, status, usable, inputer, pidFile, timer,
          lock, unsaved, frame, called, nested, signals, mishaps, ended>>

config == <<outers, daemon>>
sigs   == <<called, nested, signals, mishaps>>

Init ==
  /\ outers \in OutputModes /\ daemon \in BOOLEAN
  /\ main = "create" /\ turn = "file"
  /\ status = [o \in Outer |-> "new"]
  /\ usable = {}
  /\ inputer = "new"
  /\ pidFile = "none"
  /\ timer = "none" /\ lock = "none" /\ unsaved = FALSE
  /\ frame = [f \in Frame |-> "idle"]
  /\ called = FALSE /\ nested = {} /\ signals = 0
  /\ mishaps = {}
  /\ ended = "no"

\* NetInputer::mStatus and NetOutputer::mStatus.
Status == {"new", "run", "signed", "down"}

\* Trace::traceEvent begins each line with the time, and localtime_r, which makes
\* it, holds a lock of the C library as long as it runs.  A thread that waits for
\* it gets it, unless a signal has come inside a call: the handler then waits for
\* its own thread, which never gives the lock back.  The lock is left out but for
\* that: a step whose code traces, or calls localtime_r, is taken when CanTrace.
CanTrace == lock = "none"

\* A thread executes its own code: the process lives and no handler is on it.
Executes(t) == ended = "no" /\ frame[t] = "idle"
-----------------------------------------------------------------------------
(* The main function.                                                      *)

\* Mutated Create: every outer is made, whatever the output mode.
CreateAll ==
  /\ Executes("main") /\ main = "create"
  /\ main' = "daemonize"
  /\ usable' = Outer
  /\ UNCHANGED <<config, turn, status, inputer, pidFile, timer, lock, unsaved,
                 frame, sigs, ended>>

\* PortStat::Create makes the outers and opens their logs.
Create ==
  /\ Executes("main") /\ main = "create"
  /\ main' = "daemonize"
  /\ usable' = outers
  /\ UNCHANGED <<config, turn, status, inputer, pidFile, timer, lock, unsaved,
                 frame, sigs, ended>>

\* No adapter, no capture, or no log of GatherOuter or RawOuter: main returns.
CreateFails ==
  /\ Executes("main") /\ main = "create"
  /\ ended' = "failed"
  /\ UNCHANGED <<config, main, turn, status, usable, inputer, pidFile, timer,
                 lock, unsaved, frame, sigs>>

\* PortStat::Daemonize goes on in the child (or, when fork fails, in the
\* foreground); only then main stores the pid.
Daemonize ==
  /\ Executes("main") /\ main = "daemonize"
  /\ main' = IF daemon THEN "store" ELSE "install"
  /\ UNCHANGED <<config, turn, status, usable, inputer, pidFile, timer, lock,
                 unsaved, frame, sigs, ended>>

\* Mutated OpenPid: the file is opened to append.
OpenAppend ==
  /\ Executes("main") /\ main = "store"
  /\ main' = "writePid"
  /\ UNCHANGED <<config, turn, status, usable, inputer, pidFile, timer, lock,
                 unsaved, frame, sigs, ended>>

\* fopen(.., "w") makes the file, or empties it.
OpenPid ==
  /\ Executes("main") /\ main = "store"
  /\ main' = "writePid"
  /\ pidFile' = "empty"
  /\ UNCHANGED <<config, turn, status, usable, inputer, timer, lock, unsaved,
                 frame, sigs, ended>>

\* The error is traced, and that is all.
OpenFails ==
  /\ Executes("main") /\ main = "store" /\ "unstored" \in Allowed
  /\ main' = "install"
  /\ mishaps' = mishaps \cup {"unstored"}
  /\ UNCHANGED <<config, turn, status, usable, inputer, pidFile, timer, lock,
                 unsaved, frame, called, nested, signals, ended>>

\* fclose writes the pid.
StorePid ==
  /\ Executes("main") /\ main = "writePid"
  /\ main' = "install"
  /\ pidFile' = "stored"
  /\ UNCHANGED <<config, turn, status, usable, inputer, timer, lock, unsaved,
                 frame, sigs, ended>>

\* The working directory turns out not to be writable: exit, pid file and all.
Unwritable ==
  /\ Executes("main") /\ main = "install"
  /\ ended' = "failed"
  /\ UNCHANGED <<config, main, turn, status, usable, inputer, pidFile, timer,
                 lock, unsaved, frame, sigs>>

\* signal(): until here a SIGTERM or SIGINT has its default effect.
Install ==
  /\ Executes("main") /\ main = "install"
  /\ main' = "run"
  /\ UNCHANGED <<config, turn, status, usable, inputer, pidFile, timer, lock,
                 unsaved, frame, sigs, ended>>

\* One turn of the loop in PortStat::Run.
RunOuter ==
  /\ Executes("main") /\ main = "run" /\ turn # "return"
  /\ IF turn \in outers
     THEN status' = [status EXCEPT ![turn] = "run"]
     ELSE UNCHANGED status
  /\ IF turn = "gather" /\ turn \in outers
     THEN main' = "thread" /\ UNCHANGED turn
     ELSE turn' = Following[turn] /\ UNCHANGED main
  /\ UNCHANGED <<config, usable, inputer, pidFile, timer, lock, unsaved, frame,
                 sigs, ended>>

\* GatherOuter::Run's trace and pthread_create, after it has set the status.
StartThread ==
  /\ Executes("main") /\ main = "thread" /\ CanTrace
  /\ main' = "run" /\ turn' = Following[turn]
  /\ timer' = "ready"
  /\ UNCHANGED <<config, status, usable, inputer, pidFile, lock, unsaved, frame,
                 sigs, ended>>

\* pthread_create fails: PortStat::Run ignores what GatherOuter::Run returns.
NoThread ==
  /\ Executes("main") /\ main = "thread" /\ CanTrace /\ "noThread" \in Allowed
  /\ main' = "run" /\ turn' = Following[turn]
  /\ mishaps' = mishaps \cup {"noThread"}
  /\ UNCHANGED <<config, status, usable, inputer, pidFile, timer, lock, unsaved,
                 frame, called, nested, signals, ended>>

\* PcapInput::StartPolling traces and sets its status without a look at the old one.
StartPolling ==
  /\ Executes("main") /\ main = "run" /\ turn = "return" /\ CanTrace
  /\ main' = "poll"
  /\ inputer' = "run"
  /\ UNCHANGED <<config, turn, status, usable, pidFile, timer, lock, unsaved,
                 frame, sigs, ended>>

\* pcap_next has a packet and PcapInput gives it to PortStat::Write.
Arrive ==
  /\ Executes("main") /\ main = "poll" /\ inputer = "run"
  /\ main' = "write" /\ turn' = "file"
  /\ UNCHANGED <<config, status, usable, inputer, pidFile, timer, lock, unsaved,
                 frame, sigs, ended>>

\* Write of the next outer.  FileWriter and RawOuter call localtime_r; a write
\* through a null handle ends the process.
WriteOuter ==
  /\ Executes("main") /\ main = "write" /\ turn \in outers
  /\ turn # "gather" => CanTrace
  /\ \/ /\ turn \notin usable
        /\ ended' = "crashed" /\ UNCHANGED <<unsaved, turn>>
     \/ /\ turn \in usable
        /\ unsaved' = (unsaved \/ turn = "gather")
        /\ turn' = Following[turn] /\ UNCHANGED ended
  /\ UNCHANGED <<config, main, status, usable, inputer, pidFile, timer, lock,
                 frame, sigs>>

\* There is no such outer, or it does not take the packet.
SkipOuter ==
  /\ Executes("main") /\ main = "write" /\ turn # "return"
  /\ turn' = Following[turn]
  /\ UNCHANGED <<config, main, status, usable, inputer, pidFile, timer, lock,
                 unsaved, frame, sigs, ended>>

\* The packet has been given to every outer.
Written ==
  /\ Executes("main") /\ main = "write" /\ turn = "return"
  /\ main' = "poll"
  /\ UNCHANGED <<config, turn, status, usable, inputer, pidFile, timer, lock,
                 unsaved, frame, sigs, ended>>

\* The polling loop finds itself signed off; main traces that, and calls
\* PortStat::Close.
LeaveLoop ==
  /\ Executes("main") /\ main = "poll" /\ inputer # "run"
  /\ main' = "close"
  /\ inputer' = "down"
  /\ frame' = [frame EXCEPT !["body"] = "check"]
  /\ UNCHANGED <<config, turn, status, usable, pidFile, timer, lock, unsaved,
                 sigs, ended>>

\* main deletes PortStat, with the inputer and the outers.
Delete ==
  /\ Executes("main") /\ main = "close" /\ frame["body"] = "return" /\ CanTrace
  /\ main' = "deleted"
  /\ frame' = [frame EXCEPT !["body"] = "idle"]
  /\ UNCHANGED <<config, turn, status, usable, inputer, pidFile, timer, lock,
                 unsaved, sigs, ended>>

\* Prefs::~Prefs closes the trace log and frees what gPrefs still points to.
FreePrefs ==
  /\ Executes("main") /\ main = "deleted"
  /\ main' = "freeing"
  /\ UNCHANGED <<config, turn, status, usable, inputer, pidFile, timer, lock,
                 unsaved, frame, sigs, ended>>

\* gPrefs = 0: from here on a trace leaves the log alone.
ClearPrefs ==
  /\ Executes("main") /\ main = "freeing"
  /\ main' = "finish"
  /\ UNCHANGED <<config, turn, status, usable, inputer, pidFile, timer, lock,
                 unsaved, frame, sigs, ended>>

Return ==
  /\ Executes("main") /\ main = "finish" /\ CanTrace
  /\ ended' = "returned"
  /\ UNCHANGED <<config, main, turn, status, usable, inputer, pidFile, timer,
                 lock, unsaved, frame, sigs>>

Main ==
  \/ Create \/ CreateFails \/ Daemonize \/ OpenPid \/ OpenFails \/ StorePid
  \/ Unwritable \/ Install \/ RunOuter \/ StartThread \/ NoThread
  \/ StartPolling \/ WriteOuter \/ SkipOuter \/ Written \/ LeaveLoop \/ Delete
  \/ FreePrefs \/ ClearPrefs \/ Return
-----------------------------------------------------------------------------
(* PortStat::Close, in one of its frames.                                  *)

\* A frame's thread executes it: main's own call waits for a handler on main.
Active(f) == ended = "no" /\ (f = "body" => frame["main"] = "idle")

\* PcapInput::Shutdown.
Shutdown(s) == IF s = "run" THEN "signed" ELSE s

\* Mutated CloseCheck: Close goes on to the outers in any case; Close returns
\* without a word to the inputer.
CloseCheckAll(f) ==
  /\ Active(f) /\ frame[f] = "check" /\ (f = "body" => CanTrace)
  /\ inputer' = Shutdown(inputer)
  /\ frame' = [frame EXCEPT ![f] = "file"]
  /\ UNCHANGED <<config, main, turn, status, usable, pidFile, timer, lock,
                 unsaved, sigs, ended>>
CloseCheckUnsigned(f) ==
  /\ Active(f) /\ frame[f] = "check" /\ (f = "body" => CanTrace)
  /\ frame' = [frame EXCEPT ![f] = IF inputer = "run" THEN "signed" ELSE "file"]
  /\ UNCHANGED <<config, main, turn, status, usable, inputer, pidFile, timer,
                 lock, unsaved, sigs, ended>>

\* While the inputer runs Close only signs it off, and the outers are left to
\* main's own call, before which main traces twice.
CloseCheck(f) ==
  /\ Active(f) /\ frame[f] = "check" /\ (f = "body" => CanTrace)
  /\ inputer' = Shutdown(inputer)
  /\ frame' = [frame EXCEPT ![f] = IF inputer = "run" THEN "signed" ELSE "file"]
  /\ UNCHANGED <<config, main, turn, status, usable, pidFile, timer, lock,
                 unsaved, sigs, ended>>

\* printStat, and the trace of the inputer's status.
CloseSigned(f) ==
  /\ Active(f) /\ frame[f] = "signed" /\ CanTrace
  /\ frame' = [frame EXCEPT ![f] = "return"]
  /\ UNCHANGED <<config, main, turn, status, usable, inputer, pidFile, timer,
                 lock, unsaved, sigs, ended>>

\* Where Close of an outer that runs goes on.
Closing == [file |-> "fclose", gather |-> "sign", raw |-> "rclose"]

\* Close of one outer: FileWriter and RawOuter set their status down first.
CloseOuter(f) ==
  LET o == frame[f] IN
  /\ Active(f) /\ o \in Outer
  /\ frame' = [frame EXCEPT ![f] = IF status[o] = "run" THEN Closing[o] ELSE Following[o]]
  /\ status' = IF status[o] = "run" /\ o # "gather"
               THEN [status EXCEPT ![o] = "down"] ELSE status
  /\ UNCHANGED <<config, main, turn, usable, inputer, pidFile, timer, lock,
                 unsaved, sigs, ended>>

\* They trace, and the handle goes.  RawOuter::Close closes only a log file,
\* FileWriter::Close forgets stdout too.
CloseFile(f) ==
  /\ Active(f) /\ frame[f] = "fclose" /\ CanTrace
  /\ usable' = usable \ {"file"}
  /\ frame' = [frame EXCEPT ![f] = Following["file"]]
  /\ UNCHANGED <<config, main, turn, status, inputer, pidFile, timer, lock,
                 unsaved, sigs, ended>>
CloseRaw(f) ==
  /\ Active(f) /\ frame[f] = "rclose" /\ CanTrace
  /\ usable' = IF daemon THEN usable \ {"raw"} ELSE usable
  /\ frame' = [frame EXCEPT ![f] = Following["raw"]]
  /\ UNCHANGED <<config, main, turn, status, inputer, pidFile, timer, lock,
                 unsaved, sigs, ended>>

\* GatherOuter::Close traces and signs its thread off.
SignOff(f) ==
  /\ Active(f) /\ frame[f] = "sign" /\ CanTrace
  /\ status' = [status EXCEPT !["gather"] = "signed"]
  /\ frame' = [frame EXCEPT ![f] = "join"]
  /\ UNCHANGED <<config, main, turn, usable, inputer, pidFile, timer, lock,
                 unsaved, sigs, ended>>

\* Mutated CloseJoin: the thread is not waited for.
CloseJoinNot(f) ==
  /\ Active(f) /\ frame[f] = "join"
  /\ frame' = [frame EXCEPT ![f] = "raw"]
  /\ UNCHANGED <<config, main, turn, status, usable, inputer, pidFile, timer,
                 lock, unsaved, sigs, ended>>

\* pthread_join: what it does with a thread that was never started is undefined,
\* and a thread that joins itself is told so at once.
CloseJoin(f) ==
  /\ Active(f) /\ frame[f] = "join"
  /\ \/ /\ timer = "none"
        /\ ended' = "crashed" /\ UNCHANGED frame
     \/ /\ timer \in {"none", "over"} \/ f = "timer"
        /\ frame' = [frame EXCEPT ![f] = "raw"] /\ UNCHANGED ended
  /\ UNCHANGED <<config, main, turn, status, usable, inputer, pidFile, timer,
                 lock, unsaved, sigs>>

CloseStep(f) ==
  \/ CloseCheck(f) \/ CloseSigned(f) \/ CloseOuter(f) \/ CloseFile(f) \/ CloseRaw(f)
  \/ SignOff(f) \/ CloseJoin(f)

Close == \E f \in Frame : CloseStep(f)
-----------------------------------------------------------------------------
(* GatherOuter's thread.                                                   *)

\* Check prints the saved line, if any; what came in since stays unsaved.
PrintSaved ==
  /\ Executes("timer") /\ timer = "ready" /\ CanTrace
  /\ status["gather"] = "run" /\ unsaved
  /\ unsaved' \in BOOLEAN
  /\ UNCHANGED <<config, main, turn, status, usable, inputer, pidFile, timer,
                 lock, frame, sigs, ended>>

\* Check finds itself signed off.
Drain ==
  /\ Executes("timer") /\ timer = "ready"
  /\ status["gather"] # "run"
  /\ timer' = "draining"
  /\ UNCHANGED <<config, main, turn, status, usable, inputer, pidFile, lock,
                 unsaved, frame, sigs, ended>>

\* It prints what is left, and is down.
Drained ==
  /\ Executes("timer") /\ timer = "draining" /\ CanTrace
  /\ timer' = "ending"
  /\ unsaved' = FALSE
  /\ status' = [status EXCEPT !["gather"] = "down"]
  /\ usable' = usable \ {"gather"}
  /\ UNCHANGED <<config, main, turn, inputer, pidFile, lock, frame, sigs, ended>>

\* thread_proc traces its end.
ThreadEnds ==
  /\ Executes("timer") /\ timer = "ending" /\ CanTrace
  /\ timer' = "over"
  /\ UNCHANGED <<config, main, turn, status, usable, inputer, pidFile, lock,
                 unsaved, frame, sigs, ended>>

Timer == PrintSaved \/ Drain \/ Drained \/ ThreadEnds
-----------------------------------------------------------------------------
(* Signals.                                                                *)

\* Where main is before it has called signal().
BeforeSignal == {"create", "daemonize", "store", "writePid", "install"}

Exists(t) == t = "timer" => timer \in {"ready", "draining", "ending"}

\* The code of thread t calls localtime_r before its next step is done: the handler,
\* main's own code, or the timer thread, which makes lines, prints and traces.
Calls(t) ==
  \/ frame[t] \in {"enter", "mark", "signed", "fclose", "sign", "rclose", "left"}
  \/ /\ t = "main" /\ frame[t] = "idle"
     /\ \/ main \in {"thread", "finish"} \/ (main = "run" /\ turn = "return")
        \/ main = "write" /\ turn \in outers \ {"gather"}
        \/ frame["body"] \in {"check", "fclose", "sign", "rclose", "return"}
  \/ t = "timer" /\ frame[t] = "idle" /\ Exists(t)

\* Which mishap it is when thread t takes a signal now, inside localtime_r or not.
MishapOf(t, inside) ==
  (IF inputer = "new" THEN {"early"} ELSE {})
    \cup (IF inside THEN {"inCall"} ELSE {})
    \cup (IF main = "freeing" THEN {"late"} ELSE {})
    \cup (IF frame[t] = "mark" /\ ~called /\ ~inside THEN {"race"} ELSE {})

\* The kernel gives a signal to a thread, on which it starts the handler.  On top
\* of another handler it is followed only where that matters: inside localtime_r,
\* where it waits for ever; once the flag is set, when it leaves at once; and while
\* the other is about to set it.
Signal(t, inside) ==
  /\ ended = "no" /\ Exists(t) /\ main \notin BeforeSignal
  /\ inside => Calls(t) /\ CanTrace
  /\ signals < MaxSignals /\ MishapOf(t, inside) \subseteq Allowed
  /\ signals' = signals + 1
  /\ mishaps' = mishaps \cup MishapOf(t, inside)
  /\ lock' = IF inside THEN t ELSE lock
  /\ \/ /\ frame[t] = "idle"
        /\ frame' = [frame EXCEPT ![t] = "enter"]
        /\ UNCHANGED <<nested, ended>>
     \/ /\ frame[t] # "idle" /\ inside
        /\ UNCHANGED <<frame, nested, ended>>
     \/ /\ frame[t] = "mark" /\ ~called /\ ~inside
        /\ frame' = [frame EXCEPT ![t] = "enter"]
        /\ nested' = nested \cup {t}
        /\ UNCHANGED ended
     \/ /\ frame[t] # "idle" /\ called /\ ~inside /\ CanTrace
        /\ ended' = "exited"
        /\ UNCHANGED <<frame, nested>>
  /\ UNCHANGED <<config, main, turn, status, usable, inputer, pidFile, timer,
                 unsaved, called>>

\* Before main has called signal() the default action ends the process.
DefaultAction ==
  /\ ended = "no" /\ main \in BeforeSignal
  /\ signals < MaxSignals
  /\ signals' = signals + 1
  /\ ended' = "killed"
  /\ UNCHANGED <<config, main, turn, status, usable, inputer, pidFile, timer,
                 lock, unsaved, frame, called, nested, mishaps>>

\* Another handler is between its test of the flag and its setting of it.
Races(t) == t \in nested \/ \E u \in Thread \ {t} : frame[u] = "mark"

\* sigproc traces (the line goes to the trace log, which may just have been
\* closed) and tests its flag: a second signal leaves at once.
Enter(t) ==
  /\ ended = "no" /\ frame[t] = "enter" /\ CanTrace
  /\ \/ /\ called
        /\ ended' = "exited"
        /\ UNCHANGED <<frame, mishaps>>
     \/ /\ main = "freeing"
        /\ ended' = "crashed"
        /\ UNCHANGED <<frame, mishaps>>
     \/ /\ ~called /\ (Races(t) => "race" \in Allowed)
        /\ frame' = [frame EXCEPT ![t] = "mark"]
        /\ mishaps' = IF Races(t) THEN mishaps \cup {"race"} ELSE mishaps
        /\ UNCHANGED ended
  /\ UNCHANGED <<config, main, turn, status, usable, inputer, pidFile, timer,
                 lock, unsaved, called, nested, signals>>

\* It traces once more, sets the flag and calls PortStat::Close.
Mark(t) ==
  /\ ended = "no" /\ frame[t] = "mark" /\ CanTrace
  /\ called' = TRUE
  /\ frame' = [frame EXCEPT ![t] = "check"]
  /\ UNCHANGED <<config, main, turn, status, usable, inputer, pidFile, timer,
                 lock, unsaved, nested, signals, mishaps, ended>>

\* Mutated Leave: the pid file is forgotten.
LeavePid(t) ==
  /\ ended = "no" /\ frame[t] = "return"
  /\ frame' = [frame EXCEPT ![t] = "left"]
  /\ UNCHANGED <<config, main, turn, status, usable, inputer, pidFile, timer,
                 lock, unsaved, sigs, ended>>

\* sigproc's own call of Close is back: it removes the pid file.
Leave(t) ==
  /\ ended = "no" /\ frame[t] = "return"
  /\ pidFile' = IF daemon THEN "unlinked" ELSE pidFile
  /\ frame' = [frame EXCEPT ![t] = "left"]
  /\ UNCHANGED <<config, main, turn, status, usable, inputer, timer, lock,
                 unsaved, sigs, ended>>

\* It traces that and returns, to the handler it interrupted if there is one.
Back(t) ==
  /\ ended = "no" /\ frame[t] = "left" /\ CanTrace
  /\ frame' = [frame EXCEPT ![t] = IF t \in nested THEN "mark" ELSE "idle"]
  /\ nested' = nested \ {t}
  /\ UNCHANGED <<config, main, turn, status, usable, inputer, pidFile, timer,
                 lock, unsaved, called, signals, mishaps, ended>>

Handler == \E t \in Thread : Enter(t) \/ Mark(t) \/ Leave(t) \/ Back(t)

\* What pstat and gPrefs pointed to is gone: a handler past its first trace, or the
\* timer thread, may crash, and if it does not it goes on as before.
UseDeleted ==
  /\ ended = "no" /\ main \in {"deleted", "freeing", "finish"}
  /\ \/ \E t \in Thread : frame[t] \notin {"idle", "enter"}
     \/ timer \notin {"none", "over"}
  /\ ended' = "crashed"
  /\ UNCHANGED <<config, main, turn, status, usable, inputer, pidFile, timer,
                 lock, unsaved, frame, sigs>>

\* The process has ended, or a thread of it waits for its own lock.
Done == (ended # "no" \/ ~CanTrace) /\ UNCHANGED vars

Next ==
  \/ Main \/ Arrive \/ Close \/ Timer \/ Handler \/ UseDeleted
  \/ \E t \in Thread, inside \in BOOLEAN : Signal(t, inside)
  \/ DefaultAction
  \/ Done

Spec == Init /\ [][Next]_vars

\* Both threads are scheduled, and a call of pcap_next returns (it has a read
\* timeout).  Packets need not arrive and signals need not be sent.
FairSpec ==
  /\ Spec
  /\ WF_vars(Main) /\ WF_vars(Timer)
  /\ \A f \in Frame : WF_vars(CloseStep(f))
  /\ \A t \in Thread : WF_vars(Enter(t) \/ Mark(t) \/ Leave(t) \/ Back(t))
-----------------------------------------------------------------------------
\* Where the main function, a frame of Close or a handler, and the timer thread
\* can be, what can have become of the pid file and of the process.
MainPlace  == BeforeSignal \cup {"run", "thread", "poll", "write", "close", "deleted",
                                 "freeing", "finish"}
FramePlace == Outer \cup {"idle", "enter", "mark", "check", "signed", "fclose", "sign",
                          "join", "rclose", "return", "left"}
TimerPlace == {"none", "ready", "draining", "ending", "over"}
PidFileState == {"none", "empty", "stored", "unlinked"}
End == {"no", "failed", "killed", "returned", "exited", "crashed"}

TypeOK ==
  /\ outers \in OutputModes /\ daemon \in BOOLEAN
  /\ main \in MainPlace
  /\ turn \in Outer \cup {"return"}
  /\ status \in [Outer -> Status]
  /\ usable \subseteq outers
  /\ inputer \in Status
  /\ pidFile \in PidFileState /\ unsaved \in BOOLEAN /\ called \in BOOLEAN
  /\ timer \in TimerPlace
  /\ lock \in Thread \cup {"none"}
  /\ frame \in [Frame -> FramePlace]
  /\ nested \subseteq Thread
  /\ signals \in 0 .. MaxSignals
  /\ mishaps \subseteq Allowed
  /\ ended \in End

\* The mishaps after which the shutdown is not safe.
Unsafe == mishaps \cap {"early", "race", "late", "noThread"}

\* Whatever thread takes a signal, and whatever it interrupts, no outer is
\* written to after its handle is gone, no thread is joined that was never
\* started and no trace goes to a closed log: a crash takes one of the mishaps.
NeverCrashes == ended = "crashed" => Unsafe # {}

\* PortStat, its outers and the preferences are deleted only when no other
\* thread and no handler can reach them any more.
NoUseAfterDelete ==
  main \in {"deleted", "freeing", "finish"} /\ Unsafe \subseteq {"late", "noThread"} =>
    /\ timer \in {"none", "over"}
    /\ \A t \in Thread : frame[t] \in {"idle", "enter"}

\* A process that returns from main has printed all it counted, has closed every
\* log and has removed its pid file, though main and the handler share the work.
OrderlyEnd ==
  ended = "returned" /\ Unsafe \subseteq {"late"} =>
    /\ ~unsaved /\ pidFile \notin {"empty", "stored"}
    /\ \A o \in outers : status[o] = "down"
    /\ usable = {} \/ (usable = {"raw"} /\ ~daemon)

\* Without a race of two handlers the handler leaves the outers to main, whatever
\* the mode: sigproc only signs the capture off (PortStat::Close).
HandlerOnlySigns ==
  Unsafe \subseteq {"late", "noThread"} =>
    \A t \in Thread : frame[t] \notin Outer \cup {"fclose", "sign", "join", "rclose"}

\* A signal ends the process ("process %d killed!", Prefs::killDaemon).
Terminates == signals > 0 ~> ended # "no"

\* A signal ends the process, by way of main's return, of exit or of a crash,
\* unless it comes too early or inside localtime_r; neither a race nor a missing
\* thread makes the process wait for ever.
TerminatesUnlessStuck ==
  signals > 0 ~> ended # "no" \/ mishaps \cap {"early", "inCall"} # {}
-----------------------------------------------------------------------------
(* A daemon is what module PidFile takes it for.                           *)

Forking == [create |-> "free", daemonize |-> "free", store |-> "store",
            writePid |-> "write", install |-> "check"]

Process ==
  IF ~daemon \/ ended # "no" THEN "free"
  ELSE IF main \in BeforeSignal THEN Forking[main]
  ELSE IF signals = 0           THEN (IF inputer = "new" THEN "start" ELSE "up")
  ELSE IF "early" \in mishaps   THEN (IF pidFile = "unlinked" THEN "deaf" ELSE "early")
  ELSE                               IF pidFile = "unlinked" THEN "leaving" ELSE "closing"

Writers == IF Process = "write" THEN {"self"} ELSE {}

File == IF pidFile = "stored" THEN "self" ELSE IF pidFile = "empty" THEN "empty" ELSE "absent"

\* It leaves its file behind, or would have if it had stored it.
Orphans == ended # "no" /\ (pidFile = "stored" \/ (pidFile = "none" /\ "unstored" \in mishaps))

\* One of its threads is stuck in localtime_r.
Hung == IF daemon /\ ended = "no" /\ "inCall" \in mishaps THEN {"self"} ELSE {}

PidMishaps == (IF daemon THEN mishaps \cap {"early", "inCall", "unstored"} ELSE {})
                \cup (IF Orphans THEN {"orphan"} ELSE {})

Pids == INSTANCE PidFile WITH
  Pid     <- {"self"},
  Killer  <- {},
  Allowed <- {"early", "inCall", "unstored", "orphan"},
  proc    <- [p \in {"self"} |-> Process],
  file    <- File,
  writers <- Writers,
  hung    <- Hung,
  killer  <- [c \in {} |-> "idle"],
  harmed  <- FALSE,
  mishaps <- PidMishaps

\* With all its outers, threads and signals, a daemon treats its pid file as one
\* of module PidFile does: it stores it once, before it can be signalled, only the
\* handler of a first signal removes it, and only an end without that handler
\* leaves it behind (main, sigproc).
PidFileSpec == Pids!Spec
-----------------------------------------------------------------------------
(* The invariant the proofs are about.                                     *)

Starting == main \in BeforeSignal \cup {"run", "thread"}
Deleted  == main \in {"deleted", "freeing", "finish"}

\* The status of the inputer follows the main function.
InputerInv ==
  /\ Starting <=> inputer = "new"
  /\ main \in {"poll", "write"} => inputer \in {"run", "signed"}
  /\ main = "close" \/ Deleted => inputer = "down"

\* Where main's own call of Close can be, and the lock when no signal was in a call.
BodyInv ==
  /\ frame["body"] \notin {"enter", "mark", "signed", "left"}
  /\ frame["body"] # "idle" <=> main = "close"
  /\ main = "thread" => turn = "gather" /\ turn \in outers
  /\ lock # "none" => "inCall" \in mishaps

PastFlag == {"mark", "check", "signed", "return", "left"}

\* One handler at a time gets past the flag.
HandlerInv ==
  /\ nested = {}
  /\ \A t \in Thread : frame[t] \in {"idle", "enter"} \cup PastFlag
  /\ \A t, u \in Thread : frame[t] \in PastFlag /\ frame[u] \in PastFlag => t = u

\* The flag and the inputer follow that handler.
FlagInv ==
  /\ inputer \in {"signed", "down"} => called
  /\ \A t \in Thread :
       /\ frame[t] # "idle" => inputer # "new"
       /\ frame[t] = "mark" => ~called /\ inputer = "run"
       /\ frame[t] = "check" => called /\ inputer = "run"
       /\ frame[t] \in {"signed", "return", "left"} => called
  /\ Deleted => frame["main"] \in {"idle", "enter"}
  /\ main = "freeing" /\ frame["main"] # "idle" => "late" \in mishaps

\* Until the inputer has been signed off and the handler is back, the pid file
\* may exist.
PidInv ==
  inputer \in {"signed", "down"} /\ pidFile \in {"empty", "stored"} =>
    \E t \in Thread : frame[t] \in {"signed", "return"}

Before == [file |-> {}, fclose |-> {"file"}, gather |-> {"file"}, sign |-> {"file"},
           join |-> {"file"}, raw |-> {"file", "gather"}, rclose |-> Outer,
           return |-> Outer]

\* Which outers run: Run starts them in order, Close closes them in order.
StatusInv ==
  /\ \A o \in Outer \ outers : status[o] = "new"
  /\ main \in BeforeSignal =>
       turn = "file" /\ \A o \in Outer : status[o] = "new"
  /\ main = "run" => \A o \in outers :
       status[o] = IF o \in Before[turn] THEN "run" ELSE "new"
  /\ main = "thread" => \A o \in outers :
       status[o] = IF o = "raw" THEN "new" ELSE "run"
  /\ main \in {"poll", "write"} => \A o \in outers : status[o] = "run"
  /\ main = "close" /\ frame["body"] = "check" => \A o \in outers : status[o] = "run"
  /\ main = "close" /\ frame["body"] # "check" => \A o \in outers :
       IF o \in Before[frame["body"]] THEN status[o] \in {"signed", "down"}
       ELSE IF frame["body"] = "join" /\ o = "gather" THEN status[o] \in {"signed", "down"}
       ELSE status[o] = "run"
  /\ frame["body"] \in {"sign", "join"} => "gather" \in outers
  /\ Deleted => \A o \in outers : status[o] \in {"signed", "down"}
  /\ status["file"] # "signed" /\ status["raw"] # "signed"

\* An outer has its handle from Create until it is down, and the trace of that made.
UsableInv ==
  /\ main \in {"poll", "write"} => usable = outers
  /\ Starting /\ main # "create" => usable = outers
  /\ \A o \in usable : status[o] = "down" =>
       \/ o = "raw" /\ ~daemon
       \/ o = "file" /\ frame["body"] = "fclose"
       \/ o = "raw" /\ frame["body"] = "rclose"

\* GatherOuter's thread, its status and what it still has to print.
TimerInv ==
  /\ timer # "none" => "gather" \in outers
  /\ timer = "none" /\ status["gather"] # "new" /\ main # "thread" =>
       "noThread" \in mishaps
  /\ main = "thread" => timer = "none"
  /\ status["gather"] = "new" => timer = "none"
  /\ status["gather"] = "run" => timer \in {"none", "ready"}
  /\ status["gather"] = "down" <=> timer \in {"ending", "over"}
  /\ timer \in {"none", "over"} => frame["timer"] = "idle"
  /\ frame["body"] \in {"raw", "rclose", "return"} \/ Deleted => timer \in {"none", "over"}
  /\ unsaved => "gather" \in outers /\ timer \notin {"ending", "over"}

\* Run makes the outers' threads in order, and the timer thread once.
ThreadInv ==
  /\ main \in BeforeSignal => turn = "file"
  /\ main \in BeforeSignal \cup {"thread"} \/ (main = "run" /\ turn \in {"file", "gather"}) =>
       timer = "none"

\* The pid file follows main, and then the handler.
StoredInv ==
  /\ ~daemon => /\ pidFile = "none" /\ "unstored" \notin mishaps
                /\ main \notin {"store", "writePid"}
  /\ daemon =>
       /\ main \in {"create", "daemonize", "store"} <=>
            pidFile = "none" /\ "unstored" \notin mishaps
       /\ main = "writePid" <=> pidFile = "empty"
       /\ "unstored" \in mishaps => pidFile \in {"none", "unlinked"}

\* The first signal, and whether it came before the capture polls.
FirstSignalInv ==
  /\ mishaps \cap {"early", "inCall"} # {} \/ pidFile = "unlinked" => signals > 0
  /\ \A t \in Thread : frame[t] # "idle" => signals > 0
  /\ ended = "no" /\ signals > 0 =>
       main \notin BeforeSignal /\ (inputer = "new" => "early" \in mishaps)

\* Without a signal that comes too early and without a race of two handlers.
Calm == mishaps \cap {"early", "race"} = {}

IInv ==
  /\ TypeOK /\ InputerInv /\ BodyInv /\ ThreadInv /\ StoredInv /\ FirstSignalInv
  /\ Calm => HandlerInv /\ FlagInv /\ PidInv /\ StatusInv /\ UsableInv /\ TimerInv
  /\ NeverCrashes /\ OrderlyEnd
=============================================================================
