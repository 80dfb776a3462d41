----------------------------- MODULE GatherOuter -----------------------------
(***************************************************************************)
(* GatherOuter (src/src/Output.cpp) adds up the bytes of every packet per  *)
(* minute.  Two threads share its line objects and there is no lock:       *)
(*                                                                         *)
(*   - the capture thread (main) runs Write: it reads the pointer mData    *)
(*     once and then updates rows of that line;                            *)
(*   - the timer thread runs Check once per second: when the minute is     *)
(*     over it moves the line to mSaveData, puts a new line in mData, and  *)
(*     Grace calls of Check later it prints and deletes the saved line.    *)
(*                                                                         *)
(* The first signal may be handled on the timer thread, whose sleep(1) it  *)
(* cuts short: one turn of the Grace is then over at once.                 *)
(*                                                                         *)
(* What keeps the two apart is time alone.  The module has a clock in      *)
(* seconds and two bounds on the scheduler, MaxHold and MaxStall; the      *)
(* assumption TimingAssumption says how small they must be for the design  *)
(* to be right, and the theorems of GatherOuterProofs show that it is      *)
(* enough.                                                                 *)
(*                                                                         *)
(* A line is named by its mStart.  The names are distinct because a new    *)
(* line is made only when the clock has reached the mStart of the old one  *)
(* and gets an mStart after the clock.  The rows of a line (CGatherLine)   *)
(* are kept as four totals: the rows of remote peers and the rows of the   *)
(* local address, each with bytes in and bytes out.                        *)
(***************************************************************************)
EXTENDS Integers

CONSTANTS
  Period,    \* seconds per line: CONST_MAX_ACTIVITY_DURATION of GatherLine.cpp
  Grace,     \* mSaveSnap must exceed this before a saved line is printed
  MaxStall,  \* the timer thread is served at least every MaxStall seconds
  MaxHold,   \* a call of Write is over after at most MaxHold seconds
  Lengths,   \* payload lengths of packets
  MaxTime,   \* bound: the capture is stopped no later than this
  MaxBytes   \* bound: no total grows beyond this

ASSUME ConstantsAssumption ==
  /\ Period \in Nat \ {0}
  /\ Grace \in Nat \ {0}
  /\ MaxStall \in Nat \ {0}
  /\ MaxHold \in Nat
  /\ Lengths \subseteq Nat
  /\ MaxTime \in Nat
  /\ MaxBytes \in Nat

ASSUME TimingAssumption ==
  /\ MaxHold + 1 < Grace
  /\ (Grace + 1) * MaxStall <= Period

VARIABLES
  clock,      \* time(NULL)
  mStatus,    \* NetOutputer::mStatus of the outer
  mData,      \* the line being filled, or NULL
  mSaveData,  \* the line waiting to be printed, or NULL
  mSaveSnap,  \* calls of Check since the line was saved
  rows,       \* the line objects on the heap, with their totals
  main,       \* where the main thread is
  p,          \* Write: the local copy of mData
  writing,    \* Write: what the next update adds to, or "idle"
  fromLocal,  \* Write: the packet was sent by the local address
  length,     \* Write: the payload length
  since,      \* Write: when p was read
  timer,      \* where the timer thread is
  lastCheck,  \* when Check last ran (or the line was created)
  woken,      \* a signal has cut a sleep of the timer thread short
  logged,     \* totals printed so far
  received    \* history: totals the updates have added so far

lineVars  == <<mData, mSaveData, mSaveSnap>>
writeVars == <<p, writing, fromLocal, length, since>>
vars == <<clock, mStatus, lineVars, rows, main, writeVars, timer, lastCheck,
          woken, logged, received>>

NULL == 0

Slot == {"peerIn", "ownIn", "peerOut", "ownOut"}

Zero == [s \in Slot |-> 0]

Plus(a, b) == [s \in Slot |-> a[s] + b[s]]

\* Mutated LineEnd: the start of the minute.
LineEndNotAdded(t) == t - (t % Period)

\* CGatherLine::reset: the end of the minute that t is in.
LineEnd(t) == t - (t % Period) + Period

Line(start) == [l \in {start} |-> Zero]

Without(l) == [k \in DOMAIN rows \ {l} |-> rows[k]]

\* What a pointer's line holds; a null pointer holds nothing.
Held(l) == IF l \in DOMAIN rows THEN rows[l] ELSE Zero

Init ==
  /\ clock \in 0 .. (Period - 1)
  /\ mStatus = "new"
  /\ mData = NULL /\ mSaveData = NULL /\ mSaveSnap = 0
  /\ rows = [l \in {} |-> Zero]
  /\ main = "new"
  /\ p = NULL /\ writing = "idle" /\ fromLocal = FALSE /\ length = 0 /\ since = 0
  /\ timer = "none" /\ lastCheck = 0 /\ woken = FALSE
  /\ logged = Zero /\ received = Zero
-----------------------------------------------------------------------------
(* The main thread.                                                        *)

\* GatherOuter::Create allocates the first line.
Create ==
  /\ main = "new"
  /\ main' = "created"
  /\ mData' = LineEnd(clock)
  /\ rows' = Line(LineEnd(clock))
  /\ lastCheck' = clock
  /\ UNCHANGED <<clock, mStatus, mSaveData, mSaveSnap, writeVars, timer,
                 logged, received, woken>>

\* GatherOuter::Run starts the timer thread, whose first Check does not sleep.
Run ==
  /\ main = "created"
  /\ main' = "polling"
  /\ mStatus' = "run"
  /\ timer' = "ready"
  /\ UNCHANGED <<clock, lineVars, rows, writeVars, lastCheck, woken, logged,
                 received>>

Busy == writing # "idle"

\* GatherOuter::Write up to the read of mData.  A packet shorter than one
\* byte, or neither to nor from the local address, makes no update.
WriteBegin(len, toLocal, out) ==
  /\ main = "polling" /\ ~Busy
  /\ len >= 1 /\ (toLocal \/ out)
  /\ \A s \in Slot : received[s] + len <= MaxBytes
  /\ p' = mData
  /\ writing' = IF toLocal THEN "peerIn" ELSE "peerOut"
  /\ fromLocal' = out
  /\ length' = len
  /\ since' = clock
  /\ UNCHANGED <<clock, mStatus, lineVars, rows, main, timer, lastCheck,
                 woken, logged, received>>

\* The order of the updates of one packet.
After == [peerIn  |-> "ownIn",  ownIn  |-> IF fromLocal THEN "peerOut" ELSE "idle",
          peerOut |-> "ownOut", ownOut |-> "idle"]

\* One p->update(...) of Write.
WriteUpdate ==
  /\ Busy /\ p \in DOMAIN rows
  /\ rows' = [rows EXCEPT ![p][writing] = @ + length]
  /\ received' = [received EXCEPT ![writing] = @ + length]
  /\ writing' = After[writing]
  /\ UNCHANGED <<clock, mStatus, lineVars, main, p, fromLocal, length, since,
                 timer, lastCheck, woken, logged>>

\* Mutated Close: the thread is not told.
CloseUnsigned ==
  /\ main = "polling" /\ ~Busy
  /\ main' = "joining"
  /\ UNCHANGED <<clock, mStatus, lineVars, rows, writeVars, timer, lastCheck,
                 woken, logged, received>>

\* The polling loop is over and PortStat::Close reaches GatherOuter::Close,
\* which signs the thread off and waits for it.
Close ==
  /\ main = "polling" /\ ~Busy
  /\ main' = "joining"
  /\ mStatus' = "signed"
  /\ UNCHANGED <<clock, lineVars, rows, writeVars, timer, lastCheck, woken,
                 logged, received>>

\* Mutated Join: Close does not wait for the thread.
JoinNoWait ==
  /\ main = "joining"
  /\ main' = "done"
  /\ UNCHANGED <<clock, mStatus, lineVars, rows, writeVars, timer, lastCheck,
                 woken, logged, received>>

\* pthread_join returns.
Join ==
  /\ main = "joining" /\ timer = "exit"
  /\ main' = "done"
  /\ UNCHANGED <<clock, mStatus, lineVars, rows, writeVars, timer, lastCheck,
                 woken, logged, received>>
-----------------------------------------------------------------------------
(* The timer thread.                                                       *)

\* thread_proc: sleep(1) between two calls of Check.
Awake == timer = "ready" \/ (timer = "sleep" /\ clock > lastCheck)

\* The first signal is handled on the sleeping timer thread.  The handler signs the
\* inputer off (module PortStat), and sleep(1) returns as soon as it is back; a second
\* signal would end the process.
Interrupt ==
  /\ main = "polling" /\ timer = "sleep" /\ ~woken
  /\ woken' = TRUE
  /\ timer' = "ready"
  /\ UNCHANGED <<clock, mStatus, lineVars, rows, main, writeVars, lastCheck, logged,
                 received>>

\* Mutated MinuteOver: mStart taken for the start of the minute.
MinuteOverLate == mData # NULL /\ clock >= mData + Period

\* CGatherLine::nextLine of the current line.
MinuteOver == mData # NULL /\ clock >= mData

\* Mutated SnapNow: never counted up.
SnapNowStuck == IF MinuteOver THEN 1 ELSE mSaveSnap

\* mSaveData and mSaveSnap as Check's second block finds and counts them.
SavedNow == IF MinuteOver THEN mData ELSE mSaveData
SnapNow  == IF MinuteOver THEN 1
            ELSE IF mSaveData # NULL THEN mSaveSnap + 1 ELSE mSaveSnap

\* Mutated PrintNow: a saved line is printed at once; one Check late.
PrintNowAtOnce == SavedNow # NULL
PrintNowLate   == SavedNow # NULL /\ SnapNow > Grace + 1

PrintNow == SavedNow # NULL /\ SnapNow > Grace

\* GatherOuter::Check while the outer runs: save the line when its minute is
\* over, and print the saved line once it has aged.
Check ==
  /\ Awake /\ mStatus = "run"
  /\ lastCheck' = clock
  /\ mSaveData' = SavedNow
  /\ mSaveSnap' = SnapNow
  /\ mData' = IF MinuteOver THEN LineEnd(clock) ELSE mData
  /\ rows' = IF MinuteOver
             THEN [l \in DOMAIN rows \cup {LineEnd(clock)} |->
                     IF l = LineEnd(clock) THEN Zero ELSE rows[l]]
             ELSE rows
  /\ timer' = IF PrintNow THEN "printed" ELSE "sleep"
  /\ logged' = IF PrintNow THEN Plus(logged, Held(SavedNow)) ELSE logged
  /\ UNCHANGED <<clock, mStatus, main, writeVars, received, woken>>

\* GatherOuter::RemoveLine after its print loop: delete the line.
RemoveLine ==
  /\ timer = "printed"
  /\ rows' = Without(mSaveData)
  /\ mSaveData' = NULL
  /\ timer' = "sleep"
  /\ UNCHANGED <<clock, mStatus, mData, mSaveSnap, main, writeVars, lastCheck,
                 woken, logged, received>>

\* Mutated LastReport: mSaveData is overwritten before its line is printed.
LastReportCurrent == Held(mData)

\* What the last two calls of RemoveLine print.
LastReport == Plus(Held(mSaveData), Held(mData))

\* GatherOuter::Check when the outer has been signed off: print and delete
\* the saved line, then the current one, and end the thread.
CheckDown ==
  /\ Awake /\ mStatus # "run"
  /\ logged' = Plus(logged, LastReport)
  /\ rows' = [l \in DOMAIN rows \ {mSaveData, mData} |-> rows[l]]
  /\ mSaveData' = NULL /\ mData' = NULL
  /\ mStatus' = "down"
  /\ timer' = "exit"
  /\ lastCheck' = clock
  /\ UNCHANGED <<clock, mSaveSnap, main, writeVars, received, woken>>
-----------------------------------------------------------------------------
(* Time passes, but no further than the scheduler bounds allow.            *)
Tick ==
  /\ main \in {"created", "polling", "joining"} /\ timer # "exit"
  /\ clock < MaxTime \/ (main = "joining" /\ clock = MaxTime)
  /\ clock < lastCheck + MaxStall
  /\ Busy => clock < since + MaxHold
  /\ clock' = clock + 1
  /\ UNCHANGED <<mStatus, lineVars, rows, main, writeVars, timer, lastCheck,
                 woken, logged, received>>

Done == main = "done" /\ UNCHANGED vars

Write ==
  \/ \E len \in Lengths, toLocal, out \in BOOLEAN :
       WriteBegin(len, toLocal, out)
  \/ WriteUpdate

Timer == Check \/ RemoveLine \/ CheckDown

Next ==
  \/ Create \/ Run \/ Write \/ Close \/ Join \/ Timer \/ Interrupt \/ Tick \/ Done

Spec == Init /\ [][Next]_vars

\* Time goes on and both threads run on: the timer thread is never blocked, and
\* the main thread's join returns once the timer thread is over.
FairSpec == Spec /\ WF_vars(Join) /\ WF_vars(Timer) /\ WF_vars(Tick)
-----------------------------------------------------------------------------
TypeOK ==
  /\ clock \in Nat
  /\ mStatus \in {"new", "run", "signed", "down"}
  /\ mData \in Nat /\ mSaveData \in Nat /\ mSaveSnap \in Nat
  /\ DOMAIN rows \subseteq Nat \ {NULL}
  /\ rows \in [DOMAIN rows -> [Slot -> Nat]]
  /\ main \in {"new", "created", "polling", "joining", "done"}
  /\ p \in Nat /\ writing \in Slot \cup {"idle"} /\ fromLocal \in BOOLEAN
  /\ length \in Nat /\ since \in Nat
  /\ timer \in {"none", "ready", "sleep", "printed", "exit"}
  /\ lastCheck \in Nat /\ woken \in BOOLEAN
  /\ logged \in [Slot -> Nat] /\ received \in [Slot -> Nat]
-----------------------------------------------------------------------------
(* Safety.                                                                 *)

\* No lock guards a line, so nothing in the code keeps the capture thread from
\* updating a line that the timer thread has printed, or deleted: an update in
\* progress is always on a live line that is not yet printed.
NoStaleWrite ==
  Busy => p \in DOMAIN rows /\ ~(timer = "printed" /\ p = mSaveData)

\* What the lines in memory still have to report.
Pending ==
  Plus(Held(mData), IF timer = "printed" THEN Zero ELSE Held(mSaveData))

\* Every byte an update has added is in the log or in a line that will be
\* printed, once: no line is dropped by the hand-over between the two threads,
\* none is printed twice.
Conservation == received = Plus(logged, Pending)

\* Write books each packet twice, under the peer and under the local address.
\* A packet is never split between two lines of which one is already printed:
\* the log balances even while Write is half way.
BalancedLog ==
  /\ logged["peerIn"] = logged["ownIn"]
  /\ logged["peerOut"] = logged["ownOut"]

\* A packet is booked under the minute it was seen in, or late by less than the
\* time the timer thread may be kept waiting.
PunctualUpdate == Busy => p - Period <= since /\ since < p + MaxStall

\* A saved line is printed before Grace + 1 turns of the timer thread are over.
PrintedInTime ==
  mSaveData # NULL /\ timer # "printed" =>
    clock < mSaveData + (Grace + 1) * MaxStall

\* There is one place for a saved line: Check never puts another line there
\* before the one in it is printed and deleted.
NoLineOverwritten ==
  [][mSaveData # NULL => mSaveData' \in {NULL, mSaveData}]_vars

\* When GatherOuter::Close returns to its caller everything counted has been
\* printed and every line is deleted.
FinalFlush == main = "done" => logged = received /\ DOMAIN rows = {}
-----------------------------------------------------------------------------
(* The invariant the proofs are about: why the timing keeps the threads    *)
(* apart.                                                                  *)

Alive == timer \in {"ready", "sleep", "printed"}

\* The two threads' program counters and the status go together.
Phase ==
  /\ main = "new" => timer = "none" /\ mStatus = "new" /\ mData = NULL
  /\ main = "created" => timer = "none" /\ mStatus = "new" /\ mData # NULL
  /\ main = "polling" => Alive /\ mStatus = "run"
  /\ main = "joining" => (Alive /\ mStatus = "signed") \/ timer = "exit"
  /\ main = "done" => timer = "exit"
  /\ Busy => main = "polling"
  /\ Alive => mData # NULL
  /\ timer = "exit" => mData = NULL
  /\ mSaveData # NULL => timer \in {"sleep", "printed"} \/ (timer = "ready" /\ woken)
  /\ timer = "printed" => mSaveData # NULL

\* Every line on the heap is reachable by exactly one of the two pointers.
Heap ==
  /\ DOMAIN rows = {mData, mSaveData} \ {NULL}
  /\ mSaveData # NULL => mSaveData # mData

\* Check runs often enough to see the end of each minute in time.
Schedule ==
  /\ lastCheck <= clock
  /\ timer # "exit" /\ mData # NULL =>
       /\ clock <= lastCheck + MaxStall
       /\ lastCheck < mData /\ mData <= clock + Period
       /\ \E n \in 0 .. mData : mData = n * Period

\* A saved line ages by one per Check and is gone before the next minute ends.
SavedLine ==
  mSaveData # NULL =>
    /\ mSaveSnap \in 1 .. (Grace + 1)
    /\ timer # "printed" => mSaveSnap <= Grace
    /\ lastCheck < mSaveData + mSaveSnap * MaxStall
    /\ mSaveData + Period <= mData

\* The turn that the signal has given before its time, once it is over.
Hurry == IF woken /\ timer # "ready" THEN 1 ELSE 0

\* A Write in progress is younger than the line it holds is old.
Writer ==
  Busy =>
    /\ p \in {mData, mSaveData} \ {NULL}
    /\ since <= clock /\ clock <= since + MaxHold
    /\ p = mSaveData => since + mSaveSnap <= lastCheck + 1 + Hurry /\ timer # "printed"

\* The updates of a Write carry the length of a packet.
CarriesLength == Busy => length \in Lengths

\* A line is balanced up to the update that Write still owes it.
Balance(own, peer) ==
  \A l \in DOMAIN rows :
    rows[l][peer] = rows[l][own] + (IF writing = own /\ l = p THEN length ELSE 0)

IInv ==
  /\ TypeOK /\ Phase /\ Heap /\ Schedule /\ SavedLine /\ Writer /\ CarriesLength
  /\ Conservation /\ Balance("ownIn", "peerIn") /\ Balance("ownOut", "peerOut")
  /\ BalancedLog /\ PunctualUpdate
-----------------------------------------------------------------------------
(* Liveness and refinement.                                                *)

\* The join in GatherOuter::Close returns, wherever the timer thread was when
\* the outer was signed off.
ShutdownCompletes == main = "joining" ~> main = "done"

\* What users of the outer may rely on, see ByteLedger.
Ledger == INSTANCE ByteLedger WITH
  accepted <- received, reported <- logged, open <- main # "done"

LedgerSpec == Ledger!Spec
=============================================================================
