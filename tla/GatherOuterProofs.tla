-------------------------- MODULE GatherOuterProofs --------------------------
(***************************************************************************)
(* Proofs about GatherOuter for every period, grace, number of bytes and   *)
(* length of the run, and every scheduler that meets TimingAssumption.     *)
(***************************************************************************)
EXTENDS GatherOuter, TLAPS

\* reset() gives a line the end of the minute of the clock: after the clock, by
\* no more than a period, and on a minute boundary.
LEMMA LineEndBounds ==
  ASSUME NEW t \in Nat
  PROVE  /\ LineEnd(t) \in Nat \ {NULL}
         /\ t < LineEnd(t) /\ LineEnd(t) <= t + Period
         /\ \E n \in 0 .. LineEnd(t) : LineEnd(t) = n * Period
<1>. USE ConstantsAssumption
<1>1. t = Period * (t \div Period) + (t % Period) /\ t % Period \in 0 .. (Period - 1)
      /\ t \div Period \in Nat
  OBVIOUS
<1>. DEFINE q == t \div Period
<1>2. LineEnd(t) = Period * q + Period
  BY <1>1 DEF LineEnd
<1>3. Period * q + Period = (q + 1) * Period /\ Period * q \in Nat
  BY <1>1
<1>4. q + 1 \in 0 .. LineEnd(t)
  <2>1. q <= Period * q
    BY <1>1
  <2>. QED BY <2>1, <1>1, <1>2, <1>3
<1>5. \E n \in 0 .. LineEnd(t) : LineEnd(t) = n * Period
  BY <1>2, <1>3, <1>4
<1>. QED
  BY <1>1, <1>2, <1>3, <1>5 DEF NULL

\* A new line ends at least one period after any line whose end has passed.
LEMMA NextLineEnd ==
  ASSUME NEW t \in Nat, NEW n \in Nat, n * Period <= t
  PROVE  n * Period + Period <= LineEnd(t)
<1>. USE ConstantsAssumption
<1>. DEFINE q == t \div Period
<1>1. t = Period * q + (t % Period) /\ t % Period \in 0 .. (Period - 1) /\ q \in Nat
  OBVIOUS
<1>2. LineEnd(t) = Period * q + Period
  BY <1>1 DEF LineEnd
<1>3. n <= q
  <2>1. SUFFICES ASSUME q + 1 <= n PROVE FALSE
    BY <1>1
  <2>2. (q + 1) * Period <= n * Period
    BY <2>1, <1>1
  <2>3. (q + 1) * Period = Period * q + Period
    BY <1>1
  <2>. QED BY <1>1, <2>2, <2>3
<1>4. n * Period <= Period * q
  BY <1>1, <1>3
<1>. QED BY <1>1, <1>2, <1>4
-----------------------------------------------------------------------------
(* Type correctness.                                                       *)

LEMMA PlusType ==
  ASSUME NEW a \in [Slot -> Nat], NEW b \in [Slot -> Nat]
  PROVE  Plus(a, b) \in [Slot -> Nat]
BY DEF Plus

LEMMA HeldType ==
  ASSUME TypeOK, NEW l
  PROVE  Held(l) \in [Slot -> Nat]
BY DEF TypeOK, Held, Zero

LEMMA TypeInit == Init => TypeOK
<1>. SUFFICES ASSUME Init PROVE TypeOK
  OBVIOUS
<1>1. Zero \in [Slot -> Nat]
  BY DEF Zero
<1>2. DOMAIN rows = {} /\ rows \in [{} -> [Slot -> Nat]]
  BY <1>1 DEF Init
<1>3. clock \in Nat
  BY ConstantsAssumption DEF Init
<1>4. DOMAIN rows \subseteq Nat \ {NULL} /\ rows \in [DOMAIN rows -> [Slot -> Nat]]
  BY <1>2
<1>. QED
  BY <1>1, <1>3, <1>4 DEF Init, TypeOK, NULL

LEMMA TypeStep == TypeOK /\ [Next]_vars => TypeOK'
<1>. SUFFICES ASSUME TypeOK, [Next]_vars PROVE TypeOK'
  OBVIOUS
<1>. USE ConstantsAssumption DEF TypeOK, lineVars, writeVars
<1>1. CASE Create
  <2>1. LineEnd(clock) \in Nat \ {NULL}
    BY LineEndBounds
  <2>. QED BY <1>1, <2>1 DEF Create, Line, Zero
<1>2. CASE Run
  BY <1>2 DEF Run
<1>3. ASSUME NEW len \in Lengths, NEW toLocal \in BOOLEAN, NEW out \in BOOLEAN,
             WriteBegin(len, toLocal, out)
      PROVE  TypeOK'
  BY <1>3 DEF WriteBegin, Slot
<1>4. CASE WriteUpdate
  <2>1. writing \in Slot
    BY <1>4 DEF WriteUpdate, Busy
  <2>2. After[writing] \in Slot \cup {"idle"}
    BY <2>1 DEF After, Slot
  <2>3. rows' \in [DOMAIN rows -> [Slot -> Nat]]
    BY <1>4, <2>1 DEF WriteUpdate
  <2>4. received' \in [Slot -> Nat]
    BY <1>4, <2>1 DEF WriteUpdate
  <2>. QED BY <1>4, <2>2, <2>3, <2>4 DEF WriteUpdate
<1>5. CASE Close
  BY <1>5 DEF Close
<1>6. CASE Join
  BY <1>6 DEF Join
<1>7. CASE Check
  <2>1. LineEnd(clock) \in Nat \ {NULL}
    BY LineEndBounds
  <2>2. /\ mSaveData' \in Nat /\ mSaveSnap' \in Nat /\ mData' \in Nat
        /\ timer' \in {"sleep", "printed"}
    BY <1>7, <2>1 DEF Check, SavedNow, SnapNow
  <2>3. rows' \in [DOMAIN rows' -> [Slot -> Nat]] /\ DOMAIN rows' \subseteq Nat \ {NULL}
    BY <1>7, <2>1 DEF Check, Zero
  <2>4. logged' \in [Slot -> Nat]
    BY <1>7, PlusType, HeldType DEF Check
  <2>. QED BY <1>7, <2>2, <2>3, <2>4 DEF Check
<1>8. CASE RemoveLine
  BY <1>8 DEF RemoveLine, Without, NULL
<1>9. CASE CheckDown
  <2>1. logged' \in [Slot -> Nat]
    BY <1>9, PlusType, HeldType DEF CheckDown, LastReport
  <2>2. rows' \in [DOMAIN rows' -> [Slot -> Nat]] /\ DOMAIN rows' \subseteq Nat \ {NULL}
    BY <1>9 DEF CheckDown
  <2>. QED BY <1>9, <2>1, <2>2 DEF CheckDown, NULL
<1>10. CASE Tick
  BY <1>10 DEF Tick
<1>11. CASE UNCHANGED vars
  BY <1>11 DEF vars
<1>12. CASE Interrupt
  BY <1>12 DEF Interrupt
<1>. QED
  BY <1>1, <1>2, <1>3, <1>4, <1>5, <1>6, <1>7, <1>8, <1>9, <1>10, <1>11, <1>12
     DEF Next, Write, Timer, Done

\* Every variable of the outer keeps its type.
THEOREM TypeCorrect == Spec => []TypeOK
BY TypeInit, TypeStep, PTL DEF Spec
-----------------------------------------------------------------------------
(* The hand-over: what Check can meet when it saves or prints a line.      *)

LEMMA StallMonotone ==
  ASSUME NEW n \in Nat, n <= Grace
  PROVE  (n + 1) * MaxStall <= (Grace + 1) * MaxStall
<1>. USE ConstantsAssumption
<1>1. Grace = n + (Grace - n) /\ Grace - n \in Nat
  OBVIOUS
<1>2. (Grace + 1) * MaxStall = (n + 1) * MaxStall + (Grace - n) * MaxStall
  BY <1>1
<1>3. (Grace - n) * MaxStall \in Nat
  BY <1>1
<1>. QED BY <1>2, <1>3

LEMMA StallArithmetic ==
  ASSUME NEW n \in Nat, n <= Grace
  PROVE  /\ (n + 1) * MaxStall = n * MaxStall + MaxStall
         /\ n * MaxStall + MaxStall <= Period
<1>. USE ConstantsAssumption
<1>1. (n + 1) * MaxStall = n * MaxStall + MaxStall
  OBVIOUS
<1>2. (n + 1) * MaxStall <= (Grace + 1) * MaxStall
  BY StallMonotone
<1>. QED BY <1>1, <1>2, TimingAssumption

\* When a minute is over, the place for the saved line is free.
LEMMA SaveRoom ==
  ASSUME TypeOK, Phase, Schedule, SavedLine, Awake, MinuteOver
  PROVE  mSaveData = NULL
<1>. SUFFICES ASSUME mSaveData # NULL PROVE FALSE
  OBVIOUS
<1>1. timer # "printed" /\ timer \in {"ready", "sleep"} /\ mSaveSnap \in Nat /\ mSaveSnap <= Grace
  BY ConstantsAssumption DEF Phase, Awake, SavedLine
<1>2. /\ lastCheck < mSaveData + mSaveSnap * MaxStall
      /\ mSaveData + Period <= mData
      /\ clock <= lastCheck + MaxStall
      /\ mData <= clock
  BY <1>1 DEF SavedLine, Schedule, MinuteOver
<1>3. mSaveSnap * MaxStall + MaxStall <= Period /\ mSaveSnap * MaxStall \in Nat
  BY <1>1, StallArithmetic, ConstantsAssumption
<1>. QED
  BY <1>2, <1>3, ConstantsAssumption DEF TypeOK

\* Only a line that was saved by an earlier Check is printed, and no Write
\* still holds it.
LEMMA PrintAlone ==
  ASSUME TypeOK, Phase, Schedule, SavedLine, Writer, Awake, PrintNow
  PROVE  /\ ~MinuteOver
         /\ mSaveData # NULL /\ SavedNow = mSaveData
         /\ timer \in {"ready", "sleep"} /\ mSaveSnap = Grace
         /\ Busy => p = mData
<1>. USE ConstantsAssumption DEF TypeOK
<1>1. ~MinuteOver
  BY DEF PrintNow, SnapNow
<1>2. mSaveData # NULL /\ SavedNow = mSaveData /\ mSaveSnap + 1 > Grace
  BY <1>1 DEF PrintNow, SavedNow, SnapNow
<1>3. timer \in {"ready", "sleep"} /\ mSaveSnap <= Grace
  BY <1>2 DEF Phase, Awake, SavedLine
<1>4. ASSUME Busy, p = mSaveData PROVE FALSE
  <2>1. since + mSaveSnap <= lastCheck + 1 + Hurry /\ clock <= since + MaxHold
    BY <1>4 DEF Writer
  <2>2. lastCheck + Hurry <= clock
    BY <1>3 DEF Awake, Hurry, Schedule
  <2>3. Hurry \in {0, 1}
    BY DEF Hurry
  <2>. QED BY <1>2, <2>1, <2>2, <2>3, TimingAssumption
<1>5. Busy => p = mData
  BY <1>4 DEF Writer
<1>. QED BY <1>1, <1>2, <1>3, <1>5
-----------------------------------------------------------------------------
(* The parts of IInv, each preserved by every action.                      *)

LEMMA PhaseStep ==
  ASSUME TypeOK, Phase, Schedule, SavedLine, [Next]_vars
  PROVE  Phase'
<1>. USE DEF TypeOK, lineVars, writeVars, Busy, Alive, Phase
<1>1. CASE Create
  BY <1>1, LineEndBounds DEF Create, NULL
<1>2. CASE Run
  BY <1>2 DEF Run
<1>3. ASSUME NEW len \in Lengths, NEW toLocal \in BOOLEAN, NEW out \in BOOLEAN,
             WriteBegin(len, toLocal, out)
      PROVE  Phase'
  BY <1>3 DEF WriteBegin
<1>4. CASE WriteUpdate
  BY <1>4 DEF WriteUpdate
<1>5. CASE Close
  BY <1>5 DEF Close
<1>6. CASE Join
  BY <1>6 DEF Join
<1>7. CASE Check
  <2>1. LineEnd(clock) # NULL
    BY LineEndBounds
  <2>2. main = "polling"
    BY <1>7 DEF Check, Awake
  <2>3. mData' # NULL
    BY <1>7, <2>1, <2>2 DEF Check
  <2>4. timer' = "printed" => mSaveData' # NULL
    BY <1>7 DEF Check, PrintNow
  <2>. QED BY <1>7, <2>2, <2>3, <2>4 DEF Check
<1>8. CASE RemoveLine
  BY <1>8 DEF RemoveLine
<1>9. CASE CheckDown
  BY <1>9 DEF CheckDown, Awake
<1>10. CASE Tick
  BY <1>10 DEF Tick
<1>11. CASE UNCHANGED vars
  BY <1>11 DEF vars
<1>12. CASE Interrupt
  BY <1>12 DEF Interrupt
<1>. QED
  BY <1>1, <1>2, <1>3, <1>4, <1>5, <1>6, <1>7, <1>8, <1>9, <1>10, <1>11, <1>12
     DEF Next, Write, Timer, Done

LEMMA HeapStep ==
  ASSUME TypeOK, Phase, Heap, Schedule, SavedLine, [Next]_vars
  PROVE  Heap'
<1>. USE DEF TypeOK, lineVars, writeVars, Heap
<1>1. CASE Create
  <2>1. LineEnd(clock) # NULL /\ mSaveData = NULL
    BY <1>1, LineEndBounds DEF Create, Phase
  <2>. QED BY <1>1, <2>1 DEF Create, Line
<1>2. CASE Run
  BY <1>2 DEF Run
<1>3. ASSUME NEW len \in Lengths, NEW toLocal \in BOOLEAN, NEW out \in BOOLEAN,
             WriteBegin(len, toLocal, out)
      PROVE  Heap'
  BY <1>3 DEF WriteBegin
<1>4. CASE WriteUpdate
  BY <1>4 DEF WriteUpdate
<1>5. CASE Close
  BY <1>5 DEF Close
<1>6. CASE Join
  BY <1>6 DEF Join
<1>7. CASE Check
  <2>1. LineEnd(clock) # NULL /\ LineEnd(clock) > clock
    BY LineEndBounds
  <2>2. CASE MinuteOver
    <3>1. mSaveData = NULL
      BY <1>7, <2>2, SaveRoom DEF Check
    <3>2. mData # LineEnd(clock) /\ mData # NULL
      BY <2>1, <2>2, LineEndBounds DEF MinuteOver
    <3>. QED BY <1>7, <2>1, <2>2, <3>1, <3>2 DEF Check, SavedNow
  <2>3. CASE ~MinuteOver
    BY <1>7, <2>3 DEF Check, SavedNow
  <2>. QED BY <2>2, <2>3
<1>8. CASE RemoveLine
  BY <1>8 DEF RemoveLine, Without, Phase
<1>9. CASE CheckDown
  BY <1>9 DEF CheckDown
<1>10. CASE Tick
  BY <1>10 DEF Tick
<1>11. CASE UNCHANGED vars
  BY <1>11 DEF vars
<1>12. CASE Interrupt
  BY <1>12 DEF Interrupt
<1>. QED
  BY <1>1, <1>2, <1>3, <1>4, <1>5, <1>6, <1>7, <1>8, <1>9, <1>10, <1>11, <1>12
     DEF Next, Write, Timer, Done

LEMMA ScheduleStep ==
  ASSUME TypeOK, Phase, Schedule, [Next]_vars
  PROVE  Schedule'
<1>. USE ConstantsAssumption DEF TypeOK, lineVars, writeVars, Schedule
<1>1. CASE Create
  BY <1>1, LineEndBounds DEF Create
<1>2. CASE Run
  <2>1. timer # "exit" /\ mData # NULL
    BY <1>2 DEF Run, Phase
  <2>. QED BY <1>2, <2>1 DEF Run
<1>3. ASSUME NEW len \in Lengths, NEW toLocal \in BOOLEAN, NEW out \in BOOLEAN,
             WriteBegin(len, toLocal, out)
      PROVE  Schedule'
  BY <1>3 DEF WriteBegin
<1>4. CASE WriteUpdate
  BY <1>4 DEF WriteUpdate
<1>5. CASE Close
  BY <1>5 DEF Close
<1>6. CASE Join
  BY <1>6 DEF Join
<1>7. CASE Check
  <2>1. LineEnd(clock) \in Nat /\ clock < LineEnd(clock) /\ LineEnd(clock) <= clock + Period
        /\ \E n \in 0 .. LineEnd(clock) : LineEnd(clock) = n * Period
    BY LineEndBounds
  <2>2. timer # "exit" /\ mData # NULL
    BY <1>7 DEF Check, Awake, Phase, Alive
  <2>3. CASE MinuteOver
    BY <1>7, <2>1, <2>3 DEF Check
  <2>4. CASE ~MinuteOver
    BY <1>7, <2>2, <2>4 DEF Check, MinuteOver
  <2>. QED BY <2>3, <2>4
<1>8. CASE RemoveLine
  BY <1>8 DEF RemoveLine
<1>9. CASE CheckDown
  BY <1>9 DEF CheckDown
<1>10. CASE Tick
  BY <1>10 DEF Tick
<1>11. CASE UNCHANGED vars
  BY <1>11 DEF vars
<1>12. CASE Interrupt
  BY <1>12 DEF Interrupt
<1>. QED
  BY <1>1, <1>2, <1>3, <1>4, <1>5, <1>6, <1>7, <1>8, <1>9, <1>10, <1>11, <1>12
     DEF Next, Write, Timer, Done

LEMMA SavedLineStep ==
  ASSUME TypeOK, Phase, Schedule, SavedLine, Writer, [Next]_vars
  PROVE  SavedLine'
<1>. USE ConstantsAssumption DEF TypeOK, lineVars, writeVars, SavedLine
<1>1. CASE Create
  BY <1>1 DEF Create, Phase
<1>2. CASE Run
  BY <1>2 DEF Run, Phase
<1>3. ASSUME NEW len \in Lengths, NEW toLocal \in BOOLEAN, NEW out \in BOOLEAN,
             WriteBegin(len, toLocal, out)
      PROVE  SavedLine'
  BY <1>3 DEF WriteBegin
<1>4. CASE WriteUpdate
  BY <1>4 DEF WriteUpdate
<1>5. CASE Close
  BY <1>5 DEF Close
<1>6. CASE Join
  BY <1>6 DEF Join
<1>7. CASE Check
  <2>1. CASE MinuteOver
    <3>1. mSaveData' = mData /\ mSaveSnap' = 1 /\ mData' = LineEnd(clock) /\ lastCheck' = clock
      BY <1>7, <2>1 DEF Check, SavedNow, SnapNow
    <3>2. PICK n \in 0 .. mData : mData = n * Period
      BY <1>7, <2>1 DEF Check, Awake, MinuteOver, Schedule
    <3>3. mData + Period <= LineEnd(clock)
      BY <2>1, <3>2, NextLineEnd DEF MinuteOver
    <3>4. clock < mData + MaxStall
      BY <1>7, <2>1 DEF Check, Awake, MinuteOver, Schedule
    <3>5. mSaveSnap' \in 1 .. (Grace + 1) /\ mSaveSnap' <= Grace
      BY <3>1
    <3>6. 1 * MaxStall = MaxStall
      OBVIOUS
    <3>. QED BY <3>1, <3>3, <3>4, <3>5, <3>6
  <2>2. CASE ~MinuteOver /\ mSaveData # NULL
    <3>1. mSaveData' = mSaveData /\ mSaveSnap' = mSaveSnap + 1 /\ mData' = mData /\ lastCheck' = clock
      BY <1>7, <2>2 DEF Check, SavedNow, SnapNow
    <3>2. timer \in {"ready", "sleep"} /\ mSaveSnap \in 1 .. Grace
      BY <1>7, <2>2 DEF Check, Awake, Phase
    <3>3. clock <= lastCheck + MaxStall
      BY <2>2, <3>2 DEF Schedule, Phase, Alive
    <3>4. (mSaveSnap + 1) * MaxStall = mSaveSnap * MaxStall + MaxStall /\ mSaveSnap * MaxStall \in Nat
      BY <3>2, StallArithmetic
    <3>5. clock < mSaveData + (mSaveSnap + 1) * MaxStall
      BY <2>2, <3>3, <3>4
    <3>6. timer' # "printed" => mSaveSnap + 1 <= Grace
      BY <1>7, <2>2, <3>2 DEF Check, PrintNow, SavedNow, SnapNow
    <3>. QED BY <2>2, <3>1, <3>2, <3>5, <3>6
  <2>3. CASE ~MinuteOver /\ mSaveData = NULL
    BY <1>7, <2>3 DEF Check, SavedNow
  <2>. QED BY <2>1, <2>2, <2>3
<1>8. CASE RemoveLine
  BY <1>8 DEF RemoveLine
<1>9. CASE CheckDown
  BY <1>9 DEF CheckDown
<1>10. CASE Tick
  BY <1>10 DEF Tick
<1>11. CASE UNCHANGED vars
  BY <1>11 DEF vars
<1>12. CASE Interrupt
  BY <1>12 DEF Interrupt
<1>. QED
  BY <1>1, <1>2, <1>3, <1>4, <1>5, <1>6, <1>7, <1>8, <1>9, <1>10, <1>11, <1>12
     DEF Next, Write, Timer, Done

LEMMA WriterStep ==
  ASSUME TypeOK, Phase, Schedule, SavedLine, Writer, [Next]_vars
  PROVE  Writer'
<1>. USE ConstantsAssumption DEF TypeOK, lineVars, writeVars, Writer, Hurry, Busy
<1>1. CASE Create
  BY <1>1 DEF Create, Phase, Busy
<1>2. CASE Run
  BY <1>2 DEF Run, Phase, Busy
<1>3. ASSUME NEW len \in Lengths, NEW toLocal \in BOOLEAN, NEW out \in BOOLEAN,
             WriteBegin(len, toLocal, out)
      PROVE  Writer'
  <2>1. mData # NULL
    BY <1>3 DEF WriteBegin, Phase
  <2>2. mSaveData # NULL => mData # mSaveData
    BY <1>3 DEF WriteBegin, SavedLine
  <2>. QED BY <1>3, <2>1, <2>2 DEF WriteBegin, NULL
<1>4. CASE WriteUpdate
  BY <1>4 DEF WriteUpdate
<1>5. CASE Close
  BY <1>5 DEF Close
<1>6. CASE Join
  BY <1>6 DEF Join
<1>7. CASE Check
  <2>. SUFFICES ASSUME Busy PROVE Writer'
    BY <1>7 DEF Check
  <2>1. CASE MinuteOver
    <3>1. mSaveData = NULL
      BY <1>7, <2>1, SaveRoom DEF Check
    <3>2. mSaveData' = mData /\ mSaveSnap' = 1 /\ lastCheck' = clock /\ mData' = LineEnd(clock)
      BY <1>7, <2>1 DEF Check, SavedNow, SnapNow
    <3>3. p = mData /\ p # NULL
      BY <3>1
    <3>4. timer' # "printed"
      BY <1>7, <2>1 DEF Check, PrintNow, SnapNow
    <3>. QED BY <1>7, <3>2, <3>3, <3>4 DEF Check
  <2>2. CASE ~MinuteOver /\ ~PrintNow
    <3>1. mSaveData' = mSaveData /\ mData' = mData /\ timer' = "sleep" /\ lastCheck' = clock
      BY <1>7, <2>2 DEF Check, SavedNow
    <3>2. ASSUME p = mSaveData PROVE since + mSaveSnap' <= clock + 1 + Hurry'
      <4>1. mSaveData # NULL /\ mSaveSnap' = mSaveSnap + 1 /\ woken' = woken
        BY <1>7, <2>2, <3>2 DEF Check, SnapNow
      <4>2. CASE timer = "ready"
        <5>1. woken /\ since + mSaveSnap <= lastCheck + 1
          BY <3>2, <4>1, <4>2 DEF Phase
        <5>. QED BY <3>1, <4>1, <5>1 DEF Schedule
      <4>3. CASE timer = "sleep"
        <5>1. lastCheck < clock
          BY <1>7, <4>3 DEF Check, Awake
        <5>2. Hurry' = Hurry
          BY <3>1, <4>1, <4>3
        <5>. QED BY <3>2, <4>1, <5>1, <5>2
      <4>. QED BY <1>7, <4>2, <4>3 DEF Check, Awake
    <3>. QED BY <1>7, <3>1, <3>2 DEF Check
  <2>3. CASE PrintNow
    <3>1. ~MinuteOver /\ mSaveData # NULL /\ p = mData
      BY <1>7, <2>3, PrintAlone DEF Check, Busy
    <3>2. mData # mSaveData
      BY <3>1 DEF SavedLine
    <3>3. mSaveData' = mSaveData /\ mData' = mData
      BY <1>7, <3>1 DEF Check, SavedNow
    <3>. QED BY <1>7, <3>1, <3>2, <3>3 DEF Check
  <2>. QED BY <2>1, <2>2, <2>3
<1>8. CASE RemoveLine
  BY <1>8 DEF RemoveLine
<1>9. CASE CheckDown
  BY <1>9 DEF CheckDown, Phase, Busy
<1>10. CASE Tick
  BY <1>10 DEF Tick
<1>11. CASE UNCHANGED vars
  BY <1>11 DEF vars
<1>12. CASE Interrupt
  BY <1>12 DEF Interrupt
<1>. QED
  BY <1>1, <1>2, <1>3, <1>4, <1>5, <1>6, <1>7, <1>8, <1>9, <1>10, <1>11, <1>12
     DEF Next, Write, Timer, Done

LEMMA PunctualStep ==
  ASSUME TypeOK, Phase, Schedule, PunctualUpdate, [Next]_vars
  PROVE  PunctualUpdate'
<1>. USE ConstantsAssumption DEF TypeOK, lineVars, writeVars, PunctualUpdate, Busy
<1>1. CASE Create
  BY <1>1 DEF Create
<1>2. CASE Run
  BY <1>2 DEF Run
<1>3. ASSUME NEW len \in Lengths, NEW toLocal \in BOOLEAN, NEW out \in BOOLEAN,
             WriteBegin(len, toLocal, out)
      PROVE  PunctualUpdate'
  <2>1. timer # "exit" /\ mData # NULL
    BY <1>3 DEF WriteBegin, Phase, Alive
  <2>. QED BY <1>3, <2>1 DEF WriteBegin, Schedule
<1>4. CASE WriteUpdate
  BY <1>4 DEF WriteUpdate
<1>5. CASE Close
  BY <1>5 DEF Close
<1>6. CASE Join
  BY <1>6 DEF Join
<1>7. CASE Check
  BY <1>7 DEF Check
<1>8. CASE RemoveLine
  BY <1>8 DEF RemoveLine
<1>9. CASE CheckDown
  BY <1>9 DEF CheckDown
<1>10. CASE Tick
  BY <1>10 DEF Tick
<1>11. CASE UNCHANGED vars
  BY <1>11 DEF vars
<1>12. CASE Interrupt
  BY <1>12 DEF Interrupt
<1>. QED
  BY <1>1, <1>2, <1>3, <1>4, <1>5, <1>6, <1>7, <1>8, <1>9, <1>10, <1>11, <1>12
     DEF Next, Write, Timer, Done

\* The two sides of Balance are the two updates of one direction of a packet.
Pairs == {<<"ownIn", "peerIn">>, <<"ownOut", "peerOut">>}

LEMMA BalanceStep ==
  ASSUME TypeOK, Phase, Heap, Schedule, SavedLine, Writer,
         NEW own \in Slot, NEW peer \in Slot, <<own, peer>> \in Pairs,
         Balance(own, peer), [Next]_vars
  PROVE  Balance(own, peer)'
<1>. USE DEF TypeOK, lineVars, writeVars, Balance
<1>1. CASE Create
  <2>1. ~Busy
    BY <1>1 DEF Create, Phase, Busy
  <2>. QED BY <1>1, <2>1 DEF Create, Line, Zero, Busy, Pairs
<1>2. CASE Run
  BY <1>2 DEF Run
<1>3. ASSUME NEW len \in Lengths, NEW toLocal \in BOOLEAN, NEW out \in BOOLEAN,
             WriteBegin(len, toLocal, out)
      PROVE  Balance(own, peer)'
  <2>1. \A l \in DOMAIN rows : rows[l][peer] = rows[l][own]
    BY <1>3 DEF WriteBegin, Busy, Slot
  <2>2. writing' # own
    BY <1>3 DEF WriteBegin, Pairs
  <2>. QED BY <1>3, <2>1, <2>2 DEF WriteBegin
<1>4. CASE WriteUpdate
  <2>1. /\ writing \in Slot /\ own # peer
        /\ writing = peer => writing' = own
        /\ writing # peer => writing' # own
    BY <1>4 DEF WriteUpdate, Busy, After, Slot, Pairs
  <2>2. SUFFICES ASSUME NEW l \in DOMAIN rows
        PROVE  rows'[l][peer] = rows'[l][own]
                 + (IF writing' = own /\ l = p THEN length ELSE 0)
    BY <1>4 DEF WriteUpdate
  <2>3. CASE l # p
    BY <1>4, <2>1, <2>3 DEF WriteUpdate
  <2>4. CASE l = p
    <3>1. /\ \A s \in Slot : rows'[p][s] = IF s = writing THEN rows[p][s] + length ELSE rows[p][s]
          /\ rows[p] \in [Slot -> Nat]
      BY <1>4, <2>1 DEF WriteUpdate
    <3>. QED BY <2>1, <2>4, <3>1
  <2>. QED BY <2>3, <2>4
<1>5. CASE Close
  BY <1>5 DEF Close
<1>6. CASE Join
  BY <1>6 DEF Join
<1>7. CASE Check
  <2>1. CASE MinuteOver
    <3>1. mSaveData = NULL
      BY <1>7, <2>1, SaveRoom DEF Check
    <3>2. LineEnd(clock) > clock /\ clock >= mData
      BY <2>1, LineEndBounds DEF MinuteOver
    <3>3. writing = own => p # LineEnd(clock)
      BY <3>1, <3>2 DEF Writer, Busy, Slot
    <3>. QED BY <1>7, <2>1, <3>3 DEF Check, Zero
  <2>2. CASE ~MinuteOver
    BY <1>7, <2>2 DEF Check
  <2>. QED BY <2>1, <2>2
<1>8. CASE RemoveLine
  BY <1>8 DEF RemoveLine, Without
<1>9. CASE CheckDown
  BY <1>9 DEF CheckDown
<1>10. CASE Tick
  BY <1>10 DEF Tick
<1>11. CASE UNCHANGED vars
  BY <1>11 DEF vars
<1>12. CASE Interrupt
  BY <1>12 DEF Interrupt
<1>. QED
  BY <1>1, <1>2, <1>3, <1>4, <1>5, <1>6, <1>7, <1>8, <1>9, <1>10, <1>11, <1>12
     DEF Next, Write, Timer, Done

\* The rows of a line that no Write is working on balance.
LEMMA QuietLine ==
  ASSUME TypeOK, Balance("ownIn", "peerIn"), Balance("ownOut", "peerOut"),
         NEW l, ~(Busy /\ l = p)
  PROVE  /\ Held(l)["peerIn"] = Held(l)["ownIn"]
         /\ Held(l)["peerOut"] = Held(l)["ownOut"]
<1>1. CASE l \in DOMAIN rows
  <2>1. rows[l] \in [Slot -> Nat]
    BY <1>1 DEF TypeOK
  <2>2. /\ writing = "ownIn" => l # p
        /\ writing = "ownOut" => l # p
    BY DEF Busy
  <2>. QED BY <1>1, <2>1, <2>2 DEF Balance, Held, Slot
<1>2. CASE l \notin DOMAIN rows
  BY <1>2 DEF Held, Zero, Slot
<1>. QED BY <1>1, <1>2

LEMMA BalancedLogStep ==
  ASSUME TypeOK, Phase, Heap, Schedule, SavedLine, Writer,
         Balance("ownIn", "peerIn"), Balance("ownOut", "peerOut"), BalancedLog, [Next]_vars
  PROVE  BalancedLog'
<1>. USE DEF TypeOK, BalancedLog
<1>1. CASE Create
  BY <1>1 DEF Create
<1>2. CASE Run
  BY <1>2 DEF Run
<1>3. ASSUME NEW len \in Lengths, NEW toLocal \in BOOLEAN, NEW out \in BOOLEAN,
             WriteBegin(len, toLocal, out)
      PROVE  BalancedLog'
  BY <1>3 DEF WriteBegin
<1>4. CASE WriteUpdate
  BY <1>4 DEF WriteUpdate
<1>5. CASE Close
  BY <1>5 DEF Close
<1>6. CASE Join
  BY <1>6 DEF Join
<1>7. CASE Check
  <2>1. CASE PrintNow
    <3>1. SavedNow = mSaveData /\ ~(Busy /\ mSaveData = p)
      BY <1>7, <2>1, PrintAlone DEF Check, Heap
    <3>2. logged' = Plus(logged, Held(mSaveData))
      BY <1>7, <2>1, <3>1 DEF Check
    <3>. QED BY <3>1, <3>2, QuietLine DEF Plus, Slot
  <2>2. CASE ~PrintNow
    BY <1>7, <2>2 DEF Check
  <2>. QED BY <2>1, <2>2
<1>8. CASE RemoveLine
  BY <1>8 DEF RemoveLine
<1>9. CASE CheckDown
  <2>1. ~Busy
    BY <1>9 DEF CheckDown, Phase
  <2>. QED BY <1>9, <2>1, QuietLine DEF CheckDown, LastReport, Plus, Slot
<1>10. CASE Tick
  BY <1>10 DEF Tick
<1>11. CASE UNCHANGED vars
  BY <1>11 DEF vars
<1>12. CASE Interrupt
  BY <1>12 DEF Interrupt
<1>. QED
  BY <1>1, <1>2, <1>3, <1>4, <1>5, <1>6, <1>7, <1>8, <1>9, <1>10, <1>11, <1>12
     DEF Next, Write, Timer, Done

\* Sums of totals, slot by slot.
LEMMA PlusAt ==
  ASSUME NEW a, NEW b, NEW s \in Slot
  PROVE  Plus(a, b)[s] = a[s] + b[s]
BY DEF Plus

LEMMA SumsEqual ==
  ASSUME NEW r \in [Slot -> Nat], NEW a, NEW b,
         \A s \in Slot : r[s] = a[s] + b[s]
  PROVE  r = Plus(a, b)
BY DEF Plus


LEMMA ConservationStep ==
  ASSUME TypeOK, Phase, Heap, Schedule, SavedLine, Writer, Conservation,
         TypeOK', Heap', [Next]_vars
  PROVE  Conservation'
<1>. USE DEF Conservation, lineVars, writeVars
<1>1. CASE Create
  <2>1. mData = NULL /\ mSaveData = NULL /\ timer = "none"
    BY <1>1 DEF Create, Phase
  <2>2. Held(mData) = Zero /\ Held(mSaveData) = Zero
    BY <2>1 DEF Held, Heap
  <2>3. Held(mData)' = Zero /\ Held(mSaveData)' = Zero
    BY <1>1, <2>1, LineEndBounds DEF Create, Held, Heap, Line, TypeOK
  <2>4. Pending' = Pending
    BY <2>1, <2>2, <2>3, <1>1 DEF Pending, Create
  <2>. QED BY <1>1, <2>4 DEF Create, Plus
<1>2. CASE Run
  <2>1. timer = "none"
    BY <1>2 DEF Run, Phase
  <2>2. Pending' = Pending
    BY <1>2, <2>1 DEF Run, Pending, Held
  <2>. QED BY <1>2, <2>2 DEF Run, Plus
<1>3. ASSUME NEW len \in Lengths, NEW toLocal \in BOOLEAN, NEW out \in BOOLEAN,
             WriteBegin(len, toLocal, out)
      PROVE  Conservation'
  <2>1. Pending' = Pending
    BY <1>3 DEF WriteBegin, Pending, Held, Plus, Zero
  <2>. QED BY <1>3, <2>1 DEF WriteBegin, Plus
<1>4. CASE WriteUpdate
  <2>1. /\ writing \in Slot /\ p \in {mData, mSaveData} \ {NULL}
        /\ p = mSaveData => timer # "printed"
        /\ mData # mSaveData \/ mSaveData = NULL
    BY <1>4 DEF WriteUpdate, Writer, Busy, TypeOK, Heap
  <2>2. \A s \in Slot : rows'[p][s] = rows[p][s] + (IF s = writing THEN length ELSE 0)
    BY <1>4, <2>1 DEF WriteUpdate, TypeOK
  <2>3. \A s \in Slot : received'[s] = received[s] + (IF s = writing THEN length ELSE 0)
    BY <1>4, <2>1 DEF WriteUpdate, TypeOK
  <2>4. \A l \in DOMAIN rows \ {p} : rows'[l] = rows[l]
    BY <1>4 DEF WriteUpdate, TypeOK
  <2>5. DOMAIN rows' = DOMAIN rows /\ DOMAIN rows = {mData, mSaveData} \ {NULL}
    BY <1>4 DEF WriteUpdate, TypeOK, Heap
  <2>6. SUFFICES ASSUME NEW s \in Slot
        PROVE  received'[s] = logged'[s] + Pending'[s]
    BY SumsEqual DEF TypeOK
  <2>7. Pending'[s] = Pending[s] + (IF s = writing THEN length ELSE 0)
    <3>1. CASE p = mData
      <4>1. Held(mData)'[s] = Held(mData)[s] + (IF s = writing THEN length ELSE 0)
        BY <1>4, <2>1, <2>2, <2>5, <3>1 DEF Held, WriteUpdate
      <4>2. Held(mSaveData)' = Held(mSaveData)
        BY <1>4, <2>1, <2>4, <2>5, <3>1 DEF Held, WriteUpdate
      <4>3. /\ Held(mData)[s] \in Nat /\ Held(mSaveData)[s] \in Nat /\ length \in Nat /\ Zero[s] = 0
            /\ timer' = timer
        BY <1>4, HeldType DEF TypeOK, Zero, WriteUpdate
      <4>. QED BY <4>1, <4>2, <4>3, PlusAt DEF Pending, Plus
    <3>2. CASE p = mSaveData /\ p # mData
      <4>1. Held(mSaveData)'[s] = Held(mSaveData)[s] + (IF s = writing THEN length ELSE 0)
        BY <1>4, <2>1, <2>2, <2>5, <3>2 DEF Held, WriteUpdate
      <4>2. Held(mData)' = Held(mData)
        BY <1>4, <2>1, <2>4, <2>5, <3>2 DEF Held, WriteUpdate
      <4>3. /\ Held(mData)[s] \in Nat /\ Held(mSaveData)[s] \in Nat /\ length \in Nat /\ Zero[s] = 0
            /\ timer' = timer /\ timer # "printed"
        BY <1>4, <2>1, <3>2, HeldType DEF TypeOK, Zero, WriteUpdate
      <4>. QED BY <4>1, <4>2, <4>3, PlusAt DEF Pending, Plus
    <3>. QED BY <2>1, <3>1, <3>2
  <2>8. Pending[s] \in Nat /\ length \in Nat
    BY HeldType, PlusType DEF Pending, TypeOK, Plus, Zero
  <2>. QED BY <1>4, <2>3, <2>7, <2>8, PlusAt DEF WriteUpdate, TypeOK
<1>5. CASE Close
  <2>1. Pending' = Pending
    BY <1>5 DEF Close, Pending, Held, Plus, Zero
  <2>. QED BY <1>5, <2>1 DEF Close, Plus
<1>6. CASE Join
  <2>1. Pending' = Pending
    BY <1>6 DEF Join, Pending, Held, Plus, Zero
  <2>. QED BY <1>6, <2>1 DEF Join, Plus
<1>7. CASE Check
  <2>1. CASE MinuteOver
    <3>1. /\ mSaveData = NULL /\ mSaveData' = mData /\ mData' = LineEnd(clock)
          /\ timer # "printed" /\ timer' = "sleep"
      <4>1. mSaveData = NULL /\ SavedNow = mData /\ ~PrintNow
        BY <1>7, <2>1, SaveRoom, ConstantsAssumption DEF Check, SavedNow, PrintNow, SnapNow
      <4>. QED BY <1>7, <2>1, <4>1 DEF Check, Awake
    <3>2. mData \in DOMAIN rows /\ LineEnd(clock) \notin DOMAIN rows
      BY <2>1, <3>1, LineEndBounds DEF MinuteOver, Heap, TypeOK
    <3>3. Held(mData)' = Zero /\ Held(mSaveData) = Zero /\ Held(mSaveData)' = Held(mData)
      BY <1>7, <2>1, <3>1, <3>2 DEF Held, Check, Heap
    <3>4. Pending' = Plus(Zero, Held(mData)) /\ Pending = Plus(Held(mData), Zero)
      BY <3>1, <3>3 DEF Pending
    <3>5. Pending' = Pending
      BY <3>4, HeldType DEF Plus, Zero
    <3>6. logged' = logged /\ received' = received
      BY <1>7, <3>1 DEF Check
    <3>. QED BY <3>5, <3>6 DEF Plus
  <2>2. CASE PrintNow
    <3>1. ~MinuteOver /\ mSaveData # NULL /\ SavedNow = mSaveData /\ timer # "printed"
      BY <1>7, <2>2, PrintAlone DEF Check
    <3>2. /\ mData' = mData /\ mSaveData' = mSaveData /\ rows' = rows
          /\ timer' = "printed" /\ logged' = Plus(logged, Held(mSaveData)) /\ received' = received
      BY <1>7, <2>2, <3>1 DEF Check
    <3>3. Pending = Plus(Held(mData), Held(mSaveData)) /\ Pending' = Plus(Held(mData), Zero)
      BY <3>1, <3>2 DEF Pending, Held
    <3>4. received = Plus(logged, Plus(Held(mData), Held(mSaveData)))
      BY <3>3
    <3>5. \A s \in Slot : /\ logged[s] \in Nat /\ Held(mData)[s] \in Nat
                          /\ Held(mSaveData)[s] \in Nat /\ Zero[s] = 0
      BY HeldType DEF TypeOK, Zero
    <3>6. \A s \in Slot : received[s] = Plus(logged, Held(mSaveData))[s] + Plus(Held(mData), Zero)[s]
      BY <3>4, <3>5 DEF Plus
    <3>. QED BY <3>2, <3>3, <3>6, SumsEqual DEF TypeOK
  <2>3. CASE ~MinuteOver /\ ~PrintNow
    <3>1. /\ mData' = mData /\ mSaveData' = mSaveData /\ rows' = rows
          /\ timer' # "printed" /\ timer # "printed" /\ logged' = logged /\ received' = received
      BY <1>7, <2>3 DEF Check, Awake, SavedNow
    <3>. QED BY <3>1 DEF Pending, Held
  <2>. QED BY <1>7, <2>1, <2>2, <2>3, PrintAlone DEF Check
<1>8. CASE RemoveLine
  <2>1. /\ mSaveData # NULL /\ mData # mSaveData /\ timer = "printed" /\ timer' = "sleep"
        /\ mData' = mData /\ mSaveData' = NULL
    BY <1>8 DEF RemoveLine, Phase, Heap
  <2>2. Held(mData)' = Held(mData) /\ Held(mSaveData)' = Zero
    BY <1>8, <2>1 DEF RemoveLine, Without, Held, Heap
  <2>3. Pending' = Pending
    BY <2>1, <2>2 DEF Pending
  <2>. QED BY <1>8, <2>3 DEF RemoveLine, Plus
<1>9. CASE CheckDown
  <2>1. timer # "printed" /\ mData' = NULL /\ mSaveData' = NULL /\ DOMAIN rows' = {} /\ timer' = "exit"
    BY <1>9 DEF CheckDown, Awake, Heap
  <2>2. Pending' = Plus(Zero, Zero) /\ Pending = Plus(Held(mData), Held(mSaveData))
    BY <2>1 DEF Pending, Held
  <2>3. received = Plus(logged, Plus(Held(mData), Held(mSaveData)))
        /\ received' = received /\ logged' = Plus(logged, Plus(Held(mSaveData), Held(mData)))
    BY <1>9, <2>2 DEF CheckDown, LastReport
  <2>4. \A s \in Slot : /\ logged[s] \in Nat /\ Held(mData)[s] \in Nat
                        /\ Held(mSaveData)[s] \in Nat /\ Zero[s] = 0
    BY HeldType DEF TypeOK, Zero
  <2>5. \A s \in Slot : received[s] = Plus(logged, Plus(Held(mSaveData), Held(mData)))[s] + Plus(Zero, Zero)[s]
    BY <2>3, <2>4 DEF Plus
  <2>. QED BY <2>2, <2>3, <2>5, SumsEqual DEF TypeOK
<1>10. CASE Tick
  <2>1. Pending' = Pending
    BY <1>10 DEF Tick, Pending, Held, Plus, Zero
  <2>. QED BY <1>10, <2>1 DEF Tick, Plus
<1>11. CASE UNCHANGED vars
  <2>1. Pending' = Pending
    BY <1>11 DEF vars, Pending, Held, Plus, Zero
  <2>. QED BY <1>11, <2>1 DEF vars, Plus
<1>12. CASE Interrupt
  <2>1. Pending' = Pending
    BY <1>12 DEF Interrupt, Pending, Held, Plus, Zero
  <2>. QED BY <1>12, <2>1 DEF Interrupt, Plus
<1>. QED
  BY <1>1, <1>2, <1>3, <1>4, <1>5, <1>6, <1>7, <1>8, <1>9, <1>10, <1>11, <1>12
     DEF Next, Write, Timer, Done
-----------------------------------------------------------------------------
(* The theorems.                                                           *)

LEMMA IInvInit == Init => IInv
<1>. SUFFICES ASSUME Init PROVE IInv
  OBVIOUS
<1>1. TypeOK
  BY TypeInit
<1>2. DOMAIN rows = {}
  BY DEF Init
<1>3. clock \in Nat /\ ~Busy /\ mData = NULL /\ mSaveData = NULL /\ lastCheck = 0
  BY <1>1 DEF Init, Busy, TypeOK
<1>4. Phase
  BY DEF Init, Phase, Busy, Alive
<1>5. Heap /\ Schedule /\ SavedLine /\ Writer /\ PunctualUpdate
  BY <1>2, <1>3 DEF Heap, Schedule, SavedLine, Writer, PunctualUpdate
<1>6. Balance("ownIn", "peerIn") /\ Balance("ownOut", "peerOut")
  BY <1>2 DEF Balance
<1>7. BalancedLog
  BY DEF Init, BalancedLog, Zero, Slot
<1>8. Conservation
  <2>1. Pending = Plus(Zero, Zero) /\ received = Zero /\ logged = Zero
    BY <1>2, <1>3 DEF Init, Pending, Held
  <2>. QED BY <2>1 DEF Conservation, Plus, Zero
<1>9. CarriesLength
  BY <1>3 DEF CarriesLength
<1>. QED BY <1>1, <1>4, <1>5, <1>6, <1>7, <1>8, <1>9 DEF IInv

LEMMA IInvStep == IInv /\ [Next]_vars => IInv'
<1>. SUFFICES ASSUME IInv, [Next]_vars PROVE IInv'
  OBVIOUS
<1>1. TypeOK' /\ Phase' /\ Heap' /\ Schedule' /\ SavedLine' /\ Writer' /\ PunctualUpdate'
  BY TypeStep, PhaseStep, HeapStep, ScheduleStep, SavedLineStep, WriterStep,
     PunctualStep DEF IInv
<1>2. Balance("ownIn", "peerIn")' /\ Balance("ownOut", "peerOut")'
  BY BalanceStep DEF IInv, Pairs, Slot
<1>3. BalancedLog'
  BY BalancedLogStep DEF IInv
<1>4. Conservation'
  BY <1>1, ConservationStep DEF IInv
<1>5. CarriesLength'
  BY DEF IInv, CarriesLength, Busy, Next, Write, Timer, Done, vars, writeVars, Create,
     Run, WriteBegin, WriteUpdate, Close, Join, Check, RemoveLine, CheckDown,
     Interrupt, Tick
<1>. QED BY <1>1, <1>2, <1>3, <1>4, <1>5 DEF IInv

\* The invariant holds in every state of every behaviour.
THEOREM Invariance == Spec => []IInv
BY IInvInit, IInvStep, PTL DEF Spec

\* No update is ever made to a line that is printed or deleted: the hand-over
\* needs no lock as long as TimingAssumption holds.
THEOREM NoStaleWriteHolds == Spec => []NoStaleWrite
<1>1. IInv => NoStaleWrite
  BY DEF IInv, TypeOK, Heap, Writer, NoStaleWrite
<1>. QED BY <1>1, Invariance, PTL

\* Every byte counted is in the log or in a line still to be printed.
THEOREM ConservationHolds == Spec => []Conservation
<1>1. IInv => Conservation
  BY DEF IInv
<1>. QED BY <1>1, Invariance, PTL

\* No packet is split by the printing of a line.
THEOREM BalancedLogHolds == Spec => []BalancedLog
<1>1. IInv => BalancedLog
  BY DEF IInv
<1>. QED BY <1>1, Invariance, PTL

\* A packet is booked under its own minute, or late by less than a stall.
THEOREM PunctualUpdateHolds == Spec => []PunctualUpdate
<1>1. IInv => PunctualUpdate
  BY DEF IInv
<1>. QED BY <1>1, Invariance, PTL

\* A saved line is printed within Grace + 1 turns of the timer thread.
THEOREM PrintedInTimeHolds == Spec => []PrintedInTime
<1>1. ASSUME IInv PROVE PrintedInTime
  <2>. SUFFICES ASSUME mSaveData # NULL, timer # "printed"
       PROVE  clock < mSaveData + (Grace + 1) * MaxStall
    BY DEF PrintedInTime
  <2>1. timer \in {"ready", "sleep"} /\ mSaveSnap \in 1 .. Grace /\ lastCheck < mSaveData + mSaveSnap * MaxStall
    BY <1>1, ConstantsAssumption DEF IInv, Phase, SavedLine
  <2>2. clock <= lastCheck + MaxStall
    BY <1>1, <2>1 DEF IInv, Schedule, Phase, Alive
  <2>3. (mSaveSnap + 1) * MaxStall <= (Grace + 1) * MaxStall
    BY <2>1, StallMonotone, ConstantsAssumption
  <2>4. (mSaveSnap + 1) * MaxStall = mSaveSnap * MaxStall + MaxStall /\ mSaveSnap * MaxStall \in Nat
        /\ (Grace + 1) * MaxStall \in Nat
    BY <2>1, StallArithmetic, ConstantsAssumption
  <2>. QED BY <1>1, <2>1, <2>2, <2>3, <2>4, ConstantsAssumption DEF IInv, TypeOK
<1>. QED BY <1>1, Invariance, PTL

\* After GatherOuter::Close everything counted is printed, every line deleted.
THEOREM FinalFlushHolds == Spec => []FinalFlush
<1>1. ASSUME IInv, main = "done" PROVE logged = received /\ DOMAIN rows = {}
  <2>1. mData = NULL /\ mSaveData = NULL
    BY <1>1 DEF IInv, Phase
  <2>2. DOMAIN rows = {}
    BY <1>1, <2>1 DEF IInv, Heap
  <2>3. received = Plus(logged, Plus(Zero, Zero))
    BY <1>1, <2>1, <2>2 DEF IInv, Conservation, Pending, Held
  <2>4. logged = Plus(logged, Plus(Zero, Zero))
    BY <1>1 DEF IInv, TypeOK, Plus, Zero
  <2>. QED BY <2>2, <2>3, <2>4
<1>2. IInv => FinalFlush
  BY <1>1 DEF FinalFlush
<1>. QED BY <1>2, Invariance, PTL

\* Check never puts a line in the place of one that is still to be printed.
THEOREM NoLineOverwrittenHolds == Spec => NoLineOverwritten
<1>1. ASSUME IInv, [Next]_vars, mSaveData # NULL
      PROVE  mSaveData' \in {NULL, mSaveData}
  <2>1. CASE Check
    <3>1. ~MinuteOver
      BY <1>1, <2>1, SaveRoom DEF IInv, Check
    <3>. QED BY <2>1, <3>1 DEF Check, SavedNow
  <2>2. CASE ~Check
    BY <1>1, <2>2 DEF Next, Write, Timer, Done, vars, lineVars, Create, Run,
       WriteBegin, WriteUpdate, Close, Join, RemoveLine, CheckDown, Interrupt, Tick,
       IInv, Phase
  <2>. QED BY <2>1, <2>2
<1>2. IInv /\ [Next]_vars => [mSaveData # NULL => mSaveData' \in {NULL, mSaveData}]_vars
  BY <1>1
<1>. QED BY <1>2, Invariance, PTL DEF Spec, NoLineOverwritten
-----------------------------------------------------------------------------
(* The outer implements the ledger.                                        *)

LEMMA LedgerInit == Init => Ledger!Init
BY DEF Init, Ledger!Init, Zero

LEMMA LedgerStep ==
  ASSUME IInv, IInv', [Next]_vars
  PROVE  [Ledger!Next]_(Ledger!vars)
<1>. USE DEF IInv
<1>1. CASE WriteUpdate
  <2>1. writing \in Slot /\ main = "polling" /\ main' = main /\ logged' = logged
        /\ received' = [received EXCEPT ![writing] = @ + length]
    BY <1>1 DEF WriteUpdate, Busy, TypeOK, Phase
  <2>2. Ledger!Accept(writing, length)
    BY <2>1 DEF Ledger!Accept
  <2>3. length \in Lengths
    BY <1>1 DEF WriteUpdate, CarriesLength
  <2>. QED BY <2>1, <2>2, <2>3 DEF Ledger!Next
<1>2. CASE Check \/ CheckDown
  <2>1. main \in {"polling", "joining"} /\ main' = main /\ received' = received
    BY <1>2 DEF TypeOK, Check, CheckDown, Phase, Awake, Alive
  <2>2. logged \in [Slot -> Nat] /\ logged' \in [Slot -> Nat]
    BY DEF TypeOK
  <2>3. \A s \in Slot : logged[s] <= logged'[s]
    <3>1. CASE logged' = logged
      BY <2>2, <3>1
    <3>2. CASE \E l : logged' = Plus(logged, Held(l))
      BY <2>2, <3>2, HeldType DEF Plus
    <3>3. CASE logged' = Plus(logged, Plus(Held(mSaveData), Held(mData)))
      BY <2>2, <3>3, HeldType DEF Plus
    <3>. QED BY <1>2, <3>1, <3>2, <3>3 DEF Check, CheckDown, LastReport
  <2>4. \A s \in Slot : logged'[s] <= received'[s]
    <3>1. received' = Plus(logged', Pending') /\ Pending' \in [Slot -> Nat]
      <4>1. Held(mData)' \in [Slot -> Nat] /\ Held(mSaveData)' \in [Slot -> Nat] /\ Zero \in [Slot -> Nat]
        BY DEF TypeOK, Held, Zero
      <4>2. Pending' \in [Slot -> Nat]
        BY <4>1, PlusType DEF Pending
      <4>. QED BY <4>2 DEF Conservation
    <3>. QED BY <2>2, <3>1 DEF Plus
  <2>5. Ledger!Report
    BY <2>1, <2>2, <2>3, <2>4 DEF Ledger!Report
  <2>. QED BY <2>5 DEF Ledger!Next
<1>3. CASE Join
  <2>1. main = "joining" /\ main' = "done" /\ logged' = logged /\ received' = received
        /\ timer = "exit"
    BY <1>3 DEF Join
  <2>2. mData = NULL /\ mSaveData = NULL /\ DOMAIN rows = {}
    BY <2>1 DEF Phase, Heap
  <2>3. received = Plus(logged, Plus(Zero, Zero))
    BY <2>2 DEF Conservation, Pending, Held
  <2>4. logged = Plus(logged, Plus(Zero, Zero))
    BY DEF TypeOK, Plus, Zero
  <2>5. Ledger!Close
    BY <2>1, <2>3, <2>4 DEF Ledger!Close
  <2>. QED BY <2>5 DEF Ledger!Next
<1>4. CASE ~(WriteUpdate \/ Check \/ CheckDown \/ Join)
  <2>1. received' = received /\ logged' = logged /\ (main # "done")' = (main # "done")
    BY <1>4 DEF Next, Write, Timer, Done, vars, Create, Run, WriteBegin, Close, RemoveLine,
       Interrupt, Tick
  <2>. QED BY <2>1 DEF Ledger!vars
<1>. QED BY <1>1, <1>2, <1>3, <1>4

\* GatherOuter keeps the promises of ByteLedger: it reports only what it has
\* counted, takes nothing back, and is closed with nothing left to report.
THEOREM Implements == Spec => LedgerSpec
<1>1. IInv /\ IInv' /\ [Next]_vars => [Ledger!Next]_(Ledger!vars)
  BY LedgerStep
<1>. QED BY <1>1, LedgerInit, Invariance, PTL DEF Spec, LedgerSpec, Ledger!Spec
=============================================================================
