-------------------------- MODULE RollingFileProofs --------------------------
(***************************************************************************)
(* Proofs about RollingFile for every length of day and every sequence of  *)
(* short and long days.                                                    *)
(***************************************************************************)
EXTENDS RollingFile, TLAPS

USE DayAssumption, LengthsAssumption, DelayAssumption

LEMMA InitInv == Init => IInv
<1>. SUFFICES ASSUME Init PROVE IInv
  OBVIOUS
<1>1. TypeOK
  BY DEF Init, TypeOK, NoFile
<1>2. Filing /\ InItsDay /\ AtMostADayOff
  BY DEF Init, Filing, InItsDay, AtMostADayOff
<1>3. Ahead /\ OnMidnight /\ RetriedAfterFailure
  BY DEF Init, Ahead, OnMidnight, RetriedAfterFailure
<1>. QED
  BY <1>1, <1>2, <1>3 DEF IInv

LEMMA TypeStep == TypeOK /\ [Next]_vars => TypeOK'
<1>. SUFFICES ASSUME TypeOK, [Next]_vars PROVE TypeOK'
  OBVIOUS
<1>. USE DEF TypeOK, clock, record, NoFile
<1>1. CASE Hour
  BY <1>1 DEF Hour
<1>2. CASE Midnight
  <2>1. regular' \in BOOLEAN
    BY <1>2, Zenon DEF Midnight
  <2>2. hours' \in Lengths /\ hour' = 0 /\ hours' \in (Day - 1) .. (Day + 1)
    BY <1>2 DEF Midnight
  <2>3. day' \in Nat \ {0} /\ midnight' \in Nat
    BY <1>2 DEF Midnight
  <2>4. UNCHANGED <<user, state, mLast, mFile, stamp, handled, filed>>
    BY <1>2 DEF Midnight
  <2>5. hour' \in 0 .. (hours' - 1)
    <3>1. \A h \in (Day - 1) .. (Day + 1) : 0 \in 0 .. (h - 1)
      OBVIOUS
    <3>. QED BY <2>2, <3>1, Zenon
  <2>6. (mLast \in Int)' /\ (mFile \in Nat \cup {NoFile})' /\ (stamp \in Nat /\ handled \in Nat /\ filed \in Nat)'
        /\ (user \in {"gather", "raw"})'
    BY <2>4
  <2>7. (state \in {"new", "open", "closed", "crashed"})'
        /\ (state \in {"new", "closed"} => mFile = NoFile)'
    BY <2>4
  <2>. QED BY <2>1, <2>2, <2>3, <2>5, <2>6, <2>7
<1>3. ASSUME NEW shift \in Shift, NEW ok \in BOOLEAN, Open(shift, ok) PROVE TypeOK'
  <2>1. shift \in Int
    BY DEF Shift
  <2>. QED BY <1>3, <2>1 DEF Open
<1>4. ASSUME NEW ok \in BOOLEAN, NEW empty \in BOOLEAN, NEW late \in Waits,
              Record(ok, empty, late) PROVE TypeOK'
  <2>1. UNCHANGED <<day, hour, hours, midnight, regular>>
    BY <1>4 DEF Record
  <2>2. mLast' \in Int /\ mFile' \in Nat \cup {NoFile}
    BY <1>4 DEF Record, Rolled
  <2>3. stamp' \in Nat /\ handled' \in Nat /\ filed' \in Nat /\ user' = user
    <3>1. Stamped(late) \in Nat
      BY DEF Stamped
    <3>. QED BY <1>4, <2>2, <3>1 DEF Record
  <2>4. state' \in {"open", "crashed"}
    BY <1>4 DEF Record
  <2>. QED BY <2>1, <2>2, <2>3, <2>4
<1>5. CASE Close
  BY <1>5 DEF Close
<1>6. CASE UNCHANGED vars
  BY <1>6 DEF vars
<1>. QED BY <1>1, <1>2, <1>3, <1>4, <1>5, <1>6 DEF Next

LEMMA AheadStep == TypeOK /\ Ahead /\ [Next]_vars => Ahead'
<1>. SUFFICES ASSUME TypeOK, Ahead, [Next]_vars PROVE Ahead'
  OBVIOUS
<1>. USE DEF TypeOK, clock, NoFile, Ahead
<1>1. CASE Hour
  BY <1>1 DEF Hour
<1>2. CASE Midnight
  <2>1. day' = day + 1 /\ midnight' = midnight + hours /\ hours' \in Lengths
        /\ UNCHANGED <<state, mLast, mFile>>
    BY <1>2 DEF Midnight
  <2>2. hours \in (Day - 1) .. (Day + 1) /\ hours' \in (Day - 1) .. (Day + 1)
    BY <2>1
  <2>. SUFFICES ASSUME state = "open", mFile # NoFile PROVE Ahead'
    BY <2>1
  <2>3. mFile < day' /\ mFile \in Nat
    BY <2>1
  <2>4. mFile = day' - 1 => mLast <= midnight' + Day - 1
    BY <2>1, <2>2
  <2>5. mFile < day' - 1 => mLast <= midnight'
    BY <2>1, <2>2
  <2>6. UNCHANGED <<state, mLast, mFile>>
    BY <2>1
  <2>7. day' \in Int
    BY <2>1
  <2>8. mFile <= day' /\ ~(mFile = day')
    BY <2>3, <2>7
  <2>. QED BY <2>4, <2>5, <2>6, <2>8
<1>3. ASSUME NEW shift \in Shift, NEW ok \in BOOLEAN, Open(shift, ok) PROVE Ahead'
  <2>1. shift \in {0, hours - Day} /\ (shift # 0 => hours > 1)
    BY DEF Shift
  <2>. QED BY <1>3, <2>1 DEF Open
<1>4. ASSUME NEW ok \in BOOLEAN, NEW empty \in BOOLEAN, NEW late \in Waits,
              Record(ok, empty, late) PROVE Ahead'
  <2>1. UNCHANGED <<day, hour, hours, midnight>> /\ state = "open"
    BY <1>4 DEF Record
  <2>2. CASE ~Due
    BY <1>4, <2>1, <2>2 DEF Record
  <2>3. CASE Due
    <3>1. mFile' = (IF ok THEN day ELSE NoFile) /\ (ok => mLast' = mLast + Day)
      BY <1>4, <2>3 DEF Record, Rolled
    <3>2. mLast + Day <= midnight + (hours - 1) + Day
      BY <2>3 DEF Due, Now
    <3>. QED BY <2>1, <3>1, <3>2
  <2>. QED BY <2>2, <2>3
<1>5. CASE Close
  BY <1>5 DEF Close
<1>6. CASE UNCHANGED vars
  BY <1>6 DEF vars
<1>. QED BY <1>1, <1>2, <1>3, <1>4, <1>5, <1>6 DEF Next

LEMMA OnMidnightStep == TypeOK /\ OnMidnight /\ [Next]_vars => OnMidnight'
<1>. SUFFICES ASSUME TypeOK, OnMidnight, [Next]_vars PROVE OnMidnight'
  OBVIOUS
<1>. USE DEF TypeOK, clock, NoFile, OnMidnight
<1>1. CASE Hour
  BY <1>1 DEF Hour
<1>2. CASE Midnight
  <2>1. ASSUME regular, hours' = Day, state = "open"
        PROVE  /\ \E n \in 0 .. day' : mLast + n * Day = midnight' + Day
               /\ mLast <= midnight'
    <3>1. PICK n \in 0 .. day : mLast + n * Day = midnight + Day
      BY <2>1
    <3>2. midnight' = midnight + Day /\ day' = day + 1
      BY <1>2, <2>1 DEF Midnight
    <3>3. n * Day \in Nat /\ (n + 1) * Day = n * Day + Day
      OBVIOUS
    <3>4. n + 1 \in 0 .. day' /\ mLast + (n + 1) * Day = midnight' + Day
      BY <3>1, <3>2, <3>3
    <3>5. mLast <= midnight'
      BY <3>1, <3>2, <3>3
    <3>. QED BY <3>4, <3>5
  <2>2. UNCHANGED <<state, mLast, mFile>>
    BY <1>2 DEF Midnight
  <2>3. regular' => regular /\ hours' = Day
    BY <1>2, Zenon DEF Midnight
  <2>. QED BY <2>1, <2>2, <2>3
<1>3. ASSUME NEW shift \in Shift, NEW ok \in BOOLEAN, Open(shift, ok) PROVE OnMidnight'
  <2>1. ASSUME regular, ok
        PROVE  mLast' + 0 * Day = midnight + Day /\ mFile' = day
    BY <1>3, <2>1 DEF Open, Shift
  <2>2. UNCHANGED clock /\ (state' = "open" => ok)
    BY <1>3 DEF Open
  <2>. QED BY <2>1, <2>2
<1>4. ASSUME NEW ok \in BOOLEAN, NEW empty \in BOOLEAN, NEW late \in Waits,
              Record(ok, empty, late) PROVE OnMidnight'
  <2>1. UNCHANGED clock /\ state = "open"
    BY <1>4 DEF Record
  <2>2. CASE ~(Due /\ ok)
    <3>1. mLast' = mLast /\ mFile' \in {mFile, NoFile}
      BY <1>4, <2>2 DEF Record, Rolled
    <3>. QED BY <2>1, <3>1
  <2>3. CASE Due /\ ok
    <3>1. mLast' = mLast + Day /\ mFile' = day
      BY <1>4, <2>3 DEF Record, Rolled
    <3>2. ASSUME regular PROVE \E n \in 0 .. day : mLast' + n * Day = midnight + Day
      <4>1. PICK n \in 0 .. day : mLast + n * Day = midnight + Day
        BY <2>1, <3>2
      <4>2. n # 0
        BY <2>3, <3>2, <4>1 DEF Due, Now
      <4>3. n - 1 \in 0 .. day /\ (n - 1) * Day = n * Day - Day /\ n * Day \in Nat
        BY <4>2
      <4>4. mLast' + (n - 1) * Day = midnight + Day
        BY <3>1, <4>1, <4>3
      <4>. QED BY <4>3, <4>4
    <3>. QED BY <2>1, <3>1, <3>2
  <2>. QED BY <2>2, <2>3
<1>5. CASE Close
  BY <1>5 DEF Close
<1>6. CASE UNCHANGED vars
  BY <1>6 DEF vars
<1>. QED BY <1>1, <1>2, <1>3, <1>4, <1>5, <1>6 DEF Next

\* What the invariant says of the file a record goes to.
LEMMA RecordFile ==
  ASSUME TypeOK, Ahead, OnMidnight, NEW ok \in BOOLEAN, NEW empty \in BOOLEAN,
         NEW late \in Waits, Record(ok, empty, late), mFile' # NoFile
  PROVE  mFile' \in {day, day - 1} /\ (regular => mFile' = day)
<1>. USE DEF TypeOK, NoFile
<1>1. CASE Due
  BY <1>1 DEF Record, Rolled
<1>2. CASE ~Due
  <2>1. mFile' = mFile /\ midnight + hour < mLast /\ state = "open"
    BY <1>2 DEF Record, Due, Now
  <2>2. mFile \in {day, day - 1}
    BY <2>1 DEF Ahead
  <2>3. regular => mFile = day
    BY <2>1, <2>2 DEF OnMidnight
  <2>. QED BY <2>1, <2>2, <2>3
<1>. QED BY <1>1, <1>2

LEMMA FiledStep ==
  TypeOK /\ Ahead /\ OnMidnight /\ Filing /\ InItsDay /\ AtMostADayOff /\ [Next]_vars
    => Filing' /\ InItsDay' /\ AtMostADayOff'
<1>. SUFFICES ASSUME TypeOK, Ahead, OnMidnight, Filing, InItsDay, AtMostADayOff,
                     [Next]_vars
     PROVE  Filing' /\ InItsDay' /\ AtMostADayOff'
  OBVIOUS
<1>. USE DEF TypeOK, clock, record, Filing, InItsDay, AtMostADayOff
<1>1. ASSUME NEW ok \in BOOLEAN, NEW empty \in BOOLEAN, NEW late \in Waits,
             Record(ok, empty, late)
      PROVE  Filing' /\ InItsDay' /\ AtMostADayOff'
  <2>1. UNCHANGED <<regular, user>>
    BY <1>1 DEF Record
  <2>2. CASE UNCHANGED record
    BY <2>1, <2>2
  <2>3. CASE stamp' = Stamped(late) /\ handled' = day /\ filed' = mFile' /\ mFile' # NoFile
    <3>1. filed' \in {day, day - 1} /\ (regular => filed' = day)
      BY <1>1, <2>3, RecordFile
    <3>2. stamp' \in {day, day - 1} /\ (user = "gather" => stamp' = day)
      BY <2>3 DEF Stamped, Waits
    <3>. QED BY <2>1, <2>3, <3>1, <3>2
  <2>. QED BY <1>1, <2>2, <2>3 DEF Record
<1>2. CASE Hour \/ Midnight \/ Close \/ UNCHANGED vars
  <2>1. UNCHANGED record /\ UNCHANGED user
    BY <1>2 DEF Hour, Midnight, Close, vars
  <2>2. regular' => regular
    <3>1. CASE Midnight
      BY <3>1, Zenon DEF Midnight
    <3>2. CASE UNCHANGED regular
      BY <3>2
    <3>. QED BY <1>2, <3>1, <3>2 DEF Hour, Close, vars
  <2>. QED BY <2>1, <2>2
<1>3. ASSUME NEW shift \in Shift, NEW ok \in BOOLEAN, Open(shift, ok)
      PROVE  Filing' /\ InItsDay' /\ AtMostADayOff'
  BY <1>3 DEF Open
<1>. QED BY <1>1, <1>2, <1>3 DEF Next

LEMMA RetryStep ==
  TypeOK /\ RetriedAfterFailure /\ [Next]_vars => RetriedAfterFailure'
<1>. SUFFICES ASSUME TypeOK, RetriedAfterFailure, [Next]_vars
     PROVE  RetriedAfterFailure'
  OBVIOUS
<1>. USE DEF TypeOK, clock, NoFile, RetriedAfterFailure, Due, Now
<1>1. ASSUME NEW ok \in BOOLEAN, NEW empty \in BOOLEAN, NEW late \in Waits,
              Record(ok, empty, late)
      PROVE  RetriedAfterFailure'
  BY <1>1 DEF Record, Rolled
<1>2. CASE Hour \/ Midnight \/ Close \/ UNCHANGED vars
  BY <1>2 DEF Hour, Midnight, Close, vars
<1>3. ASSUME NEW shift \in Shift, NEW ok \in BOOLEAN, Open(shift, ok)
      PROVE  RetriedAfterFailure'
  BY <1>3 DEF Open
<1>. QED BY <1>1, <1>2, <1>3 DEF Next

\* The invariant holds in every state of every behaviour.
THEOREM Invariance == Spec => []IInv
<1>1. IInv /\ [Next]_vars => IInv'
  BY TypeStep, AheadStep, OnMidnightStep, FiledStep, RetryStep DEF IInv
<1>. QED BY <1>1, InitInv, PTL DEF Spec

\* In regular times every record is in the file of the day on which it is written,
\* a row of GatherOuter in the file of its own day (checkAndRoll, RemoveLine, Write).
THEOREM InItsDayHolds == Spec => []InItsDay
<1>1. IInv => InItsDay
  BY DEF IInv
<1>. QED BY <1>1, Invariance, PTL

\* With changes of daylight saving time a row of GatherOuter is late by one day at
\* most, and a record of RawOuter off by one day at most.
THEOREM AtMostADayOffHolds == Spec => []AtMostADayOff
<1>1. IInv => AtMostADayOff
  BY DEF IInv
<1>. QED BY <1>1, Invariance, PTL

\* A file that could not be opened is tried again by the next record.
THEOREM RetriedAfterFailureHolds == Spec => []RetriedAfterFailure
<1>1. IInv => RetriedAfterFailure
  BY DEF IInv
<1>. QED BY <1>1, Invariance, PTL

\* Every variable keeps its type, and an outer that is not open has no file
\* (CRollingFile::close).
THEOREM TypeCorrect == Spec => []TypeOK
<1>1. IInv => TypeOK
  BY DEF IInv
<1>. QED BY <1>1, Invariance, PTL
=============================================================================
