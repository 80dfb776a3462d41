----------------------------- MODULE RollingFile -----------------------------
(***************************************************************************)
(* CRollingFile (src/src/RollingFile.cpp) gives GatherOuter and RawOuter   *)
(* one log file per day of local time.  open() computes the next midnight  *)
(* once; after that checkAndRoll() only ever adds 24 hours to it.  The     *)
(* days of local time are not all 24 hours long, and fopen can fail.       *)
(*                                                                         *)
(* Time is counted in hours: mLast and the ends of days are always on the  *)
(* hour, so no comparison of the code can tell two times of one hour       *)
(* apart.  The clock is the time that the next record passes to            *)
(* checkAndRoll, which never goes back.  For GatherOuter that is the start *)
(* of the line, with which it also stamps the line's rows.  RawOuter       *)
(* passes time(NULL) and stamps the record with packet.tv_sec, the earlier *)
(* moment at which the packet was captured.                                *)
(***************************************************************************)
EXTENDS Integers

CONSTANTS
  Day,       \* hours in 24 hours: CONST_MAX_ACTIVITY_DURATION
  Lengths,   \* how many hours a day of local time may have
  Delay,     \* for how many hours a captured packet may wait to be written
  LastDay    \* bound: the clock stops on this day

ASSUME DayAssumption == Day \in Nat /\ Day > 1

\* A change of daylight saving time makes a day an hour shorter or longer.
ASSUME LengthsAssumption ==
  Day \in Lengths /\ Lengths \subseteq (Day - 1) .. (Day + 1)

\* No packet waits for a whole day.
ASSUME DelayAssumption == Delay \in Nat /\ Delay < Day - 1

ASSUME LastDayAssumption == LastDay \in Nat

VARIABLES
  day, hour,  \* the clock, in local time
  hours,      \* the length of the day
  midnight,   \* the start of the day, in time_t
  regular,    \* every day so far had 24 hours
  user,       \* the outer that owns the file, "gather" or "raw"
  state,      \* of that outer
  mLast,      \* when to roll
  mFile,      \* the day the open file is named after, or NoFile
  stamp,      \* the day of the time printed in the last record
  handled,    \* the day on which it was written
  filed       \* the day of the file it was written to

vars == <<day, hour, hours, midnight, regular, user, state, mLast, mFile,
          stamp, handled, filed>>

clock == <<day, hour, hours, midnight, regular>>

NoFile == -1

record == <<stamp, handled, filed>>

Now == midnight + hour

Init ==
  /\ day = 1 /\ midnight = 0
  /\ hours \in Lengths /\ regular = (hours = Day)
  /\ hour \in 0 .. (hours - 1)
  /\ user \in {"gather", "raw"}
  /\ state = "new"
  /\ mLast = 0 /\ mFile = NoFile
  /\ stamp = 0 /\ handled = 0 /\ filed = 0

Hour ==
  /\ hour + 1 < hours
  /\ hour' = hour + 1
  /\ UNCHANGED <<day, hours, midnight, regular, user, state, mLast, mFile, record>>

Midnight ==
  /\ hour + 1 = hours /\ day < LastDay
  /\ day' = day + 1 /\ hour' = 0
  /\ midnight' = midnight + hours
  /\ hours' \in Lengths
  /\ regular' = (regular /\ hours' = Day)
  /\ UNCHANGED <<user, state, mLast, mFile, record>>

\* What mktime makes of 00:00 of today: tm_isdst is that of the moment, so on a
\* day with a change of daylight saving time, after the change, it is off by the
\* hour the day is short or long.
Shift == {0} \cup (IF hour > 0 THEN {hours - Day} ELSE {})

\* CRollingFile::open.  mktime also puts the date right, and the name is made
\* from that.  When fopen fails Create fails and the outer is not used.
Open(shift, ok) ==
  /\ state = "new"
  /\ IF ok
     THEN /\ state' = "open"
          /\ mFile' = IF shift < 0 THEN day - 1 ELSE day
          /\ mLast' = midnight + shift + Day
     ELSE /\ state' = "closed"
          /\ mFile' = NoFile
          /\ mLast' = midnight + shift
  /\ UNCHANGED <<clock, user, record>>

\* Mutated Due: a day too late.
DueNextDay == Now >= mLast + Day

Due == Now >= mLast

\* Mutated Rolled: 24 hours after the record instead of the last midnight.
RolledFromNow(ok) == [file |-> IF ok THEN day ELSE NoFile,
                      next |-> IF ok THEN Now + Day ELSE mLast]
\* Mutated Rolled: advanced though fopen failed.
RolledAnyway(ok) == [file |-> IF ok THEN day ELSE NoFile,
                     next |-> mLast + Day]

\* checkAndRoll when it is due: the new mFile and mLast.
Rolled(ok) == [file |-> IF ok THEN day ELSE NoFile,
               next |-> IF ok THEN mLast + Day ELSE mLast]

\* The day of the time printed in a record written now: of the line, or of a
\* packet captured some hours ago.
Stamped(late) == IF late <= hour THEN day ELSE day - 1

Waits == IF user = "raw" THEN 0 .. Delay ELSE {0}

\* checkAndRoll and the writing of a record to Handle().  GatherOuter may have a
\* line without rows, which writes nothing; a record for a null handle ends the
\* process.
Record(ok, empty, late) ==
  /\ state = "open"
  /\ empty => user = "gather"
  /\ IF Due
     THEN mFile' = Rolled(ok).file /\ mLast' = Rolled(ok).next
     ELSE UNCHANGED <<mFile, mLast>>
  /\ IF empty
     THEN UNCHANGED <<state, record>>
     ELSE IF mFile' = NoFile
     THEN state' = "crashed" /\ UNCHANGED record
     ELSE /\ stamp' = Stamped(late) /\ handled' = day /\ filed' = mFile'
          /\ UNCHANGED state
  /\ UNCHANGED <<clock, user>>

\* Mutated Close: the handle is kept.
CloseKept ==
  /\ state = "open"
  /\ state' = "closed"
  /\ UNCHANGED <<clock, user, mLast, mFile, record>>

Close ==
  /\ state = "open"
  /\ state' = "closed"
  /\ mFile' = NoFile
  /\ UNCHANGED <<clock, user, mLast, record>>

Next ==
  \/ Hour \/ Midnight
  \/ \E shift \in Shift, ok \in BOOLEAN : Open(shift, ok)
  \/ \E ok, empty \in BOOLEAN, late \in Waits : Record(ok, empty, late)
  \/ Close

Spec == Init /\ [][Next]_vars
-----------------------------------------------------------------------------
TypeOK ==
  /\ day \in Nat \ {0} /\ midnight \in Nat
  /\ hours \in Lengths /\ hour \in 0 .. (hours - 1)
  /\ regular \in BOOLEAN
  /\ user \in {"gather", "raw"}
  /\ state \in {"new", "open", "closed", "crashed"}
  /\ mLast \in Int
  /\ mFile \in Nat \cup {NoFile}
  /\ state \in {"new", "closed"} => mFile = NoFile
  /\ stamp \in Nat /\ handled \in Nat /\ filed \in Nat

\* As long as every day has 24 hours, a record is in the file of the day on which
\* it is written, whatever the gaps between records and however often fopen has
\* failed.  For a row of GatherOuter that is the day it is stamped with; a record
\* of RawOuter is in the next day's file when its packet was captured before
\* midnight and written after it (Output.cpp:128, 133).
InItsDay ==
  regular => /\ filed = handled
             /\ user = "gather" => filed = stamp
             /\ user = "raw" => filed \in {stamp, stamp + 1}

\* With short and long days it may be in the file of the day before the one on
\* which it is written, never in an older one and never in a later one: a row is
\* at most a day late, a record of RawOuter at most a day off.
AtMostADayOff ==
  /\ filed \in {handled, handled - 1}
  /\ user = "gather" => filed \in {stamp, stamp - 1}
  /\ user = "raw" => filed \in (stamp - 1) .. (stamp + 1)

\* After a failure of fopen the next record tries again.
RetriedAfterFailure == state = "open" /\ mFile = NoFile => Due
-----------------------------------------------------------------------------
(* The invariant the proofs are about.                                     *)

\* How far ahead mLast can be of the clock, by the age of the open file.
Ahead ==
  state = "open" /\ mFile # NoFile =>
    /\ mFile <= day
    /\ mFile = day => mLast <= midnight + (hours - 1) + Day
    /\ mFile = day - 1 => mLast <= midnight + Day - 1
    /\ mFile < day - 1 => mLast <= midnight

\* In regular times mLast is a midnight: of tomorrow, once a file of today is open.
OnMidnight ==
  /\ regular => hours = Day
  /\ regular /\ state = "open" =>
       /\ \E n \in 0 .. day : mLast + n * Day = midnight + Day
       /\ mFile # NoFile /\ mFile < day => mLast <= midnight

\* The day of a record is the one on which it is written or, for a packet, the
\* one before.
Filing == handled = stamp \/ (user = "raw" /\ handled = stamp + 1)

IInv ==
  /\ TypeOK /\ Ahead /\ OnMidnight
  /\ Filing /\ InItsDay /\ AtMostADayOff /\ RetriedAfterFailure
=============================================================================
