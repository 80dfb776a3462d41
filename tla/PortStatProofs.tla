----------------------------- MODULE PortStatProofs -----------------------------
(***************************************************************************)
(* Proofs about PortStat for any number of signals, on either thread, at   *)
(* any moment, and for every set of mishaps allowed.                       *)
(***************************************************************************)
EXTENDS PortStat, TLAPS

USE SignalAssumption

\* The modes make no other outers than the three.
LEMMA ModesAreOuters == \A m \in OutputModes : m \subseteq Outer
BY DEF OutputModes, Outer

\* The places are what they are; nothing more about them is needed below.
LEMMA Places ==
  /\ {"create", "daemonize", "store", "writePid", "install", "run", "thread", "poll",
      "write", "close", "deleted", "freeing", "finish"} \subseteq MainPlace
  /\ {"idle", "enter", "mark", "check", "signed", "fclose", "sign", "join", "rclose",
      "return", "left"} \cup Outer \subseteq FramePlace
  /\ {"none", "ready", "draining", "ending", "over"} \subseteq TimerPlace
  /\ {"none", "empty", "stored", "unlinked"} \subseteq PidFileState
  /\ {"no", "failed", "killed", "returned", "exited", "crashed"} \subseteq End
  /\ {"new", "run", "signed", "down"} \subseteq Status
BY DEF MainPlace, BeforeSignal, FramePlace, TimerPlace, PidFileState, End, Status

LEMMA Follows == \A o \in Outer : Following[o] \in Outer \cup {"return"}
BY DEF Outer, Following

\* Every step keeps the types.
LEMMA TypeStep ==
  ASSUME TypeOK, BodyInv, [Next]_vars
  PROVE  TypeOK'
<1>. outers \subseteq Outer
  BY ModesAreOuters DEF TypeOK
<1>. "file" \in Outer /\ "gather" \in Outer /\ "raw" \in Outer
  BY DEF Outer
<1>. USE DEF TypeOK, vars, config, sigs, Executes
<1>1. CASE Create
  BY <1>1, Places DEF Create
<1>2. CASE CreateFails
  BY <1>2, Places DEF CreateFails
<1>3. CASE Daemonize
  BY <1>3, Places DEF Daemonize
<1>4. CASE OpenPid
  BY <1>4, Places DEF OpenPid
<1>5. CASE OpenFails
  BY <1>5, Places DEF OpenFails
<1>6. CASE StorePid
  BY <1>6, Places DEF StorePid
<1>7. CASE Unwritable
  BY <1>7, Places DEF Unwritable
<1>8. CASE Install
  BY <1>8, Places DEF Install
<1>9. CASE RunOuter
  BY <1>9, Places, Follows DEF RunOuter
<1>10. CASE StartThread
  BY <1>10, Places, Follows DEF StartThread, BodyInv
<1>11. CASE NoThread
  BY <1>11, Places, Follows DEF NoThread, BodyInv
<1>12. CASE StartPolling
  BY <1>12, Places DEF StartPolling
<1>13. CASE WriteOuter
  <2>1. UNCHANGED <<config, main, status, usable, inputer, pidFile, timer, lock,
                    frame, sigs>>
    BY <1>13 DEF WriteOuter
  <2>2. turn' \in Outer \cup {"return"}
    BY <1>13, Follows DEF WriteOuter
  <2>3. unsaved' \in BOOLEAN
    BY <1>13, Zenon DEF WriteOuter
  <2>4. ended' \in End
    BY <1>13, Places DEF WriteOuter
  <2>. QED BY <2>1, <2>2, <2>3, <2>4
<1>14. CASE SkipOuter
  BY <1>14, Places, Follows DEF SkipOuter
<1>15. CASE Written
  BY <1>15, Places DEF Written
<1>16. CASE LeaveLoop
  BY <1>16, Places DEF LeaveLoop, Frame
<1>17. CASE Delete
  BY <1>17, Places DEF Delete, Frame
<1>18. CASE FreePrefs
  BY <1>18, Places DEF FreePrefs
<1>19. CASE ClearPrefs
  BY <1>19, Places DEF ClearPrefs
<1>20. CASE Return
  BY <1>20, Places DEF Return
<1>21. CASE Arrive
  BY <1>21, Places DEF Arrive
<1>22. CASE PrintSaved
  BY <1>22, Places DEF PrintSaved
<1>23. CASE Drain
  BY <1>23, Places DEF Drain
<1>24. CASE Drained
  BY <1>24, Places DEF Drained
<1>25. CASE ThreadEnds
  BY <1>25, Places DEF ThreadEnds
<1>26. CASE DefaultAction
  BY <1>26, Places DEF DefaultAction
<1>27. CASE UseDeleted
  BY <1>27, Places DEF UseDeleted
<1>28. ASSUME NEW f \in Frame, CloseCheck(f) PROVE TypeOK'
  BY <1>28, Places DEF CloseCheck, Shutdown
<1>29. ASSUME NEW f \in Frame, CloseSigned(f) PROVE TypeOK'
  BY <1>29, Places DEF CloseSigned
<1>30. ASSUME NEW f \in Frame, CloseOuter(f) PROVE TypeOK'
  <2>1. UNCHANGED <<config, main, turn, usable, inputer, pidFile, timer, lock,
                    unsaved, sigs, ended>>
    BY <1>30 DEF CloseOuter
  <2>2. status' \in [Outer -> Status]
    BY <1>30, Places DEF CloseOuter
  <2>3. frame' \in [Frame -> FramePlace]
    BY <1>30, Places, Follows DEF CloseOuter, Closing, Outer
  <2>. QED BY <2>1, <2>2, <2>3
<1>31. ASSUME NEW f \in Frame, CloseFile(f) PROVE TypeOK'
  BY <1>31, Places, Follows DEF CloseFile
<1>32. ASSUME NEW f \in Frame, CloseRaw(f) PROVE TypeOK'
  BY <1>32, Places, Follows DEF CloseRaw
<1>33. ASSUME NEW f \in Frame, SignOff(f) PROVE TypeOK'
  BY <1>33, Places DEF SignOff
<1>34. ASSUME NEW f \in Frame, CloseJoin(f) PROVE TypeOK'
  BY <1>34, Places DEF CloseJoin
<1>35. ASSUME NEW t \in Thread, NEW inside \in BOOLEAN, Signal(t, inside) PROVE TypeOK'
  <2>1. UNCHANGED <<config, main, turn, status, usable, inputer, pidFile, timer,
                    unsaved, called>>
    BY <1>35 DEF Signal
  <2>2. signals' \in 0 .. MaxSignals /\ mishaps' \subseteq Allowed
    BY <1>35 DEF Signal
  <2>3. nested' \subseteq Thread /\ ended' \in End /\ lock' \in Thread \cup {"none"}
    BY <1>35, Places DEF Signal
  <2>4. frame' \in [Frame -> FramePlace]
    BY <1>35, Places DEF Signal
  <2>. QED BY <2>1, <2>2, <2>3, <2>4
<1>36. ASSUME NEW t \in Thread, Enter(t) PROVE TypeOK'
  <2>1. mishaps' \subseteq Allowed
    BY <1>36 DEF Enter
  <2>. QED BY <1>36, <2>1, Places DEF Enter
<1>37. ASSUME NEW t \in Thread, Mark(t) PROVE TypeOK'
  BY <1>37, Places DEF Mark
<1>38. ASSUME NEW t \in Thread, Leave(t) PROVE TypeOK'
  <2>1. UNCHANGED <<config, main, turn, status, usable, inputer, timer, lock,
                    unsaved, sigs, ended>>
    BY <1>38 DEF Leave
  <2>2. pidFile' \in PidFileState
    BY <1>38, Places DEF Leave
  <2>3. frame' \in [Frame -> FramePlace]
    BY <1>38, Places DEF Leave
  <2>. QED BY <2>1, <2>2, <2>3
<1>39. ASSUME NEW t \in Thread, Back(t) PROVE TypeOK'
  BY <1>39, Places DEF Back
<1>40. CASE UNCHANGED vars
  BY <1>40
<1>. QED
  BY <1>1, <1>2, <1>3, <1>4, <1>5, <1>6, <1>7, <1>8, <1>9, <1>10, <1>11, <1>12,
      <1>13, <1>14, <1>15, <1>16, <1>17, <1>18, <1>19, <1>20, <1>21, <1>22,
      <1>23, <1>24, <1>25, <1>26, <1>27, <1>28, <1>29, <1>30, <1>31, <1>32,
      <1>33, <1>34, <1>35, <1>36, <1>37, <1>38, <1>39, <1>40,
      Zenon DEF Next, Main, Timer, Close, CloseStep, Handler, Done

\* Only main sets the status of the inputer, but for Shutdown.
LEMMA InputerStep ==
  ASSUME TypeOK, InputerInv, [Next]_vars
  PROVE  InputerInv'
<1>. outers \subseteq Outer
  BY ModesAreOuters DEF TypeOK
<1>. USE DEF TypeOK, InputerInv, Starting, Deleted, vars, config, sigs,
    Executes, CanTrace, BeforeSignal, Outer, Thread, Frame, Following, Status
<1>1. CASE Create
  BY <1>1 DEF Create
<1>2. CASE CreateFails
  BY <1>2 DEF CreateFails
<1>3. CASE Daemonize
  BY <1>3 DEF Daemonize
<1>4. CASE OpenPid
  BY <1>4 DEF OpenPid
<1>5. CASE OpenFails
  BY <1>5 DEF OpenFails
<1>6. CASE StorePid
  BY <1>6 DEF StorePid
<1>7. CASE Unwritable
  BY <1>7 DEF Unwritable
<1>8. CASE Install
  BY <1>8 DEF Install
<1>9. CASE RunOuter
  BY <1>9 DEF RunOuter
<1>10. CASE StartThread
  BY <1>10 DEF StartThread
<1>11. CASE NoThread
  BY <1>11 DEF NoThread
<1>12. CASE StartPolling
  BY <1>12 DEF StartPolling
<1>13. CASE WriteOuter
  BY <1>13 DEF WriteOuter
<1>14. CASE SkipOuter
  BY <1>14 DEF SkipOuter
<1>15. CASE Written
  BY <1>15 DEF Written
<1>16. CASE LeaveLoop
  BY <1>16 DEF LeaveLoop
<1>17. CASE Delete
  BY <1>17 DEF Delete
<1>18. CASE FreePrefs
  BY <1>18 DEF FreePrefs
<1>19. CASE ClearPrefs
  BY <1>19 DEF ClearPrefs
<1>20. CASE Return
  BY <1>20 DEF Return
<1>21. CASE Arrive
  BY <1>21 DEF Arrive
<1>22. CASE PrintSaved
  BY <1>22 DEF PrintSaved
<1>23. CASE Drain
  BY <1>23 DEF Drain
<1>24. CASE Drained
  BY <1>24 DEF Drained
<1>25. CASE ThreadEnds
  BY <1>25 DEF ThreadEnds
<1>26. CASE DefaultAction
  BY <1>26 DEF DefaultAction
<1>27. CASE UseDeleted
  BY <1>27 DEF UseDeleted
<1>28. ASSUME NEW f \in Frame, CloseCheck(f) PROVE InputerInv'
  BY <1>28 DEF CloseCheck, Shutdown, Active
<1>29. ASSUME NEW f \in Frame, CloseSigned(f) PROVE InputerInv'
  BY <1>29 DEF CloseSigned, Active
<1>30. ASSUME NEW f \in Frame, CloseOuter(f) PROVE InputerInv'
  BY <1>30 DEF CloseOuter, Active, Closing
<1>31. ASSUME NEW f \in Frame, CloseFile(f) PROVE InputerInv'
  BY <1>31 DEF CloseFile, Active
<1>32. ASSUME NEW f \in Frame, CloseRaw(f) PROVE InputerInv'
  BY <1>32 DEF CloseRaw, Active
<1>33. ASSUME NEW f \in Frame, SignOff(f) PROVE InputerInv'
  BY <1>33 DEF SignOff, Active
<1>34. ASSUME NEW f \in Frame, CloseJoin(f) PROVE InputerInv'
  BY <1>34 DEF CloseJoin, Active
<1>35. ASSUME NEW t \in Thread, NEW inside \in BOOLEAN, Signal(t, inside) PROVE InputerInv'
  BY <1>35 DEF Signal, Exists, MishapOf
<1>36. ASSUME NEW t \in Thread, Enter(t) PROVE InputerInv'
  BY <1>36 DEF Enter, Races
<1>37. ASSUME NEW t \in Thread, Mark(t) PROVE InputerInv'
  BY <1>37 DEF Mark
<1>38. ASSUME NEW t \in Thread, Leave(t) PROVE InputerInv'
  BY <1>38 DEF Leave
<1>39. ASSUME NEW t \in Thread, Back(t) PROVE InputerInv'
  BY <1>39 DEF Back
<1>40. CASE UNCHANGED vars
  BY <1>40
<1>. QED
  BY <1>1, <1>2, <1>3, <1>4, <1>5, <1>6, <1>7, <1>8, <1>9, <1>10, <1>11, <1>12,
      <1>13, <1>14, <1>15, <1>16, <1>17, <1>18, <1>19, <1>20, <1>21, <1>22,
      <1>23, <1>24, <1>25, <1>26, <1>27, <1>28, <1>29, <1>30, <1>31, <1>32,
      <1>33, <1>34, <1>35, <1>36, <1>37, <1>38, <1>39, <1>40,
      Zenon DEF Next, Main, Timer, Close, CloseStep, Handler, Done

\* main's own call of Close belongs to where main is.
LEMMA BodyStep ==
  ASSUME TypeOK, InputerInv, BodyInv, [Next]_vars
  PROVE  BodyInv'
<1>. outers \subseteq Outer
  BY ModesAreOuters DEF TypeOK
<1>. USE DEF TypeOK, InputerInv, BodyInv, Starting, Deleted, vars, config, sigs, Executes,
    CanTrace, BeforeSignal, Outer, Thread, Frame, Following, Status
<1>1. CASE Create
  BY <1>1 DEF Create
<1>2. CASE CreateFails
  BY <1>2 DEF CreateFails
<1>3. CASE Daemonize
  BY <1>3 DEF Daemonize
<1>4. CASE OpenPid
  BY <1>4 DEF OpenPid
<1>5. CASE OpenFails
  BY <1>5 DEF OpenFails
<1>6. CASE StorePid
  BY <1>6 DEF StorePid
<1>7. CASE Unwritable
  BY <1>7 DEF Unwritable
<1>8. CASE Install
  BY <1>8 DEF Install
<1>9. CASE RunOuter
  BY <1>9 DEF RunOuter
<1>10. CASE StartThread
  BY <1>10 DEF StartThread
<1>11. CASE NoThread
  BY <1>11 DEF NoThread
<1>12. CASE StartPolling
  BY <1>12 DEF StartPolling
<1>13. CASE WriteOuter
  BY <1>13 DEF WriteOuter
<1>14. CASE SkipOuter
  BY <1>14 DEF SkipOuter
<1>15. CASE Written
  BY <1>15 DEF Written
<1>16. CASE LeaveLoop
  BY <1>16 DEF LeaveLoop
<1>17. CASE Delete
  BY <1>17 DEF Delete
<1>18. CASE FreePrefs
  BY <1>18 DEF FreePrefs
<1>19. CASE ClearPrefs
  BY <1>19 DEF ClearPrefs
<1>20. CASE Return
  BY <1>20 DEF Return
<1>21. CASE Arrive
  BY <1>21 DEF Arrive
<1>22. CASE PrintSaved
  BY <1>22 DEF PrintSaved
<1>23. CASE Drain
  BY <1>23 DEF Drain
<1>24. CASE Drained
  BY <1>24 DEF Drained
<1>25. CASE ThreadEnds
  BY <1>25 DEF ThreadEnds
<1>26. CASE DefaultAction
  BY <1>26 DEF DefaultAction
<1>27. CASE UseDeleted
  BY <1>27 DEF UseDeleted
<1>28. ASSUME NEW f \in Frame, CloseCheck(f) PROVE BodyInv'
  BY <1>28 DEF CloseCheck, Shutdown, Active
<1>29. ASSUME NEW f \in Frame, CloseSigned(f) PROVE BodyInv'
  BY <1>29 DEF CloseSigned, Active
<1>30. ASSUME NEW f \in Frame, CloseOuter(f) PROVE BodyInv'
  BY <1>30 DEF CloseOuter, Active, Closing
<1>31. ASSUME NEW f \in Frame, CloseFile(f) PROVE BodyInv'
  BY <1>31 DEF CloseFile, Active
<1>32. ASSUME NEW f \in Frame, CloseRaw(f) PROVE BodyInv'
  BY <1>32 DEF CloseRaw, Active
<1>33. ASSUME NEW f \in Frame, SignOff(f) PROVE BodyInv'
  BY <1>33 DEF SignOff, Active
<1>34. ASSUME NEW f \in Frame, CloseJoin(f) PROVE BodyInv'
  BY <1>34 DEF CloseJoin, Active
<1>35. ASSUME NEW t \in Thread, NEW inside \in BOOLEAN, Signal(t, inside) PROVE BodyInv'
  BY <1>35 DEF Signal, Exists, MishapOf
<1>36. ASSUME NEW t \in Thread, Enter(t) PROVE BodyInv'
  BY <1>36 DEF Enter, Races
<1>37. ASSUME NEW t \in Thread, Mark(t) PROVE BodyInv'
  BY <1>37 DEF Mark
<1>38. ASSUME NEW t \in Thread, Leave(t) PROVE BodyInv'
  BY <1>38 DEF Leave
<1>39. ASSUME NEW t \in Thread, Back(t) PROVE BodyInv'
  BY <1>39 DEF Back
<1>40. CASE UNCHANGED vars
  BY <1>40
<1>. QED
  BY <1>1, <1>2, <1>3, <1>4, <1>5, <1>6, <1>7, <1>8, <1>9, <1>10, <1>11, <1>12,
      <1>13, <1>14, <1>15, <1>16, <1>17, <1>18, <1>19, <1>20, <1>21, <1>22,
      <1>23, <1>24, <1>25, <1>26, <1>27, <1>28, <1>29, <1>30, <1>31, <1>32,
      <1>33, <1>34, <1>35, <1>36, <1>37, <1>38, <1>39, <1>40,
      Zenon DEF Next, Main, Timer, Close, CloseStep, Handler, Done

\* The timer thread is made after the statuses of the outers before it are set.
LEMMA ThreadStep ==
  ASSUME TypeOK, BodyInv, ThreadInv, [Next]_vars
  PROVE  ThreadInv'
<1>. outers \subseteq Outer
  BY ModesAreOuters DEF TypeOK
<1>. USE DEF TypeOK, BodyInv, ThreadInv, Starting, Deleted, vars, config, sigs, Executes,
    CanTrace, BeforeSignal, Outer, Thread, Frame, Following, Status
<1>1. CASE Create
  BY <1>1 DEF Create
<1>2. CASE CreateFails
  BY <1>2 DEF CreateFails
<1>3. CASE Daemonize
  BY <1>3 DEF Daemonize
<1>4. CASE OpenPid
  BY <1>4 DEF OpenPid
<1>5. CASE OpenFails
  BY <1>5 DEF OpenFails
<1>6. CASE StorePid
  BY <1>6 DEF StorePid
<1>7. CASE Unwritable
  BY <1>7 DEF Unwritable
<1>8. CASE Install
  BY <1>8 DEF Install
<1>9. CASE RunOuter
  BY <1>9 DEF RunOuter
<1>10. CASE StartThread
  BY <1>10 DEF StartThread
<1>11. CASE NoThread
  BY <1>11 DEF NoThread
<1>12. CASE StartPolling
  BY <1>12 DEF StartPolling
<1>13. CASE WriteOuter
  BY <1>13 DEF WriteOuter
<1>14. CASE SkipOuter
  BY <1>14 DEF SkipOuter
<1>15. CASE Written
  BY <1>15 DEF Written
<1>16. CASE LeaveLoop
  BY <1>16 DEF LeaveLoop
<1>17. CASE Delete
  BY <1>17 DEF Delete
<1>18. CASE FreePrefs
  BY <1>18 DEF FreePrefs
<1>19. CASE ClearPrefs
  BY <1>19 DEF ClearPrefs
<1>20. CASE Return
  BY <1>20 DEF Return
<1>21. CASE Arrive
  BY <1>21 DEF Arrive
<1>22. CASE PrintSaved
  BY <1>22 DEF PrintSaved
<1>23. CASE Drain
  BY <1>23 DEF Drain
<1>24. CASE Drained
  BY <1>24 DEF Drained
<1>25. CASE ThreadEnds
  BY <1>25 DEF ThreadEnds
<1>26. CASE DefaultAction
  BY <1>26 DEF DefaultAction
<1>27. CASE UseDeleted
  BY <1>27 DEF UseDeleted
<1>28. ASSUME NEW f \in Frame, CloseCheck(f) PROVE ThreadInv'
  BY <1>28 DEF CloseCheck, Shutdown, Active
<1>29. ASSUME NEW f \in Frame, CloseSigned(f) PROVE ThreadInv'
  BY <1>29 DEF CloseSigned, Active
<1>30. ASSUME NEW f \in Frame, CloseOuter(f) PROVE ThreadInv'
  BY <1>30 DEF CloseOuter, Active, Closing
<1>31. ASSUME NEW f \in Frame, CloseFile(f) PROVE ThreadInv'
  BY <1>31 DEF CloseFile, Active
<1>32. ASSUME NEW f \in Frame, CloseRaw(f) PROVE ThreadInv'
  BY <1>32 DEF CloseRaw, Active
<1>33. ASSUME NEW f \in Frame, SignOff(f) PROVE ThreadInv'
  BY <1>33 DEF SignOff, Active
<1>34. ASSUME NEW f \in Frame, CloseJoin(f) PROVE ThreadInv'
  BY <1>34 DEF CloseJoin, Active
<1>35. ASSUME NEW t \in Thread, NEW inside \in BOOLEAN, Signal(t, inside) PROVE ThreadInv'
  BY <1>35 DEF Signal, Exists, MishapOf
<1>36. ASSUME NEW t \in Thread, Enter(t) PROVE ThreadInv'
  BY <1>36 DEF Enter, Races
<1>37. ASSUME NEW t \in Thread, Mark(t) PROVE ThreadInv'
  BY <1>37 DEF Mark
<1>38. ASSUME NEW t \in Thread, Leave(t) PROVE ThreadInv'
  BY <1>38 DEF Leave
<1>39. ASSUME NEW t \in Thread, Back(t) PROVE ThreadInv'
  BY <1>39 DEF Back
<1>40. CASE UNCHANGED vars
  BY <1>40
<1>. QED
  BY <1>1, <1>2, <1>3, <1>4, <1>5, <1>6, <1>7, <1>8, <1>9, <1>10, <1>11, <1>12,
      <1>13, <1>14, <1>15, <1>16, <1>17, <1>18, <1>19, <1>20, <1>21, <1>22,
      <1>23, <1>24, <1>25, <1>26, <1>27, <1>28, <1>29, <1>30, <1>31, <1>32,
      <1>33, <1>34, <1>35, <1>36, <1>37, <1>38, <1>39, <1>40,
      Zenon DEF Next, Main, Timer, Close, CloseStep, Handler, Done

\* The pid file is stored once, and after that only the handler changes it.
LEMMA StoredStep ==
  ASSUME TypeOK, StoredInv, FirstSignalInv, [Next]_vars
  PROVE  StoredInv'
<1>. outers \subseteq Outer
  BY ModesAreOuters DEF TypeOK
<1>. USE DEF TypeOK, StoredInv, Starting, Deleted, vars, config, sigs, Executes,
    CanTrace, BeforeSignal, Outer, Thread, Frame, Following, Status
<1>1. CASE Create
  BY <1>1 DEF Create
<1>2. CASE CreateFails
  BY <1>2 DEF CreateFails
<1>3. CASE Daemonize
  BY <1>3 DEF Daemonize
<1>4. CASE OpenPid
  BY <1>4 DEF OpenPid
<1>5. CASE OpenFails
  BY <1>5 DEF OpenFails
<1>6. CASE StorePid
  BY <1>6 DEF StorePid
<1>7. CASE Unwritable
  BY <1>7 DEF Unwritable
<1>8. CASE Install
  BY <1>8 DEF Install
<1>9. CASE RunOuter
  BY <1>9 DEF RunOuter
<1>10. CASE StartThread
  BY <1>10 DEF StartThread
<1>11. CASE NoThread
  BY <1>11 DEF NoThread
<1>12. CASE StartPolling
  BY <1>12 DEF StartPolling
<1>13. CASE WriteOuter
  BY <1>13 DEF WriteOuter
<1>14. CASE SkipOuter
  BY <1>14 DEF SkipOuter
<1>15. CASE Written
  BY <1>15 DEF Written
<1>16. CASE LeaveLoop
  BY <1>16 DEF LeaveLoop
<1>17. CASE Delete
  BY <1>17 DEF Delete
<1>18. CASE FreePrefs
  BY <1>18 DEF FreePrefs
<1>19. CASE ClearPrefs
  BY <1>19 DEF ClearPrefs
<1>20. CASE Return
  BY <1>20 DEF Return
<1>21. CASE Arrive
  BY <1>21 DEF Arrive
<1>22. CASE PrintSaved
  BY <1>22 DEF PrintSaved
<1>23. CASE Drain
  BY <1>23 DEF Drain
<1>24. CASE Drained
  BY <1>24 DEF Drained
<1>25. CASE ThreadEnds
  BY <1>25 DEF ThreadEnds
<1>26. CASE DefaultAction
  BY <1>26 DEF DefaultAction
<1>27. CASE UseDeleted
  BY <1>27 DEF UseDeleted
<1>28. ASSUME NEW f \in Frame, CloseCheck(f) PROVE StoredInv'
  BY <1>28 DEF CloseCheck, Shutdown, Active
<1>29. ASSUME NEW f \in Frame, CloseSigned(f) PROVE StoredInv'
  BY <1>29 DEF CloseSigned, Active
<1>30. ASSUME NEW f \in Frame, CloseOuter(f) PROVE StoredInv'
  BY <1>30 DEF CloseOuter, Active, Closing
<1>31. ASSUME NEW f \in Frame, CloseFile(f) PROVE StoredInv'
  BY <1>31 DEF CloseFile, Active
<1>32. ASSUME NEW f \in Frame, CloseRaw(f) PROVE StoredInv'
  BY <1>32 DEF CloseRaw, Active
<1>33. ASSUME NEW f \in Frame, SignOff(f) PROVE StoredInv'
  BY <1>33 DEF SignOff, Active
<1>34. ASSUME NEW f \in Frame, CloseJoin(f) PROVE StoredInv'
  BY <1>34 DEF CloseJoin, Active
<1>35. ASSUME NEW t \in Thread, NEW inside \in BOOLEAN, Signal(t, inside) PROVE StoredInv'
  BY <1>35 DEF Signal, Exists, MishapOf
<1>36. ASSUME NEW t \in Thread, Enter(t) PROVE StoredInv'
  BY <1>36 DEF Enter, Races
<1>37. ASSUME NEW t \in Thread, Mark(t) PROVE StoredInv'
  BY <1>37 DEF Mark
<1>38. ASSUME NEW t \in Thread, Leave(t) PROVE StoredInv'
  BY <1>38 DEF Leave, FirstSignalInv
<1>39. ASSUME NEW t \in Thread, Back(t) PROVE StoredInv'
  BY <1>39 DEF Back
<1>40. CASE UNCHANGED vars
  BY <1>40
<1>. QED
  BY <1>1, <1>2, <1>3, <1>4, <1>5, <1>6, <1>7, <1>8, <1>9, <1>10, <1>11, <1>12,
      <1>13, <1>14, <1>15, <1>16, <1>17, <1>18, <1>19, <1>20, <1>21, <1>22,
      <1>23, <1>24, <1>25, <1>26, <1>27, <1>28, <1>29, <1>30, <1>31, <1>32,
      <1>33, <1>34, <1>35, <1>36, <1>37, <1>38, <1>39, <1>40,
      Zenon DEF Next, Main, Timer, Close, CloseStep, Handler, Done

\* A handler runs only after a signal.
LEMMA FirstSignalStep ==
  ASSUME TypeOK, InputerInv, BodyInv, FirstSignalInv, [Next]_vars
  PROVE  FirstSignalInv'
<1>. outers \subseteq Outer
  BY ModesAreOuters DEF TypeOK
<1>. USE DEF TypeOK, InputerInv, BodyInv, FirstSignalInv, Starting, Deleted, vars, config, sigs, Executes,
    CanTrace, BeforeSignal, Outer, Thread, Frame, Following, Status
<1>1. CASE Create
  BY <1>1 DEF Create
<1>2. CASE CreateFails
  BY <1>2 DEF CreateFails
<1>3. CASE Daemonize
  BY <1>3 DEF Daemonize
<1>4. CASE OpenPid
  BY <1>4 DEF OpenPid
<1>5. CASE OpenFails
  BY <1>5 DEF OpenFails
<1>6. CASE StorePid
  BY <1>6 DEF StorePid
<1>7. CASE Unwritable
  BY <1>7 DEF Unwritable
<1>8. CASE Install
  BY <1>8 DEF Install
<1>9. CASE RunOuter
  BY <1>9 DEF RunOuter
<1>10. CASE StartThread
  BY <1>10 DEF StartThread
<1>11. CASE NoThread
  BY <1>11 DEF NoThread
<1>12. CASE StartPolling
  BY <1>12 DEF StartPolling
<1>13. CASE WriteOuter
  BY <1>13 DEF WriteOuter
<1>14. CASE SkipOuter
  BY <1>14 DEF SkipOuter
<1>15. CASE Written
  BY <1>15 DEF Written
<1>16. CASE LeaveLoop
  BY <1>16 DEF LeaveLoop
<1>17. CASE Delete
  BY <1>17 DEF Delete
<1>18. CASE FreePrefs
  BY <1>18 DEF FreePrefs
<1>19. CASE ClearPrefs
  BY <1>19 DEF ClearPrefs
<1>20. CASE Return
  BY <1>20 DEF Return
<1>21. CASE Arrive
  BY <1>21 DEF Arrive
<1>22. CASE PrintSaved
  BY <1>22 DEF PrintSaved
<1>23. CASE Drain
  BY <1>23 DEF Drain
<1>24. CASE Drained
  BY <1>24 DEF Drained
<1>25. CASE ThreadEnds
  BY <1>25 DEF ThreadEnds
<1>26. CASE DefaultAction
  BY <1>26 DEF DefaultAction
<1>27. CASE UseDeleted
  BY <1>27 DEF UseDeleted
<1>28. ASSUME NEW f \in Frame, CloseCheck(f) PROVE FirstSignalInv'
  BY <1>28 DEF CloseCheck, Shutdown, Active
<1>29. ASSUME NEW f \in Frame, CloseSigned(f) PROVE FirstSignalInv'
  BY <1>29 DEF CloseSigned, Active
<1>30. ASSUME NEW f \in Frame, CloseOuter(f) PROVE FirstSignalInv'
  BY <1>30 DEF CloseOuter, Active, Closing
<1>31. ASSUME NEW f \in Frame, CloseFile(f) PROVE FirstSignalInv'
  BY <1>31 DEF CloseFile, Active
<1>32. ASSUME NEW f \in Frame, CloseRaw(f) PROVE FirstSignalInv'
  BY <1>32 DEF CloseRaw, Active
<1>33. ASSUME NEW f \in Frame, SignOff(f) PROVE FirstSignalInv'
  BY <1>33 DEF SignOff, Active
<1>34. ASSUME NEW f \in Frame, CloseJoin(f) PROVE FirstSignalInv'
  BY <1>34 DEF CloseJoin, Active
<1>35. ASSUME NEW t \in Thread, NEW inside \in BOOLEAN, Signal(t, inside) PROVE FirstSignalInv'
  BY <1>35 DEF Signal, Exists, MishapOf
<1>36. ASSUME NEW t \in Thread, Enter(t) PROVE FirstSignalInv'
  BY <1>36 DEF Enter, Races
<1>37. ASSUME NEW t \in Thread, Mark(t) PROVE FirstSignalInv'
  BY <1>37 DEF Mark
<1>38. ASSUME NEW t \in Thread, Leave(t) PROVE FirstSignalInv'
  BY <1>38 DEF Leave
<1>39. ASSUME NEW t \in Thread, Back(t) PROVE FirstSignalInv'
  BY <1>39 DEF Back
<1>40. CASE UNCHANGED vars
  BY <1>40
<1>. QED
  BY <1>1, <1>2, <1>3, <1>4, <1>5, <1>6, <1>7, <1>8, <1>9, <1>10, <1>11, <1>12,
      <1>13, <1>14, <1>15, <1>16, <1>17, <1>18, <1>19, <1>20, <1>21, <1>22,
      <1>23, <1>24, <1>25, <1>26, <1>27, <1>28, <1>29, <1>30, <1>31, <1>32,
      <1>33, <1>34, <1>35, <1>36, <1>37, <1>38, <1>39, <1>40,
      Zenon DEF Next, Main, Timer, Close, CloseStep, Handler, Done

\* Without a race only one handler passes the flag, and without an early signal it
\* finds the inputer running.
LEMMA HandlerStep ==
  ASSUME TypeOK, HandlerInv, FlagInv, Calm', [Next]_vars
  PROVE  HandlerInv'
<1>. outers \subseteq Outer
  BY ModesAreOuters DEF TypeOK
<1>. USE DEF vars, config, sigs, Executes, CanTrace, BeforeSignal, Outer, Thread,
    Frame, Following, Status, TypeOK, HandlerInv, PastFlag, FlagInv, Calm, Starting,
    Deleted
<1>1. CASE Create
  BY <1>1 DEF Create
<1>2. CASE CreateFails
  BY <1>2 DEF CreateFails
<1>3. CASE Daemonize
  BY <1>3 DEF Daemonize
<1>4. CASE OpenPid
  BY <1>4 DEF OpenPid
<1>5. CASE OpenFails
  BY <1>5 DEF OpenFails
<1>6. CASE StorePid
  BY <1>6 DEF StorePid
<1>7. CASE Unwritable
  BY <1>7 DEF Unwritable
<1>8. CASE Install
  BY <1>8 DEF Install
<1>9. CASE RunOuter
  BY <1>9 DEF RunOuter
<1>10. CASE StartThread
  BY <1>10 DEF StartThread
<1>11. CASE NoThread
  BY <1>11 DEF NoThread
<1>12. CASE StartPolling
  BY <1>12 DEF StartPolling
<1>13. CASE WriteOuter
  BY <1>13 DEF WriteOuter
<1>14. CASE SkipOuter
  BY <1>14 DEF SkipOuter
<1>15. CASE Written
  BY <1>15 DEF Written
<1>16. CASE LeaveLoop
  BY <1>16 DEF LeaveLoop
<1>17. CASE Delete
  BY <1>17 DEF Delete
<1>18. CASE FreePrefs
  BY <1>18 DEF FreePrefs
<1>19. CASE ClearPrefs
  BY <1>19 DEF ClearPrefs
<1>20. CASE Return
  BY <1>20 DEF Return
<1>21. CASE Arrive
  BY <1>21 DEF Arrive
<1>22. CASE PrintSaved
  BY <1>22 DEF PrintSaved
<1>23. CASE Drain
  BY <1>23 DEF Drain
<1>24. CASE Drained
  BY <1>24 DEF Drained
<1>25. CASE ThreadEnds
  BY <1>25 DEF ThreadEnds
<1>26. CASE DefaultAction
  BY <1>26 DEF DefaultAction
<1>27. CASE UseDeleted
  BY <1>27 DEF UseDeleted
<1>28. ASSUME NEW f \in Frame, CloseCheck(f) PROVE HandlerInv'
  BY <1>28 DEF CloseCheck, Shutdown, Active
<1>29. ASSUME NEW f \in Frame, CloseSigned(f) PROVE HandlerInv'
  BY <1>29 DEF CloseSigned, Active
<1>30. ASSUME NEW f \in Frame, CloseOuter(f) PROVE HandlerInv'
  BY <1>30 DEF CloseOuter, Active, Closing
<1>31. ASSUME NEW f \in Frame, CloseFile(f) PROVE HandlerInv'
  BY <1>31 DEF CloseFile, Active
<1>32. ASSUME NEW f \in Frame, CloseRaw(f) PROVE HandlerInv'
  BY <1>32 DEF CloseRaw, Active
<1>33. ASSUME NEW f \in Frame, SignOff(f) PROVE HandlerInv'
  BY <1>33 DEF SignOff, Active
<1>34. ASSUME NEW f \in Frame, CloseJoin(f) PROVE HandlerInv'
  BY <1>34 DEF CloseJoin, Active
<1>35. ASSUME NEW t \in Thread, NEW inside \in BOOLEAN, Signal(t, inside) PROVE HandlerInv'
  BY <1>35 DEF Signal, Exists, MishapOf
<1>36. ASSUME NEW t \in Thread, Enter(t) PROVE HandlerInv'
  BY <1>36 DEF Enter, Races
<1>37. ASSUME NEW t \in Thread, Mark(t) PROVE HandlerInv'
  BY <1>37 DEF Mark
<1>38. ASSUME NEW t \in Thread, Leave(t) PROVE HandlerInv'
  BY <1>38 DEF Leave
<1>39. ASSUME NEW t \in Thread, Back(t) PROVE HandlerInv'
  BY <1>39 DEF Back
<1>40. CASE UNCHANGED vars
  BY <1>40
<1>. QED
  BY <1>1, <1>2, <1>3, <1>4, <1>5, <1>6, <1>7, <1>8, <1>9, <1>10, <1>11, <1>12,
      <1>13, <1>14, <1>15, <1>16, <1>17, <1>18, <1>19, <1>20, <1>21, <1>22,
      <1>23, <1>24, <1>25, <1>26, <1>27, <1>28, <1>29, <1>30, <1>31, <1>32,
      <1>33, <1>34, <1>35, <1>36, <1>37, <1>38, <1>39, <1>40,
      Zenon DEF Next, Main, Timer, Close, CloseStep, Handler, Done

\* The flag is set as long as the inputer is signed off.
LEMMA FlagStep ==
  ASSUME TypeOK, InputerInv, BodyInv, HandlerInv, FlagInv, Calm', [Next]_vars
  PROVE  FlagInv'
<1>. outers \subseteq Outer
  BY ModesAreOuters DEF TypeOK
<1>. USE DEF vars, config, sigs, Executes, CanTrace, BeforeSignal, Outer, Thread,
    Frame, Following, Status, TypeOK, InputerInv, BodyInv, HandlerInv, PastFlag, FlagInv,
    Calm, Starting, Deleted
<1>1. CASE Create
  BY <1>1 DEF Create
<1>2. CASE CreateFails
  BY <1>2 DEF CreateFails
<1>3. CASE Daemonize
  BY <1>3 DEF Daemonize
<1>4. CASE OpenPid
  BY <1>4 DEF OpenPid
<1>5. CASE OpenFails
  BY <1>5 DEF OpenFails
<1>6. CASE StorePid
  BY <1>6 DEF StorePid
<1>7. CASE Unwritable
  BY <1>7 DEF Unwritable
<1>8. CASE Install
  BY <1>8 DEF Install
<1>9. CASE RunOuter
  BY <1>9 DEF RunOuter
<1>10. CASE StartThread
  BY <1>10 DEF StartThread
<1>11. CASE NoThread
  BY <1>11 DEF NoThread
<1>12. CASE StartPolling
  BY <1>12 DEF StartPolling
<1>13. CASE WriteOuter
  BY <1>13 DEF WriteOuter
<1>14. CASE SkipOuter
  BY <1>14 DEF SkipOuter
<1>15. CASE Written
  BY <1>15 DEF Written
<1>16. CASE LeaveLoop
  BY <1>16 DEF LeaveLoop
<1>17. CASE Delete
  BY <1>17 DEF Delete
<1>18. CASE FreePrefs
  BY <1>18 DEF FreePrefs
<1>19. CASE ClearPrefs
  BY <1>19 DEF ClearPrefs
<1>20. CASE Return
  BY <1>20 DEF Return
<1>21. CASE Arrive
  BY <1>21 DEF Arrive
<1>22. CASE PrintSaved
  BY <1>22 DEF PrintSaved
<1>23. CASE Drain
  BY <1>23 DEF Drain
<1>24. CASE Drained
  BY <1>24 DEF Drained
<1>25. CASE ThreadEnds
  BY <1>25 DEF ThreadEnds
<1>26. CASE DefaultAction
  BY <1>26 DEF DefaultAction
<1>27. CASE UseDeleted
  BY <1>27 DEF UseDeleted
<1>28. ASSUME NEW f \in Frame, CloseCheck(f) PROVE FlagInv'
  BY <1>28 DEF CloseCheck, Shutdown, Active
<1>29. ASSUME NEW f \in Frame, CloseSigned(f) PROVE FlagInv'
  BY <1>29 DEF CloseSigned, Active
<1>30. ASSUME NEW f \in Frame, CloseOuter(f) PROVE FlagInv'
  BY <1>30 DEF CloseOuter, Active, Closing
<1>31. ASSUME NEW f \in Frame, CloseFile(f) PROVE FlagInv'
  BY <1>31 DEF CloseFile, Active
<1>32. ASSUME NEW f \in Frame, CloseRaw(f) PROVE FlagInv'
  BY <1>32 DEF CloseRaw, Active
<1>33. ASSUME NEW f \in Frame, SignOff(f) PROVE FlagInv'
  BY <1>33 DEF SignOff, Active
<1>34. ASSUME NEW f \in Frame, CloseJoin(f) PROVE FlagInv'
  BY <1>34 DEF CloseJoin, Active
<1>35. ASSUME NEW t \in Thread, NEW inside \in BOOLEAN, Signal(t, inside) PROVE FlagInv'
  BY <1>35 DEF Signal, Exists, MishapOf
<1>36. ASSUME NEW t \in Thread, Enter(t) PROVE FlagInv'
  BY <1>36 DEF Enter, Races
<1>37. ASSUME NEW t \in Thread, Mark(t) PROVE FlagInv'
  BY <1>37 DEF Mark
<1>38. ASSUME NEW t \in Thread, Leave(t) PROVE FlagInv'
  BY <1>38 DEF Leave
<1>39. ASSUME NEW t \in Thread, Back(t) PROVE FlagInv'
  BY <1>39 DEF Back
<1>40. CASE UNCHANGED vars
  BY <1>40
<1>. QED
  BY <1>1, <1>2, <1>3, <1>4, <1>5, <1>6, <1>7, <1>8, <1>9, <1>10, <1>11, <1>12,
      <1>13, <1>14, <1>15, <1>16, <1>17, <1>18, <1>19, <1>20, <1>21, <1>22,
      <1>23, <1>24, <1>25, <1>26, <1>27, <1>28, <1>29, <1>30, <1>31, <1>32,
      <1>33, <1>34, <1>35, <1>36, <1>37, <1>38, <1>39, <1>40,
      Zenon DEF Next, Main, Timer, Close, CloseStep, Handler, Done

\* The handler that signed the inputer off removes the pid file.
LEMMA PidStep ==
  ASSUME TypeOK, InputerInv, StoredInv, BodyInv, FlagInv, PidInv, [Next]_vars
  PROVE  PidInv'
<1>. outers \subseteq Outer
  BY ModesAreOuters DEF TypeOK
<1>. USE DEF vars, config, sigs, Executes, CanTrace, BeforeSignal, Outer, Thread,
    Frame, Following, Status, TypeOK, InputerInv, BodyInv, FlagInv, PidInv,
    Starting, Deleted
<1>1. CASE Create
  BY <1>1 DEF Create
<1>2. CASE CreateFails
  BY <1>2 DEF CreateFails
<1>3. CASE Daemonize
  BY <1>3 DEF Daemonize
<1>4. CASE OpenPid
  BY <1>4 DEF OpenPid
<1>5. CASE OpenFails
  BY <1>5 DEF OpenFails
<1>6. CASE StorePid
  BY <1>6 DEF StorePid
<1>7. CASE Unwritable
  BY <1>7 DEF Unwritable
<1>8. CASE Install
  BY <1>8 DEF Install
<1>9. CASE RunOuter
  BY <1>9 DEF RunOuter
<1>10. CASE StartThread
  BY <1>10 DEF StartThread
<1>11. CASE NoThread
  BY <1>11 DEF NoThread
<1>12. CASE StartPolling
  BY <1>12 DEF StartPolling
<1>13. CASE WriteOuter
  BY <1>13 DEF WriteOuter
<1>14. CASE SkipOuter
  BY <1>14 DEF SkipOuter
<1>15. CASE Written
  BY <1>15 DEF Written
<1>16. CASE LeaveLoop
  BY <1>16 DEF LeaveLoop
<1>17. CASE Delete
  BY <1>17 DEF Delete
<1>18. CASE FreePrefs
  BY <1>18 DEF FreePrefs
<1>19. CASE ClearPrefs
  BY <1>19 DEF ClearPrefs
<1>20. CASE Return
  BY <1>20 DEF Return
<1>21. CASE Arrive
  BY <1>21 DEF Arrive
<1>22. CASE PrintSaved
  BY <1>22 DEF PrintSaved
<1>23. CASE Drain
  BY <1>23 DEF Drain
<1>24. CASE Drained
  BY <1>24 DEF Drained
<1>25. CASE ThreadEnds
  BY <1>25 DEF ThreadEnds
<1>26. CASE DefaultAction
  BY <1>26 DEF DefaultAction
<1>27. CASE UseDeleted
  BY <1>27 DEF UseDeleted
<1>28. ASSUME NEW f \in Frame, CloseCheck(f) PROVE PidInv'
  BY <1>28 DEF CloseCheck, Shutdown, Active
<1>29. ASSUME NEW f \in Frame, CloseSigned(f) PROVE PidInv'
  BY <1>29 DEF CloseSigned, Active
<1>30. ASSUME NEW f \in Frame, CloseOuter(f) PROVE PidInv'
  BY <1>30 DEF CloseOuter, Active, Closing
<1>31. ASSUME NEW f \in Frame, CloseFile(f) PROVE PidInv'
  BY <1>31 DEF CloseFile, Active
<1>32. ASSUME NEW f \in Frame, CloseRaw(f) PROVE PidInv'
  BY <1>32 DEF CloseRaw, Active
<1>33. ASSUME NEW f \in Frame, SignOff(f) PROVE PidInv'
  BY <1>33 DEF SignOff, Active
<1>34. ASSUME NEW f \in Frame, CloseJoin(f) PROVE PidInv'
  BY <1>34 DEF CloseJoin, Active
<1>35. ASSUME NEW t \in Thread, NEW inside \in BOOLEAN, Signal(t, inside) PROVE PidInv'
  BY <1>35 DEF Signal, Exists, MishapOf
<1>36. ASSUME NEW t \in Thread, Enter(t) PROVE PidInv'
  BY <1>36 DEF Enter, Races
<1>37. ASSUME NEW t \in Thread, Mark(t) PROVE PidInv'
  BY <1>37 DEF Mark
<1>38. ASSUME NEW t \in Thread, Leave(t) PROVE PidInv'
  BY <1>38 DEF Leave, StoredInv
<1>39. ASSUME NEW t \in Thread, Back(t) PROVE PidInv'
  BY <1>39 DEF Back
<1>40. CASE UNCHANGED vars
  BY <1>40
<1>. QED
  BY <1>1, <1>2, <1>3, <1>4, <1>5, <1>6, <1>7, <1>8, <1>9, <1>10, <1>11, <1>12,
      <1>13, <1>14, <1>15, <1>16, <1>17, <1>18, <1>19, <1>20, <1>21, <1>22,
      <1>23, <1>24, <1>25, <1>26, <1>27, <1>28, <1>29, <1>30, <1>31, <1>32,
      <1>33, <1>34, <1>35, <1>36, <1>37, <1>38, <1>39, <1>40,
      Zenon DEF Next, Main, Timer, Close, CloseStep, Handler, Done

\* Only main's own call of Close reaches the outers.
LEMMA StatusStep ==
  ASSUME TypeOK, InputerInv, BodyInv, HandlerInv, StatusInv, TimerInv, Calm',
           [Next]_vars
  PROVE  StatusInv'
<1>. outers \subseteq Outer
  BY ModesAreOuters DEF TypeOK
<1>. USE DEF vars, config, sigs, Executes, CanTrace, BeforeSignal, Outer, Thread,
    Frame, Following, Status, TypeOK, InputerInv, BodyInv, HandlerInv, PastFlag,
    StatusInv, TimerInv, Calm, Starting, Deleted, Before
<1>1. CASE Create
  BY <1>1 DEF Create
<1>2. CASE CreateFails
  BY <1>2 DEF CreateFails
<1>3. CASE Daemonize
  BY <1>3 DEF Daemonize
<1>4. CASE OpenPid
  BY <1>4 DEF OpenPid
<1>5. CASE OpenFails
  BY <1>5 DEF OpenFails
<1>6. CASE StorePid
  BY <1>6 DEF StorePid
<1>7. CASE Unwritable
  BY <1>7 DEF Unwritable
<1>8. CASE Install
  BY <1>8 DEF Install
<1>9. CASE RunOuter
  BY <1>9 DEF RunOuter
<1>10. CASE StartThread
  BY <1>10 DEF StartThread
<1>11. CASE NoThread
  BY <1>11 DEF NoThread
<1>12. CASE StartPolling
  BY <1>12 DEF StartPolling
<1>13. CASE WriteOuter
  BY <1>13 DEF WriteOuter
<1>14. CASE SkipOuter
  BY <1>14 DEF SkipOuter
<1>15. CASE Written
  BY <1>15 DEF Written
<1>16. CASE LeaveLoop
  BY <1>16 DEF LeaveLoop
<1>17. CASE Delete
  BY <1>17 DEF Delete
<1>18. CASE FreePrefs
  BY <1>18 DEF FreePrefs
<1>19. CASE ClearPrefs
  BY <1>19 DEF ClearPrefs
<1>20. CASE Return
  BY <1>20 DEF Return
<1>21. CASE Arrive
  BY <1>21 DEF Arrive
<1>22. CASE PrintSaved
  BY <1>22 DEF PrintSaved
<1>23. CASE Drain
  BY <1>23 DEF Drain
<1>24. CASE Drained
  BY <1>24 DEF Drained
<1>25. CASE ThreadEnds
  BY <1>25 DEF ThreadEnds
<1>26. CASE DefaultAction
  BY <1>26 DEF DefaultAction
<1>27. CASE UseDeleted
  BY <1>27 DEF UseDeleted
<1>28. ASSUME NEW f \in Frame, CloseCheck(f) PROVE StatusInv'
  BY <1>28 DEF CloseCheck, Shutdown, Active
<1>29. ASSUME NEW f \in Frame, CloseSigned(f) PROVE StatusInv'
  BY <1>29 DEF CloseSigned, Active
<1>30. ASSUME NEW f \in Frame, CloseOuter(f) PROVE StatusInv'
  BY <1>30 DEF CloseOuter, Active, Closing
<1>31. ASSUME NEW f \in Frame, CloseFile(f) PROVE StatusInv'
  BY <1>31 DEF CloseFile, Active
<1>32. ASSUME NEW f \in Frame, CloseRaw(f) PROVE StatusInv'
  BY <1>32 DEF CloseRaw, Active
<1>33. ASSUME NEW f \in Frame, SignOff(f) PROVE StatusInv'
  BY <1>33 DEF SignOff, Active
<1>34. ASSUME NEW f \in Frame, CloseJoin(f) PROVE StatusInv'
  BY <1>34 DEF CloseJoin, Active
<1>35. ASSUME NEW t \in Thread, NEW inside \in BOOLEAN, Signal(t, inside) PROVE StatusInv'
  BY <1>35 DEF Signal, Exists, MishapOf
<1>36. ASSUME NEW t \in Thread, Enter(t) PROVE StatusInv'
  BY <1>36 DEF Enter, Races
<1>37. ASSUME NEW t \in Thread, Mark(t) PROVE StatusInv'
  BY <1>37 DEF Mark
<1>38. ASSUME NEW t \in Thread, Leave(t) PROVE StatusInv'
  BY <1>38 DEF Leave
<1>39. ASSUME NEW t \in Thread, Back(t) PROVE StatusInv'
  BY <1>39 DEF Back
<1>40. CASE UNCHANGED vars
  BY <1>40
<1>. QED
  BY <1>1, <1>2, <1>3, <1>4, <1>5, <1>6, <1>7, <1>8, <1>9, <1>10, <1>11, <1>12,
      <1>13, <1>14, <1>15, <1>16, <1>17, <1>18, <1>19, <1>20, <1>21, <1>22,
      <1>23, <1>24, <1>25, <1>26, <1>27, <1>28, <1>29, <1>30, <1>31, <1>32,
      <1>33, <1>34, <1>35, <1>36, <1>37, <1>38, <1>39, <1>40,
      Zenon DEF Next, Main, Timer, Close, CloseStep, Handler, Done

\* A handle goes when its outer goes down, and not before.
LEMMA UsableStep ==
  ASSUME TypeOK, BodyInv, HandlerInv, StatusInv, UsableInv, TimerInv,
         [Next]_vars
  PROVE  UsableInv'
<1>. outers \subseteq Outer
  BY ModesAreOuters DEF TypeOK
<1>. USE DEF vars, config, sigs, Executes, CanTrace, BeforeSignal, Outer, Thread,
    Frame, Following, Status, TypeOK, BodyInv, HandlerInv, PastFlag, StatusInv, UsableInv,
    TimerInv, Starting, Deleted
<1>1. CASE Create
  BY <1>1 DEF Create
<1>2. CASE CreateFails
  BY <1>2 DEF CreateFails
<1>3. CASE Daemonize
  BY <1>3 DEF Daemonize
<1>4. CASE OpenPid
  BY <1>4 DEF OpenPid
<1>5. CASE OpenFails
  BY <1>5 DEF OpenFails
<1>6. CASE StorePid
  BY <1>6 DEF StorePid
<1>7. CASE Unwritable
  BY <1>7 DEF Unwritable
<1>8. CASE Install
  BY <1>8 DEF Install
<1>9. CASE RunOuter
  BY <1>9 DEF RunOuter
<1>10. CASE StartThread
  BY <1>10 DEF StartThread
<1>11. CASE NoThread
  BY <1>11 DEF NoThread
<1>12. CASE StartPolling
  BY <1>12 DEF StartPolling
<1>13. CASE WriteOuter
  BY <1>13 DEF WriteOuter
<1>14. CASE SkipOuter
  BY <1>14 DEF SkipOuter
<1>15. CASE Written
  BY <1>15 DEF Written
<1>16. CASE LeaveLoop
  BY <1>16 DEF LeaveLoop
<1>17. CASE Delete
  BY <1>17 DEF Delete
<1>18. CASE FreePrefs
  BY <1>18 DEF FreePrefs
<1>19. CASE ClearPrefs
  BY <1>19 DEF ClearPrefs
<1>20. CASE Return
  BY <1>20 DEF Return
<1>21. CASE Arrive
  BY <1>21 DEF Arrive
<1>22. CASE PrintSaved
  BY <1>22 DEF PrintSaved
<1>23. CASE Drain
  BY <1>23 DEF Drain
<1>24. CASE Drained
  BY <1>24 DEF Drained
<1>25. CASE ThreadEnds
  BY <1>25 DEF ThreadEnds
<1>26. CASE DefaultAction
  BY <1>26 DEF DefaultAction
<1>27. CASE UseDeleted
  BY <1>27 DEF UseDeleted
<1>28. ASSUME NEW f \in Frame, CloseCheck(f) PROVE UsableInv'
  BY <1>28 DEF CloseCheck, Shutdown, Active
<1>29. ASSUME NEW f \in Frame, CloseSigned(f) PROVE UsableInv'
  BY <1>29 DEF CloseSigned, Active
<1>30. ASSUME NEW f \in Frame, CloseOuter(f) PROVE UsableInv'
  <2>1. UNCHANGED <<outers, daemon, main, usable>>
    BY <1>30 DEF CloseOuter, config
  <2>2. f = "body" /\ main = "close"
    <3>1. frame[f] \in Outer
      BY <1>30 DEF CloseOuter
    <3>. QED BY <3>1
  <2>3. ASSUME NEW o \in usable, status'[o] = "down"
        PROVE  \/ o = "raw" /\ ~daemon
               \/ o = "file" /\ frame'["body"] = "fclose"
               \/ o = "raw" /\ frame'["body"] = "rclose"
    <3>1. CASE o = frame[f] /\ status[o] = "run"
      BY <1>30, <2>2, <2>3, <3>1 DEF CloseOuter, Closing
    <3>2. CASE ~(o = frame[f] /\ status[o] = "run")
      <4>1. status[o] = "down"
        BY <1>30, <2>3, <3>2 DEF CloseOuter
      <4>. QED BY <1>30, <2>2, <4>1 DEF CloseOuter
    <3>. QED BY <3>1, <3>2
  <2>. QED BY <2>1, <2>2, <2>3
<1>31. ASSUME NEW f \in Frame, CloseFile(f) PROVE UsableInv'
  BY <1>31 DEF CloseFile, Active
<1>32. ASSUME NEW f \in Frame, CloseRaw(f) PROVE UsableInv'
  BY <1>32 DEF CloseRaw, Active
<1>33. ASSUME NEW f \in Frame, SignOff(f) PROVE UsableInv'
  BY <1>33 DEF SignOff, Active
<1>34. ASSUME NEW f \in Frame, CloseJoin(f) PROVE UsableInv'
  BY <1>34 DEF CloseJoin, Active
<1>35. ASSUME NEW t \in Thread, NEW inside \in BOOLEAN, Signal(t, inside) PROVE UsableInv'
  BY <1>35 DEF Signal, Exists, MishapOf
<1>36. ASSUME NEW t \in Thread, Enter(t) PROVE UsableInv'
  BY <1>36 DEF Enter, Races
<1>37. ASSUME NEW t \in Thread, Mark(t) PROVE UsableInv'
  BY <1>37 DEF Mark
<1>38. ASSUME NEW t \in Thread, Leave(t) PROVE UsableInv'
  BY <1>38 DEF Leave
<1>39. ASSUME NEW t \in Thread, Back(t) PROVE UsableInv'
  BY <1>39 DEF Back
<1>40. CASE UNCHANGED vars
  BY <1>40
<1>. QED
  BY <1>1, <1>2, <1>3, <1>4, <1>5, <1>6, <1>7, <1>8, <1>9, <1>10, <1>11, <1>12,
      <1>13, <1>14, <1>15, <1>16, <1>17, <1>18, <1>19, <1>20, <1>21, <1>22,
      <1>23, <1>24, <1>25, <1>26, <1>27, <1>28, <1>29, <1>30, <1>31, <1>32,
      <1>33, <1>34, <1>35, <1>36, <1>37, <1>38, <1>39, <1>40,
      Zenon DEF Next, Main, Timer, Close, CloseStep, Handler, Done

\* The thread runs from Run's pthread_create to Close's pthread_join.
LEMMA TimerStep ==
  ASSUME TypeOK, InputerInv, BodyInv, HandlerInv, FlagInv, StatusInv, TimerInv,
         [Next]_vars
  PROVE  TimerInv'
<1>. outers \subseteq Outer
  BY ModesAreOuters DEF TypeOK
<1>. USE DEF vars, config, sigs, Executes, CanTrace, BeforeSignal, Outer, Thread,
    Frame, Following, Status, TypeOK, InputerInv, BodyInv, FlagInv, StatusInv,
    TimerInv, Starting, Deleted, Before
<1>1. CASE Create
  BY <1>1 DEF Create
<1>2. CASE CreateFails
  BY <1>2 DEF CreateFails
<1>3. CASE Daemonize
  BY <1>3 DEF Daemonize
<1>4. CASE OpenPid
  BY <1>4 DEF OpenPid
<1>5. CASE OpenFails
  BY <1>5 DEF OpenFails
<1>6. CASE StorePid
  BY <1>6 DEF StorePid
<1>7. CASE Unwritable
  BY <1>7 DEF Unwritable
<1>8. CASE Install
  BY <1>8 DEF Install
<1>9. CASE RunOuter
  BY <1>9 DEF RunOuter
<1>10. CASE StartThread
  BY <1>10 DEF StartThread
<1>11. CASE NoThread
  BY <1>11 DEF NoThread
<1>12. CASE StartPolling
  BY <1>12 DEF StartPolling
<1>13. CASE WriteOuter
  BY <1>13 DEF WriteOuter
<1>14. CASE SkipOuter
  BY <1>14 DEF SkipOuter
<1>15. CASE Written
  BY <1>15 DEF Written
<1>16. CASE LeaveLoop
  BY <1>16 DEF LeaveLoop
<1>17. CASE Delete
  BY <1>17 DEF Delete
<1>18. CASE FreePrefs
  BY <1>18 DEF FreePrefs
<1>19. CASE ClearPrefs
  BY <1>19 DEF ClearPrefs
<1>20. CASE Return
  BY <1>20 DEF Return
<1>21. CASE Arrive
  BY <1>21 DEF Arrive
<1>22. CASE PrintSaved
  BY <1>22 DEF PrintSaved
<1>23. CASE Drain
  BY <1>23 DEF Drain
<1>24. CASE Drained
  BY <1>24 DEF Drained
<1>25. CASE ThreadEnds
  BY <1>25 DEF ThreadEnds
<1>26. CASE DefaultAction
  BY <1>26 DEF DefaultAction
<1>27. CASE UseDeleted
  BY <1>27 DEF UseDeleted
<1>28. ASSUME NEW f \in Frame, CloseCheck(f) PROVE TimerInv'
  BY <1>28 DEF CloseCheck, Shutdown, Active
<1>29. ASSUME NEW f \in Frame, CloseSigned(f) PROVE TimerInv'
  BY <1>29 DEF CloseSigned, Active
<1>30. ASSUME NEW f \in Frame, CloseOuter(f) PROVE TimerInv'
  BY <1>30 DEF CloseOuter, Active, Closing
<1>31. ASSUME NEW f \in Frame, CloseFile(f) PROVE TimerInv'
  BY <1>31 DEF CloseFile, Active
<1>32. ASSUME NEW f \in Frame, CloseRaw(f) PROVE TimerInv'
  BY <1>32 DEF CloseRaw, Active
<1>33. ASSUME NEW f \in Frame, SignOff(f) PROVE TimerInv'
  <2>1. f = "body" /\ frame["body"] = "sign" /\ main = "close"
    BY <1>33 DEF SignOff, HandlerInv, PastFlag
  <2>2. "gather" \in outers /\ status["gather"] = "run"
    BY <2>1
  <2>3. status'["gather"] = "signed" /\ frame'["body"] = "join" /\ frame'["timer"] = frame["timer"]
    BY <1>33, <2>1 DEF SignOff
  <2>4. UNCHANGED <<outers, main, timer, unsaved, mishaps>>
    BY <1>33 DEF SignOff
  <2>. QED BY <2>1, <2>2, <2>3, <2>4
<1>34. ASSUME NEW f \in Frame, CloseJoin(f) PROVE TimerInv'
  BY <1>34 DEF CloseJoin, Active
<1>35. ASSUME NEW t \in Thread, NEW inside \in BOOLEAN, Signal(t, inside) PROVE TimerInv'
  BY <1>35 DEF Signal, Exists, MishapOf
<1>36. ASSUME NEW t \in Thread, Enter(t) PROVE TimerInv'
  BY <1>36 DEF Enter, Races
<1>37. ASSUME NEW t \in Thread, Mark(t) PROVE TimerInv'
  BY <1>37 DEF Mark
<1>38. ASSUME NEW t \in Thread, Leave(t) PROVE TimerInv'
  BY <1>38 DEF Leave
<1>39. ASSUME NEW t \in Thread, Back(t) PROVE TimerInv'
  BY <1>39 DEF Back
<1>40. CASE UNCHANGED vars
  BY <1>40
<1>. QED
  BY <1>1, <1>2, <1>3, <1>4, <1>5, <1>6, <1>7, <1>8, <1>9, <1>10, <1>11, <1>12,
      <1>13, <1>14, <1>15, <1>16, <1>17, <1>18, <1>19, <1>20, <1>21, <1>22,
      <1>23, <1>24, <1>25, <1>26, <1>27, <1>28, <1>29, <1>30, <1>31, <1>32,
      <1>33, <1>34, <1>35, <1>36, <1>37, <1>38, <1>39, <1>40,
      Zenon DEF Next, Main, Timer, Close, CloseStep, Handler, Done

\* Nothing happens after the end of the process.
LEMMA EndIsFinal == ended # "no" /\ [Next]_vars => UNCHANGED vars
BY DEF Next, Main, Timer, Close, Handler, Done, Executes, Active, Create,
  CreateFails, Daemonize, OpenPid, OpenFails, StorePid, Unwritable, Install, RunOuter, StartThread, NoThread,
  StartPolling, WriteOuter, SkipOuter, Written, LeaveLoop, Delete, FreePrefs,
  ClearPrefs, Return, Arrive, PrintSaved, Drain, Drained, ThreadEnds, DefaultAction,
  CloseStep, CloseCheck, CloseSigned, CloseOuter,
  CloseFile, CloseRaw, SignOff, CloseJoin, Signal, Enter, Mark, Leave,
  Back, UseDeleted

\* What happened has happened.
LEMMA MishapsGrow == [Next]_vars => mishaps \subseteq mishaps'
BY DEF Next, Main, Timer, Close, Handler, Done, vars, sigs, Create,
  CreateFails, Daemonize, OpenPid, OpenFails, StorePid, Unwritable, Install, RunOuter, StartThread, NoThread,
  StartPolling, WriteOuter, SkipOuter, Written, LeaveLoop, Delete, FreePrefs,
  ClearPrefs, Return, Arrive, PrintSaved, Drain, Drained, ThreadEnds, DefaultAction,
  CloseStep, CloseCheck, CloseSigned, CloseOuter,
  CloseFile, CloseRaw, SignOff, CloseJoin, Signal, Enter, Mark, Leave,
  Back, UseDeleted

\* Only four steps end with a crash, and only main's Return with a return.
LEMMA Endings ==
  ASSUME Next, ended = "no"
  PROVE  /\ ended' = "crashed" =>
              \/ WriteOuter
              \/ \E f \in Frame : CloseJoin(f)
              \/ \E t \in Thread : Enter(t)
              \/ UseDeleted
         /\ ended' = "returned" => Return
<1>1. Main => ended' # "crashed" \/ WriteOuter
  BY DEF Main, Create, CreateFails, Daemonize, OpenPid, OpenFails, StorePid,
    Unwritable, Install, RunOuter, StartThread, NoThread, StartPolling, SkipOuter,
    Written, LeaveLoop, Delete, FreePrefs, ClearPrefs, Return
<1>2. Main => ended' # "returned" \/ Return
  BY DEF Main, Create, CreateFails, Daemonize, OpenPid, OpenFails, StorePid,
    Unwritable, Install, RunOuter, StartThread, NoThread, StartPolling, SkipOuter,
    Written, LeaveLoop, Delete, FreePrefs, ClearPrefs, WriteOuter
<1>3. ASSUME NEW f \in Frame, CloseStep(f)
      PROVE  ended' \notin {"crashed", "returned"} \/ (ended' = "crashed" /\ CloseJoin(f))
  BY <1>3 DEF CloseStep, CloseCheck, CloseSigned, CloseOuter, CloseFile, CloseRaw,
    SignOff, CloseJoin
<1>4. Timer \/ Arrive \/ DefaultAction \/ Done => ended' \notin {"crashed", "returned"}
  BY DEF Timer, PrintSaved, Drain, Drained, ThreadEnds, Arrive, DefaultAction, Done, vars
<1>5. ASSUME NEW t \in Thread, Enter(t) \/ Mark(t) \/ Leave(t) \/ Back(t)
      PROVE  ended' \notin {"crashed", "returned"} \/ (ended' = "crashed" /\ Enter(t))
  BY <1>5 DEF Enter, Mark, Leave, Back
<1>6. ASSUME NEW t \in Thread, NEW inside \in BOOLEAN, Signal(t, inside)
      PROVE  ended' \notin {"crashed", "returned"}
  BY <1>6 DEF Signal
<1>7. UseDeleted => ended' # "returned"
  BY DEF UseDeleted
<1>. QED
  BY <1>1, <1>2, <1>3, <1>4, <1>5, <1>6, <1>7 DEF Next, Close, Handler

\* Each of the four steps that may crash takes a mishap that has happened.
LEMMA NeverCrashesStep ==
  ASSUME IInv, [Next]_vars
  PROVE  NeverCrashes'
<1>1. mishaps \subseteq mishaps'
  BY MishapsGrow
<1>2. CASE ended # "no"
  BY <1>2, EndIsFinal DEF IInv, NeverCrashes, Unsafe, vars
<1>3. CASE ended = "no"
  <2>. SUFFICES ASSUME ended' = "crashed", Calm PROVE Unsafe # {}
    BY <1>1 DEF NeverCrashes, Unsafe, Calm
  <2>. USE DEF Outer, Thread, Frame
  <2>1. Next
    BY <1>3 DEF vars
  <2>2. CASE WriteOuter
    <3>1. main = "write" /\ turn \in outers /\ turn \notin usable
      BY <1>3, <2>2 DEF WriteOuter
    <3>. QED BY <3>1 DEF IInv, UsableInv
  <2>3. ASSUME NEW f \in Frame, CloseJoin(f) PROVE Unsafe # {}
    <3>1. timer = "none" /\ frame[f] = "join"
      BY <1>3, <2>3 DEF CloseJoin
    <3>2. f = "body" /\ main = "close"
      BY <3>1 DEF IInv, HandlerInv, PastFlag, BodyInv
    <3>3. "gather" \in outers /\ status["gather"] \in {"signed", "down"}
      BY <3>1, <3>2 DEF IInv, StatusInv
    <3>4. "noThread" \in mishaps
      BY <3>1, <3>2, <3>3 DEF IInv, TimerInv
    <3>. QED BY <3>4 DEF Unsafe
  <2>4. ASSUME NEW t \in Thread, Enter(t) PROVE Unsafe # {}
    <3>1. main = "freeing" /\ frame[t] = "enter"
      BY <1>3, <2>4 DEF Enter
    <3>2. t = "main"
      BY <3>1 DEF IInv, TimerInv, Deleted
    <3>3. "late" \in mishaps
      BY <3>1, <3>2 DEF IInv, FlagInv
    <3>. QED BY <3>3 DEF Unsafe
  <2>5. CASE UseDeleted
    <3>1. Deleted
      BY <2>5 DEF UseDeleted, Deleted
    <3>2. timer \in {"none", "over"} /\ frame["timer"] = "idle"
      BY <3>1 DEF IInv, TimerInv
    <3>3. frame["main"] \in {"idle", "enter"}
      BY <3>1 DEF IInv, FlagInv
    <3>. QED BY <2>5, <3>2, <3>3 DEF UseDeleted
  <2>. QED BY <1>3, <2>1, <2>2, <2>3, <2>4, <2>5, Endings
<1>. QED BY <1>2, <1>3

\* When main returns, the thread is over, the handler has left and the outers are
\* down.
LEMMA OrderlyEndStep ==
  ASSUME IInv, [Next]_vars
  PROVE  OrderlyEnd'
<1>1. CASE ended # "no"
  <2>1. UNCHANGED vars
    BY <1>1, EndIsFinal
  <2>. QED BY <2>1 DEF IInv, OrderlyEnd, Unsafe, vars
<1>2. CASE ended = "no"
  <2>. SUFFICES ASSUME ended' = "returned", Unsafe' \subseteq {"late"}
                PROVE  /\ ~unsaved' /\ pidFile' \notin {"empty", "stored"}
                       /\ \A o \in outers' : status'[o] = "down"
                       /\ usable' = {} \/ (usable' = {"raw"} /\ ~daemon')
    BY DEF OrderlyEnd
  <2>1. Return
    BY <1>2, Endings DEF vars
  <2>2. /\ frame["main"] = "idle" /\ main = "finish"
        /\ UNCHANGED <<outers, daemon, status, usable, pidFile, timer, unsaved, frame, mishaps>>
    BY <2>1 DEF Return, Executes, config, sigs
  <2>3. Calm /\ "noThread" \notin mishaps
    BY <2>2 DEF Unsafe, Calm
  <2>4. timer \in {"none", "over"} /\ frame["timer"] = "idle"
    BY <2>2, <2>3 DEF IInv, TimerInv, Deleted
  <2>5. pidFile \notin {"empty", "stored"}
    <3>1. \A t \in Thread : frame[t] = "idle"
      BY <2>2, <2>4 DEF Thread
    <3>. QED BY <2>2, <2>3, <3>1 DEF IInv, PidInv, InputerInv, Deleted
  <2>6. \A o \in outers : status[o] = "down"
    <3>1. outers \subseteq Outer
      BY ModesAreOuters DEF IInv, TypeOK
    <3>2. \A o \in outers : status[o] \in {"signed", "down"}
      BY <2>2, <2>3 DEF IInv, StatusInv, Deleted
    <3>3. status["file"] # "signed" /\ status["raw"] # "signed"
      BY <2>3 DEF IInv, StatusInv
    <3>4. "gather" \in outers => timer # "none"
      BY <2>2, <2>3, <3>2 DEF IInv, TimerInv
    <3>5. "gather" \in outers => status["gather"] = "down"
      BY <2>3, <2>4, <3>4 DEF IInv, TimerInv
    <3>. QED BY <3>1, <3>2, <3>3, <3>5 DEF Outer
  <2>7. ~unsaved
    BY <2>2, <2>3, <2>4, <2>6 DEF IInv, TimerInv
  <2>8. \A o \in usable : o = "raw" /\ ~daemon
    <3>1. frame["body"] = "idle"
      BY <2>2 DEF IInv, BodyInv
    <3>2. usable \subseteq outers
      BY DEF IInv, TypeOK
    <3>. QED BY <2>3, <2>6, <3>1, <3>2 DEF IInv, UsableInv
  <2>. QED BY <2>2, <2>5, <2>6, <2>7, <2>8
<1>. QED BY <1>1, <1>2

\* Nothing runs at first.
LEMMA InitInv == Init => IInv
<1>. SUFFICES ASSUME Init PROVE IInv
  OBVIOUS
<1>. outers \subseteq Outer
  BY ModesAreOuters DEF Init
<1>. USE DEF Init, Outer, Thread, Frame, Starting, Deleted, Status,
    BeforeSignal
<1>1. TypeOK
  <2>1. 0 \in 0 .. MaxSignals
    BY SignalAssumption
  <2>2. usable \subseteq outers /\ nested \subseteq Thread /\ mishaps \subseteq Allowed
    OBVIOUS
  <2>3. status \in [Outer -> Status] /\ frame \in [Frame -> FramePlace]
    BY Places
  <2>. QED BY <2>1, <2>2, <2>3, Places DEF TypeOK
<1>2. InputerInv /\ BodyInv /\ ThreadInv /\ StoredInv /\ FirstSignalInv
  BY DEF InputerInv, BodyInv, ThreadInv, StoredInv, FirstSignalInv
<1>3. HandlerInv /\ FlagInv /\ PidInv
  BY DEF HandlerInv, PastFlag, FlagInv, PidInv
<1>4. StatusInv /\ UsableInv /\ TimerInv
  BY DEF StatusInv, UsableInv, TimerInv
<1>5. NeverCrashes /\ OrderlyEnd
  BY DEF NeverCrashes, OrderlyEnd
<1>. QED BY <1>1, <1>2, <1>3, <1>4, <1>5 DEF IInv

\* No step of either thread, of a handler or of the kernel breaks the invariant.
LEMMA Preservation == IInv /\ [Next]_vars => IInv'
<1>. SUFFICES ASSUME IInv, [Next]_vars PROVE IInv'
  OBVIOUS
<1>1. TypeOK' /\ InputerInv' /\ BodyInv'
  BY TypeStep, InputerStep, BodyStep DEF IInv
<1>4. ThreadInv' /\ StoredInv' /\ FirstSignalInv'
  BY ThreadStep, StoredStep, FirstSignalStep DEF IInv
<1>2. ASSUME Calm'
      PROVE  HandlerInv' /\ FlagInv' /\ PidInv' /\ StatusInv' /\ UsableInv' /\ TimerInv'
  <2>1. Calm
    BY <1>2, MishapsGrow DEF Calm
  <2>2. /\ TypeOK /\ InputerInv /\ BodyInv /\ StoredInv /\ HandlerInv /\ FlagInv
        /\ PidInv /\ StatusInv /\ UsableInv /\ TimerInv
    BY <2>1 DEF IInv
  <2>. QED BY <1>2, <2>2, HandlerStep, FlagStep, PidStep, StatusStep, UsableStep,
              TimerStep
<1>3. NeverCrashes' /\ OrderlyEnd'
  BY NeverCrashesStep, OrderlyEndStep
<1>. QED BY <1>1, <1>2, <1>3, <1>4 DEF IInv

\* The invariant holds for any number of signals, whatever mishaps are allowed.
THEOREM Invariance == Spec => []IInv
BY InitInv, Preservation, PTL DEF Spec

\* Every variable keeps its type.
THEOREM Typing == Spec => []TypeOK
<1>1. IInv => TypeOK
  BY DEF IInv
<1>. QED BY <1>1, Invariance, PTL

\* No interleaving of main, the timer thread and the handlers on both writes
\* through a null handle, joins a thread that never was or traces to a closed log
\* (PortStat::Write, GatherOuter::Close, sigproc), unless a mishap prepared it.
THEOREM CrashTakesAMishap == Spec => []NeverCrashes
<1>1. IInv => NeverCrashes
  BY DEF IInv
<1>. QED BY <1>1, Invariance, PTL

\* When main returns nothing is unprinted, every outer is down and the pid file is
\* gone (main, PortStat::Close), for any number of signals on either thread.
THEOREM ReturnIsOrderly == Spec => []OrderlyEnd
<1>1. IInv => OrderlyEnd
  BY DEF IInv
<1>. QED BY <1>1, Invariance, PTL

\* Without an early signal and without a race the handler never touches an outer
\* (PortStat::Close).
THEOREM HandlerSigns == Spec => []HandlerOnlySigns
<1>1. IInv => HandlerOnlySigns
  <2>. SUFFICES ASSUME IInv, Unsafe \subseteq {"late", "noThread"}, NEW t \in Thread
                PROVE  frame[t] \notin Outer \cup {"fclose", "sign", "join", "rclose"}
    BY DEF HandlerOnlySigns
  <2>1. Calm
    BY DEF Unsafe, Calm
  <2>. QED BY <2>1 DEF IInv, HandlerInv, PastFlag, Outer
<1>. QED BY <1>1, Invariance, PTL

\* Without an early signal and without a race main deletes PortStat and the
\* preferences only when the timer thread is over and no handler is in Close.
THEOREM DeletedAlone == Spec => []NoUseAfterDelete
<1>1. IInv => NoUseAfterDelete
  <2>. SUFFICES ASSUME IInv, Deleted, Unsafe \subseteq {"late", "noThread"}
                PROVE  /\ timer \in {"none", "over"}
                       /\ \A t \in Thread : frame[t] \in {"idle", "enter"}
    BY DEF NoUseAfterDelete, Deleted
  <2>1. Calm
    BY DEF Unsafe, Calm
  <2>2. timer \in {"none", "over"}
    BY <2>1 DEF IInv, TimerInv
  <2>3. frame["timer"] = "idle"
    BY <2>1, <2>2 DEF IInv, TimerInv
  <2>4. frame["main"] \in {"idle", "enter"}
    BY <2>1 DEF IInv, FlagInv
  <2>. QED BY <2>2, <2>3, <2>4 DEF Thread
<1>. QED BY <1>1, Invariance, PTL

-----------------------------------------------------------------------------
(* A daemon and its pid file.                                              *)

\* Whatever ends the process, it leaves its file, and its history, as they are.
LEMMA EndingKeeps ==
  ASSUME IInv, Next, ended = "no", ended' # "no"
  PROVE  /\ UNCHANGED <<daemon, pidFile>>
         /\ \A m \in {"early", "inCall", "unstored"} : m \in mishaps' <=> m \in mishaps
<1>. USE DEF config, sigs
<1>1. ASSUME NEW t \in Thread, NEW inside \in BOOLEAN, Signal(t, inside)
      PROVE  /\ UNCHANGED <<daemon, pidFile>>
             /\ \A m \in {"early", "inCall", "unstored"} : m \in mishaps' <=> m \in mishaps
  <2>1. /\ frame[t] # "idle" /\ ~inside /\ UNCHANGED <<daemon, pidFile>>
        /\ mishaps' = mishaps \cup MishapOf(t, inside)
    BY <1>1 DEF Signal
  <2>2. inputer = "new" => "early" \in mishaps
    BY <2>1 DEF IInv, FirstSignalInv
  <2>. QED BY <2>1, <2>2 DEF MishapOf
<1>2. ASSUME NEW t \in Thread, Enter(t)
      PROVE  /\ UNCHANGED <<daemon, pidFile>>
             /\ \A m \in {"early", "inCall", "unstored"} : m \in mishaps' <=> m \in mishaps
  BY <1>2 DEF Enter
<1>. QED
  BY <1>1, <1>2 DEF Next, Main, Timer, Close, Handler, Done, vars, Create, CreateFails,
    Daemonize, OpenPid, OpenFails, StorePid, Unwritable, Install, RunOuter, StartThread,
    NoThread, StartPolling, WriteOuter, SkipOuter, Written, LeaveLoop, Delete,
    FreePrefs, ClearPrefs, Return, Arrive, PrintSaved, Drain, Drained, ThreadEnds,
    DefaultAction, UseDeleted, CloseStep, CloseCheck, CloseSigned, CloseOuter, CloseFile,
    CloseRaw, SignOff, CloseJoin, Mark, Leave, Back

\* What PidFile sees of a daemon that lives.
LEMMA Alive ==
  ASSUME IInv, daemon, ended = "no"
  PROVE  /\ Process = "free" <=> main \in {"create", "daemonize"}
         /\ Process = "store" <=> main = "store"
         /\ Process = "write" <=> main = "writePid"
         /\ Process = "check" <=> main = "install"
         /\ Process = "start" <=> main \notin BeforeSignal /\ signals = 0 /\ inputer = "new"
         /\ Process = "up" <=> main \notin BeforeSignal /\ signals = 0 /\ inputer # "new"
         /\ Process = "early" <=> main \notin BeforeSignal /\ signals # 0
                                  /\ "early" \in mishaps /\ pidFile # "unlinked"
         /\ Process = "deaf" <=> main \notin BeforeSignal /\ signals # 0
                                  /\ "early" \in mishaps /\ pidFile = "unlinked"
         /\ Process = "closing" <=> main \notin BeforeSignal /\ signals # 0
                                  /\ "early" \notin mishaps /\ pidFile # "unlinked"
         /\ Process = "leaving" <=> main \notin BeforeSignal /\ signals # 0
                                  /\ "early" \notin mishaps /\ pidFile = "unlinked"
         /\ Writers = IF main = "writePid" THEN {"self"} ELSE {}
         /\ Hung = IF "inCall" \in mishaps THEN {"self"} ELSE {}
         /\ Hung # {} => main \notin BeforeSignal /\ signals # 0
         /\ PidMishaps = mishaps \cap {"early", "inCall", "unstored"}
<1>1. /\ \/ Process = "free" /\ main \in {"create", "daemonize"}
         \/ Process = "store" /\ main = "store"
         \/ Process = "write" /\ main = "writePid"
         \/ Process = "check" /\ main = "install"
         \/ Process = "start" /\ main \notin BeforeSignal /\ signals = 0 /\ inputer = "new"
         \/ Process = "up" /\ main \notin BeforeSignal /\ signals = 0 /\ inputer # "new"
         \/ Process = "early" /\ main \notin BeforeSignal /\ signals # 0
                                  /\ "early" \in mishaps /\ pidFile # "unlinked"
         \/ Process = "deaf" /\ main \notin BeforeSignal /\ signals # 0
                                  /\ "early" \in mishaps /\ pidFile = "unlinked"
         \/ Process = "closing" /\ main \notin BeforeSignal /\ signals # 0
                                  /\ "early" \notin mishaps /\ pidFile # "unlinked"
         \/ Process = "leaving" /\ main \notin BeforeSignal /\ signals # 0
                                  /\ "early" \notin mishaps /\ pidFile = "unlinked"
  BY DEF Process, BeforeSignal, Forking
<1>2. PidMishaps = mishaps \cap {"early", "inCall", "unstored"}
  BY DEF PidMishaps, Orphans
<1>3. "inCall" \in mishaps => main \notin BeforeSignal /\ signals # 0
  BY DEF IInv, FirstSignalInv, TypeOK
<1>. QED BY <1>1, <1>2, <1>3 DEF BeforeSignal, Writers, Hung

\* At first nothing is stored, and the process has no pid of its own.
LEMMA PidInit == Init => Pids!Init
<1>. SUFFICES ASSUME Init PROVE Pids!Init
  OBVIOUS
<1>1. Process = "free" /\ File = "absent" /\ ~Orphans
  BY DEF Init, Process, File, Orphans, Forking, BeforeSignal
<1>2. Writers = {} /\ Hung = {} /\ PidMishaps = {}
  BY <1>1 DEF Init, Writers, Hung, PidMishaps
<1>. QED BY <1>1, <1>2 DEF Pids!Init

\* The state of the only process.
LEMMA OneProcess ==
  \A a, b : [p \in {"self"} |-> b] = [[p \in {"self"} |-> a] EXCEPT !["self"] = b]
OBVIOUS

LEMMA PidStutters ==
  ASSUME UNCHANGED <<Process, File, Writers, Hung, PidMishaps>>
  PROVE  UNCHANGED Pids!vars
BY DEF Pids!vars

\* However the process ends, its end is one of PidFile's.
LEMMA PidEnds ==
  ASSUME IInv, Next, daemon, ended = "no", ended' # "no"
  PROVE  Pids!Ends("self") \/ UNCHANGED Pids!vars
<1>1. /\ UNCHANGED <<daemon, pidFile>>
      /\ \A m \in {"early", "inCall", "unstored"} : m \in mishaps' <=> m \in mishaps
  BY EndingKeeps
<1>2. File' = File
  BY <1>1 DEF File
<1>3. Process' = "free" /\ Writers' = {} /\ Hung' = {}
  BY DEF Process, Writers, Hung
<1>4. PidMishaps' = PidMishaps \cup (IF Orphans' THEN {"orphan"} ELSE {})
  BY <1>1 DEF PidMishaps, Orphans
<1>5. Orphans' <=> Process \in {"check", "start", "early", "up", "closing"}
  <2>1. Orphans' <=> pidFile = "stored" \/ (pidFile = "none" /\ "unstored" \in mishaps)
    BY <1>1 DEF Orphans
  <2>2. Process \in {"check", "start", "early", "up", "closing"} <=>
          main \notin {"create", "daemonize", "store", "writePid"} /\ pidFile # "unlinked"
    BY Alive DEF BeforeSignal, IInv, FirstSignalInv
  <2>3. pidFile \in PidFileState
    BY DEF IInv, TypeOK
  <2>. QED BY <2>1, <2>2, <2>3 DEF IInv, StoredInv, PidFileState
<1>6. CASE Process = "free"
  <2>1. Writers = {} /\ Hung = {} /\ ~Orphans'
    BY <1>5, <1>6, Alive DEF Writers, BeforeSignal
  <2>. QED BY <1>2, <1>3, <1>4, <1>6, <2>1, PidStutters
<1>7. CASE Process # "free"
  <2>1. Process \in Pids!Daemon
    BY <1>7, Alive DEF Pids!Daemon, BeforeSignal
  <2>2. Writers' = Writers \ {"self"} /\ Hung' = Hung \ {"self"}
    BY <1>3 DEF Writers, Hung
  <2>3. [p \in {"self"} |-> Process'] = [[p \in {"self"} |-> Process] EXCEPT !["self"] = "free"]
    BY <1>3, OneProcess
  <2>4. Pids!Orphaning("self") = IF Orphans' THEN {"orphan"} ELSE {}
    BY <1>5 DEF Pids!Orphaning
  <2>. QED BY <1>2, <1>4, <2>1, <2>2, <2>3, <2>4
           DEF Pids!Ends, Pids!Becomes, Pids!Happen
<1>. QED BY <1>6, <1>7

\* The steps of main and of the handler that PidFile has too.
LEMMA PidStarts ==
  ASSUME IInv, IInv', daemon, ended = "no", ended' = "no",
         Daemonize \/ OpenPid \/ OpenFails \/ StorePid \/ Install
  PROVE  Pids!Next
<1>. USE DEF config, sigs, Pids!Becomes, Pids!Happen
<1>1. daemon' = daemon
  BY DEF Daemonize, OpenPid, OpenFails, StorePid, Install
<1>7. Hung = {} /\ Hung' = {}
  <2>1. main \in BeforeSignal /\ mishaps' \subseteq mishaps \cup {"unstored"}
    BY DEF BeforeSignal, Daemonize, OpenPid, OpenFails, StorePid, Install
  <2>2. "inCall" \notin mishaps
    BY <2>1 DEF IInv, FirstSignalInv, TypeOK
  <2>. QED BY <2>1, <2>2 DEF Hung
<1>2. CASE Daemonize
  <2>1. Process = "free" /\ Process' = "store" /\ Writers = {} /\ Writers' = {}
    BY <1>1, <1>2, Alive DEF Daemonize, Process, Writers, BeforeSignal, Forking
  <2>2. File' = File /\ PidMishaps' = PidMishaps
    BY <1>1, <1>2 DEF Daemonize, File, PidMishaps, Orphans
  <2>3. Pids!StartMishap = {}
    BY <2>1 DEF Pids!StartMishap, Pids!Daemon, Pids!Told
  <2>4. [p \in {"self"} |-> Process'] = [[p \in {"self"} |-> Process] EXCEPT !["self"] = "store"]
    BY <2>1, OneProcess
  <2>5. Pids!Fork("self")
    BY <1>7, <2>1, <2>2, <2>3, <2>4 DEF Pids!Fork
  <2>. QED BY <2>5 DEF Pids!Next
<1>3. CASE OpenPid
  <2>1. Process = "store" /\ Process' = "write" /\ Writers = {} /\ Writers' = {"self"}
    BY <1>1, <1>3 DEF OpenPid, Process, Writers, BeforeSignal, Forking
  <2>2. File' = "empty" /\ PidMishaps' = PidMishaps
    <3>1. pidFile' = "empty" /\ mishaps' = mishaps
      BY <1>3 DEF OpenPid
    <3>. QED BY <1>1, <3>1 DEF File, PidMishaps, Orphans
  <2>3. [p \in {"self"} |-> Process'] = [[p \in {"self"} |-> Process] EXCEPT !["self"] = "write"]
    BY <2>1, OneProcess
  <2>4. Pids!OpenPid("self")
    BY <1>7, <2>1, <2>2, <2>3 DEF Pids!OpenPid
  <2>. QED BY <2>4 DEF Pids!Next
<1>4. CASE OpenFails
  <2>1. Process = "store" /\ Process' = "check" /\ Writers = {} /\ Writers' = {}
    BY <1>1, <1>4 DEF OpenFails, Process, Writers, BeforeSignal, Forking
  <2>2. File' = File /\ PidMishaps' = PidMishaps \cup {"unstored"}
    BY <1>1, <1>4 DEF OpenFails, File, PidMishaps, Orphans
  <2>3. [p \in {"self"} |-> Process'] = [[p \in {"self"} |-> Process] EXCEPT !["self"] = "check"]
    BY <2>1, OneProcess
  <2>4. Pids!OpenFails("self")
    BY <1>7, <2>1, <2>2, <2>3 DEF Pids!OpenFails
  <2>. QED BY <2>4 DEF Pids!Next
<1>5. CASE StorePid
  <2>1. Process = "write" /\ Process' = "check" /\ Writers = {"self"} /\ Writers' = {}
    BY <1>1, <1>5 DEF StorePid, Process, Writers, BeforeSignal, Forking
  <2>2. File' = "self" /\ PidMishaps' = PidMishaps
    <3>1. pidFile' = "stored" /\ mishaps' = mishaps
      BY <1>5 DEF StorePid
    <3>. QED BY <1>1, <3>1 DEF File, PidMishaps, Orphans
  <2>3. [p \in {"self"} |-> Process'] = [[p \in {"self"} |-> Process] EXCEPT !["self"] = "check"]
    BY <2>1, OneProcess
  <2>4. Pids!StorePid("self")
    BY <1>7, <2>1, <2>2, <2>3 DEF Pids!StorePid
  <2>. QED BY <2>4 DEF Pids!Next
<1>6. CASE Install
  <2>1. signals = 0 /\ signals' = signals /\ inputer = "new" /\ inputer' = inputer
    BY <1>6 DEF Install, Starting, BeforeSignal, IInv, FirstSignalInv, InputerInv, TypeOK
  <2>2. Process = "check" /\ Process' = "start" /\ Writers = {} /\ Writers' = {}
    BY <1>1, <1>6, <2>1 DEF Install, Process, Writers, BeforeSignal, Forking
  <2>3. File' = File /\ PidMishaps' = PidMishaps
    BY <1>1, <1>6 DEF Install, File, PidMishaps, Orphans
  <2>4. [p \in {"self"} |-> Process'] = [[p \in {"self"} |-> Process] EXCEPT !["self"] = "start"]
    BY <2>2, OneProcess
  <2>5. Pids!Install("self")
    BY <1>7, <2>2, <2>3, <2>4 DEF Pids!Install
  <2>. QED BY <2>5 DEF Pids!Next
<1>. QED BY <1>2, <1>3, <1>4, <1>5, <1>6

LEMMA PidPolls ==
  ASSUME IInv, daemon, ended = "no", StartPolling
  PROVE  Pids!Next \/ UNCHANGED Pids!vars
<1>. USE DEF config, sigs, BeforeSignal
<1>1. /\ UNCHANGED <<daemon, pidFile, signals, mishaps, ended>>
      /\ main = "run" /\ main' = "poll" /\ inputer = "new" /\ inputer' = "run"
  BY DEF StartPolling, IInv, InputerInv, Starting
<1>2. Writers = {} /\ Writers' = {} /\ Hung' = Hung /\ File' = File /\ PidMishaps' = PidMishaps
  <2>1. Process # "write" /\ Process' # "write"
    BY <1>1 DEF Process
  <2>. QED BY <1>1, <2>1 DEF Writers, Hung, File, PidMishaps, Orphans
<1>3. CASE signals = 0
  <2>1. Process = "start" /\ Process' = "up"
    BY <1>1, <1>3 DEF Process
  <2>2. [p \in {"self"} |-> Process'] = [[p \in {"self"} |-> Process] EXCEPT !["self"] = "up"]
    BY <2>1, OneProcess
  <2>3. Pids!Poll("self")
    BY <1>2, <2>1, <2>2 DEF Pids!Poll, Pids!Becomes
  <2>. QED BY <2>3 DEF Pids!Next
<1>4. CASE signals # 0
  <2>1. "early" \in mishaps
    BY <1>1, <1>4 DEF IInv, FirstSignalInv, TypeOK
  <2>2. Process' = Process
    BY <1>1, <1>4, <2>1 DEF Process
  <2>. QED BY <1>2, <2>2, PidStutters
<1>. QED BY <1>3, <1>4

\* Of the signals only the first one is one of PidFile's, unless one ends the
\* process or finds a thread inside localtime_r.
LEMMA PidSignalled ==
  ASSUME IInv, daemon, ended = "no", ended' = "no",
         NEW t \in Thread, NEW inside \in BOOLEAN, Signal(t, inside)
  PROVE  Pids!Next \/ UNCHANGED Pids!vars
<1>. DEFINE early  == IF inputer = "new" THEN {"early"} ELSE {}
            inCall == IF inside THEN {"inCall"} ELSE {}
<1>. USE DEF Pids!Becomes, Pids!Happen
<1>1. /\ UNCHANGED <<daemon, main, inputer, pidFile>> /\ main \notin BeforeSignal
      /\ mishaps' = mishaps \cup MishapOf(t, inside) /\ signals' = signals + 1
      /\ signals \in Nat
  BY DEF Signal, config, IInv, TypeOK
<1>2. \A m \in {"early", "inCall", "unstored"} : m \in MishapOf(t, inside) <=> m \in early \cup inCall
  BY DEF MishapOf
<1>3. PidMishaps' = PidMishaps \cup early \cup inCall
  BY <1>1, <1>2 DEF PidMishaps, Orphans
<1>4. File' = File
  BY <1>1 DEF File
<1>5. Writers = {} /\ Writers' = {}
  BY <1>1 DEF Writers, Process
<1>8. Hung' = Hung \cup (IF inside THEN {"self"} ELSE {})
  BY <1>1, <1>2 DEF Hung
<1>6. CASE signals = 0
  <2>1. "early" \notin mishaps /\ pidFile # "unlinked"
    BY <1>6 DEF IInv, FirstSignalInv
  <2>2. CASE inputer = "new"
    <3>1. Process = "start" /\ Process' = "early"
      BY <1>1, <1>2, <1>6, <2>1, <2>2 DEF Process
    <3>2. [p \in {"self"} |-> Process'] = [[p \in {"self"} |-> Process] EXCEPT !["self"] = "early"]
      BY <3>1, OneProcess
    <3>3. CASE inside
      BY <1>3, <1>4, <1>5, <1>8, <2>2, <3>1, <3>2, <3>3
         DEF Pids!Next, Pids!Terminate, Pids!Hang, Pids!Daemon
    <3>4. CASE ~inside
      BY <1>3, <1>4, <1>5, <1>8, <2>2, <3>1, <3>2, <3>4
         DEF Pids!Next, Pids!Terminate, Pids!Term, Pids!Daemon
    <3>. QED BY <3>3, <3>4
  <2>3. CASE inputer # "new"
    <3>1. Process = "up" /\ Process' = "closing"
      BY <1>1, <1>2, <1>6, <2>1, <2>3 DEF Process
    <3>2. [p \in {"self"} |-> Process'] = [[p \in {"self"} |-> Process] EXCEPT !["self"] = "closing"]
      BY <3>1, OneProcess
    <3>3. CASE inside
      BY <1>3, <1>4, <1>5, <1>8, <2>3, <3>1, <3>2, <3>3
         DEF Pids!Next, Pids!Terminate, Pids!Hang, Pids!Daemon
    <3>4. CASE ~inside
      BY <1>3, <1>4, <1>5, <1>8, <2>3, <3>1, <3>2, <3>4
         DEF Pids!Next, Pids!Terminate, Pids!Term, Pids!Daemon
    <3>. QED BY <3>3, <3>4
  <2>. QED BY <2>2, <2>3
<1>7. CASE signals # 0
  <2>1. inputer = "new" => "early" \in mishaps
    BY <1>1, <1>7 DEF IInv, FirstSignalInv
  <2>2. "early" \in mishaps' <=> "early" \in mishaps
    BY <1>1, <1>2, <2>1
  <2>3. Process' = Process /\ Process \in Pids!Told
    BY <1>1, <1>7, <2>2 DEF Process, Pids!Told
  <2>4. PidMishaps' = PidMishaps \cup inCall
    BY <1>3, <2>1 DEF PidMishaps
  <2>5. CASE inside
    <3>1. [p \in {"self"} |-> Process'] = [p \in {"self"} |-> Process]
      BY <2>3
    <3>2. Pids!Hang("self")
      BY <1>5, <1>8, <2>3, <2>4, <2>5, <3>1 DEF Pids!Hang
    <3>3. Process \in Pids!Daemon
      BY <2>3 DEF Pids!Told, Pids!Daemon
    <3>. QED BY <1>4, <3>2, <3>3 DEF Pids!Next, Pids!Terminate
  <2>6. CASE ~inside
    BY <1>4, <1>5, <1>8, <2>3, <2>4, <2>6, PidStutters
  <2>. QED BY <2>5, <2>6
<1>. QED BY <1>6, <1>7

LEMMA PidUnlinks ==
  ASSUME IInv, daemon, ended = "no", NEW t \in Thread, Leave(t)
  PROVE  Pids!Next \/ UNCHANGED Pids!vars
<1>1. /\ UNCHANGED <<daemon, main, inputer, signals, mishaps, ended>>
      /\ pidFile' = "unlinked" /\ frame[t] = "return"
  BY DEF Leave, config, sigs
<1>2. signals # 0 /\ main \notin BeforeSignal
  BY <1>1 DEF IInv, FirstSignalInv
<1>3. /\ Writers = {} /\ Writers' = {} /\ Hung' = Hung
      /\ PidMishaps' = PidMishaps /\ File' = "absent"
  BY <1>1, <1>2 DEF Writers, Process, Hung, PidMishaps, Orphans, File
<1>4. CASE pidFile = "unlinked"
  <2>1. Process' = Process /\ File' = File
    BY <1>1, <1>4 DEF Process, File
  <2>. QED BY <1>3, <2>1, PidStutters
<1>5. CASE pidFile # "unlinked"
  <2>1. \/ Process = "early" /\ Process' = "deaf"
        \/ Process = "closing" /\ Process' = "leaving"
    BY <1>1, <1>2, <1>5 DEF Process
  <2>2. [p \in {"self"} |-> Process'] =
          [[p \in {"self"} |-> Process] EXCEPT !["self"] =
             IF Process = "closing" THEN "leaving" ELSE "deaf"]
    BY <2>1, OneProcess
  <2>3. Pids!Unlink("self")
    BY <1>3, <2>1, <2>2 DEF Pids!Unlink, Pids!Becomes
  <2>. QED BY <2>3 DEF Pids!Next
<1>. QED BY <1>4, <1>5

\* Nothing else a living daemon does can be told from its pid file.
LEMMA PidHidden ==
  ASSUME daemon, ended = "no", ended' = "no", main \notin BeforeSignal, main' \notin BeforeSignal,
         UNCHANGED <<daemon, pidFile, signals>>,
         inputer' = "new" <=> inputer = "new",
         \A m \in {"early", "inCall", "unstored"} : m \in mishaps' <=> m \in mishaps
  PROVE  UNCHANGED Pids!vars
<1>1. Process' = Process
  BY DEF Process
<1>2. Writers' = Writers
  BY <1>1 DEF Writers
<1>3. File' = File /\ Hung' = Hung /\ PidMishaps' = PidMishaps
  BY DEF File, Hung, PidMishaps, Orphans
<1>. QED BY <1>1, <1>2, <1>3, PidStutters

\* The process in the foreground has nothing to do with a pid file.
LEMMA PidForeground ==
  ASSUME StoredInv, StoredInv', ~daemon, ~daemon'
  PROVE  UNCHANGED Pids!vars
<1>1. /\ Process' = Process /\ Process = "free" /\ Writers = {} /\ Writers' = {}
      /\ Hung = {} /\ Hung' = {}
  BY DEF Process, Writers, Hung
<1>2. File' = File /\ ~Orphans /\ ~Orphans'
  BY DEF StoredInv, File, Orphans
<1>3. PidMishaps' = PidMishaps
  BY <1>2 DEF PidMishaps
<1>. QED BY <1>1, <1>2, <1>3, PidStutters

LEMMA ModeIsKept == [Next]_vars => daemon' = daemon
BY DEF Next, Main, Timer, Close, Handler, Done, vars, config, Create, CreateFails,
  Daemonize, OpenPid, OpenFails, StorePid, Unwritable, Install, RunOuter, StartThread,
  NoThread, StartPolling, WriteOuter, SkipOuter, Written, LeaveLoop, Delete, FreePrefs,
  ClearPrefs, Return, Arrive, PrintSaved, Drain, Drained, ThreadEnds, DefaultAction,
  UseDeleted, CloseStep, CloseCheck, CloseSigned, CloseOuter, CloseFile, CloseRaw,
  SignOff, CloseJoin, Signal, Enter, Mark, Leave, Back

\* The steps that the three lemmas before are not about.
LEMMA PidSilent ==
  ASSUME IInv, Next, daemon, ended = "no", ended' = "no"
  PROVE  \/ Create \/ Daemonize \/ OpenPid \/ OpenFails \/ StorePid \/ Install
         \/ StartPolling \/ \E t \in Thread : Leave(t)
         \/ \E t \in Thread, inside \in BOOLEAN : Signal(t, inside)
         \/ UNCHANGED vars
         \/ /\ main \notin BeforeSignal /\ main' \notin BeforeSignal
            /\ UNCHANGED <<pidFile, signals>>
            /\ inputer' = "new" <=> inputer = "new"
            /\ \A m \in {"early", "inCall", "unstored"} : m \in mishaps' <=> m \in mishaps
<1>. USE DEF config, sigs, BeforeSignal
<1>1. CASE \/ RunOuter \/ StartThread \/ NoThread \/ WriteOuter \/ SkipOuter \/ Written
           \/ LeaveLoop \/ Delete \/ FreePrefs \/ ClearPrefs \/ Arrive
  <2>. USE DEF RunOuter, StartThread, NoThread, WriteOuter, SkipOuter, Written,
       LeaveLoop, Delete, FreePrefs, ClearPrefs, Arrive
  <2>1. main \notin BeforeSignal /\ main' \notin BeforeSignal
    BY <1>1
  <2>2. UNCHANGED <<pidFile, signals>>
    BY <1>1
  <2>3. inputer' = "new" <=> inputer = "new"
    BY <1>1 DEF IInv, InputerInv, Starting
  <2>4. \A m \in {"early", "inCall", "unstored"} : m \in mishaps' <=> m \in mishaps
    BY <1>1
  <2>. QED BY <2>1, <2>2, <2>3, <2>4
<1>2. CASE \/ Timer \/ Close \/ \E t \in Thread : Enter(t) \/ Mark(t) \/ Back(t)
  <2>. USE DEF Timer, PrintSaved, Drain, Drained, ThreadEnds, Close, CloseStep, CloseCheck,
       CloseSigned, CloseOuter, CloseFile, CloseRaw, SignOff, CloseJoin, Enter, Mark, Back
  <2>1. main \notin BeforeSignal
    <3>1. CASE Timer
      BY <3>1 DEF IInv, ThreadInv
    <3>2. ASSUME NEW f \in Frame, frame[f] # "idle" PROVE main \notin BeforeSignal
      BY <3>2 DEF IInv, FirstSignalInv, BodyInv, Frame
    <3>3. CASE Close
      BY <3>2, <3>3 DEF Outer
    <3>4. CASE \E t \in Thread : Enter(t) \/ Mark(t) \/ Back(t)
      BY <3>2, <3>4 DEF Frame
    <3>. QED BY <1>2, <3>1, <3>3, <3>4
  <2>2. UNCHANGED <<main, pidFile, signals>>
    BY <1>2
  <2>3. inputer' = "new" <=> inputer = "new"
    BY <1>2 DEF Shutdown
  <2>4. \A m \in {"early", "inCall", "unstored"} : m \in mishaps' <=> m \in mishaps
    BY <1>2
  <2>. QED BY <2>1, <2>2, <2>3, <2>4
<1>3. ~(CreateFails \/ Unwritable \/ Return \/ DefaultAction \/ UseDeleted)
  BY DEF CreateFails, Unwritable, Return, DefaultAction, UseDeleted
<1>. QED BY <1>1, <1>2, <1>3 DEF Next, Main, Handler, Done

\* Every step of the process is one that PidFile lets its daemon make, or one that
\* leaves the pid file and what PidFile knows of the daemon alone.
LEMMA PidNext ==
  ASSUME IInv, IInv', [Next]_vars
  PROVE  [Pids!Next]_(Pids!vars)
<1>1. daemon' = daemon
  BY ModeIsKept
<1>2. CASE UNCHANGED vars
  <2>1. UNCHANGED <<Process, File, Writers, Hung, PidMishaps>>
    BY <1>2 DEF vars, Process, File, Writers, Hung, PidMishaps, Orphans
  <2>. QED BY <2>1, PidStutters
<1>3. CASE ended # "no"
  BY <1>2, <1>3, EndIsFinal
<1>4. CASE ~daemon
  BY <1>1, <1>4, PidForeground DEF IInv
<1>5. CASE Next /\ daemon /\ ended = "no" /\ ended' # "no"
  <2>1. Pids!Ends("self") \/ UNCHANGED Pids!vars
    BY <1>5, PidEnds
  <2>. QED BY <2>1 DEF Pids!Next
<1>6. CASE Next /\ daemon /\ ended = "no" /\ ended' = "no"
  <2>1. CASE Create
    <3>1. Process' = Process /\ File' = File
      BY <1>1, <1>6, <2>1 DEF Create, Process, BeforeSignal, Forking, File
    <3>2. Writers' = Writers /\ Hung' = Hung /\ PidMishaps' = PidMishaps
      BY <1>1, <1>6, <2>1, <3>1 DEF Create, Writers, Hung, PidMishaps, Orphans, sigs
    <3>. QED BY <3>1, <3>2, PidStutters
  <2>2. CASE Daemonize \/ OpenPid \/ OpenFails \/ StorePid \/ Install
    BY <1>6, <2>2, PidStarts
  <2>3. CASE StartPolling
    BY <1>6, <2>3, PidPolls
  <2>4. ASSUME NEW t \in Thread, NEW inside \in BOOLEAN, Signal(t, inside)
        PROVE  [Pids!Next]_(Pids!vars)
    BY <1>6, <2>4, PidSignalled
  <2>5. ASSUME NEW t \in Thread, Leave(t) PROVE [Pids!Next]_(Pids!vars)
    BY <1>6, <2>5, PidUnlinks
  <2>6. CASE /\ main \notin BeforeSignal /\ main' \notin BeforeSignal
             /\ UNCHANGED <<pidFile, signals>>
             /\ inputer' = "new" <=> inputer = "new"
             /\ \A m \in {"early", "inCall", "unstored"} : m \in mishaps' <=> m \in mishaps
    BY <1>1, <1>6, <2>6, PidHidden
  <2>. QED BY <1>2, <1>6, <2>1, <2>2, <2>3, <2>4, <2>5, <2>6, PidSilent
<1>. QED BY <1>2, <1>3, <1>4, <1>5, <1>6

\* The process of PortStat, with its threads, signals and mishaps, is a daemon as
\* PidFile describes one, alone and without a -k (main, sigproc,
\* PortStat::Daemonize): the daemons that PidFile puts side by side are the program.
THEOREM ImplementsPidFile == Spec => PidFileSpec
<1>1. Init => Pids!Init
  BY PidInit
<1>2. IInv /\ IInv' /\ [Next]_vars => [Pids!Next]_(Pids!vars)
  BY PidNext
<1>. QED BY <1>1, <1>2, Invariance, PTL DEF Spec, PidFileSpec, Pids!Spec
=============================================================================
