----------------------------- MODULE PidFileProofs -----------------------------
(***************************************************************************)
(* Proofs about PidFile for every set of pids and of commands that kill.   *)
(***************************************************************************)
EXTENDS PidFile, TLAPS

USE PidAssumption DEF NoPid

\* Every step keeps the types.
LEMMA TypeStep ==
  ASSUME TypeOK, [Next]_vars
  PROVE  TypeOK'
<1>. USE DEF TypeOK, Told, vars, Becomes, Happen, Daemon
<1>1. ASSUME NEW p \in Pid, Fork(p) PROVE TypeOK'
  BY <1>1 DEF Fork, StartMishap
<1>2. ASSUME NEW p \in Pid, OpenPid(p) PROVE TypeOK'
  BY <1>2 DEF OpenPid
<1>3. ASSUME NEW p \in Pid, OpenFails(p) PROVE TypeOK'
  BY <1>3 DEF OpenFails
<1>4. ASSUME NEW p \in Pid, StorePid(p) PROVE TypeOK'
  BY <1>4 DEF StorePid
<1>5. ASSUME NEW p \in Pid, Install(p) PROVE TypeOK'
  BY <1>5 DEF Install
<1>6. ASSUME NEW p \in Pid, Poll(p) PROVE TypeOK'
  BY <1>6 DEF Poll
<1>7. ASSUME NEW p \in Pid, Unlink(p) PROVE TypeOK'
  BY <1>7 DEF Unlink
<1>8. ASSUME NEW p \in Pid, Return(p) PROVE TypeOK'
  BY <1>8 DEF Return
<1>9. ASSUME NEW p \in Pid, Ends(p) PROVE TypeOK'
  BY <1>9 DEF Ends, Orphaning
<1>10. ASSUME NEW p \in Pid, Terminate(p) PROVE TypeOK'
  <2>1. CASE Term(p)
    BY <1>10, <2>1 DEF Terminate, Term, Orphaning
  <2>2. CASE Hang(p)
    BY <1>10, <2>2 DEF Terminate, Hang
  <2>. QED BY <1>10, <2>1, <2>2 DEF Terminate
<1>11. ASSUME NEW p \in Pid, Reuse(p) PROVE TypeOK'
  BY <1>11 DEF Reuse
<1>12. ASSUME NEW p \in Pid, StrangerEnds(p) PROVE TypeOK'
  BY <1>12 DEF StrangerEnds
<1>13. ASSUME NEW c \in Killer, ReadPid(c) PROVE TypeOK'
  BY <1>13 DEF ReadPid
<1>14. ASSUME NEW c \in Killer, Kill(c) PROVE TypeOK'
  <2>1. killer[c] \in Pid /\ killer' = [killer EXCEPT ![c] = "idle"] /\ file' = file
    BY <1>14 DEF Kill
  <2>2. CASE proc[killer[c]] = "free"
    BY <1>14, <2>1, <2>2 DEF Kill
  <2>3. CASE Term(killer[c])
    <3>1. /\ proc' \in [Pid -> Daemon \cup {"free", "stranger"}]
          /\ writers' \subseteq {p \in Pid : proc'[p] = "write"}
          /\ hung' \subseteq {p \in Pid : proc'[p] \in Told}
          /\ mishaps' \subseteq Allowed
      BY <2>1, <2>3 DEF Term
    <3>2. harmed' \in BOOLEAN
      BY <2>3 DEF Term
    <3>. QED BY <2>1, <3>1, <3>2
  <2>4. CASE Hang(killer[c])
    BY <2>1, <2>4 DEF Hang
  <2>. QED BY <1>14, <2>2, <2>3, <2>4 DEF Kill
<1>15. CASE UNCHANGED vars
  BY <1>15
<1>. QED
  BY <1>1, <1>2, <1>3, <1>4, <1>5, <1>6, <1>7, <1>8, <1>9, <1>10, <1>11, <1>12,
     <1>13, <1>14, <1>15, Zenon DEF Next

\* A daemon that starts alone stays alone.
LEMMA OneStep ==
  ASSUME TypeOK, OneDaemon, [Next]_vars
  PROVE  OneDaemon'
<1>. USE DEF TypeOK, OneDaemon, Told, vars, Becomes, Happen, Daemon
<1>1. ASSUME NEW p \in Pid, Fork(p) PROVE OneDaemon'
  BY <1>1 DEF Fork, StartMishap
<1>2. ASSUME NEW p \in Pid, OpenPid(p) PROVE OneDaemon'
  BY <1>2 DEF OpenPid
<1>3. ASSUME NEW p \in Pid, OpenFails(p) PROVE OneDaemon'
  BY <1>3 DEF OpenFails
<1>4. ASSUME NEW p \in Pid, StorePid(p) PROVE OneDaemon'
  BY <1>4 DEF StorePid
<1>5. ASSUME NEW p \in Pid, Install(p) PROVE OneDaemon'
  BY <1>5 DEF Install
<1>6. ASSUME NEW p \in Pid, Poll(p) PROVE OneDaemon'
  BY <1>6 DEF Poll
<1>7. ASSUME NEW p \in Pid, Unlink(p) PROVE OneDaemon'
  BY <1>7 DEF Unlink
<1>8. ASSUME NEW p \in Pid, Return(p) PROVE OneDaemon'
  BY <1>8 DEF Return
<1>9. ASSUME NEW p \in Pid, Ends(p) PROVE OneDaemon'
  BY <1>9 DEF Ends, Orphaning
<1>10. ASSUME NEW p \in Pid, Terminate(p) PROVE OneDaemon'
  <2>1. CASE Term(p)
    BY <1>10, <2>1 DEF Terminate, Term, Orphaning
  <2>2. CASE Hang(p)
    BY <1>10, <2>2 DEF Terminate, Hang
  <2>. QED BY <1>10, <2>1, <2>2 DEF Terminate
<1>11. ASSUME NEW p \in Pid, Reuse(p) PROVE OneDaemon'
  BY <1>11 DEF Reuse
<1>12. ASSUME NEW p \in Pid, StrangerEnds(p) PROVE OneDaemon'
  BY <1>12 DEF StrangerEnds
<1>13. ASSUME NEW c \in Killer, ReadPid(c) PROVE OneDaemon'
  BY <1>13 DEF ReadPid
<1>14. ASSUME NEW c \in Killer, Kill(c) PROVE OneDaemon'
  <2>1. killer[c] \in Pid /\ killer' = [killer EXCEPT ![c] = "idle"] /\ file' = file
    BY <1>14 DEF Kill
  <2>2. CASE proc[killer[c]] = "free"
    BY <1>14, <2>1, <2>2 DEF Kill
  <2>3. CASE Term(killer[c])
    BY <2>1, <2>3 DEF Term, Orphaning
  <2>4. CASE Hang(killer[c])
    BY <2>1, <2>4 DEF Hang
  <2>. QED BY <1>14, <2>2, <2>3, <2>4 DEF Kill
<1>15. CASE UNCHANGED vars
  BY <1>15
<1>. QED
  BY <1>1, <1>2, <1>3, <1>4, <1>5, <1>6, <1>7, <1>8, <1>9, <1>10, <1>11, <1>12,
     <1>13, <1>14, <1>15, Zenon DEF Next

\* Nobody unlinks the file while a daemon that is alone has it open.
LEMMA OwnStep ==
  ASSUME TypeOK, OneDaemon, OwnFile, [Next]_vars
  PROVE  OwnFile'
<1>. USE DEF TypeOK, OneDaemon, OwnFile, Told, vars, Becomes, Happen, Daemon
<1>1. ASSUME NEW p \in Pid, Fork(p) PROVE OwnFile'
  BY <1>1 DEF Fork, StartMishap
<1>2. ASSUME NEW p \in Pid, OpenPid(p) PROVE OwnFile'
  BY <1>2 DEF OpenPid
<1>3. ASSUME NEW p \in Pid, OpenFails(p) PROVE OwnFile'
  BY <1>3 DEF OpenFails
<1>4. ASSUME NEW p \in Pid, StorePid(p) PROVE OwnFile'
  BY <1>4 DEF StorePid
<1>5. ASSUME NEW p \in Pid, Install(p) PROVE OwnFile'
  BY <1>5 DEF Install
<1>6. ASSUME NEW p \in Pid, Poll(p) PROVE OwnFile'
  BY <1>6 DEF Poll
<1>7. ASSUME NEW p \in Pid, Unlink(p) PROVE OwnFile'
  BY <1>7 DEF Unlink
<1>8. ASSUME NEW p \in Pid, Return(p) PROVE OwnFile'
  BY <1>8 DEF Return
<1>9. ASSUME NEW p \in Pid, Ends(p) PROVE OwnFile'
  BY <1>9 DEF Ends, Orphaning
<1>10. ASSUME NEW p \in Pid, Terminate(p) PROVE OwnFile'
  <2>1. CASE Term(p)
    BY <1>10, <2>1 DEF Terminate, Term, Orphaning
  <2>2. CASE Hang(p)
    BY <1>10, <2>2 DEF Terminate, Hang
  <2>. QED BY <1>10, <2>1, <2>2 DEF Terminate
<1>11. ASSUME NEW p \in Pid, Reuse(p) PROVE OwnFile'
  BY <1>11 DEF Reuse
<1>12. ASSUME NEW p \in Pid, StrangerEnds(p) PROVE OwnFile'
  BY <1>12 DEF StrangerEnds
<1>13. ASSUME NEW c \in Killer, ReadPid(c) PROVE OwnFile'
  BY <1>13 DEF ReadPid
<1>14. ASSUME NEW c \in Killer, Kill(c) PROVE OwnFile'
  <2>1. killer[c] \in Pid /\ killer' = [killer EXCEPT ![c] = "idle"] /\ file' = file
    BY <1>14 DEF Kill
  <2>2. CASE proc[killer[c]] = "free"
    BY <1>14, <2>1, <2>2 DEF Kill
  <2>3. CASE Term(killer[c])
    BY <2>1, <2>3 DEF Term, Orphaning
  <2>4. CASE Hang(killer[c])
    BY <2>1, <2>4 DEF Hang
  <2>. QED BY <1>14, <2>2, <2>3, <2>4 DEF Kill
<1>15. CASE UNCHANGED vars
  BY <1>15
<1>. QED
  BY <1>1, <1>2, <1>3, <1>4, <1>5, <1>6, <1>7, <1>8, <1>9, <1>10, <1>11, <1>12,
     <1>13, <1>14, <1>15, Zenon DEF Next

\* A pid that was read is not given away without a mishap.
LEMMA ReadStep ==
  ASSUME TypeOK, FileTells, ReadTells, [Next]_vars
  PROVE  ReadTells'
<1>. USE DEF TypeOK, FileTells, ReadTells, Stored, vars, Becomes, Happen, Daemon
<1>1. ASSUME NEW p \in Pid, Fork(p) PROVE ReadTells'
  BY <1>1 DEF Fork, StartMishap
<1>2. ASSUME NEW p \in Pid, OpenPid(p) PROVE ReadTells'
  BY <1>2 DEF OpenPid
<1>3. ASSUME NEW p \in Pid, OpenFails(p) PROVE ReadTells'
  BY <1>3 DEF OpenFails
<1>4. ASSUME NEW p \in Pid, StorePid(p) PROVE ReadTells'
  BY <1>4 DEF StorePid
<1>5. ASSUME NEW p \in Pid, Install(p) PROVE ReadTells'
  BY <1>5 DEF Install
<1>6. ASSUME NEW p \in Pid, Poll(p) PROVE ReadTells'
  BY <1>6 DEF Poll
<1>7. ASSUME NEW p \in Pid, Unlink(p) PROVE ReadTells'
  BY <1>7 DEF Unlink
<1>8. ASSUME NEW p \in Pid, Return(p) PROVE ReadTells'
  BY <1>8 DEF Return
<1>9. ASSUME NEW p \in Pid, Ends(p) PROVE ReadTells'
  BY <1>9 DEF Ends, Orphaning
<1>10. ASSUME NEW p \in Pid, Terminate(p) PROVE ReadTells'
  <2>1. CASE Term(p)
    BY <1>10, <2>1 DEF Terminate, Term, Orphaning
  <2>2. CASE Hang(p)
    BY <1>10, <2>2 DEF Terminate, Hang
  <2>. QED BY <1>10, <2>1, <2>2 DEF Terminate
<1>11. ASSUME NEW p \in Pid, Reuse(p) PROVE ReadTells'
  BY <1>11 DEF Reuse
<1>12. ASSUME NEW p \in Pid, StrangerEnds(p) PROVE ReadTells'
  BY <1>12 DEF StrangerEnds
<1>13. ASSUME NEW c \in Killer, ReadPid(c) PROVE ReadTells'
  BY <1>13 DEF ReadPid
<1>14. ASSUME NEW c \in Killer, Kill(c) PROVE ReadTells'
  <2>1. killer[c] \in Pid /\ killer' = [killer EXCEPT ![c] = "idle"] /\ file' = file
    BY <1>14 DEF Kill
  <2>2. CASE proc[killer[c]] = "free"
    BY <1>14, <2>1, <2>2 DEF Kill
  <2>3. CASE Term(killer[c])
    BY <2>1, <2>3 DEF Term, Orphaning
  <2>4. CASE Hang(killer[c])
    BY <2>1, <2>4 DEF Hang
  <2>. QED BY <1>14, <2>2, <2>3, <2>4 DEF Kill
<1>15. CASE UNCHANGED vars
  BY <1>15
<1>. QED
  BY <1>1, <1>2, <1>3, <1>4, <1>5, <1>6, <1>7, <1>8, <1>9, <1>10, <1>11, <1>12,
     <1>13, <1>14, <1>15, Zenon DEF Next

\* A daemon that is alone writes the file and keeps it until its handler runs.
LEMMA ReachableStep ==
  ASSUME TypeOK, OneDaemon, OwnFile, Reachable, [Next]_vars
  PROVE  Reachable'
<1>. USE DEF TypeOK, OneDaemon, OwnFile, Reachable, Stored, Told, vars, Becomes, Happen, Daemon
<1>1. ASSUME NEW p \in Pid, Fork(p) PROVE Reachable'
  BY <1>1 DEF Fork, StartMishap
<1>2. ASSUME NEW p \in Pid, OpenPid(p) PROVE Reachable'
  BY <1>2 DEF OpenPid
<1>3. ASSUME NEW p \in Pid, OpenFails(p) PROVE Reachable'
  BY <1>3 DEF OpenFails
<1>4. ASSUME NEW p \in Pid, StorePid(p) PROVE Reachable'
  BY <1>4 DEF StorePid
<1>5. ASSUME NEW p \in Pid, Install(p) PROVE Reachable'
  BY <1>5 DEF Install
<1>6. ASSUME NEW p \in Pid, Poll(p) PROVE Reachable'
  BY <1>6 DEF Poll
<1>7. ASSUME NEW p \in Pid, Unlink(p) PROVE Reachable'
  BY <1>7 DEF Unlink
<1>8. ASSUME NEW p \in Pid, Return(p) PROVE Reachable'
  BY <1>8 DEF Return
<1>9. ASSUME NEW p \in Pid, Ends(p) PROVE Reachable'
  BY <1>9 DEF Ends, Orphaning
<1>10. ASSUME NEW p \in Pid, Terminate(p) PROVE Reachable'
  <2>1. CASE Term(p)
    BY <1>10, <2>1 DEF Terminate, Term, Orphaning
  <2>2. CASE Hang(p)
    BY <1>10, <2>2 DEF Terminate, Hang
  <2>. QED BY <1>10, <2>1, <2>2 DEF Terminate
<1>11. ASSUME NEW p \in Pid, Reuse(p) PROVE Reachable'
  BY <1>11 DEF Reuse
<1>12. ASSUME NEW p \in Pid, StrangerEnds(p) PROVE Reachable'
  BY <1>12 DEF StrangerEnds
<1>13. ASSUME NEW c \in Killer, ReadPid(c) PROVE Reachable'
  BY <1>13 DEF ReadPid
<1>14. ASSUME NEW c \in Killer, Kill(c) PROVE Reachable'
  <2>1. killer[c] \in Pid /\ killer' = [killer EXCEPT ![c] = "idle"] /\ file' = file
    BY <1>14 DEF Kill
  <2>2. CASE proc[killer[c]] = "free"
    BY <1>14, <2>1, <2>2 DEF Kill
  <2>3. CASE Term(killer[c])
    BY <2>1, <2>3 DEF Term, Orphaning
  <2>4. CASE Hang(killer[c])
    BY <2>1, <2>4 DEF Hang
  <2>. QED BY <1>14, <2>2, <2>3, <2>4 DEF Kill
<1>15. CASE UNCHANGED vars
  BY <1>15
<1>. QED
  BY <1>1, <1>2, <1>3, <1>4, <1>5, <1>6, <1>7, <1>8, <1>9, <1>10, <1>11, <1>12,
     <1>13, <1>14, <1>15, Zenon DEF Next

\* The file is unlinked by the daemon it names, if the daemon gets to it.
LEMMA FileStep ==
  ASSUME TypeOK, FileTells, [Next]_vars
  PROVE  FileTells'
<1>. USE DEF TypeOK, FileTells, Stored, vars, Becomes, Happen, Daemon
<1>1. ASSUME NEW p \in Pid, Fork(p) PROVE FileTells'
  BY <1>1 DEF Fork, StartMishap
<1>2. ASSUME NEW p \in Pid, OpenPid(p) PROVE FileTells'
  BY <1>2 DEF OpenPid
<1>3. ASSUME NEW p \in Pid, OpenFails(p) PROVE FileTells'
  BY <1>3 DEF OpenFails
<1>4. ASSUME NEW p \in Pid, StorePid(p) PROVE FileTells'
  BY <1>4 DEF StorePid
<1>5. ASSUME NEW p \in Pid, Install(p) PROVE FileTells'
  BY <1>5 DEF Install
<1>6. ASSUME NEW p \in Pid, Poll(p) PROVE FileTells'
  BY <1>6 DEF Poll
<1>7. ASSUME NEW p \in Pid, Unlink(p) PROVE FileTells'
  BY <1>7 DEF Unlink
<1>8. ASSUME NEW p \in Pid, Return(p) PROVE FileTells'
  BY <1>8 DEF Return
<1>9. ASSUME NEW p \in Pid, Ends(p) PROVE FileTells'
  BY <1>9 DEF Ends, Orphaning
<1>10. ASSUME NEW p \in Pid, Terminate(p) PROVE FileTells'
  <2>1. CASE Term(p)
    BY <1>10, <2>1 DEF Terminate, Term, Orphaning
  <2>2. CASE Hang(p)
    BY <1>10, <2>2 DEF Terminate, Hang
  <2>. QED BY <1>10, <2>1, <2>2 DEF Terminate
<1>11. ASSUME NEW p \in Pid, Reuse(p) PROVE FileTells'
  BY <1>11 DEF Reuse
<1>12. ASSUME NEW p \in Pid, StrangerEnds(p) PROVE FileTells'
  BY <1>12 DEF StrangerEnds
<1>13. ASSUME NEW c \in Killer, ReadPid(c) PROVE FileTells'
  BY <1>13 DEF ReadPid
<1>14. ASSUME NEW c \in Killer, Kill(c) PROVE FileTells'
  <2>1. killer[c] \in Pid /\ killer' = [killer EXCEPT ![c] = "idle"] /\ file' = file
    BY <1>14 DEF Kill
  <2>2. CASE proc[killer[c]] = "free"
    BY <1>14, <2>1, <2>2 DEF Kill
  <2>3. CASE Term(killer[c])
    BY <2>1, <2>3 DEF Term, Orphaning
  <2>4. CASE Hang(killer[c])
    BY <2>1, <2>4 DEF Hang
  <2>. QED BY <1>14, <2>2, <2>3, <2>4 DEF Kill
<1>15. CASE UNCHANGED vars
  BY <1>15
<1>. QED
  BY <1>1, <1>2, <1>3, <1>4, <1>5, <1>6, <1>7, <1>8, <1>9, <1>10, <1>11, <1>12,
     <1>13, <1>14, <1>15, Zenon DEF Next

\* The kill finds a daemon, or nobody.
LEMMA OnlyStep ==
  ASSUME TypeOK, ReadTells, OnlyDaemonsKilled, [Next]_vars
  PROVE  OnlyDaemonsKilled'
<1>. USE DEF TypeOK, ReadTells, OnlyDaemonsKilled, vars, Becomes, Happen, Daemon
<1>1. ASSUME NEW p \in Pid, Fork(p) PROVE OnlyDaemonsKilled'
  BY <1>1 DEF Fork, StartMishap
<1>2. ASSUME NEW p \in Pid, OpenPid(p) PROVE OnlyDaemonsKilled'
  BY <1>2 DEF OpenPid
<1>3. ASSUME NEW p \in Pid, OpenFails(p) PROVE OnlyDaemonsKilled'
  BY <1>3 DEF OpenFails
<1>4. ASSUME NEW p \in Pid, StorePid(p) PROVE OnlyDaemonsKilled'
  BY <1>4 DEF StorePid
<1>5. ASSUME NEW p \in Pid, Install(p) PROVE OnlyDaemonsKilled'
  BY <1>5 DEF Install
<1>6. ASSUME NEW p \in Pid, Poll(p) PROVE OnlyDaemonsKilled'
  BY <1>6 DEF Poll
<1>7. ASSUME NEW p \in Pid, Unlink(p) PROVE OnlyDaemonsKilled'
  BY <1>7 DEF Unlink
<1>8. ASSUME NEW p \in Pid, Return(p) PROVE OnlyDaemonsKilled'
  BY <1>8 DEF Return
<1>9. ASSUME NEW p \in Pid, Ends(p) PROVE OnlyDaemonsKilled'
  BY <1>9 DEF Ends, Orphaning
<1>10. ASSUME NEW p \in Pid, Terminate(p) PROVE OnlyDaemonsKilled'
  <2>1. CASE Term(p)
    BY <1>10, <2>1 DEF Terminate, Term, Orphaning
  <2>2. CASE Hang(p)
    BY <1>10, <2>2 DEF Terminate, Hang
  <2>. QED BY <1>10, <2>1, <2>2 DEF Terminate
<1>11. ASSUME NEW p \in Pid, Reuse(p) PROVE OnlyDaemonsKilled'
  BY <1>11 DEF Reuse
<1>12. ASSUME NEW p \in Pid, StrangerEnds(p) PROVE OnlyDaemonsKilled'
  BY <1>12 DEF StrangerEnds
<1>13. ASSUME NEW c \in Killer, ReadPid(c) PROVE OnlyDaemonsKilled'
  BY <1>13 DEF ReadPid
<1>14. ASSUME NEW c \in Killer, Kill(c) PROVE OnlyDaemonsKilled'
  <2>1. killer[c] \in Pid /\ killer' = [killer EXCEPT ![c] = "idle"] /\ file' = file
    BY <1>14 DEF Kill
  <2>2. CASE proc[killer[c]] = "free"
    BY <1>14, <2>1, <2>2 DEF Kill
  <2>3. CASE Term(killer[c])
    BY <2>1, <2>3 DEF Term, Orphaning
  <2>4. CASE Hang(killer[c])
    BY <2>1, <2>4 DEF Hang
  <2>. QED BY <1>14, <2>2, <2>3, <2>4 DEF Kill
<1>15. CASE UNCHANGED vars
  BY <1>15
<1>. QED
  BY <1>1, <1>2, <1>3, <1>4, <1>5, <1>6, <1>7, <1>8, <1>9, <1>10, <1>11, <1>12,
     <1>13, <1>14, <1>15, Zenon DEF Next

\* There are no daemons at first.
LEMMA InitInv == Init => IInv
<1>. SUFFICES ASSUME Init PROVE IInv
  OBVIOUS
<1>. USE DEF Init, Daemon, Stored, NoPid
<1>1. TypeOK
  BY DEF TypeOK
<1>2. OneDaemon /\ OwnFile /\ ReadTells
  BY PidAssumption DEF OneDaemon, OwnFile, ReadTells
<1>3. Reachable /\ FileTells /\ OnlyDaemonsKilled
  BY PidAssumption DEF Reachable, FileTells, OnlyDaemonsKilled
<1>. QED BY <1>1, <1>2, <1>3 DEF IInv

\* No step of a daemon, of a killer or of another program breaks the invariant.
LEMMA Preservation == IInv /\ [Next]_vars => IInv'
BY TypeStep, OneStep, OwnStep, ReadStep, ReachableStep, FileStep, OnlyStep DEF IInv

\* The invariant holds for every set of pids and of killers.
THEOREM Invariance == Spec => []IInv
BY InitInv, Preservation, PTL DEF Spec

\* Every variable keeps its type.
THEOREM Typing == Spec => []TypeOK
<1>1. IInv => TypeOK
  BY DEF IInv
<1>. QED BY <1>1, Invariance, PTL

\* While no two daemons live at a time -k reaches the one that has stored its pid,
\* however many came before it (main, sigproc).
THEOREM KillReaches == Spec => []Reachable
<1>1. IInv => Reachable
  BY DEF IInv
<1>. QED BY <1>1, Invariance, PTL

\* However many daemons share it, the file names none that has ended in order.
THEOREM FileNamesADaemon == Spec => []FileTells
<1>1. IInv => FileTells
  BY DEF IInv
<1>. QED BY <1>1, Invariance, PTL

\* -k harms another program only after a daemon left its file behind or a pid was
\* given away in the moment before the kill (Prefs::killDaemon).
THEOREM OthersAreSpared == Spec => []OnlyDaemonsKilled
<1>1. IInv => OnlyDaemonsKilled
  BY DEF IInv
<1>. QED BY <1>1, Invariance, PTL
================================================================================
