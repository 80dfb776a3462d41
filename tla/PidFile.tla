------------------------------- MODULE PidFile -------------------------------
(***************************************************************************)
(* The pid file, which the daemons of one machine share, one after the     *)
(* other or side by side, with the commands that kill them (-k).           *)
(*                                                                         *)
(* A daemon stores its pid when it has forked (main.cpp) and unlinks the   *)
(* file, by its name, in its signal handler; nothing else removes it.  -k  *)
(* (Prefs::killDaemon) reads the file and sends SIGTERM to whatever process*)
(* has that pid by then.  Pids are used again.                             *)
(*                                                                         *)
(* What a daemon does between the first signal and its end is in module    *)
(* PortStat; here it is two steps, the removal of the file and the end,    *)
(* which come in this order: PortStat shows that its process is a daemon of*)
(* this module (PortStat!PidFileSpec), alone and without a -k.             *)
(***************************************************************************)
CONSTANTS
  Pid,      \* the pids
  Killer,   \* the commands given with -k, each of them any number of times
  Allowed   \* the mishaps that may happen

\*   "double"    a daemon starts beside one that nobody has told to end
\*   "restart"   a daemon starts beside one that has been told to end
\*   "unstored"  the file cannot be opened
\*   "early"     a signal after signal() but before the capture polls
\*   "inCall"    a signal inside localtime_r: the handler waits for its own thread
\*   "orphan"    a daemon ends without its handler: the file stays
\*   "reuse"     a pid that a killer has read is given to another program
Mishap == {"double", "restart", "unstored", "early", "inCall", "orphan", "reuse"}

NoPid == {"absent", "empty", "idle"}

ASSUME PidAssumption == Pid \cap NoPid = {} /\ Allowed \subseteq Mishap

VARIABLES
  proc,     \* the process of each pid
  file,     \* what the file holds: a pid, or nothing yet, unless it is absent
  writers,  \* the daemons whose open file is still the one the path names
  hung,     \* the daemons with a thread that waits for itself
  killer,   \* what each killer has read
  harmed,   \* history: another program was sent a SIGTERM
  mishaps   \* history: the mishaps that happened

vars == <<proc, file, writers, hung, killer, harmed, mishaps>>

\* A daemon has to store its pid ("store", "write"), to test its directory
\* ("check"), and to start the capture ("start"); a signal while it is "up" makes
\* it close ("closing") and leave ("leaving"); one at "start" ("early") is
\* forgotten after the handler has unlinked the file ("deaf").
Daemon == {"store", "write", "check", "start", "early", "deaf", "up", "closing",
           "leaving"}

Init ==
  /\ proc = [p \in Pid |-> "free"]
  /\ file = "absent" /\ writers = {} /\ hung = {}
  /\ killer = [c \in Killer |-> "idle"]
  /\ harmed = FALSE /\ mishaps = {}

Told == {"early", "deaf", "closing", "leaving"}

\* Which mishap the start of a daemon is, given the others that live.
StartMishap ==
  (IF \E p \in Pid : proc[p] \in Daemon \ Told THEN {"double"} ELSE {})
    \cup (IF \E p \in Pid : proc[p] \in Told THEN {"restart"} ELSE {})

\* The mishaps m happen.
Happen(m) == m \subseteq Allowed /\ mishaps' = mishaps \cup m

Becomes(p, state) == proc' = [proc EXCEPT ![p] = state]
-----------------------------------------------------------------------------
(* The daemons.                                                            *)

\* PortStat::Daemonize: the child has a pid of its own.
Fork(p) ==
  /\ proc[p] = "free"
  /\ Becomes(p, "store")
  /\ Happen(StartMishap)
  /\ UNCHANGED <<file, writers, hung, killer, harmed>>

\* fopen(.., "w"), which empties the file, or makes one.
OpenPid(p) ==
  /\ proc[p] = "store"
  /\ Becomes(p, "write")
  /\ file' = "empty" /\ writers' = writers \cup {p}
  /\ UNCHANGED <<hung, killer, harmed, mishaps>>

\* The file cannot be opened: the daemon goes on without.
OpenFails(p) ==
  /\ proc[p] = "store"
  /\ Becomes(p, "check")
  /\ Happen({"unstored"})
  /\ UNCHANGED <<file, writers, hung, killer, harmed>>

\* Mutated StorePid: the file stays open; the text stays in the buffer.
StoreOpen(p) ==
  /\ proc[p] = "write"
  /\ Becomes(p, "check")
  /\ file' = IF p \in writers THEN p ELSE file
  /\ UNCHANGED <<writers, hung, killer, harmed, mishaps>>
StoreNot(p) ==
  /\ proc[p] = "write"
  /\ Becomes(p, "check")
  /\ writers' = writers \ {p}
  /\ UNCHANGED <<file, hung, killer, harmed, mishaps>>

\* fclose writes the pid, to a file that may have been unlinked.
StorePid(p) ==
  /\ proc[p] = "write"
  /\ Becomes(p, "check")
  /\ file' = IF p \in writers THEN p ELSE file
  /\ writers' = writers \ {p}
  /\ UNCHANGED <<hung, killer, harmed, mishaps>>

\* signal(), and StartPolling.
Install(p) ==
  /\ proc[p] = "check"
  /\ Becomes(p, "start")
  /\ UNCHANGED <<file, writers, hung, killer, harmed, mishaps>>

Poll(p) ==
  /\ proc[p] = "start"
  /\ Becomes(p, "up")
  /\ UNCHANGED <<file, writers, hung, killer, harmed, mishaps>>

\* Mutated Unlink: the handler leaves the file alone.
UnlinkNot(p) ==
  /\ proc[p] \in {"closing", "early"}
  /\ Becomes(p, IF proc[p] = "closing" THEN "leaving" ELSE "deaf")
  /\ UNCHANGED <<file, writers, hung, killer, harmed, mishaps>>

\* sigproc unlinks the path, whoever has written the file.  A daemon with a thread
\* that waits for itself comes to it only if another thread is past its traces.
Unlink(p) ==
  /\ proc[p] \in {"closing", "early"}
  /\ Becomes(p, IF proc[p] = "closing" THEN "leaving" ELSE "deaf")
  /\ file' = "absent" /\ writers' = {}
  /\ UNCHANGED <<hung, killer, harmed, mishaps>>

Return(p) ==
  /\ proc[p] = "leaving" /\ p \notin hung
  /\ Becomes(p, "free")
  /\ UNCHANGED <<file, writers, hung, killer, harmed, mishaps>>

\* The end of a daemon that does not reach its handler's unlink: its directory
\* cannot be written, it is killed, or it crashes.
Orphaning(p) == IF proc[p] \in {"check", "start", "early", "up", "closing"}
                THEN {"orphan"} ELSE {}

Ends(p) ==
  /\ proc[p] \in Daemon
  /\ Becomes(p, "free")
  /\ writers' = writers \ {p} /\ hung' = hung \ {p}
  /\ Happen(Orphaning(p))
  /\ UNCHANGED <<file, killer, harmed>>
-----------------------------------------------------------------------------
(* The signal.                                                             *)

\* Before signal() and after a first signal it ends the daemon.
Term(p) ==
  \/ /\ proc[p] = "up"
     /\ Becomes(p, "closing")
     /\ UNCHANGED <<writers, hung, harmed, mishaps>>
  \/ /\ proc[p] = "start"
     /\ Becomes(p, "early")
     /\ Happen({"early"})
     /\ UNCHANGED <<writers, hung, harmed>>
  \/ /\ proc[p] \in Daemon \ {"up", "start"} /\ p \notin hung
     /\ Becomes(p, "free")
     /\ writers' = writers \ {p}
     /\ Happen(Orphaning(p))
     /\ UNCHANGED <<hung, harmed>>
  \/ /\ proc[p] = "stranger"
     /\ Becomes(p, "free")
     /\ harmed' = TRUE
     /\ UNCHANGED <<writers, hung, mishaps>>

\* It finds a thread inside localtime_r, or one that already waits.
Hang(p) ==
  /\ \/ proc[p] = "up" /\ Becomes(p, "closing") /\ Happen({"inCall"})
     \/ proc[p] = "start" /\ Becomes(p, "early") /\ Happen({"inCall", "early"})
     \/ proc[p] \in Told /\ Happen({"inCall"}) /\ UNCHANGED proc
  /\ hung' = hung \cup {p}
  /\ UNCHANGED <<writers, harmed>>

\* A daemon may be sent one by other means.
Terminate(p) ==
  /\ proc[p] \in Daemon /\ (Term(p) \/ Hang(p))
  /\ UNCHANGED <<file, killer>>

\* killDaemon opens the file and reads the pid.  Without a file, or with an empty
\* one, the command ends and has done nothing.
ReadPid(c) ==
  /\ killer[c] = "idle" /\ file \in Pid
  /\ killer' = [killer EXCEPT ![c] = file]
  /\ UNCHANGED <<proc, file, writers, hung, harmed, mishaps>>

\* Mutated Kill: no signal is sent.
KillNot(c) ==
  /\ killer[c] \in Pid
  /\ killer' = [killer EXCEPT ![c] = "idle"]
  /\ UNCHANGED <<proc, file, writers, hung, harmed, mishaps>>

\* kill(pid, SIGTERM), of the process that has the pid now, if one has.
Kill(c) ==
  /\ killer[c] \in Pid
  /\ killer' = [killer EXCEPT ![c] = "idle"]
  /\ IF proc[killer[c]] = "free"
     THEN UNCHANGED <<proc, writers, hung, harmed, mishaps>>
     ELSE Term(killer[c]) \/ Hang(killer[c])
  /\ UNCHANGED file
-----------------------------------------------------------------------------
(* Other programs.                                                         *)

Reuse(p) ==
  /\ proc[p] = "free"
  /\ Becomes(p, "stranger")
  /\ Happen(IF \E c \in Killer : killer[c] = p THEN {"reuse"} ELSE {})
  /\ UNCHANGED <<file, writers, hung, killer, harmed>>

StrangerEnds(p) ==
  /\ proc[p] = "stranger"
  /\ Becomes(p, "free")
  /\ UNCHANGED <<file, writers, hung, killer, harmed, mishaps>>
-----------------------------------------------------------------------------
Next ==
  \/ \E p \in Pid :
       \/ Fork(p) \/ OpenPid(p) \/ OpenFails(p) \/ StorePid(p) \/ Install(p)
       \/ Poll(p) \/ Unlink(p) \/ Return(p) \/ Ends(p) \/ Terminate(p)
       \/ Reuse(p) \/ StrangerEnds(p)
  \/ \E c \in Killer : ReadPid(c) \/ Kill(c)

Spec == Init /\ [][Next]_vars

\* A command that has read a pid goes on to kill, and a handler that has started
\* gets to its end, and with it main, unless it waits for its own thread.
FairSpec ==
  /\ Spec
  /\ \A c \in Killer : WF_vars(Kill(c))
  /\ \A p \in Pid : WF_vars(p \notin hung /\ Unlink(p)) /\ WF_vars(Return(p))
-----------------------------------------------------------------------------
TypeOK ==
  /\ proc \in [Pid -> Daemon \cup {"free", "stranger"}]
  /\ file \in Pid \cup {"absent", "empty"}
  /\ writers \subseteq {p \in Pid : proc[p] = "write"}
  /\ hung \subseteq {p \in Pid : proc[p] \in Told}
  /\ killer \in [Killer -> Pid \cup {"idle"}]
  /\ harmed \in BOOLEAN
  /\ mishaps \subseteq Allowed

\* The daemons that have stored their pid and not yet unlinked the file.
Stored == {"check", "start", "early", "up", "closing"}

\* While no two daemons live at a time, -k can reach the one that has stored its
\* pid: the file names it until its own handler unlinks it (main.cpp).
Reachable ==
  mishaps \cap {"double", "restart", "unstored"} = {} =>
    \A p \in Pid : proc[p] \in Stored => file = p

\* The file names a daemon that has stored its pid and not unlinked the file,
\* however many daemons write and unlink it, unless one ended without its handler.
FileTells ==
  file \in Pid /\ "orphan" \notin mishaps => proc[file] \in Stored

\* -k sends SIGTERM to another program only if a daemon has left its file behind,
\* or the pid was given away between the reading of the file and the kill
\* (Prefs::killDaemon).
OnlyDaemonsKilled == harmed => mishaps \cap {"orphan", "reuse"} # {}

\* A command that has read the pid of a daemon ends it, in whatever state the
\* signal finds it, unless it is starting its capture or one of its threads is
\* inside localtime_r.
KillEnds ==
  \A c \in Killer, p \in Pid :
    killer[c] = p ~> proc[p] \notin Daemon \/ mishaps \cap {"early", "inCall"} # {}

\* README:15, "[--kill|-k] | Kill Daemon": the file names the daemon that runs, if
\* there is only one (Prefs::killDaemon, sigproc).
KillFinds ==
  \A p \in Pid :
    proc[p] = "up" /\ (\A q \in Pid \ {p} : proc[q] \notin Daemon) => file = p
-----------------------------------------------------------------------------
(* The invariant the proofs are about.                                     *)

\* One daemon at a time, when none is started beside another.
OneDaemon ==
  mishaps \cap {"double", "restart"} = {} =>
    \A p, q \in Pid : proc[p] \in Daemon /\ proc[q] \in Daemon => p = q

\* A daemon that has the file open, and no other, empties or writes it.
OwnFile ==
  mishaps \cap {"double", "restart"} = {} =>
    \A p \in Pid : proc[p] = "write" => p \in writers

\* A pid that a killer has read was a daemon's, and if it is not any more it has
\* not been given away.
ReadTells ==
  mishaps \cap {"orphan", "reuse"} = {} =>
    \A c \in Killer : killer[c] \in Pid => proc[killer[c]] # "stranger"

IInv ==
  /\ TypeOK /\ OneDaemon /\ OwnFile /\ ReadTells
  /\ Reachable /\ FileTells /\ OnlyDaemonsKilled
=============================================================================
