# A formal model of pstat

pstat captures the traffic of one interface with libpcap and keeps up to three
records of it: a line per packet (FileWriter), sums per peer, port and minute
(GatherOuter), and the payloads sent to the local host (RawOuter). These
modules model its Linux build, with threads, in TLA+. TLC checks them on small
instances, and TLAPS proves the theorems named below for every value of the
constants. Paths such as `Output.cpp:295` are under `src/src/`; the usage text
is in the repository's `README` (it is also printed by `Prefs::usage`).

## 1. Inventory

| component | state | operations | what makes it correct |
|---|---|---|---|
| `Prefs` | options, filter slots, open defaults files | `setOption`, `loadFromCLI`, `loadFromFile`, `checkOptions` | the filter slots hold what the options asked for, in any order and nesting; reading ends |
| `CAdapterFinder` | libpcap's list | name and first IPv4 address of an interface | (answers only; its printing is output) |
| `PcapInput` | `mStatus`, the handle | `Create`, `SetFilter`, `StartPolling`, `Shutdown` | it stops when told to |
| `CSector` | none | `ether`: frame to `NetPacket` | a payload lies inside what was captured |
| `DataSwitch` | the filter entries | `CanSave` | a packet passes exactly when the options say so |
| `FileWriter`, `RawOuter` | log handle, `mStatus` | `Create`, `Run`, `Write`, `Close` | they agree on what they record; they never write without a handle |
| `GatherOuter` | `mData`, `mSaveData`, `mSaveSnap`, a thread | `Write` (capture thread), `Check` (timer thread), `Create`, `Run`, `Close` | no byte is lost, printed twice, or added to a line that is gone |
| `CGatherLine`, `CBlkArray` | rows in memory that grows | `update`, `FindCell`, `Add`, `SetSize`, `RemoveAll` | one row per key, exact totals, memory only read as it was written |
| `CRollingFile` | `mLast`, `mFile` | `open`, `checkAndRoll`, `close` | a record is in the file of the day it is written on; a failed open is retried |
| `PortStat`, `main`, `sigproc` | outers, inputer, pid file, the flag `called` | `Create`, `Run`, `Write`, `Close`, the handler, the destructors | a signal ends the process in order |
| the pid file, `Prefs::killDaemon` | a file by a name that every daemon shares | stored by `main`, read by `-k`, unlinked by `sigproc` | `-k` reaches the daemon and nobody else |
| `Trace`, `Utils` | trace level | formatting | (only that they take the lock of `localtime_r`) |
| `credis` | | | third-party code without a caller |

**How they interact.** `main` reads the options, and `PortStat::Create` makes
the filter, the inputer and the outers that `-A` asks for. `StartPolling` calls
the dissector for each frame and `PortStat::Write` for each packet, which calls
`Write` of every outer, all on the main thread. GatherOuter has the only other
thread; the two share its pointers and the rows of its lines without a lock.
`sigproc` runs on whichever thread takes the signal and calls the same
`PortStat::Close` that `main` calls after the loop. A `pstat -k` is another
process: it reads the pid file and sends the signal to whatever has that pid.

**What is hard.** The hand-over of a minute's line between two threads, which is
kept safe by time alone. A shutdown that two actors share, one of them in the
middle of the other, while a third and a fourth signal interrupt both. Several
processes and one pid file, unlinked by its name. Memory managed in bytes and elements side by side. Days
that are not 24 hours long. Options that change each other's fields. Failures
that are ignored (`fopen`, `pthread_create`). Every such place is a row of
"hazards" in PROJECT.json, with the properties that watch it or the reason why
none does.

## 2. Modules

| module | models | checked by | proofs |
|---|---|---|---|
| `ByteLedger` | what a counter that reports in instalments promises | `LedgerSpec` | |
| `GatherOuter` | GatherOuter: capture thread, timer thread, clock | `GatherOuter.cfg` | `GatherOuterProofs` |
| `KeyedTotals` | what the line of a minute promises | `TotalsSpec` | |
| `BlkArray`, `GatherLine` | CBlkArray, CGatherLine, and the updates and the printing of one line | `MCGatherLine`, `GatherLine.cfg` | `GatherLineProofs`, `PortBalanceProofs` |
| `RollingFile` | CRollingFile under a clock with irregular days | `RollingFile.cfg` | `RollingFileProofs` |
| `PortStat` | main, the handler, Close, the two threads' life | `PortStat.cfg`, `PortStatEarly.cfg`, `PortStatInCall.cfg` | `PortStatProofs` |
| `PidFile` | the daemons, the pid file and the commands with `-k` | `PidFile.cfg`, `PidFileRestart.cfg` | `PidFileProofs` |
| `Prefs` | the options | through `Capture` | |
| `Sector` | the dissector | through `Capture` | |
| `Capture` | Prefs, PortStat::Create, the dissector, DataSwitch and the outers' Write, composed | `MCCapture`, `Capture.cfg`, `CaptureNet.cfg`, `CaptureBlock.cfg`, `CaptureSnaplen.cfg` | `CaptureProofs` |

A definition whose comment says "mutated" or "mutant" is a plausible bug in the
definition after it. It is not part of the model: it shows, put in the place of
the right one, that a property can fail.

### GatherOuter

`mData`, `mSaveData`, `mSaveSnap` and `mStatus` are the members of the class.
`rows` is the heap: the lines that exist, each under the end of its minute
(`mStart`), which is also what a pointer to it is. The rows of a line are four
totals, those of peers and of the local address, in and out. `Write` is one
action for the read of `mData` into `p` and one for each `update`; `Check` is
one action up to the end of the printing loop, and the deletion of the line
(`RemoveLine`) is another, so that a late update may fall between the two.
Time advances in seconds; `time(NULL)` is read in the step that uses it.

A signal that is handled on the timer thread makes its `sleep(1)` return early,
so that two turns of `Check` may fall in one second (`Interrupt`). It is the first
signal only, because a second one ends the process.

Nothing in the code keeps a writer from holding `p` for longer than a saved
line lives. `TimingAssumption` is what the code relies on and says nowhere: a
call of `Write` takes less than `Grace - 1` (2) seconds, one turn of the grace being
lost to the signal, and the timer thread is
served so regularly that `Grace + 1` turns fit in a minute. A process stopped
for several seconds between `Output.cpp:295` and `:304` is outside it, and the
update then goes to memory that was freed. Under the assumption the hand-over
is right, and `ByteLedger`, which knows neither threads nor time, is implemented.

### GatherLine and BlkArray

`mData` is the array object of the line with its memory: a function from the
bytes allocated, of which each is an element's first byte, another byte of an
element, a zero, or never written. So the row that `FindCell` hands out is a
place in that memory, and an array that copies too little when it grows, or
that reserves too late, is seen as a row with a wrong byte in it. The counters
wrap at `Half`, as ints do in the build. The ports of a packet may be 0, which the
dissector lets through. Then two kinds of row meet: the row of the peer `me:q` of
port 0 has the key of the row of the local port `q`, so that what that port exchanges
with port 0 of the same address is in the row in both directions. A line's one minute is modelled; the
sequence of lines is GatherOuter's business.

### RollingFile

Time is counted in hours, because `mLast` and the ends of days are on the hour.
A day has 23, 24 or 25 hours; `mktime` in `open` may be an hour off on such a
day, since it is given the `tm_isdst` of the moment. `Record` is `checkAndRoll`
and the record that follows it; a record for a null handle ends the process. The
file serves one of two outers (`user`), which differ in the time they print:
GatherOuter passes the start of its line to `checkAndRoll` and prints the same
(`Output.cpp:229` to `:242`), RawOuter passes `time(NULL)` and prints the time at
which the packet was captured (`Output.cpp:128`, `:133`), up to `Delay` hours before.
So a record has three days: the one it is stamped with, the one on which it is
written (`handled`), and the one its file is named after (`filed`).

### PortStat

Two threads, each with a handler that may run on top of it, and on top of that
handler another one. `PortStat::Close` is written once, for a frame: main's own
call (`"body"`) and the handler's on either thread. `CloseCheck` is the test of
the inputer; `CloseSigned` the statistics and the trace of a `Close` that has only
signed it off. `CloseOuter` is one turn of the loop, and goes on to what that outer's
`Close` does after its test of the status: `CloseFile`, `CloseRaw`, or `SignOff` and
`CloseJoin`, the `pthread_join` (a thread that joins itself gets an error at once, so a
handler on the timer thread passes; joining one that was never started is undefined,
so it may crash). The handler is four steps around that call: `Enter` traces and tests
the flag `called`, `Mark` traces again and sets it, `Leave` unlinks the pid file, and
`Back` traces and returns. `Install` is `signal()`; before it a signal has its default
effect. What GatherOuter holds is one bit, `unsaved`. `FreePrefs` and `ClearPrefs` are
the two ends of `Prefs::~Prefs`, between which the trace log is closed and still pointed
to. `UseDeleted` is a step of a handler or of the timer thread that reaches what main
has already deleted.

Every trace, and every line of FileWriter and RawOuter, calls `localtime_r`, which
holds a lock of the C library as long as it runs. A thread that waits for the lock gets
it, with one exception: when a signal comes inside the call, the handler traces and
waits for its own thread, for ever. So the lock is modelled for that case alone. `Calls`
says where the next step of a thread is in that call, which is a moment inside the
step; a `Signal` there leaves the lock with the thread; and from then on no step that
traces is taken (`CanTrace`), by any thread. Steps that do not trace go on, and so does
the rest of the timer thread's work when main is the one that is stuck, up to its next
call.

The daemon's own part of the pid file is here too, in the steps in which `PidFile`
takes it: `OpenPid` (or `OpenFails`), `StorePid`, and the unlink in `Leave`.
`PidFileSpec` maps the whole process to one daemon of `PidFile`: `Process` says how
far it is, from the place of main, the first signal and what became of the file. So
what `PidFile` assumes of a daemon is what a daemon with its outers, threads and
handlers does.

The code does not survive everything that may happen to it. The mishaps are
named, `Allowed` says which of them a run lets happen, and `mishaps` remembers
which did, so that every property says what holds without them and what still
holds with them:

| mishap | what it is | where |
|---|---|---|
| `early` | a signal after `signal()` and before the capture polls | `main.cpp:97`, `PcapInput.cpp:51` |
| `inCall` | a signal on a thread that is in `localtime_r`, in whatever trace or write | `main.cpp:13`, `Utils.cpp:162` |
| `race` | two handlers between the test of `called` and its setting | `main.cpp:14` |
| `late` | a signal while `Prefs` is being deleted | `main.cpp:105` |
| `noThread` | `pthread_create` fails, and nobody looks | `Output.cpp:203` |
| `unstored` | the pid file cannot be opened, and the daemon goes on (which breaks no property here) | `main.cpp:60` |

### PidFile

`proc` says what has each pid: a daemon and how far it is, another program, or
nothing. A daemon opens the file, which empties it (`OpenPid`), and writes its
pid with the `fclose` (`StorePid`), into a file that another daemon may have
unlinked or emptied in between; `writers` are those whose open file is still the
one at the path. What the signal does depends on how far the daemon is (`Term`).
Of its shutdown only two steps are left, the unlink and the end, in the order in
which `PortStat!OrderlyEnd` has them. `hung` are the daemons with a thread that a
signal has found inside `localtime_r` (`Hang`): such a daemon does not return any more,
and reaches the unlink only if another of its threads was already past the traces. A killer reads and kills in two steps.

The mishaps are `double` and `restart` (a daemon starts beside one that was not,
or was, told to end), `unstored` (the file cannot be opened), `early` and `inCall` (as above),
`orphan` (a daemon ends without its handler, and the file stays) and `reuse` (a
pid that was read is given to another program before the kill).

### Prefs, Sector, Capture

`prefs` has the fields of `Prefs` that the program reads. An option is a record
of its letter, its argument as `atoi` or `inet_addr` returns it, and the form it
is written in, because getopt's short table, its long table and the lines of a
defaults file take arguments differently. `files` is the stack of `loadFromFile`
calls with the lines still to read; `MaxOpen` is the number of descriptors. A
null length for `-s` ends the process. `Assign` is the assignment `setOption`
makes for each letter.

A frame is a record of the header fields the dissector looks at, and its length;
`caplen` follows from the snap length. `Packet` is the `NetPacket` of a frame
that is passed on. An address is a sequence of four octets, so that the mask of
`-w` is what the code computes on a little-endian host. `Create` builds the
outers and opens their logs, any of which can fail; an interface is a name and
the list of its addresses, IPv4 or not, and one without an IPv4 address ends the
process (`CreateCrashes`). `Poll` is one turn of
`StartPolling` with `PortStat::Write` in it, for one of the frames that the
packet filter lets through (`Filters` has the filters libpcap compiles; any other
is ignored). Two values come from memory that
was not written: the address when the interface is given by name (`StackAddress`)
and the ports of a UDP header that was not captured (`StalePorts`).

## 3. Runs

| run | bounds | shows |
|---|---|---|
| `gather_handover` | a minute of 8 s, stalls of 2 s and writes of 1 s (the largest TimingAssumption allows), one sleep cut short by a signal, 20 s, totals up to 2 bytes | every interleaving of both threads over two and a half minutes: no stale write (`NoStaleWrite`), nothing lost or printed twice (`Conservation`, `FinalFlush`), never half a packet in the log (`BalancedLog`), the right minute (`PunctualUpdate`), printed in time and nothing overwritten (`PrintedInTime`, `NoLineOverwritten`), `ByteLedger` implemented, and the join returns wherever the hand-over was (`ShutdownCompletes`) |
| `gather_line` | one peer, the ports 0 and 1, three packets, elements of 1 and 16 bytes, ints of 6 values | one row per key however the array grows, and the counts of a port will balance when the updates under way are made (`BalanceInv`); between packets the row of a local port holds what its peers' rows hold, and what it exchanged with the own port 0 (`PortBalance`), each non-zero total printed once (`PrintedOnce`), `KeyedTotals` implemented |
| `rolling_file` | days of 3, 4 and 5 hours, packets up to 2 hours old, six days | in regular times a record is in the file of the day it is written on (`InItsDay`); otherwise a row is a day late at worst, a record of RawOuter a day off in either direction (`AtMostADayOff`); retries (`RetriedAfterFailure`) |
| `lifecycle` | three signals, output modes 1 to 5, daemon or not, every mishap | a crash takes a mishap (`NeverCrashes`); no use after deletion and an orderly end, with the mishaps that do not matter to them (`NoUseAfterDelete`, `OrderlyEnd`); without a race the handler never closes an outer itself (`HandlerOnlySigns`); the process keeps its pid file as one daemon of `PidFile` does (`PidFileSpec`); whatever else goes wrong, the process ends (`TerminatesUnlessStuck`) |
| `pid_file` | two pids, two commands with `-k` that may be given again and again, every mishap | the daemon can be reached (`Reachable`), the file names a daemon that can take a signal (`FileTells`), no other program is signalled (`OnlyDaemonsKilled`), each as far as no mishap of those it names happened; a kill that has read a pid ends that daemon (`KillEnds`) |
| `capture` | three options from the command line out of 25, a defaults file that names itself, two slots per filter, two descriptors, eight frames | the filter is exact (`FilterExact`), payloads are captured (`PayloadCaptured`), the records agree (`RecordsAgree`), the raw log is open and complete (`RawLogOpened`, `RawComplete`), reading ends (`FilesEnd`), because each step brings the open files down (`FilesDescend`) |

Why the bounds are enough. Two and a half minutes contain a line being filled,
one being saved and one printed, and the end of the next minute while the last
line waits. The array of `gather_line` is created, filled to its last element and
moved within three packets, in elements of one byte and of the real size, and
six values let counters wrap to zero; with port 0 the rows of a peer and of a local
port can be the same. Six days contain a change in each
direction and two failures in a row, and a packet two hours old crosses midnight. Three signals are one handler interrupted by
another, on the same thread or beside it, and one that finds the flag set and
leaves; a fourth finds what the third found. Two pids are a daemon and its
successor, or a daemon and the program that gets its pid; two killers are the one
that reads before and the one that reads after. (The invariants were also checked
with three pids; the proofs cover any number.) Three options with two slots fill a filter, overflow it and
put an invalid entry before a valid one, and a defaults file adds more; a file
that names itself needs two descriptors to be nested at all.

**Fairness.** `GatherOuter!FairSpec`: the timer thread runs whenever it is awake
(it never waits for anything), time passes, and a join whose thread is over
returns. `PortStat!FairSpec`: both threads and their handlers are scheduled, and `pcap_next` returns
because the capture has a read timeout of 500 ms (`PcapInput.cpp:33`). All of it is weak:
a thread that waits for the lock of `localtime_r` gets it in the end, unless a signal has
left it taken for ever, and then the step that needs it is not enabled. Packets need not
arrive and signals need not be sent. `PidFile!FairSpec`: a command that has read the pid
goes on to `kill`, for nothing stands between the two (`Prefs.cpp:296` to `:302`), and a
handler that has started gets to its end, and main to its return, which is what
`TerminatesUnlessStuck` shows in `PortStat`; of a hung daemon nothing is assumed.
`Capture!Spec`: reading a file goes on by itself. It states
fairness of nothing else.

## 4. Where the code and its documentation disagree

Each of these runs ends in a counterexample.

* `lifecycle_early_signal`: a signal after `signal()` and before `StartPolling`
  sets its status is lost. The handler closes the outers and removes the pid
  file, and main polls for ever. (`main.cpp:97`, `PcapInput.cpp:51`; the program
  itself says "process %d killed!", `Prefs.cpp:303`.)
* `lifecycle_signal_in_call`: a signal that interrupts `localtime_r`, in a `Write` or
  in any trace, hangs the process, because the handler traces and tracing needs the
  same lock (`main.cpp:13`).
* `pid_restart`: the handler unlinks the pid file without a look at what is in it,
  and only after `Close` is back. A daemon started meanwhile has stored its own
  pid by then; it loses its file, and `-k` ends nothing. (`main.cpp:28`; README:15
  says "Kill Daemon".)
* `usage_net`: `-w` does not ignore the C class net of an address. The mask
  clears the first octet and keeps the host's (`Monitor.cpp:16`).
* `usage_block`: the usage text makes bit 0 of `-n` the mode of the port list and bit 1
  the mode of the ip list, 1 to block and 0 to pass (README:26 to 28). No value of `-n`
  does that: `Prefs.cpp:365` stores 0 for each of 0 to 3, so that the port list always
  passes, and the ip list always blocks, since `CanSave` never asks for its mode
  (`Monitor.cpp:35` to `:56`). With `-n 1 -p 80 -c 10.1.2.3` a packet from 10.1.2.9 to port
  80 is recorded, which both lists should keep out. What the code does with its lists,
  whatever `-n` says, is `FilterExact`.
* `usage_snaplen`: `-s 200` reads its length through a null pointer, because the
  short table has `sg:` for `s:g:` (`Prefs.cpp:524`).

Seen while modelling and not made a run: what the local address sends from one
of its ports to its own port 0, or back, is counted in that port's row in both directions
(`GatherLine.cpp:50`, `Output.cpp:298`), so the row is then more than its peers' sum. A record of RawOuter whose
packet was captured before midnight and written after it is in the file of the next day
(`Output.cpp:128`, `:133`; the line that would have taken the packet's time is commented
out). `--block-mode` and `--local-networks`
are not in the table of long options, and an unknown option ends the parsing of
the command line. README:23 promises a default of 192.168.1.2 for `-m`, where the
code has none and takes the address of the interface; and with `-m` it copies the
address of the interface too, without a look at whether there is one
(`PortStat.cpp:120`). `-A 6` and `-A 7` fall back to 1. A pcap file as the argument
of `-i` is handed to `pcap_open_live` as an interface; `mFromFile` is never true. `-d` changes the working
directory and never the directory of the logs, which is always the install
directory (`Prefs.cpp:511`), though the message for a log that cannot be opened
says "please specify a different directory (-d)". `Packet.h:22` takes `length`
for the length of the datagram, but it includes the padding of short frames
(`Sector.cpp:37`). `RemoveAt` counts bytes and elements alike (`BlkArray.cpp:106`);
it has no caller. The early exits after the pid file is stored leave it behind
(`main.cpp:87`).

## 5. Proofs

In every proof module `Invariance` shows `Spec => []IInv` (in `PortBalanceProofs`,
`BalanceInvariance` and `BalanceInv`), with one lemma per action, and each property
then follows from that invariant alone. TLC has checked each of these invariants on
the instance of its run; what the runs keep are the properties.

**GatherOuterProofs.** From ConstantsAssumption and TimingAssumption. The
argument is one of age. `Schedule` says that the last turn of the timer thread
was before the end of the current minute, so the minute is closed at most
`MaxStall` late. `SavedLine` bounds how long a saved line has waited by the
number of turns it has seen, and puts its end a whole period before the current
line's; so it is printed before that period is over (`NoLineOverwritten`,
`PrintedInTime`). `Writer` says that a call of `Write` that holds the saved line
is older than the line's turns, but for the one turn a signal may have brought forward
(`Hurry`), so it is over before the fourth turn (`NoStaleWrite`). `Balance` says which update a line is still owed, and with it
`BalancedLog` follows. `Implements` maps each step to a step of `ByteLedger` or
a stutter.

**GatherLineProofs.** From LineAssumption. `Whole` says that the rows fill the
allocated bytes without a gap; that `Add` preserves it is a lemma about
`Room`, `SetSize` and `Store` for every element size. `OneRowEach` and `Counted`
carry over to the printing (`PrintedOnce`) and to the refinement of `KeyedTotals`.

**PortBalanceProofs.** From LineAssumption and FiniteAssumption (finitely many peers
and ports). `PortBalance` compares the row of the local address with the sum of the
rows of all peers of the same port, and no single update preserves it: between the two
updates of one booking the two sides differ. The invariant therefore speaks of the counts
as they will be when the updates that the call of `Write` still owes are made
(`Settled`), and of the numbers before they wrap: the local count is the peers' sum and
what was exchanged with the own port 0 (`Balanced`). An update leaves the settled counts
as they are. A new packet adds its pair of updates, or two pairs if it goes from the
local address to itself; a pair puts nothing out of balance (`Off`), unless it is traffic
with the own port 0, where the two pairs of the packet cancel (`PairEffects`). The sums
are folds over finite sets.
What is needed of them (a sum without one of its terms, with one term changed, of terms
that are all zero, of terms that wrap) is shown by induction over subsets: the sets on
which a statement fails have a minimal element under strict inclusion, and one member
less gives a smaller one. The row of a key is its count wrapped (`IInv`), so the balance
of the counts is the balance of the rows, in the width of an int.

**RollingFileProofs.** From DayAssumption, LengthsAssumption and DelayAssumption (no
packet waits for a whole day). `Ahead` bounds how far `mLast` may be in front of the
clock by the age of the open file; this is what keeps a record from being in a file two
days old. `OnMidnight` says that in regular times `mLast` is a midnight. `Filing`
relates the day a record is stamped with to the day on which it is written.

**PortStatProofs.** From SignalAssumption, for any number of signals and any set
of mishaps. The induction goes in layers. `InputerInv`, `BodyInv` and `ThreadInv` relate
the status of the inputer, main's own call of `Close`, the lock and the timer thread to
the place where main is, and hold whatever happens. The others hold as long as no signal came too
early and no two handlers raced (`Calm`): one handler at a time gets past the flag
(`HandlerInv`), and it does so while the inputer runs, so that all its `Close`
does is to sign it off (`FlagInv`); hence the outers run until main closes them
in the order of the array (`StatusInv`, `UsableInv`), the thread ends between its
sign-off and the end of the join (`TimerInv`), and the pid file is gone once the
handler is back (`PidInv`). Why these are needed: `OrderlyEnd` speaks of the last
state only, and what makes it true is where each thread can be in every state
before it. `Calm` can only be lost, so the layers are shown for a step after
which it still holds.

`StoredInv` ties the pid file to the place of main and to the
handler's unlink, `FirstSignalInv` the first signal to what came before it. With the
two, `ImplementsPidFile` goes through the actions one by one: main's steps up to
`Install` and `StartPolling` are those of `PidFile`, the first signal is `Term`, one
inside `localtime_r` is `Hang`, the first `Leave` is `Unlink`, the end of the process is
`Ends`, and every step of the outers, of the timer thread and of the further signals is
a stutter.

**PidFileProofs.** From PidAssumption, for any pids and killers. `OneDaemon` says
that without `double` and `restart` no two daemons live at a time, `OwnFile` that
then nobody empties or unlinks the file between its opening and its writing, and
`ReadTells` that a pid that was read is never another program's without `orphan`
and `reuse`. Only a daemon that has been told to end is `hung` (`TypeOK`). `FileTells` needs none of the first two: it holds however many
daemons write and unlink one file.

**CaptureProofs.** From the assumptions that options, addresses, frames and
bounds have their types. The inductive part is what the options leave behind: the
types, that the snap length is 2048 from a raw mode on until `-s` comes
(`RawSnaplenKept`), that packets are only handled once the options are settled
(`HandledLate`), and that the slots of a filter hold the first valid entries given
for it, without a gap (`FiltersFilled`). The last is shown option by option
(`ListFilled`, `FiltersKept`): an entry goes to the first empty slot, and to none
if there is none, which is the next of the first `MaxFilter` in either case. With
it `CanSave` is what `FilterExact` says. The rest is arithmetic on header lengths,
in `PacketFacts` and `CapturedFacts`. `FilesAlwaysDescend` is the part of "reading
ends" that the prover can show: at most `MaxOpen` files are open, and each step closes
the innermost or takes a line from it, whatever file of whatever length it opens on
top. That order has no endless descent; with the fairness of `Capture!Spec` it is the
reason for `FilesEnd`.

**Only model-checked.** The four liveness properties (`ShutdownCompletes`,
`TerminatesUnlessStuck`, `KillEnds`, `FilesEnd`): the prover has neither fairness nor
ENABLED. Of the last of them the safety behind it is proved (`FilesDescend`).
Every invariant, every action property and every refinement that a passing run checks
is a theorem.

## 6. What is not modelled

Formatting, tracing and the layout of the logs; the replacing of line ends in a
payload (`-x`), which changes the captured bytes in place when no outer comes
after; how many lines FileWriter and RawOuter write between two flushes; what a
packet filter means, which libpcap decides; credis, which nothing calls; the
WIN32 build and the build without threads (`doIdle`); `Prefs::save` and other
code without a caller; failure of memory allocation; a log that stops accepting
data once open; a clock that is set by hand, forward or back, which breaks
TimingAssumption (with a step forward `Check` overwrites the saved line); the
path of the pid file (`-G`, which `-k` sees only if it stands before it); stdout
after `Daemonize` has closed it.

`mStatus` and `called` are words that the build reads and writes at once, so a
read or a write of one is never split.

## 7. Plan

Done, in this order: GatherOuter and its ledger; PortStat; RollingFile;
GatherLine on BlkArray; Prefs, Sector and Capture; the handler's race, the thread
that does not start and the proofs of PortStat; PidFile and its proofs; the proof
of `FilterExact`; the interfaces' address lists; the proof of `PortBalance`; the steps
of the pid file in PortStat and its refinement of PidFile; the descent of the defaults
files; the sleep that a signal cuts short, packets stamped before the file is rolled,
port 0, and the daemon that hangs.

Left:

1. A composition of `GatherOuter` with the life of the process, in which a
   signal is taken by the timer thread inside `Check`. `PortStat` has the moments
   of `Check` that matter to a signal and one bit for the lines; what is missing
   is that the last bytes of a line are printed in its own minute then too.
2. A clock that is set, in `GatherOuter`: by how much it may jump without a line
   being lost.
3. The directory of the logs (`-d`) as a property of `Prefs`.
4. More of the safety behind the liveness: a measure that each step of the
   shutdown lowers, in `PortStat` (where a handler that interrupts another raises it
   once per signal) and for the join in `GatherOuter`.
5. A refinement between `GatherOuter` and the sums of `KeyedTotals`, so that the four
   totals of a line are the rows that the array holds.
