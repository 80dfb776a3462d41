------------------------------- MODULE Capture -------------------------------
(* The capture path of pstat: the options (Prefs) decide what                  *)
(* PortStat::Create builds, PcapInput::StartPolling takes frames from libpcap, *)
(* the dissector (Sector) turns them into packets, and PortStat::Write hands   *)
(* each packet to FileWriter, GatherOuter and RawOuter, the first and the last *)
(* of which ask DataSwitch::CanSave.                                           *)
EXTENDS Prefs, Sector

CONSTANTS
    Adapters,    \* the interfaces libpcap lists: records name, addresses
    Frames,      \* the frames on the wire
    Filters,     \* the packet filters libpcap compiles |-> the frames they pass
    StalePorts,  \* what an uncaptured UDP header may read as
    StackAddress \* what inet_addr may make of the uninitialised ip[20]

ASSUME FramesAssumption ==
    /\ \A f \in Frames : /\ {f.len, f.iplen, f.ihl, f.off} \subseteq Nat
                         /\ {f.src, f.dst} \subseteq Address
                         /\ {f.sport, f.dport} \subseteq PortNumber
    /\ \A text \in DOMAIN Filters : Filters[text] \subseteq Frames
    /\ StalePorts \subseteq PortNumber \X PortNumber

ASSUME AddressAssumption ==
    /\ StackAddress \subseteq Address
    /\ \A i \in DOMAIN Adapters :
          /\ DOMAIN Adapters[i].addresses \subseteq Nat
          /\ \A j \in DOMAIN Adapters[i].addresses :
                Adapters[i].addresses[j].family = "INET" =>
                    Adapters[i].addresses[j].addr \in Address

VARIABLES
    mLocal,      \* the address GatherOuter and RawOuter were given
    outers,      \* the members of mOuter that exist
    logs,        \* where each of them writes
    handled      \* the last packet written: its frame, packet, and who took it

vars == <<prefs, files, words, given, phase, mLocal, outers, logs, handled>>

FileWriter == 0
GatherOuter == 1
RawOuter == 2

Nothing == [frame |-> NULL, caplen |-> 0, packet |-> NULL, by |-> {}]

------------------------------------------------------------------------------
(* DataSwitch.                                                                 *)

(* What the code keeps of an address in host mode: the mask 0xFFFFFF00 of a    *)
(* number whose lowest byte is the first octet.                                *)
Masked(a) == IF prefs.host_mode = 1 THEN [a EXCEPT ![1] = 0] ELSE a

(* The entries before the first empty slot.                                    *)
Entries(slots, empty) ==
    {slots[i] : i \in {j \in Slots : \A k \in 1 .. j : slots[k] # empty}}

CanSave(p) ==
    LET ips   == Entries(prefs.filter_ip, NoAddress)
        ports == Entries(prefs.filter_port, 0)
    IN /\ \A a \in ips : Masked(p.ip_src) # Masked(a)
       /\ ports # {} =>
             IF prefs.block_mode % 2 = 1 THEN p.th_dport \notin ports
             ELSE p.th_dport \in ports

------------------------------------------------------------------------------
(* What each outer takes. The length they count is the one on the wire.        *)

PayloadLength(p) == p.length - p.off_data

TakenByFileWriter(p) == PayloadLength(p) > 5 /\ CanSave(p)

TakenByGatherOuter(p) ==
    PayloadLength(p) >= 1 /\ (p.ip_dst = mLocal \/ p.ip_src = mLocal)

TakenByRawAny(p) ==                                                \* mutant
    PayloadLength(p) >= 10 /\ p.ip_proto = PACKET_TCP /\ p.ip_dst = mLocal
TakenByRawOuter(p) ==
    /\ PayloadLength(p) >= 10
    /\ p.ip_proto = PACKET_TCP
    /\ p.ip_dst = mLocal
    /\ CanSave(p)

TakenBy(p) ==
    {o \in outers : CASE o = FileWriter  -> TakenByFileWriter(p)
                      [] o = GatherOuter -> TakenByGatherOuter(p)
                      [] o = RawOuter    -> TakenByRawOuter(p)}

------------------------------------------------------------------------------
Init ==
    /\ PrefsInit
    /\ mLocal = NULL
    /\ outers = {}
    /\ logs = [o \in 0 .. 2 |-> "none"]
    /\ handled = Nothing

(* The interface: the first one listed by default, else by number or by name.  *)
Adapter ==
    IF prefs.ifName = NULL THEN 1
    ELSE IF prefs.ifName \in Int THEN prefs.ifName ELSE NULL

HasAdapter == Adapter = NULL \/ Adapter \in DOMAIN Adapters

(* CAdapterFinder::AdapterIp: the first IPv4 address of an interface; none is   *)
(* the empty set.                                                              *)
AdapterIp(i) ==
    LET at   == Adapters[i].addresses
        inet == {j \in DOMAIN at : at[j].family = "INET"}
    IN {at[j].addr : j \in {k \in inet : \A l \in inet : k <= l}}

(* An interface given by name leaves the buffer for its address unwritten.     *)
Addresses ==
    IF prefs.local_network # NULL THEN {prefs.local_network}
    ELSE IF Adapter = NULL THEN StackAddress ELSE AdapterIp(Adapter)

Bit(mode, k) == (mode \div k) % 2 = 1

OutersOf(mode) ==
    {o \in 0 .. 2 : Bit(mode, CASE o = FileWriter  -> 1
                                [] o = GatherOuter -> 2
                                [] o = RawOuter    -> 4)}

Opens(o) == {IF prefs.daemonize THEN "open" ELSE "stdout"}
                \cup (IF prefs.daemonize THEN {"failed"} ELSE {})

(* The outers whose Create runs: GatherOuter's result is returned before       *)
(* RawOuter's turn.                                                            *)
Created(os) == IF GatherOuter \in os THEN os \ {RawOuter} ELSE os

(* strcpy from the address of a listed interface that has none, whether that    *)
(* address is going to be used or not.                                         *)
CreateCrashes ==
    /\ phase = "parsed"
    /\ Adapter # NULL /\ HasAdapter
    /\ AdapterIp(Adapter) = {}
    /\ phase' = "crashed"
    /\ UNCHANGED <<prefsVars, mLocal, outers, logs, handled>>

(* No such interface, libpcap cannot open it, or the log of GatherOuter or     *)
(* RawOuter cannot be opened: main returns -1. FileWriter's failure is ignored.*)
Create ==
    /\ phase = "parsed"
    /\ HasAdapter
    /\ Adapter # NULL => AdapterIp(Adapter) # {}
    /\ \E a \in Addresses : mLocal' = a
    /\ outers' = OutersOf(prefs.output_mode)
    /\ logs' \in {l \in [0 .. 2 -> {"none", "open", "stdout", "failed"}] :
                    \A o \in 0 .. 2 :
                        IF o \in Created(outers') THEN l[o] \in Opens(o)
                        ELSE l[o] = "none"}
    /\ phase' = IF "failed" \in {logs'[GatherOuter], logs'[RawOuter]}
                THEN "failed" ELSE "polling"
    /\ UNCHANGED <<prefsVars, handled>>

CreateFails ==
    /\ phase = "parsed"
    /\ HasAdapter /\ Adapter # NULL => AdapterIp(Adapter) # {}
    /\ phase' = "failed"
    /\ UNCHANGED <<prefsVars, mLocal, outers, logs, handled>>

(* SetFilter: a packet filter that libpcap does not compile is ignored.        *)
Visible ==
    IF prefs.text["B"] \in DOMAIN Filters \ {NULL}
    THEN Filters[prefs.text["B"]] ELSE Frames

(* What libpcap captures of a frame; a negative length means its maximum.      *)
Captured(f) ==
    IF prefs.snaplen > 0 /\ prefs.snaplen < f.len THEN prefs.snaplen ELSE f.len

(* One turn of StartPolling that got a frame. A FileWriter without a log       *)
(* writes through a null pointer.                                              *)
Poll ==
    /\ phase = "polling"
    /\ \E f \in Visible, stale \in StalePorts :
         LET caplen == Captured(f)
             p      == Packet(f, caplen, stale)
         IN IF ~ Dissects(f, caplen) THEN handled' = Nothing /\ UNCHANGED phase
            ELSE IF FileWriter \in TakenBy(p) /\ logs[FileWriter] = "failed"
            THEN phase' = "crashed" /\ UNCHANGED handled
            ELSE /\ handled' = [frame |-> f, caplen |-> caplen, packet |-> p,
                                by |-> TakenBy(p)]
                 /\ UNCHANGED phase
    /\ UNCHANGED <<prefsVars, mLocal, outers, logs>>

Reading == (ConfigLine \/ EndOfFile) /\ UNCHANGED <<mLocal, outers, logs, handled>>

Next ==
    \/ CommandOption /\ UNCHANGED <<mLocal, outers, logs, handled>>
    \/ EndOfOptions /\ UNCHANGED <<mLocal, outers, logs, handled>>
    \/ Reading
    \/ CreateCrashes
    \/ Create
    \/ CreateFails
    \/ Poll

(* Reading a file waits for no one: the thread that runs it keeps running.     *)
Spec == Init /\ [][Next]_vars /\ WF_vars(Reading)

------------------------------------------------------------------------------
(* What the options read so far ask for.                                       *)

Given(key) == SelectSeq(given, LAMBDA o : o.key = key)
Args(key) == {Arg(o) : o \in {given[i] : i \in {j \in DOMAIN given : given[j].key = key}}}

(* What an option adds to a list: -c an address, -p a port, unless it is empty. *)
EntryOf(o) == IF o.key = "c" THEN Arg(o) ELSE Port(Arg(o))
EmptyOf(key) == IF key = "c" THEN NoAddress ELSE 0
IsEntry(key, o) == o.key = key /\ EntryOf(o) # EmptyOf(key)
EntriesGiven(key) == {i \in DOMAIN given : IsEntry(key, given[i])}

(* The first MaxFilter of them.                                                *)
FirstEntries(key) ==
    {EntryOf(given[i]) : i \in {j \in EntriesGiven(key) :
        Cardinality({k \in EntriesGiven(key) : k < j}) < MaxFilter}}

IgnoredAddresses == FirstEntries("c")
WatchedPorts == FirstEntries("p")

Handled == handled # Nothing

NetPacket ==
    [ip_proto : {PACKET_TCP, PACKET_UDP},
     ip_src   : Address,    ip_dst   : Address,
     th_sport : PortNumber, th_dport : PortNumber,
     length   : Int,        len_pack : Int,
     off_data : Nat,        len_data : Nat]

TypeOK ==
    /\ PrefsTypeOK
    /\ phase \in {"options", "parsed", "polling", "failed", "exited", "crashed"}
    /\ mLocal \in Address \cup {NULL}
    /\ outers \subseteq 0 .. 2
    /\ logs \in [0 .. 2 -> {"none", "open", "stdout", "failed"}]
    /\ handled.packet = NULL \/ handled.packet \in NetPacket
    /\ handled.by \subseteq outers

(* The detail log holds a packet exactly when its payload is longer than 5     *)
(* bytes, its source is none of the first MaxFilter addresses given with -c,   *)
(* and its destination port is one of the first MaxFilter ports given with -p, *)
(* if there is one: whatever the order of the options, whichever of them came  *)
(* from nested defaults files, and whatever invalid ones stood between them.   *)
(* -n changes nothing of that, whatever its number, and is not mentioned here; *)
(* the documentation says otherwise of both lists, see ModesAsDocumented       *)
(* (Prefs::setOption, DataSwitch::CanSave, FileWriter::Write).                 *)
FilterExact ==
    Handled /\ FileWriter \in outers =>
        LET p == handled.packet
        IN FileWriter \in handled.by <=>
             /\ PayloadLength(p) > 5
             /\ \A a \in IgnoredAddresses : Masked(p.ip_src) # Masked(a)
             /\ WatchedPorts = {} \/ p.th_dport \in WatchedPorts

(* A payload that is written lies inside the captured bytes, ends where the    *)
(* captured datagram ends, and is no longer than the length announced with it  *)
(* (CSector::ether, RawOuter::Write).                                          *)
PayloadCaptured ==
    Handled /\ handled.packet.len_data > 0 =>
        LET p == handled.packet
        IN /\ p.off_data + p.len_data = p.len_pack
           /\ p.len_pack <= handled.caplen - EthernetHeader
           /\ p.len_data <= PayloadLength(p)

(* The three records of one packet agree: what RawOuter writes FileWriter      *)
(* writes too, and what FileWriter writes of the local host GatherOuter counts *)
(* (the Write methods of Output.cpp).                                          *)
RecordsAgree ==
    Handled =>
        /\ RawOuter \in handled.by /\ FileWriter \in outers =>
               FileWriter \in handled.by
        /\ /\ FileWriter \in handled.by /\ GatherOuter \in outers
           /\ mLocal \in {handled.packet.ip_src, handled.packet.ip_dst}
           => GatherOuter \in handled.by

(* A RawOuter that polls has had its Create run, so as a daemon it has a log:  *)
(* PortStat::Create skips it when there is a GatherOuter, and only the values  *)
(* setOption lets through for -A keep the two apart.                           *)
RawLogOpened ==
    phase = "polling" /\ RawOuter \in outers =>
        logs[RawOuter] = IF prefs.daemonize THEN "open" ELSE "stdout"

(* Since mode 4 or 5 was given, no capture length was.                         *)
RawGiven ==
    \E i \in DOMAIN given : /\ given[i].key = "A" /\ given[i].arg \in {4, 5}
                            /\ \A j \in i .. Len(given) : given[j].key # "s"

(* Raw mode records whole payloads: unless a capture length is given after it, *)
(* the capture cuts no datagram of a frame up to 2048 bytes, however modes 4   *)
(* and 5 and the other options follow each other (Prefs::setOption, case 'A'). *)
RawComplete ==
    Handled /\ RawOuter \in handled.by /\ RawGiven /\ handled.frame.len <= 2048 =>
        handled.packet.len_pack = IpLen(handled.frame, handled.frame.len)

(* Once it reads a defaults file, the program gets to the end of it and of all *)
(* the files it names, itself included: the descriptors run out first          *)
(* (Prefs::loadFromFile).                                                      *)
FilesEnd == [](files # <<>> => <>(files = <<>> \/ phase # "options"))

(* Of the open files, outermost first: up to some place nothing is changed, and *)
(* there a file is closed or has a line less to read.                          *)
Descends(open, next) ==
    \E n \in DOMAIN open :
        /\ \A m \in 1 .. (n - 1) : m \in DOMAIN next /\ next[m] = open[m]
        /\ n \in DOMAIN next => Len(next[n]) < Len(open[n])

(* Why it does: each step brings the open files down in the lexicographic      *)
(* order of their unread lines, though it may open a file of any length, and   *)
(* there are at most MaxOpen of them (Prefs::loadFromFile).                     *)
FilesDescend ==
    [][phase = "options" /\ files # <<>> =>
           Descends(files, files') /\ Len(files') <= MaxOpen]_vars

------------------------------------------------------------------------------
(* The invariant the proofs are about.                                         *)

(* Packets are handled once the capture polls, when the options, the outers    *)
(* and the local address no longer change.                                     *)
HandledLate == Handled => phase \in {"polling", "crashed"}

RawSnaplenKept == RawGiven => prefs.snaplen = 2048

(* The slots of a filter hold the first entries given, without a gap.          *)
SlotsFilled(key, slots) ==
    /\ \E m \in 0 .. MaxFilter :
          /\ \A i \in Slots : slots[i] # EmptyOf(key) <=> i <= m
          /\ Cardinality(EntriesGiven(key)) >= m
          /\ m < MaxFilter => Cardinality(EntriesGiven(key)) = m
    /\ Entries(slots, EmptyOf(key)) = FirstEntries(key)

FiltersFilled ==
    SlotsFilled("c", prefs.filter_ip) /\ SlotsFilled("p", prefs.filter_port)

IInv ==
    /\ TypeOK /\ HandledLate /\ RawSnaplenKept /\ FiltersFilled
    /\ FilterExact /\ PayloadCaptured /\ RecordsAgree /\ RawLogOpened /\ RawComplete

------------------------------------------------------------------------------
(* What the documentation says.                                                *)

(* README:24, "treat filter ip to C class net": with -w, -c ignores every      *)
(* address that shares its first three octets (DataSwitch::CanSave).           *)
NetIgnored ==
    Handled /\ FileWriter \in handled.by /\ Given("w") # <<>> =>
        \A a \in IgnoredAddresses :
            SubSeq(handled.packet.ip_src, 1, 3) # SubSeq(a, 1, 3)

(* README:26-28, "block mod is 1, pass mode is 0", bit 0 of -n for the port    *)
(* list and bit 1 for the ip list: a list in block mode keeps its own entries  *)
(* out, a list in pass mode everything else.  A packet that both lists keep    *)
(* out is not recorded (Prefs::setOption, case 'n', DataSwitch::CanSave).      *)
ModesAsDocumented ==
    Handled /\ FileWriter \in handled.by =>
        \A n \in 0 .. 3 :
            Args("n") = {n} /\ WatchedPorts # {} /\ IgnoredAddresses # {} =>
                \/ handled.packet.th_dport \in WatchedPorts <=> ~ Bit(n, 1)
                \/ handled.packet.ip_src \in IgnoredAddresses <=> ~ Bit(n, 2)

(* README:5, "[-s <length>]": a capture length given with -s is the one used   *)
(* (Prefs::loadFromCLI).                                                       *)
SnaplenTaken ==
    given # <<>> =>
        LET o == given[Len(given)]
        IN o.key = "s" /\ o.arg \in Nat \ {0} => prefs.snaplen = o.arg
==============================================================================
