-------------------------------- MODULE Prefs --------------------------------
(* The options of pstat (Prefs.cpp): the command line read by loadFromCLI      *)
(* through getopt_long, the defaults files read by loadFromFile, which an      *)
(* option or a line of another defaults file names, and setOption, which both  *)
(* call.                                                                       *)
(*                                                                             *)
(* An option is a record: its key (the letter setOption switches on), its      *)
(* argument, and its form: "short" (-s), "long" (--snaplen), "line" (a line of *)
(* a defaults file) or "spaced" (such a line with a blank before the = sign).  *)
(* Texts are model values; the argument of a numeric option is what atoi makes *)
(* of it, the argument of -c the four octets inet_addr makes of it.            *)
EXTENDS Integers, Sequences, FiniteSetsExt

CONSTANTS
    Options,     \* the options a command line or a defaults file may hold
    Files,       \* name of a defaults file |-> its lines
    MaxFilter,   \* Prefs::MAX_FILTER
    MaxOpen,     \* files the process may have open at once
    MaxWords,    \* bound: options on one command line
    NULL         \* no text, no argument

Octet == 0 .. 255
Address == Octet \X Octet \X Octet \X Octet

ASSUME BoundsAssumption ==
    /\ MaxFilter \in Nat \ {0}
    /\ MaxOpen \in Nat
    /\ MaxWords \in Nat

(* What atoi and inet_addr return; a line may leave the argument of -x out.    *)
ASSUME OptionsAssumption ==
    /\ \A o \in Options :
          /\ o.key \in {"A", "n", "p", "s"} => o.arg \in Int
          /\ o.key = "x" => o.arg \in Int \cup {NULL}
          /\ o.key \in {"c", "m"} => o.arg \in Address
    /\ \A name \in DOMAIN Files : Files[name] \in Seq(Options)

VARIABLES
    prefs,       \* the fields of Prefs that the rest of the program reads
    files,       \* the lines left in each open defaults file, innermost last
    words,       \* options taken from the command line so far
    given,       \* history: the options that reached setOption
    phase        \* how far the program has come

prefsVars == <<prefs, files, words, given>>

PortNumber == 0 .. 65535
NoAddress == <<0, 0, 0, 0>>          \* an empty slot of filter_ip

Slots == 1 .. MaxFilter
Texts == {"B", "d", "G"}             \* texts only handed on: filter, directory, pid file

------------------------------------------------------------------------------
Defaults ==
    [output_mode |-> 1, snaplen |-> 128, block_mode |-> 2, host_mode |-> 0,
     rid_line    |-> 0, daemonize |-> FALSE,
     ifName      |-> NULL, local_network |-> NULL,
     filter_ip   |-> [i \in Slots |-> NoAddress],
     filter_port |-> [i \in Slots |-> 0],
     text        |-> [t \in Texts |-> NULL]]

(* getopt's table. A short option named in NoArgument takes no argument, even  *)
(* where the usage text and the table of long options give it one.             *)
Keys == {"A", "B", "c", "C", "d", "e", "f", "g", "G", "h", "i", "k", "l", "m",
         "n", "p", "r", "s", "v", "w", "x"}
NoArgument == {"C", "e", "h", "k", "l", "s", "v", "w", "x"}
Arg(o) == IF o.form = "short" /\ o.key \in NoArgument THEN NULL ELSE o.arg
Matches(o) == o.key \in Keys /\ o.form # "spaced"

------------------------------------------------------------------------------
(* What setOption stores.                                                      *)

OutputModeBits(n) == IF n \in 2 .. 7 THEN n ELSE 1                 \* mutant
OutputMode(n) == IF n \in 2 .. 5 THEN n ELSE 1

RawSnaplenOne(n, now) == IF n = 4 THEN 2048 ELSE now               \* mutant
RawSnaplen(n, now) == IF n \in {4, 5} THEN 2048 ELSE now

BlockMode(n) == IF n \in 0 .. 3 THEN 0 ELSE 2

(* snaplen is unsigned, so only 0 is below 1; a negative length wraps, and is  *)
(* kept here as the int that pcap_open_live turns it back into.                *)
Snaplen(n) == IF n = 0 THEN 128 ELSE n

PortWide(k) == IF k > 0 THEN k ELSE 0                              \* mutant
(* filter_port holds 16 bits.                                                  *)
Port(k) == IF k > 0 THEN k % 65536 ELSE 0

RidLine(a) == IF a = NULL THEN 1 ELSE IF a < 0 THEN 0 ELSE a

EmptySlots(slots, empty) == {i \in Slots : slots[i] = empty}

FillAll(slots, empty, v) ==                                        \* mutant
    [i \in Slots |-> IF slots[i] = empty THEN v ELSE slots[i]]
(* The first empty slot takes v; a full list drops it.                         *)
Fill(slots, empty, v) ==
    IF EmptySlots(slots, empty) = {} THEN slots
    ELSE [slots EXCEPT ![Min(EmptySlots(slots, empty))] = v]

Assign(p, k, a) ==
    CASE k = "A" -> [p EXCEPT !.output_mode = OutputMode(a),
                              !.snaplen = RawSnaplen(a, @)]
      [] k = "c" -> [p EXCEPT !.filter_ip = Fill(@, NoAddress, a)]
      [] k = "p" -> [p EXCEPT !.filter_port = Fill(@, 0, Port(a))]
      [] k = "n" -> [p EXCEPT !.block_mode = BlockMode(a)]
      [] k = "s" -> [p EXCEPT !.snaplen = Snaplen(a)]
      [] k = "w" -> [p EXCEPT !.host_mode = 1]
      [] k = "x" -> [p EXCEPT !.rid_line = RidLine(a)]
      [] k = "e" -> [p EXCEPT !.daemonize = TRUE]
      [] k = "i" -> [p EXCEPT !.ifName = IF @ = NULL THEN a ELSE @]
      [] k = "m" -> [p EXCEPT !.local_network = a]
      [] k \in Texts -> [p EXCEPT !.text[k] = a]
      [] OTHER -> p

------------------------------------------------------------------------------
(* loadFromFile opens the file, unless it is missing or the process has no     *)
(* descriptor left; a caller ignores the failure.                              *)
Opened(name, below) ==
    IF name \in DOMAIN Files /\ Len(below) < MaxOpen
    THEN Append(below, Files[name]) ELSE below

(* usage prints the options and the interfaces, killDaemon signals the process *)
(* named in the pid file: both end the program.                                *)
Exits(o) == o.key \in {"h", "k"}

NullLength(o) == o.key = "s" /\ Arg(o) = NULL          \* atoi(NULL)

(* setOption, called with the files below still open.                          *)
SetOption(o, below) ==
    /\ given' = Append(given, o)
    /\ \/ /\ NullLength(o)
          /\ phase' = "crashed"
          /\ files' = below
          /\ UNCHANGED prefs
       \/ /\ Exits(o)
          /\ phase' = "exited"
          /\ files' = below
          /\ UNCHANGED prefs
       \/ /\ o.key = "f"
          /\ files' = Opened(o.arg, below)
          /\ UNCHANGED <<prefs, phase>>
       \/ /\ o.key # "f" /\ ~ Exits(o) /\ ~ NullLength(o)
          /\ prefs' = Assign(prefs, o.key, Arg(o))
          /\ files' = below
          /\ UNCHANGED phase

PrefsInit ==
    /\ prefs = Defaults
    /\ files = <<>>
    /\ words = 0
    /\ given = <<>>
    /\ phase = "options"

(* loadFromCLI: the next option of the command line.                           *)
CommandOption ==
    /\ phase = "options" /\ files = <<>> /\ words < MaxWords
    /\ words' = words + 1
    /\ \E o \in Options : /\ o.form \in {"short", "long"} /\ Matches(o)
                         /\ SetOption(o, files)

(* The command line ends, or holds a word getopt does not know: what follows   *)
(* such a word is never read. checkOptions then puts the data directory back   *)
(* to the install directory.                                                   *)
EndOfOptions ==
    /\ phase = "options" /\ files = <<>>
    /\ phase' = "parsed"
    /\ UNCHANGED <<prefs, files, words, given>>

HandedBack(lines) == lines                                          \* mutant
Unread(lines) == Tail(lines)

StillOpen(open) == open                                            \* mutant
Closed(open) == SubSeq(open, 1, Len(open) - 1)

Innermost == files[Len(files)]

ConfigLine ==
    /\ phase = "options" /\ files # <<>> /\ Innermost # <<>>
    /\ LET line  == Head(Innermost)
           below == [files EXCEPT ![Len(files)] = Unread(@)]
       IN \/ Matches(line) /\ SetOption(line, below)
          \/ ~ Matches(line) /\ files' = below /\ UNCHANGED <<prefs, given, phase>>
    /\ UNCHANGED words

EndOfFile ==
    /\ phase = "options" /\ files # <<>> /\ Innermost = <<>>
    /\ files' = Closed(files)
    /\ UNCHANGED <<prefs, words, given, phase>>

ArgsOf(keys) == {o.arg : o \in {q \in Options : q.key \in keys}} \cup {NULL}

PrefsType ==
    [output_mode   : 1 .. 5, snaplen : Int \ {0}, block_mode : {0, 2},
     host_mode     : {0, 1}, rid_line : Nat, daemonize : BOOLEAN,
     ifName        : ArgsOf({"i"}),
     local_network : Address \cup {NULL},
     filter_ip     : [Slots -> Address],
     filter_port   : [Slots -> PortNumber],
     text          : [Texts -> ArgsOf(Texts)]]

PrefsTypeOK ==
    /\ prefs \in PrefsType
    /\ files \in Seq(Seq(Options)) /\ Len(files) <= MaxOpen
    /\ words \in 0 .. MaxWords
    /\ given \in Seq(Options)
==============================================================================
