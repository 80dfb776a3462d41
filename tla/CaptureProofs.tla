---------------------------- MODULE CaptureProofs ----------------------------
(* Proofs about Capture, for every set of options, defaults files, frames and  *)
(* interfaces. The invariant IInv adds to the properties that packets are only *)
(* handled after the options are settled, what raw mode leaves of snaplen, and *)
(* what the slots of the filters hold of the options read so far.              *)
EXTENDS Capture, SequenceTheorems, FiniteSetTheorems, TLAPS

------------------------------------------------------------------------------
(* The options.                                                                *)

(* A port is cut to 16 bits (Prefs::setOption, case 'p').                      *)
LEMMA PortType ==
    ASSUME NEW k \in Int
    PROVE  Port(k) \in PortNumber
<1>1. k % 65536 \in PortNumber BY DEF PortNumber
<1>2. 0 \in PortNumber BY DEF PortNumber
<1> QED BY <1>1, <1>2 DEF Port

(* Whatever option reaches setOption, Prefs keeps its type (Prefs::setOption). *)
LEMMA AssignType ==
    ASSUME NEW p \in PrefsType, NEW o \in Options, ~ NullLength(o)
    PROVE  Assign(p, o.key, Arg(o)) \in PrefsType
<1> DEFINE k == o.key
           a == Arg(o)
<1> USE DEF PrefsType
<1>1. CASE k = "A"
  <2>1. a \in Int BY <1>1, OptionsAssumption DEF Arg, NoArgument
  <2>2. OutputMode(a) \in 1 .. 5 BY <2>1 DEF OutputMode
  <2>3. RawSnaplen(a, p.snaplen) \in Int \ {0} BY <2>1 DEF RawSnaplen
  <2> QED BY <1>1, <2>2, <2>3 DEF Assign, Texts
<1>2. CASE k = "c"
  <2>1. a \in Address BY <1>2, OptionsAssumption DEF Arg, NoArgument
  <2>2. Fill(p.filter_ip, NoAddress, a) \in [Slots -> Address] BY <2>1 DEF Fill
  <2> QED BY <1>2, <2>2 DEF Assign, Texts
<1>3. CASE k = "p"
  <2>1. a \in Int BY <1>3, OptionsAssumption DEF Arg, NoArgument
  <2>2. Port(a) \in PortNumber BY <2>1, PortType
  <2>3. Fill(p.filter_port, 0, Port(a)) \in [Slots -> PortNumber] BY <2>2 DEF Fill
  <2> QED BY <1>3, <2>3 DEF Assign, Texts
<1>4. CASE k = "n"
  <2>1. BlockMode(a) \in {0, 2} BY DEF BlockMode
  <2> QED BY <1>4, <2>1 DEF Assign, Texts
<1>5. CASE k = "s"
  <2>1. a \in Int BY <1>5, OptionsAssumption DEF Arg, NoArgument, NullLength
  <2>2. Snaplen(a) \in Int \ {0} BY <2>1 DEF Snaplen
  <2> QED BY <1>5, <2>2 DEF Assign, Texts
<1>6. CASE k = "w" BY <1>6 DEF Assign, Texts
<1>7. CASE k = "x"
  <2>1. a \in Int \cup {NULL} BY <1>7, OptionsAssumption DEF Arg
  <2>2. RidLine(a) \in Nat BY <2>1 DEF RidLine
  <2> QED BY <1>7, <2>2 DEF Assign, Texts
<1>8. CASE k = "e" BY <1>8 DEF Assign, Texts
<1>9. CASE k = "i"
  <2>1. a \in ArgsOf({"i"}) BY <1>9 DEF ArgsOf, Arg
  <2> QED BY <1>9, <2>1 DEF Assign, Texts
<1>10. CASE k = "m"
  <2>1. a \in Address \cup {NULL} BY <1>10, OptionsAssumption DEF Arg
  <2> QED BY <1>10, <2>1 DEF Assign, Texts
<1>11. CASE k \in Texts
  <2>1. a \in ArgsOf(Texts) BY <1>11 DEF ArgsOf, Arg
  <2> QED BY <1>11, <2>1 DEF Assign, Texts
<1>12. CASE k \notin {"A", "c", "p", "n", "s", "w", "x", "e", "i", "m"} \cup Texts
  BY <1>12 DEF Assign, Texts
<1> QED BY <1>1, <1>2, <1>3, <1>4, <1>5, <1>6, <1>7, <1>8, <1>9, <1>10, <1>11, <1>12

(* A file that is opened keeps the stack within the descriptors there are.     *)
LEMMA OpenedType ==
    ASSUME NEW name, NEW below \in Seq(Seq(Options)), Len(below) <= MaxOpen
    PROVE  /\ Opened(name, below) \in Seq(Seq(Options))
           /\ Len(Opened(name, below)) <= MaxOpen
<1>1. CASE name \in DOMAIN Files /\ Len(below) < MaxOpen
  <2>1. Files[name] \in Seq(Options) BY <1>1, OptionsAssumption
  <2>2. Opened(name, below) = Append(below, Files[name]) BY <1>1 DEF Opened
  <2> QED BY <1>1, <2>1, <2>2, BoundsAssumption, AppendProperties
<1>2. CASE ~ (name \in DOMAIN Files /\ Len(below) < MaxOpen)
  BY <1>2 DEF Opened
<1> QED BY <1>1, <1>2

(* A call of setOption keeps the types (Prefs::setOption).                     *)
LEMMA SetOptionType ==
    ASSUME PrefsTypeOK, NEW o \in Options, NEW below \in Seq(Seq(Options)),
           Len(below) <= MaxOpen, words' \in 0 .. MaxWords, SetOption(o, below)
    PROVE  PrefsTypeOK'
<1>1. given' \in Seq(Options) BY AppendProperties DEF SetOption, PrefsTypeOK
<1>2. prefs' \in PrefsType BY AssignType DEF SetOption, PrefsTypeOK
<1>3. files' \in Seq(Seq(Options)) /\ Len(files') <= MaxOpen
  BY OpenedType DEF SetOption
<1> QED BY <1>1, <1>2, <1>3 DEF PrefsTypeOK

(* Only -A and -s reach snaplen (Prefs::setOption).                            *)
LEMMA AssignSnaplen ==
    ASSUME NEW p \in PrefsType, NEW k, NEW a
    PROVE  /\ Assign(p, "A", a).snaplen = RawSnaplen(a, p.snaplen)
           /\ k \notin {"A", "s"} => Assign(p, k, a).snaplen = p.snaplen
<1>1. Assign(p, "A", a) = [p EXCEPT !.output_mode = OutputMode(a),
                                    !.snaplen = RawSnaplen(a, p.snaplen)]
  BY DEF Assign, Texts
<1>2. ASSUME k \notin {"A", "s"} PROVE Assign(p, k, a).snaplen = p.snaplen
  BY <1>2 DEF Assign, Texts, PrefsType
<1> QED BY <1>1, <1>2 DEF PrefsType

(* What an option leaves of the history's claim on snaplen.                    *)
LEMMA SetOptionSnaplen ==
    ASSUME PrefsTypeOK, RawSnaplenKept, NEW o \in Options, NEW below,
           SetOption(o, below)
    PROVE  RawSnaplenKept'
<1> SUFFICES ASSUME RawGiven' PROVE prefs'.snaplen = 2048 BY DEF RawSnaplenKept
<1>1. given' = Append(given, o) /\ given \in Seq(Options)
  BY DEF SetOption, PrefsTypeOK
<1>2. Len(given) \in Nat /\ Len(given') = Len(given) + 1
  BY <1>1, AppendProperties
<1>3. /\ \A i \in 1 .. Len(given) : given'[i] = given[i]
      /\ given'[Len(given) + 1] = o
  BY <1>1, AppendProperties
<1>4. PICK i \in 1 .. (Len(given) + 1) :
        /\ given'[i].key = "A" /\ given'[i].arg \in {4, 5}
        /\ \A j \in i .. (Len(given) + 1) : given'[j].key # "s"
  <2>1. given' \in Seq(Options) BY <1>1, AppendProperties
  <2>2. DOMAIN given' = 1 .. (Len(given) + 1) BY <1>2, <2>1, LenProperties
  <2> QED BY <1>2, <2>2 DEF RawGiven
<1>5. o.key # "s" BY <1>2, <1>3, <1>4
<1>6. prefs \in PrefsType BY DEF PrefsTypeOK
<1>7. CASE i = Len(given) + 1
  <2>1. o.key = "A" /\ o.arg \in {4, 5} BY <1>3, <1>4, <1>7
  <2>2. Arg(o) \in {4, 5} BY <2>1 DEF Arg, NoArgument
  <2>3. prefs' = Assign(prefs, "A", Arg(o)) BY <2>1 DEF SetOption, NullLength, Exits
  <2> QED BY <1>6, <2>2, <2>3, AssignSnaplen DEF RawSnaplen
<1>8. CASE i \in 1 .. Len(given)
  <2>1. RawGiven
    <3>1. DOMAIN given = 1 .. Len(given) BY <1>1, LenProperties
    <3>2. \A j \in i .. Len(given) : given[j].key # "s" BY <1>2, <1>3, <1>4, <1>8
    <3> QED BY <1>3, <1>4, <1>8, <3>1, <3>2 DEF RawGiven
  <2>2. prefs.snaplen = 2048 BY <2>1 DEF RawSnaplenKept
  <2>3. prefs' = prefs \/ prefs' = Assign(prefs, o.key, Arg(o)) BY DEF SetOption
  <2>4. Assign(prefs, o.key, Arg(o)).snaplen = 2048
    <3>1. CASE o.key = "A" BY <1>6, <2>2, <3>1, AssignSnaplen DEF RawSnaplen
    <3>2. CASE o.key # "A" BY <1>5, <1>6, <2>2, <3>2, AssignSnaplen
    <3> QED BY <3>1, <3>2
  <2> QED BY <2>2, <2>3, <2>4
<1> QED BY <1>2, <1>4, <1>7, <1>8

------------------------------------------------------------------------------
(* The filters.                                                                *)

(* The new option is the only entry that an option can add to a list, and it   *)
(* counts for the filter while fewer than MaxFilter came before it             *)
(* (Prefs::setOption, cases 'c' and 'p').                                      *)
LEMMA EntryAdded ==
    ASSUME given \in Seq(Options), NEW o \in Options, given' = Append(given, o),
           NEW key \in {"c", "p"}
    PROVE  /\ Cardinality(EntriesGiven(key)) \in Nat
           /\ ~ IsEntry(key, o) =>
                 /\ EntriesGiven(key)' = EntriesGiven(key)
                 /\ FirstEntries(key)' = FirstEntries(key)
           /\ IsEntry(key, o) =>
                 /\ Cardinality(EntriesGiven(key)') = Cardinality(EntriesGiven(key)) + 1
                 /\ FirstEntries(key)' = FirstEntries(key) \cup
                      (IF Cardinality(EntriesGiven(key)) < MaxFilter
                       THEN {EntryOf(o)} ELSE {})
<1> DEFINE n == Len(given)
           E == EntriesGiven(key)
           Before(j) == {k \in E : k < j}
<1>1. n \in Nat /\ DOMAIN given = 1 .. n /\ DOMAIN given' = 1 .. (n + 1)
  <2>1. given' \in Seq(Options) /\ Len(given') = n + 1 BY AppendProperties
  <2> QED BY <2>1, LenProperties
<1>2. (\A i \in 1 .. n : given'[i] = given[i]) /\ given'[n + 1] = o
  BY <1>1, AppendProperties
<1>3. E \subseteq 1 .. n BY <1>1 DEF EntriesGiven
<1>4. IsFiniteSet(E) /\ Cardinality(E) \in Nat
  <2>1. IsFiniteSet(1 .. n) BY <1>1, FS_Interval
  <2> HIDE DEF E, n
  <2>2. IsFiniteSet(E) BY <1>3, <2>1, FS_Subset
  <2> QED BY <2>2, FS_CardinalityType
<1>5. EntriesGiven(key)' = E \cup (IF IsEntry(key, o) THEN {n + 1} ELSE {})
  <2>1. EntriesGiven(key)' = {i \in 1 .. (n + 1) : IsEntry(key, given'[i])}
    BY <1>1 DEF EntriesGiven
  <2>2. E = {i \in 1 .. n : IsEntry(key, given[i])} BY <1>1 DEF EntriesGiven
  <2>3. 1 .. (n + 1) = (1 .. n) \cup {n + 1} BY <1>1
  <2> HIDE DEF E
  <2> QED BY <1>2, <2>1, <2>2, <2>3
<1>6. FirstEntries(key) = {EntryOf(given[i]) : i \in {j \in E : Cardinality(Before(j)) < MaxFilter}}
  BY DEF FirstEntries
<1>7. CASE ~ IsEntry(key, o)
  <2>1. EntriesGiven(key)' = E BY <1>5, <1>7
  <2>2. FirstEntries(key)' =
          {EntryOf(given'[i]) : i \in {j \in E : Cardinality(Before(j)) < MaxFilter}}
    BY <2>1 DEF FirstEntries
  <2>3. \A i \in E : given'[i] = given[i] BY <1>2, <1>3
  <2> HIDE DEF E, Before
  <2>4. FirstEntries(key)' = FirstEntries(key) BY <1>6, <2>2, <2>3
  <2> QED BY <1>4, <1>7, <2>1, <2>4 DEF E
<1>8. CASE IsEntry(key, o)
  <2>1. EntriesGiven(key)' = E \cup {n + 1} BY <1>5, <1>8
  <2>2. n + 1 \notin E BY <1>1, <1>3
  <2>3. Cardinality(E \cup {n + 1}) = Cardinality(E) + 1
    BY <1>4, <2>2, FS_AddElement
  <2> DEFINE First(S) == {j \in S : Cardinality({k \in S : k < j}) < MaxFilter}
  <2>4. FirstEntries(key)' = {EntryOf(given'[i]) : i \in First(E \cup {n + 1})}
    BY <2>1 DEF FirstEntries
  <2>5. First(E \cup {n + 1}) = First(E) \cup (IF Cardinality(E) < MaxFilter THEN {n + 1} ELSE {})
    <3>1. \A j \in E : {k \in E \cup {n + 1} : k < j} = {k \in E : k < j}
      BY <1>1, <1>3
    <3>2. {k \in E \cup {n + 1} : k < n + 1} = E BY <1>1, <1>3
    <3> HIDE DEF E
    <3> QED BY <3>1, <3>2
  <2>6. FirstEntries(key) = {EntryOf(given[i]) : i \in First(E)} BY <1>6
  <2>7. \A i \in First(E) : given'[i] = given[i] BY <1>2, <1>3
  <2> HIDE DEF E, First
  <2>8. FirstEntries(key)' = FirstEntries(key) \cup
          (IF Cardinality(E) < MaxFilter THEN {EntryOf(o)} ELSE {})
    <3>1. CASE Cardinality(E) < MaxFilter
      <4>1. FirstEntries(key)' = {EntryOf(given'[i]) : i \in First(E)} \cup {EntryOf(given'[n + 1])}
        BY <2>4, <2>5, <3>1
      <4>2. {EntryOf(given'[i]) : i \in First(E)} = FirstEntries(key) BY <2>6, <2>7
      <4> QED BY <1>2, <3>1, <4>1, <4>2
    <3>2. CASE ~ (Cardinality(E) < MaxFilter)
      <4>1. FirstEntries(key)' = {EntryOf(given'[i]) : i \in First(E)} BY <2>4, <2>5, <3>2
      <4> QED BY <2>6, <2>7, <3>2, <4>1
    <3> QED BY <3>1, <3>2
  <2> QED BY <1>4, <1>8, <2>1, <2>3, <2>8 DEF E
<1> QED BY <1>7, <1>8

(* The slots up to m are taken: a value goes to the next one, if there is one. *)
LEMMA FillNext ==
    ASSUME NEW m \in 0 .. MaxFilter, NEW slots, NEW empty, NEW v,
           \A i \in Slots : slots[i] # empty <=> i <= m
    PROVE  /\ m = MaxFilter => Fill(slots, empty, v) = slots
           /\ m < MaxFilter => Fill(slots, empty, v) = [slots EXCEPT ![m + 1] = v]
<1>1. EmptySlots(slots, empty) = (m + 1) .. MaxFilter
  BY BoundsAssumption DEF EmptySlots, Slots
<1>2. ASSUME m = MaxFilter PROVE Fill(slots, empty, v) = slots
  <2>1. EmptySlots(slots, empty) = {} BY <1>1, <1>2, BoundsAssumption
  <2> QED BY <2>1 DEF Fill
<1>3. ASSUME m < MaxFilter PROVE Fill(slots, empty, v) = [slots EXCEPT ![m + 1] = v]
  <2>1. m + 1 \in (m + 1) .. MaxFilter BY <1>3, BoundsAssumption
  <2>2. \A x \in (m + 1) .. MaxFilter :
          (\A y \in (m + 1) .. MaxFilter : x <= y) <=> x = m + 1
    BY <2>1, BoundsAssumption
  <2>3. Min((m + 1) .. MaxFilter) = m + 1 BY <2>1, <2>2 DEF Min
  <2> QED BY <1>1, <2>1, <2>3 DEF Fill
<1> QED BY <1>2, <1>3

(* DataSwitch takes over the slots before the first empty one.                 *)
LEMMA EntriesTaken ==
    ASSUME NEW m \in 0 .. MaxFilter, NEW slots, NEW empty,
           \A i \in Slots : slots[i] # empty <=> i <= m
    PROVE  \A v : v \in Entries(slots, empty) <=> \E i \in 1 .. m : v = slots[i]
<1>1. {j \in Slots : \A k \in 1 .. j : slots[k] # empty} = 1 .. m
  BY BoundsAssumption DEF Slots
<1> QED BY <1>1 DEF Entries

(* A list of a filter stays filled whatever option comes.                      *)
LEMMA ListFilled ==
    ASSUME given \in Seq(Options), NEW o \in Options, given' = Append(given, o),
           NEW key \in {"c", "p"}, NEW Values,
           NEW slots \in [Slots -> Values], SlotsFilled(key, slots), NEW next,
           next = IF o.key = key THEN Fill(slots, EmptyOf(key), EntryOf(o)) ELSE slots
    PROVE  /\ \E m \in 0 .. MaxFilter :
                 /\ \A i \in Slots : next[i] # EmptyOf(key) <=> i <= m
                 /\ Cardinality(EntriesGiven(key)') >= m
                 /\ m < MaxFilter => Cardinality(EntriesGiven(key)') = m
           /\ Entries(next, EmptyOf(key)) = FirstEntries(key)'
<1> DEFINE n == Cardinality(EntriesGiven(key))
<1>1. PICK m \in 0 .. MaxFilter :
        /\ \A i \in Slots : slots[i] # EmptyOf(key) <=> i <= m
        /\ n >= m
        /\ m < MaxFilter => n = m
  BY DEF SlotsFilled
<1>2. Entries(slots, EmptyOf(key)) = FirstEntries(key) BY DEF SlotsFilled
<1>3. m \in Nat /\ n \in Nat /\ MaxFilter \in Nat
  BY <1>1, EntryAdded, BoundsAssumption
<1>4. CASE ~ IsEntry(key, o)
  <2>1. next = slots
    <3>1. CASE o.key # key BY <3>1
    <3>2. CASE o.key = key /\ EntryOf(o) = EmptyOf(key)
      <4>1. CASE m = MaxFilter BY <1>1, <3>2, <4>1, FillNext
      <4>2. CASE m < MaxFilter
        <5>1. next = [slots EXCEPT ![m + 1] = EmptyOf(key)]
          BY <1>1, <3>2, <4>2, FillNext
        <5>2. m + 1 \in Slots /\ ~ (m + 1 <= m) BY <1>3, <4>2 DEF Slots
        <5>3. slots[m + 1] = EmptyOf(key) BY <1>1, <5>2
        <5> QED BY <5>1, <5>2, <5>3
      <4> QED BY <1>3, <4>1, <4>2
    <3> QED BY <1>4, <3>1, <3>2 DEF IsEntry
  <2>2. EntriesGiven(key)' = EntriesGiven(key) /\ FirstEntries(key)' = FirstEntries(key)
    BY <1>4, EntryAdded
  <2> QED BY <1>1, <1>2, <2>1, <2>2
<1>5. CASE IsEntry(key, o)
  <2>1. o.key = key /\ EntryOf(o) # EmptyOf(key) BY <1>5 DEF IsEntry
  <2>2. /\ Cardinality(EntriesGiven(key)') = n + 1
        /\ FirstEntries(key)' = FirstEntries(key) \cup
             (IF n < MaxFilter THEN {EntryOf(o)} ELSE {})
    BY <1>5, EntryAdded
  <2>3. CASE m = MaxFilter
    <3>1. next = slots BY <1>1, <2>1, <2>3, FillNext
    <3>2. ~ (n < MaxFilter) BY <1>1, <1>3, <2>3
    <3>3. FirstEntries(key)' = FirstEntries(key) BY <2>2, <3>2
    <3>4. n + 1 >= m BY <1>1, <1>3
    <3> QED BY <1>1, <1>2, <2>2, <2>3, <3>1, <3>3, <3>4
  <2>4. CASE m < MaxFilter
    <3>1. next = [slots EXCEPT ![m + 1] = EntryOf(o)] BY <1>1, <2>1, <2>4, FillNext
    <3>2. m + 1 \in Slots /\ m + 1 \in 0 .. MaxFilter BY <1>3, <2>4 DEF Slots
    <3>3. \A i \in Slots : next[i] = IF i = m + 1 THEN EntryOf(o) ELSE slots[i]
      BY <3>1, <3>2
    <3>4. \A i \in Slots : next[i] # EmptyOf(key) <=> i <= m + 1
      BY <1>1, <1>3, <2>1, <3>3 DEF Slots
    <3>5. \A v : v \in Entries(slots, EmptyOf(key)) <=> \E i \in 1 .. m : v = slots[i]
      BY <1>1, EntriesTaken
    <3>6. \A v : v \in Entries(next, EmptyOf(key)) <=> \E i \in 1 .. (m + 1) : v = next[i]
      <4> DEFINE e == EmptyOf(key)
                 k == m + 1
      <4>1. k \in 0 .. MaxFilter /\ \A i \in Slots : next[i] # e <=> i <= k
        BY <3>2, <3>4
      <4> HIDE DEF e, k
      <4>2. \A v : v \in Entries(next, e) <=> \E i \in 1 .. k : v = next[i]
        BY <4>1, EntriesTaken
      <4> QED BY <4>2 DEF e, k
    <3>7. Entries(next, EmptyOf(key)) = Entries(slots, EmptyOf(key)) \cup {EntryOf(o)}
      <4> DEFINE e == EmptyOf(key)
                 new == EntryOf(o)
      <4>1. \A i \in 1 .. m : next[i] = slots[i] BY <1>3, <2>4, <3>3 DEF Slots
      <4>2. next[m + 1] = new BY <3>2, <3>3
      <4>3. \A i : i \in 1 .. (m + 1) <=> i \in 1 .. m \/ i = m + 1 BY <1>3
      <4> HIDE DEF e, new
      <4>4. \A v : v \in Entries(next, e) <=> v \in Entries(slots, e) \/ v = new
        <5>1. ASSUME NEW v
              PROVE  (\E i \in 1 .. (m + 1) : v = next[i])
                       <=> (\E i \in 1 .. m : v = slots[i]) \/ v = new
          BY <4>1, <4>2, <4>3
        <5> QED BY <3>5, <3>6, <5>1 DEF e
      <4> QED BY <4>4 DEF e, new
    <3>8. n = m /\ n < MaxFilter BY <1>1, <2>4
    <3>9. Entries(next, EmptyOf(key)) = FirstEntries(key)'
      BY <1>2, <2>2, <3>7, <3>8
    <3>10. Cardinality(EntriesGiven(key)') = m + 1 BY <2>2, <3>8
    <3> QED BY <1>3, <3>2, <3>4, <3>9, <3>10
  <2> QED BY <1>3, <2>3, <2>4
<1> QED BY <1>4, <1>5

(* Only -c and -p reach the filters (Prefs::setOption).                        *)
LEMMA AssignFilters ==
    ASSUME NEW p \in PrefsType, NEW o \in Options
    PROVE  /\ Assign(p, o.key, Arg(o)).filter_ip =
                IF o.key = "c" THEN Fill(p.filter_ip, NoAddress, EntryOf(o)) ELSE p.filter_ip
           /\ Assign(p, o.key, Arg(o)).filter_port =
                IF o.key = "p" THEN Fill(p.filter_port, 0, EntryOf(o)) ELSE p.filter_port
<1>1. CASE o.key = "c"
  BY <1>1 DEF Assign, Texts, PrefsType, EntryOf
<1>2. CASE o.key = "p"
  BY <1>2 DEF Assign, Texts, PrefsType, EntryOf
<1>3. CASE o.key \notin {"c", "p"}
  BY <1>3 DEF Assign, Texts, PrefsType
<1> QED BY <1>1, <1>2, <1>3

(* What an option leaves of the filters.                                       *)
LEMMA SetOptionFilters ==
    ASSUME PrefsTypeOK, FiltersFilled, NEW o \in Options, NEW below,
           SetOption(o, below)
    PROVE  FiltersFilled'
<1>1. given' = Append(given, o) /\ given \in Seq(Options) /\ prefs \in PrefsType
  BY DEF SetOption, PrefsTypeOK
<1>2. /\ prefs'.filter_ip =
           IF o.key = "c" THEN Fill(prefs.filter_ip, NoAddress, EntryOf(o))
           ELSE prefs.filter_ip
      /\ prefs'.filter_port =
           IF o.key = "p" THEN Fill(prefs.filter_port, 0, EntryOf(o))
           ELSE prefs.filter_port
  <2>1. CASE o.key \in {"c", "p"}
    <3>1. prefs' = Assign(prefs, o.key, Arg(o))
      BY <2>1 DEF SetOption, NullLength, Exits
    <3> QED BY <1>1, <3>1, AssignFilters
  <2>2. CASE o.key \notin {"c", "p"}
    <3>1. prefs' = prefs \/ prefs' = Assign(prefs, o.key, Arg(o)) BY DEF SetOption
    <3> QED BY <1>1, <2>2, <3>1, AssignFilters
  <2> QED BY <2>1, <2>2
<1>3. prefs.filter_ip \in [Slots -> Address] /\ prefs.filter_port \in [Slots -> PortNumber]
  BY <1>1 DEF PrefsType
<1>4. SlotsFilled("c", prefs.filter_ip)'
  <2>1. prefs'.filter_ip = IF o.key = "c" THEN Fill(prefs.filter_ip, EmptyOf("c"), EntryOf(o))
                           ELSE prefs.filter_ip
    BY <1>2 DEF EmptyOf
  <2>2. SlotsFilled("c", prefs.filter_ip) BY DEF FiltersFilled
  <2> QED BY <1>1, <1>3, <2>1, <2>2, ListFilled DEF SlotsFilled
<1>5. SlotsFilled("p", prefs.filter_port)'
  <2>1. prefs'.filter_port = IF o.key = "p" THEN Fill(prefs.filter_port, EmptyOf("p"), EntryOf(o))
                             ELSE prefs.filter_port
    BY <1>2 DEF EmptyOf
  <2>2. SlotsFilled("p", prefs.filter_port) BY DEF FiltersFilled
  <2> QED BY <1>1, <1>3, <2>1, <2>2, ListFilled DEF SlotsFilled
<1> QED BY <1>4, <1>5 DEF FiltersFilled

(* The entries of a list depend on nothing but the options given.              *)
LEMMA EntriesKept ==
    ASSUME UNCHANGED given, NEW key
    PROVE  EntriesGiven(key)' = EntriesGiven(key) /\ FirstEntries(key)' = FirstEntries(key)
<1>1. EntriesGiven(key)' = EntriesGiven(key) BY DEF EntriesGiven
<1> DEFINE E == EntriesGiven(key)
<1>2. FirstEntries(key) =
        {EntryOf(given[i]) : i \in {j \in E : Cardinality({k \in E : k < j}) < MaxFilter}}
  BY DEF FirstEntries
<1>3. FirstEntries(key)' =
        {EntryOf(given[i]) : i \in {j \in E : Cardinality({k \in E : k < j}) < MaxFilter}}
  BY <1>1 DEF FirstEntries
<1> QED BY <1>1, <1>2, <1>3

(* The filters depend on nothing but Prefs and the options given.              *)
LEMMA FiltersKept ==
    ASSUME FiltersFilled, UNCHANGED <<prefs, given>>
    PROVE  FiltersFilled'
<1>1. ASSUME NEW key, NEW slots, SlotsFilled(key, slots) PROVE SlotsFilled(key, slots)'
  <2>1. EntriesGiven(key)' = EntriesGiven(key) /\ FirstEntries(key)' = FirstEntries(key)
    BY EntriesKept
  <2> QED BY <1>1, <2>1 DEF SlotsFilled
<1> QED BY <1>1 DEF FiltersFilled

(* At first no option is given and every slot is empty.                        *)
LEMMA NothingGiven ==
    ASSUME PrefsInit
    PROVE  FiltersFilled
<1>1. /\ prefs.filter_ip = [i \in Slots |-> NoAddress]
      /\ prefs.filter_port = [i \in Slots |-> 0]
      /\ given = <<>>
  BY DEF PrefsInit, Defaults
<1>2. ASSUME NEW key PROVE EntriesGiven(key) = {} /\ FirstEntries(key) = {}
  BY <1>1 DEF EntriesGiven, FirstEntries
<1>3. Cardinality({}) = 0 BY FS_EmptySet
<1>4. ASSUME NEW key, NEW slots, slots = [i \in Slots |-> EmptyOf(key)]
      PROVE  SlotsFilled(key, slots)
  <2>1. 0 \in 0 .. MaxFilter /\ \A i \in Slots : ~ (i <= 0) BY BoundsAssumption DEF Slots
  <2>2. \A i \in Slots : slots[i] # EmptyOf(key) <=> i <= 0 BY <1>4, <2>1
  <2>3. Entries(slots, EmptyOf(key)) = {}
    <3> DEFINE e == EmptyOf(key)
    <3>1. \A i \in Slots : slots[i] # e <=> i <= 0 BY <2>2
    <3> HIDE DEF e
    <3>2. \A v : v \in Entries(slots, e) <=> \E i \in 1 .. 0 : v = slots[i]
      BY <2>1, <3>1, EntriesTaken
    <3> QED BY <3>2 DEF e
  <2> QED BY <1>2, <1>3, <2>1, <2>2, <2>3 DEF SlotsFilled
<1> QED BY <1>1, <1>4 DEF FiltersFilled, EmptyOf

------------------------------------------------------------------------------
(* The dissector and the outers.                                               *)

(* The payload of a dissected frame lies inside what was captured              *)
(* (CSector::ether).                                                           *)
LEMMA PacketFacts ==
    ASSUME NEW f \in Frames, NEW caplen \in Int, caplen <= f.len,
           Dissects(f, caplen), NEW stale
    PROVE  LET p == Packet(f, caplen, stale)
           IN /\ PayloadLength(p) \in Int
              /\ p.len_data > 0 =>
                    /\ p.off_data + p.len_data = p.len_pack
                    /\ p.len_pack <= caplen - EthernetHeader
                    /\ p.len_data <= PayloadLength(p)
<1> DEFINE p == Packet(f, caplen, stale)
<1>1. f.len \in Nat /\ f.iplen \in Nat /\ f.ihl \in Nat /\ f.off \in Nat
  BY FramesAssumption
<1>2. Hlen(f) \in Nat BY <1>1 DEF Hlen
<1>3. HeaderLen(f) \in Nat BY <1>1 DEF HeaderLen, Larger, TcpHeader, UdpHeader
<1>4. /\ IpLen(f, caplen) \in Int
      /\ IpLen(f, caplen) <= caplen - EthernetHeader
  BY <1>1 DEF IpLen, EthernetHeader
<1>5. /\ p.length = f.len - EthernetHeader
      /\ p.off_data = Hlen(f) + HeaderLen(f)
      /\ p.len_pack = IpLen(f, caplen)
      /\ p.len_data = Larger(IpLen(f, caplen) - Hlen(f) - HeaderLen(f), 0)
  BY DEF Packet, Transport
<1>6. PayloadLength(p) = f.len - EthernetHeader - (Hlen(f) + HeaderLen(f))
  BY <1>5 DEF PayloadLength
<1>7. PayloadLength(p) \in Int BY <1>1, <1>2, <1>3, <1>6 DEF EthernetHeader
<1>8. ASSUME p.len_data > 0
      PROVE  /\ p.off_data + p.len_data = p.len_pack
             /\ p.len_data <= PayloadLength(p)
  <2>1. p.len_data = IpLen(f, caplen) - Hlen(f) - HeaderLen(f)
    BY <1>2, <1>3, <1>4, <1>5, <1>8 DEF Larger
  <2> HIDE DEF p
  <2> QED BY <1>1, <1>2, <1>3, <1>4, <1>5, <1>6, <2>1 DEF EthernetHeader
<1> QED BY <1>4, <1>5, <1>7, <1>8

(* A dissected frame makes a packet, whatever the ports of a header that was   *)
(* not captured read as (CSector::ether).                                      *)
LEMMA PacketType ==
    ASSUME NEW f \in Frames, NEW caplen \in Int, NEW stale \in StalePorts
    PROVE  Packet(f, caplen, stale) \in NetPacket
<1>1. /\ f.len \in Nat /\ f.iplen \in Nat /\ f.ihl \in Nat /\ f.off \in Nat
      /\ f.src \in Address /\ f.dst \in Address
      /\ f.sport \in PortNumber /\ f.dport \in PortNumber
      /\ stale \in PortNumber \X PortNumber
  BY FramesAssumption
<1> DEFINE ports == PortsOf(f, caplen, stale)
<1>2. ports[1] \in PortNumber /\ ports[2] \in PortNumber BY <1>1 DEF PortsOf
<1>3. Hlen(f) \in Nat BY <1>1 DEF Hlen
<1>4. HeaderLen(f) \in Nat BY <1>1 DEF HeaderLen, Larger, TcpHeader, UdpHeader
<1>5. IpLen(f, caplen) \in Int BY <1>1 DEF IpLen, EthernetHeader
<1>6. Larger(Transport(f, caplen) - HeaderLen(f), 0) \in Nat
  BY <1>3, <1>4, <1>5 DEF Transport, Larger
<1>7. f.len - EthernetHeader \in Int /\ Hlen(f) + HeaderLen(f) \in Nat
  BY <1>1, <1>3, <1>4 DEF EthernetHeader
<1> HIDE DEF ports
<1> QED BY <1>1, <1>2, <1>5, <1>6, <1>7 DEF Packet, NetPacket, ports

(* What RawOuter takes FileWriter takes, and what FileWriter takes of the      *)
(* local host GatherOuter takes (the Write methods of Output.cpp).             *)
LEMMA TakenAgree ==
    ASSUME NEW p, PayloadLength(p) \in Int
    PROVE  /\ RawOuter \in TakenBy(p) /\ FileWriter \in outers => FileWriter \in TakenBy(p)
           /\ /\ FileWriter \in TakenBy(p) /\ GatherOuter \in outers
              /\ mLocal \in {p.ip_src, p.ip_dst}
              => GatherOuter \in TakenBy(p)
<1>1. TakenByRawOuter(p) => TakenByFileWriter(p)
  BY DEF TakenByRawOuter, TakenByFileWriter
<1>2. TakenByFileWriter(p) /\ mLocal \in {p.ip_src, p.ip_dst} => TakenByGatherOuter(p)
  BY DEF TakenByFileWriter, TakenByGatherOuter
<1>3. /\ FileWriter \in TakenBy(p) <=> FileWriter \in outers /\ TakenByFileWriter(p)
      /\ GatherOuter \in TakenBy(p) <=> GatherOuter \in outers /\ TakenByGatherOuter(p)
      /\ RawOuter \in TakenBy(p) <=> RawOuter \in outers /\ TakenByRawOuter(p)
  BY DEF TakenBy, FileWriter, GatherOuter, RawOuter
<1> QED BY <1>1, <1>2, <1>3

(* What DataSwitch lets through, in terms of the options given                 *)
(* (DataSwitch::CanSave). The bit of the block mode that would turn the ports  *)
(* round is never set.                                                         *)
LEMMA CanSaveGiven ==
    ASSUME PrefsTypeOK, FiltersFilled, NEW p
    PROVE  CanSave(p) <=>
             /\ \A a \in IgnoredAddresses : Masked(p.ip_src) # Masked(a)
             /\ WatchedPorts = {} \/ p.th_dport \in WatchedPorts
<1>1. /\ Entries(prefs.filter_ip, NoAddress) = IgnoredAddresses
      /\ Entries(prefs.filter_port, 0) = WatchedPorts
  BY DEF FiltersFilled, SlotsFilled, EmptyOf, IgnoredAddresses, WatchedPorts
<1>2. prefs.block_mode % 2 = 0
  <2>1. prefs.block_mode \in {0, 2} BY DEF PrefsTypeOK, PrefsType
  <2> QED BY <2>1
<1> QED BY <1>1, <1>2 DEF CanSave

(* Without a new packet, option or outer the claim on the log stands.          *)
LEMMA FilterKept ==
    ASSUME FilterExact, UNCHANGED <<prefs, given, outers, handled>>
    PROVE  FilterExact'
<1>1. IgnoredAddresses' = IgnoredAddresses /\ WatchedPorts' = WatchedPorts
  BY EntriesKept DEF IgnoredAddresses, WatchedPorts
<1> QED BY <1>1 DEF FilterExact, Handled, Nothing, PayloadLength, Masked

(* With a length of 2048 the capture cuts no frame that is not longer.         *)
LEMMA CapturedFacts ==
    ASSUME NEW f \in Frames, prefs.snaplen \in Int
    PROVE  /\ Captured(f) \in Int /\ Captured(f) <= f.len
           /\ prefs.snaplen = 2048 /\ f.len <= 2048 => Captured(f) = f.len
<1>1. f.len \in Nat BY FramesAssumption
<1> QED BY <1>1 DEF Captured

(* An output mode that an option can set has no RawOuter beside a GatherOuter  *)
(* (PortStat::Create, Prefs::setOption).                                       *)
LEMMA ModesApart ==
    ASSUME NEW mode \in 1 .. 5
    PROVE  /\ OutersOf(mode) \subseteq 0 .. 2
           /\ RawOuter \in OutersOf(mode) => RawOuter \in Created(OutersOf(mode))
<1>1. OutersOf(mode) \subseteq 0 .. 2 BY DEF OutersOf
<1>2. RawOuter \in OutersOf(mode) <=> Bit(mode, 4)
  BY DEF OutersOf, FileWriter, GatherOuter, RawOuter
<1>3. GatherOuter \in OutersOf(mode) <=> Bit(mode, 2)
  BY DEF OutersOf, FileWriter, GatherOuter, RawOuter
<1>4. ~ (Bit(mode, 2) /\ Bit(mode, 4))
  <2>1. mode \in {1, 2, 3, 4, 5} OBVIOUS
  <2> QED BY <2>1 DEF Bit
<1> QED BY <1>1, <1>2, <1>3, <1>4 DEF Created

------------------------------------------------------------------------------
(* The invariant.                                                              *)

LEMMA InitInv == Init => IInv
<1> SUFFICES ASSUME Init PROVE IInv OBVIOUS
<1> USE DEF Init, PrefsInit
<1>1. ~ Handled BY DEF Handled
<1>2. Defaults \in PrefsType
  <2>1. [i \in Slots |-> NoAddress] \in [Slots -> Address]
    BY DEF NoAddress, Address, Octet
  <2>2. [i \in Slots |-> 0] \in [Slots -> PortNumber] BY DEF PortNumber
  <2>3. [t \in Texts |-> NULL] \in [Texts -> ArgsOf(Texts)] BY DEF ArgsOf
  <2>4. NULL \in ArgsOf({"i"}) BY DEF ArgsOf
  <2> QED BY <2>1, <2>2, <2>3, <2>4 DEF Defaults, PrefsType
<1>3. PrefsTypeOK
  <2>1. <<>> \in Seq(Seq(Options)) /\ <<>> \in Seq(Options) /\ Len(<<>>) = 0
    OBVIOUS
  <2> QED BY <1>2, <2>1, BoundsAssumption DEF PrefsTypeOK
<1>4. TypeOK BY <1>3 DEF TypeOK, Nothing
<1>5. ~ RawGiven BY DEF RawGiven
<1>6. FiltersFilled BY NothingGiven
<1> QED BY <1>1, <1>4, <1>5, <1>6
     DEF IInv, HandledLate, RawSnaplenKept, FilterExact, PayloadCaptured, RecordsAgree,
         RawLogOpened, RawComplete

(* While the options are read nothing is handled and no outer exists, so only  *)
(* the types and the claims on snaplen and the filters are at stake.           *)
LEMMA ParsingInv ==
    ASSUME IInv, PrefsTypeOK', RawSnaplenKept', FiltersFilled', phase = "options",
           phase' \in {"options", "parsed", "exited", "crashed"},
           UNCHANGED <<mLocal, outers, logs, handled>>
    PROVE  IInv'
<1>1. ~ Handled BY DEF IInv, HandledLate
<1>2. ~ Handled' BY <1>1 DEF Handled, Nothing
<1>3. TypeOK' BY DEF IInv, TypeOK
<1> QED BY <1>2, <1>3
     DEF IInv, HandledLate, FilterExact, PayloadCaptured, RecordsAgree, RawLogOpened,
         RawComplete

(* Once the options are read, Prefs does not change.                           *)
LEMMA OptionsKept ==
    ASSUME IInv, UNCHANGED prefsVars
    PROVE  PrefsTypeOK' /\ RawSnaplenKept' /\ FiltersFilled'
<1>1. UNCHANGED <<prefs, files, words, given>> BY DEF prefsVars
<1>2. PrefsTypeOK' BY <1>1 DEF IInv, TypeOK, PrefsTypeOK
<1>3. RawSnaplenKept' BY <1>1 DEF IInv, RawSnaplenKept, RawGiven
<1>4. FiltersFilled' BY <1>1, FiltersKept DEF IInv
<1> QED BY <1>2, <1>3, <1>4

LEMMA CommandOptionInv ==
    ASSUME IInv, CommandOption, UNCHANGED <<mLocal, outers, logs, handled>>
    PROVE  IInv'
<1>1. PICK o \in Options : SetOption(o, files) BY DEF CommandOption
<1>2. PrefsTypeOK /\ RawSnaplenKept /\ FiltersFilled BY DEF IInv, TypeOK
<1>3. words' \in 0 .. MaxWords
  BY <1>2, BoundsAssumption DEF CommandOption, PrefsTypeOK
<1>4. PrefsTypeOK' BY <1>1, <1>2, <1>3, SetOptionType DEF PrefsTypeOK
<1>5. RawSnaplenKept' BY <1>1, <1>2, SetOptionSnaplen
<1>7. FiltersFilled' BY <1>1, <1>2, SetOptionFilters
<1>6. phase = "options" /\ phase' \in {"options", "parsed", "exited", "crashed"}
  BY <1>1 DEF CommandOption, SetOption
<1> QED BY <1>4, <1>5, <1>6, <1>7, ParsingInv

LEMMA ConfigLineInv ==
    ASSUME IInv, ConfigLine, UNCHANGED <<mLocal, outers, logs, handled>>
    PROVE  IInv'
<1> DEFINE line == Head(Innermost)
           below == [files EXCEPT ![Len(files)] = Unread(@)]
<1>1. PrefsTypeOK /\ RawSnaplenKept /\ FiltersFilled BY DEF IInv, TypeOK
<1>2. /\ phase = "options" /\ files # <<>> /\ Innermost # <<>>
      /\ words' = words
      /\ \/ SetOption(line, below)
         \/ files' = below /\ UNCHANGED <<prefs, given, phase>>
  BY DEF ConfigLine
<1>3. files \in Seq(Seq(Options)) /\ Len(files) <= MaxOpen /\ words' \in 0 .. MaxWords
  BY <1>1, <1>2 DEF PrefsTypeOK
<1>4. Len(files) \in DOMAIN files /\ Innermost \in Seq(Options)
  <2>1. Len(files) \in 1 .. Len(files) BY <1>2, <1>3, EmptySeq, LenProperties
  <2> QED BY <1>3, <2>1, ElementOfSeq, LenProperties DEF Innermost
<1>5. line \in Options BY <1>2, <1>4, HeadTailProperties
<1>6. Unread(Innermost) \in Seq(Options)
  BY <1>2, <1>4, HeadTailProperties DEF Unread
<1>7. below \in Seq(Seq(Options)) /\ Len(below) = Len(files)
  <2>1. below = [files EXCEPT ![Len(files)] = Unread(Innermost)] BY DEF Innermost
  <2> QED BY <1>3, <1>4, <1>6, <2>1, ExceptSeq
<1> HIDE DEF line, below
<1>8. CASE SetOption(line, below)
  <2>1. PrefsTypeOK' BY <1>1, <1>3, <1>5, <1>7, <1>8, SetOptionType
  <2>2. RawSnaplenKept' BY <1>1, <1>5, <1>8, SetOptionSnaplen
  <2>3. phase' \in {"options", "parsed", "exited", "crashed"}
    BY <1>2, <1>8 DEF SetOption
  <2>4. FiltersFilled' BY <1>1, <1>5, <1>8, SetOptionFilters
  <2> QED BY <1>2, <2>1, <2>2, <2>3, <2>4, ParsingInv
<1>9. CASE files' = below /\ UNCHANGED <<prefs, given, phase>>
  <2>1. PrefsTypeOK' BY <1>1, <1>3, <1>7, <1>9 DEF PrefsTypeOK
  <2>2. RawSnaplenKept' BY <1>1, <1>9 DEF RawSnaplenKept, RawGiven
  <2>3. FiltersFilled' BY <1>1, <1>9, FiltersKept
  <2> QED BY <1>2, <1>9, <2>1, <2>2, <2>3, ParsingInv
<1> QED BY <1>2, <1>8, <1>9

LEMMA EndOfFileInv ==
    ASSUME IInv, EndOfFile, UNCHANGED <<mLocal, outers, logs, handled>>
    PROVE  IInv'
<1>1. PrefsTypeOK /\ RawSnaplenKept /\ FiltersFilled BY DEF IInv, TypeOK
<1>2. /\ phase = "options" /\ files # <<>> /\ files' = SubSeq(files, 1, Len(files) - 1)
      /\ UNCHANGED <<prefs, words, given, phase>>
  BY DEF EndOfFile, Closed
<1>3. files \in Seq(Seq(Options)) /\ Len(files) <= MaxOpen BY <1>1 DEF PrefsTypeOK
<1>4. files' \in Seq(Seq(Options)) /\ Len(files') = Len(files) - 1
  <2>1. Len(files) \in Nat \ {0} BY <1>2, <1>3, EmptySeq
  <2>2. \A i \in 1 .. (Len(files) - 1) : files[i] \in Seq(Options)
    <3> SUFFICES ASSUME NEW i \in 1 .. (Len(files) - 1) PROVE files[i] \in Seq(Options)
      OBVIOUS
    <3>1. i \in 1 .. Len(files) BY <2>1
    <3> QED BY <1>3, <3>1, ElementOfSeq
  <2>3. 1 \in Int /\ Len(files) - 1 \in Int BY <2>1
  <2> DEFINE rest == SubSeq(files, 1, Len(files) - 1)
             n == Len(files)
  <2>4. /\ rest \in Seq(Seq(Options))
        /\ Len(rest) = IF 1 <= n - 1 THEN n - 1 - 1 + 1 ELSE 0
    BY <2>2, <2>3, SubSeqProperties
  <2>5. files' = rest BY <1>2
  <2>6. n \in Nat \ {0} BY <2>1
  <2> HIDE DEF rest, n
  <2>7. Len(rest) = n - 1 BY <2>4, <2>6
  <2>8. Len(files') = n - 1 BY <2>5, <2>7
  <2>9. files' \in Seq(Seq(Options)) BY <2>4, <2>5
  <2> QED BY <2>8, <2>9 DEF n
<1>5. PrefsTypeOK' BY <1>1, <1>2, <1>3, <1>4, BoundsAssumption DEF PrefsTypeOK
<1>6. RawSnaplenKept' BY <1>1, <1>2 DEF RawSnaplenKept, RawGiven
<1>7. FiltersFilled' BY <1>1, <1>2, FiltersKept
<1> QED BY <1>2, <1>5, <1>6, <1>7, ParsingInv

LEMMA CreateInv ==
    ASSUME IInv, Create
    PROVE  IInv'
<1>1. PrefsTypeOK' /\ RawSnaplenKept' /\ FiltersFilled' BY OptionsKept DEF Create
<1>2. prefs \in PrefsType BY DEF IInv, TypeOK, PrefsTypeOK
<1>3. prefs.output_mode \in 1 .. 5 /\ prefs.daemonize \in BOOLEAN
  BY <1>2 DEF PrefsType
<1>4. outers' = OutersOf(prefs.output_mode) BY DEF Create
<1>5. ~ Handled /\ ~ Handled' /\ handled' = handled
  BY DEF Create, IInv, HandledLate, Handled, Nothing
<1>6. mLocal' \in Address \cup {NULL}
  <2>1. Addresses \subseteq Address \cup {NULL}
    <3>1. prefs.local_network \in Address \cup {NULL} BY <1>2 DEF PrefsType
    <3>2. Adapter # NULL => Adapter \in DOMAIN Adapters BY DEF Create, HasAdapter
    <3>3. ASSUME Adapter # NULL PROVE AdapterIp(Adapter) \subseteq Address
      BY <3>2, <3>3, AddressAssumption DEF AdapterIp
    <3> QED BY <3>1, <3>3, AddressAssumption DEF Addresses
  <2> QED BY <2>1 DEF Create
<1>7. /\ logs' \in [0 .. 2 -> {"none", "open", "stdout", "failed"}]
      /\ \A o \in 0 .. 2 : o \in Created(outers') => logs'[o] \in Opens(o)
      /\ phase' = IF "failed" \in {logs'[GatherOuter], logs'[RawOuter]}
                  THEN "failed" ELSE "polling"
  BY DEF Create
<1>8. outers' \subseteq 0 .. 2 BY <1>3, <1>4, ModesApart
<1>9. handled'.packet = NULL /\ handled'.by \subseteq outers'
  BY <1>5 DEF Handled, Nothing
<1>10. TypeOK' BY <1>1, <1>6, <1>7, <1>8, <1>9 DEF TypeOK
<1>11. RawLogOpened'
  <2> SUFFICES ASSUME phase' = "polling", RawOuter \in outers'
      PROVE logs'[RawOuter] = IF prefs.daemonize THEN "open" ELSE "stdout"
    BY DEF RawLogOpened, Create, prefsVars
  <2>1. RawOuter \in Created(outers') BY <1>3, <1>4, ModesApart
  <2>2. logs'[RawOuter] \in Opens(RawOuter) BY <1>7, <2>1 DEF RawOuter
  <2>3. logs'[RawOuter] # "failed" BY <1>7
  <2> QED BY <1>3, <2>2, <2>3 DEF Opens
<1> QED BY <1>1, <1>5, <1>10, <1>11
     DEF IInv, HandledLate, FilterExact, PayloadCaptured, RecordsAgree, RawComplete

(* A step that ends the program and changes nothing else.                      *)
LEMMA EndInv ==
    ASSUME IInv, phase = "parsed", phase' \in {"crashed", "failed"},
           UNCHANGED <<prefsVars, mLocal, outers, logs, handled>>
    PROVE  IInv'
<1>1. PrefsTypeOK' /\ RawSnaplenKept' /\ FiltersFilled' BY OptionsKept
<1>2. ~ Handled' BY DEF IInv, HandledLate, Handled, Nothing
<1>3. TypeOK' BY <1>1 DEF IInv, TypeOK
<1> QED BY <1>1, <1>2, <1>3
     DEF IInv, HandledLate, FilterExact, PayloadCaptured, RecordsAgree, RawLogOpened,
         RawComplete

LEMMA PollInv ==
    ASSUME IInv, Poll
    PROVE  IInv'
<1>1. PrefsTypeOK' /\ RawSnaplenKept' /\ FiltersFilled' BY OptionsKept DEF Poll
<1>2. /\ phase = "polling" /\ phase' \in {"polling", "crashed"}
      /\ UNCHANGED <<prefsVars, mLocal, outers, logs>>
  BY DEF Poll
<1>3. UNCHANGED <<prefs, given>> BY <1>2 DEF prefsVars
<1>4. PICK f \in Visible, stale \in StalePorts :
        \/ handled' = Nothing
        \/ handled' = handled
        \/ /\ Dissects(f, Captured(f))
           /\ handled' = [frame |-> f, caplen |-> Captured(f),
                          packet |-> Packet(f, Captured(f), stale),
                          by |-> TakenBy(Packet(f, Captured(f), stale))]
  BY DEF Poll
<1>0. f \in Frames BY FramesAssumption DEF Visible
<1>5. RawLogOpened' BY <1>2, <1>3 DEF IInv, RawLogOpened
<1>6. HandledLate' BY <1>2 DEF HandledLate
<1>7. CASE handled' = Nothing
  <2>1. ~ Handled' BY <1>7 DEF Handled, Nothing
  <2>2. TypeOK' BY <1>1, <1>2, <1>7 DEF IInv, TypeOK, Nothing
  <2> QED BY <1>1, <1>5, <1>6, <2>1, <2>2
       DEF IInv, FilterExact, PayloadCaptured, RecordsAgree, RawComplete
<1>8. CASE handled' = handled
  <2>1. TypeOK' BY <1>1, <1>2, <1>8 DEF IInv, TypeOK
  <2>2. PayloadCaptured' BY <1>8 DEF IInv, PayloadCaptured, Handled, PayloadLength, Nothing
  <2>3. RecordsAgree' BY <1>2, <1>8 DEF IInv, RecordsAgree, Handled, Nothing
  <2>4. RawComplete' BY <1>3, <1>8 DEF IInv, RawComplete, RawGiven, Handled, Nothing
  <2>5. FilterExact' BY <1>2, <1>3, <1>8, FilterKept DEF IInv
  <2> QED BY <1>1, <1>5, <1>6, <2>1, <2>2, <2>3, <2>4, <2>5 DEF IInv
<1>9. CASE /\ Dissects(f, Captured(f))
           /\ handled' = [frame |-> f, caplen |-> Captured(f),
                          packet |-> Packet(f, Captured(f), stale),
                          by |-> TakenBy(Packet(f, Captured(f), stale))]
  <2> DEFINE caplen == Captured(f)
             p == Packet(f, caplen, stale)
  <2>1. prefs.snaplen \in Int
    BY DEF IInv, TypeOK, PrefsTypeOK, PrefsType
  <2>2. /\ caplen \in Int /\ caplen <= f.len
        /\ prefs.snaplen = 2048 /\ f.len <= 2048 => caplen = f.len
    BY <1>0, <2>1, CapturedFacts
  <2>3. /\ handled'.frame = f /\ handled'.caplen = caplen
        /\ handled'.packet = p /\ handled'.by = TakenBy(p)
    BY <1>9
  <2>4. Dissects(f, caplen) BY <1>9
  <2>5. p.len_pack = IpLen(f, caplen) BY DEF Packet
  <2> HIDE DEF caplen
  <2>6. /\ PayloadLength(p) \in Int
        /\ p.len_data > 0 =>
              /\ p.off_data + p.len_data = p.len_pack
              /\ p.len_pack <= caplen - EthernetHeader
              /\ p.len_data <= PayloadLength(p)
    BY <1>0, <2>2, <2>4, PacketFacts
  <2>11. p \in NetPacket BY <1>0, <2>2, PacketType
  <2> HIDE DEF p
  <2>7. TypeOK'
    <3>1. handled'.by \subseteq outers' BY <1>2, <2>3 DEF TakenBy
    <3>2. handled'.packet \in NetPacket BY <2>3, <2>11
    <3> QED BY <1>1, <1>2, <3>1, <3>2 DEF IInv, TypeOK
  <2>8. PayloadCaptured'
    BY <2>3, <2>6 DEF PayloadCaptured, PayloadLength
  <2>9. RecordsAgree'
    <3>1. mLocal' = mLocal /\ outers' = outers BY <1>2
    <3> QED BY <2>3, <2>6, <3>1, TakenAgree DEF RecordsAgree
  <2>10. RawComplete'
    <3>1. RawGiven' => prefs.snaplen = 2048
      BY <1>3 DEF IInv, RawSnaplenKept, RawGiven
    <3> QED BY <2>2, <2>3, <2>5, <3>1 DEF RawComplete
  <2>12. FilterExact'
    <3> SUFFICES ASSUME FileWriter \in outers
        PROVE  FileWriter \in TakenBy(p) <=>
                 /\ PayloadLength(p) > 5
                 /\ \A a \in IgnoredAddresses : Masked(p.ip_src) # Masked(a)
                 /\ WatchedPorts = {} \/ p.th_dport \in WatchedPorts
      <4>1. IgnoredAddresses' = IgnoredAddresses /\ WatchedPorts' = WatchedPorts
        BY <1>3, EntriesKept DEF IgnoredAddresses, WatchedPorts
      <4> QED BY <1>2, <1>3, <2>3, <4>1 DEF FilterExact, Masked, PayloadLength
    <3>1. FileWriter \in TakenBy(p) <=> PayloadLength(p) > 5 /\ CanSave(p)
      BY DEF TakenBy, TakenByFileWriter, FileWriter, GatherOuter, RawOuter
    <3>2. PrefsTypeOK /\ FiltersFilled BY DEF IInv, TypeOK
    <3> QED BY <3>1, <3>2, CanSaveGiven
  <2> QED BY <1>1, <1>5, <1>6, <2>7, <2>8, <2>9, <2>10, <2>12 DEF IInv
<1> QED BY <1>4, <1>7, <1>8, <1>9

LEMMA StutterInv ==
    ASSUME IInv, UNCHANGED vars
    PROVE  IInv'
<1>1. PrefsTypeOK' /\ RawSnaplenKept' /\ FiltersFilled' BY OptionsKept DEF vars, prefsVars
<1>2. UNCHANGED <<prefs, given, phase, mLocal, outers, logs, handled>> BY DEF vars
<1>3. TypeOK' /\ HandledLate'
  BY <1>1, <1>2 DEF IInv, TypeOK, HandledLate, Handled, Nothing
<1>4. PayloadCaptured' /\ RecordsAgree'
  BY <1>2 DEF IInv, PayloadCaptured, RecordsAgree, Handled, Nothing, PayloadLength
<1>5. RawLogOpened' /\ RawComplete'
  BY <1>2 DEF IInv, RawLogOpened, RawComplete, RawGiven, Handled, Nothing
<1>6. FilterExact' BY <1>2, FilterKept DEF IInv
<1> QED BY <1>1, <1>3, <1>4, <1>5, <1>6 DEF IInv

------------------------------------------------------------------------------
(* Theorems.                                                                   *)

(* The inductive invariant of the capture path holds in every behaviour: for   *)
(* any command line, any defaults files, any frames and any interfaces.        *)
THEOREM Invariance == Spec => []IInv
<1>1. Init => IInv BY InitInv
<1>2. IInv /\ [Next]_vars => IInv'
  <2> SUFFICES ASSUME IInv, [Next]_vars PROVE IInv' OBVIOUS
  <2>1. CASE CommandOption /\ UNCHANGED <<mLocal, outers, logs, handled>>
    BY <2>1, CommandOptionInv
  <2>2. CASE EndOfOptions /\ UNCHANGED <<mLocal, outers, logs, handled>>
    <3>1. PrefsTypeOK' /\ RawSnaplenKept' /\ FiltersFilled'
      BY <2>2, OptionsKept DEF EndOfOptions, prefsVars
    <3> QED BY <2>2, <3>1, ParsingInv DEF EndOfOptions
  <2>3. CASE Reading BY <2>3, ConfigLineInv, EndOfFileInv DEF Reading
  <2>4. CASE CreateCrashes BY <2>4, EndInv DEF CreateCrashes
  <2>5. CASE Create BY <2>5, CreateInv
  <2>6. CASE CreateFails BY <2>6, EndInv DEF CreateFails
  <2>7. CASE Poll BY <2>7, PollInv
  <2>8. CASE UNCHANGED vars BY <2>8, StutterInv
  <2> QED BY <2>1, <2>2, <2>3, <2>4, <2>5, <2>6, <2>7, <2>8 DEF Next
<1> QED BY <1>1, <1>2, PTL DEF Spec

(* Every variable of the capture path keeps its type: among others, no option  *)
(* leaves an output mode, a port or a capture length the rest cannot use       *)
(* (Prefs::setOption).                                                         *)
THEOREM TypeCorrect == Spec => []TypeOK
<1>1. IInv => TypeOK BY DEF IInv
<1> QED BY <1>1, Invariance, PTL

(* The detail log holds a packet exactly when the first addresses and ports    *)
(* given with -c and -p, wherever they stand, let it through                   *)
(* (Prefs::setOption, DataSwitch::CanSave, FileWriter::Write).                 *)
THEOREM FilterExactHolds == Spec => []FilterExact
<1>1. IInv => FilterExact BY DEF IInv
<1> QED BY <1>1, Invariance, PTL

(* A payload that is written lies inside the captured bytes                    *)
(* (CSector::ether, RawOuter::Write).                                          *)
THEOREM PayloadCapturedHolds == Spec => []PayloadCaptured
<1>1. IInv => PayloadCaptured BY DEF IInv
<1> QED BY <1>1, Invariance, PTL

(* The records of FileWriter, GatherOuter and RawOuter agree on every packet   *)
(* (the Write methods of Output.cpp).                                          *)
THEOREM RecordsAgreeHolds == Spec => []RecordsAgree
<1>1. IInv => RecordsAgree BY DEF IInv
<1> QED BY <1>1, Invariance, PTL

(* A RawOuter that polls has its log (PortStat::Create).                       *)
THEOREM RawLogOpenedHolds == Spec => []RawLogOpened
<1>1. IInv => RawLogOpened BY DEF IInv
<1> QED BY <1>1, Invariance, PTL

(* Raw mode records whole payloads until a capture length is given             *)
(* (Prefs::setOption, case 'A').                                               *)
THEOREM RawCompleteHolds == Spec => []RawComplete
<1>1. IInv => RawComplete BY DEF IInv
<1> QED BY <1>1, Invariance, PTL
------------------------------------------------------------------------------
(* The end of the defaults files.                                              *)

(* A step takes a line from the innermost file, and may open one above it: the *)
(* files descend (Prefs::loadFromFile).                                        *)
LEMMA InnermostDescends ==
    ASSUME NEW S, NEW n \in Nat \ {0},
           NEW open \in Seq(Seq(S)), Len(open) = n,
           NEW below \in Seq(Seq(S)), Len(below) = n,
           Len(below[n]) < Len(open[n]),
           \A m \in 1 .. (n - 1) : below[m] = open[m],
           NEW next, next = below \/ \E lines \in Seq(S) : next = Append(below, lines)
    PROVE  Descends(open, next)
<1>1. n \in DOMAIN open BY LenProperties
<1>2. \A m \in 1 .. n : m \in DOMAIN next /\ next[m] = below[m]
  <2>1. CASE next = below BY <2>1, LenProperties
  <2>2. ASSUME NEW lines \in Seq(S), next = Append(below, lines)
        PROVE  \A m \in 1 .. n : m \in DOMAIN next /\ next[m] = below[m]
    <3>1. /\ next \in Seq(Seq(S)) /\ Len(next) = n + 1
          /\ \A m \in 1 .. n : next[m] = below[m]
      BY <2>2, AppendProperties
    <3>2. DOMAIN next = 1 .. (n + 1) BY <3>1, LenProperties
    <3> QED BY <3>1, <3>2
  <2> QED BY <2>1, <2>2
<1>3. next[n] = below[n] BY <1>2
<1>4. \A m \in 1 .. (n - 1) : m \in DOMAIN next /\ next[m] = open[m]
  <2>1. \A m \in 1 .. (n - 1) : m \in 1 .. n OBVIOUS
  <2> QED BY <1>2, <2>1
<1> QED BY <1>1, <1>3, <1>4 DEF Descends

LEMMA ConfigLineDescends ==
    ASSUME PrefsTypeOK, ConfigLine
    PROVE  Descends(files, files')
<1> DEFINE n == Len(files)
           line == Head(Innermost)
           below == [files EXCEPT ![n] = Unread(@)]
<1>1. files \in Seq(Seq(Options)) /\ files # <<>> /\ Innermost # <<>>
  BY DEF ConfigLine, PrefsTypeOK
<1>2. n \in Nat \ {0} BY <1>1, EmptySeq, LenProperties
<1>3. n \in 1 .. n BY <1>2
<1>4. Innermost \in Seq(Options) BY <1>1, <1>3, ElementOfSeq DEF Innermost
<1>5. /\ Unread(Innermost) \in Seq(Options) /\ Len(Innermost) \in Nat
      /\ Len(Unread(Innermost)) = Len(Innermost) - 1
  BY <1>1, <1>4, HeadTailProperties, LenProperties DEF Unread
<1>6. below = [files EXCEPT ![n] = Unread(Innermost)] BY DEF Innermost
<1>7. files' = below \/ files' = Opened(line.arg, below)
  BY DEF ConfigLine, SetOption
<1>8. Innermost = files[n] BY DEF Innermost
<1> HIDE DEF n, line, below
<1>9. /\ below \in Seq(Seq(Options)) /\ Len(below) = Len(files)
      /\ \A m \in 1 .. Len(files) :
            below[m] = IF m = n THEN Unread(Innermost) ELSE files[m]
  BY <1>1, <1>3, <1>5, <1>6, ExceptSeq DEF n
<1>10. Len(files) = n BY DEF n
<1>11. Len(below[n]) < Len(files[n])
  <2>1. below[n] = Unread(Innermost) BY <1>3, <1>9, <1>10
  <2> QED BY <1>5, <1>8, <2>1
<1>12. \A m \in 1 .. (n - 1) : below[m] = files[m]
  <2>1. \A m \in 1 .. (n - 1) : m \in 1 .. n /\ m # n BY <1>2
  <2> QED BY <1>9, <1>10, <2>1
<1>13. files' = below \/ \E lines \in Seq(Options) : files' = Append(below, lines)
  BY <1>7, OptionsAssumption DEF Opened
<1> QED BY <1>1, <1>2, <1>9, <1>10, <1>11, <1>12, <1>13, InnermostDescends

LEMMA EndOfFileDescends ==
    ASSUME PrefsTypeOK, EndOfFile
    PROVE  Descends(files, files')
<1>1. /\ files \in Seq(Seq(Options)) /\ files # <<>>
      /\ files' = SubSeq(files, 1, Len(files) - 1)
  BY DEF EndOfFile, Closed, PrefsTypeOK
<1> DEFINE n == Len(files)
<1>2. n \in Nat \ {0} /\ DOMAIN files = 1 .. n BY <1>1, EmptySeq, LenProperties
<1>3. /\ DOMAIN files' = 1 .. (n - 1)
      /\ \A m \in 1 .. (n - 1) : files'[m] = files[m]
  BY <1>1, <1>2
<1> HIDE DEF n
<1>4. n \in 1 .. n /\ n \notin 1 .. (n - 1) BY <1>2
<1> QED BY <1>2, <1>3, <1>4 DEF Descends

(* Every step that reads a defaults file brings the open files down, for any    *)
(* files, however they name each other, and any number of descriptors: no      *)
(* recursion of theirs is endless (Prefs::loadFromFile).                        *)
THEOREM FilesAlwaysDescend == Spec => FilesDescend
<1>1. TypeOK /\ TypeOK' /\ [Next]_vars =>
        [phase = "options" /\ files # <<>> =>
           Descends(files, files') /\ Len(files') <= MaxOpen]_vars
  <2> SUFFICES ASSUME TypeOK, TypeOK', Next, phase = "options", files # <<>>
               PROVE  Descends(files, files') /\ Len(files') <= MaxOpen
    OBVIOUS
  <2>1. PrefsTypeOK /\ Len(files') <= MaxOpen BY DEF TypeOK, PrefsTypeOK
  <2>2. ConfigLine \/ EndOfFile
    BY DEF Next, Reading, CommandOption, EndOfOptions, CreateCrashes, Create,
           CreateFails, Poll
  <2> QED BY <2>1, <2>2, ConfigLineDescends, EndOfFileDescends
<1> QED BY <1>1, TypeCorrect, PTL DEF Spec, FilesDescend
==============================================================================
