----------------------------- MODULE Config_proofs -----------------------------
(***************************************************************************)
(* Whatever the file, each setting that LoadConfig leaves behind is what   *)
(* the last line that assigns it says, and a file with a wrong line is     *)
(* refused.                                                                *)
(*                                                                         *)
(* The invariant says so of the lines read so far.  It also carries that   *)
(* the lines read that set some keys have a last one, which is where a     *)
(* file of any length gets its last line from.                             *)
(***************************************************************************)
EXTENDS Config, FiniteSetTheorems, TLAPS

Keys == Switches \cup {PRIORITY, RESERVE, REST}

\* The lines read so far that set one of the keys, and that n is the last of them.
Read(keys) == {n \in 1..line_num : file[n].type = "set" /\ file[n].key \in keys}
LastRead(keys, n) == n \in Read(keys) /\ \A m \in Read(keys) : m <= n

\* Each switch is as the last line that assigns it says.
SwitchesRead ==
  \A key \in Parsed :
    /\ Read(Assigning(key)) = {} => switch[key] = FALSE
    /\ \A n \in Read(Assigning(key)) :
         LastRead(Assigning(key), n) => switch[key] = (file[n].value = "true")

Cut(tokens) == {i \in DOMAIN tokens : i <= SLOTS}

PriorityRead ==
  \A n \in Read({PRIORITY}) : LastRead({PRIORITY}, n) =>
    /\ shield_priority_count = Cardinality(Cut(file[n].value))
    /\ \A i \in 1..shield_priority_count : shield_priority[i] = file[n].value[i]

ReserveRead ==
  \A n \in Read({RESERVE}) : LastRead({RESERVE}, n) => reserve = file[n].value % U32

\* Of a line's value the parser needs to know that a list is a list and an
\* amount a number.
LineOK(l) ==
  /\ l.type \in {"blank", "bad", "set"}
  /\ l.type = "set" =>
       /\ l.key \in Keys
       /\ l.key = PRIORITY => \E S : l.value \in Seq(S)
       /\ l.key = RESERVE => l.value \in Nat

FileOK ==
  /\ Len(file) \in Nat /\ DOMAIN file = 1..Len(file)
  /\ \A n \in DOMAIN file : LineOK(file[n])

LastOne ==
  \A keys \in SUBSET Keys : Read(keys) # {} => \E n \in Read(keys) : LastRead(keys, n)
NoneRefused == \A n \in 1..line_num : ~Refused(file[n])
ReadAll == result = "loaded" => line_num = Len(file)

\* The inductive invariant.
ConfigInv ==
  /\ TypeOK /\ FileOK
  /\ result # "failed" =>
       LastOne /\ NoneRefused /\ SwitchesRead /\ PriorityRead /\ ReserveRead
  /\ ReadAll

-----------------------------------------------------------------------------
\* Lines

LEMMA LineIs == ASSUME NEW l \in LineType PROVE LineOK(l)
<1>1. l.type = "set" /\ l.key = PRIORITY => l.value \in Seq(STRING)
  BY DEF LineType, Switches, Parsed, Unparsed, PRIORITY, RESERVE, REST
<1>2. l.type = "set" /\ l.key = RESERVE => l.value \in Nat
  BY DEF LineType, Switches, Parsed, Unparsed, PRIORITY, RESERVE, REST
<1>3. l.type \in {"blank", "bad", "set"} /\ (l.type = "set" => l.key \in Keys)
  BY DEF LineType, Keys
<1> QED BY <1>1, <1>2, <1>3 DEF LineOK

LEMMA DefaultLines == \A n \in 1..14 : LineOK(CreateDefaultConfig[n])
<1>1. LineOK([type |-> "blank"]) /\ LineOK([type |-> "set", key |-> REST])
  BY DEF LineOK, Keys, PRIORITY, RESERVE, REST
<1>2. \A key \in Switches : LineOK(Off(key))
  BY DEF Off, Put, LineOK, Keys, Switches, Parsed, Unparsed, PRIORITY, RESERVE
<1>3. LineOK(Put(PRIORITY, DefaultShields))
  <2>1. DefaultShields \in Seq({"SHIELD_4H", "SHIELD_8H", "SHIELD_12H", "SHIELD_1D"})
    BY DEF DefaultShields
  <2> QED BY <2>1 DEF Put, LineOK, Keys, PRIORITY, RESERVE
<1>4. LineOK(Put(RESERVE, 10000000))
  BY DEF Put, LineOK, Keys, PRIORITY, RESERVE
<1>5. \A n \in 1..14 :
        \/ n = 1 \/ n = 2 \/ n = 3 \/ n = 4 \/ n = 5 \/ n = 6 \/ n = 7
        \/ n = 8 \/ n = 9 \/ n = 10 \/ n = 11 \/ n = 12 \/ n = 13 \/ n = 14
  OBVIOUS
<1>6. /\ CreateDefaultConfig[1] = [type |-> "blank"]
      /\ CreateDefaultConfig[2] = [type |-> "set", key |-> REST]
      /\ \E key \in Switches : CreateDefaultConfig[3] = Off(key)
      /\ \E key \in Switches : CreateDefaultConfig[4] = Off(key)
      /\ \E key \in Switches : CreateDefaultConfig[5] = Off(key)
      /\ \E key \in Switches : CreateDefaultConfig[6] = Off(key)
      /\ \E key \in Switches : CreateDefaultConfig[7] = Off(key)
      /\ CreateDefaultConfig[8] = Put(PRIORITY, DefaultShields)
  BY DEF CreateDefaultConfig, Switches, Parsed, Unparsed
<1>7. /\ \E key \in Switches : CreateDefaultConfig[9] = Off(key)
      /\ \E key \in Switches : CreateDefaultConfig[10] = Off(key)
      /\ \E key \in Switches : CreateDefaultConfig[11] = Off(key)
      /\ \E key \in Switches : CreateDefaultConfig[12] = Off(key)
      /\ \E key \in Switches : CreateDefaultConfig[13] = Off(key)
      /\ CreateDefaultConfig[14] = Put(RESERVE, 10000000)
  BY DEF CreateDefaultConfig, Switches, Parsed, Unparsed
<1> QED BY <1>1, <1>2, <1>3, <1>4, <1>5, <1>6, <1>7

LEMMA InitFile == Init => FileOK
<1> SUFFICES ASSUME Init PROVE FileOK
  OBVIOUS
<1>1. CASE file = CreateDefaultConfig
  <2>1. Len(file) = 14 /\ DOMAIN file = 1..14
    BY <1>1 DEF CreateDefaultConfig
  <2> QED BY <1>1, <2>1, DefaultLines DEF FileOK
<1>2. CASE \E n \in 0..MaxLines : file \in [1..n -> Lines]
  <2>1. PICK n \in 0..MaxLines : file \in [1..n -> Lines]
    BY <1>2
  <2>2. n \in Nat /\ file \in Seq(Lines) /\ Len(file) = n /\ DOMAIN file = 1..n
    BY <2>1, ConfigAssumption
  <2>3. \A i \in DOMAIN file : file[i] \in LineType
    BY <2>1, <2>2, ConfigAssumption
  <2> QED BY <2>2, <2>3, LineIs DEF FileOK
<1> QED BY <1>1, <1>2 DEF Init

\* A list is cut at the slots, and the cut is as long as its cardinality.
LEMMA CutIs ==
  ASSUME NEW S, NEW tokens \in Seq(S)
  PROVE  /\ Cardinality(Cut(tokens)) \in 0..SLOTS
         /\ Cut(tokens) = 1..Cardinality(Cut(tokens))
         /\ Cut(tokens) \subseteq DOMAIN tokens
<1> DEFINE n == IF Len(tokens) <= SLOTS THEN Len(tokens) ELSE SLOTS
<1>1. Len(tokens) \in Nat /\ DOMAIN tokens = 1..Len(tokens) /\ SLOTS \in Nat
  BY ConfigAssumption
<1>2. n \in Nat /\ n <= SLOTS /\ Cut(tokens) = 1..n
  BY <1>1 DEF Cut
<1> HIDE DEF n
<1>3. Cardinality(1..n) = n
  BY <1>2, FS_Interval
<1>4. Cardinality(Cut(tokens)) = n
  BY <1>2, <1>3
<1>5. Cut(tokens) \subseteq DOMAIN tokens
  BY DEF Cut
<1> QED BY <1>1, <1>2, <1>4, <1>5

\* What ParseShieldPriority stores: all of a list that is right, or less.
LEMMA Stored ==
  ASSUME TypeOK, NEW S, NEW tokens \in Seq(S), ParseShieldPriority(tokens)
  PROVE  /\ DOMAIN shield_priority' = 1..SLOTS
         /\ shield_priority_count' \in 0..SLOTS
         /\ \A i \in 1..shield_priority_count' : shield_priority'[i] \in Shields
         /\ Unknown(tokens) = {} =>
              /\ shield_priority_count' = Cardinality(Cut(tokens))
              /\ \A i \in 1..shield_priority_count' : shield_priority'[i] = tokens[i]
<1> DEFINE stored == {i \in Looked(tokens) : \A j \in Unknown(tokens) : i < j}
<1>1. /\ shield_priority' = [i \in DOMAIN shield_priority |->
                               IF i \in stored THEN tokens[i] ELSE shield_priority[i]]
      /\ shield_priority_count' = IF Unknown(tokens) = {} THEN Cardinality(stored)
                                    ELSE shield_priority_count
  BY DEF ParseShieldPriority
<1>2. /\ DOMAIN shield_priority = 1..SLOTS /\ shield_priority_count \in 0..SLOTS
      /\ \A i \in 1..shield_priority_count : shield_priority[i] \in Shields
      /\ SLOTS \in Nat
  BY ConfigAssumption DEF TypeOK
<1>3. /\ Looked(tokens) = Cut(tokens)
      /\ \A i \in Looked(tokens) : i \in Nat /\ (tokens[i] \in Shields \/ i \in Unknown(tokens))
      /\ Unknown(tokens) \subseteq Looked(tokens)
  BY DEF Looked, Cut, Unknown
<1>4. \A i \in stored : tokens[i] \in Shields
  <2> SUFFICES ASSUME NEW i \in stored PROVE tokens[i] \in Shields
    OBVIOUS
  <2>1. i \in Looked(tokens) /\ \A j \in Unknown(tokens) : i < j
    OBVIOUS
  <2>2. ~ (i < i)
    BY <1>3, <2>1
  <2> QED BY <1>3, <2>1, <2>2
<1>5. CASE Unknown(tokens) = {}
  <2>1. stored = Cut(tokens) /\ shield_priority_count' = Cardinality(Cut(tokens))
    BY <1>1, <1>3, <1>5
  <2>2. /\ Cardinality(Cut(tokens)) \in 0..SLOTS
        /\ Cut(tokens) = 1..Cardinality(Cut(tokens))
    BY CutIs
  <2>3. \A i \in 1..shield_priority_count' :
          i \in 1..SLOTS /\ i \in stored /\ shield_priority'[i] = tokens[i]
    BY <1>1, <1>2, <2>1, <2>2
  <2> HIDE DEF stored
  <2> QED BY <1>1, <1>2, <1>4, <2>1, <2>2, <2>3
<1>6. CASE Unknown(tokens) # {}
  <2>1. shield_priority_count' = shield_priority_count
    BY <1>1, <1>6
  <2> HIDE DEF stored
  <2>2. \A i \in 1..SLOTS :
          (shield_priority'[i] = tokens[i] /\ i \in stored) \/ shield_priority'[i] = shield_priority[i]
    BY <1>1, <1>2
  <2> QED BY <1>1, <1>2, <1>4, <1>6, <2>1, <2>2
<1> QED BY <1>5, <1>6

-----------------------------------------------------------------------------
\* Steps

LEMMA KeysDiffer ==
  /\ PRIORITY \notin Switches /\ RESERVE \notin Switches /\ REST \notin Switches
  /\ PRIORITY # RESERVE /\ PRIORITY # REST /\ RESERVE # REST
  /\ Parsed \subseteq Switches /\ Switches \subseteq Keys
BY DEF PRIORITY, RESERVE, REST, Switches, Parsed, Unparsed, Keys

\* A line read becomes the last one of the keys it is one of, and of no others.
LEMMA Advance ==
  ASSUME TypeOK, FileOK, line_num < Len(file), line_num' = line_num + 1, file' = file,
         NEW keys
  PROVE  /\ Line.type = "set" /\ Line.key \in keys =>
              /\ Read(keys)' = Read(keys) \cup {line_num + 1}
              /\ \A n : LastRead(keys, n)' <=> n = line_num + 1
         /\ ~(Line.type = "set" /\ Line.key \in keys) =>
              /\ Read(keys)' = Read(keys)
              /\ \A n : LastRead(keys, n)' <=> LastRead(keys, n)
<1>1. /\ line_num \in Nat /\ line_num + 1 \in DOMAIN file /\ LineOK(Line)
      /\ 1..(line_num + 1) = 1..line_num \cup {line_num + 1}
  BY DEF TypeOK, FileOK, Line
<1>2. \A n \in Read(keys) : n \in Nat /\ n <= line_num
  BY <1>1 DEF Read
<1>3. CASE Line.type = "set" /\ Line.key \in keys
  <2>1. Read(keys)' = Read(keys) \cup {line_num + 1}
    BY <1>1, <1>3 DEF Read, Line
  <2>2. \A n : LastRead(keys, n)' <=> n = line_num + 1
    BY <1>1, <1>2, <2>1 DEF LastRead
  <2> QED BY <1>3, <2>1, <2>2
<1>4. CASE ~(Line.type = "set" /\ Line.key \in keys)
  <2>1. Read(keys)' = Read(keys)
    BY <1>1, <1>4 DEF Read, Line
  <2> QED BY <1>4, <2>1 DEF LastRead
<1> QED BY <1>3, <1>4

LEMMA Init_ConfigInv == Init => ConfigInv
<1> SUFFICES ASSUME Init PROVE ConfigInv
  OBVIOUS
<1>1. FileOK
  BY InitFile
<1>2. TypeOK
  <2>1. Len(file) \in Nat /\ line_num \in 0..Len(file)
    BY <1>1 DEF Init, FileOK
  <2>2. switch \in [Switches -> BOOLEAN] /\ DOMAIN shield_priority = 1..SLOTS
    BY DEF Init
  <2>3. /\ shield_priority_count = 0 /\ 0 \in 0..SLOTS /\ 1..0 = {}
        /\ reserve \in 0..(U32 - 1)
    BY ConfigAssumption DEF Init
  <2> QED BY <2>1, <2>2, <2>3 DEF Init, TypeOK
<1>3. \A keys : Read(keys) = {}
  BY DEF Init, Read
<1>4. LastOne /\ PriorityRead /\ ReserveRead
  BY <1>3 DEF LastOne, PriorityRead, ReserveRead
<1>5. SwitchesRead
  BY <1>3, KeysDiffer DEF SwitchesRead, Init
<1>6. NoneRefused /\ ReadAll
  BY DEF NoneRefused, ReadAll, Init
<1> QED BY <1>1, <1>2, <1>4, <1>5, <1>6 DEF ConfigInv

\* What of the settings a line changes.
LEMMA ReadLineType ==
  ASSUME ConfigInv, ReadLine
  PROVE  TypeOK'
<1>1. LineOK(Line) /\ line_num + 1 \in 0..Len(file)
  BY DEF ConfigInv, TypeOK, FileOK, ReadLine, Line
<1>2. CASE SetsSwitch(Line)
  <2>1. switch' \in [Switches -> BOOLEAN]
    BY <1>2 DEF SetsSwitch, SetSwitch, ConfigInv, TypeOK
  <2> QED BY <1>1, <1>2, <2>1 DEF ReadLine, SetsSwitch, ConfigInv, TypeOK
<1>3. CASE SetsPriority(Line)
  <2>1. PICK S : Line.value \in Seq(S)
    BY <1>1, <1>3 DEF SetsPriority, LineOK
  <2>2. /\ DOMAIN shield_priority' = 1..SLOTS
        /\ shield_priority_count' \in 0..SLOTS
        /\ \A i \in 1..shield_priority_count' : shield_priority'[i] \in Shields
    BY <1>3, <2>1, Stored DEF SetsPriority, ConfigInv
  <2> QED BY <1>1, <1>3, <2>2 DEF ReadLine, SetsPriority, ConfigInv, TypeOK
<1>4. CASE SetsReserve(Line)
  <2>1. reserve' \in 0..(U32 - 1)
    BY <1>1, <1>4, ConfigAssumption DEF SetsReserve, LineOK
  <2> QED BY <1>1, <1>4, <2>1 DEF ReadLine, SetsReserve, ConfigInv, TypeOK
<1>5. CASE SetsNothing(Line)
  BY <1>1, <1>5 DEF ReadLine, SetsNothing, settings, ConfigInv, TypeOK
<1> QED BY <1>2, <1>3, <1>4, <1>5 DEF ReadLine

LEMMA ReadLineSwitches ==
  ASSUME ConfigInv, ReadLine
  PROVE  SwitchesRead'
<1>1. /\ line_num < Len(file) /\ line_num' = line_num + 1 /\ file' = file
      /\ TypeOK /\ FileOK /\ SwitchesRead
  BY DEF ReadLine, ConfigInv
<1> SUFFICES ASSUME NEW key \in Parsed, NEW keys, keys = Assigning(key)
             PROVE  /\ Read(keys)' = {} => switch'[key] = FALSE
                    /\ \A n \in Read(keys)' : LastRead(keys, n)' =>
                         switch'[key] = (file[n].value = "true")
  BY <1>1 DEF SwitchesRead
<1>2. /\ Read(keys) = {} => switch[key] = FALSE
      /\ \A n \in Read(keys) : LastRead(keys, n) => switch[key] = (file[n].value = "true")
  BY <1>1 DEF SwitchesRead
<1>3. /\ key \in Switches /\ key \in DOMAIN switch /\ keys \subseteq Switches
      /\ \A k : k \in keys <=> k \in Parsed /\ Target(k) = key
  BY <1>1, KeysDiffer DEF TypeOK, Assigning
<1>4. CASE Line.type = "set" /\ Line.key \in keys
  <2>1. switch' = [switch EXCEPT ![key] = (Line.value = "true")]
    BY <1>3, <1>4, KeysDiffer DEF ReadLine, SetsSwitch, SetsPriority, SetsReserve,
       SetsNothing, SetSwitch
  <2>2. switch'[key] = (file[line_num + 1].value = "true")
    BY <1>3, <2>1 DEF Line
  <2>3. Read(keys)' # {} /\ \A n : LastRead(keys, n)' <=> n = line_num + 1
    BY <1>1, <1>4, Advance
  <2> QED BY <2>2, <2>3
<1>5. CASE ~(Line.type = "set" /\ Line.key \in keys)
  <2>1. switch'[key] = switch[key]
    <3>1. CASE ~SetsSwitch(Line)
      BY <3>1 DEF ReadLine, SetsPriority, SetsReserve, SetsNothing, settings
    <3>2. CASE SetsSwitch(Line)
      <4>1. Line.key \in Parsed => Target(Line.key) # key
        BY <1>3, <1>5, <3>2 DEF SetsSwitch
      <4> QED BY <1>3, <3>2, <4>1 DEF SetsSwitch, SetSwitch
    <3> QED BY <3>1, <3>2
  <2>2. Read(keys)' = Read(keys) /\ \A n : LastRead(keys, n)' <=> LastRead(keys, n)
    BY <1>1, <1>5, Advance
  <2> QED BY <1>1, <1>2, <2>1, <2>2
<1> QED BY <1>4, <1>5

LEMMA ReadLinePriority ==
  ASSUME ConfigInv, ReadLine
  PROVE  PriorityRead'
<1>1. /\ line_num < Len(file) /\ line_num' = line_num + 1 /\ file' = file
      /\ TypeOK /\ FileOK /\ PriorityRead
  BY DEF ReadLine, ConfigInv
<1>2. CASE Line.type = "set" /\ Line.key = PRIORITY
  <2>1. LineOK(Line) /\ ParseShieldPriority(Line.value) /\ Unknown(Line.value) = {}
    BY <1>1, <1>2, KeysDiffer DEF ReadLine, Refused, SetsSwitch, SetsPriority,
       SetsReserve, SetsNothing, TypeOK, FileOK, Line
  <2>2. PICK S : Line.value \in Seq(S)
    BY <1>2, <2>1 DEF LineOK
  <2>3. /\ shield_priority_count' = Cardinality(Cut(Line.value))
        /\ \A i \in 1..shield_priority_count' : shield_priority'[i] = Line.value[i]
    BY <1>1, <2>1, <2>2, Stored
  <2>4. \A n : LastRead({PRIORITY}, n)' => n = line_num + 1
    BY <1>1, <1>2, Advance
  <2> QED BY <1>1, <2>3, <2>4 DEF PriorityRead, Line
<1>3. CASE ~(Line.type = "set" /\ Line.key = PRIORITY)
  <2>1. UNCHANGED <<shield_priority, shield_priority_count>>
    BY <1>3 DEF ReadLine, SetsSwitch, SetsPriority, SetsReserve, SetsNothing, settings
  <2>2. /\ Read({PRIORITY})' = Read({PRIORITY})
        /\ \A n : LastRead({PRIORITY}, n)' <=> LastRead({PRIORITY}, n)
    BY <1>1, <1>3, Advance
  <2> QED BY <1>1, <2>1, <2>2 DEF PriorityRead
<1> QED BY <1>2, <1>3

LEMMA ReadLineReserve ==
  ASSUME ConfigInv, ReadLine
  PROVE  ReserveRead'
<1>1. /\ line_num < Len(file) /\ line_num' = line_num + 1 /\ file' = file
      /\ TypeOK /\ FileOK /\ ReserveRead
  BY DEF ReadLine, ConfigInv
<1>2. CASE Line.type = "set" /\ Line.key = RESERVE
  <2>1. reserve' = Line.value % U32
    BY <1>2, KeysDiffer DEF ReadLine, SetsSwitch, SetsPriority, SetsReserve, SetsNothing
  <2>2. \A n : LastRead({RESERVE}, n)' => n = line_num + 1
    BY <1>1, <1>2, Advance
  <2> QED BY <1>1, <2>1, <2>2 DEF ReserveRead, Line
<1>3. CASE ~(Line.type = "set" /\ Line.key = RESERVE)
  <2>1. UNCHANGED reserve
    BY <1>3 DEF ReadLine, SetsSwitch, SetsPriority, SetsReserve, SetsNothing, settings
  <2>2. /\ Read({RESERVE})' = Read({RESERVE})
        /\ \A n : LastRead({RESERVE}, n)' <=> LastRead({RESERVE}, n)
    BY <1>1, <1>3, Advance
  <2> QED BY <1>1, <2>1, <2>2 DEF ReserveRead
<1> QED BY <1>2, <1>3

LEMMA ReadLineInv == ASSUME ConfigInv, ReadLine PROVE ConfigInv'
<1>1. /\ line_num < Len(file) /\ line_num' = line_num + 1 /\ file' = file
      /\ result' = result /\ result = "reading" /\ ~Refused(Line)
      /\ TypeOK /\ FileOK /\ LastOne /\ NoneRefused
  BY DEF ReadLine, ConfigInv
<1>2. LastOne'
  <2> SUFFICES ASSUME NEW keys \in SUBSET Keys, Read(keys)' # {}
               PROVE  \E n \in Read(keys)' : LastRead(keys, n)'
    BY DEF LastOne
  <2>1. CASE Line.type = "set" /\ Line.key \in keys
    BY <1>1, <2>1, Advance
  <2>2. CASE ~(Line.type = "set" /\ Line.key \in keys)
    <3>1. /\ Read(keys)' = Read(keys)
          /\ \A n : LastRead(keys, n)' <=> LastRead(keys, n)
      BY <1>1, <2>2, Advance
    <3> QED BY <1>1, <3>1 DEF LastOne
  <2> QED BY <2>1, <2>2
<1>3. NoneRefused'
  <2>1. line_num \in Nat /\ \A n \in 1..(line_num + 1) : n \in 1..line_num \/ n = line_num + 1
    BY <1>1 DEF TypeOK, FileOK
  <2>2. \A n \in 1..(line_num + 1) : ~Refused(file[n])
    BY <1>1, <2>1 DEF NoneRefused, Line
  <2> QED BY <1>1, <2>2 DEF NoneRefused, Refused, Unknown, Looked
<1>4. FileOK' /\ ReadAll'
  BY <1>1 DEF FileOK, ReadAll
<1> QED BY <1>2, <1>3, <1>4, ReadLineType, ReadLineSwitches, ReadLinePriority,
        ReadLineReserve DEF ConfigInv

LEMMA RefuseLineInv == ASSUME ConfigInv, RefuseLine PROVE ConfigInv'
<1>1. /\ line_num < Len(file) /\ line_num' = line_num + 1 /\ file' = file
      /\ result' = "failed" /\ TypeOK /\ FileOK
  BY DEF RefuseLine, ConfigInv
<1>2. LineOK(Line) /\ line_num + 1 \in 0..Len(file)
  BY <1>1 DEF TypeOK, FileOK, Line
<1>3. CASE Line.type = "set" /\ Line.key = PRIORITY
  <2>1. PICK S : Line.value \in Seq(S)
    BY <1>2, <1>3 DEF LineOK
  <2>2. /\ DOMAIN shield_priority' = 1..SLOTS
        /\ shield_priority_count' \in 0..SLOTS
        /\ \A i \in 1..shield_priority_count' : shield_priority'[i] \in Shields
    BY <1>1, <1>3, <2>1, Stored DEF RefuseLine
  <2> QED BY <1>1, <1>2, <1>3, <2>2 DEF RefuseLine, ConfigInv, TypeOK, FileOK, ReadAll
<1>4. CASE ~(Line.type = "set" /\ Line.key = PRIORITY)
  BY <1>1, <1>2, <1>4 DEF RefuseLine, settings, ConfigInv, TypeOK, FileOK, ReadAll
<1> QED BY <1>3, <1>4

LEMMA SameInv ==
  ASSUME ConfigInv, UNCHANGED <<file, line_num, settings>>,
         \/ result' = result
         \/ result = "reading" /\ result' = "loaded" /\ line_num = Len(file)
  PROVE  ConfigInv'
<1>1. TypeOK' /\ FileOK' /\ ReadAll'
  BY DEF ConfigInv, TypeOK, FileOK, ReadAll, settings
<1>2. \A keys : Read(keys)' = Read(keys) /\ \A n : LastRead(keys, n)' <=> LastRead(keys, n)
  BY DEF Read, LastRead, settings
<1>3. ASSUME result' # "failed"
      PROVE  LastOne' /\ NoneRefused' /\ SwitchesRead' /\ PriorityRead' /\ ReserveRead'
  <2>1. result # "failed" /\ LastOne /\ NoneRefused /\ SwitchesRead /\ PriorityRead /\ ReserveRead
    BY <1>3 DEF ConfigInv
  <2>3. LastOne'
    BY <1>2, <2>1 DEF LastOne
  <2>4. SwitchesRead'
    BY <1>2, <2>1 DEF SwitchesRead, settings
  <2>5. PriorityRead' /\ ReserveRead'
    BY <1>2, <2>1 DEF PriorityRead, ReserveRead, settings
  <2>6. NoneRefused'
    BY <2>1 DEF NoneRefused, Refused, Unknown, Looked
  <2> QED BY <2>3, <2>4, <2>5, <2>6
<1> QED BY <1>1, <1>3 DEF ConfigInv

-----------------------------------------------------------------------------
\* Theorems

\* Each setting is what the last line read so far that assigns it says, for every
\* file, list of shields, number of slots and width of an amount.
THEOREM ConfigInvariant == Spec => []ConfigInv
<1>1. ConfigInv /\ [Next]_vars => ConfigInv'
  <2> SUFFICES ASSUME ConfigInv, [Next]_vars PROVE ConfigInv'
    OBVIOUS
  <2>1. CASE ReadLine
    BY <2>1, ReadLineInv
  <2>2. CASE RefuseLine
    BY <2>2, RefuseLineInv
  <2>3. CASE EndOfFile
    BY <2>3, SameInv DEF EndOfFile
  <2>4. CASE UNCHANGED vars
    BY <2>4, SameInv DEF vars
  <2> QED BY <2>1, <2>2, <2>3, <2>4 DEF Next
<1> QED BY Init_ConfigInv, <1>1, PTL DEF Spec

\* The count of the list of shields never passes the array that holds it, and
\* only shields are in the list.
THEOREM TypeCorrect == Spec => []TypeOK
<1>1. ConfigInv => TypeOK
  BY DEF ConfigInv
<1> QED BY ConfigInvariant, <1>1, PTL

\* At the end of the file the lines read are the lines of the file, and its
\* last line about a key is the one that Max finds.
LEMMA AtTheEnd ==
  ASSUME ConfigInv, Loaded, NEW keys \in SUBSET Keys
  PROVE  /\ Read(keys) = Setting(keys)
         /\ Setting(keys) # {} =>
              /\ Max(Setting(keys)) \in Read(keys) /\ LastRead(keys, Max(Setting(keys)))
              /\ LineOK(file[Max(Setting(keys))])
<1>1. Read(keys) = Setting(keys)
  BY DEF ConfigInv, ReadAll, Loaded, FileOK, Read, Setting
<1>2. ASSUME Setting(keys) # {}
      PROVE  /\ Max(Setting(keys)) \in Read(keys) /\ LastRead(keys, Max(Setting(keys)))
             /\ LineOK(file[Max(Setting(keys))])
  <2>1. PICK n \in Read(keys) : LastRead(keys, n)
    BY <1>1, <1>2 DEF ConfigInv, LastOne, Loaded
  <2>2. Read(keys) \subseteq Nat /\ \A m \in Read(keys) : LineOK(file[m])
    BY DEF ConfigInv, FileOK, TypeOK, Read
  <2>3. n \in Setting(keys) /\ \A m \in Setting(keys) : n >= m
    BY <1>1, <2>1, <2>2 DEF LastRead
  <2>4. Max(Setting(keys)) \in Setting(keys) /\ \A m \in Setting(keys) : Max(Setting(keys)) >= m
    BY <2>3 DEF Max
  <2>5. LastRead(keys, Max(Setting(keys)))
    BY <1>1, <2>2, <2>4 DEF LastRead
  <2> QED BY <1>1, <2>2, <2>4, <2>5
<1> QED BY <1>1, <1>2

\* Each switch is as the last line that assigns it says (ParserConfig).
THEOREM SwitchesAsWrittenAlways == Spec => []SwitchesAsWritten
<1>1. ConfigInv => SwitchesAsWritten
  <2> SUFFICES ASSUME ConfigInv, Loaded, NEW key \in Parsed, NEW keys, keys = Assigning(key)
               PROVE  switch[key] = Asked(keys)
    BY DEF SwitchesAsWritten
  <2>1. keys \in SUBSET Keys
    BY KeysDiffer DEF Assigning
  <2>2. /\ Read(keys) = {} => switch[key] = FALSE
        /\ \A n \in Read(keys) : LastRead(keys, n) => switch[key] = (file[n].value = "true")
    BY DEF ConfigInv, Loaded, SwitchesRead
  <2>3. CASE Setting(keys) = {}
    BY <2>1, <2>2, <2>3, AtTheEnd DEF Asked
  <2>4. CASE Setting(keys) # {}
    <3>1. Max(Setting(keys)) \in Read(keys) /\ LastRead(keys, Max(Setting(keys)))
      BY <2>1, <2>4, AtTheEnd
    <3>2. switch[key] = (LastValue(keys) = "true")
      BY <2>2, <3>1 DEF LastValue
    <3> QED BY <2>4, <3>2 DEF Asked
  <2> QED BY <2>3, <2>4
<1> QED BY ConfigInvariant, <1>1, PTL

\* The list of shields is that of the last line about it, cut at the slots.
THEOREM PriorityAsWrittenAlways == Spec => []PriorityAsWritten
<1>1. ConfigInv => PriorityAsWritten
  <2> SUFFICES ASSUME ConfigInv, Loaded, Setting({PRIORITY}) # {}
               PROVE  /\ shield_priority_count = Cardinality(Cut(LastValue({PRIORITY})))
                      /\ \A i \in 1..shield_priority_count :
                           shield_priority[i] = LastValue({PRIORITY})[i]
    BY DEF PriorityAsWritten, Cut
  <2>1. /\ Max(Setting({PRIORITY})) \in Read({PRIORITY})
        /\ LastRead({PRIORITY}, Max(Setting({PRIORITY})))
    BY AtTheEnd DEF Keys
  <2> QED BY <2>1 DEF ConfigInv, Loaded, PriorityRead, LastValue
<1> QED BY ConfigInvariant, <1>1, PTL

\* The reserve is that of the last line about it if it fits, and less if not.
THEOREM ReserveAsWrittenAlways == Spec => []ReserveAsWritten
<1>1. ConfigInv => ReserveAsWritten
  <2> SUFFICES ASSUME ConfigInv, Loaded, Setting({RESERVE}) # {}
               PROVE  IF LastValue({RESERVE}) < U32 THEN reserve = LastValue({RESERVE})
                        ELSE reserve < LastValue({RESERVE})
    BY DEF ReserveAsWritten
  <2>1. /\ Max(Setting({RESERVE})) \in Read({RESERVE})
        /\ LastRead({RESERVE}, Max(Setting({RESERVE})))
        /\ LineOK(file[Max(Setting({RESERVE}))])
    BY AtTheEnd DEF Keys
  <2>2. LastValue({RESERVE}) \in Nat
    BY <2>1, KeysDiffer DEF LineOK, Read, LastValue
  <2>3. reserve = LastValue({RESERVE}) % U32
    BY <2>1 DEF ConfigInv, Loaded, ReserveRead, LastValue
  <2>4. \A v \in Nat : IF v < U32 THEN v % U32 = v ELSE v % U32 < v
    BY ConfigAssumption
  <2> QED BY <2>2, <2>3, <2>4
<1> QED BY ConfigInvariant, <1>1, PTL

\* Each setting of a loaded file is what the last line that assigns it says; a
\* line about shield_always_on assigns protection.enabled and no line assigns
\* shield_always_on (config.c:205).
THEOREM SettingsAsWrittenAlways == Spec => []SettingsAsWritten
BY SwitchesAsWrittenAlways, PriorityAsWrittenAlways, ReserveAsWrittenAlways, PTL
   DEF SettingsAsWritten

\* A file with a wrong line anywhere never starts the bot.
THEOREM NothingWrongLoadedAlways == Spec => []NothingWrongLoaded
<1>1. ConfigInv => NothingWrongLoaded
  <2> SUFFICES ASSUME ConfigInv, Loaded, NEW n \in DOMAIN file
               PROVE  /\ file[n].type # "bad"
                      /\ file[n].type = "set" /\ file[n].key = PRIORITY =>
                           \A i \in DOMAIN file[n].value :
                             i <= SLOTS => file[n].value[i] \in Shields
                      /\ file[n].type = "set" /\ file[n].key = "cargo_ship.auto_trade" =>
                           file[n].value \in {"true", "false"}
    BY DEF NothingWrongLoaded
  <2>1. ~Refused(file[n])
    BY DEF ConfigInv, Loaded, NoneRefused, ReadAll, FileOK
  <2> QED BY <2>1 DEF Refused, Unknown, Looked
<1> QED BY ConfigInvariant, <1>1, PTL

-----------------------------------------------------------------------------
\* The generated file

\* The parser knows every name the writer uses.
LEMMA DefaultList ==
  /\ DefaultShields \in Seq(Shields) /\ DOMAIN DefaultShields = 1..4
  /\ Unknown(DefaultShields) = {}
<1>0. /\ "SHIELD_4H" \in Shields /\ "SHIELD_8H" \in Shields
      /\ "SHIELD_12H" \in Shields /\ "SHIELD_1D" \in Shields
  BY DEF Shields
<1>1. DefaultShields \in Seq(Shields) /\ DOMAIN DefaultShields = 1..4
  BY <1>0 DEF DefaultShields
<1>2. \A i \in 1..4 : DefaultShields[i] \in Shields
  BY <1>0 DEF DefaultShields
<1> QED BY <1>1, <1>2 DEF Unknown, Looked

\* Of the lines of the file one is a list of shields, the eighth; the others
\* are blank, switch something off or set what no switch is.
LEMMA DefaultFile ==
  ASSUME file = CreateDefaultConfig
  PROVE  /\ DOMAIN file = 1..14 /\ Len(file) = 14
         /\ file[8] = Put(PRIORITY, DefaultShields)
         /\ \A n \in DOMAIN file : n # 8 =>
              /\ file[n].type # "bad"
              /\ file[n].type = "set" => file[n].key # PRIORITY
              /\ file[n].type = "set" /\ file[n].key \in Switches => file[n].value = "false"
<1>1. DOMAIN file = 1..14 /\ Len(file) = 14
  BY DEF CreateDefaultConfig
<1>. DEFINE Plain(l) == /\ l.type # "bad"
                        /\ l.type = "set" => l.key # PRIORITY
                        /\ l.type = "set" /\ l.key \in Switches => l.value = "false"
<1>2. /\ Plain([type |-> "blank"]) /\ Plain([type |-> "set", key |-> REST])
      /\ Plain(Put(RESERVE, 10000000))
  BY KeysDiffer DEF Put
<1>3. \A key \in Switches : Plain(Off(key))
  BY KeysDiffer DEF Off, Put
<1>4. /\ file[1] = [type |-> "blank"]
      /\ file[2] = [type |-> "set", key |-> REST]
      /\ \E key \in Switches : file[3] = Off(key)
      /\ \E key \in Switches : file[4] = Off(key)
      /\ \E key \in Switches : file[5] = Off(key)
      /\ \E key \in Switches : file[6] = Off(key)
      /\ \E key \in Switches : file[7] = Off(key)
      /\ file[8] = Put(PRIORITY, DefaultShields)
  BY DEF CreateDefaultConfig, Switches, Parsed, Unparsed
<1>5. /\ \E key \in Switches : file[9] = Off(key)
      /\ \E key \in Switches : file[10] = Off(key)
      /\ \E key \in Switches : file[11] = Off(key)
      /\ \E key \in Switches : file[12] = Off(key)
      /\ \E key \in Switches : file[13] = Off(key)
      /\ file[14] = Put(RESERVE, 10000000)
  BY DEF CreateDefaultConfig, Switches, Parsed, Unparsed
<1>6. \A n \in 1..14 :
        \/ n = 1 \/ n = 2 \/ n = 3 \/ n = 4 \/ n = 5 \/ n = 6 \/ n = 7
        \/ n = 8 \/ n = 9 \/ n = 10 \/ n = 11 \/ n = 12 \/ n = 13 \/ n = 14
  OBVIOUS
<1>. HIDE DEF Plain
<1>7. \A n \in 1..14 : n # 8 => Plain(file[n])
  BY <1>2, <1>3, <1>4, <1>5, <1>6
<1>. USE DEF Plain
<1> QED BY <1>1, <1>4, <1>7

\* A line of the file is not refused, and switches nothing on.
LEMMA DefaultStep == ConfigInv /\ DefaultInv /\ [Next]_vars => DefaultInv'
<1> SUFFICES ASSUME ConfigInv, DefaultInv, [Next]_vars, file' = CreateDefaultConfig
             PROVE  result' # "failed" /\ \A key \in Switches : ~switch'[key]
  BY DEF DefaultInv
<1>1. file = CreateDefaultConfig /\ switch \in [Switches -> BOOLEAN]
  BY DEF Next, ReadLine, RefuseLine, EndOfFile, vars, ConfigInv, TypeOK
<1>2. result # "failed" /\ \A key \in Switches : ~switch[key]
  BY <1>1 DEF DefaultInv
<1>3. CASE ReadLine
  <2>1. line_num + 1 \in DOMAIN file /\ result' = result
    BY <1>3 DEF ReadLine, ConfigInv, TypeOK, FileOK
  <2>2. CASE SetsSwitch(Line)
    <3>1. Line.type = "set" /\ Line.key \in Switches /\ SetSwitch(Line.key, Line.value)
      BY <2>2 DEF SetsSwitch
    <3>2. Line.value # "true"
      BY <1>1, <2>1, <3>1, DefaultFile, KeysDiffer DEF Line, Put
    <3> QED BY <1>1, <1>2, <2>1, <3>1, <3>2 DEF SetSwitch
  <2>3. CASE SetsPriority(Line) \/ SetsReserve(Line) \/ SetsNothing(Line)
    BY <1>2, <2>1, <2>3 DEF SetsPriority, SetsReserve, SetsNothing, settings
  <2> QED BY <1>3, <2>2, <2>3 DEF ReadLine
<1>4. CASE RefuseLine
  <2>1. line_num + 1 \in DOMAIN file /\ Refused(Line)
    BY <1>4 DEF RefuseLine, ConfigInv, TypeOK, FileOK
  <2>2. "cargo_ship.auto_trade" \in Switches /\ "cargo_ship.auto_trade" # PRIORITY
    BY DEF Switches, Parsed, PRIORITY
  <2>3. CASE line_num + 1 = 8
    BY <1>1, <2>1, <2>2, <2>3, DefaultFile, DefaultList DEF Line, Put, Refused
  <2>4. CASE line_num + 1 # 8
    BY <1>1, <2>1, <2>2, <2>4, DefaultFile DEF Line, Refused
  <2> QED BY <2>3, <2>4
<1>5. CASE EndOfFile \/ UNCHANGED vars
  BY <1>2, <1>5 DEF EndOfFile, vars, settings
<1> QED BY <1>3, <1>4, <1>5 DEF Next

\* The generated file is accepted, with shields in its list and nothing on, for
\* any number of slots (CreateDefaultConfig, ParserConfig).
THEOREM DefaultAcceptedAlways == Spec => []DefaultAccepted
<1>1. Init => DefaultInv
  BY DEF Init, DefaultInv
<1>2. ConfigInv /\ DefaultInv => DefaultAccepted
  <2> SUFFICES ASSUME ConfigInv, DefaultInv, file = CreateDefaultConfig, Loaded
               PROVE  shield_priority_count > 0
    BY DEF DefaultAccepted, DefaultInv
  <2>1. Read({PRIORITY}) = {8}
    <3>1. line_num = 14 /\ DOMAIN file = 1..14
      BY DefaultFile DEF ConfigInv, ReadAll, Loaded
    <3>2. file[8].type = "set" /\ file[8].key = PRIORITY /\ 8 \in 1..14
      BY DefaultFile DEF Put
    <3>3. \A n \in 1..14 : n # 8 => ~(file[n].type = "set" /\ file[n].key = PRIORITY)
      BY <3>1, DefaultFile
    <3> QED BY <3>1, <3>2, <3>3 DEF Read
  <2>2. LastRead({PRIORITY}, 8)
    BY <2>1 DEF LastRead
  <2>3. shield_priority_count = Cardinality(Cut(DefaultShields))
    BY <2>1, <2>2, DefaultFile DEF ConfigInv, PriorityRead, Loaded, Put
  <2>4. /\ Cut(DefaultShields) = 1..Cardinality(Cut(DefaultShields))
        /\ Cardinality(Cut(DefaultShields)) \in 0..SLOTS
    BY DefaultList, CutIs
  <2>5. 1 \in Cut(DefaultShields)
    BY DefaultList, ConfigAssumption DEF Cut
  <2>6. Cardinality(Cut(DefaultShields)) >= 1
    BY <2>4, <2>5, ConfigAssumption
  <2> QED BY <2>3, <2>4, <2>6, ConfigAssumption
<1> QED BY ConfigInvariant, <1>1, <1>2, DefaultStep, PTL DEF Spec
================================================================================
