-------------------------------- MODULE Config --------------------------------
(***************************************************************************)
(* LoadConfig of config.c: the configuration file is read line by line and *)
(* every line is given to ParserConfig; the first line that is refused     *)
(* ends the program.                                                       *)
(*                                                                         *)
(* A line is blank or a comment, has no "key = value" syntax, or sets a    *)
(* key.  The keys are those of the switches, of the cargo ship's reserve   *)
(* (one for the five resources) and of the shield list; the keys of names, *)
(* addresses and versions, and unknown keys, are one key REST.            *)
(***************************************************************************)
EXTENDS Naturals, Sequences, FiniteSetsExt

CONSTANTS
  Lines,     \* the lines a file may have
  MaxLines,  \* bound: lines of a file
  SLOTS,     \* 8, the length of ProtectionSettings.shield_priority
  U32        \* 2^32

\* The switches, and the member of Connection the code keeps each in.
Parsed ==
  {"protection.enabled", "protection.shield_always_on",
   "protection.shield_on_incoming_attack", "protection.shield_on_incoming_scout",
   "cargo_ship.auto_trade", "cargo_ship.spend_food"}

\* configuration.md and the file CreateDefaultConfig writes have these as well.
Unparsed ==
  {"protection.recall_on_incoming_attack", "protection.recall_on_incoming_scout",
   "protection.recall_on_incoming_conflict", "bank.enabled"}

Switches == Parsed \cup Unparsed
PRIORITY == "protection.shield_priority"
RESERVE == "cargo_ship.reserve_food"
REST == "other"

LineType ==
  [type : {"blank", "bad"}]
    \cup [type : {"set"}, key : Switches, value : STRING]
    \cup [type : {"set"}, key : {PRIORITY}, value : Seq(STRING)]
    \cup [type : {"set"}, key : {RESERVE}, value : Nat]
    \cup [type : {"set"}, key : {REST}]

ASSUME ConfigAssumption ==
  /\ Lines \subseteq LineType
  /\ MaxLines \in Nat /\ SLOTS \in Nat \ {0} /\ U32 \in Nat \ {0}

Put(key, value) == [type |-> "set", key |-> key, value |-> value]
Off(key) == Put(key, "false")

\* ParseShield: the names of the seven shields.
Shields ==
  {"SHIELD_4H", "SHIELD_8H", "SHIELD_12H", "SHIELD_1D", "SHIELD_3D", "SHIELD_7D",
   "SHIELD_14D"}

\* Mutants are named after the operator they change.
DefaultShields_Misspelt == <<"SHIELD_4H", "SHIELD_08H", "SHIELD_12H", "SHIELD_1D">>

DefaultShields == <<"SHIELD_4H", "SHIELD_8H", "SHIELD_12H", "SHIELD_1D">>

\* The file that "--create-config" writes.
CreateDefaultConfig ==
  <<[type |-> "blank"], [type |-> "set", key |-> REST], Off("bank.enabled"),
    Off("protection.enabled"), Off("protection.shield_always_on"),
    Off("protection.shield_on_incoming_attack"),
    Off("protection.shield_on_incoming_scout"),
    Put(PRIORITY, DefaultShields),
    Off("protection.recall_on_incoming_attack"),
    Off("protection.recall_on_incoming_scout"),
    Off("protection.recall_on_incoming_conflict"),
    Off("cargo_ship.auto_trade"), Off("cargo_ship.spend_food"),
    Put(RESERVE, 10000000)>>

VARIABLES
  file,       \* the lines of the file
  line_num,   \* lines read
  switch,     \* the switches of Connection, by the key that names each
  shield_priority, shield_priority_count,
  reserve,    \* market.reserve.food
  result      \* "reading", "loaded" or "failed"

settings == <<switch, shield_priority, shield_priority_count, reserve>>
vars == <<file, line_num, settings, result>>

Init ==
  /\ file \in {CreateDefaultConfig} \cup UNION {[1..n -> Lines] : n \in 0..MaxLines}
  /\ line_num = 0
  /\ switch = [k \in Switches |-> FALSE]
  /\ shield_priority = [i \in 1..SLOTS |-> "0"]
  /\ shield_priority_count = 0
  /\ reserve = 0
  /\ result = "reading"

-----------------------------------------------------------------------------
\* ParserConfig

Line == file[line_num + 1]

\* Which switch a key sets: the branch of shield_always_on assigns "enabled".
Target(key) ==
  IF key = "protection.shield_always_on" THEN "protection.enabled" ELSE key

SetSwitch(key, value) ==
  switch' = IF key \in Parsed
              THEN [switch EXCEPT ![Target(key)] = (value = "true")] ELSE switch

\* The tokens of a list that are looked at.
Looked_All(tokens) == DOMAIN tokens

Looked(tokens) == {i \in DOMAIN tokens : i <= SLOTS}

Unknown(tokens) == {i \in Looked(tokens) : tokens[i] \notin Shields}

\* The tokens before the first unknown one are stored, and counted at the end.
ParseShieldPriority_KeepsLonger(tokens) ==
  LET stored == {i \in Looked(tokens) : \A j \in Unknown(tokens) : i < j} IN
  /\ shield_priority' =
       [i \in DOMAIN shield_priority |->
          IF i \in stored THEN tokens[i] ELSE shield_priority[i]]
  /\ shield_priority_count' =
       IF Unknown(tokens) = {} /\ Cardinality(stored) > shield_priority_count
         THEN Cardinality(stored) ELSE shield_priority_count

ParseShieldPriority(tokens) ==
  LET stored == {i \in Looked(tokens) : \A j \in Unknown(tokens) : i < j} IN
  /\ shield_priority' =
       [i \in DOMAIN shield_priority |->
          IF i \in stored THEN tokens[i] ELSE shield_priority[i]]
  /\ shield_priority_count' =
       IF Unknown(tokens) = {} THEN Cardinality(stored) ELSE shield_priority_count

Refused_Lenient(l) == l.type = "bad"

\* ParserConfig returns false, or the line has no key and value.
Refused(l) ==
  \/ l.type = "bad"
  \/ l.type = "set" /\ l.key = "cargo_ship.auto_trade" /\ l.value \notin {"true", "false"}
  \/ l.type = "set" /\ l.key = PRIORITY /\ Unknown(l.value) # {}

SetsSwitch(l) ==
  /\ l.type = "set" /\ l.key \in Switches
  /\ SetSwitch(l.key, l.value)
  /\ UNCHANGED <<shield_priority, shield_priority_count, reserve>>

SetsPriority(l) ==
  /\ l.type = "set" /\ l.key = PRIORITY
  /\ ParseShieldPriority(l.value)
  /\ UNCHANGED <<switch, reserve>>

SetsReserve(l) ==
  /\ l.type = "set" /\ l.key = RESERVE
  /\ reserve' = l.value % U32
  /\ UNCHANGED <<switch, shield_priority, shield_priority_count>>

SetsNothing(l) ==
  /\ l.type = "blank" \/ (l.type = "set" /\ l.key = REST)
  /\ UNCHANGED settings

-----------------------------------------------------------------------------
\* LoadConfig

ReadLine ==
  /\ result = "reading" /\ line_num < Len(file)
  /\ ~Refused(Line)
  /\ line_num' = line_num + 1
  /\ SetsSwitch(Line) \/ SetsPriority(Line) \/ SetsReserve(Line) \/ SetsNothing(Line)
  /\ UNCHANGED <<file, result>>

\* What is stored on the way does not matter: main returns.
RefuseLine ==
  /\ result = "reading" /\ line_num < Len(file)
  /\ Refused(Line)
  /\ line_num' = line_num + 1
  /\ IF Line.type = "set" /\ Line.key = PRIORITY
       THEN ParseShieldPriority(Line.value) /\ UNCHANGED <<switch, reserve>>
       ELSE UNCHANGED settings
  /\ result' = "failed"
  /\ UNCHANGED file

EndOfFile ==
  /\ result = "reading" /\ line_num = Len(file)
  /\ result' = "loaded"
  /\ UNCHANGED <<file, line_num, settings>>

Next == ReadLine \/ RefuseLine \/ EndOfFile

Spec == Init /\ [][Next]_vars

-----------------------------------------------------------------------------
\* Properties

\* Types; the count of the list never leaves the array of eight.
TypeOK ==
  /\ line_num \in 0..Len(file)
  /\ switch \in [Switches -> BOOLEAN]
  /\ DOMAIN shield_priority = 1..SLOTS
  /\ shield_priority_count \in 0..SLOTS
  /\ \A i \in 1..shield_priority_count : shield_priority[i] \in Shields
  /\ reserve \in 0..(U32 - 1)
  /\ result \in {"reading", "loaded", "failed"}

Loaded == result = "loaded"

\* The lines that set one of the keys, and the last of them.
Setting(keys) == {n \in DOMAIN file : file[n].type = "set" /\ file[n].key \in keys}
LastValue(keys) == file[Max(Setting(keys))].value

\* What the file asks of a switch; what is not in the file is off.
Asked(keys) == Setting(keys) # {} /\ LastValue(keys) = "true"

\* The keys whose branches assign a switch: two for "enabled", none for
\* "shield_always_on".
Assigning(key) == {k \in Parsed : Target(k) = key}

\* Each switch is as the last line that assigns it says, whatever lines come
\* before and between, with "true" as the only word for on.  For the keys but
\* two that is the last line about the key; "enabled" also follows the lines
\* about shield_always_on, and shield_always_on itself stays off (config.c:205).
SwitchesAsWritten ==
  Loaded => \A key \in Parsed : switch[key] = Asked(Assigning(key))

\* The list of shields is that of the last line about it, cut at SLOTS, and
\* nothing of a longer list before it is left within the count.
PriorityAsWritten ==
  Loaded /\ Setting({PRIORITY}) # {} =>
    LET tokens == LastValue({PRIORITY}) IN
      /\ shield_priority_count = Cardinality({i \in DOMAIN tokens : i <= SLOTS})
      /\ \A i \in 1..shield_priority_count : shield_priority[i] = tokens[i]

\* What the cargo ship keeps back is what the last line about it says, if that
\* fits the uint32_t it is kept in.  An amount that does not is cut to 32 bits
\* without a word, and what is kept back is then less than the file asks for.
ReserveAsWritten ==
  Loaded /\ Setting({RESERVE}) # {} =>
    LET amount == LastValue({RESERVE}) IN
      IF amount < U32 THEN reserve = amount ELSE reserve < amount

\* Each setting of a loaded file, whatever repeats and contradicts it, is what the
\* last line that assigns it says (LoadConfig, ParserConfig, ParseShieldPriority):
\* the last line about it, but for the two switches named above.
SettingsAsWritten == SwitchesAsWritten /\ PriorityAsWritten /\ ReserveAsWritten

\* A file with a wrong line anywhere never starts the bot ("unexpected syntax",
\* "Invalid shield priority value").
NothingWrongLoaded ==
  Loaded =>
    \A n \in DOMAIN file :
      /\ file[n].type # "bad"
      /\ file[n].type = "set" /\ file[n].key = PRIORITY =>
           \A i \in DOMAIN file[n].value : i <= SLOTS => file[n].value[i] \in Shields
      /\ file[n].type = "set" /\ file[n].key = "cargo_ship.auto_trade" =>
           file[n].value \in {"true", "false"}

\* The file the bot generates is one it accepts, with a list of shields, and
\* switches nothing on before it is edited ("Generated automatically. Edit this
\* file to configure the bot"): the writer and the parser spell alike.
DefaultAccepted ==
  file = CreateDefaultConfig =>
    /\ result # "failed"
    /\ Loaded => shield_priority_count > 0 /\ \A key \in Switches : ~switch[key]

\* What makes DefaultAccepted inductive: reading that file switches nothing on.
DefaultInv ==
  file = CreateDefaultConfig =>
    result # "failed" /\ \A key \in Switches : ~switch[key]
================================================================================
