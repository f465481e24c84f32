---------------------------- MODULE LegacyConfig ----------------------------
(***************************************************************************)
(* Loading of the configuration by the C daemon (launchpad.c, keydefs.c):  *)
(* at the start and on SIGHUP, launchpad_init reads the key definitions    *)
(* and then all .ini files in the order in which readdir returns them, and *)
(* process_ini_file stores what it finds in static variables.              *)
(* launchpad_deinit frees the actions and nothing else.  Meanwhile the     *)
(* user may write or remove files.                                         *)
(***************************************************************************)
EXTENDS IniFile, TLC

CONSTANTS
  File, Text,    \* the files and the texts that they may hold
  KeydefsText,   \* the texts that keydefs.ini may hold
  Missing,       \* there is no such file
  default_input_keys,  \* rows of name and code; an excerpt of KeyCodes'
  MAXSEQ, MAXKEYS, MAXCODE,
  SHIFT, ENTER,  \* KPKEY_SHIFT and KPKEY_ENTER
  MaxEdits       \* bound: changes to files between two loads

ASSUME LegacyConfigAssumption ==
  /\ IsFiniteSet(File) /\ Missing \notin Text \cup KeydefsText
  /\ {MAXSEQ, MAXKEYS, MAXCODE} \subseteq Nat \ {0} /\ MaxEdits \in Nat
  /\ {SHIFT, ENTER} \subseteq 0..MAXCODE
  /\ \A i \in 1..Len(default_input_keys) : default_input_keys[i].code \in 0..MAXCODE

VARIABLES
  directory,     \* what each file holds
  keydefs,       \* what keydefs.ini holds
  files,         \* files still to be read, in the order of readdir
  phase,         \* "start", "scanning", "loaded" or "crashed"
  input_keys,    \* rows of name and code
  n_input_keys,
  introducer, trailer, numbers, paths,   \* the settings, by name
  actions,       \* pactions: records of sequence, type and command
  enable_string, \* static variable of rce.c
  edits,         \* history: changes to files since the scan began
  before         \* history: the settings when the scan began

settings == <<introducer, trailer, numbers, paths>>
table == <<input_keys, n_input_keys>>
vars == <<directory, keydefs, files, phase, table, settings, actions, enable_string,
          edits, before>>

NoCode == 256      \* -1
NoValue == <<>>    \* no such pair; a pair without a value has "<empty>"

\* What opening a file with that text gives.
inidb_open ==
  [t \in Text \cup KeydefsText \cup {Missing} |->
     IF t = Missing THEN <<>> ELSE create_db_structure(t)]

-----------------------------------------------------------------------------
(* keydefs.c                                                               *)

Numeral == <<"0", "1", "2", "3", "4", "5", "6", "7", "8", "9",
             "a", "b", "c", "d", "e", "f">>

DigitsOf(base) == {Numeral[i] : i \in 1..base}
DigitValue(c) == (CHOOSE i \in 1..16 : Numeral[i] = c) - 1

\* The number that the digits at the start of v stand for, 0 without any.
\* atoi(v) is Number(v, 10).
Number(v, base) ==
  LET n == Seek(v, 1, LAMBDA x : x \notin DigitsOf(base)) - 1
      upto[i \in 0..n] == IF i = 0 THEN 0 ELSE base * upto[i - 1] + DigitValue(v[i])
  IN  upto[n]

CharCode == [A |-> 65, B |-> 66]   \* an excerpt of ASCII

\* MUTANT: a leading zero does not matter.
convert_key_code_decimal(v) ==
  LET code == IF v[1] = "'" THEN CharCode[v[2]]
              ELSE IF Len(v) > 2 /\ v[1] = "0" /\ v[2] = "x"
                THEN Number(SubSeq(v, 3, Len(v)), 16)
              ELSE Number(v, 10)
  IN  IF code > MAXCODE THEN NoCode ELSE code

\* A character constant, or a hexadecimal, octal or decimal number.
convert_key_code(v) ==
  LET code == IF v[1] = "'" THEN CharCode[v[2]]
              ELSE IF Len(v) > 2 /\ v[1] = "0" /\ v[2] = "x"
                THEN Number(SubSeq(v, 3, Len(v)), 16)
              ELSE IF v[1] = "0" THEN Number(v, 8)
              ELSE Number(v, 10)
  IN  IF code > MAXCODE THEN NoCode ELSE code

Hole == [name |-> <<>>, code |-> 0]   \* a row that memset has cleared

\* Row i is for pair i, and is left empty when the code is wrong or taken.
KeyRows(db, s) ==
  LET n == IF inidb_get_number_of_keys(db, s) < MAXKEYS
             THEN inidb_get_number_of_keys(db, s) ELSE MAXKEYS
      Code(i) == convert_key_code(inidb_get_key_value(db, s, i))
      Taken(i) == \E j \in 1..i - 1 : Code(j) = Code(i)
  IN  [i \in 1..n |-> IF Code(i) = NoCode \/ Taken(i) THEN Hole
                      ELSE [name |-> inidb_get_key_name(db, s, i), code |-> Code(i)]]

\* The rows, and how many of them are in use.
get_input_keydefs(opened) ==
  LET s == IF opened = <<>> THEN 0 ELSE inidb_find_section(opened[1], <<"InputKeys">>)
      rows == IF s = 0 THEN <<>> ELSE KeyRows(opened[1], s)
  IN  [rows |-> rows, n |-> Cardinality({i \in 1..Len(rows) : rows[i] # Hole})]

get_default_input_keydefs ==
  [rows |-> default_input_keys, n |-> Len(default_input_keys)]

\* The table is looked at up to the number of rows in use.
find_input_key_code(name) ==
  LET found == {i \in 1..n_input_keys : input_keys[i].name = name}
  IN  IF found = {} THEN NoCode ELSE input_keys[First(found)].code

\* The name of a code, by the index of its row; nothing when there is none.
input_key_name(code) ==
  LET found == {i \in 1..Len(input_keys) :
                  input_keys[i].code = code /\ input_keys[i] # Hole}
  IN  IF found = {} THEN <<>> ELSE input_keys[First(found)].name

-----------------------------------------------------------------------------
(* process_ini_file                                                        *)

\* NoValue when the key is missing.
retrieve_key_value(db, s, name) ==
  LET k == inidb_find_key(db, s, <<name>>)
  IN  IF k = 0 THEN NoValue ELSE inidb_get_key_value(db, s, k)

\* strncpy with the length of the new text, which writes no end: what is left
\* of a longer old text stays.
Overwrite(old, new) == new \o SubSeq(old, Len(new) + 1, Len(old))

\* An unknown introducer is ignored, an unknown trailer disables the trailer.
\* No section is section 0, which has no pairs.
SettingsFrom(db) ==
  LET s == inidb_find_section(db, <<"Settings">>)
      Value(name) == retrieve_key_value(db, s, name)
      i == find_input_key_code(Value("Introducer"))
  IN  /\ introducer' = IF Value("Introducer") = NoValue \/ i = NoCode THEN introducer ELSE i
      /\ trailer' = IF Value("Trailer") = NoValue THEN trailer
                    ELSE find_input_key_code(Value("Trailer"))
      /\ numbers' = [n \in DOMAIN numbers |->
                       IF Value(n) = NoValue THEN numbers[n] ELSE Number(Value(n), 10)]
      /\ paths' = [n \in DOMAIN paths |-> Overwrite(paths[n], Value(n))]

\* The codes of the first MAXSEQ names; nothing if one of them is unknown.
\* (A tab does not separate names: it makes them unknown.)
parse_action_sequence(text) ==
  LET names == SelectSeq(text, LAMBDA x : x # " ")
      few == SubSeq(names, 1, IF Len(names) < MAXSEQ THEN Len(names) ELSE MAXSEQ)
      codes == [i \in 1..Len(few) |-> find_input_key_code(<<few[i]>>)]
  IN  IF \A i \in 1..Len(few) : codes[i] # NoCode THEN codes ELSE <<>>

Mark == ("!" :> "shell") @@ ("#" :> "keys") @@ ("@" :> "script") @@ ("\\" :> "text")

\* The mark in front of a command is its type; a script without an absolute
\* path is looked for in the directory of scripts.
parse_action_command(value, script_dir) ==
  LET marked == value[1] \in DOMAIN Mark
      type == IF marked THEN Mark[value[1]] ELSE "text"
      rest == IF marked THEN Tail(value) ELSE value
      absolute == rest # <<>> /\ rest[1] = "/"
  IN  [type |-> type,
       command |-> IF type = "script" /\ ~absolute THEN script_dir \o <<"/">> \o rest
                                                   ELSE rest]

IsBound(list, sequence) == \E i \in 1..Len(list) : list[i].sequence = sequence

\* MUTANT: duplicate definitions are kept.
Defines_duplicates(list, sequence, command) == sequence # <<>> /\ command # <<>>

\* A pair defines an action if its keys are known, the sequence is not bound
\* and there is a command.
Defines(list, sequence, command) ==
  sequence # <<>> /\ ~IsBound(list, sequence) /\ command # <<>>

\* The directory is the one that the settings of the same file have set.
ActionsFrom(db) ==
  LET s == inidb_find_section(db, <<"Actions">>)
      n == IF s = 0 THEN 0 ELSE inidb_get_number_of_keys(db, s)
      Sequence(i) == parse_action_sequence(inidb_get_key_name(db, s, i))
      Command(i) == parse_action_command(inidb_get_key_value(db, s, i),
                                         paths'["ScriptDirectory"])
      upto[i \in 0..n] ==
        IF i = 0 THEN actions
        ELSE LET new == [sequence |-> Sequence(i)] @@ Command(i)
             IN  Only({IF Defines(list, new.sequence, new.command)
                         THEN Append(list, new) ELSE list : list \in {upto[i - 1]}})
  IN  actions' = upto[n]

\* The settings of rce.c, of which the enabling string stands for all.
RceFrom(db) ==
  LET s == inidb_find_section(db, <<"RemoteCommandEntry">>)
      e == retrieve_key_value(db, s, "enableRCE")
  IN  enable_string' = IF e = NoValue THEN enable_string ELSE e

\* Rows behind a table may be a fault, and so may a known section without
\* pairs, [Actions] apart.
Faults(text, db) ==
  \/ Overflows(text)
  \/ \E name \in {"Settings", "RemoteCommandEntry"} :
       FindKeyFaults(db, inidb_find_section(db, <<name>>))

\* A file that is missing by now or has no pairs is skipped.
process_ini_file ==
  /\ phase = "scanning" /\ files # <<>>
  /\ files' = Tail(files)
  /\ \E text \in {directory[Head(files)]}, opened \in {inidb_open[directory[Head(files)]]} :
       \/ /\ opened = <<>>
          /\ UNCHANGED <<phase, settings, actions, enable_string>>
       \/ /\ opened # <<>>
          /\ SettingsFrom(opened[1])
          /\ ActionsFrom(opened[1])
          /\ RceFrom(opened[1])
          /\ UNCHANGED phase
       \/ /\ opened # <<>> /\ Faults(text, opened[1])
          /\ phase' = "crashed"
          /\ UNCHANGED <<settings, actions, enable_string>>
  /\ UNCHANGED <<directory, keydefs, table, edits, before>>

-----------------------------------------------------------------------------
(* launchpad_init and launchpad_deinit                                     *)

\* readdir returns the files that are there in any order.
Listings ==
  LET there == {f \in File : directory[f] # Missing} IN
    {l \in [1..Cardinality(there) -> there] : \A i, j \in DOMAIN l : l[i] = l[j] => i = j}

Init ==
  /\ directory \in [File -> Text \cup {Missing}]
  /\ keydefs \in KeydefsText \cup {Missing}
  /\ files = <<>> /\ phase = "start"
  /\ input_keys = <<>> /\ n_input_keys = 0
  /\ introducer = SHIFT /\ trailer = ENTER
  /\ numbers = [HotInterval |-> 500, InterKeyDelay |-> 300]
  /\ paths = [ScriptDirectory |-> <<>>, KeyboardInput |-> <<"/", "0">>,
              FivewayInput |-> <<"/", "1">>]
  /\ actions = <<>> /\ enable_string = NoValue
  /\ edits = 0 /\ before = settings

\* MUTANT: the settings of rce.c keep their values.
launchpad_init_keeps_rce ==
  /\ phase \in {"start", "loaded"}
  /\ phase' = "scanning"
  /\ \E own \in {get_input_keydefs(opened) : opened \in {inidb_open[keydefs]}} :
       LET used == IF own.n = 0 THEN get_default_input_keydefs ELSE own
       IN  input_keys' = used.rows /\ n_input_keys' = used.n
  /\ files' \in Listings
  /\ actions' = <<>>
  /\ edits' = 0 /\ before' = settings
  /\ UNCHANGED <<directory, keydefs, settings, enable_string>>

\* At the start, or on SIGHUP after launchpad_deinit: the key names and the
\* settings of rce.c are set anew, those of launchpad.c are left as they are.
launchpad_init ==
  /\ phase \in {"start", "loaded"}
  /\ phase' = "scanning"
  /\ \E own \in {get_input_keydefs(opened) : opened \in {inidb_open[keydefs]}} :
       LET used == IF own.n = 0 THEN get_default_input_keydefs ELSE own
       IN  input_keys' = used.rows /\ n_input_keys' = used.n
  /\ enable_string' = NoValue
  /\ files' \in Listings
  /\ actions' = <<>>
  /\ edits' = 0 /\ before' = settings
  /\ UNCHANGED <<directory, keydefs, settings>>

\* readdir returns no more files.
Loaded ==
  /\ phase = "scanning" /\ files = <<>>
  /\ phase' = "loaded"
  /\ UNCHANGED <<directory, keydefs, files, table, settings, actions, enable_string,
                 edits, before>>

EditFile(f) ==
  /\ phase \in {"scanning", "loaded"}
  /\ edits < MaxEdits
  /\ directory' \in {[directory EXCEPT ![f] = t] : t \in Text \cup {Missing}}
  /\ edits' = edits + 1
  /\ UNCHANGED <<keydefs, files, phase, table, settings, actions, enable_string, before>>

EditKeydefs ==
  /\ phase = "loaded"
  /\ edits < MaxEdits
  /\ keydefs' \in KeydefsText \cup {Missing}
  /\ edits' = edits + 1
  /\ UNCHANGED <<directory, files, phase, table, settings, actions, enable_string, before>>

Crashed == phase = "crashed" /\ UNCHANGED vars

Next ==
  \/ process_ini_file \/ Loaded \/ launchpad_init \/ Crashed \/ EditKeydefs
  \/ \E f \in File : EditFile(f)

Spec == Init /\ [][Next]_vars

-----------------------------------------------------------------------------
(* main's look-up of a captured sequence.                                  *)

\* The action, "screenshot" for the built-in sequence, "none" otherwise.
find_sequence_action(sequence) ==
  LET found == {i \in 1..Len(actions) : actions[i].sequence = sequence}
  IN  IF found # {} THEN actions[First(found)].type
      ELSE IF sequence = <<SHIFT, SHIFT>> THEN "screenshot"
      ELSE "none"

-----------------------------------------------------------------------------
(* What the files mean.                                                    *)

\* The pairs of every section: position, name and value, where no value is
\* "<empty>".
Meaning ==
  [t \in Text \cup KeydefsText |->
     [section \in {"Settings", "Actions", "RemoteCommandEntry", "InputKeys"} |->
        {LET line == LineAt(t, p)
         IN  [at |-> p, name |-> PairName(line),
              value |-> IF PairValue(line) = <<>> THEN emptystring ELSE PairValue(line)] :
           p \in PairsIn(t, <<section>>, defsection)}]]

FirstOf(pairs) == CHOOSE p \in pairs : \A q \in pairs : p.at <= q.at

Headers(t) == {p \in LineStarts(t) : IsHeader(LineAt(t, p))}

\* A section that is not the first one and has several headers, the first
\* section being the default one when a pair precedes all headers.
Split ==
  [t \in Text |->
     \E h, j \in Headers(t) :
       /\ h < j /\ HeaderName(LineAt(t, h)) = HeaderName(LineAt(t, j))
       /\ h # First(Headers(t)) \/ PairsIn(t, defsection, defsection) # {}]

FirstValue(t, section, name) ==
  LET pairs == {p \in Meaning[t][section] : p.name = <<name>>}
  IN  IF pairs = {} THEN NoValue ELSE FirstOf(pairs).value

Texts == {directory[f] : f \in File} \ {Missing}

\* What the files say of one setting, those that are silent about it apart.
Values(section, name) ==
  {FirstValue(t, section, name) : t \in Texts} \ {NoValue}

\* Everything has been read, and is as it was when the reading began.
Settled == phase = "loaded" /\ edits = 0 /\ \A t \in Texts : ~Split[t]

\* A pair of [Actions] that gives a command to a sequence; "@" alone means the
\* directory.
GivesCommand(p, sequence) ==
  /\ parse_action_sequence(p.name) = sequence
  /\ Len(p.value) > 1 \/ p.value[1] \notin {"!", "#", "\\"}

\* The types that the first definition of a sequence in each file gives.
Types(sequence) ==
  LET Definitions(t) == {p \in Meaning[t]["Actions"] : GivesCommand(p, sequence)}
      Type(v) == CASE v[1] = "!" -> "shell" [] v[1] = "#" -> "keys"
                   [] v[1] = "@" -> "script" [] OTHER -> "text"
  IN  {Type(FirstOf(Definitions(t)).value) : t \in {u \in Texts : Definitions(u) # {}}}

\* The digits of a number weigh powers of its base.
MeantCode(v) ==
  LET Weighed(d, base) ==
        LET upto[i \in 0..Len(d)] ==
              IF i = 0 THEN 0 ELSE upto[i - 1] + DigitValue(d[i]) * base^(Len(d) - i)
        IN  upto[Len(d)]
  IN  CASE v = emptystring -> 0
        [] v[1] = "'" -> CharCode[v[2]]
        [] v[1] = "0" /\ Len(v) > 1 /\ v[2] = "x" -> Weighed(SubSeq(v, 3, Len(v)), 16)
        [] v[1] = "0" /\ (Len(v) = 1 \/ v[2] # "x") -> Weighed(v, 8)
        [] OTHER -> Weighed(v, 10)

-----------------------------------------------------------------------------
\* After a load (launchpad_init) every sequence that some file defines has an
\* action of a type that a file gives it first, whatever the order of readdir
\* and however the pairs are laid out in lines; of all other sequences only
\* that of the screenshot does anything, also after a reload.
BindingsAreMeant ==
  Settled =>
    /\ \A i, j \in 1..Len(actions) : actions[i].sequence = actions[j].sequence => i = j
    /\ \A q \in UNION {[1..n -> {input_keys[i].code : i \in 1..Len(input_keys)}] :
                         n \in 1..MAXSEQ} :
         LET type == find_sequence_action(q) IN
           IF Types(q) # {} THEN type \in Types(q)
           ELSE type = IF q = <<SHIFT, SHIFT>> THEN "screenshot" ELSE "none"

\* After a load introducer, trailer, intervals are those of one of the files,
\* and a path starts with one of them; what no file sets keeps the value it
\* had before the load, as launchpad_deinit does not reset it, and a name that
\* is no key never becomes the introducer.
SettingsAreMeant ==
  Settled =>
    /\ LET named == {find_input_key_code(v) : v \in Values("Settings", "Introducer")}
       IN  IF named \subseteq {NoCode} THEN introducer = before[1]
           ELSE introducer \in named \ {NoCode}
    /\ LET named == {find_input_key_code(v) : v \in Values("Settings", "Trailer")}
       IN  IF named = {} THEN trailer = before[2] ELSE trailer \in named
    /\ \A n \in DOMAIN numbers :
         LET given == Values("Settings", n)
         IN  IF given = {} THEN numbers[n] = before[3][n]
             ELSE \E v \in given : numbers[n] = Number(v, 10)
    /\ \A n \in DOMAIN paths :
         LET given == Values("Settings", n)
         IN  IF given = {} THEN paths[n] = before[4][n]
             ELSE \E v \in given : SubSeq(paths[n], 1, Len(v)) = v

\* After a load the string that enables remote commands is one that the files
\* give now, and empty, so that nothing enables them, when no file has the
\* pair: a string that was removed from the files does not survive a reload.
RceIsReset ==
  Settled =>
    LET given == Values("RemoteCommandEntry", "enableRCE")
    IN  IF given = {} THEN enable_string = NoValue ELSE enable_string \in given

\* After a load the key names are those of keydefs.ini: a name that is known
\* has a code that the file gives it, its code has a name, and if no code of
\* the file is wrong, used twice or beyond the table, every name is known.
\* Without any key in the file the names are the default ones.
KeyNamesAreMeant ==
  phase = "loaded" /\ edits = 0 =>
    LET pairs == IF keydefs = Missing THEN {} ELSE Meaning[keydefs]["InputKeys"]
        Code(p) == MeantCode(p.value)
        good == {p \in pairs : Code(p) <= MAXCODE}
        clean == /\ good = pairs /\ Cardinality(pairs) <= MAXKEYS
                 /\ \A p, q \in pairs : Code(p) = Code(q) => p = q
        Known(name) == find_input_key_code(name) # NoCode
    IN  IF good = {} THEN input_keys = default_input_keys /\ n_input_keys = Len(input_keys)
        ELSE /\ \A p \in pairs : Known(p.name) =>
                  LET code == find_input_key_code(p.name)
                  IN  /\ \E q \in good : q.name = p.name /\ Code(q) = code
                      /\ input_key_name(code) = p.name
             /\ clean => \A p \in pairs : Known(p.name)
             /\ \A i \in 1..Len(default_input_keys) :
                  LET name == default_input_keys[i].name
                  IN  Known(name) => \E p \in pairs : p.name = name
=============================================================================
