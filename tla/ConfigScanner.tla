---------------------------- MODULE ConfigScanner ----------------------------
(***************************************************************************)
(* Loading the configuration: ConfigScanner::scan_directory reads the .ini *)
(* files one by one, merging their [Settings] and appending their          *)
(* [Actions], and Application::load_configuration registers the result.    *)
(* Meanwhile the user may write or remove files.                           *)
(*                                                                         *)
(* A key name is a word; the words in Key are those that                   *)
(* KeyTable::find_code knows, and stand for the codes as well.             *)
(***************************************************************************)
EXTENDS ActionRegistry, IniParser

CONSTANTS
  FileOrder,      \* all file names, sorted alphabetically
  LaunchpadIni,   \* the one that the documents call the primary configuration
  Text,           \* the texts that files may hold
  Missing,        \* there is no such file
  Key,
  MaxEdits        \* bound: changes to files during one scan

File == {FileOrder[i] : i \in 1..Len(FileOrder)}

ASSUME ScannerAssumption ==
  /\ LaunchpadIni \in File
  /\ {"Shift", "Enter"} \subseteq Key /\ Missing \notin Text /\ MaxEdits \in Nat

VARIABLES
  directory,  \* what each file holds
  files,      \* names found and not yet parsed
  settings,   \* ScannedConfig::settings: texts and numbers, by name
  entries,    \* ScannedConfig::actions
  phase,      \* "scanning" or "loaded"
  introducer, trailer, actions,   \* what load_configuration made of them
  edits       \* history: changes to files since the scan began

loaded == <<introducer, trailer, actions>>
vars == <<directory, files, settings, entries, phase, loaded, edits>>

DefaultSettings ==
  [texts   |-> [Introducer |-> <<"Shift">>, Trailer |-> <<"Enter">>,
                ScriptDirectory |-> <<".", "/", "scripts">>,
                KeyboardInput |-> <<"/", "event0">>, FivewayInput |-> <<"/", "event1">>],
   numbers |-> [HotInterval |-> 700, InterKeyDelay |-> 300]]

\* A setting that is there replaces the one found so far; a number that is
\* not positive is ignored.
apply_settings(old, doc) ==
  [texts   |-> [n \in DOMAIN old.texts |->
                  LET value == get_string(doc, <<"Settings">>, n)
                  IN  IF value = <<>> THEN old.texts[n] ELSE value[1]],
   numbers |-> [n \in DOMAIN old.numbers |->
                  LET number == get_int(doc, <<"Settings">>, n)
                  IN  IF number > 0 THEN number ELSE old.numbers[n]]]

Found == SelectSeq(FileOrder, LAMBDA f : directory[f] # Missing)

\* The daemon has listed the directory.
Init ==
  /\ directory \in [File -> Text \cup {Missing}]
  /\ files = Found
  /\ settings = DefaultSettings
  /\ entries = <<>>
  /\ phase = "scanning"
  /\ introducer = "Shift" /\ trailer = "Enter"
  /\ actions = NoActions
  /\ edits = 0

\* What parsing a file with that text gives.
parse_file == [t \in Text |-> parse_string(t)]

\* A file that has vanished since it was listed is skipped.
ParseFile ==
  /\ phase = "scanning" /\ files # <<>>
  /\ files' = Tail(files)
  /\ LET text == directory[Head(files)] IN
       \/ /\ text = Missing
          /\ UNCHANGED <<settings, entries>>
       \/ /\ text # Missing
          /\ settings' = apply_settings(settings, parse_file[text])
          /\ entries' = entries \o get_section_entries(parse_file[text], <<"Actions">>)
  /\ UNCHANGED <<directory, phase, loaded, edits>>

\* ActionParser: nothing, here the empty sequence, if a key is unknown.
parse_sequence(text) ==
  LET names == SelectSeq(text, LAMBDA x : x \notin Blank)
  IN  IF \A i \in 1..Len(names) : names[i] \in Key THEN names ELSE <<>>

build_script_path(script, dir) ==
  IF script = <<>> \/ script[1] = "/" \/ dir = <<>> THEN script
  ELSE IF dir[Len(dir)] = "/" THEN dir \o script
  ELSE dir \o <<"/">> \o script

\* The mark in front decides the kind; an action without a value types nothing.
parse_command(value, dir) ==
  LET rest == IF value = <<>> THEN <<>> ELSE Tail(value) IN
    IF value = <<>> THEN [kind |-> "SendKeys", text |-> <<>>]
    ELSE CASE value[1] = "!"  -> [kind |-> "Shell", text |-> rest]
           [] value[1] = "@"  -> [kind |-> "Script", text |-> build_script_path(rest, dir)]
           [] value[1] = "#"  -> [kind |-> "KindleKeys", text |-> rest]
           [] value[1] = "\\" -> [kind |-> "SendKeys", text |-> rest]
           [] OTHER           -> [kind |-> "SendKeys", text |-> value]

\* All scripts are looked for in the directory that the scan ended with.
Parsed(list) ==
  [i \in 1..Len(list) |->
     [sequence |-> parse_sequence(list[i].key),
      kind |-> parse_command(list[i].value, settings.texts["ScriptDirectory"])]]

\* KeyTable::find_code, or the default.
KeyOr(name, default) == IF Len(name) = 1 /\ name[1] \in Key THEN name[1] ELSE default

\* MUTANT: the registry is not cleared before the entries are registered.
load_configuration_keeps_actions ==
  /\ phase = "scanning" /\ files = <<>>
  /\ actions' = RegisterAll(actions, Parsed(entries))
  /\ introducer' = KeyOr(settings.texts["Introducer"], "Shift")
  /\ trailer' = KeyOr(settings.texts["Trailer"], "Enter")
  /\ phase' = "loaded"
  /\ UNCHANGED <<directory, files, settings, entries, edits>>

load_configuration ==
  /\ phase = "scanning" /\ files = <<>>
  /\ actions' = RegisterAll(NoActions, Parsed(entries))
  /\ introducer' = KeyOr(settings.texts["Introducer"], "Shift")
  /\ trailer' = KeyOr(settings.texts["Trailer"], "Enter")
  /\ phase' = "loaded"
  /\ UNCHANGED <<directory, files, settings, entries, edits>>

\* The next SIGHUP: find_ini_files lists the directory again.
find_ini_files ==
  /\ phase = "loaded"
  /\ files' = Found
  /\ settings' = DefaultSettings
  /\ entries' = <<>>
  /\ phase' = "scanning"
  /\ edits' = 0
  /\ UNCHANGED <<directory, loaded>>

EditFile(f) ==
  /\ edits < MaxEdits
  /\ directory' \in {[directory EXCEPT ![f] = t] : t \in Text \cup {Missing}}
  /\ edits' = edits + 1
  /\ UNCHANGED <<files, settings, entries, phase, loaded>>

Next ==
  \/ ParseFile \/ load_configuration \/ find_ini_files
  \/ \E f \in File : EditFile(f)

Spec == Init /\ [][Next]_vars

-----------------------------------------------------------------------------
(* What a directory means, without reading it step by step.                *)

\* The pairs of the two sections: position, name and value.
Meaning ==
  [t \in Text |->
     [section \in {"Settings", "Actions"} |->
        {LET line == LineAt(t, p)
         IN  [at |-> p, name |-> PairName(line), value |-> PairValue(line)] :
           p \in PairsIn(t, <<section>>, <<"default">>)}]]

\* The first pair of a section that satisfies P, if there is one, and the last.
FirstPair(t, section, P(_)) ==
  LET pairs == {p \in Meaning[t][section] : P(p)}
  IN  {p \in pairs : \A q \in pairs : p.at <= q.at}

LastPair(t, section, P(_)) ==
  LET pairs == {p \in Meaning[t][section] : P(p)}
  IN  {p \in pairs : \A q \in pairs : p.at >= q.at}

\* Two orders of precedence of the files that are there: that of the sort in
\* find_ini_files, and launchpad.ini before all others, as the comment on
\* scan_directory and the documents have it.
Alphabetical == Found
BaseFirst ==
  SelectSeq(Found, LAMBDA f : f = LaunchpadIni) \o SelectSeq(Found, LAMBDA f : f # LaunchpadIni)

\* The value of a setting: that of the last file in the order that has it and
\* Accepts it.
Meant(order, name, Accepts(_), default) ==
  LET Pair(i) == FirstPair(directory[order[i]], "Settings", LAMBDA p : p.name = <<name>>)
      saying == {i \in 1..Len(order) : \E p \in Pair(i) : Accepts(p.value)}
  IN  IF saying = {} THEN default ELSE Only(Pair(Last(saying))).value

Positive(v) == \E n \in 1..9 : v = <<Nonzero[n]>>

\* The words of a name.
Words(name) == SelectSeq(name, LAMBDA x : x \notin {" ", "\t"})

Binds(q, p) == Words(p.name) = q

BoundSequences ==
  {q \in UNION {{Words(p.name) : p \in Meaning[directory[f]]["Actions"]} :
               f \in {g \in File : directory[g] # Missing}} :
     \A i \in 1..Len(q) : q[i] \in Key}

\* The positions in the order of the files that bind a sequence.
Binding(order, q) ==
  {i \in 1..Len(order) : \E p \in Meaning[directory[order[i]]]["Actions"] : Binds(q, p)}

\* The value that a sequence is bound to first, and last.
EarliestAction(order, q) ==
  Only(FirstPair(directory[order[First(Binding(order, q))]], "Actions",
                 LAMBDA p : Binds(q, p))).value

LatestAction(order, q) ==
  Only(LastPair(directory[order[Last(Binding(order, q))]], "Actions",
                LAMBDA p : Binds(q, p))).value

MeantDirectory(order) ==
  Meant(order, "ScriptDirectory", LAMBDA v : TRUE, <<".", "/", "scripts">>)

Loaded == phase = "loaded" /\ edits = 0

\* Without edits during the scan, what is loaded is what the directory means:
\* the last file that names an introducer, a trailer or a positive interval
\* decides it, with its first line, and an unknown key means the default;
\* exactly the sequences that some file binds with known keys are bound, all
\* by the same rule, and scripts are looked for in the directory that the last
\* file with one names.  Code and documents differ on the precedence of
\* launchpad.ini and on whether the first or the last of two bindings counts:
\* either is right here.
LoadedIsMeant ==
  Loaded => \E order \in {Alphabetical, BaseFirst} :
    /\ introducer = KeyOr(Meant(order, "Introducer", LAMBDA v : TRUE, <<>>), "Shift")
    /\ trailer = KeyOr(Meant(order, "Trailer", LAMBDA v : TRUE, <<>>), "Enter")
    /\ LET interval == Meant(order, "HotInterval", Positive, <<>>)
       IN  IF interval = <<>> THEN settings.numbers["HotInterval"] = 700
           ELSE interval = <<Nonzero[settings.numbers["HotInterval"]]>>
    /\ LET dir == MeantDirectory(order) IN
         \/ actions = [q \in BoundSequences |-> parse_command(EarliestAction(order, q), dir)]
         \/ actions = [q \in BoundSequences |-> parse_command(LatestAction(order, q), dir)]
=============================================================================
