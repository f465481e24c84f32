------------------------------- MODULE IniFile -------------------------------
(***************************************************************************)
(* The .ini data base of the C daemon (inifile.c) as operators: the        *)
(* scanner, which runs over the text with a pointer (here a position), the *)
(* tables it fills and the look-ups that the daemon uses.                  *)
(***************************************************************************)
EXTENDS IniText, FiniteSets

defsection == <<"Default">>
emptystring == <<"<empty>">>

-----------------------------------------------------------------------------
(* The scanner.  Names and values are measured in tokens.                  *)

skipws(t, p) == Seek(t, p, LAMBDA x : x \notin Blank)

skipline(t, p) ==
  LET e == Seek(t, p, LAMBDA x : x = LF) IN IF e <= Len(t) THEN e + 1 ELSE e

\* The length of a name up to the bracket, of which carriage returns are no
\* part; -1 (here 0) for an empty name and 0 for a missing bracket.
parse_section_name(t, p) ==
  LET e == Seek(t, p, LAMBDA x : x \in {"]", LF})
  IN  IF e > Len(t) \/ t[e] = LF THEN 0
      ELSE Cardinality({i \in p..e - 1 : t[i] # "\r"})

\* The length of p..e - 1 without the blanks at its end.
Trimmed(t, p, e) ==
  LET solid == {i \in p..e - 1 : t[i] \notin Blank}
  IN  IF solid = {} THEN 0 ELSE Last(solid) - p + 1

parse_key_value(t, p) == Trimmed(t, p, Seek(t, p, LAMBDA x : x \in {LF, "\r"}))

\* 0 when no equality sign follows on the line, or no name precedes it.
parse_key_name(t, p) ==
  LET e == Seek(t, p, LAMBDA x : x \in {"=", LF, "\r"})
  IN  IF e > Len(t) \/ t[e] # "=" THEN 0 ELSE Trimmed(t, p, e)

-----------------------------------------------------------------------------
(* The tables.                                                             *)

\* A data base is the table of section names, the table of pairs, each with
\* the index of its section, and the index of the section being filled.
NewDb == [sections |-> <<>>, keys |-> <<>>, current |-> 0]

OpenSection(db, name) ==
  [db EXCEPT !.sections = Append(@, name), !.current = Len(db.sections) + 1]

\* The search for a section of this name compares it with the first section
\* at each turn: only the first section can be continued further down, any
\* other header opens a new section.
section_line(db, name) ==
  IF db.sections # <<>> /\ db.sections[1] = name
    THEN [db EXCEPT !.current = 1]
    ELSE OpenSection(db, name)

key_line(db, name, value) ==
  LET in == IF db.sections = <<>> THEN OpenSection(db, defsection) ELSE db
  IN  [in EXCEPT !.keys = Append(@, [name  |-> name, value |-> value,
                                     psect |-> in.current])]

\* One turn of the loop: a blank line, a header, a comment or a pair.  A pair
\* ends behind the character that its value's terminator has overwritten.
ParseLine(t, s) ==
  LET p == skipws(t, s.p)
      After(db, q) == [db |-> db, p |-> q]
      Header ==
        LET n == parse_section_name(t, p + 1)
        IN  IF n > 0 THEN After(section_line(s.db, SubSeq(t, p + 1, p + n)),
                                skipline(t, p + n + 2))
                     ELSE After(s.db, skipline(t, p + 1))
      Pair(n) ==
        LET q == skipws(t, skipws(t, p + n) + 1)
            v == parse_key_value(t, q)
            e == IF v > 0 THEN q + v + 1 ELSE q
        IN  After(key_line(s.db, SubSeq(t, p, p + n - 1),
                           IF v > 0 THEN SubSeq(t, q, q + v - 1) ELSE emptystring),
                  IF e <= Len(t) /\ t[e] = LF THEN skipline(t, e) ELSE e)
  IN  IF p > Len(t) THEN After(s.db, p)
      ELSE IF t[p] = LF THEN After(s.db, p + 1)
      ELSE IF t[p] = "[" THEN Header
      ELSE IF t[p] \notin {";", "#"} /\ parse_key_name(t, p) > 0
        THEN Pair(parse_key_name(t, p))
      ELSE After(s.db, skipline(t, p))

parse_ini_file(t) ==
  LET turn[i \in 0..Len(t)] ==
        IF i = 0 THEN [db |-> NewDb, p |-> 1]
        ELSE Only({IF last.p > Len(t) THEN last ELSE ParseLine(t, last) :
                     last \in {turn[i - 1]}})
  IN  turn[Len(t)].db

\* The bytes of a text: a word has as many as it has characters.
get_file_size(t) ==
  LET upto[i \in 0..Len(t)] == IF i = 0 THEN 0 ELSE upto[i - 1] + Len(t[i])
  IN  upto[Len(t)]

\* Each table is given room for a row per four bytes of the file.  Rows beyond
\* it are written, all the same, behind the table.
Overflows(t) ==
  LET db == parse_ini_file(t)
      rows == get_file_size(t) \div 4
  IN  Len(db.sections) > rows \/ Len(db.keys) > rows

\* A text without pairs opens nothing, here the empty sequence.
create_db_structure(t) ==
  LET db == parse_ini_file(t) IN IF db.keys = <<>> THEN <<>> ELSE <<db>>

-----------------------------------------------------------------------------
(* The look-ups.                                                           *)

\* The first section of that name, 0 when there is none.
inidb_find_section(db, name) ==
  LET found == {i \in 1..Len(db.sections) : db.sections[i] = name}
  IN  IF found = {} THEN 0 ELSE First(found)

\* The pairs of one section in order, which the three functions enumerate.
KeysOf(db, s) == SelectSeq(db.keys, LAMBDA k : k.psect = s)

inidb_get_number_of_keys(db, s) == Len(KeysOf(db, s))
inidb_get_key_name(db, s, k) == KeysOf(db, s)[k].name
inidb_get_key_value(db, s, k) == KeysOf(db, s)[k].value

\* MUTANT: the last pair of that name.
inidb_find_key_last(db, s, name) ==
  LET found == {i \in 1..inidb_get_number_of_keys(db, s) :
                  inidb_get_key_name(db, s, i) = name}
  IN  IF found = {} THEN 0 ELSE Last(found)

\* The index of the first pair of that name in its section, 0 when there is
\* none.
inidb_find_key(db, s, name) ==
  LET found == {i \in 1..inidb_get_number_of_keys(db, s) :
                  inidb_get_key_name(db, s, i) = name}
  IN  IF found = {} THEN 0 ELSE First(found)

\* A section without pairs has a null pointer for its first one, and the
\* search for a key starts at its distance from the table, a number that may
\* be anything: the search finds nothing or reads outside the table.
FindKeyFaults(db, s) == s # 0 /\ KeysOf(db, s) = <<>>
=============================================================================
