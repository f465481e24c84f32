------------------------------ MODULE IniParser ------------------------------
(***************************************************************************)
(* The classes IniParser and IniDocument of the C++ daemon as operators: a *)
(* text is split into lines, and the entries of each section are kept in   *)
(* order.  A document is a function from the names of its sections to      *)
(* their entries.                                                          *)
(***************************************************************************)
EXTENDS IniText

trim(t) == Trim(t)

\* A document with one more entry, in a section that may be new.
add_entry(doc, section, key, value) ==
  [s \in DOMAIN doc \cup {section} |->
     IF s # section THEN doc[s]
     ELSE Append(IF s \in DOMAIN doc THEN doc[s] ELSE <<>>, [key |-> key, value |-> value])]

is_comment(c) == c \in {";", "#"}

\* A header must end with its bracket; any other line with an equality sign
\* is an entry, also one without a key.
parse_line_entry(state, line) ==
  IF line = <<>> \/ is_comment(line[1]) THEN state
  ELSE IF line[1] = "[" /\ line[Len(line)] = "]"
    THEN [state EXCEPT !.section = trim(SubSeq(line, 2, Len(line) - 1))]
  ELSE LET e == Seek(line, 1, LAMBDA x : x = "=")
       IN  IF e > Len(line) THEN state
           ELSE [state EXCEPT !.doc = add_entry(@, state.section, trim(SubSeq(line, 1, e - 1)),
                                                trim(SubSeq(line, e + 1, Len(line))))]

\* The lines are taken from the start of the text, each up to its line feed.
parse_string(content) ==
  LET upto[p \in 0..Len(content)] ==
        IF p = 0 THEN [doc |-> [s \in {} |-> <<>>], section |-> <<"default">>]
        ELSE IF p \notin LineStarts(content) THEN upto[p - 1]
        ELSE parse_line_entry(upto[p - 1], LineAt(content, p))
  IN  upto[Len(content)].doc

has_section(doc, section) == section \in DOMAIN doc

get_section_entries(doc, section) ==
  IF has_section(doc, section) THEN doc[section] ELSE <<>>

\* The value of the first entry with that key: nothing, or a sequence of one.
get_string(doc, section, key) ==
  LET found == SelectSeq(get_section_entries(doc, section), LAMBDA e : e.key = <<key>>)
  IN  IF found = <<>> THEN <<>> ELSE <<found[1].value>>

Nonzero == <<"1", "2", "3", "4", "5", "6", "7", "8", "9">>

\* stoi() of a number of one digit; the default 0 for anything else.
get_int(doc, section, key) ==
  LET found == get_string(doc, section, key)
      number == {n \in 1..9 : found = << <<Nonzero[n]>> >>}
  IN  IF number = {} THEN 0 ELSE First(number)
=============================================================================
