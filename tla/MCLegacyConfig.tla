--------------------------- MODULE MCLegacyConfig ---------------------------
(* Instance of LegacyConfig: two files and keydefs.ini hold any of a few   *)
(* small texts, which have the awkward lines between them.                 *)
EXTENDS LegacyConfig

LOCAL Header(n) == <<"[", n, "]", LF>>
LOCAL Line(n, v) == n \o <<" ", "=", " ">> \o v \o <<LF>>
LOCAL Concat(lines) ==
  LET upto[i \in 0..Len(lines)] == IF i = 0 THEN <<>> ELSE upto[i - 1] \o lines[i]
  IN  upto[Len(lines)]

\* The files differ in nothing but their names.
MCSymmetry == Permutations(File)

MCKeys == << [name |-> <<"Shift">>, code |-> 42], [name |-> <<"Enter">>, code |-> 28],
             [name |-> <<"A">>, code |-> 30] >>

MCText == {
  \* the usual file, with a comment, a blank line and a relative script
  Concat(<< <<";", "x", "=", LF>>, Header("Settings"), Line(<<"Introducer">>, <<"A">>),
     Line(<<"Trailer">>, <<"Enter">>), Line(<<"ScriptDirectory">>, <<"b", "c">>), <<LF>>,
     Header("Actions"), Line(<<"A">>, <<"!", "ls">>),
     Line(<<"A", " ", " ", "Shift">>, <<"\"", "x", "\"">>), Line(<<"Enter">>, <<"@">>) >>),
  \* duplicates, an unknown key, no command; the first section continued; the
  \* last line not ended
  Concat(<< Header("Actions"), <<"A", "=", "\\", "x", LF>>, Line(<<"A">>, <<"#", "x">>),
     Line(<<"Q">>, <<"!", "x">>), Line(<<"Shift">>, <<"!">>), Header("RemoteCommandEntry"),
     Line(<<"enableRCE">>, <<"on">>), Header("Actions"),
     <<"Enter", "\t", "=", "@", "/", "s">> >>),
  \* lines that end in CR and LF, names beyond the longest sequence
  Concat(<< <<"[", "Actions", "]", "\r", LF>>, <<"Enter", " ", "Q", "=", "x", "\r", LF>>,
     <<"A", " ", "Shift", " ", "Q", "=", "#", "x", " ", "\r", LF>>,
     <<"A", "\t", "A", "=", "x", "\r", LF>>, <<"Shift", " ", "Shift", "=", "\r", LF>> >>),
  \* settings that are unknown or repeated, or no number
  Concat(<< Header("Settings"), Line(<<"Introducer">>, <<"Q">>),
     Line(<<"Introducer">>, <<"Enter">>), Line(<<"Trailer">>, <<"Q">>),
     Line(<<"HotInterval">>, <<"7", "0">>), Line(<<"HotInterval">>, <<"x">>) >>),
  \* pairs without a value, a header without a name or a bracket
  Concat(<< Header("RemoteCommandEntry"), <<"enableRCE", "=", LF>>, <<"[", "]", LF>>,
     <<"[", "Actions", LF>>, Header("Settings"), <<"=", "x", LF>>, <<"Introducer", LF>>,
     Line(<<"Introducer">>, <<"Shift">>), <<"Trailer", "=", " ", LF>>,
     <<"HotInterval", "=", LF>>, <<"ScriptDirectory", "=", "a">> >>),
  \* sections that are not the first one in two parts
  Concat(<< Header("Settings"), Line(<<"Trailer">>, <<"A">>), Header("Actions"),
     Line(<<"Enter">>, <<"#", "x">>), Header("Settings"), Line(<<"Introducer">>, <<"A">>),
     Header("Actions"), Line(<<"Shift">>, <<"x">>) >>),
  \* pairs before the first header, which fill the tables
  <<"a", "=", LF, "a", "=", LF, "a", "=", LF, "a", "=", LF>>,
  \* a section without pairs; nothing at all
  Concat(<< Header("Settings"), Header("Actions"), Line(<<"A">>, <<"!", "x">>) >>),
  Header("Actions") }

MCKeydefsText == {
  \* the four ways to write a code, the last of which MAXKEYS leaves out
  Concat(<< Header("InputKeys"), Line(<<"A">>, <<"0", "3", "6">>),
     Line(<<"Shift">>, <<"0", "x", "2", "a">>), Line(<<"Q">>, <<"1", "6">>),
     Line(<<"B">>, <<"'", "B">>) >>),
  \* a code that is taken and one that is too large
  Concat(<< Header("InputKeys"), Line(<<"Enter">>, <<"2", "8">>), Line(<<"A">>, <<"'", "A">>),
     Line(<<"Q">>, <<"0", "3", "4">>) >>),
  Concat(<< Header("InputKeys"), Line(<<"A">>, <<"3", "0", "0">>),
     Line(<<"Enter">>, <<"3", "3">>), <<"Q", "=", LF>> >>) }
=============================================================================
