--------------------------- MODULE MCConfigScanner ---------------------------
\* Three files, launchpad.ini in the middle of the alphabet, and texts that set
\* nothing, set an introducer, set it twice, name an unknown key or a useless
\* interval, have actions with unknown keys or no value, bind the same
\* sequence to different actions, and have comments, blanks, sections in two
\* parts, lines that end in CR and LF, and a last line that does not end.
EXTENDS ConfigScanner

CONSTANTS fbreader_ini, launchpad_ini, servicecmds_ini

MCOrder == <<fbreader_ini, launchpad_ini, servicecmds_ini>>
ShiftShift == <<"Shift", "Shift">>

LOCAL Header(n) == <<"[", n, "]", LF>>
LOCAL Line(n, v) == n \o <<" ", "=", " ">> \o v \o <<LF>>
LOCAL Concat(lines) ==
  LET upto[i \in 0..Len(lines)] == IF i = 0 THEN <<>> ELSE upto[i - 1] \o lines[i]
  IN  upto[Len(lines)]

MCText == {
  Concat(<< <<";", "Introducer", "=", LF, LF>>, Header("Settings"),
     Line(<<"Introducer">>, <<"A">>), Line(<<"Introducer">>, <<"Shift">>),
     Header("Actions"), Line(<<"A">>, <<"!", "ls", "=">>), Line(<<"A">>, <<"x">>),
     Header("Settings"), Line(<<"ScriptDirectory">>, <<"s", "/">>),
     Line(<<"Trailer">>, <<"A">>) >>),
  Concat(<< <<"Introducer", "=", "A", LF, " ", "[", " ", "Settings", "]", "\r", LF>>,
     <<"HotInterval", "=", "0", "\r", LF>>, <<"Introducer", "=", "\t", "Q", "\r", LF>>,
     Header("Actions"), Line(<<"A">>, <<"@", "f">>), <<"=", "!", "x", LF>>,
     Line(<<"Shift", " ", "Q">>, <<"!", "x">>), <<"A", "\t", "A", "=", "\\", "x">> >>),
  Concat(<< Header("Settings"), Line(<<"HotInterval">>, <<"9">>),
     Line(<<"HotInterval">>, <<"0">>), Line(<<"Introducer">>, <<"Shift">>),
     <<"#", "=", LF>>, Header("Actions"), <<"Shift", "=", LF>>, <<"Trailer", LF>>,
     Line(<<"A">>, <<"@", "/", "f">>) >>),
  Concat(<< Header("Actions"), Line(<<"A">>, <<"#", "x">>) >>) }
=============================================================================
