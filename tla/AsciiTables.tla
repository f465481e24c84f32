----------------------------- MODULE AsciiTables -----------------------------
(***************************************************************************)
(* How a character is typed: the tables of asciitab.c, which               *)
(* ascii_translator.cpp repeats.  A character is its ASCII number.  An     *)
(* entry has the key code, the mode in which the key is sent and, for a    *)
(* symbol of the framework's popup, the steps from where the cursor starts *)
(* (empty for the others).                                                 *)
(***************************************************************************)
EXTENDS KeyCodes, Integers

SENDMODE_NORMAL == 0
SENDMODE_SHIFT == 1
SENDMODE_ALT == 2

\* Keys of linux/input.h that are not on the keypad.
LOCAL ESC == 1
LOCAL MINUS == 12
LOCAL EQUAL == 13
LOCAL BACKSPACE == 14
LOCAL TAB == 15
LOCAL LEFTBRACE == 26
LOCAL RIGHTBRACE == 27
LOCAL SEMICOLON == 39
LOCAL APOSTROPHE == 40
LOCAL GRAVE == 41
LOCAL BACKSLASH == 43
LOCAL COMMA == 51

\* Characters of one key: without and with the shift key.  Digits and letters
\* are keys of their own; what is left is sent as a blank.
LOCAL OnOneKey ==
  {<<39, APOSTROPHE, 34>>, <<44, COMMA, 60>>, <<45, MINUS, 95>>,
   <<46, KPKEY.DOT, 62>>, <<47, KPKEY.SLASH, 63>>, <<59, SEMICOLON, 58>>,
   <<61, EQUAL, 43>>, <<91, LEFTBRACE, 123>>, <<92, BACKSLASH, 124>>,
   <<93, RIGHTBRACE, 125>>, <<96, GRAVE, 126>>}
LOCAL ShiftedDigit == 33 :> 49 @@ 64 :> 50 @@ 35 :> 51 @@ 36 :> 52 @@ 37 :> 53
                      @@ 94 :> 54 @@ 38 :> 55 @@ 42 :> 56 @@ 40 :> 57 @@ 41 :> 48
LOCAL Control == 8 :> BACKSPACE @@ 9 :> TAB @@ 13 :> KPKEY.ENTER @@ 27 :> ESC
                 @@ 127 :> KPKEY.DEL

LOCAL KeyAndMode(c) ==
  CASE c \in Digit \cup Lower        -> <<KPKEY.chars[ToUpper(c)], SENDMODE_NORMAL>>
    [] c \in Upper                   -> <<KPKEY.chars[c], SENDMODE_SHIFT>>
    [] c \in DOMAIN ShiftedDigit     -> <<KPKEY.chars[ShiftedDigit[c]], SENDMODE_SHIFT>>
    [] c \in DOMAIN Control          -> <<Control[c], SENDMODE_NORMAL>>
    [] \E k \in OnOneKey : c = k[1]  -> <<(CHOOSE k \in OnOneKey : c = k[1])[2], SENDMODE_NORMAL>>
    [] \E k \in OnOneKey : c = k[3]  -> <<(CHOOSE k \in OnOneKey : c = k[3])[2], SENDMODE_SHIFT>>
    [] OTHER                         -> <<KPKEY.SPACE, SENDMODE_NORMAL>>

Entry(c, index, steps) ==
  [code |-> KeyAndMode(c)[1], sendmode |-> KeyAndMode(c)[2],
   sym |-> IF \E k \in index : k[1] = c
             THEN steps[(CHOOSE k \in index : k[1] = c)[2]] ELSE <<>>]

\* Horizontal and vertical steps to the symbols of the popup, row by row.
kdxg_s == [i \in 0..31 |-> <<(i % 11) - 1, (i \div 11) - 1>>]
k3_s == [i \in 0..47 |-> <<(i % 12) - 1, (i \div 12) - 1>>]

\* Characters and the symbols of the popup that they are.
kdxg_index ==
  {<<33, 13>>, <<34, 0>>, <<35, 16>>, <<36, 28>>, <<37, 27>>,
   <<38, 22>>, <<39, 1>>, <<40, 7>>, <<41, 8>>, <<42, 5>>, <<43, 4>>,
   <<44, 12>>, <<45, 3>>, <<46, 24>>, <<47, 14>>, <<58, 23>>,
   <<59, 25>>, <<60, 9>>, <<61, 15>>, <<62, 10>>, <<63, 11>>,
   <<64, 2>>, <<91, 29>>, <<93, 30>>, <<94, 6>>, <<95, 26>>,
   <<96, 20>>, <<123, 18>>, <<124, 17>>, <<125, 19>>, <<126, 21>>,
   <<127, 31>>}

kdxg_asciitab == [c \in 0..127 |-> Entry(c, kdxg_index, kdxg_s)]

k3_index ==
  {<<33, 24>>, <<34, 3>>, <<35, 26>>, <<36, 27>>, <<37, 28>>,
   <<38, 30>>, <<39, 15>>, <<40, 32>>, <<41, 33>>, <<42, 31>>,
   <<43, 35>>, <<44, 13>>, <<45, 46>>, <<46, 14>>, <<47, 16>>,
   <<48, 45>>, <<58, 0>>, <<59, 12>>, <<60, 1>>, <<61, 47>>, <<62, 2>>,
   <<63, 4>>, <<64, 25>>, <<91, 17>>, <<92, 19>>, <<93, 18>>,
   <<94, 29>>, <<95, 34>>, <<96, 8>>, <<123, 5>>, <<124, 7>>,
   <<125, 6>>, <<126, 9>>}
  \cup {<<c, c - 13>> : c \in 49..57}

k3_asciitab == [c \in 0..127 |-> Entry(c, k3_index, k3_s)]

ascii_char(kindle3, c) == IF kindle3 THEN k3_asciitab[c % 128] ELSE kdxg_asciitab[c % 128]

char_kindle_fw_sequence(kindle3, c) == ascii_char(kindle3, c).sym

char_keypad_code(kindle3, c) == ascii_char(kindle3, c).code

\* The code, not the mode, is what the function returns.
char_send_mode(kindle3, c) == ascii_char(kindle3, c).code

-----------------------------------------------------------------------------
(* ascii_translator.cpp.                                                   *)

KDXG_SYMBOLS == kdxg_s
K3_SYMBOLS == k3_s
KDXG_TABLE == kdxg_asciitab
K3_TABLE == k3_asciitab

translate(kindle3, c) ==
  LET e == IF kindle3 THEN K3_TABLE[c % 128] ELSE KDXG_TABLE[c % 128]
  IN  [code |-> e.code, send_mode |-> e.sendmode]
=============================================================================
