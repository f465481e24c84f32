----------------------------- MODULE KeySending -----------------------------
(***************************************************************************)
(* From a command to the writes to /proc/keypad and /proc/fiveway, by each *)
(* of the daemons, as operators that return sequences of writes; and the   *)
(* application that receives the keys.                                     *)
(*                                                                         *)
(* A command is a sequence of words.  A word has the quote (34 for ", 39   *)
(* for ', 0 for none) that opens and the one that closes it, the           *)
(* characters between, and a name when it is a key name of several         *)
(* characters.                                                             *)
(***************************************************************************)
EXTENDS AsciiTables, SequencesExt

Write(to, mode, code) == [op |-> "key", to |-> to, mode |-> mode, code |-> code]

\* The results of op for the elements of s, one after the other.
Concat(op(_), s) == FlattenSeq([i \in 1..Len(s) |-> op(s[i])])

UpTo(n) == [i \in 1..n |-> i]

Text(w) ==
  (IF w.open = 0 THEN <<>> ELSE <<w.open>>) \o w.chars
  \o (IF w.close = 0 THEN <<>> ELSE <<w.close>>)

\* Blanks split a word, quoted or not, where the code only looks for blanks.
SplitAtBlanks(w) ==
  LET n == Len(w.chars)
      blank(i) == i \in {0, n + 1} \/ w.chars[i] = 32
      end(i) == Min({j \in i..(n + 1) : blank(j)})
      piece(i) == [w EXCEPT !.chars = SubSeq(@, i, end(i) - 1),
                            !.open = IF i = 1 THEN @ ELSE 0,
                            !.close = IF end(i) = n + 1 THEN @ ELSE 0]
  IN  IF \A i \in 1..n : w.chars[i] # 32 THEN <<w>>
      ELSE Concat(LAMBDA i : IF blank(i - 1) /\ Text(piece(i)) # <<>>
                               THEN <<piece(i)>> ELSE <<>>,
                  UpTo(n + 1))

-----------------------------------------------------------------------------
(* main.c and launchpad.c.                                                 *)

send_key(code, mode) ==
  IF code \in FivewayNamed
    THEN <<Write("fiveway", SENDMODE_NORMAL, code)>>
    ELSE <<Write("keypad",
                 IF mode \in SENDMODE_NORMAL..SENDMODE_ALT THEN mode ELSE SENDMODE_NORMAL,
                 code)>>

\* A backslash screens the next character, if there is one.
Unescaped(s) ==
  LET screens[i \in 0..Len(s)] ==
        i > 0 /\ ~screens[i - 1] /\ s[i] = 92 /\ i < Len(s)
  IN  Concat(LAMBDA i : IF screens[i] THEN <<>> ELSE <<s[i]>>, UpTo(Len(s)))

send_ascii_string(kindle3, s) ==
  Concat(LAMBDA c : send_key(char_keypad_code(kindle3, c), char_send_mode(kindle3, c)),
         Unescaped(s))

\* n times the key, where n is the number of steps in its direction.
Steps(n, back, ahead) ==
  Concat(LAMBDA i : send_key(IF n < 0 THEN back ELSE ahead, SENDMODE_NORMAL),
         UpTo(IF n < 0 THEN -n ELSE n))

\* MUTANT: down and up are exchanged.
send_kindle_input_key_upside_down(kindle3, c) ==
  LET sym == char_kindle_fw_sequence(kindle3, c)
      key == IF kindle3 THEN K3KEY ELSE KPKEY
  IN  IF sym = <<>> THEN send_key(char_keypad_code(kindle3, c), char_send_mode(kindle3, c))
      ELSE send_key(key.SYM, SENDMODE_NORMAL)
           \o Steps(sym[1], key.FW_LEFT, key.FW_RIGHT)
           \o Steps(sym[2], key.FW_DOWN, key.FW_UP)
           \o send_key(key.FW_PRESS, SENDMODE_NORMAL)
           \o (IF kindle3 THEN send_key(key.SYM, SENDMODE_NORMAL) ELSE <<>>)

\* A symbol is chosen in the framework's popup, which on the Kindle 3 has to
\* be closed again.
send_kindle_input_key(kindle3, c) ==
  LET sym == char_kindle_fw_sequence(kindle3, c)
      key == IF kindle3 THEN K3KEY ELSE KPKEY
  IN  IF sym = <<>> THEN send_key(char_keypad_code(kindle3, c), char_send_mode(kindle3, c))
      ELSE send_key(key.SYM, SENDMODE_NORMAL)
           \o Steps(sym[1], key.FW_LEFT, key.FW_RIGHT)
           \o Steps(sym[2], key.FW_UP, key.FW_DOWN)
           \o send_key(key.FW_PRESS, SENDMODE_NORMAL)
           \o (IF kindle3 THEN send_key(key.SYM, SENDMODE_NORMAL) ELSE <<>>)

send_kindle_ascii_string(kindle3, s) ==
  Concat(LAMBDA c : send_kindle_input_key(kindle3, c), s)

CodeOf(name, chars) ==
  IF name # "" THEN find_input_key_code(name)
  ELSE IF Len(chars) = 1 THEN find_char_code(chars[1]) ELSE NoCode

\* What is left of a word when its first and its last character are cut off.
Inside(w) ==
  IF w.close # 0 \/ w.chars = <<>> THEN w.chars ELSE Front(w.chars)

script_token(kindle3, w) ==
  LET code == CodeOf(w.name, Inside(w))
      mode == IF Len(Inside(w)) = 1 /\ Inside(w)[1] \in Upper THEN SENDMODE_SHIFT
                                                             ELSE SENDMODE_NORMAL
  IN  IF w.open = 39
        THEN IF code # NoCode THEN send_key(code, mode)
             ELSE send_kindle_input_key(kindle3, IF Inside(w) = <<>> THEN 0 ELSE Inside(w)[1])
      ELSE send_kindle_ascii_string(kindle3, IF w.open = 34 THEN Inside(w) ELSE Text(w))

\* The first token of a script is its command and the last one is not needed;
\* the others, 64 at most, are the keys.
process_kindle_script(kindle3, tokens) ==
  LET kept == SubSeq(tokens, 2, Min({Len(tokens), 65}))
  IN  Concat(LAMBDA w : script_token(kindle3, w),
             IF kept = <<>> THEN kept ELSE Front(kept))

process_sendkeys_command(kindle3, words) ==
  Concat(LAMBDA w :
           LET code == CodeOf(w.name, w.chars) IN
             IF w.open = 34 THEN send_ascii_string(kindle3, w.chars)
             ELSE IF w.open = 0 /\ code # NoCode THEN send_key(code, SENDMODE_NORMAL)
             ELSE send_ascii_string(kindle3, Text(w)),
         words)

-----------------------------------------------------------------------------
(* LinuxKeyInjector and ActionExecutor.                                    *)

is_fiveway_code(code) ==
  code \in {key_codes.dx.FW_LEFT, key_codes.dx.FW_RIGHT, key_codes.dx.FW_UP,
            key_codes.dx.FW_DOWN, key_codes.dx.FW_PRESS}

inject_key(code, mode) ==
  IF is_fiveway_code(code) THEN <<Write("fiveway", SENDMODE_NORMAL, code)>>
                           ELSE <<Write("keypad", mode, code)>>

inject_ascii_char(kindle3, c) ==
  LET m == translate(kindle3, c) IN
    IF m.code = 0 THEN <<>> ELSE inject_key(m.code, m.send_mode)

send_quoted_string(kindle3, s) == Concat(LAMBDA c : inject_ascii_char(kindle3, c), s)

send_token(kindle3, w) ==
  LET code == IF w.name # "" THEN find_code(w.name)
              ELSE IF Len(w.chars) = 1 THEN find_code_of_char(w.chars[1]) ELSE NoCode
  IN  IF w.open = 34 /\ w.close = 34 THEN send_quoted_string(kindle3, w.chars)
      ELSE IF w.open = 0 /\ w.close = 0 /\ code # NoCode
        THEN inject_key(code, SENDMODE_NORMAL)
      ELSE send_quoted_string(kindle3, Text(w))

execute_send_keys(kindle3, words) ==
  Concat(LAMBDA w : send_token(kindle3, w), Concat(SplitAtBlanks, words))

-----------------------------------------------------------------------------
(* The receiving application: external.  The driver takes the codes of a   *)
(* US keyboard.  The symbols popup opens with the cursor on the comma.     *)
(* What is typed is a sequence of numbers: a character, or OtherKey and    *)
(* the code of a key that types none.                                      *)

OtherKey == 1000

LOCAL Layout ==
  {[first |-> 2,  plain |-> <<49, 50, 51, 52, 53, 54, 55, 56, 57, 48, 45, 61>>,
                  shifted |-> <<33, 64, 35, 36, 37, 94, 38, 42, 40, 41, 95, 43>>],
   [first |-> 16, plain |-> <<113, 119, 101, 114, 116, 121, 117, 105, 111, 112, 91, 93>>,
                  shifted |-> <<81, 87, 69, 82, 84, 89, 85, 73, 79, 80, 123, 125>>],
   [first |-> 30, plain |-> <<97, 115, 100, 102, 103, 104, 106, 107, 108, 59, 39, 96>>,
                  shifted |-> <<65, 83, 68, 70, 71, 72, 74, 75, 76, 58, 34, 126>>],
   [first |-> 43, plain |-> <<92, 122, 120, 99, 118, 98, 110, 109, 44, 46, 47>>,
                  shifted |-> <<124, 90, 88, 67, 86, 66, 78, 77, 60, 62, 63>>],
   [first |-> 57, plain |-> <<32>>, shifted |-> <<32>>]}

Typed(mode, code) ==
  LET rows == {r \in Layout : code \in r.first..(r.first + Len(r.plain) - 1)}
      row  == CHOOSE r \in rows : TRUE
      i    == code - row.first + 1
  IN  IF rows = {} \/ mode = SENDMODE_ALT THEN OtherKey + code
      ELSE IF mode = SENDMODE_SHIFT THEN row.shifted[i] ELSE row.plain[i]

\* The character that a key types without the shift key.
PlainOf(c) ==
  LET rows == {r \in Layout : c \in Range(r.plain) \cup Range(r.shifted)}
      row  == CHOOSE r \in rows : TRUE
  IN  row.plain[CHOOSE i \in 1..Len(row.plain) : c \in {row.plain[i], row.shifted[i]}]

LOCAL Popup(kindle3) ==
  IF kindle3
    THEN <<<<58, 60, 62, 34, 63, 123, 125, 124, 96, 126, 163, 164>>,
           <<59, 44, 46, 39, 47, 91, 93, 92, 147, 148, 161, 191>>,
           <<33, 64, 35, 36, 37, 94, 38, 42, 40, 41, 95, 43>>,
           <<49, 50, 51, 52, 53, 54, 55, 56, 57, 48, 45, 61>>>>
    ELSE <<<<34, 39, 64, 45, 43, 42, 94, 40, 41, 60, 62>>,
           <<63, 44, 33, 47, 61, 35, 124, 123, 125, 96, 126>>,
           <<38, 58, 46, 59, 95, 37, 36, 91, 93, 92>>>>

NewReader == [text |-> <<>>, cursor |-> <<>>]

\* Keys of the five-way pad move the cursor inside the popup; pressing it
\* types the symbol, which closes the popup of a DX.
LOCAL InPopup(reader, kindle3, code) ==
  LET key  == IF kindle3 THEN K3KEY ELSE KPKEY
      row  == reader.cursor[1]
      col  == reader.cursor[2]
      rows == Popup(kindle3)
      to   == CASE code = key.FW_LEFT  -> <<row, col - 1>>
                [] code = key.FW_RIGHT -> <<row, col + 1>>
                [] code = key.FW_UP    -> <<row - 1, col>>
                [] code = key.FW_DOWN  -> <<row + 1, col>>
                [] OTHER               -> reader.cursor
  IN  IF code = key.FW_PRESS
        THEN [text   |-> Append(reader.text, rows[row][col]),
              cursor |-> IF kindle3 THEN reader.cursor ELSE <<>>]
      ELSE IF to[1] \in 1..Len(rows) /\ to[2] \in 1..Len(rows[to[1]])
        THEN [reader EXCEPT !.cursor = to]
      ELSE reader

Receive(reader, kindle3, to, mode, code) ==
  LET sym == IF kindle3 THEN K3KEY.SYM ELSE KPKEY.SYM IN
    IF to = "keypad" /\ code = sym
      THEN [reader EXCEPT !.cursor = IF @ = <<>> THEN <<2, 2>> ELSE <<>>]
    ELSE IF to = "fiveway" /\ reader.cursor # <<>>
      THEN InPopup(reader, kindle3, code)
    ELSE [reader EXCEPT !.text = Append(@, IF to = "keypad" THEN Typed(mode, code)
                                                            ELSE OtherKey + code)]
=============================================================================
