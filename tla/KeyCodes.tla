------------------------------ MODULE KeyCodes ------------------------------
(***************************************************************************)
(* The keys of the two device families: their input codes, their names,    *)
(* and the tables of key names of the two daemons.  The Kindle 3 reports   *)
(* other codes than the DX for some keys; both daemons replace them by the *)
(* DX codes before they look a hotkey up.                                  *)
(*                                                                         *)
(* A key name of one character is that character's ASCII number; the       *)
(* longer names are fields of a record.  Both daemons ignore the case of a *)
(* name; here it is upper case for characters, lower case for words.       *)
(***************************************************************************)
EXTENDS Naturals, Sequences, TLC, Functions

NoCode == 256     \* a look-up that failed: -1 or nullopt

Digit == 48..57
Upper == 65..90
Lower == 97..122

ToUpper(c) == IF c \in Lower THEN c - 32 ELSE c

\* A row of the keypad: consecutive codes from `first` on.
Row(first, chars) ==
  [c \in Range(chars) |-> first - 1 + (CHOOSE i \in 1..Len(chars) : chars[i] = c)]

Row1 == Row(2, <<49, 50, 51, 52, 53, 54, 55, 56, 57, 48>>)        \* 1 .. 0
RowQ == Row(16, <<81, 87, 69, 82, 84, 89, 85, 73, 79, 80>>)       \* Q .. P
RowA == Row(30, <<65, 83, 68, 70, 71, 72, 74, 75, 76>>)           \* A .. L
RowZ == Row(44, <<90, 88, 67, 86, 66, 78, 77>>)                   \* Z .. M

KPKEY ==
  [DEL |-> 14, DOT |-> 52, SLASH |-> 53, ENTER |-> 28, SHIFT |-> 42, ALT |-> 56,
   SPACE |-> 57, AA |-> 90, SYM |-> 94, VPLUS |-> 115, VMINUS |-> 114,
   HOME |-> 98, PGBCK |-> 109, PGFWD |-> 124, MENU |-> 139, BACK |-> 91,
   FW_LEFT |-> 105, FW_RIGHT |-> 106, FW_UP |-> 122, FW_DOWN |-> 123,
   FW_PRESS |-> 92,
   chars |-> [c \in Digit \cup Upper |->
                IF c \in DOMAIN Row1 THEN Row1[c]
                ELSE IF c \in DOMAIN RowQ THEN RowQ[c]
                ELSE IF c \in DOMAIN RowA THEN RowA[c]
                ELSE RowZ[c]]]

K3KEY ==
  [AA |-> 190, SYM |-> 126, HOME |-> 102, BACK |-> 158, PGFWD |-> 191,
   LPGBCK |-> 193, LPGFWD |-> 104, VPLUS |-> 115, VMINUS |-> 114,
   FW_UP |-> 103, FW_DOWN |-> 108, FW_PRESS |-> 194,
   FW_LEFT |-> KPKEY.FW_LEFT, FW_RIGHT |-> KPKEY.FW_RIGHT]

-----------------------------------------------------------------------------
(* keydefs.c.                                                              *)

default_input_keys ==
  [chars |-> [c \in Digit \cup Upper \cup {60, 62} |->      \* < and > turn the page
                IF c = 60 THEN KPKEY.PGBCK
                ELSE IF c = 62 THEN KPKEY.PGFWD ELSE KPKEY.chars[c]],
   names |->
     [del |-> KPKEY.DEL, dot |-> KPKEY.DOT, slash |-> KPKEY.SLASH,
      enter |-> KPKEY.ENTER, shift |-> KPKEY.SHIFT, alt |-> KPKEY.ALT,
      space |-> KPKEY.SPACE, aa |-> KPKEY.AA, sym |-> KPKEY.SYM,
      vplus |-> KPKEY.VPLUS, vminus |-> KPKEY.VMINUS, home |-> KPKEY.HOME,
      menu |-> KPKEY.MENU, back |-> KPKEY.BACK, fw_left |-> KPKEY.FW_LEFT,
      fw_right |-> KPKEY.FW_RIGHT, fw_up |-> KPKEY.FW_UP,
      fw_down |-> KPKEY.FW_DOWN, fw_press |-> KPKEY.FW_PRESS,
      k3_aa |-> K3KEY.AA, k3_sym |-> K3KEY.SYM, k3_home |-> K3KEY.HOME,
      k3_back |-> K3KEY.BACK, k3_pgfwd |-> K3KEY.PGFWD,
      lk3_pgbck |-> K3KEY.LPGBCK, lk3_pgfwd |-> K3KEY.LPGFWD,
      k3_fw_up |-> K3KEY.FW_UP, k3_fw_down |-> K3KEY.FW_DOWN,
      k3_fw_press |-> K3KEY.FW_PRESS]]

\* Pairs of a code and its substitute.
default_key_alias ==
  {<<K3KEY.AA, KPKEY.AA>>, <<K3KEY.SYM, KPKEY.SYM>>, <<K3KEY.HOME, KPKEY.HOME>>,
   <<K3KEY.BACK, KPKEY.BACK>>, <<K3KEY.PGFWD, KPKEY.PGFWD>>,
   <<K3KEY.LPGBCK, KPKEY.PGBCK>>, <<K3KEY.LPGFWD, KPKEY.PGFWD>>,
   <<K3KEY.VPLUS, KPKEY.VPLUS>>, <<K3KEY.VMINUS, KPKEY.VMINUS>>,
   <<K3KEY.FW_UP, KPKEY.FW_UP>>, <<K3KEY.FW_DOWN, KPKEY.FW_DOWN>>,
   <<K3KEY.FW_PRESS, KPKEY.FW_PRESS>>}

\* The code after the table `alias` has been searched; no code is in it twice.
Substituted(code, alias) ==
  IF \E r \in alias : r[1] = code THEN (CHOOSE r \in alias : r[1] = code)[2] ELSE code

\* MUTANT: the page buttons of the Kindle 3's left edge are forgotten.
get_key_substitute_code_left_edge(code) ==
  Substituted(code, {r \in default_key_alias : r[1] \notin {K3KEY.LPGBCK, K3KEY.LPGFWD}})

get_key_substitute_code(code) == Substituted(code, default_key_alias)

\* With the default table; a key name is a character (find_char_code) or a
\* word (find_input_key_code).
find_char_code(c) ==
  LET t == default_input_keys.chars IN
    IF ToUpper(c) \in DOMAIN t THEN t[ToUpper(c)] ELSE NoCode

find_input_key_code(name) ==
  LET t == default_input_keys.names IN
    IF name \in DOMAIN t THEN t[name] ELSE NoCode

\* Codes whose name begins with FW_ or k3_FW_: send_key() sends them to the
\* five-way driver.
FivewayNamed ==
  {find_input_key_code(n) : n \in {"fw_left", "fw_right", "fw_up", "fw_down",
                                   "fw_press", "k3_fw_up", "k3_fw_down",
                                   "k3_fw_press"}}

-----------------------------------------------------------------------------
(* The C++ class KeyTable: the same codes, names and substitutes.          *)

key_codes == [dx |-> KPKEY, k3 |-> K3KEY]

\* populate_defaults() registers the DX keys and populate_aliases() the
\* others, each name once.
populate_aliases ==
  [k3_aa |-> key_codes.k3.AA, k3_sym |-> key_codes.k3.SYM,
   k3_home |-> key_codes.k3.HOME, k3_back |-> key_codes.k3.BACK,
   k3_pgfwd |-> key_codes.k3.PGFWD, lk3_pgbck |-> key_codes.k3.LPGBCK,
   lk3_pgfwd |-> key_codes.k3.LPGFWD, k3_fw_up |-> key_codes.k3.FW_UP,
   k3_fw_down |-> key_codes.k3.FW_DOWN, k3_fw_press |-> key_codes.k3.FW_PRESS]

populate_defaults ==
  [chars |-> default_input_keys.chars,
   names |-> [n \in DOMAIN default_input_keys.names \cup DOMAIN populate_aliases |->
                IF n \in DOMAIN populate_aliases THEN populate_aliases[n]
                                                 ELSE default_input_keys.names[n]]]

find_code(name) ==
  IF name \in DOMAIN populate_defaults.names THEN populate_defaults.names[name]
                                             ELSE NoCode

find_code_of_char(c) ==
  IF ToUpper(c) \in DOMAIN populate_defaults.chars
    THEN populate_defaults.chars[ToUpper(c)] ELSE NoCode

get_substitute_code(code) ==
  CASE code = key_codes.k3.AA       -> key_codes.dx.AA
    [] code = key_codes.k3.SYM      -> key_codes.dx.SYM
    [] code = key_codes.k3.HOME     -> key_codes.dx.HOME
    [] code = key_codes.k3.BACK     -> key_codes.dx.BACK
    [] code = key_codes.k3.PGFWD    -> key_codes.dx.PGFWD
    [] code = key_codes.k3.LPGBCK   -> key_codes.dx.PGBCK
    [] code = key_codes.k3.LPGFWD   -> key_codes.dx.PGFWD
    [] code = key_codes.k3.FW_UP    -> key_codes.dx.FW_UP
    [] code = key_codes.k3.FW_DOWN  -> key_codes.dx.FW_DOWN
    [] code = key_codes.k3.FW_PRESS -> key_codes.dx.FW_PRESS
    [] OTHER                        -> code
=============================================================================
