------------------------------ MODULE ActionRun ------------------------------
(***************************************************************************)
(* A hotkey is found and its action is carried out, by the C daemon        *)
(* (execute_action() of launchpad.c) or by the C++ one (ActionExecutor):   *)
(* messages on the status bar, keys written to the drivers, a command, a   *)
(* screenshot.  An action is compiled into a program, a sequence of        *)
(* instructions; one instruction is one step, and between two of them the  *)
(* reading application may repaint the page and the user may type.         *)
(***************************************************************************)
EXTENDS KeySending, Framebuffer

CONSTANTS
  Binding,          \* [key, kind, words]: what the configuration binds
  Disturbed,        \* bound: the bindings during whose actions the page may be
                    \* turned and memory may run out
  Name, Success, Failure   \* texts of the status bar: characters of the font

\* A word of a command, as KeySending has it.
KeyName == {""} \cup DOMAIN default_input_keys.names
CommandWord == [open: Nat, chars: Seq(Nat), close: Nat, name: KeyName]

\* The keys of a device, named as in the configuration of a DX; a Kindle 3 has
\* page buttons on both edges.  "a" stands for letters and digits.
CharacterKey == {"a", "pgbck", "left_pgbck", "pgfwd", "left_pgfwd"}
DeviceKey == CharacterKey \cup
  {"del", "dot", "slash", "enter", "shift", "alt", "space", "aa", "sym", "vplus",
   "vminus", "home", "menu", "back", "fw_left", "fw_right", "fw_up", "fw_down",
   "fw_press"}

ASSUME BindingAssumption ==
  /\ \A b \in Binding :
       /\ b.key \in DeviceKey
       /\ b.kind \in {"Shell", "SendKeys", "KindleKeys", "KindleScript", "Screenshot"}
       /\ b.words \in Seq(CommandWord)
  /\ Disturbed \subseteq Binding
  /\ Name \in Seq(Nat) /\ Success \in Seq(Nat) /\ Failure \in Seq(Nat)

NoBinding == [key |-> "none", kind |-> "None", words |-> <<>>]

Page == {1, 2}

\* What the reading application draws for a page.
Painted(n) == Pixmap(XRES, YRES, [i \in 0..(stride(XRES) * YRES - 1) |-> <<n, i % 16>>])

VARIABLES
  cpp,              \* which of the daemons runs
  kindle3,          \* is_this_kindle3(): the device
  proc_open,        \* the /proc files that could be opened
  todo,             \* the rest of the program; empty when waiting for a hotkey
  binding,          \* whose hotkey was pressed last, or NoBinding
  found,            \* ... and whether the daemon recognised it
  fb, panel,        \* the framebuffer and what the panel shows of it
  page, old_page,   \* the page in the reader, and the one it replaced
  psav,             \* background of the bar: pixmap (C), saved_pixels (C++)
  psave,            \* the flash's copy of the bar
  file,             \* rows of the screenshot file; <<>> for unknown contents
  reader,           \* the application that receives the keys
  touched,          \* the user typed while the keys were sent
  failed,           \* the command, an open or a read failed in this action
  starved           \* there was no memory to save the background

display == <<fb, panel, psav, psave>>
vars == <<cpp, kindle3, proc_open, todo, binding, found, display, page, old_page,
          file, reader, touched, failed, starved>>

-----------------------------------------------------------------------------
(* The keys of the device: external.                                       *)

\* What the driver reports for a key.
hardware_code(key) ==
  LET k3 == [aa |-> K3KEY.AA, sym |-> K3KEY.SYM, home |-> K3KEY.HOME,
             back |-> K3KEY.BACK, vplus |-> K3KEY.VPLUS, vminus |-> K3KEY.VMINUS,
             fw_left |-> K3KEY.FW_LEFT, fw_right |-> K3KEY.FW_RIGHT, fw_up |-> K3KEY.FW_UP,
             fw_down |-> K3KEY.FW_DOWN, fw_press |-> K3KEY.FW_PRESS,
             left_pgbck |-> K3KEY.LPGBCK, left_pgfwd |-> K3KEY.LPGFWD,
             pgfwd |-> K3KEY.PGFWD]
      dx == [pgbck |-> KPKEY.PGBCK, pgfwd |-> KPKEY.PGFWD,
             left_pgbck |-> KPKEY.PGBCK, left_pgfwd |-> KPKEY.PGFWD,
             a |-> KPKEY.chars[65]]
  IN  IF kindle3 /\ key \in DOMAIN k3 THEN k3[key]
      ELSE IF key \in DOMAIN dx THEN dx[key]
      ELSE default_input_keys.names[key]

\* The code that the configuration has for the key.
configured_code(key) ==
  LET char == CASE key \in {"pgbck", "left_pgbck"} -> 60
                [] key \in {"pgfwd", "left_pgfwd"} -> 62
                [] OTHER                           -> 65
  IN  CASE key \in CharacterKey ->
             IF cpp THEN find_code_of_char(char) ELSE find_char_code(char)
        [] OTHER -> IF cpp THEN find_code(key) ELSE find_input_key_code(key)

typed_code(key) ==
  IF cpp THEN get_substitute_code(hardware_code(key))
         ELSE get_key_substitute_code(hardware_code(key))

-----------------------------------------------------------------------------
(* The programs of launchpad.c.                                            *)

Do(op) == [op |-> op]
Say(op, text) == [op |-> op, text |-> text]

\* A message: text, then the bar flashes once.
Message(text) == <<Say("text", text), Do("invert"), Do("unflash")>>

Announce(text) == <<Do("show")>> \o Message(text)

\* First and last token of a script are not keys.
Dummy == [open |-> 0, close |-> 0, chars |-> <<>>, name |-> ""]

Rows == [i \in 1..YRES |-> [op |-> "row", row |-> i - 1]]

\* MUTANT: the picture is taken when the bar is already shown.
execute_action_bar_first(b) ==
  Announce(Name) \o <<Do("open")>> \o Rows \o <<Do("result"), Do("hide")>>

\* For a screenshot the bar is shown after the picture has been taken.
execute_action(b) ==
  CASE b.kind = "Screenshot" ->
         <<Do("open")>> \o Rows \o Announce(Name) \o <<Do("result"), Do("hide")>>
    [] b.kind = "KindleScript" ->
         Announce(Name) \o <<Do("script"), Do("hide")>>
    [] b.kind = "KindleKeys" ->
         Announce(Name)
         \o process_kindle_script(kindle3,
              <<Dummy>> \o Concat(SplitAtBlanks, b.words) \o <<Dummy>>)
         \o <<Do("hide")>>
    [] b.kind = "Shell" ->
         Announce(Name) \o <<Do("system"), Do("result"), Do("hide")>>
    [] OTHER ->
         Announce(Name) \o process_sendkeys_command(kindle3, b.words) \o <<Do("hide")>>

-----------------------------------------------------------------------------
(* The programs of ActionExecutor.                                         *)

execute_shell == <<Say("show_status", Name), Do("run_command"), Do("show_result"),
                   Do("hide_status")>>

execute_screenshot == <<Say("show_status", Name), Say("draw", Success), Do("hide_status")>>

\* Scripts and kindle keys are accepted and do nothing.
execute(b) ==
  CASE b.kind = "Shell"      -> execute_shell
    [] b.kind = "SendKeys"   -> execute_send_keys(kindle3, b.words) \o <<Do("hide_status")>>
    [] b.kind = "Screenshot" -> execute_screenshot
    [] OTHER                 -> <<>>

\* ScreenshotWriter, which the daemon does not call.  Headers and palette are
\* written to the file when it has been opened.
write_headers == Do("open")

write_bmp == <<write_headers>> \o [i \in 1..YRES |-> [op |-> "write_row", row |-> i - 1]]

-----------------------------------------------------------------------------

Init ==
  /\ cpp \in BOOLEAN /\ kindle3 \in BOOLEAN
  /\ proc_open \in {{"keypad", "fiveway"}, {"keypad"}}
  /\ todo = <<>> /\ binding = NoBinding /\ found = TRUE
  /\ page = 1 /\ old_page = 1
  /\ fb = Painted(1) /\ panel = fb
  /\ psav = NULL /\ psave = NULL
  /\ file = <<>>
  /\ reader = NewReader
  /\ touched = FALSE /\ failed = FALSE /\ starved = FALSE

idle == todo = <<>>
Next_is(op) == ~idle /\ Head(todo).op = op

Pressed(b) ==
  /\ idle /\ binding = NoBinding
  /\ binding' = b
  /\ found' = (typed_code(b.key) = configured_code(b.key))
  /\ todo' = IF ~found' THEN <<>> ELSE IF cpp THEN execute(b) ELSE execute_action(b)
  /\ UNCHANGED <<cpp, kindle3, proc_open, display, page, old_page, file, reader,
                 touched, failed, starved>>

Picture ==
  /\ idle /\ cpp /\ binding = NoBinding
  /\ binding' = [NoBinding EXCEPT !.kind = "Picture"]
  /\ todo' = write_bmp
  /\ UNCHANGED <<cpp, kindle3, proc_open, found, display, page, old_page, file, reader,
                 touched, failed, starved>>

\* The instruction is done and nothing else than the variables named in the
\* rest of the action changes.
Done == todo' = Tail(todo)
Same == UNCHANGED <<cpp, kindle3, proc_open, binding, found, page, old_page, touched>>
OnBar == Done /\ Same /\ UNCHANGED <<file, reader, failed>>

UpdateBar == panel' = screen_update_area(panel, fb', YRES - STATUSBAR_HEIGHT, YRES)

Show ==
  /\ Next_is("show")
  /\ \/ psav' = statusbar_save(fb) /\ UNCHANGED starved
     \/ binding \in Disturbed /\ psav' = NULL /\ starved' = TRUE
  /\ fb' = statusbar_clear(fb) /\ UpdateBar
  /\ UNCHANGED psave /\ OnBar

Write_text ==
  /\ Next_is("text")
  /\ fb' = statusbar_text(fb, Head(todo).text)
  /\ UNCHANGED <<panel, psav, psave, starved>> /\ OnBar

\* First half of flash_thread(), which runs in the caller: without memory
\* for the copy the second half is not done.
Flash_invert ==
  /\ Next_is("invert")
  /\ \/ /\ psave' = statusbar_save(fb)
        /\ fb' \in {fb, Inverted(fb)}
        /\ panel' = screen_update_area(panel, Inverted(fb), YRES - STATUSBAR_HEIGHT, YRES)
        /\ todo' = Tail(todo)
     \/ /\ binding \in Disturbed
        /\ psave' = NULL /\ UNCHANGED <<fb, panel>>
        /\ todo' = Tail(Tail(todo))
  /\ UNCHANGED <<psav, file, reader, failed, starved>> /\ Same

Flash_restore ==
  /\ Next_is("unflash")
  /\ fb' = statusbar_restore(fb, psave) /\ UpdateBar
  /\ psave' = NULL
  /\ UNCHANGED <<psav, starved>> /\ OnBar

\* The area that is updated begins a row above the bar.
Hide ==
  /\ Next_is("hide")
  /\ fb' = statusbar_restore(fb, psav)
  /\ panel' = screen_update_area(panel, fb', YRES - STATUSBAR_HEIGHT - 1, YRES - 1)
  /\ psav' = NULL
  /\ UNCHANGED <<psave, starved>> /\ OnBar

Send ==
  /\ Next_is("key")
  /\ reader' = LET w == Head(todo) IN
       IF w.to \in proc_open THEN Receive(reader, kindle3, w.to, w.mode, w.code) ELSE reader
  /\ Done /\ Same /\ UNCHANGED <<display, file, failed, starved>>

\* system(), and do_screenshot() with what it returned: the result is shown.
System ==
  /\ Next_is("system") \/ Next_is("run_command")
  /\ failed' \in BOOLEAN
  /\ Done /\ Same /\ UNCHANGED <<display, file, reader, starved>>

Result ==
  /\ Next_is("result")
  /\ todo' = Message(IF failed THEN Failure ELSE Success) \o Tail(todo)
  /\ Same /\ UNCHANGED <<display, file, reader, failed, starved>>

\* get_kindle_script_file(): the script cannot be opened or read, or its keys
\* are sent.
Script ==
  /\ Next_is("script")
  /\ \/ todo' = process_kindle_script(kindle3, Concat(SplitAtBlanks, binding.words))
                \o Tail(todo)
        /\ UNCHANGED failed
     \/ Done /\ failed' = TRUE
  /\ Same /\ UNCHANGED <<display, file, reader, starved>>

\* The files of do_screenshot(), or of write_bmp(), may not be opened: the
\* rows are not written.
AfterRows == SubSeq(todo, YRES + 2, Len(todo))

Screenshot_open ==
  /\ Next_is("open")
  /\ \/ Done /\ UNCHANGED failed
     \/ todo' = AfterRows /\ failed' = TRUE
  /\ Same /\ UNCHANGED <<display, file, reader, starved>>

Screenshot_row ==
  /\ Next_is("row") \/ Next_is("write_row")
  /\ file' = Append(file, IF Next_is("row") THEN screenshot_row(fb, Head(todo).row, <<>>)
                                            ELSE write_pixel_row(fb, Head(todo).row))
  /\ Done /\ Same /\ UNCHANGED <<display, reader, failed, starved>>

\* MUTANT: the region that is updated begins a row too high, as in the C
\* daemon.
UpdateRegion_row_up ==
  panel' = screen_update_area(panel, fb', get_bar_region.y - 1,
                              get_bar_region.y + STATUS_BAR_HEIGHT - 1)

UpdateRegion ==
  panel' = screen_update_area(panel, fb', get_bar_region.y,
                              get_bar_region.y + STATUS_BAR_HEIGHT)

Show_status ==
  /\ Next_is("show_status")
  /\ psav' = IF psav = NULL THEN [saved_pixels |-> capture_pixels(fb)] ELSE psav
  /\ fb' = draw_bar_text(fb, Head(todo).text) /\ UpdateRegion
  /\ UNCHANGED <<psave, starved>> /\ OnBar

Draw_result ==
  /\ Next_is("draw") \/ Next_is("show_result")
  /\ fb' = draw_bar_text(fb, IF Next_is("draw") THEN Head(todo).text
                             ELSE IF failed THEN Failure ELSE Success)
  /\ UpdateRegion
  /\ UNCHANGED <<psav, psave, starved>> /\ OnBar

\* Nothing is restored when nothing has been saved.
Hide_status ==
  /\ Next_is("hide_status")
  /\ IF psav = NULL THEN UNCHANGED <<fb, panel>>
                    ELSE fb' = restore_pixels(fb, psav.saved_pixels) /\ UpdateRegion
  /\ psav' = NULL
  /\ UNCHANGED <<psave, starved>> /\ OnBar

\* The reading application turns the page.  It does so once in an action; a
\* repaint between two actions begins anew.
Repaint ==
  /\ old_page = page
  /\ binding \in Disturbed \/ binding.kind \in {"None", "Picture"}
  /\ page' = 3 - page
  /\ old_page' = IF binding = NoBinding THEN page' ELSE page
  /\ fb' = Painted(page') /\ panel' = Painted(page')
  /\ UNCHANGED <<cpp, kindle3, proc_open, todo, binding, found, psav, psave, file,
                 reader, touched, failed, starved>>

\* A key of the user's own goes to the reader while the daemon sends keys:
\* the devices are not grabbed then.
UsersKey == KPKEY.HOME

UserKey ==
  /\ Next_is("key") /\ ~touched
  /\ reader' = Receive(reader, kindle3, "keypad", SENDMODE_NORMAL, UsersKey)
  /\ touched' = TRUE
  /\ UNCHANGED <<cpp, kindle3, proc_open, todo, binding, found, display, page, old_page,
                 file, failed, starved>>

\* Between two actions the reader is in its usual state: a popup left open
\* has been closed, a damaged page drawn again.
Settle ==
  /\ idle /\ binding # NoBinding
  /\ binding' = NoBinding /\ found' = TRUE
  /\ touched' = FALSE /\ failed' = FALSE /\ starved' = FALSE
  /\ reader' = NewReader /\ file' = <<>>
  /\ IF starved \/ old_page # page
       THEN old_page' = page /\ fb' = Painted(page) /\ panel' = Painted(page)
       ELSE UNCHANGED <<old_page, fb, panel>>
  /\ UNCHANGED <<cpp, kindle3, proc_open, todo, psav, psave, page>>

Next ==
  \/ \E b \in Binding : Pressed(b)
  \/ Picture
  \/ Show \/ Write_text \/ Flash_invert \/ Flash_restore \/ Hide
  \/ Send \/ System \/ Result \/ Script \/ Screenshot_open \/ Screenshot_row
  \/ Show_status \/ Draw_result \/ Hide_status
  \/ Repaint \/ UserKey \/ Settle

Spec == Init /\ [][Next]_vars

-----------------------------------------------------------------------------

TypeOK ==
  /\ cpp \in BOOLEAN /\ kindle3 \in BOOLEAN
  /\ proc_open \subseteq {"keypad", "fiveway"}
  /\ binding.kind \in {"None", "Picture", "Shell", "SendKeys", "KindleKeys",
                      "KindleScript", "Screenshot"}
  /\ found \in BOOLEAN
  /\ {page, old_page} \subseteq Page
  /\ \A p \in {fb, panel} : p.width = XRES /\ p.height = YRES
                         /\ \A i \in DOMAIN p.surf : p.surf[i] \in Byte
  /\ Len(file) <= YRES
  /\ {touched, failed, starved} \subseteq BOOLEAN

\* A key of the device triggers the action that is configured under its
\* name, although a Kindle 3 reports other codes for some of its keys than
\* those the name stands for (get_key_substitute_code(), which every typed
\* key goes through, against default_input_keys; the same for KeyTable).
HotkeyFound == found

\* The C daemon has the mode of this character from char_send_mode().
ModeByChar(w, c) ==
  ~cpp /\ (binding.kind = "SendKeys" \/ (c \in Upper /\ w.open # 39))

\* What a word of the command asks for, as the reader's text: a key by its name
\* (in single quotes a letter has its case), or a string, in which the shift key
\* goes with the characters of char_send_mode() or does not.
MeantWord(w, shifted) ==
  LET named == w.name # "" \/ (Len(w.chars) = 1 /\ find_char_code(w.chars[1]) # NoCode)
      code  == IF w.name # "" THEN find_input_key_code(w.name) ELSE find_char_code(w.chars[1])
      ofkey == IF Typed(SENDMODE_NORMAL, code) < OtherKey
                 THEN <<IF w.open = 39 THEN w.chars[1] ELSE PlainOf(w.chars[1])>>
                 ELSE <<OtherKey + code>>
      token == IF binding.kind = "SendKeys" THEN 0 ELSE 39
      said  == IF w.open \in {34, token} THEN w.chars ELSE Text(w)
      chars == IF ~cpp /\ binding.kind = "SendKeys" THEN Unescaped(said) ELSE said
  IN  IF named /\ w.open = token THEN ofkey
      ELSE [i \in 1..Len(chars) |->
              IF ~shifted /\ ModeByChar(w, chars[i]) THEN PlainOf(chars[i]) ELSE chars[i]]

\* Code 2, the key of 1 and !, is also taken for the mode, that of alt.
SentWithAlt(w) ==
  /\ ~cpp
  /\ \/ 49 \in Range(w.chars) /\ w.open # (IF binding.kind = "SendKeys" THEN 0 ELSE 39)
     \/ 33 \in Range(w.chars) /\ binding.kind = "SendKeys"

\* The reader receives what the command of the action says, key for key, and
\* a popup that was opened for a symbol is closed again: the steps of
\* send_kindle_input_key() lead to the symbol of the popup of either device,
\* the driver files and modes of send_key() and inject_key() are those of the
\* key.  A key that the user presses meanwhile comes in between, and does no
\* harm unless a popup is open.  Left out are strings with a blank where the
\* code splits them, what needs the five-way pad without its file and, in the C
\* daemon, the key with code 2.  Left open is whether characters that the C
\* daemon has the mode of from char_send_mode(), which returns the code of the
\* key, come with shift, as they are written, or without.
TypedIsMeant ==
  LET words == IF binding.kind = "KindleScript" THEN Front(Tail(binding.words))
                                                ELSE binding.words
      whole == \/ \A i \in DOMAIN words : 32 \notin Range(words[i].chars)
               \/ ~cpp /\ binding.kind = "SendKeys"
      sends == binding.kind \in (IF cpp THEN {"SendKeys"}
                                        ELSE {"SendKeys", "KindleKeys", "KindleScript"})
      daemons == SelectSeq(reader.text, LAMBDA k : k # OtherKey + UsersKey)
  IN  (/\ idle /\ found /\ ~failed /\ reader # NewReader
       /\ sends /\ whole /\ proc_open = {"keypad", "fiveway"}
       /\ touched => binding.kind = "SendKeys"
       /\ \A i \in DOMAIN words : ~SentWithAlt(words[i]))
      => /\ \E shifted \in BOOLEAN : daemons = Concat(LAMBDA w : MeantWord(w, shifted), words)
         /\ reader.cursor = <<>>

\* Both daemons draw on the bar only, and put the page back when the action
\* is over: statusbar_show() and statusbar_hide(), with the flashes of
\* flash_thread() in between, show_status() and hide_status().  A page that
\* was turned in the meantime keeps the old page's pixels in the bar, and
\* nothing else; only the C daemon without memory leaves its message.
PageRestored ==
  LET bar == (IF cpp THEN get_bar_region.y ELSE YRES - STATUSBAR_HEIGHT)..(YRES - 1)
  IN  \A i \in DOMAIN fb.surf :
        \/ fb.surf[i] = Painted(page).surf[i]
        \/ /\ RowOf(fb, i) \in bar
           /\ idle => starved \/ fb.surf[i] = Painted(old_page).surf[i]

\* The panel shows what is in the framebuffer when the action is over, except
\* for the last row of the C daemon's bar: statusbar_hide() updates an area
\* that ends a row too high.
PanelShowsPage ==
  idle => \A i \in DOMAIN fb.surf :
            (cpp \/ RowOf(fb, i) < YRES - 1) => panel.surf[i] = fb.surf[i]

\* A screenshot shows the page, row by row, and never the bar with which it
\* is announced; when the page is turned meanwhile, rows of both.  In the file
\* of do_screenshot() the whole page may be two rows too low, below two rows
\* that are not read from the framebuffer.
ScreenshotShowsPage ==
  \E low \in IF cpp THEN {0} ELSE {0, 2} :
    \A i \in DOMAIN file :
      i > low => \E n \in {page, old_page} :
                   file[i] = FramebufferRow(Painted(n), YRES + low - i)
=============================================================================
