# Launchpad: TLA+ models, checks and proofs

Launchpad is a hotkey daemon for Kindle keyboards. A tap of the *introducer* key
opens a capture: the daemon grabs the input devices, collects the keys that
follow, and at the *trailer* key or after `hot_interval` looks the sequence up in
a table made from `.ini` files and executes its action. The repository holds two
implementations, both modelled here: the C++ one (`src/src/{system,domain,config,
hal,ui}`) and the C one it grew from (`src/src/*.c`).

Paths below are relative to the repository's root, `src/` in `PROJECT.json`.

## 1. Inventory

| Component | State | Operations | Interacts with | What makes it correct |
|---|---|---|---|---|
| `SequenceMatcher` (domain) | Idle/Capturing, armed flag, count of keys down, codes captured | press, release, timeout, cancel, replaced on reload | called by Application | captures start on a lone tap of the introducer; the count of keys recovers from resets |
| `Application` (system) | is_capturing, last_key_time, matcher, registry, bar | run, step, process_key_event, check_timer, reload | everything below; one thread | grab follows capture; no reload lost; one configuration per sequence; keyboard released again |
| `EvdevInputSource` (hal) | descriptors, grab | poll, read, grab, release | kernel queues | events of one device in order; grab undone |
| `ActionRegistry`, `ActionExecutor`, `ActionParser` (domain) | table from sequences to actions | register, find, clear; execute | Application, StatusBar, CommandRunner | exactly the lines with known keys are bound; a command never runs with the keyboard grabbed |
| `StatusBar` (ui) | active flag, saved pixels | show, result, hide | the framebuffer, which the reading application also paints | its own text is never saved as background |
| `SignalHandler` (system) | two atomic flags | handler, clear | asynchronous to the loop | SIGHUP and SIGTERM noted at any moment are acted on |
| `ConfigScanner`, `IniParser` (config) | merged settings, list of actions | scan, merge | files edited by the user | the result is what the directory means |
| `PidLock` (system) | descriptor; lock and file in the kernel | acquire, release | other daemon processes, their children | one holder; the file names it |
| `RceServer` (system) | running flag, socket, worker thread, enabled flag | start, stop, process_message | owner thread, network | no thread outlives stop(); no command without passphrase |
| `main.c` | hotkey_mode, hot_sequence, npressed, timer, handlers | event loop, SIGALRM/SIGHUP/SIGTERM handlers | handlers interrupt the loop anywhere | hot mode always ends; a sequence runs once |
| `launchpad.c`, `inifile.c` | static settings, action table; section and key tables | init, deinit, process_ini_file; open, find | SIGHUP, edits, readdir order | what is stored is what the lines mean |
| `rce.c` | static settings, socket, threads that are never ended | init, start, stop, the thread's loop | main.c on reload, network | nothing is executed unless remote commands are configured |
| `daemonize()` of `main.c`, `Daemon`, `CliOptions` | lock file, process | fork, write the number | init scripts, other daemons | a running daemon is named by its file |
| `KeyTable`, `keydefs.c` | tables of codes and names | look-ups, substitution | both device families | a key of the device leads to the binding of its name |
| `AsciiTranslator`, `LinuxKeyInjector`, `asciitab.c`, sending in `main.c` and `launchpad.c` | tables | characters to writes to `/proc/keypad`, `/proc/fiveway` | the reading application and its symbol popup | the reader receives what the command says |
| `KindleDisplay`, `FontRenderer`, `screen.c`, `pixop.c`, `font.c`, `statusbar.c` | framebuffer, e-ink panel, saved pixels | fill, copy, text, flash, update | the reading application paints the same memory | the page is put back, also on the panel |
| `ScreenshotWriter`, `screenshot.c` | file | rows of the picture | framebuffer | the picture is the page |
| `Logger`, packaging | - | - | - | not modelled |

The hard behaviours are: signals between any two steps of the loop; a reload in
the middle of a capture; events read device by device, late, or lost in a full
kernel queue; a grab that is refused for some devices; a shell command that blocks
the loop; several processes at one lock file, with crashes and children that
inherit the descriptor; two threads at one socket; threads that outlive the
configuration they were started under, on descriptors whose numbers are used
again; a C signal handler that shares plain variables with the program it
interrupts; a screen and an input stream shared with another program; and files
edited while they are read. `PROJECT.json` lists each one as a hazard at the line
where it bites.

## 2. Modules

| Module | Models | Correspondence |
|---|---|---|
| `SequenceMatcher` | `sequence_matcher.cpp` | variables `state`, `introducer_armed`, `keys_down`, `sequence` are the fields of `MatcherContext`, `result` is the `MatcherResult`; one operator per method. Codes are keys; `Substitute` is the alias table. |
| `MatcherKeyboard` | a matcher and its keyboard | `Press`/`Release` deliver a key's events in order, `Timeout`, `Cancel`, `Replace` are the owner's calls. `Spec` has no resets, `ResetSpec` has. History: `held`, `delivered`, `synced`. |
| `HotkeySession` | nothing: the abstract promise | a session over the *set* of keys down, without a counter; the trailer delivers its keys, and a session that expires ends, with or without delivering them (`Expire`: the header and the documents have it cancelled, the unit test completed). The matcher implements it: always when it is never reset (`SessionSpec`), otherwise in every step that no reset precedes (`SessionWhileSynced`). |
| `ActionRegistry`, `StatusBar` | the classes of that name | operators on a function from sequences to kinds, and on a record with one screen cell and the saved background. |
| `Application` | `application.cpp` with executor, evdev source, signal handler, command runner | `pc` walks through `run()`: flags tested, `reload` (flag already cleared), `apply`, `poll`, `read` per device, `step` per event, then the timer, `execute`, `shell`. `group_grabbed` is what the input source believes, `grabbed` what the kernel has granted. The surroundings are the actions `PressKey`, `ReleaseKey`, `TimeExpires`, `EditConfig`, `handle_signal`, `Repainted`, `CommandReturns`. |
| `IniText` | nothing: what a text means | a text is a sequence of tokens: the characters the parsers tell apart, and words. The meaning is defined line by line and is the reference for both parsers. |
| `IniParser`, `ConfigScanner` | `ini_parser.cpp`; `config_scanner.cpp`, `action.cpp`, `load_configuration` | texts to documents; one step per file, with `EditFile` in between. |
| `PidLock` | `pid_lock.cpp`, `daemon.cpp`, `cli_options.cpp`, `main.cpp` | each system call is a step of a process: `daemonize` or `foreground`, open, flock, write, and in `release()` unlock, close, unlink. Files are numbered in order of creation; `path` is the one the name leads to. |
| `RceServer` | `rce_server.cpp` | owner (`start`, `stop`, `Join`) and worker (`TestRunning`, `Poll`, `Receive`, `process_message`). |
| `KeyCodes` | `key_definition.cpp`, `keydefs.c` and headers | both tables of codes and names, the substitution of Kindle 3 codes, the look-ups. |
| `AsciiTables`, `KeySending` | `asciitab.c`, `ascii_translator.cpp`; the senders of `main.c`, `launchpad.c`, `action_executor.cpp`, `linux_key_injector.cpp` | characters to codes, modes and popup steps; commands to sequences of writes. `Receive` is the reading application, modelled from what the senders expect of it (external). |
| `Framebuffer` | `screen.c`, `pixop.c`, `font.c`, `statusbar.c`, `screenshot.c` and the C++ classes for the same | a byte is a pair of pixels, a pixmap a record of its bytes; updates copy rows to the panel. |
| `ActionRun` | `execute_action()` and `ActionExecutor` on top of the four above | an action is compiled to a program whose instructions are single steps; `cpp` and `kindle3` choose daemon and device. `Repaint` and `UserKey` interfere between any two of them. |
| `LegacyHotkey` | the loop of `main.c` | main split at each access to a variable shared with the handlers, the alarm handler enabled between any two steps; devices with queues, read in one `select()`. |
| `LegacyProcess` | `daemonize()`, the rounds of `main()`, `rce.c` | the descriptor table `fds` and the numbers main remembers (`var`); a round opens and closes as `main()` does, signals come at any step; threads of `rce.c` keep the number they were started with. |
| `IniFile`, `LegacyConfig` | `inifile.c`; loading in `launchpad.c` and `keydefs.c` | the scanner runs over the text with a position and fills tables of sections and pairs; `process_ini_file` is one step per file in any order of `readdir`. |
| `MC*` | - | instances for TLC. |
| `SequenceMatcherProofs` | - | lemmas about the matcher's operators, used by the proofs of the two modules that call them. |
| `MatcherKeyboardProofs`, `ApplicationProofs`, `PidLockProofs`, `RceServerProofs`, `ActionRunProofs`, `LegacyHotkeyProofs`, `LegacyProcessProofs` | - | the theorems about the module of that name. |

`Application` extends `SequenceMatcher`, `ActionRegistry` and `StatusBar`, so the
loop calls the very operators that the component's own runs and proofs are about;
`ActionRun` composes key tables, sending and framebuffer in the same way, and the
two configuration modules share `IniText`.

## 3. Runs

| Run | Question | Bounds |
|---|---|---|
| `matcher_reset` | What does a matcher still promise that is cancelled or replaced with keys down? It under-counts until all keys are up, is as new then, starts captures by taps of the introducer only, and steps as the abstract session wherever it has not been reset. | 4 keys, one an alias of another; 3 captured keys |
| `app_keys` | Typing on keyboard and five-way pad with every kind of action, page turns, overflowing queues and refused grabs: does the daemon always give back the devices it was granted, is the count right when nothing is pending, is the bar's text never taken for the page? | 3 keys on 2 devices, queues of 1 that may lose their contents, sequences of 2, 2 pages |
| `app_signals` | SIGHUP, SIGTERM, SIGINT and an edit at every point: no reload lost, no sequence across two configurations; is the grab released, is a reload done, is a noted SIGTERM obeyed, is the bar hidden? | 2 keys, queues of 2, sequences of 1, 2 versions of the files that exchange introducer and trailer |
| `config_scan` | Is what is loaded the meaning of the directory, defined without scanning it? The last file with a setting decides it and every binding follows one rule; the place of launchpad.ini and the rule for duplicates, on which code and documents differ, are left open. | 3 files with launchpad.ini in the middle, awkward texts, 1 edit per scan |
| `pid_lock` | Is the lock exclusive, and does the file name the holder, whatever crashes and children there are, as long as nobody's open file is unlinked? | 3 processes (symmetric), 2 files |
| `pid_lock_race` | violation: a terminating daemon unlinks the file its successor has locked. | same |
| `rce_server` | Can the worker outlive its socket, a command run without the passphrase, stop() hang? | all configurations, 3 messages and the empty one, 2 queued datagrams |
| `actions` | For both daemons on both devices: does each key find its binding, does the reader receive the text that was meant (with or without shift where the C daemon takes the mode from `char_send_mode()`), are framebuffer and panel put back, does the picture show the page? | every printable character, quoted, bare and as a key, in every kind of command; strings and scripts of several; every special key of the device and a letter; a screen of 8 by 5 pixels; one page turn and one key of the user per action |
| `legacy_hotkey` | Wherever the alarm and the signals interrupt main: is hot mode always timed, is a sequence looked up once, are the devices released, is the count repaired? | 3 keys on 2 devices, one of which may refuse the grab; queues of 2, sequences of 2 |
| `legacy_process` | Over a fork and two rounds: does main use and close only its own descriptors, does a round return them but for the known leaks, does the lock file name the daemon, does a SIGTERM in the loop end it? | descriptors 3 to 11, so that leaks exhaust them; framebuffer or input devices absent; 4 configurations of remote commands, 1 datagram |
| `legacy_rce_reload` | violation: a thread of the configuration before executes a command that was sent when remote commands were switched off. | same, descriptors to 12, 2 datagrams |
| `legacy_config` | Do the stored bindings, settings, key names and RCE strings mean what the lines say, after any reload and in any order of files? | 2 files (symmetric), 9 awkward texts and those of keydefs.ini, sequences of 2, 3 keys, 1 edit per load |

Why the bounds are enough. The matcher distinguishes introducer, trailer, another
key and an aliased one; with three keys every relation of `keys_down` to 0 and 1
occurs, also after resets. A queue of two with reads of two lets a whole batch be
stale when it is processed; a queue of one that overflows loses a press or a
release. Two versions of the files are all that a reload can tell apart. The lock
race needs an old holder, a process that has opened the old file and one that
creates a new one: three processes, two files. A second round is enough for a
descriptor number to be given out again and for an old thread to meet the new
socket. The screen has more rows than either bar, an odd number of them, and text
wider than it, so that clipping happens. Each of the texts holds one or more of
the cases in which the parsers differ from the obvious reading. The bounds
(`MaxQueue`, `MaxSequence`, `MaxDown`, `MaxPage`, `MaxFile`, `MaxInbox`,
`MaxEdits`, `MaxRound`, `MaxDatagram`, `Disturbed`) limit the surroundings, never
what the program does with what it gets. `MAXSEQ`, `MAXKEYS` and `MaxDescriptor`
are limits of the program or its process and are modelled as such, with small
values. `MaxSequence` does limit the keys a user types: that `hot_sequence` of
`main.c` has `MAXSEQ` elements and no test of the index is not visible here.

Deadlock is checked in all runs but `rce_server`, where a server with neither
`auto_enable` nor a passphrase has nothing to do.

### Fairness

* `Application!FairSpec`: the process is scheduled (`WF(Daemon)`; `poll` has a
  timeout, so each of its steps ends) and the clock runs (`WF(TimeExpires)`).
  Nothing makes the user type, a signal come, or a shell command end, so
  `ReloadHappens`, `ShutdownCompletes` and `BarHidden` are stated for behaviours in
  which commands end. `GrabReleased` needs no such condition, as the keyboard is
  released before a command runs; its condition is that the user does not type for
  ever, since every key restarts the interval.
* `RceServer!FairSpec`: both threads are scheduled. `StopReturns` supposes that
  commands end and that `recv()` does not wait for ever (see section 5).
* `LegacyHotkey!FairSpec`: main is scheduled, `select()` has a timeout, and a
  running interval timer expires (`WF(alarm_handler)`).
* `LegacyProcess!FairSpec`: main is scheduled; `select()` returns after a second,
  so the loop tests `keepgoing`. Threads, signals and senders need not act.

## 4. Proofs

All theorems hold for every set of keys, processes and files, and every bound.

`MatcherKeyboardProofs` (from `SubstituteAssumption` and `KeyboardAssumption`:
introducer and trailer are keys, the aliases map keys to keys):

* `ResetInvariant`: `ResetSpec => []IInv`, with `IInv` = `TypeOK`, `CountsKeys`,
  `ArmedByIntroducer` (armed only in Idle, with the introducer down and at most one
  key counted) and "nothing is buffered in Idle". The last two are what makes the
  rest inductive; the heart is that `keys_down` never exceeds the number of keys
  down, so that the clamped decrement reaches zero no later than the last release.
* `TypeCorrect`, `CountIsRight` (`CountsKeys`), `ResetIsForgotten`
  (`AllUpResynchronises`) and `CaptureNeedsTap` (`CaptureStartsOnTap`) follow.
* `MatcherImplementsSession`: `Spec => SessionSpec`. Without resets
  `synced` stays true (`UnresetInvariant`), so counter and set agree, and each
  call is a step of the session or a stutter (`StepOfSession`). The session leaves
  open whether an expired sequence is delivered, so the theorem holds for a matcher
  that cancels on a timeout as well.
* `ResetMatcherImplementsSession`: `ResetSpec => SessionWhileSynced`, from the same
  lemma: also under resets, each call is a step of the session when nothing was
  reset since every key was last up.

`SequenceMatcherProofs` holds what both users of the matcher need of it: every call
returns a typed matcher, and what `process_event` and a timeout can result in.

`ApplicationProofs` (from `SubstituteAssumption` and `ApplicationAssumption`: the
devices are a non-empty sequence, the versions of the files a non-empty sequence of
configurations whose introducer, trailer and entries are made of keys):

* `ApplicationInvariant`: `Spec => []IInv`, where `IInv` is the conjunction of the
  safety properties of the runs with `Places` (what `pc` implies about the devices
  still to be read and about the bar) and `Versions` (what is wanted, scanned and
  loaded is never newer than the files). `NoLostReload` rests on `Versions`: the flag
  is cleared before the files are read, so a SIGHUP either finds the flag again or
  is older than the scan. The other properties are inductive next to `TypeOK`, which
  needs the registry's lemmas, since the table is made by a recursion over entries.
* `ApplicationTyped` (`TypeOK`), `GrabIsKnown` (`CapturingIsGrabbed`),
  `ReloadIsNotLost` (`NoLostReload`), `SequenceHasOneConfiguration`
  (`OneConfigurationPerSequence`) and `BarTextIsNotSaved` (`BarLeavesNoText`) follow.
* `CountReturnsToZero` (`QuietMeansNoKeysDown`) needs what the queues hold. A
  sequence of events *leads* from one set of keys to another when each press is of
  a key that is up and each release of one that is down (`Leads`). The invariant
  `KeysInv`: the events in hand lead from a set D to a set M, each device's queue
  leads from its keys of M to those that are held, and the matcher counts at most
  the keys of D and is armed only by an introducer in D. Devices have different
  keys, which is why reading them one after the other is harmless (`LeadsBeside`).
  At rest all three sets are empty. A reload replaces the matcher, which then counts
  less: hence "at most".
* `FirstBindingStays`, about `ActionRegistry`: what `RegisterAll` makes of any list of
  entries, by induction over the list. It says what the code does and what
  `tests/unit/test_action_registry.cpp:89` expects; the documents want the last
  binding (section 5). The library's induction rules take an
  operator and cannot be instantiated; here induction is over the *set* of numbers
  for which the claim fails, by `WFMin` (`InductionOverNat`), and the recursive
  function is shown to be well defined first (`RegisterAllIsLast`).

`PidLockProofs` (from the module's assumption on its constants):

* `LockInvariant`: `Spec => []IInv`, where `IInv` says what each location implies
  about the process's own descriptor and lock (`Descriptors`) and, until a file is
  unlinked under another process, that every open descriptor is the file the path
  names, at most one process holds the lock, and a running holder has written its
  number. The history variable `raced` cuts off the one window in which that fails.
* `LockIsExclusive` (`ExclusiveUnlessRaced`) and `PidFileIsRight`
  (`PidFileNamesHolder`) follow.

`RceServerProofs`:

* `ServerInvariant`: `Types`, `Handshake` (running, socket, owner and worker agree:
  the flag is cleared before the join, the socket closed after it) and `Permission`
  (the worker's flag against what the datagrams since `start()` permit).
* `WorkerIsJoined` (`WorkerOwnsSocket`) and `CommandsArePermitted`
  (`CommandsNeedPassphrase`) follow.

`ActionRunProofs` (from `FramebufferAssumption`: the screen and the font are not
empty and of even width, the bars fit on the screen and a line of text in the bars;
from `FontAssumption`: the font has a glyph 0 and its glyphs are made of bytes; and
from `BindingAssumption`: bindings are of the five kinds, on keys of the device, and
their commands are words of characters and known key names). Screen, bars, font,
texts and bindings are otherwise arbitrary.

* `SavedIsPutBack`: whatever has been drawn on the bar, putting back what was saved
  gives the screen as it was. For the C daemon that is two copies between pixmaps of
  different height, clipped; for the C++ daemon pixels are turned into levels of
  grey and back. Lemmas before it say which bytes `pix_fill`, `pix_blt`,
  `pixmap_xtract`, `screen_string_at` and `draw_bar_text` can change, with text that
  is wider than the screen.
* `ActionRunInvariant`: `Spec => []IInv`. `PageRestored` alone is not inductive: while
  the bar is shown it says nothing of what will be put back. `IInv` adds that
  framebuffer and panel show the page above the bar (`PageAbove`) and that one of two
  cases holds. Either the bar is shown (`BarShown`): what has been saved is bytes of
  the page or of the page before, unless there was no memory, and the rest of the
  program ends with the instruction that hides the bar. Or it is not (`BarAway`): the
  panel shows the framebuffer, which holds bytes of the two pages only, and the rest
  of the program takes a picture, shows the bar or is empty. The rest of a program is
  described by its shape, so the programs of all kinds of actions have to be shown to
  have it: lemmas say what `Concat`, `SplitAtBlanks`, `send_kindle_input_key`,
  `process_kindle_script` and the other senders produce, namely sequences of writes
  to the drivers. `Between` and `FileShowsPage` (each row of the picture, in the
  place where the daemon puts it) complete it; the latter needs that rows are read
  only while the bar is away. One lemma per action shows that it
  keeps `IInv`.
* `ActionRunTyped` (`TypeOK`), `PageIsRestored` (`PageRestored`), `PanelIsUpdated`
  (`PanelShowsPage`) and `PictureShowsPage` (`ScreenshotShowsPage`) follow. The last
  one says that the whole picture is in its place or, in the C daemon, two rows too
  low; `FileShowsPage` has the case that the code is in.
* `KeyIsRecognised` (`HotkeyFound`): for each key of a DX and of a Kindle 3, the code
  the driver reports and the code the tables have for the name are the same after
  the substitution, in both daemons (`TypedIsConfigured`). Letters and digits need
  one argument: their codes are 2 to 50, and no code that is substituted is
  (`CharacterCodes`).

`LegacyHotkeyProofs`:

* `LoopInvariant`: types, the two properties, and `Pending`: a capture that is still
  on has not been looked up, and an alarm that ends it while main is at the trailer
  leaves no keys for main to look up. That is what makes `LookedUpOnce` inductive
  with a handler that may run between any two steps.
* `HotModeHasAlarm` (`HotModeIsTimed`) and `SequenceLookedUpOnce` (`LookedUpOnce`).

`LegacyProcessProofs` (from `ProcessAssumption`):

* `ProcessInvariant`: three independent invariants. `LockInv` adds that nothing is a
  daemon before `daemonize()`. `RceInv` adds that settings that are on, and threads
  that exist, mean that some round had remote commands configured. `FilesInv` is
  about the table: numbers that main remembers name their own files (`Named`, the
  socket excepted between `rce_stop()` and the next round); conversely every open
  file but sockets and leaks is remembered under its kind (`Remembered`); which
  kinds are closed in which part of a round (`Unopened`), so that an open never
  overwrites a number in use; and one socket per round at most (`SocketBound`).
* All steps that open or close files are instances of one lemma (`FilesKept` with
  `StepNamed`, `StepRemembered`, `StepSockets`), from what the kernel gives out:
  free numbers, different ones for different files (`GivenGood`).
* `NumbersMatch` (`DescriptorsMatch`), `RoundReturnsDescriptors`
  (`DescriptorsReturned`), `CommandsAreConfigured` (`CommandsNeedRce`) and
  `DaemonIsNamed` (`LockFileNamesDaemon`) follow.

Only model-checked:

* all liveness properties: `GrabReleased` of both daemons, `ReloadHappens`,
  `ShutdownCompletes`, `BarHidden`, `StopReturns`, `CountIsRepaired`, `TermEnds`. The
  prover has no fairness;
* what is loaded (`LoadedIsMeant`, `BindingsAreMeant`, `SettingsAreMeant`,
  `RceIsReset`, `KeyNamesAreMeant`). The scanner of `inifile.c`, the parser of the C++
  daemon and the merge of files are recursions over texts and lists of files, and the
  properties compare what they compute with a second definition, made line by line.
  All five rest on the parser agreeing with that definition on every text, which is an
  induction over its characters and out of the prover's reach;
* what is sent (`TypedIsMeant`). The reader is a fold over the writes of a whole
  program, compared with the meaning of the words; the proof would be an induction
  over a command's words and, in each of them, a computation with 128 entries of two
  tables of popup steps. TLC tries every printable character in every kind of
  command.

## 5. Where code and documentation disagree

Two disagreements are runs of their own, with a finding each: the lock race
(`include/launchpad/system/pid_lock.hpp:4`) and the remote commands that survive
their being switched off (`rce.ini:3`, `src/rce.c:169`).

In four more, a property would otherwise have to take sides. It leaves the point
open, and holds for the code as it is and for code changed to what the other side
says:

* A timeout executes the keys typed so far (`on_timeout`);
  `sequence_matcher.hpp:91`: "indicating Cancelled", `docs/architecture/domain.md:55`:
  "emits `MatcherActionType::Cancelled`", `docs/sot/config-schema.md:33`: "the
  sequence is cancelled and hardware is released". The unit test
  `test_sequence_matcher.cpp:67` agrees with the code. `HotkeySession!Expire`, and with
  it `SessionWhileSynced`, allows both.
* `launchpad.ini` is read at its place in the alphabet (`find_ini_files`);
  `config_scanner.hpp:32`: "Parses launchpad.ini first",
  `docs/architecture/configuration.md:64`: "it is loaded first". `LoadedIsMeant`
  allows both orders (`Alphabetical`, `BaseFirst`).
* The first binding of a sequence counts (`register_action`);
  `docs/sot/config-schema.md:23`: "the last parsed file takes precedence",
  `docs/architecture/configuration.md:66`: "Later actions with duplicate key
  sequences override earlier entries". The unit test `test_action_registry.cpp:89`
  agrees with the code. `LoadedIsMeant` allows both, but the same one for all
  sequences.
* `char_send_mode()` returns the key's code (`asciitab.c:428`), so capitals and
  shifted symbols that are sent by it arrive without shift: the string "#" as 3.
  The tables have SENDMODE_SHIFT for them, and `README:80` to 83 has "ascii strings
  enclosed in quotes" sent. `TypedIsMeant` accepts such strings with and
  without shift (`MeantWord`), and leaves out the key with code 2, which is sent with alt
  (`SentWithAlt`).

The following were met while modelling and are visible in the actions named; the
properties are stated so that they hold with them.

The C++ daemon:

* A reload during a capture leaves the matcher Idle with the devices grabbed until
  the timer fires (`load_configuration`); `sequence_matcher.hpp:27` says of Idle
  "input passes through to OS".
* Events are processed before the clock is read, so a late key extends the
  sequence (`ProcessKeyEvent`, then `check_timer`); `docs/architecture/overview.md:169`:
  "If the duration between keys exceeds `hot_interval`, the matcher aborts".
* Keys pressed before the introducer's release is processed are captured and also
  reach the reading application; `docs/architecture/domain.md:45` says the grab
  isolates "further keypresses from the Kindle UI" immediately.
* After SIGTERM the bar's text may stay on the screen (`Exit`);
  `docs/reference/cli.md:49`: "restores screen content".
* Hiding the bar brings back the pixels saved when it appeared, even if the page
  has changed (`restore_background`); `docs/hardware/eink-framebuffer.md:123` says
  messages "leave zero visual residue".
* Nothing hides "Reloaded" (`load_configuration`);
  `docs/architecture/configuration.md:94` calls it "a brief notification".
* `system()` ignores SIGINT while it waits (`handle_signal`);
  `docs/reference/cli.md:50`: "Same as `SIGTERM`".
* SYN_DROPPED is skipped, so lost releases leave `keys_down` too high
  (`Enqueue`); `sequence_matcher.hpp:64`: "Number of currently depressed keys."
* The result of `acquire()` is discarded (`open_fails`, `flock`), and with `-d` it
  is not called (`foreground`);
  `docs/architecture/system.md:37`: Launchpad "exits immediately with status 1".
* `stop()` may wait for ever when a datagram that `poll()` announced is discarded
  by the kernel (`Vanish`); `rce_server.hpp:66` says it stops the thread.
* Script and KindleKeys actions are accepted and do nothing, and a screenshot is
  announced without being taken (`execute`); `ScreenshotWriter` has no caller.
* The page keys are named `<` and `>` in the tables of both daemons (`KeyCodes`);
  `docs/reference/keycodes.md:65` to 68 lists `PgFwd`, `PgBck`, `LPgFwd` and `LPgBck`,
  which neither has.
* The `KeyboardInput` and `FivewayInput` settings are read and not used.
* Scripts of all files are sought in the directory that the last file names; the C
  daemon uses the one in force when the line is read (`load_configuration`).
* Section names are trimmed and a header must end with `]`; a tab separates key
  names. The C daemon does none of this.
* `is_fiveway_code()` lacks the codes that a Kindle 3 has for its pad; they do not
  get there, since names stand for the DX codes.

The C daemon:

* The idle second sets `npressed` to 0 while keys are down (`Idle`). An alarm
  between the test of `hotkey_mode` and the store of the key leaves that key as
  the first one of the next sequence (`StoreKey`); one between resetting the handler
  and stopping the timer kills the daemon (`AlarmKills`). A `HotInterval` of 0 sets
  no timer: the properties about the grab are stated for the others.
* A SIGTERM is lost when it comes during initialisation, where `keepgoing` is set
  again (`EnterLoop`), or is followed by SIGHUP (`hup_handler`).
* The loops that would replay an unknown sequence run zero times, and the count of
  events to skip that the actions return is not used; so neither is modelled.
* `daemonize()`: the parent waits for a signal that the child does not send and
  always exits with failure; the lock file keeps nobody out.
* Without a framebuffer the first action ends the process (`Action`). A script, a
  screenshot and a socket that cannot be used lose a descriptor each (`Action`,
  `rce_init`).
* `rce.c`: a reload does not end the thread of the round before; it goes on with
  the new settings, and a datagram may be executed by both threads.
* A blank splits a quoted string in `KindleKeys` and scripts (`SplitAtBlanks`).
* A key that the user presses while a popup is open goes to the popup (`UserKey`).
* `statusbar_hide()` updates an area that lies a row too high (`Hide`); the file of
  `do_screenshot()` has the page two rows too low (`screenshot_row`); a page that is
  turned while the bar is shown gets the old page's pixels back in the bar
  (`Repaint`).
* `inifile.c`: pairs under a second header of any section but the first are lost
  (`section_line`); a section without pairs makes a look-up start at a null
  pointer (`FindKeyFaults`); lines of fewer than four characters, or a last line
  that is not ended, can need more rows than the tables have (`Overflows`); a pair
  with nothing after `=` has the value `<empty>`, which disables a trailer, types
  text, or enables remote commands.
* `keydefs.c`: a code that is given twice leaves a hole, for which a name at the end
  of the table is lost: `keydefs.ini.default` does that. A key without a value has
  code 0. The `k3_` names never match in a sequence, as typed codes are replaced by
  their DX equivalents first.
* `launchpad.c`: settings removed from the files stay in force after SIGHUP, and a
  shorter `ScriptDirectory` keeps the end of a longer one (`Overwrite`); `@` alone
  is a script, namely the directory.

## 6. Not modelled

* Logging, packaging and installation; the text of messages and of help.
* Delays between keys and messages: the order of the steps is modelled, not their
  distance in time.
* The glyphs of the font and the headers and palette of the picture, which are
  data; loading of other fonts, `pixmap_invert()`, `inidb_clear()` and the other
  functions that nothing calls, on the C++ side `KindleDisplay::clear()`.
* `MAXSEQ` as the size of `hot_sequence` (see the bounds) and the fixed sizes of
  paths and commands.
* Cases that no property tells apart: a process that is a daemon already when
  `daemonize()` is called (`getppid()` is 1), a disable string without an enable
  string, a log that is opened again, numbers of several digits in settings, a
  missing `/proc/keypad`.
* The memory that `KindleDisplay` uses when it cannot map the framebuffer; input
  devices that the C++ daemon cannot open, other than by a smaller `DeviceOrder`.

## 7. State of the development

Every component of the two daemons has a module. Every safety invariant of
`MatcherKeyboard`, `Application`, `PidLock`, `RceServer`, `LegacyHotkey` and
`LegacyProcess` is proved, and every one of `ActionRun` but `TypedIsMeant`. What
remains with TLC alone is listed at the end of section 4. The next step would be
the merge of several files in `ConfigScanner`, given that a single file is parsed as
it is meant, with the induction over lists that `FirstBindingStays` uses.
