----------------------------- MODULE Application -----------------------------
(***************************************************************************)
(* The daemon's main loop (class Application) with everything it talks to: *)
(* the matcher, the registry, the status bar, the input devices with their *)
(* kernel queues, and the two flags that the signal handlers set.          *)
(*                                                                         *)
(* The daemon is one thread.  Around it run the user, who presses and      *)
(* releases keys; the clock; the processes that send signals and edit the  *)
(* .ini files; the shell command that the daemon waits for; and the        *)
(* reading application, which repaints the screen.                         *)
(***************************************************************************)
EXTENDS SequenceMatcher, ActionRegistry, StatusBar, FiniteSets

CONSTANTS
  DeviceOrder,   \* the input devices, in the order they are read
  DeviceOf,      \* the device that reports each key
  ConfigAt,      \* ConfigAt[v + 1]: what the v-th edit left in the .ini files
  Signal,        \* the signals that are sent, of "HUP", "TERM" and "INT"
  DropsEvents,   \* a full kernel queue loses what it held
  GrabFails,     \* EVIOCGRAB may fail on any of the devices
  ReadMax,       \* key events that one read() returns
  MaxQueue,      \* bound: events in the kernel queue of one device
  MaxSequence,   \* bound: keys in one captured sequence
  MaxDown,       \* bound: keys counted as down when one more is pressed
  MaxPage        \* bound: pages the reading application shows

Device == {DeviceOrder[i] : i \in 1..Len(DeviceOrder)}
Version == 0..(Len(ConfigAt) - 1)

\* What a scan of the .ini files finds.
Configuration == [introducer: Key, trailer: Key,
                  entries: Seq([sequence: Seq(Key), kind: ActionKind])]

ASSUME ApplicationAssumption ==
  /\ DeviceOrder \in Seq(Device) /\ DeviceOrder # <<>>
  /\ DeviceOf \in [Key -> Device]
  /\ ConfigAt \in Seq(Configuration) /\ ConfigAt # <<>>
  /\ Signal \subseteq {"HUP", "TERM", "INT"}
  /\ {DropsEvents, GrabFails} \subseteq BOOLEAN
  /\ {ReadMax, MaxQueue, MaxDown, MaxPage} \subseteq Nat \ {0}
  /\ MaxSequence \in Nat

VARIABLES
  \* the daemon
  pc,                  \* where the loop is, see Location
  scanned,             \* version of the files that the scan read
  config, actions,     \* the matcher's configuration and the registry
  is_capturing,        \* ApplicationContext::is_capturing
  group_grabbed,       \* DeviceGroup::grabbed, what the input source believes
  grabbed,             \* devices that the kernel has granted (EVIOCGRAB)
  ready,               \* positions of the devices that poll() reported and are
                       \* still unread
  events,              \* events read and not yet processed
  action, resume,      \* the action to execute, and where the loop goes on
  bar,
  \* the signal flags
  reload_requested, shutdown_requested,
  \* the surroundings
  held,                \* keys that are down
  queue,               \* per device: events in the kernel
  expired,             \* hot_interval has passed since last_key_time
  disk,                \* version of the .ini files
  page,                \* page that the reading application shows
  \* history
  loaded,              \* version that was loaded last
  began,               \* version under which the capture began
  wanted,              \* version of the files at the last SIGHUP
  dropped              \* a kernel queue has lost events

settings == <<scanned, config, actions>>
capture == <<is_capturing, group_grabbed, grabbed>>
batch == <<ready, events>>
pending == <<action, resume>>
daemon == <<pc, settings, capture, batch, pending, bar>>
flags == <<reload_requested, shutdown_requested>>
world == <<held, queue, expired, disk, page>>
history == <<loaded, began, wanted, dropped>>
vars == <<matcher, daemon, flags, world, history>>

Location == {"run", "reload", "apply", "poll", "read", "step", "execute",
             "shell", "exit", "exited"}

Event == [code: Key, type: {"Pressed", "Released"}]

Init ==
  /\ MatcherInit
  /\ pc = "run" /\ scanned = 0
  /\ config = [introducer |-> ConfigAt[1].introducer,
               trailer    |-> ConfigAt[1].trailer]
  /\ actions = RegisterAll(NoActions, ConfigAt[1].entries)
  /\ is_capturing = FALSE /\ group_grabbed = FALSE /\ grabbed = {}
  /\ ready = {} /\ events = <<>>
  /\ action = "None" /\ resume = "run"
  /\ bar = NewBar(1)
  /\ reload_requested = FALSE /\ shutdown_requested = FALSE
  /\ held = {} /\ queue = [d \in Device |-> <<>>]
  /\ expired = TRUE /\ disk = 0 /\ page = 1
  /\ loaded = 0 /\ began = 0 /\ wanted = 0 /\ dropped = FALSE

-----------------------------------------------------------------------------
(* The loop: run() and reload_configuration(), which clears the flag, scans  *)
(* the .ini files, applies what they say and shows "Reloaded".              *)

\* One test of each flag; clear_reload() is the first thing a reload does.
run ==
  /\ pc = "run"
  /\ \/ /\ shutdown_requested
        /\ pc' = "exit"
        /\ UNCHANGED reload_requested
     \/ /\ ~shutdown_requested /\ reload_requested
        /\ pc' = "reload"
        /\ reload_requested' = FALSE
     \/ /\ ~shutdown_requested /\ ~reload_requested
        /\ pc' = "poll"
        /\ UNCHANGED reload_requested
  /\ UNCHANGED <<matcher, settings, capture, batch, pending, bar,
                 shutdown_requested, world, history>>

scan_directory ==
  /\ pc = "reload"
  /\ scanned' = disk
  /\ pc' = "apply"
  /\ UNCHANGED <<matcher, config, actions, capture, batch, pending, bar,
                 flags, world, history>>

\* The rest of load_configuration(), and the message.  The grab and
\* is_capturing stay as they are.  A longer hot_interval can postpone an
\* expiry that nobody has acted on.
ApplyScanned ==
  /\ pc = "apply"
  /\ LET new == ConfigAt[scanned + 1] IN
       /\ actions' = RegisterAll(NoActions, new.entries)
       /\ config' = [introducer |-> new.introducer, trailer |-> new.trailer]
  /\ NewMatcher
  /\ expired' \in (IF scanned # loaded THEN {expired, FALSE} ELSE {expired})
  /\ loaded' = scanned
  /\ bar' = show_status(bar)
  /\ pc' = "poll"
  /\ UNCHANGED <<scanned, capture, batch, pending, shutdown_requested, held,
                 queue, disk, page, began, wanted, dropped>>

\* MUTANT: the flag is cleared when the reload is done.
load_configuration_clears_late == ApplyScanned /\ reload_requested' = FALSE

load_configuration == ApplyScanned /\ UNCHANGED reload_requested

-----------------------------------------------------------------------------
(* Input: EvdevInputSource.                                                *)

\* poll() reports the devices that have events; with none it times out or is
\* interrupted by a signal.
poll ==
  /\ pc = "poll"
  /\ ready' = {i \in 1..Len(DeviceOrder) : queue[DeviceOrder[i]] # <<>>}
  /\ pc' = IF ready' = {} THEN "step" ELSE "read"
  /\ UNCHANGED <<matcher, settings, capture, events, pending, bar, flags,
                 world, history>>

read_events_from_fd ==
  /\ pc = "read"
  /\ LET first == CHOOSE i \in ready : \A j \in ready : i <= j
         d == DeviceOrder[first]
         n == IF Len(queue[d]) < ReadMax THEN Len(queue[d]) ELSE ReadMax
     IN  /\ events' = events \o SubSeq(queue[d], 1, n)
         /\ queue' = [queue EXCEPT ![d] = SubSeq(@, n + 1, Len(@))]
         /\ ready' = ready \ {first}
  /\ pc' = IF ready' = {} THEN "step" ELSE "read"
  /\ UNCHANGED <<matcher, settings, capture, pending, bar, flags, held,
                 expired, disk, page, history>>

\* The results of the ioctls are ignored: the group counts as grabbed whatever
\* the kernel granted.
grab ==
  /\ group_grabbed' = TRUE
  /\ IF GrabFails
       THEN \E granted \in SUBSET Device : grabbed' = grabbed \cup granted
       ELSE grabbed' = Device

\* MUTANT: a group that was granted in part counts as not grabbed.
release_if_all_granted ==
  /\ group_grabbed' = FALSE
  /\ grabbed' = IF group_grabbed /\ grabbed = Device THEN {} ELSE grabbed

release ==
  /\ group_grabbed' = FALSE
  /\ grabbed' = IF group_grabbed THEN {} ELSE grabbed

-----------------------------------------------------------------------------
(* step(): the events that were read, in order, then the timer.            *)

release_if_capturing ==
  /\ is_capturing' = FALSE
  /\ IF is_capturing THEN release ELSE UNCHANGED <<group_grabbed, grabbed>>

\* Script and KindleKeys actions are accepted by execute() and do nothing.
handle_completed_match(codes, continue) ==
  /\ release_if_capturing
  /\ bar' = hide_status(bar)
  /\ LET found == find_action(actions, codes) IN
       IF found \in {"Shell", "SendKeys", "Screenshot"}
         THEN action' = found /\ resume' = continue /\ pc' = "execute"
         ELSE pc' = continue /\ UNCHANGED <<pending>>

\* One event of the batch.  process_key_event never returns Cancelled, so the
\* branch of the code for it is not reached.
ProcessKeyEvent ==
  /\ pc = "step" /\ events # <<>>
  /\ process_key_event(config, Head(events).code, Head(events).type)
  /\ events' = Tail(events)
  /\ \/ /\ result'.type = "StartCapture"
        /\ is_capturing' = TRUE
        /\ IF is_capturing THEN UNCHANGED <<group_grabbed, grabbed>> ELSE grab
        /\ bar' = show_status(bar)
        /\ expired' = FALSE
        /\ began' = loaded
        /\ UNCHANGED <<pc, pending>>
     \/ /\ result'.type = "KeyAppended"
        /\ bar' = show_status(bar)
        /\ expired' = FALSE
        /\ UNCHANGED <<capture, pc, pending, began>>
     \/ /\ result'.type = "SequenceComplete"
        /\ handle_completed_match(result'.sequence, "step")
        /\ UNCHANGED <<expired, began>>
     \/ /\ result'.type = "None"
        /\ UNCHANGED <<capture, bar, expired, pc, pending, began>>
  /\ UNCHANGED <<settings, ready, flags, held, queue, disk, page, loaded,
                 wanted, dropped>>

TimerDue == is_capturing /\ expired

\* MUTANT: a matcher that was not capturing needs no clean-up.
GiveUp_nothing == UNCHANGED <<capture, bar>>

GiveUp ==
  /\ release
  /\ is_capturing' = FALSE
  /\ bar' = hide_status(bar)

\* A timeout executes what was typed.  When a reload has put the matcher back
\* to Idle during a capture, the devices are released all the same.
check_timer ==
  /\ pc = "step" /\ events = <<>>
  /\ \/ /\ ~TimerDue
        /\ pc' = "run"
        /\ UNCHANGED <<matcher, capture, bar, pending>>
     \/ /\ TimerDue
        /\ on_timeout
        /\ \/ /\ result'.type = "SequenceComplete"
              /\ handle_completed_match(result'.sequence, "run")
           \/ /\ result'.type # "SequenceComplete"
              /\ GiveUp
              /\ pc' = "run"
              /\ UNCHANGED pending
  /\ UNCHANGED <<settings, batch, flags, world, history>>

-----------------------------------------------------------------------------
(* ActionExecutor and the end of the program.                              *)

\* A shell command blocks the loop; the other actions are done at once.
execute ==
  /\ pc = "execute"
  /\ action' = "None"
  /\ \/ /\ action = "Shell"
        /\ bar' = show_status(bar)
        /\ pc' = "shell"
     \/ /\ action = "SendKeys"
        /\ bar' = hide_status(bar)
        /\ pc' = resume
     \/ /\ action = "Screenshot"
        /\ bar' = hide_status(show_result(show_status(bar)))
        /\ pc' = resume
  /\ UNCHANGED <<matcher, settings, capture, batch, resume, flags, world,
                 history>>

\* The command ends, well or badly: system() returns.
CommandReturns ==
  /\ pc = "shell"
  /\ bar' = hide_status(show_result(bar))
  /\ pc' = resume
  /\ UNCHANGED <<matcher, settings, capture, batch, pending, flags, world,
                 history>>

\* MUTANT: the input source is closed by the kernel only.
Exit_keeps_grab ==
  /\ pc = "exit"
  /\ pc' = "exited"
  /\ UNCHANGED <<matcher, settings, capture, batch, pending, bar, flags,
                 world, history>>

\* main returns: the destructors release the devices and leave the bar alone.
Exit ==
  /\ pc = "exit"
  /\ release
  /\ pc' = "exited"
  /\ UNCHANGED <<matcher, settings, is_capturing, batch, pending, bar, flags,
                 world, history>>

Daemon ==
  \/ run \/ scan_directory \/ load_configuration
  \/ poll \/ read_events_from_fd
  \/ ProcessKeyEvent \/ check_timer
  \/ execute \/ Exit

-----------------------------------------------------------------------------
(* The surroundings.                                                       *)

\* The kernel queues an event; a full queue refuses the user or, when
\* DropsEvents, loses what it held.
Enqueue(event) ==
  LET d == DeviceOf[event.code] IN
    \/ /\ Len(queue[d]) < MaxQueue
       /\ queue' = [queue EXCEPT ![d] = Append(@, event)]
       /\ UNCHANGED dropped
    \/ /\ Len(queue[d]) = MaxQueue /\ DropsEvents
       /\ queue' = [queue EXCEPT ![d] = <<event>>]
       /\ dropped' = TRUE

PressKey(k) ==
  /\ pc # "exited"
  /\ k \notin held
  /\ Len(sequence) < MaxSequence \/ k = config.trailer
  /\ keys_down < MaxDown
  /\ held' = held \cup {k}
  /\ Enqueue([code |-> k, type |-> "Pressed"])
  /\ UNCHANGED <<matcher, daemon, flags, expired, disk, page, loaded, began,
                 wanted>>

ReleaseKey(k) ==
  /\ pc # "exited"
  /\ k \in held
  /\ held' = held \ {k}
  /\ Enqueue([code |-> k, type |-> "Released"])
  /\ UNCHANGED <<matcher, daemon, flags, expired, disk, page, loaded, began,
                 wanted>>

\* hot_interval elapses; the clock matters only while capturing.
TimeExpires ==
  /\ is_capturing /\ ~expired
  /\ expired' = TRUE
  /\ UNCHANGED <<matcher, daemon, flags, held, queue, disk, page, history>>

EditConfig ==
  /\ pc # "exited"
  /\ disk + 1 \in Version
  /\ disk' = disk + 1
  /\ UNCHANGED <<matcher, daemon, flags, held, queue, expired, page, history>>

Repainted ==
  /\ pc # "exited"
  /\ page < MaxPage
  /\ page' = page + 1
  /\ bar' = Repaint(bar, page')
  /\ UNCHANGED <<matcher, pc, settings, capture, batch, pending, flags, held,
                 queue, expired, disk, history>>

\* handle_signal; system() ignores SIGINT while it waits for the command.
handle_signal(s) ==
  /\ pc # "exited"
  /\ s \in Signal
  /\ reload_requested' = (reload_requested \/ s = "HUP")
  /\ shutdown_requested' = (shutdown_requested \/ s = "TERM"
                              \/ (s = "INT" /\ pc # "shell"))
  /\ wanted' = IF s = "HUP" THEN disk ELSE wanted
  /\ UNCHANGED <<matcher, daemon, world, loaded, began, dropped>>

Environment ==
  \/ \E k \in Key : PressKey(k) \/ ReleaseKey(k)
  \/ \E s \in Signal : handle_signal(s)
  \/ TimeExpires \/ EditConfig \/ Repainted

\* The program has ended.
Ended == pc = "exited" /\ UNCHANGED vars

Next == Daemon \/ CommandReturns \/ Environment \/ Ended

Spec == Init /\ [][Next]_vars

\* The daemon is scheduled and the clock runs.  Nothing makes the user type,
\* anyone send a signal, or a shell command end.
FairSpec == Spec /\ WF_vars(Daemon) /\ WF_vars(TimeExpires)

-----------------------------------------------------------------------------
(* Safety.                                                                 *)

TypeOK ==
  /\ MatcherTypeOK
  /\ pc \in Location
  /\ scanned \in Version
  /\ config \in MatcherConfig
  /\ actions \in [DOMAIN actions -> ActionKind]
  /\ is_capturing \in BOOLEAN /\ group_grabbed \in BOOLEAN
  /\ grabbed \in SUBSET Device
  /\ ready \in SUBSET (1..Len(DeviceOrder)) /\ events \in Seq(Event)
  /\ action \in ActionKind \cup {"None"} /\ resume \in {"run", "step"}
  /\ bar \in Bar
  /\ reload_requested \in BOOLEAN /\ shutdown_requested \in BOOLEAN
  /\ held \in SUBSET Key /\ queue \in [Device -> Seq(Event)]
  /\ expired \in BOOLEAN /\ disk \in Version /\ page \in 1..MaxPage
  /\ {loaded, began, wanted} \subseteq Version /\ dropped \in BOOLEAN

\* The daemon knows at all times whether it holds a device, although it does
\* not look at the results of EVIOCGRAB: the matcher captures only while
\* is_capturing, no device stays grabbed outside a capture even when only some
\* were granted, and it never blocks in a shell command with one grabbed.
CapturingIsGrabbed ==
  /\ state = "Capturing" => is_capturing
  /\ pc # "exited" => (is_capturing <=> group_grabbed)
  /\ grabbed # {} => is_capturing /\ pc \notin {"execute", "shell", "exited"}

\* Every SIGHUP is followed by a scan that starts after it: while the files
\* of its time are not loaded, the flag is set or a scan that will see them
\* is under way.
NoLostReload ==
  wanted > loaded =>
    \/ reload_requested
    \/ pc = "reload"
    \/ pc = "apply" /\ scanned >= wanted

\* All keys of a sequence are collected, and its action is looked up, under
\* the configuration that was in force when the capture began: a reload never
\* leaves keys behind that were typed for the previous configuration.
OneConfigurationPerSequence == state = "Capturing" => began = loaded

\* When every key is up and every event has been processed, the matcher
\* counts no key and is not armed, whatever reloads happened in between and in
\* whatever order the devices were read: keys_down is the "number of currently
\* depressed keys".  A full kernel queue breaks this: SYN_DROPPED is skipped.
Quiet == held = {} /\ events = <<>> /\ \A d \in Device : queue[d] = <<>>
QuietMeansNoKeysDown ==
  Quiet /\ ~dropped => keys_down = 0 /\ ~introducer_armed

\* The bar's own text is never taken for the page: it is not on the screen
\* when the bar is inactive, and never in the saved background.
BarLeavesNoText ==
  /\ ~bar.active => bar.screen # BarText /\ bar.saved = <<>>
  /\ bar.active => Len(bar.saved) = 1 /\ bar.saved[1] # BarText

-----------------------------------------------------------------------------
(* Liveness, of FairSpec.                                                  *)

Typing == \E k \in Key : PressKey(k)

\* The keyboard is not grabbed for ever: the daemon releases it again and
\* again unless the user types for ever.
GrabReleased == []<>(grabbed = {}) \/ []<><<Typing>>_vars

CommandsEnd == []<>(pc # "shell")

\* If every shell command ends, a reload that was asked for happens, unless
\* the daemon is told to terminate.
ReloadHappens ==
  CommandsEnd =>
    \A v \in Version : (wanted = v) ~> (loaded >= v \/ shutdown_requested)

\* If every shell command ends, a termination that was noted ends the daemon
\* with the devices released.
ShutdownCompletes ==
  CommandsEnd => (shutdown_requested ~> (pc = "exited" /\ grabbed = {}))

\* If every shell command ends and the user stops typing, the status bar
\* disappears, provided that nobody reloads, whose message stays until the
\* next capture, and that the daemon is not terminated, which leaves the bar.
BarHidden ==
  CommandsEnd /\ []~reload_requested /\ []~shutdown_requested
    => []<>~bar.active \/ []<><<Typing>>_vars
=============================================================================
