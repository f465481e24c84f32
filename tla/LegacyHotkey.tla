---------------------------- MODULE LegacyHotkey ----------------------------
(***************************************************************************)
(* The hotkey loop of the C daemon (main.c): the main program, its SIGALRM *)
(* handler, which may run between any two of the main program's steps, and *)
(* the handlers of SIGHUP and SIGTERM.  The variables shared by main and   *)
(* the handlers are plain C variables; a step reads them once, and what it *)
(* has read may be stale when the next step uses it.                       *)
(***************************************************************************)
EXTENDS Integers, Sequences, FiniteSets

CONSTANTS
  Key, introducer, trailer,
  Source,        \* the device that a key belongs to: 1 the keyboard, 2 the
                 \* five-way pad, 3 the volume buttons of a Kindle 3
  GrabFails,     \* devices that somebody else may have grabbed
  hot_interval,  \* milliseconds, 0 for no limit
  Signal,        \* the signals that are sent, of "HUP" and "TERM"
  MaxSequence,   \* bound: keys in one captured sequence
  MaxQueue       \* bound: events in a kernel queue

ASSUME LegacyAssumption ==
  /\ {introducer, trailer} \subseteq Key
  /\ Source \in [Key -> 1..3] /\ GrabFails \subseteq 1..3
  /\ hot_interval \in Nat
  /\ Signal \subseteq {"HUP", "TERM"}
  /\ MaxSequence \in Nat /\ MaxQueue \in Nat

VARIABLES
  pc,                       \* where main is, see Location ("again": the
                            \* handlers are installed)
  ready, buffer,            \* what select() reported, and the events read
  index,                    \* the array index that main has read
  hotkey_mode, introducer_just_pressed, npressed,
  hot_sequence_length,
  input_captured,           \* main wants the devices to be grabbed
  grabbed,                  \* the devices that are
  timer,                    \* the interval timer is running
  handled,                  \* SIGALRM goes to alarm_handler, not SIG_DFL
  keepgoing, reinit,
  held, queue,              \* keys that are down, events in the kernel by device
  ran                       \* history: look-ups since the last capture began

keys == <<introducer_just_pressed, npressed>>
alarm == <<timer, handled>>
control == <<keepgoing, reinit>>
capture == <<input_captured, grabbed>>
input == <<ready, buffer>>
vars == <<pc, input, index, hotkey_mode, keys, hot_sequence_length, capture, alarm,
          control, held, queue, ran>>

Device == {Source[k] : k \in Key}

Location == {"again", "init", "loop", "read", "event", "append", "trailer", "disarm",
             "teardown", "close", "exited", "killed"}

Event == [code: Key, type: {"Pressed", "Released"}]

\* The event files are open and the loop reads them.
Reading == pc \in {"loop", "read", "event", "append", "trailer", "disarm", "teardown",
                   "close"}
Running == pc \notin {"exited", "killed"}

Init ==
  /\ pc = "again" /\ ready = {} /\ buffer = <<>> /\ index = 0
  /\ hotkey_mode = FALSE /\ introducer_just_pressed = FALSE /\ npressed = 0
  /\ hot_sequence_length = 0
  /\ input_captured = FALSE /\ grabbed = {} /\ timer = FALSE /\ handled = FALSE
  /\ keepgoing = TRUE /\ reinit = FALSE
  /\ held = {} /\ queue = [d \in Device |-> <<>>] /\ ran = 0

-----------------------------------------------------------------------------
(* main(): start, restart and end.                                         *)

Again ==
  /\ pc = "again"
  /\ pc' = "init"
  /\ keepgoing' = TRUE /\ reinit' = FALSE
  /\ npressed' = 0 /\ hot_sequence_length' = 0
  /\ hotkey_mode' = FALSE /\ introducer_just_pressed' = FALSE
  /\ UNCHANGED <<input, index, capture, alarm, held, queue, ran>>

\* launchpad_init() and open_event_files(), each of which may fail.  A loop
\* that starts sets keepgoing again.
Initialise ==
  /\ pc = "init"
  /\ \/ pc' = "loop" /\ keepgoing' = TRUE
     \/ pc' \in {"teardown", "exited"} /\ UNCHANGED keepgoing
  /\ UNCHANGED <<input, index, hotkey_mode, keys, hot_sequence_length, capture, alarm,
                 reinit, held, queue, ran>>

\* The loop ends: engage_hotkey_timer(0) first resets the handler ...
Teardown ==
  /\ \/ pc = "loop" /\ ~keepgoing
     \/ pc = "teardown"
  /\ handled' = FALSE
  /\ pc' = "close"
  /\ UNCHANGED <<input, index, hotkey_mode, keys, hot_sequence_length, capture, timer,
                 control, held, queue, ran>>

\* release_input(), or the end of the process.
Release == input_captured' = FALSE /\ grabbed' = {}

\* ... and then stops the timer; the devices are released and closed.
Close ==
  /\ pc = "close"
  /\ timer' = FALSE
  /\ Release
  /\ queue' = [d \in Device |-> <<>>]
  /\ pc' = IF reinit THEN "again" ELSE "exited"
  /\ reinit' = FALSE
  /\ UNCHANGED <<input, index, hotkey_mode, keys, hot_sequence_length, handled, keepgoing,
                 held, ran>>

-----------------------------------------------------------------------------
(* main(): the loop.                                                       *)

\* select() says which of the devices have events.
Select ==
  /\ pc = "loop" /\ keepgoing
  /\ ready' = {d \in Device : queue[d] # <<>>}
  /\ ready' # {}
  /\ pc' = "read"
  /\ UNCHANGED <<buffer, index, hotkey_mode, keys, hot_sequence_length, capture, alarm,
                 control, held, queue, ran>>

\* Two events at most are read from a device that is ready, in the order
\* keyboard, five-way pad, volume, and taken one by one.  keepgoing is not
\* looked at before all of them are done.
Read ==
  /\ pc = "read"
  /\ LET d == CHOOSE d \in ready : \A e \in ready : d <= e
         n == IF Len(queue[d]) < 2 THEN Len(queue[d]) ELSE 2
     IN  /\ ready' = ready \ {d}
         /\ buffer' = SubSeq(queue[d], 1, n)
         /\ queue' = [queue EXCEPT ![d] = SubSeq(@, n + 1, Len(@))]
  /\ pc' = "event"
  /\ UNCHANGED <<index, hotkey_mode, keys, hot_sequence_length, capture, alarm,
                 control, held, ran>>

event == Head(buffer)

\* The event is done: to the next one, the next device, or select().
Done ==
  /\ buffer' = Tail(buffer)
  /\ pc' = IF buffer' # <<>> THEN "event" ELSE IF ready # {} THEN "read" ELSE "loop"
  /\ UNCHANGED ready

\* MUTANT: only the sequence is brought back in sync.
Idle_keeps_npressed ==
  /\ pc = "loop" /\ keepgoing
  /\ \A d \in Device : queue[d] = <<>>
  /\ ~timer \/ hot_interval >= 1000
  /\ hot_sequence_length' = 0
  /\ UNCHANGED <<pc, input, index, hotkey_mode, keys,
                 capture, alarm, control, held, queue, ran>>

\* select() times out after a second without events.
Idle ==
  /\ pc = "loop" /\ keepgoing
  /\ \A d \in Device : queue[d] = <<>>
  /\ ~timer \/ hot_interval >= 1000
  /\ npressed' = 0
  /\ hot_sequence_length' = 0
  /\ UNCHANGED <<pc, input, index, hotkey_mode, introducer_just_pressed,
                 capture, alarm, control, held, queue, ran>>

\* Every device is asked for; one that refuses is left alone.
capture_input ==
  /\ input_captured' = TRUE
  /\ \E refused \in SUBSET (GrabFails \cap Device) : grabbed' = Device \ refused

\* MUTANT: the timer is left to the first key of the sequence.
EnterHotMode_untimed ==
  /\ introducer_just_pressed' = FALSE
  /\ capture_input
  /\ hotkey_mode' = TRUE
  /\ ran' = 0
  /\ UNCHANGED alarm

\* capture_input() and engage_hotkey_timer(hot_interval); the sequence is
\* taken to be empty.
EnterHotMode ==
  /\ introducer_just_pressed' = FALSE
  /\ capture_input
  /\ hotkey_mode' = TRUE
  /\ handled' = (hot_interval # 0) /\ timer' = (hot_interval # 0)
  /\ ran' = 0

\* process_input_event() up to the point where it has read hotkey_mode and,
\* for a key of the sequence, the index at which to store it.
process_input_event ==
  /\ pc = "event"
  /\ \/ /\ event.type = "Pressed" /\ ~hotkey_mode
        /\ npressed' = npressed + 1
        /\ introducer_just_pressed' = (npressed' = 1 /\ event.code = introducer)
        /\ Done
        /\ UNCHANGED <<index, hotkey_mode, capture, alarm, ran>>
     \/ /\ event.type = "Pressed" /\ hotkey_mode /\ event.code = trailer
        /\ npressed' = npressed + 1
        /\ pc' = "trailer" /\ UNCHANGED input
        /\ UNCHANGED <<index, hotkey_mode, introducer_just_pressed,
                       capture, alarm, ran>>
     \/ /\ event.type = "Pressed" /\ hotkey_mode /\ event.code # trailer
        /\ npressed' = npressed + 1
        /\ index' = hot_sequence_length
        /\ pc' = "append" /\ UNCHANGED input
        /\ UNCHANGED <<hotkey_mode, introducer_just_pressed, capture,
                       alarm, ran>>
     \/ /\ event.type = "Released"
        /\ npressed' = npressed - 1
        /\ Done
        /\ IF npressed' = 0 /\ event.code = introducer /\ introducer_just_pressed
             THEN EnterHotMode
             ELSE UNCHANGED <<hotkey_mode, introducer_just_pressed,
                              capture, alarm, ran>>
        /\ UNCHANGED index
  /\ UNCHANGED <<hot_sequence_length, control, held, queue>>

\* hot_sequence[index] = ...; hot_sequence_length = index + 1.  (The codes in
\* the array are those of KeyCodes; here only their number matters.)
StoreKey ==
  /\ pc = "append"
  /\ hot_sequence_length' = index + 1
  /\ index' = 0
  /\ Done
  /\ UNCHANGED <<hotkey_mode, keys, capture, alarm, control, held, queue, ran>>

\* MUTANT: the sequence is looked up but not emptied.
LookUp_keeps_length ==
  /\ ran' = IF hot_sequence_length > 0 THEN ran + 1 ELSE ran
  /\ UNCHANGED hot_sequence_length

\* The sequence, unless it is empty, is looked up and its action executed.
LookUp ==
  /\ ran' = IF hot_sequence_length > 0 THEN ran + 1 ELSE ran
  /\ hot_sequence_length' = 0

\* The trailer: engage_hotkey_timer(0) resets the handler, unless the alarm has
\* come before, which has then looked the sequence up.
StartTrailer ==
  /\ pc = "trailer"
  /\ handled' = FALSE
  /\ pc' = "disarm"
  /\ UNCHANGED <<input, index, hotkey_mode, keys, hot_sequence_length, capture, timer,
                 control, held, queue, ran>>

\* The rest of the trailer's case: the timer is stopped, then the sequence is
\* looked up whether or not the alarm has done so.
FinishTrailer ==
  /\ pc = "disarm"
  /\ timer' = FALSE
  /\ Release
  /\ hotkey_mode' = FALSE
  /\ LookUp
  /\ Done
  /\ UNCHANGED <<index, keys, handled, control, held, queue>>

Main ==
  \/ Again \/ Initialise \/ Select \/ Read \/ Idle \/ process_input_event \/ StoreKey
  \/ StartTrailer \/ FinishTrailer \/ Teardown \/ Close

-----------------------------------------------------------------------------
(* Signals.                                                                *)

\* The timer expires while alarm_handler is installed.
alarm_handler ==
  /\ Running /\ timer /\ handled
  /\ timer' = FALSE /\ handled' = FALSE
  /\ Release
  /\ \/ hotkey_mode /\ hotkey_mode' = FALSE /\ LookUp
     \/ ~hotkey_mode /\ UNCHANGED <<hotkey_mode, hot_sequence_length, ran>>
  /\ UNCHANGED <<pc, input, index, keys, control, held, queue>>

\* The timer expires after engage_hotkey_timer(0) has reset the handler and
\* before it has stopped the timer: the default action ends the process.
AlarmKills ==
  /\ Running /\ timer /\ ~handled
  /\ pc' = "killed"
  /\ timer' = FALSE
  /\ Release
  /\ UNCHANGED <<input, index, hotkey_mode, keys, hot_sequence_length, handled, control, held,
                 queue, ran>>

hup_handler ==
  /\ Running /\ "HUP" \in Signal
  /\ reinit' = TRUE /\ keepgoing' = FALSE
  /\ UNCHANGED <<pc, input, index, hotkey_mode, keys, hot_sequence_length, capture,
                 alarm, held, queue, ran>>

\* int_handler does the same.
term_handler ==
  /\ Running /\ "TERM" \in Signal
  /\ keepgoing' = FALSE
  /\ UNCHANGED <<pc, input, index, hotkey_mode, keys, hot_sequence_length, capture,
                 alarm, reinit, held, queue, ran>>

-----------------------------------------------------------------------------
(* The user.  Keys that change while the files are closed go unnoticed.    *)

Notice(e) ==
  IF Reading
    THEN LET d == Source[e.code] IN
           Len(queue[d]) < MaxQueue /\ queue' = [queue EXCEPT ![d] = Append(@, e)]
    ELSE UNCHANGED queue

PressKey(k) ==
  /\ Running /\ k \notin held
  /\ {hot_sequence_length, index} \subseteq 0..(MaxSequence - 1) \/ k = trailer
  /\ held' = held \cup {k}
  /\ Notice([code |-> k, type |-> "Pressed"])
  /\ UNCHANGED <<pc, input, index, hotkey_mode, keys, hot_sequence_length, capture,
                 alarm, control, ran>>

ReleaseKey(k) ==
  /\ Running /\ k \in held
  /\ held' = held \ {k}
  /\ Notice([code |-> k, type |-> "Released"])
  /\ UNCHANGED <<pc, input, index, hotkey_mode, keys, hot_sequence_length, capture,
                 alarm, control, ran>>

Ended == ~Running /\ UNCHANGED vars

Next ==
  \/ Main
  \/ alarm_handler \/ AlarmKills \/ hup_handler \/ term_handler
  \/ \E k \in Key : PressKey(k) \/ ReleaseKey(k)
  \/ Ended

Spec == Init /\ [][Next]_vars

\* main is scheduled, select() times out, and the timer expires.
FairSpec == Spec /\ WF_vars(Main) /\ WF_vars(alarm_handler)

-----------------------------------------------------------------------------
TypeOK ==
  /\ pc \in Location
  /\ index \in Nat /\ (pc = "event" => buffer # <<>>)
  /\ {hotkey_mode, introducer_just_pressed, input_captured, timer, handled,
      keepgoing, reinit} \subseteq BOOLEAN
  /\ npressed \in Int
  /\ hot_sequence_length \in Nat
  /\ held \in SUBSET Key /\ queue \in [Device -> Seq(Event)]
  /\ ready \subseteq Device /\ buffer \in Seq(Event) /\ grabbed \subseteq Device
  /\ ran \in Nat

\* In hot mode the devices are grabbed and a handled alarm is on its way that
\* will release them, unless main is just doing so itself.
HotModeIsTimed ==
  /\ hotkey_mode /\ pc \in {"loop", "read", "event", "append", "trailer"} =>
       input_captured /\ (hot_interval # 0 => timer /\ handled)
  /\ grabbed # {} => input_captured

\* The trailer and the alarm may both end a capture; its sequence is looked
\* up once at most, wherever the alarm interrupts main.
LookedUpOnce == ran <= 1

\* The devices are never grabbed for ever if there is a time limit, even when
\* the user keeps typing: keys of the sequence do not extend the interval.
GrabReleased == hot_interval # 0 => (grabbed # {} ~> grabbed = {})

\* "Make sure everything is in sync": once the user lets go of the keys for
\* good, the count of pressed keys returns to zero, whatever it had become.
CountIsRepaired ==
  <>[](held = {} /\ Reading) => <>[](npressed = 0)

=============================================================================
