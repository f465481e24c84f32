-------------------------- MODULE LegacyHotkeyProofs --------------------------
(***************************************************************************)
(* The hotkey loop of the C daemon, for any keys, devices and time limit:  *)
(* wherever the alarm interrupts main, hot mode has its alarm and the      *)
(* grab, and a captured sequence is looked up once at most.                *)
(***************************************************************************)
EXTENDS LegacyHotkey, TLAPS

\* The types that the argument needs.
Types ==
  /\ pc \in Location
  /\ hotkey_mode \in BOOLEAN /\ input_captured \in BOOLEAN
  /\ timer \in BOOLEAN /\ handled \in BOOLEAN
  /\ hot_sequence_length \in Nat /\ index \in Nat /\ ran \in Nat

\* A loop starts outside hot mode; a capture that is still on has not been
\* looked up; and if the alarm ends it while main is at the trailer, nothing is
\* left for main to look up.
Pending ==
  /\ pc = "init" => ~hotkey_mode
  /\ hotkey_mode => ran = 0
  /\ pc \in {"trailer", "disarm"} /\ ~hotkey_mode => hot_sequence_length = 0

IInv == Types /\ Pending /\ HotModeIsTimed /\ LookedUpOnce

\* The invariant holds initially.
LEMMA InitIInv == Init => IInv
<1> SUFFICES ASSUME Init PROVE IInv
  OBVIOUS
<1>1. Types
  BY DEF Init, Types, Location
<1>2. Pending /\ HotModeIsTimed
  BY DEF Init, Pending, HotModeIsTimed
<1>3. LookedUpOnce
  BY DEF Init, LookedUpOnce
<1> QED
  BY <1>1, <1>2, <1>3 DEF IInv

\* A step that leaves hot mode, the grab, the alarm and the sequence alone and
\* does not go to the places where they matter.
LEMMA PlainStep ==
  ASSUME IInv, pc' \in Location,
         pc' \in {"init", "trailer", "disarm"} => pc' = pc,
         pc' \in {"loop", "read", "event", "append"} =>
           pc \in {"loop", "read", "event", "append"} \/ ~hotkey_mode,
         UNCHANGED <<hotkey_mode, hot_sequence_length, index, capture, alarm, ran>>
  PROVE  IInv'
BY DEF IInv, Types, Pending, HotModeIsTimed, LookedUpOnce, capture, alarm

\* Where Done leads to.
LEMMA DoneGoes == Done => pc' \in {"event", "read", "loop"}
BY DEF Done

\* The beginning and the end of a loop.
LEMMA LoopStep ==
  ASSUME IInv, Again \/ Initialise \/ Teardown \/ Close
  PROVE  IInv'
<1> USE DEF IInv, Types, Pending, HotModeIsTimed, LookedUpOnce, Location
<1>1. CASE Again
  BY <1>1 DEF Again, capture, alarm
<1>2. CASE Initialise
  <2>1. pc = "init" /\ pc' \in {"loop", "teardown", "exited"}
    BY <1>2 DEF Initialise
  <2> QED
    BY <1>2, <2>1, PlainStep DEF Initialise
<1>3. CASE Teardown
  BY <1>3 DEF Teardown, capture
<1>4. CASE Close
  BY <1>4 DEF Close, Release
<1> QED
  BY <1>1, <1>2, <1>3, <1>4

\* select(), read() and a quiet second.
LEMMA SelectStep ==
  ASSUME IInv, Select \/ Read \/ Idle
  PROVE  IInv'
<1>1. CASE Select
  BY <1>1, PlainStep DEF Select, Location
<1>2. CASE Read
  BY <1>2, PlainStep DEF Read, Location
<1>3. CASE Idle
  BY <1>3 DEF Idle, IInv, Types, Pending, HotModeIsTimed, LookedUpOnce, capture, alarm
<1> QED
  BY <1>1, <1>2, <1>3

\* An event: only the release of the introducer changes the mode, and then the
\* grab, the timer and its handler come with it.
LEMMA EventStep ==
  ASSUME IInv, process_input_event
  PROVE  IInv'
<1>1. pc = "event" /\ UNCHANGED hot_sequence_length
  BY DEF process_input_event
<1>2. CASE event.type = "Pressed" /\ ~hotkey_mode /\ Done
           /\ UNCHANGED <<index, hotkey_mode, capture, alarm, ran>>
  BY <1>1, <1>2, DoneGoes, PlainStep DEF Location
<1>3. CASE hotkey_mode /\ pc' = "trailer"
           /\ UNCHANGED <<index, hotkey_mode, capture, alarm, ran>>
  BY <1>1, <1>3 DEF IInv, Types, Pending, HotModeIsTimed, LookedUpOnce, Location,
                    capture, alarm
<1>4. CASE pc' = "append" /\ index' = hot_sequence_length
           /\ UNCHANGED <<hotkey_mode, capture, alarm, ran>>
  BY <1>1, <1>4 DEF IInv, Types, Pending, HotModeIsTimed, LookedUpOnce, Location,
                    capture, alarm
<1>5. CASE Done /\ EnterHotMode /\ UNCHANGED index
  <2>1. /\ hotkey_mode' /\ input_captured' /\ ran' = 0
        /\ timer' = (hot_interval # 0) /\ handled' = (hot_interval # 0)
        /\ hotkey_mode' \in BOOLEAN /\ input_captured' \in BOOLEAN
    BY <1>5 DEF EnterHotMode, capture_input
  <2>2. pc' \in {"event", "read", "loop"}
    BY <1>5, DoneGoes
  <2>3. Types'
    BY <1>1, <1>5, <2>1, <2>2 DEF IInv, Types, Location
  <2>4. Pending' /\ HotModeIsTimed'
    BY <2>1, <2>2 DEF Pending, HotModeIsTimed
  <2>5. LookedUpOnce'
    BY <2>1 DEF LookedUpOnce
  <2> QED
    BY <2>3, <2>4, <2>5 DEF IInv
<1>6. CASE Done /\ UNCHANGED <<index, hotkey_mode, capture, alarm, ran>>
  BY <1>1, <1>6, DoneGoes, PlainStep DEF Location
<1> QED
  BY <1>2, <1>3, <1>4, <1>5, <1>6 DEF process_input_event

\* The end of a key's storing; the index may be stale, the mode is not.
LEMMA StoreStep ==
  ASSUME IInv, StoreKey
  PROVE  IInv'
<1>1. pc' \in {"event", "read", "loop"}
  BY DoneGoes DEF StoreKey
<1>2. pc = "append" /\ hot_sequence_length' = index + 1 /\ index' = 0
      /\ UNCHANGED <<hotkey_mode, capture, alarm, ran>>
  BY DEF StoreKey
<1> QED
  BY <1>1, <1>2 DEF IInv, Types, Pending, HotModeIsTimed, LookedUpOnce, Location,
                    capture, alarm

\* Looking a sequence up counts at most one, and leaves none behind.
LEMMA LookUpOnce ==
  ASSUME IInv, LookUp, ~hotkey_mode => hot_sequence_length = 0
  PROVE  ran' \in Nat /\ ran' <= 1 /\ hot_sequence_length' = 0
BY DEF IInv, Types, Pending, LookedUpOnce, LookUp

\* The trailer: the sequence is looked up by main unless the alarm has done it.
LEMMA TrailerStep ==
  ASSUME IInv, StartTrailer \/ FinishTrailer
  PROVE  IInv'
<1>1. CASE StartTrailer
  BY <1>1 DEF StartTrailer, IInv, Types, Pending, HotModeIsTimed, LookedUpOnce,
              Location, capture
<1>2. CASE FinishTrailer
  <2>1. pc' \in {"event", "read", "loop"}
    BY <1>2, DoneGoes DEF FinishTrailer
  <2>2. ran' \in Nat /\ ran' <= 1 /\ hot_sequence_length' = 0
    BY <1>2, LookUpOnce DEF FinishTrailer, IInv, Pending
  <2>3. hotkey_mode' = FALSE /\ timer' = FALSE /\ Release
        /\ UNCHANGED <<index, handled>>
    BY <1>2 DEF FinishTrailer
  <2>4. Types'
    BY <2>1, <2>2, <2>3 DEF IInv, Types, Release, Location
  <2>5. Pending' /\ HotModeIsTimed'
    BY <2>1, <2>2, <2>3 DEF Pending, HotModeIsTimed, Release
  <2>6. LookedUpOnce'
    BY <2>2 DEF LookedUpOnce
  <2> QED
    BY <2>4, <2>5, <2>6 DEF IInv
<1> QED
  BY <1>1, <1>2

\* The alarm, handled or not, at any point of main.
LEMMA AlarmStep ==
  ASSUME IInv, alarm_handler \/ AlarmKills
  PROVE  IInv'
<1>1. CASE alarm_handler
  <2>1. CASE hotkey_mode /\ ~hotkey_mode' /\ LookUp
    <3>1. ran' \in Nat /\ ran' <= 1 /\ hot_sequence_length' = 0
      BY <2>1, LookUpOnce
    <3>2. hotkey_mode' = FALSE
      BY <1>1, <2>1 DEF alarm_handler
    <3>3. timer' = FALSE /\ handled' = FALSE /\ Release /\ UNCHANGED <<pc, index>>
      BY <1>1 DEF alarm_handler
    <3>4. Types'
      BY <3>1, <3>2, <3>3 DEF IInv, Types, Release
    <3>5. Pending' /\ HotModeIsTimed'
      BY <3>1, <3>2, <3>3 DEF Pending, HotModeIsTimed, Release
    <3>6. LookedUpOnce'
      BY <3>1 DEF LookedUpOnce
    <3> QED
      BY <3>4, <3>5, <3>6 DEF IInv
  <2>2. CASE ~hotkey_mode /\ UNCHANGED <<hotkey_mode, hot_sequence_length, ran>>
    BY <1>1, <2>2 DEF alarm_handler, Release, IInv, Types, Pending, HotModeIsTimed,
                      LookedUpOnce
  <2> QED
    BY <1>1, <2>1, <2>2 DEF alarm_handler
<1>2. CASE AlarmKills
  BY <1>2 DEF AlarmKills, Release, IInv, Types, Pending, HotModeIsTimed, LookedUpOnce,
              Location
<1> QED
  BY <1>1, <1>2

\* Signals, the user, and steps that change nothing.
LEMMA OtherStep ==
  ASSUME IInv,
         \/ hup_handler \/ term_handler \/ UNCHANGED vars
         \/ \E k \in Key : PressKey(k) \/ ReleaseKey(k)
  PROVE  IInv'
<1>1. UNCHANGED <<pc, index, hotkey_mode, hot_sequence_length, capture, alarm, ran>>
  BY DEF hup_handler, term_handler, vars, PressKey, ReleaseKey
<1> QED
  BY <1>1 DEF IInv, Types, Pending, HotModeIsTimed, LookedUpOnce, capture, alarm

\* The inductive invariant of the loop and its alarm.
THEOREM LoopInvariant == Spec => []IInv
<1>1. IInv /\ [Next]_vars => IInv'
  BY LoopStep, SelectStep, EventStep, StoreStep, TrailerStep, AlarmStep, OtherStep
  DEF Next, Main, Ended
<1> QED
  BY InitIInv, <1>1, PTL DEF Spec

\* In hot mode the devices are captured and a handled alarm is pending, unless
\* main is at the end of the trailer or of the loop.
THEOREM HotModeHasAlarm == Spec => []HotModeIsTimed
<1>1. IInv => HotModeIsTimed
  BY DEF IInv
<1> QED
  BY LoopInvariant, <1>1, PTL

\* The trailer and the alarm together look a captured sequence up once at most.
THEOREM SequenceLookedUpOnce == Spec => []LookedUpOnce
<1>1. IInv => LookedUpOnce
  BY DEF IInv
<1> QED
  BY LoopInvariant, <1>1, PTL
=============================================================================
