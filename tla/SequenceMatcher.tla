--------------------------- MODULE SequenceMatcher ---------------------------
(***************************************************************************)
(* The hotkey state machine of the C++ daemon (class SequenceMatcher).     *)
(*                                                                         *)
(* The variables are the fields of MatcherContext and the MatcherResult    *)
(* that the last call returned; each method is an action on them.  The     *)
(* modules that own a matcher (MatcherKeyboard, Application) extend this   *)
(* one and say when the methods are called.                                *)
(***************************************************************************)
EXTENDS Integers, Sequences

CONSTANTS
  Key,         \* raw key codes
  Substitute   \* KeyTable::get_substitute_code as a function

ASSUME SubstituteAssumption == Substitute \in [Key -> Key]

VARIABLES
  state,             \* "Idle" or "Capturing"
  keys_down,         \* presses minus releases seen, never below zero
  introducer_armed,  \* the introducer is down and was the first key down
  sequence,          \* substituted codes captured so far
  result             \* the MatcherResult of the last call

matcher == <<state, keys_down, introducer_armed, sequence, result>>

MatcherState == {"Idle", "Capturing"}

MatcherActionType ==
  {"None", "StartCapture", "KeyAppended", "SequenceComplete", "Cancelled"}

MatcherConfig == [introducer: Key, trailer: Key]

MatcherTypeOK ==
  /\ state \in MatcherState
  /\ keys_down \in Nat
  /\ introducer_armed \in BOOLEAN
  /\ sequence \in Seq(Key)
  /\ result \in [type: MatcherActionType, sequence: Seq(Key)]

Return(type, codes) == result' = [type |-> type, sequence |-> codes]

\* A fresh matcher: the initial state, and what load_configuration assigns.
MatcherInit ==
  /\ state = "Idle"
  /\ keys_down = 0
  /\ introducer_armed = FALSE
  /\ sequence = <<>>
  /\ result = [type |-> "None", sequence |-> <<>>]

\* MUTANT: the matcher's state outlives its configuration.
NewMatcher_keeps_state == UNCHANGED matcher

NewMatcher ==
  /\ state' = "Idle"
  /\ keys_down' = 0
  /\ introducer_armed' = FALSE
  /\ sequence' = <<>>
  /\ Return("None", <<>>)

\* MUTANT: the count is decremented without the guard.
OneKeyUp_unclamped == keys_down - 1

OneKeyUp == IF keys_down > 0 THEN keys_down - 1 ELSE 0

-----------------------------------------------------------------------------
\* The introducer arms the matcher only as the first key down; any other
\* press in Idle disarms it.
handle_idle_press(config, code) ==
  /\ keys_down' = keys_down + 1
  /\ introducer_armed' = (keys_down' = 1 /\ code = config.introducer)
  /\ Return("None", <<>>)
  /\ UNCHANGED <<state, sequence>>

\* MUTANT: whichever key goes up last starts the capture.
handle_idle_release_any_key(config, code) ==
  /\ keys_down' = OneKeyUp
  /\ \/ /\ keys_down' = 0 /\ introducer_armed
        /\ introducer_armed' = FALSE
        /\ state' = "Capturing"
        /\ sequence' = <<>>
        /\ Return("StartCapture", <<>>)
     \/ /\ ~(keys_down' = 0 /\ introducer_armed)
        /\ Return("None", <<>>)
        /\ UNCHANGED <<state, introducer_armed, sequence>>

\* Capture starts when the armed introducer is the last key to go up.
handle_idle_release(config, code) ==
  /\ keys_down' = OneKeyUp
  /\ \/ /\ keys_down' = 0 /\ code = config.introducer /\ introducer_armed
        /\ introducer_armed' = FALSE
        /\ state' = "Capturing"
        /\ sequence' = <<>>
        /\ Return("StartCapture", <<>>)
     \/ /\ ~(keys_down' = 0 /\ code = config.introducer /\ introducer_armed)
        /\ Return("None", <<>>)
        /\ UNCHANGED <<state, introducer_armed, sequence>>

\* The trailer, compared as a raw code, ends the sequence; any other key is
\* appended after substitution.
handle_capturing_press(config, code) ==
  /\ keys_down' = keys_down + 1
  /\ \/ /\ code = config.trailer
        /\ sequence' = <<>>
        /\ state' = "Idle"
        /\ Return("SequenceComplete", sequence)
     \/ /\ code # config.trailer
        /\ sequence' = Append(sequence, Substitute[code])
        /\ Return("KeyAppended", sequence')
        /\ UNCHANGED state
  /\ UNCHANGED introducer_armed

\* MUTANT: releases during a capture are not counted.
handle_capturing_release_uncounted ==
  /\ Return("None", <<>>)
  /\ UNCHANGED <<state, keys_down, introducer_armed, sequence>>

handle_capturing_release ==
  /\ keys_down' = OneKeyUp
  /\ Return("None", <<>>)
  /\ UNCHANGED <<state, introducer_armed, sequence>>

process_key_event(config, code, type) ==
  \/ /\ state = "Idle" /\ type = "Pressed"
     /\ handle_idle_press(config, code)
  \/ /\ state = "Idle" /\ type = "Released"
     /\ handle_idle_release(config, code)
  \/ /\ state = "Capturing" /\ type = "Pressed"
     /\ handle_capturing_press(config, code)
  \/ /\ state = "Capturing" /\ type = "Released"
     /\ handle_capturing_release

\* MUTANT: the sequence is handed out but stays in the buffer.
on_timeout_keeps_sequence ==
  \/ /\ state # "Capturing"
     /\ Return("None", <<>>)
     /\ UNCHANGED <<state, keys_down, introducer_armed, sequence>>
  \/ /\ state = "Capturing"
     /\ state' = "Idle"
     /\ Return("SequenceComplete", sequence)
     /\ UNCHANGED <<keys_down, introducer_armed, sequence>>

\* A timeout while capturing completes the sequence typed so far.
on_timeout ==
  \/ /\ state # "Capturing"
     /\ Return("None", <<>>)
     /\ UNCHANGED <<state, keys_down, introducer_armed, sequence>>
  \/ /\ state = "Capturing"
     /\ sequence' = <<>>
     /\ state' = "Idle"
     /\ Return("SequenceComplete", sequence)
     /\ UNCHANGED <<keys_down, introducer_armed>>

cancel ==
  /\ sequence' = <<>>
  /\ state' = "Idle"
  /\ introducer_armed' = FALSE
  /\ keys_down' = 0
  /\ Return("Cancelled", <<>>)
=============================================================================
