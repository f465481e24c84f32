--------------------------- MODULE MatcherKeyboard ---------------------------
(***************************************************************************)
(* One SequenceMatcher fed by a keyboard.  The keyboard reports each press *)
(* and each release of a key once and in order (autorepeat is dropped by   *)
(* the input source); the owner may report a timeout at any time, and may  *)
(* cancel or replace the matcher while keys are down.                      *)
(***************************************************************************)
EXTENDS SequenceMatcher, FiniteSets

CONSTANTS
  Introducer, Trailer,
  MaxSequence   \* bound: keys captured in one session

ASSUME KeyboardAssumption ==
  /\ Introducer \in Key
  /\ Trailer \in Key
  /\ MaxSequence \in Nat

VARIABLES
  held,       \* history: the keys that are down
  delivered,  \* history: the sequence of the last SequenceComplete
  synced      \* history: no reset happened since every key was last up

vars == <<matcher, held, delivered, synced>>

config == [introducer |-> Introducer, trailer |-> Trailer]

Init ==
  /\ MatcherInit
  /\ held = {}
  /\ delivered = <<>>
  /\ synced = TRUE

RecordDelivery ==
  delivered' = IF result'.type = "SequenceComplete"
                 THEN result'.sequence
                 ELSE delivered

Press(k) ==
  /\ k \notin held
  /\ Len(sequence) < MaxSequence \/ k = Trailer
  /\ held' = held \cup {k}
  /\ process_key_event(config, k, "Pressed")
  /\ RecordDelivery
  /\ UNCHANGED synced

Release(k) ==
  /\ k \in held
  /\ held' = held \ {k}
  /\ process_key_event(config, k, "Released")
  /\ RecordDelivery
  /\ synced' = (synced \/ held' = {})

Timeout ==
  /\ on_timeout
  /\ RecordDelivery
  /\ UNCHANGED <<held, synced>>

\* cancel() forgets the keys that are down.
Cancel ==
  /\ cancel
  /\ synced' = (held = {})
  /\ UNCHANGED <<held, delivered>>

\* Application::load_configuration assigns a new matcher over the old one.
Replace ==
  /\ NewMatcher
  /\ synced' = (held = {})
  /\ UNCHANGED <<held, delivered>>

KeyNext ==
  \/ \E k \in Key : Press(k) \/ Release(k)
  \/ Timeout

Next == KeyNext \/ Cancel \/ Replace

\* A matcher that lives as long as its keyboard, and one that is reset.
Spec == Init /\ [][KeyNext]_vars
ResetSpec == Init /\ [][Next]_vars

-----------------------------------------------------------------------------
\* Every variable has its type; finitely many keys are down.
TypeOK ==
  /\ MatcherTypeOK
  /\ held \in SUBSET Key /\ IsFiniteSet(held)
  /\ delivered \in Seq(Key)
  /\ synced \in BOOLEAN

\* keys_down counts the keys that are down as long as nothing reset the
\* matcher under them, and it never counts more keys than are down: that is
\* what lets the clamped decrement forget a reset once every key is up.
CountsKeys ==
  /\ keys_down <= Cardinality(held)
  /\ synced => keys_down = Cardinality(held)

\* The matcher is armed only in Idle, with the introducer down and at most
\* one key counted; without a reset the introducer is the only key down.
ArmedByIntroducer ==
  introducer_armed =>
    /\ state = "Idle"
    /\ Introducer \in held
    /\ keys_down <= 1
    /\ synced => held = {Introducer}

\* Whatever resets happened while keys were down, once every key is up the
\* matcher is as good as new: nothing counted and nothing armed, so the next
\* tap of the introducer is recognised.
AllUpResynchronises ==
  held = {} => keys_down = 0 /\ ~introducer_armed

\* A capture starts only at the release of the introducer, and without a
\* reset only when that leaves every key up.
TapStep ==
  (state = "Idle" /\ state' = "Capturing") =>
     /\ Introducer \in held
     /\ held' = held \ {Introducer}
     /\ synced => held' = {}

CaptureStartsOnTap == [][TapStep]_vars

\* The counting matcher implements the session with its set of held keys.
Session == INSTANCE HotkeySession WITH
  mode   <- IF state = "Idle" THEN "passing" ELSE "capturing",
  tap    <- introducer_armed,
  buffer <- sequence

SessionSpec == Session!Spec

\* A matcher that is reset does so wherever no reset happened since every key
\* was last up: it begins as a session, and each call of process_key_event()
\* and on_timeout() is a step of it.
SessionStep == synced /\ KeyNext => Session!Next \/ UNCHANGED Session!vars

SessionWhileSynced == Session!Init /\ [][SessionStep]_vars
=============================================================================
