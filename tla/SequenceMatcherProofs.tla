----------------------- MODULE SequenceMatcherProofs -----------------------
(***************************************************************************)
(* Lemmas about the methods of the matcher, for its two owners             *)
(* (MatcherKeyboardProofs, ApplicationProofs).                             *)
(***************************************************************************)
EXTENDS SequenceMatcher, TLAPS

\* The literals the methods return.
LEMMA Literals ==
  /\ <<>> \in Seq(Key)
  /\ "None" \in MatcherActionType
  /\ "StartCapture" \in MatcherActionType
  /\ "KeyAppended" \in MatcherActionType
  /\ "SequenceComplete" \in MatcherActionType
  /\ "Cancelled" \in MatcherActionType
  BY DEF MatcherActionType

\* The type of what a call to Return leaves.
LEMMA ReturnTyped ==
  ASSUME NEW t \in MatcherActionType, NEW codes \in Seq(Key), Return(t, codes)
  PROVE  result' \in [type: MatcherActionType, sequence: Seq(Key)]
  BY DEF Return

\* Every method keeps the fields of the matcher in their types.
LEMMA MatcherTyped ==
  ASSUME MatcherTypeOK, NEW c, NEW k \in Key, NEW t \in {"Pressed", "Released"},
         \/ process_key_event(c, k, t)
         \/ on_timeout
         \/ cancel
         \/ NewMatcher
  PROVE  MatcherTypeOK'
<1>1. CASE handle_idle_press(c, k)
  <2>1. introducer_armed' \in BOOLEAN
    BY <1>1 DEF handle_idle_press
  <2>2. result' \in [type: MatcherActionType, sequence: Seq(Key)]
    BY <1>1, Literals, ReturnTyped DEF handle_idle_press
  <2>3. QED
    BY <1>1, <2>1, <2>2 DEF handle_idle_press, MatcherTypeOK
<1>2. CASE handle_idle_release(c, k)
  <2>1. result' \in [type: MatcherActionType, sequence: Seq(Key)]
    BY <1>2, Literals, ReturnTyped DEF handle_idle_release
  <2>2. introducer_armed' \in BOOLEAN
    BY <1>2 DEF handle_idle_release, MatcherTypeOK
  <2>3. keys_down' \in Nat
    BY <1>2 DEF handle_idle_release, MatcherTypeOK, OneKeyUp
  <2>4. QED
    BY <1>2, <2>1, <2>2, <2>3, Literals
       DEF handle_idle_release, MatcherTypeOK, MatcherState
<1>3. CASE handle_capturing_press(c, k)
  <2>1. Append(sequence, Substitute[k]) \in Seq(Key)
    BY SubstituteAssumption DEF MatcherTypeOK
  <2>2. sequence' \in Seq(Key)
    BY <1>3, <2>1, Literals DEF handle_capturing_press
  <2>3. result' \in [type: MatcherActionType, sequence: Seq(Key)]
    BY <1>3, <2>2, Literals, ReturnTyped
       DEF handle_capturing_press, MatcherTypeOK
  <2>4. QED
    BY <1>3, <2>2, <2>3 DEF handle_capturing_press, MatcherTypeOK, MatcherState
<1>4. CASE handle_capturing_release
  <2>1. result' \in [type: MatcherActionType, sequence: Seq(Key)]
    BY <1>4, Literals, ReturnTyped DEF handle_capturing_release
  <2>2. QED
    BY <1>4, <2>1 DEF handle_capturing_release, MatcherTypeOK, OneKeyUp
<1>5. CASE on_timeout
  <2>1. result' \in [type: MatcherActionType, sequence: Seq(Key)]
    BY <1>5, Literals, ReturnTyped DEF on_timeout, MatcherTypeOK
  <2>2. QED
    BY <1>5, <2>1, Literals DEF on_timeout, MatcherTypeOK, MatcherState
<1>6. CASE cancel \/ NewMatcher
  <2>1. result' \in [type: MatcherActionType, sequence: Seq(Key)]
    BY <1>6, Literals, ReturnTyped DEF cancel, NewMatcher
  <2>2. state' = "Idle" /\ keys_down' = 0 /\ introducer_armed' = FALSE
    BY <1>6 DEF cancel, NewMatcher
  <2>3. sequence' \in Seq(Key)
    BY <1>6, Literals DEF cancel, NewMatcher
  <2>4. QED
    BY <2>1, <2>2, <2>3 DEF MatcherTypeOK, MatcherState
<1>7. QED
  BY <1>1, <1>2, <1>3, <1>4, <1>5, <1>6 DEF process_key_event

\* What the result of an event tells about the state before and after it.
LEMMA EventResult ==
  ASSUME NEW c, NEW k, NEW t, process_key_event(c, k, t)
  PROVE  /\ result'.type = "StartCapture" => state = "Idle" /\ state' = "Capturing"
         /\ result'.type = "KeyAppended" => state = "Capturing" /\ state' = "Capturing"
         /\ result'.type = "SequenceComplete" => state = "Capturing" /\ state' = "Idle"
         /\ result'.type = "None" => state' = state
BY DEF process_key_event, handle_idle_press, handle_idle_release,
       handle_capturing_press, handle_capturing_release, Return

\* The same for a timeout.
LEMMA TimeoutResult ==
  ASSUME on_timeout
  PROVE  /\ result'.type = "SequenceComplete" => state' = "Idle"
         /\ result'.type # "SequenceComplete" => state' = state /\ state # "Capturing"
BY DEF on_timeout, Return
=============================================================================
