------------------------ MODULE MatcherKeyboardProofs ------------------------
(***************************************************************************)
(* Proofs about MatcherKeyboard for any set of keys, any substitution and  *)
(* any bound: the invariants of a matcher that is fed by a keyboard and    *)
(* reset under it, and that the unreset matcher implements HotkeySession.  *)
(***************************************************************************)
EXTENDS MatcherKeyboard, SequenceMatcherProofs, FiniteSetTheorems

\* The count alone is not inductive: the matcher must also be armed only by a
\* held introducer, and buffer codes only while it captures.
IInv ==
  /\ TypeOK
  /\ CountsKeys
  /\ ArmedByIntroducer
  /\ state = "Idle" => sequence = <<>>

-----------------------------------------------------------------------------
\* The history of deliveries holds a sequence of keys.
LEMMA DeliveryTyped ==
  ASSUME delivered \in Seq(Key), MatcherTypeOK', RecordDelivery
  PROVE  delivered' \in Seq(Key)
  BY DEF MatcherTypeOK, RecordDelivery

\* The set of held keys and its cardinality across a press.
LEMMA HeldPress ==
  ASSUME IsFiniteSet(held), NEW k, k \notin held
  PROVE  /\ IsFiniteSet(held \cup {k})
         /\ Cardinality(held) \in Nat
         /\ Cardinality(held \cup {k}) = Cardinality(held) + 1
  BY FS_AddElement, FS_CardinalityType

\* The same across a release.
LEMMA HeldRelease ==
  ASSUME IsFiniteSet(held), NEW k, k \in held
  PROVE  /\ IsFiniteSet(held \ {k})
         /\ Cardinality(held) \in Nat
         /\ Cardinality(held \ {k}) \in Nat
         /\ Cardinality(held) = Cardinality(held \ {k}) + 1
<1>1. IsFiniteSet(held \ {k}) /\ Cardinality(held \ {k}) = Cardinality(held) - 1
  BY FS_RemoveElement
<1>2. Cardinality(held) \in Nat /\ Cardinality(held \ {k}) \in Nat
  BY <1>1, FS_CardinalityType
<1>3. QED
  BY <1>1, <1>2

-----------------------------------------------------------------------------
\* A press keeps the invariant.
LEMMA PressStep ==
  ASSUME IInv, NEW k \in Key, Press(k)
  PROVE  IInv'
<1> USE DEF IInv
<1>1. TypeOK'
  BY MatcherTyped, DeliveryTyped, HeldPress DEF TypeOK, Press
<1>2. keys_down' = keys_down + 1
  BY DEF Press, process_key_event, handle_idle_press, handle_capturing_press
<1>3. CountsKeys'
  <2>1. Cardinality(held') = Cardinality(held) + 1 /\ Cardinality(held) \in Nat
    BY HeldPress DEF TypeOK, Press
  <2>2. keys_down \in Nat /\ synced' = synced
    BY DEF TypeOK, MatcherTypeOK, Press
  <2>3. QED
    BY <1>2, <2>1, <2>2 DEF CountsKeys
<1>4. ArmedByIntroducer'
  <2>1. CASE state = "Idle"
    <3>a. introducer_armed' = (keys_down' = 1 /\ k = Introducer)
      BY <2>1 DEF Press, process_key_event, handle_idle_press, config
    <3>b. introducer_armed' => keys_down' = 1 /\ k = Introducer
      BY <3>a, Zenon
    <3>1. introducer_armed' => keys_down = 0 /\ k = Introducer
      BY <1>2, <3>b DEF TypeOK, MatcherTypeOK
    <3>2. introducer_armed' /\ synced => held = {}
      BY <3>1, FS_EmptySet DEF TypeOK, CountsKeys
    <3>3. QED
      BY <2>1, <3>1, <3>2 DEF ArmedByIntroducer, TypeOK, Press,
                              process_key_event, handle_idle_press
  <2>2. CASE state = "Capturing"
    BY <2>2 DEF ArmedByIntroducer, Press, process_key_event,
                handle_capturing_press
  <2>3. QED
    BY <2>1, <2>2 DEF Press, process_key_event
<1>5. (state = "Idle" => sequence = <<>>)'
  BY DEF Press, process_key_event, handle_idle_press, handle_capturing_press
<1>6. QED
  BY <1>1, <1>3, <1>4, <1>5

\* A release keeps the invariant: an armed introducer going up always fires,
\* so the matcher is never armed with the introducer up.
LEMMA ReleaseStep ==
  ASSUME IInv, NEW k \in Key, Release(k)
  PROVE  IInv'
<1> USE DEF IInv
<1>1. TypeOK'
  BY MatcherTyped, DeliveryTyped, HeldRelease DEF TypeOK, Release
<1>2. keys_down' = OneKeyUp
  BY DEF Release, process_key_event, handle_idle_release,
         handle_capturing_release
<1>3. CountsKeys'
  <2>1. /\ Cardinality(held) = Cardinality(held') + 1
        /\ Cardinality(held') \in Nat
    BY HeldRelease DEF TypeOK, Release
  <2>2. keys_down \in Nat
    BY DEF TypeOK, MatcherTypeOK
  <2>3. keys_down' <= Cardinality(held')
    BY <1>2, <2>1, <2>2 DEF CountsKeys, OneKeyUp
  <2>4. synced' = (synced \/ held' = {})
    BY DEF Release
  <2>5. synced' => synced \/ held' = {}
    BY <2>4, Zenon
  <2>6. synced => keys_down' = Cardinality(held')
    BY <1>2, <2>1, <2>2 DEF CountsKeys, OneKeyUp
  <2>7. held' = {} => keys_down' = Cardinality(held')
    BY <1>1, <2>1, <2>3, FS_EmptySet DEF TypeOK, MatcherTypeOK
  <2>8. QED
    BY <2>3, <2>5, <2>6, <2>7 DEF CountsKeys
<1>4. ArmedByIntroducer'
  <2>1. introducer_armed' => introducer_armed /\ state = "Idle"
    BY DEF Release, process_key_event, handle_idle_release,
           handle_capturing_release, ArmedByIntroducer
  <2>2. SUFFICES ASSUME introducer_armed'
                 PROVE  ArmedByIntroducer'
    BY DEF ArmedByIntroducer
  <2>3. introducer_armed /\ state = "Idle" /\ keys_down <= 1
    BY <2>1, <2>2 DEF ArmedByIntroducer
  <2>4. OneKeyUp = 0
    BY <2>3 DEF TypeOK, MatcherTypeOK, OneKeyUp
  <2>5. k # Introducer /\ state' = "Idle"
    BY <1>2, <2>2, <2>3, <2>4
       DEF Release, process_key_event, handle_idle_release, config
  <2>6. ~synced
    BY <2>3, <2>5 DEF ArmedByIntroducer, Release
  <2>7. Introducer \in held' /\ ~synced'
    BY <2>3, <2>5, <2>6 DEF ArmedByIntroducer, Release
  <2>8. QED
    BY <1>2, <2>4, <2>5, <2>7 DEF ArmedByIntroducer
<1>5. (state = "Idle" => sequence = <<>>)'
  BY DEF Release, process_key_event, handle_idle_release,
         handle_capturing_release
<1>6. QED
  BY <1>1, <1>3, <1>4, <1>5

\* Timeouts and resets keep the invariant; a reset with keys down is where
\* keys_down falls below the number of held keys.
LEMMA OwnerStep ==
  ASSUME IInv, Timeout \/ Cancel \/ Replace
  PROVE  IInv'
<1> USE DEF IInv
<1>1. TypeOK'
  <2>1. MatcherTypeOK'
    BY MatcherTyped, KeyboardAssumption DEF TypeOK, Timeout, Cancel, Replace
  <2>2. QED
    BY <2>1, DeliveryTyped DEF TypeOK, Timeout, Cancel, Replace
<1>2. CASE Timeout
  BY <1>1, <1>2 DEF Timeout, on_timeout, CountsKeys, ArmedByIntroducer
<1>3. CASE Cancel \/ Replace
  <2>1. /\ state' = "Idle" /\ keys_down' = 0 /\ sequence' = <<>>
        /\ introducer_armed' = FALSE /\ held' = held
    BY <1>3 DEF Cancel, Replace, cancel, NewMatcher
  <2>2. synced' = (held = {})
    BY <1>3 DEF Cancel, Replace
  <2>3. synced' => held = {}
    BY <2>2, Zenon
  <2>4. Cardinality(held) \in Nat /\ (held = {} => Cardinality(held) = 0)
    BY FS_CardinalityType, FS_EmptySet DEF TypeOK
  <2>5. CountsKeys'
    BY <2>1, <2>3, <2>4 DEF CountsKeys
  <2>6. QED
    BY <1>1, <2>1, <2>5 DEF ArmedByIntroducer
<1>4. QED
  BY <1>2, <1>3

-----------------------------------------------------------------------------
\* The invariant of a matcher that is reset under its keyboard: the count
\* never exceeds the number of keys down, whatever is called in which order.
THEOREM ResetInvariant == ResetSpec => []IInv
<1>1. Init => IInv
  <2> SUFFICES ASSUME Init PROVE IInv
    OBVIOUS
  <2> USE DEF Init, MatcherInit
  <2>1. result \in [type: MatcherActionType, sequence: Seq(Key)]
    BY Literals
  <2>2. MatcherTypeOK
    BY <2>1, Literals DEF MatcherTypeOK, MatcherState
  <2>3. TypeOK
    BY <2>2, Literals, FS_EmptySet DEF TypeOK
  <2>4. CountsKeys
    BY FS_EmptySet DEF CountsKeys
  <2>5. QED
    BY <2>3, <2>4 DEF IInv, ArmedByIntroducer
<1>2. IInv /\ [Next]_vars => IInv'
  <2> SUFFICES ASSUME IInv, [Next]_vars
               PROVE  IInv'
    OBVIOUS
  <2>1. CASE UNCHANGED vars
    BY <2>1 DEF vars, matcher, IInv, TypeOK, MatcherTypeOK, CountsKeys,
                ArmedByIntroducer
  <2>2. QED
    BY <2>1, PressStep, ReleaseStep, OwnerStep DEF Next, KeyNext
<1>3. QED
  BY <1>1, <1>2, PTL DEF ResetSpec

\* Type correctness under every order of presses, releases, timeouts, cancels
\* and reloads.
THEOREM TypeCorrect == ResetSpec => []TypeOK
<1>1. IInv => TypeOK
  BY DEF IInv
<1>2. QED
  BY <1>1, ResetInvariant, PTL

\* keys_down never exceeds the number of keys down, and is that number unless
\* cancel() or a new matcher forgot keys that were down.
THEOREM CountIsRight == ResetSpec => []CountsKeys
<1>1. IInv => CountsKeys
  BY DEF IInv
<1>2. QED
  BY <1>1, ResetInvariant, PTL

\* A reset under held keys is forgotten once every key is up.
THEOREM ResetIsForgotten == ResetSpec => []AllUpResynchronises
<1>1. IInv => AllUpResynchronises
  BY FS_EmptySet DEF IInv, TypeOK, MatcherTypeOK, CountsKeys,
                     ArmedByIntroducer, AllUpResynchronises
<1>2. QED
  BY <1>1, ResetInvariant, PTL

\* A capture starts only on a tap of the introducer, resets included.
THEOREM CaptureNeedsTap == ResetSpec => CaptureStartsOnTap
<1>1. IInv /\ [Next]_vars => [TapStep]_vars
  <2> SUFFICES ASSUME IInv, Next, state = "Idle", state' = "Capturing"
               PROVE  /\ Introducer \in held
                      /\ held' = held \ {Introducer}
                      /\ synced => held' = {}
    BY DEF TapStep
  <2>1. PICK k \in Key : Release(k)
    BY DEF Next, KeyNext, Press, Timeout, Cancel, Replace, process_key_event,
           handle_idle_press, on_timeout, cancel, NewMatcher
  <2>2. k = Introducer /\ introducer_armed
    BY <2>1 DEF Release, process_key_event, handle_idle_release, config
  <2>3. QED
    BY <2>1, <2>2 DEF Release, IInv, ArmedByIntroducer
<1>2. QED
  BY <1>1, ResetInvariant, PTL DEF ResetSpec, CaptureStartsOnTap

-----------------------------------------------------------------------------
\* A matcher that is never reset keeps the invariant and stays synchronised.
LEMMA UnresetInvariant == Spec => [](IInv /\ synced = TRUE)
<1>1. Init => synced = TRUE
  BY DEF Init
<1>2. synced = TRUE /\ [KeyNext]_vars => (synced = TRUE)'
  BY DEF KeyNext, Press, Release, Timeout, vars
<1>3. Spec => ResetSpec
  <2>1. [KeyNext]_vars => [Next]_vars
    BY DEF Next
  <2>2. QED
    BY <2>1, PTL DEF Spec, ResetSpec
<1>4. QED
  BY <1>1, <1>2, <1>3, ResetInvariant, PTL DEF Spec

\* The session begins where the matcher does.
LEMMA SessionInit == Init => Session!Init
BY DEF Init, MatcherInit, Session!Init

\* Without a reset since every key was last up, each call is a step of the
\* session over the set of held keys, or leaves the session alone.
LEMMA StepOfSession ==
  ASSUME IInv, synced = TRUE, [KeyNext]_vars
  PROVE  [Session!Next]_(Session!vars)
<1>1. ASSUME NEW k \in Key, Press(k), state = "Idle"
      PROVE  Session!PressWhilePassing(k)
  <2>1. introducer_armed' = (keys_down' = 1 /\ k = Introducer)
    BY <1>1 DEF Press, process_key_event, handle_idle_press, config
  <2>2. keys_down' = 1 <=> held = {}
    BY <1>1, FS_EmptySet, FS_CardinalityType
       DEF Press, process_key_event, handle_idle_press, IInv, CountsKeys,
           TypeOK, MatcherTypeOK
  <2>3. introducer_armed' = (held = {} /\ k = Introducer)
    BY <2>1, <2>2, Zenon
  <2>4. QED
    BY <1>1, <2>3 DEF Press, process_key_event, handle_idle_press, Return,
                      RecordDelivery, Session!PressWhilePassing
<1>2. ASSUME NEW k \in Key, Release(k), state = "Idle"
      PROVE  Session!ReleaseWhilePassing(k)
  <2>1. introducer_armed /\ k = Introducer => keys_down' = 0
    BY <1>2 DEF Release, process_key_event, handle_idle_release, IInv,
                ArmedByIntroducer, TypeOK, MatcherTypeOK, OneKeyUp
  <2>2. QED
    BY <1>2, <2>1 DEF Release, process_key_event, handle_idle_release, config,
                      Return, RecordDelivery, IInv,
                      Session!ReleaseWhilePassing
<1>3. ASSUME NEW k \in Key, Press(k), state = "Capturing", k = Trailer
      PROVE  Session!PressTrailer
  BY <1>3 DEF Press, process_key_event, handle_capturing_press, config, Return,
              RecordDelivery, Session!PressTrailer, Session!End
<1>4. ASSUME NEW k \in Key, Press(k), state = "Capturing", k # Trailer
      PROVE  Session!PressWhileCapturing(k)
  BY <1>4 DEF Press, process_key_event, handle_capturing_press, config, Return,
              RecordDelivery, Session!PressWhileCapturing
<1>5. ASSUME NEW k \in Key, Release(k), state = "Capturing"
      PROVE  Session!ReleaseWhileCapturing(k)
  BY <1>5 DEF Release, process_key_event, handle_capturing_release, Return,
              RecordDelivery, Session!ReleaseWhileCapturing
<1>6. ASSUME Timeout, state = "Capturing"
      PROVE  Session!Expire
  BY <1>6 DEF Timeout, on_timeout, Return, RecordDelivery, Session!Expire,
              Session!End
<1>7. ASSUME (Timeout /\ state = "Idle") \/ UNCHANGED vars
      PROVE  UNCHANGED Session!vars
  <2>1. CASE Timeout /\ state = "Idle"
    BY <2>1 DEF Timeout, on_timeout, Return, RecordDelivery, Session!vars
  <2>2. CASE UNCHANGED vars
    BY <2>2 DEF vars, matcher, Session!vars
  <2>3. QED
    BY <1>7, <2>1, <2>2
<1>8. state = "Idle" \/ state = "Capturing"
  BY DEF IInv, TypeOK, MatcherTypeOK, MatcherState
<1>9. QED
  BY <1>1, <1>2, <1>3, <1>4, <1>5, <1>6, <1>7, <1>8
     DEF KeyNext, Session!Next

\* The counting matcher, when it is never reset, implements HotkeySession.
THEOREM MatcherImplementsSession == Spec => SessionSpec
<1>1. IInv /\ synced = TRUE /\ [KeyNext]_vars => [Session!Next]_(Session!vars)
  BY StepOfSession
<1>2. QED
  BY <1>1, SessionInit, UnresetInvariant, PTL DEF Spec, SessionSpec, Session!Spec

\* A matcher that is cancelled or replaced at any time implements it wherever
\* no reset happened since every key was last up.
THEOREM ResetMatcherImplementsSession == ResetSpec => SessionWhileSynced
<1>1. IInv /\ [Next]_vars => [SessionStep]_vars
  <2> SUFFICES ASSUME IInv, synced, KeyNext
               PROVE  Session!Next \/ UNCHANGED Session!vars
    BY DEF SessionStep
  <2>1. synced = TRUE
    BY DEF IInv, TypeOK
  <2>2. QED
    BY <2>1, StepOfSession
<1>2. QED
  BY <1>1, SessionInit, ResetInvariant, PTL DEF ResetSpec, SessionWhileSynced
=============================================================================
