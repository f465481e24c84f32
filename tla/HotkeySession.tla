---------------------------- MODULE HotkeySession ----------------------------
(***************************************************************************)
(* What hotkey capture promises to the person at the keyboard, stated with *)
(* the set of keys that are down and no counter: a tap of the introducer   *)
(* alone (pressed with every key up, nothing pressed before it goes up)    *)
(* opens a session; the keys pressed in the session, substituted, are      *)
(* delivered once, when the trailer is pressed.  A session that expires    *)
(* ends without a trace in the next one; whether it delivers is left open. *)
(* MatcherKeyboard refines this specification.                             *)
(***************************************************************************)
EXTENDS Sequences

CONSTANTS Key, Substitute, Introducer, Trailer

VARIABLES
  held,       \* keys down
  mode,       \* "passing" or "capturing"
  tap,        \* the introducer went down alone, nothing pressed since
  buffer,     \* keys of the open session
  delivered   \* the last sequence delivered

vars == <<held, mode, tap, buffer, delivered>>

Init ==
  /\ held = {}
  /\ mode = "passing"
  /\ tap = FALSE
  /\ buffer = <<>>
  /\ delivered = <<>>

PressWhilePassing(k) ==
  /\ mode = "passing" /\ k \notin held
  /\ held' = held \cup {k}
  /\ tap' = (held = {} /\ k = Introducer)
  /\ UNCHANGED <<mode, buffer, delivered>>

ReleaseWhilePassing(k) ==
  /\ mode = "passing" /\ k \in held
  /\ held' = held \ {k}
  /\ IF tap /\ k = Introducer
       THEN mode' = "capturing" /\ tap' = FALSE
       ELSE UNCHANGED <<mode, tap>>
  /\ UNCHANGED <<buffer, delivered>>

PressWhileCapturing(k) ==
  /\ mode = "capturing" /\ k \notin held /\ k # Trailer
  /\ held' = held \cup {k}
  /\ buffer' = Append(buffer, Substitute[k])
  /\ UNCHANGED <<mode, tap, delivered>>

ReleaseWhileCapturing(k) ==
  /\ mode = "capturing" /\ k \in held
  /\ held' = held \ {k}
  /\ UNCHANGED <<mode, tap, buffer, delivered>>

End ==
  /\ mode = "capturing"
  /\ mode' = "passing"
  /\ buffer' = <<>>
  /\ UNCHANGED tap

PressTrailer ==
  /\ Trailer \notin held
  /\ held' = held \cup {Trailer}
  /\ delivered' = buffer
  /\ End

\* The comment on SequenceMatcher::on_timeout and the documents have the
\* sequence cancelled, the unit test has it completed: the session allows both.
Expire ==
  /\ UNCHANGED held
  /\ delivered' \in {buffer, delivered}
  /\ End

Next ==
  \/ \E k \in Key : \/ PressWhilePassing(k)
                    \/ ReleaseWhilePassing(k)
                    \/ PressWhileCapturing(k)
                    \/ ReleaseWhileCapturing(k)
  \/ PressTrailer
  \/ Expire

Spec == Init /\ [][Next]_vars
=============================================================================
