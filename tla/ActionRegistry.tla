--------------------------- MODULE ActionRegistry ---------------------------
(***************************************************************************)
(* The registry of hotkeys (class ActionRegistry) as operators on the map  *)
(* `actions` from key sequences to kinds of action.  An entry is a line of *)
(* an [Actions] section after ActionParser: the sequence that              *)
(* parse_sequence returned, empty when it returned nothing, and the kind   *)
(* that parse_command chose.                                               *)
(***************************************************************************)
EXTENDS Naturals, Sequences

CONSTANT ScreenshotSequence   \* KPKEY_SHIFT twice, built in

ActionKind == {"Shell", "Script", "KindleKeys", "SendKeys", "Screenshot"}

NoActions == [s \in {} |-> "Shell"]

\* The first binding of a sequence stays.
register_action(actions, s, kind) ==
  [t \in DOMAIN actions \cup {s} |->
     IF t \in DOMAIN actions THEN actions[t] ELSE kind]

\* "None" when the sequence is not bound.
find_action(actions, s) ==
  IF s = ScreenshotSequence THEN "Screenshot"
  ELSE IF s \in DOMAIN actions THEN actions[s]
  ELSE "None"

\* Registers the entries in order; a line whose keys are unknown is skipped.
RegisterAll(actions, entries) ==
  LET upto[i \in 0..Len(entries)] ==
        IF i = 0 THEN actions
        ELSE IF entries[i].sequence = <<>> THEN upto[i - 1]
        ELSE register_action(upto[i - 1], entries[i].sequence, entries[i].kind)
  IN  upto[Len(entries)]
=============================================================================
