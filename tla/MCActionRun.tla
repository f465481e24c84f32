----------------------------- MODULE MCActionRun -----------------------------
(* Every printable character, sent as a string, as a token and as a key of  *)
(* a kindle script; every special key as a hotkey.                          *)
EXTENDS ActionRun

Word(open, chars, close, name) ==
  [open |-> open, chars |-> chars, close |-> close, name |-> name]

Printable == 33..126

MCBinding ==
  LET Bind(kind, words) == [key |-> "a", kind |-> kind, words |-> words]
      words == {Word(34, <<c>>, 34, "") : c \in Printable \ {34, 92}}
               \cup {Word(0, <<c>>, 0, "") : c \in Printable \ {34, 39, 92}}
               \cup {Word(34, <<97, 32, 98>>, 34, "")}
      named == {Word(0, <<>>, 0, n) : n \in {"fw_up", "menu", "enter"}}
      keys  == {Word(39, <<c>>, 39, "") : c \in Printable}
               \cup {Word(39, <<>>, 39, n) : n \in {"fw_up", "back"}}
      del   == Word(0, <<>>, 0, "del")
      a     == Word(39, <<97>>, 39, "")
  IN  {Bind("SendKeys", <<w>>) : w \in words \cup named}
      \cup {Bind("KindleKeys", <<w>>) : w \in words \cup keys}
      \cup {Bind("SendKeys", <<Word(34, <<92, 34, 120>>, 34, "")>>)}
      \cup {Bind("KindleKeys", <<Word(34, <<64, 46>>, 34, ""), a>>)}
      \cup {Bind("KindleScript", <<del, Word(34, <<63>>, 34, ""), a, del>>)}
      \cup {[key |-> k, kind |-> "Shell", words |-> <<>>] : k \in DeviceKey}
      \cup {Bind("Screenshot", <<>>)}

MCDisturbed ==
  {b \in MCBinding : \/ b.kind \in {"Screenshot", "KindleScript"}
                     \/ b.kind = "Shell" /\ b.key = "a"
                     \/ Len(b.words) > 1}

MCFont == [c \in 0..2 |-> [i \in 0..1 |-> <<0, IF c = 0 THEN 0 ELSE 15>>]]
MCName == <<1, 2, 1>>
MCSuccess == <<1>>
MCFailure == <<2>>
=============================================================================
