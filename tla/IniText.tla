------------------------------- MODULE IniText -------------------------------
(***************************************************************************)
(* The text of an .ini file as a sequence of tokens, and what it means.    *)
(* A token is one of the characters that the parsers tell apart (brackets, *)
(* the equality sign, the marks of comments and commands, blanks and the   *)
(* end of a line), any other character, or a word, which stands for the    *)
(* characters of a name.  Words are compared as the parsers compare names, *)
(* without regard to case.                                                 *)
(*                                                                         *)
(* The meaning is read line by line; it is the reference for the scanners  *)
(* of the two daemons.                                                     *)
(***************************************************************************)
EXTENDS Naturals, Sequences

LF == "\n"
Blank == {" ", "\t", "\r"}

\* The first position from p on whose token satisfies P, or the end.
Seek(t, p, P(_)) ==
  CHOOSE i \in p..Len(t) + 1 :
    /\ i = Len(t) + 1 \/ P(t[i])
    /\ \A j \in p..i - 1 : ~P(t[j])

First(S) == CHOOSE i \in S : \A j \in S : i <= j
Last(S) == CHOOSE i \in S : \A j \in S : i >= j

\* The element of a set that has one.
Only(S) == CHOOSE x \in S : TRUE

Trim(t) ==
  LET solid == {i \in 1..Len(t) : t[i] \notin Blank}
  IN  IF solid = {} THEN <<>> ELSE SubSeq(t, First(solid), Last(solid))

LineStarts(t) == {p \in 1..Len(t) : p = 1 \/ t[p - 1] = LF}

\* The line that starts at p, without the blanks around it.
LineAt(t, p) == Trim(SubSeq(t, p, Seek(t, p, LAMBDA x : x = LF) - 1))

IsHeader(line) ==
  Len(line) > 2 /\ line[1] = "[" /\ line[2] # "]" /\ \E i \in 3..Len(line) : line[i] = "]"

HeaderName(line) == Trim(SubSeq(line, 2, Seek(line, 2, LAMBDA x : x = "]") - 1))

IsPair(line) ==
  /\ line # <<>> /\ line[1] \notin {"[", "=", ";", "#"}
  /\ \E i \in 1..Len(line) : line[i] = "="

Equals(line) == Seek(line, 1, LAMBDA x : x = "=")
PairName(line) == Trim(SubSeq(line, 1, Equals(line) - 1))
PairValue(line) == Trim(SubSeq(line, Equals(line) + 1, Len(line)))

\* The section that a line belongs to: that of the last header before it.
SectionAt(t, p, default) ==
  LET headers == {h \in LineStarts(t) : h < p /\ IsHeader(LineAt(t, h))}
  IN  IF headers = {} THEN default ELSE HeaderName(LineAt(t, Last(headers)))

\* The positions of the pairs of a section.
PairsIn(t, section, default) ==
  {p \in LineStarts(t) : IsPair(LineAt(t, p)) /\ SectionAt(t, p, default) = section}
=============================================================================
