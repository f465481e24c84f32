-------------------------- MODULE MCMatcherKeyboard --------------------------
\* Small instance: the introducer, the trailer, two ordinary keys of which one
\* is the Kindle 3 variant of the other.
EXTENDS MatcherKeyboard

CONSTANTS shift, enter, a, k3_a

MCKey == {shift, enter, a, k3_a}
MCSubstitute == [k \in MCKey |-> IF k = k3_a THEN a ELSE k]
=============================================================================
