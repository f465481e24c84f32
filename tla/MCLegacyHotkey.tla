---------------------------- MODULE MCLegacyHotkey ----------------------------
\* The introducer, the trailer and a key of the five-way pad.
EXTENDS LegacyHotkey

CONSTANTS shift, enter, a

MCKey == {shift, enter, a}
MCSource == [k \in MCKey |-> IF k = a THEN 2 ELSE 1]
=============================================================================
