---------------------------- MODULE MCApplication ----------------------------
\* Small instances: a keyboard with the introducer and the trailer, alone or
\* with a five-way pad of one key.
EXTENDS Application

CONSTANTS shift, enter, sel, keyboard, fiveway

KeysAndPad == {shift, enter, sel}
TwoKeys == {shift, enter}
SameWithPad == [k \in KeysAndPad |-> k]
Same == [k \in TwoKeys |-> k]

OneDevice == <<keyboard>>
TwoDevices == <<keyboard, fiveway>>
AllOnKeyboard == [k \in TwoKeys |-> keyboard]
PadKeyApart == [k \in KeysAndPad |-> IF k = sel THEN fiveway ELSE keyboard]

ShiftShift == <<shift, shift>>

LOCAL Entry(s, kind) == [sequence |-> s, kind |-> kind]

\* A shell command, a second binding of the same keys, a line with an unknown
\* key, a key macro and an action that execute() ignores.
PadVersion ==
  <<[introducer |-> shift, trailer |-> enter,
     entries |-> <<Entry(<<sel>>, "Shell"), Entry(<<sel>>, "SendKeys"), Entry(<<>>, "Shell"),
                   Entry(<<shift>>, "SendKeys"), Entry(<<sel, sel>>, "Script")>>]>>

\* The edit exchanges introducer and trailer and binds another action.
TwoVersions ==
  <<[introducer |-> shift, trailer |-> enter, entries |-> <<Entry(<<shift>>, "Shell")>>],
    [introducer |-> enter, trailer |-> shift, entries |-> <<Entry(<<enter>>, "SendKeys")>>]>>
=============================================================================
