-------------------------- MODULE ApplicationProofs --------------------------
(***************************************************************************)
(* The daemon's main loop, for any keys, devices, configurations, signals  *)
(* and bounds: types, the grab, reloads, the configuration of a sequence   *)
(* and the status bar.                                                     *)
(***************************************************************************)
EXTENDS Application, SequenceMatcherProofs, FiniteSetTheorems, WellFoundedInduction, TLAPS

-----------------------------------------------------------------------------
(* The registry, for any list of entries: of several bindings of one       *)
(* sequence the first one stays, and nothing is bound but what the entries *)
(* bind.  RegisterAll is a recursive function; that it is well defined,    *)
(* and what it computes, is shown by induction over the entries.           *)

\* A set of natural numbers that is not empty has a least element.
LEMMA LeastOfNats ==
  ASSUME NEW T, T \subseteq Nat, T # {}
  PROVE  \E x \in T : \A y \in T : x <= y
<1> DEFINE R == OpToRel(<, Nat)
<1>1. IsWellFoundedOn(R, Nat)
  BY NatLessThanWellFounded
<1>2. \A x, y \in Nat : x < y => <<x, y>> \in R
  BY DEF OpToRel
<1> HIDE DEF R
<1>3. PICK x \in T : \A y \in T : ~(<<y, x>> \in R)
  BY <1>1, WFMin
<1>4. ASSUME NEW y \in T PROVE x <= y
  <2>1. x \in Nat /\ y \in Nat
    OBVIOUS
  <2>2. ~(y < x)
    BY <1>2, <1>3, <2>1
  <2> QED
    BY <2>1, <2>2
<1> QED
  BY <1>4

\* Induction over the natural numbers, for a set of them.
LEMMA InductionOverNat ==
  ASSUME NEW S, 0 \in S, \A n \in Nat : n \in S => n + 1 \in S
  PROVE  Nat \subseteq S
<1> SUFFICES ASSUME Nat \ S # {} PROVE FALSE
  OBVIOUS
<1>1. PICK x \in Nat \ S : \A y \in Nat \ S : x <= y
  BY LeastOfNats
<1>2. x - 1 \in Nat /\ x - 1 \in S
  BY <1>1
<1> QED
  BY <1>2

-----------------------------------------------------------------------------
\* The registry after i entries, given the registries f after fewer.
After(table, entries, f, i) ==
  IF i = 0 THEN table
  ELSE IF entries[i].sequence = <<>> THEN f[i - 1]
  ELSE register_action(f[i - 1], entries[i].sequence, entries[i].kind)

\* f lists the registries after 0, 1, ..., n entries.
Lists(table, entries, f, n) == f = [i \in 0..n |-> After(table, entries, f, i)]

\* One more entry extends the list of registries.
LEMMA ListExtended ==
  ASSUME NEW table, NEW entries, NEW n \in Nat, NEW f, Lists(table, entries, f, n)
  PROVE  \E g : Lists(table, entries, g, n + 1)
<1> DEFINE g == [i \in 0..n + 1 |-> After(table, entries, f, i)]
<1>1. \A i \in 0..n : g[i] = f[i]
  BY DEF Lists
<1>2. \A i \in 0..n + 1 : After(table, entries, f, i) = After(table, entries, g, i)
  <2> SUFFICES ASSUME NEW i \in 0..n + 1, i # 0 PROVE f[i - 1] = g[i - 1]
    BY DEF After
  <2>1. i - 1 \in 0..n
    OBVIOUS
  <2> QED
    BY <1>1, <2>1
<1>3. g = [i \in 0..n + 1 |-> After(table, entries, g, i)]
  BY <1>2
<1> QED
  BY <1>3 DEF Lists

\* There is such a list for every number of entries.
LEMMA ListExists ==
  ASSUME NEW table, NEW entries, NEW n \in Nat
  PROVE  \E f : Lists(table, entries, f, n)
<1> DEFINE S == {m \in Nat : \E f : Lists(table, entries, f, m)}
<1>1. 0 \in S
  <2>1. Lists(table, entries, [i \in 0..0 |-> table], 0)
    BY DEF Lists, After
  <2> QED
    BY <2>1
<1>2. ASSUME NEW m \in Nat, m \in S PROVE m + 1 \in S
  BY <1>2, ListExtended
<1> HIDE DEF S
<1>3. n \in S
  BY <1>1, <1>2, InductionOverNat
<1> QED
  BY <1>3 DEF S

\* RegisterAll is the last registry of such a list.
LEMMA RegisterAllIsLast ==
  ASSUME NEW table, NEW entries, Len(entries) \in Nat
  PROVE  \E f : /\ Lists(table, entries, f, Len(entries))
                /\ RegisterAll(table, entries) = f[Len(entries)]
<1>1. \E f : f = [i \in 0..Len(entries) |-> After(table, entries, f, i)]
  BY ListExists DEF Lists
<1> QED
  BY <1>1, Zenon DEF RegisterAll, After, Lists

-----------------------------------------------------------------------------
\* The entry i is the first that binds s.
FirstFor(entries, i, s) ==
  /\ i \in 1..Len(entries)
  /\ entries[i].sequence = s /\ s # <<>>
  /\ \A j \in 1..i - 1 : entries[j].sequence # s

\* What the registry r says after the first n entries.
SaysFirst(entries, n, r) ==
  /\ r = [s \in DOMAIN r |-> r[s]]
  /\ \A s \in DOMAIN r : \E i \in 1..n : FirstFor(entries, i, s) /\ r[s] = entries[i].kind
  /\ \A i \in 1..n : entries[i].sequence # <<>> => entries[i].sequence \in DOMAIN r

\* One more entry: it is bound when its sequence is new, else it is ignored.
LEMMA OneMoreEntry ==
  ASSUME NEW entries, Len(entries) \in Nat, NEW n \in Nat, n + 1 <= Len(entries),
         NEW r, SaysFirst(entries, n, r)
  PROVE  /\ entries[n + 1].sequence = <<>> => SaysFirst(entries, n + 1, r)
         /\ entries[n + 1].sequence # <<>> =>
              SaysFirst(entries, n + 1, register_action(r, entries[n + 1].sequence,
                                                        entries[n + 1].kind))
<1> DEFINE e == entries[n + 1]
           q == register_action(r, e.sequence, e.kind)
<1>a. 1..n + 1 = 1..n \cup {n + 1} /\ n + 1 \in 1..Len(entries)
  OBVIOUS
<1>1. CASE e.sequence = <<>>
  BY <1>a, <1>1 DEF SaysFirst
<1>2. CASE e.sequence # <<>>
  <2>1. /\ DOMAIN q = DOMAIN r \cup {e.sequence}
        /\ q = [s \in DOMAIN q |-> q[s]]
        /\ \A s \in DOMAIN r : q[s] = r[s]
        /\ e.sequence \notin DOMAIN r => q[e.sequence] = e.kind
    BY DEF register_action
  <2> HIDE DEF q
  <2>2. \A s \in DOMAIN q : \E i \in 1..n + 1 : FirstFor(entries, i, s) /\ q[s] = entries[i].kind
    <3> TAKE s \in DOMAIN q
    <3>1. CASE s \in DOMAIN r
      BY <1>a, <2>1, <3>1 DEF SaysFirst
    <3>2. CASE s \notin DOMAIN r
      <4>1. s = e.sequence /\ q[s] = e.kind
        BY <2>1, <3>2
      <4>2. \A j \in 1..n : entries[j].sequence # s
        BY <1>2, <3>2, <4>1 DEF SaysFirst
      <4>3. FirstFor(entries, n + 1, s)
        BY <1>a, <1>2, <4>1, <4>2 DEF FirstFor
      <4> QED
        BY <1>a, <4>1, <4>3
    <3> QED
      BY <3>1, <3>2
  <2>3. \A i \in 1..n + 1 : entries[i].sequence # <<>> => entries[i].sequence \in DOMAIN q
    BY <1>a, <2>1 DEF SaysFirst
  <2> QED
    BY <1>2, <2>1, <2>2, <2>3 DEF SaysFirst, q
<1> QED
  BY <1>1, <1>2

\* Registering a list of entries binds exactly the sequences of the entries that
\* have one, each to the kind of the first entry that has it: a later binding,
\* also one of a later file, never replaces an earlier one.
THEOREM FirstBindingStays ==
  ASSUME NEW entries, Len(entries) \in Nat
  PROVE  SaysFirst(entries, Len(entries), RegisterAll(NoActions, entries))
<1>1. PICK f : /\ Lists(NoActions, entries, f, Len(entries))
               /\ RegisterAll(NoActions, entries) = f[Len(entries)]
  BY RegisterAllIsLast
<1> DEFINE S == {n \in Nat : n <= Len(entries) => SaysFirst(entries, n, f[n])}
<1>2. 0 \in S
  <2>1. f[0] = NoActions
    BY <1>1 DEF Lists, After
  <2> QED
    BY <2>1 DEF SaysFirst, NoActions
<1>3. ASSUME NEW n \in Nat, n \in S PROVE n + 1 \in S
  <2> SUFFICES ASSUME n + 1 <= Len(entries)
               PROVE  SaysFirst(entries, n + 1, f[n + 1])
    OBVIOUS
  <2>1. SaysFirst(entries, n, f[n])
    BY <1>3
  <2>2. f[n + 1] = After(NoActions, entries, f, n + 1)
    BY <1>1 DEF Lists
  <2>3. f[n + 1] = IF entries[n + 1].sequence = <<>> THEN f[n]
                   ELSE register_action(f[n], entries[n + 1].sequence, entries[n + 1].kind)
    BY <2>2 DEF After
  <2> QED
    BY <2>1, <2>3, OneMoreEntry
<1> HIDE DEF S
<1>4. Len(entries) \in S
  BY <1>2, <1>3, InductionOverNat
<1> QED
  BY <1>1, <1>4 DEF S

-----------------------------------------------------------------------------
(* The invariant of the loop.                                              *)

\* A read is under way only while a device is left to be read, and the result of
\* a command is shown on a bar that is there.
Places ==
  /\ pc = "read" => ready # {}
  /\ pc = "shell" => bar.active

\* Versions only grow, and what a scan has read is not older than what is loaded.
Versions ==
  /\ wanted <= disk /\ loaded <= disk /\ scanned <= disk
  /\ pc = "apply" => loaded <= scanned

IInv ==
  /\ TypeOK
  /\ Places
  /\ Versions
  /\ CapturingIsGrabbed
  /\ NoLostReload
  /\ OneConfigurationPerSequence
  /\ BarLeavesNoText

-----------------------------------------------------------------------------
(* The parts.                                                              *)

\* The registry that a version's entries make.
LEMMA RegistryTyped ==
  ASSUME NEW v \in Version
  PROVE  /\ ConfigAt[v + 1].introducer \in Key /\ ConfigAt[v + 1].trailer \in Key
         /\ LET r == RegisterAll(NoActions, ConfigAt[v + 1].entries)
            IN  r \in [DOMAIN r -> ActionKind]
<1> DEFINE Entry == [sequence: Seq(Key), kind: ActionKind]
           es == ConfigAt[v + 1].entries
           r == RegisterAll(NoActions, es)
<1>1. ConfigAt[v + 1] \in Configuration
  BY ApplicationAssumption DEF Version
<1>2. es \in Seq(Entry)
  BY <1>1 DEF Configuration
<1>3. SaysFirst(es, Len(es), r)
  BY <1>2, FirstBindingStays
<1> HIDE DEF r, es, Entry
<1>4. \A i \in 1..Len(es) : es[i].kind \in ActionKind
  <2>1. \A i \in 1..Len(es) : es[i] \in Entry
    BY <1>2
  <2> QED
    BY <2>1 DEF Entry
<1>5. r \in [DOMAIN r -> ActionKind]
  BY <1>3, <1>4 DEF SaysFirst
<1> QED
  BY <1>1, <1>5 DEF Configuration, r, es

\* A bar as BarLeavesNoText wants it.
GoodBar(b) ==
  /\ b \in Bar
  /\ ~b.active => b.screen # BarText /\ b.saved = <<>>
  /\ b.active => Len(b.saved) = 1 /\ b.saved[1] # BarText

\* The operations of the bar, which show_result may follow only when it is there.
LEMMA BarOperations ==
  ASSUME NEW b, GoodBar(b)
  PROVE  /\ GoodBar(show_status(b)) /\ show_status(b).active
         /\ GoodBar(hide_status(b))
         /\ b.active => GoodBar(show_result(b)) /\ show_result(b).active
         /\ \A n \in Nat \ {0} : GoodBar(Repaint(b, n)) /\ Repaint(b, n).active = b.active
<1>1. /\ b.active \in BOOLEAN /\ b.saved \in Seq(Nat) /\ b.screen \in Nat
      /\ b = [active |-> b.active, saved |-> b.saved, screen |-> b.screen]
  BY DEF GoodBar, Bar
<1>2. GoodBar(show_status(b)) /\ show_status(b).active
  <2>1. CASE b.active
    BY <1>1, <2>1 DEF GoodBar, Bar, show_status, draw_bar_text, BarText
  <2>2. CASE ~b.active
    <3> DEFINE c == capture_background(b)
    <3>1. c \in Bar /\ c.active /\ c.saved = <<b.screen>>
      <4>1. <<b.screen>> \in Seq(Nat)
        BY <1>1
      <4> QED
        BY <4>1 DEF capture_background, GoodBar, Bar
    <3>2. show_status(b) = [c EXCEPT !.screen = BarText]
      BY <2>2 DEF show_status, draw_bar_text
    <3> HIDE DEF c
    <3>3. /\ show_status(b) \in Bar /\ show_status(b).active
          /\ show_status(b).saved = <<b.screen>>
      BY <3>1, <3>2 DEF Bar, BarText
    <3>4. Len(<<b.screen>>) = 1 /\ <<b.screen>>[1] # BarText
      BY <2>2 DEF GoodBar
    <3> QED
      BY <3>3, <3>4 DEF GoodBar
  <2> QED
    BY <2>1, <2>2
<1>3. GoodBar(hide_status(b))
  <2>1. CASE ~b.active \/ b.saved = <<>>
    BY <2>1 DEF hide_status, restore_background
  <2>2. CASE b.active /\ b.saved # <<>>
    <3>1. hide_status(b) = [active |-> FALSE, saved |-> <<>>, screen |-> b.saved[1]]
      BY <2>2 DEF hide_status, restore_background, NewBar
    <3>2. b.saved[1] \in Nat /\ b.saved[1] # BarText /\ <<>> \in Seq(Nat)
      BY <1>1, <2>2 DEF GoodBar
    <3> QED
      BY <3>1, <3>2 DEF GoodBar, Bar
  <2> QED
    BY <2>1, <2>2
<1>4. b.active => GoodBar(show_result(b)) /\ show_result(b).active
  BY <1>1 DEF GoodBar, Bar, show_result, draw_bar_text, BarText
<1>5. \A n \in Nat \ {0} : GoodBar(Repaint(b, n)) /\ Repaint(b, n).active = b.active
  BY <1>1 DEF GoodBar, Bar, Repaint, BarText
<1> QED
  BY <1>2, <1>3, <1>4, <1>5

\* The invariant has a good bar, and a good bar is all it asks of the bar.
LEMMA BarIsGood ==
  /\ IInv => GoodBar(bar)
  /\ GoodBar(bar)' => BarLeavesNoText' /\ (bar \in Bar)'
BY DEF IInv, TypeOK, BarLeavesNoText, GoodBar

-----------------------------------------------------------------------------
(* The types, step by step.                                                *)

\* A step that leaves the matcher alone leaves its types alone.
LEMMA MatcherSame ==
  ASSUME MatcherTypeOK, UNCHANGED matcher
  PROVE  MatcherTypeOK'
BY DEF MatcherTypeOK, matcher

\* The invariant holds initially.
LEMMA InitIInv == Init => IInv
<1> SUFFICES ASSUME Init PROVE IInv
  OBVIOUS
<1>1. 0 \in Version
  BY ApplicationAssumption DEF Version
<1>2. MatcherTypeOK
  BY Literals DEF Init, MatcherInit, MatcherTypeOK, MatcherState, MatcherActionType
<1>3. /\ config \in MatcherConfig
      /\ actions \in [DOMAIN actions -> ActionKind]
  <2>1. ConfigAt[0 + 1] = ConfigAt[1]
    OBVIOUS
  <2> QED
    BY <1>1, <2>1, RegistryTyped DEF Init, MatcherConfig
<1>4. GoodBar(bar)
  <2>1. <<>> \in Seq(Nat) /\ bar = [active |-> FALSE, saved |-> <<>>, screen |-> 1]
    BY DEF Init, NewBar
  <2> QED
    BY <2>1 DEF GoodBar, Bar, BarText
<1>5. events \in Seq(Event) /\ queue \in [Device -> Seq(Event)]
  BY DEF Init
<1>6. page \in 1..MaxPage
  BY ApplicationAssumption DEF Init
<1>7. TypeOK
  <2>1. /\ pc \in Location /\ scanned \in Version
        /\ action \in ActionKind \cup {"None"} /\ resume \in {"run", "step"}
        /\ disk \in Version /\ {loaded, began, wanted} \subseteq Version
    BY <1>1 DEF Init, Location
  <2>2. /\ is_capturing \in BOOLEAN /\ group_grabbed \in BOOLEAN
        /\ reload_requested \in BOOLEAN /\ shutdown_requested \in BOOLEAN
        /\ expired \in BOOLEAN /\ dropped \in BOOLEAN
        /\ grabbed \in SUBSET Device /\ held \in SUBSET Key
        /\ ready \in SUBSET (1..Len(DeviceOrder))
    BY DEF Init
  <2> QED
    BY <1>2, <1>3, <1>4, <1>5, <1>6, <2>1, <2>2 DEF TypeOK, GoodBar
<1>8. CapturingIsGrabbed /\ OneConfigurationPerSequence
  BY DEF Init, MatcherInit, CapturingIsGrabbed, OneConfigurationPerSequence
<1>9. Places /\ Versions /\ NoLostReload
  BY DEF Init, Places, Versions, NoLostReload
<1> QED
  BY <1>4, <1>7, <1>8, <1>9 DEF IInv, GoodBar, BarLeavesNoText

\* The tests of the flags; a reload that is begun clears its flag first.
LEMMA RunStep ==
  ASSUME IInv, run
  PROVE  IInv'
<1> USE DEF run, settings, capture, batch, pending, world, history
<1>1. /\ pc = "run" /\ pc' \in {"exit", "reload", "poll"}
      /\ reload_requested' \in BOOLEAN
      /\ reload_requested /\ ~reload_requested' => pc' = "reload"
  BY DEF IInv, TypeOK
<1>2. TypeOK'
  BY <1>1, MatcherSame DEF IInv, TypeOK, Location
<1>3. Places' /\ Versions'
  BY <1>1 DEF IInv, Places, Versions
<1>4. CapturingIsGrabbed' /\ OneConfigurationPerSequence'
  BY <1>1 DEF IInv, CapturingIsGrabbed, OneConfigurationPerSequence, matcher
<1>5. NoLostReload'
  BY <1>1 DEF IInv, NoLostReload
<1> QED
  BY <1>2, <1>3, <1>4, <1>5 DEF IInv, BarLeavesNoText

\* The scan reads the files as they are now.
LEMMA ScanStep ==
  ASSUME IInv, scan_directory
  PROVE  IInv'
<1> USE DEF scan_directory, capture, batch, pending, flags, world, history
<1>1. TypeOK'
  BY MatcherSame DEF IInv, TypeOK, Location
<1>2. Places' /\ Versions' /\ NoLostReload'
  BY DEF IInv, TypeOK, Version, Places, Versions, NoLostReload
<1>3. CapturingIsGrabbed' /\ OneConfigurationPerSequence'
  BY DEF IInv, CapturingIsGrabbed, OneConfigurationPerSequence, matcher
<1> QED
  BY <1>1, <1>2, <1>3 DEF IInv, BarLeavesNoText

\* Applying the scan gives a fresh matcher and leaves the grab as it is.
LEMMA LoadStep ==
  ASSUME IInv, load_configuration
  PROVE  IInv'
<1> USE DEF load_configuration, ApplyScanned, capture, batch, pending
<1>1. /\ actions' \in [DOMAIN actions' -> ActionKind]
      /\ config' \in MatcherConfig
  BY RegistryTyped DEF IInv, TypeOK, MatcherConfig
<1>2. MatcherTypeOK' /\ state' = "Idle"
  BY Literals, ReturnTyped DEF NewMatcher, MatcherTypeOK, MatcherState
<1>3. expired' \in BOOLEAN
  BY DEF IInv, TypeOK
<1>4. GoodBar(bar)'
  BY BarIsGood, BarOperations
<1>5. TypeOK'
  BY <1>1, <1>2, <1>3, <1>4, BarIsGood DEF IInv, TypeOK, Location
<1>6. Places' /\ Versions' /\ NoLostReload'
  BY DEF IInv, TypeOK, Version, Places, Versions, NoLostReload
<1>7. CapturingIsGrabbed' /\ OneConfigurationPerSequence'
  BY <1>2 DEF IInv, CapturingIsGrabbed, OneConfigurationPerSequence
<1> QED
  BY <1>4, <1>5, <1>6, <1>7, BarIsGood DEF IInv

\* poll() reports devices; the loop reads them if there are any.
LEMMA PollStep ==
  ASSUME IInv, poll
  PROVE  IInv'
<1> USE DEF poll, settings, capture, pending, flags, world, history
<1>1. /\ pc = "poll" /\ pc' \in {"step", "read"}
      /\ ready' \in SUBSET (1..Len(DeviceOrder))
      /\ pc' = "read" => ready' # {}
  OBVIOUS
<1>2. TypeOK'
  BY <1>1, MatcherSame DEF IInv, TypeOK, Location
<1>3. Places' /\ Versions' /\ NoLostReload'
  BY <1>1 DEF IInv, Places, Versions, NoLostReload
<1>4. CapturingIsGrabbed' /\ OneConfigurationPerSequence'
  BY <1>1 DEF IInv, CapturingIsGrabbed, OneConfigurationPerSequence, matcher
<1> QED
  BY <1>2, <1>3, <1>4 DEF IInv, BarLeavesNoText

\* The device that is read, and how many of its events.
First == CHOOSE i \in ready : \A j \in ready : i <= j
Reads(d) == IF Len(queue[d]) < ReadMax THEN Len(queue[d]) ELSE ReadMax

\* A device is there to be read, and no more is read than it has.
LEMMA ReadFrom ==
  ASSUME TypeOK, Places, pc = "read"
  PROVE  /\ First \in ready /\ DeviceOrder[First] \in Device
         /\ \A d \in Device : Reads(d) \in 0..Len(queue[d])
<1>1. First \in ready
  <2>1. ready \subseteq Nat /\ ready # {}
    BY DEF TypeOK, Places
  <2> QED
    BY <2>1, LeastOfNats DEF First
<1>2. DeviceOrder[First] \in Device
  BY <1>1 DEF TypeOK, Device
<1>3. \A d \in Device : Reads(d) \in 0..Len(queue[d])
  BY ApplicationAssumption DEF Reads, TypeOK
<1> QED
  BY <1>1, <1>2, <1>3

\* A read moves events from the kernel to the batch.
LEMMA ReadStep ==
  ASSUME IInv, read_events_from_fd
  PROVE  IInv'
<1> DEFINE d == DeviceOrder[First]
<1>1. /\ pc = "read" /\ pc' \in {"step", "read"}
      /\ events' = events \o SubSeq(queue[d], 1, Reads(d))
      /\ queue' = [queue EXCEPT ![d] = SubSeq(@, Reads(d) + 1, Len(@))]
      /\ ready' = ready \ {First}
      /\ pc' = "read" => ready' # {}
      /\ UNCHANGED <<matcher, settings, capture, pending, bar, flags, held,
                     expired, disk, page, history>>
  BY DEF read_events_from_fd, First, Reads
<1>2. d \in Device /\ Reads(d) \in 0..Len(queue[d])
  BY <1>1, ReadFrom DEF IInv
<1> HIDE DEF d
<1>3. queue[d] \in Seq(Event) /\ events \in Seq(Event)
  BY <1>2 DEF IInv, TypeOK
<1>4. events' \in Seq(Event)
  BY <1>1, <1>2, <1>3
<1>5. queue' \in [Device -> Seq(Event)]
  <2>1. SubSeq(queue[d], Reads(d) + 1, Len(queue[d])) \in Seq(Event)
    BY <1>2, <1>3
  <2> QED
    BY <1>1, <1>2, <2>1 DEF IInv, TypeOK
<1>6. TypeOK'
  BY <1>1, <1>4, <1>5, MatcherSame
  DEF IInv, TypeOK, Location, settings, capture, pending, flags, history
<1>7. Places' /\ Versions' /\ NoLostReload'
  BY <1>1 DEF IInv, Places, Versions, NoLostReload, settings, flags, history
<1>8. CapturingIsGrabbed' /\ OneConfigurationPerSequence'
  BY <1>1 DEF IInv, CapturingIsGrabbed, OneConfigurationPerSequence, matcher, capture, history
<1> QED
  BY <1>1, <1>6, <1>7, <1>8 DEF IInv, BarLeavesNoText

-----------------------------------------------------------------------------
(* step().                                                                 *)

\* What the end of a sequence leaves: no grab, no bar, and perhaps an action.
LEMMA CompletedMatch ==
  ASSUME IInv, NEW codes, NEW continue \in {"run", "step"}, pc = "step",
         handle_completed_match(codes, continue)
  PROVE  /\ is_capturing' = FALSE /\ group_grabbed' = FALSE /\ grabbed' = {}
         /\ GoodBar(bar)'
         /\ pc' \in {"run", "step", "execute"}
         /\ action' \in ActionKind \cup {"None"} /\ resume' \in {"run", "step"}
<1> USE DEF handle_completed_match
<1>1. is_capturing' = FALSE /\ group_grabbed' = FALSE /\ grabbed' = {}
  BY DEF IInv, TypeOK, CapturingIsGrabbed, release_if_capturing, release
<1>2. GoodBar(bar)'
  BY BarIsGood, BarOperations
<1>3. /\ pc' \in {"run", "step", "execute"}
      /\ action' \in ActionKind \cup {"None"} /\ resume' \in {"run", "step"}
  BY DEF IInv, TypeOK, pending, ActionKind
<1> QED
  BY <1>1, <1>2, <1>3

\* A capture begins: whatever the kernel grants, the group counts as grabbed.
LEMMA CaptureBegins ==
  ASSUME IInv, pc = "step", is_capturing' = TRUE,
         IF is_capturing THEN UNCHANGED <<group_grabbed, grabbed>> ELSE grab
  PROVE  group_grabbed' = TRUE /\ grabbed' \in SUBSET Device
<1>1. CASE is_capturing
  BY <1>1 DEF IInv, TypeOK, CapturingIsGrabbed
<1>2. CASE ~is_capturing
  BY <1>2 DEF IInv, TypeOK, grab
<1> QED
  BY <1>1, <1>2

\* An event of the batch.
LEMMA EventStep ==
  ASSUME IInv, ProcessKeyEvent
  PROVE  IInv'
<1> DEFINE code == Head(events).code
           type == Head(events).type
<1>1. /\ pc = "step" /\ events # <<>>
      /\ process_key_event(config, code, type)
      /\ events' = Tail(events)
      /\ UNCHANGED <<settings, ready, flags, held, queue, disk, page, loaded,
                     wanted, dropped>>
  BY DEF ProcessKeyEvent
<1>2. Head(events) \in Event /\ events' \in Seq(Event)
  BY <1>1 DEF IInv, TypeOK
<1>3. code \in Key /\ type \in {"Pressed", "Released"}
  BY <1>2 DEF Event
<1> HIDE DEF code, type
<1>4. MatcherTypeOK'
  BY <1>1, <1>3, MatcherTyped DEF IInv, TypeOK
<1>5. /\ is_capturing' \in BOOLEAN /\ group_grabbed' \in BOOLEAN
      /\ grabbed' \in SUBSET Device /\ GoodBar(bar)'
      /\ pc' \in {"run", "step", "execute"} /\ expired' \in BOOLEAN
      /\ action' \in ActionKind \cup {"None"} /\ resume' \in {"run", "step"}
      /\ began' \in Version
      /\ CapturingIsGrabbed' /\ OneConfigurationPerSequence'
  <2>1. CASE /\ result'.type = "StartCapture"
             /\ is_capturing' = TRUE
             /\ IF is_capturing THEN UNCHANGED <<group_grabbed, grabbed>> ELSE grab
             /\ bar' = show_status(bar)
             /\ expired' = FALSE
             /\ began' = loaded
             /\ UNCHANGED <<pc, pending>>
    <3>1. group_grabbed' = TRUE /\ grabbed' \in SUBSET Device
      BY <1>1, <2>1, CaptureBegins
    <3>2. GoodBar(bar)'
      BY <2>1, BarIsGood, BarOperations
    <3>3. CapturingIsGrabbed' /\ OneConfigurationPerSequence'
      BY <1>1, <2>1, <3>1 DEF CapturingIsGrabbed, OneConfigurationPerSequence
    <3> QED
      BY <1>1, <2>1, <3>1, <3>2, <3>3 DEF IInv, TypeOK, pending
  <2>2. CASE /\ result'.type = "KeyAppended"
             /\ bar' = show_status(bar)
             /\ expired' = FALSE
             /\ UNCHANGED <<capture, pc, pending, began>>
    <3>1. state = "Capturing" /\ state' = "Capturing"
      BY <1>1, <2>2, EventResult
    <3>2. GoodBar(bar)'
      BY <2>2, BarIsGood, BarOperations
    <3>3. CapturingIsGrabbed' /\ OneConfigurationPerSequence'
      BY <1>1, <2>2, <3>1
      DEF IInv, CapturingIsGrabbed, OneConfigurationPerSequence, capture
    <3> QED
      BY <1>1, <2>2, <3>2, <3>3 DEF IInv, TypeOK, pending, capture
  <2>3. CASE /\ result'.type = "SequenceComplete"
             /\ handle_completed_match(result'.sequence, "step")
             /\ UNCHANGED <<expired, began>>
    <3>1. state' = "Idle"
      BY <1>1, <2>3, EventResult
    <3>2. /\ is_capturing' = FALSE /\ group_grabbed' = FALSE /\ grabbed' = {}
          /\ GoodBar(bar)'
          /\ pc' \in {"run", "step", "execute"}
          /\ action' \in ActionKind \cup {"None"} /\ resume' \in {"run", "step"}
      BY <1>1, <2>3, CompletedMatch
    <3>3. CapturingIsGrabbed' /\ OneConfigurationPerSequence'
      BY <3>1, <3>2 DEF CapturingIsGrabbed, OneConfigurationPerSequence
    <3> QED
      BY <2>3, <3>2, <3>3 DEF IInv, TypeOK
  <2>4. CASE /\ result'.type = "None"
             /\ UNCHANGED <<capture, bar, expired, pc, pending, began>>
    <3>1. state' = state
      BY <1>1, <2>4, EventResult
    <3>2. CapturingIsGrabbed' /\ OneConfigurationPerSequence'
      BY <1>1, <2>4, <3>1
      DEF IInv, CapturingIsGrabbed, OneConfigurationPerSequence, capture
    <3>3. GoodBar(bar)'
      BY <2>4, BarIsGood
    <3> QED
      BY <1>1, <2>4, <3>2, <3>3 DEF IInv, TypeOK, pending, capture
  <2> QED
    BY <2>1, <2>2, <2>3, <2>4 DEF ProcessKeyEvent
<1>6. TypeOK'
  BY <1>1, <1>2, <1>4, <1>5, BarIsGood DEF IInv, TypeOK, Location, settings, flags
<1>7. Places' /\ Versions' /\ NoLostReload'
  BY <1>1, <1>5 DEF IInv, Places, Versions, NoLostReload, settings, flags
<1> QED
  BY <1>5, <1>6, <1>7, BarIsGood DEF IInv

\* The timer after the batch.
LEMMA TimerStep ==
  ASSUME IInv, check_timer
  PROVE  IInv'
<1>1. pc = "step" /\ UNCHANGED <<settings, batch, flags, world, history>>
  BY DEF check_timer
<1>2. CASE pc' = "run" /\ UNCHANGED <<matcher, capture, bar, pending>>
  <2>1. TypeOK'
    BY <1>1, <1>2, MatcherSame
    DEF IInv, TypeOK, Location, settings, batch, flags, world, history, capture, pending
  <2>2. Places' /\ Versions' /\ NoLostReload'
    BY <1>1, <1>2 DEF IInv, Places, Versions, NoLostReload, settings, batch, flags,
                      world, history
  <2>3. CapturingIsGrabbed' /\ OneConfigurationPerSequence'
    BY <1>1, <1>2 DEF IInv, CapturingIsGrabbed, OneConfigurationPerSequence, matcher,
                      capture, history
  <2> QED
    BY <1>2, <2>1, <2>2, <2>3 DEF IInv, BarLeavesNoText
<1>3. CASE TimerDue /\ on_timeout
           /\ \/ /\ result'.type = "SequenceComplete"
                 /\ handle_completed_match(result'.sequence, "run")
              \/ /\ result'.type # "SequenceComplete"
                 /\ GiveUp
                 /\ pc' = "run"
                 /\ UNCHANGED pending
  <2>1. MatcherTypeOK' /\ state' # "Capturing"
    <3>1. MatcherTypeOK'
      <4>1. \E k \in Key : TRUE
        BY DEF IInv, TypeOK, MatcherConfig
      <4> QED
        BY <1>3, <4>1, MatcherTyped DEF IInv, TypeOK
    <3>2. state' # "Capturing"
      BY <1>3, TimeoutResult
    <3> QED
      BY <3>1, <3>2
  <2>2. /\ is_capturing' = FALSE /\ group_grabbed' = FALSE /\ grabbed' = {}
        /\ GoodBar(bar)'
        /\ pc' \in {"run", "step", "execute"}
        /\ action' \in ActionKind \cup {"None"} /\ resume' \in {"run", "step"}
    <3>1. CASE handle_completed_match(result'.sequence, "run")
      BY <1>1, <3>1, CompletedMatch
    <3>2. CASE GiveUp /\ pc' = "run" /\ UNCHANGED pending
      <4>1. GoodBar(bar)'
        BY <3>2, BarIsGood, BarOperations DEF GiveUp
      <4>2. is_capturing' = FALSE /\ group_grabbed' = FALSE /\ grabbed' = {}
        BY <1>1, <1>3, <3>2 DEF GiveUp, release, TimerDue, IInv, TypeOK, CapturingIsGrabbed
      <4> QED
        BY <3>2, <4>1, <4>2 DEF IInv, TypeOK, pending
    <3> QED
      BY <1>3, <3>1, <3>2
  <2>3. TypeOK'
    BY <1>1, <2>1, <2>2, BarIsGood
    DEF IInv, TypeOK, Location, settings, batch, flags, world, history
  <2>4. Places' /\ Versions' /\ NoLostReload'
    BY <1>1, <2>2 DEF IInv, Places, Versions, NoLostReload, settings, batch, flags,
                      world, history
  <2>5. CapturingIsGrabbed' /\ OneConfigurationPerSequence'
    BY <2>1, <2>2 DEF CapturingIsGrabbed, OneConfigurationPerSequence
  <2> QED
    BY <2>2, <2>3, <2>4, <2>5, BarIsGood DEF IInv
<1> QED
  BY <1>2, <1>3 DEF check_timer

-----------------------------------------------------------------------------
(* The executor, the end, and the surroundings.                            *)

\* Steps of the executor: no device is grabbed, and none will be.
LEMMA ExecutorStep ==
  ASSUME IInv, execute \/ CommandReturns
  PROVE  IInv'
<1>1. /\ pc \in {"execute", "shell"} /\ pc' \in {"run", "step", "shell"}
      /\ action' \in ActionKind \cup {"None"}
      /\ UNCHANGED <<matcher, settings, capture, batch, resume, flags, world, history>>
  BY DEF execute, CommandReturns, IInv, TypeOK, pending
<1>2. GoodBar(bar)' /\ (pc' = "shell" => bar'.active)
  <2>1. CASE execute
    BY <2>1, BarIsGood, BarOperations DEF execute, IInv, TypeOK
  <2>2. CASE CommandReturns
    <3>1. bar.active /\ bar' = hide_status(show_result(bar)) /\ pc' # "shell"
      BY <2>2 DEF CommandReturns, IInv, TypeOK, Places
    <3>2. GoodBar(show_result(bar))
      BY <3>1, BarIsGood, BarOperations
    <3> QED
      BY <3>1, <3>2, BarOperations
  <2> QED
    BY <2>1, <2>2
<1>3. TypeOK'
  BY <1>1, <1>2, MatcherSame, BarIsGood
  DEF IInv, TypeOK, Location, settings, capture, batch, flags, world, history
<1>4. Places' /\ Versions' /\ NoLostReload'
  BY <1>1, <1>2 DEF IInv, Places, Versions, NoLostReload, settings, batch, flags, world,
                    history
<1>5. CapturingIsGrabbed' /\ OneConfigurationPerSequence'
  BY <1>1 DEF IInv, CapturingIsGrabbed, OneConfigurationPerSequence, matcher, capture,
              history
<1> QED
  BY <1>2, <1>3, <1>4, <1>5, BarIsGood DEF IInv

\* The destructors release the devices.
LEMMA ExitStep ==
  ASSUME IInv, Exit
  PROVE  IInv'
<1> USE DEF Exit, settings, batch, pending, flags, world, history
<1>1. group_grabbed' = FALSE /\ grabbed' = {}
  BY DEF release, IInv, TypeOK, CapturingIsGrabbed
<1>2. TypeOK'
  BY <1>1, MatcherSame DEF IInv, TypeOK, Location
<1>3. Places' /\ Versions' /\ NoLostReload'
  BY DEF IInv, Places, Versions, NoLostReload
<1>4. CapturingIsGrabbed' /\ OneConfigurationPerSequence'
  BY <1>1 DEF IInv, CapturingIsGrabbed, OneConfigurationPerSequence, matcher
<1> QED
  BY <1>2, <1>3, <1>4 DEF IInv, BarLeavesNoText

\* An event that the kernel queues, whether or not it loses others.
LEMMA EnqueueTyped ==
  ASSUME TypeOK, NEW event \in Event, Enqueue(event)
  PROVE  queue' \in [Device -> Seq(Event)] /\ dropped' \in BOOLEAN
<1>1. DeviceOf[event.code] \in Device
  BY ApplicationAssumption DEF Event
<1>2. queue[DeviceOf[event.code]] \in Seq(Event)
  BY <1>1 DEF TypeOK
<1>3. /\ Append(queue[DeviceOf[event.code]], event) \in Seq(Event)
      /\ <<event>> \in Seq(Event)
  BY <1>2
<1> QED
  BY <1>1, <1>3 DEF Enqueue, TypeOK

\* The user's keys.
LEMMA KeyStep ==
  ASSUME IInv, NEW k \in Key, PressKey(k) \/ ReleaseKey(k)
  PROVE  IInv'
<1>1. UNCHANGED <<matcher, daemon, flags, expired, disk, page, loaded, began, wanted>>
  BY DEF PressKey, ReleaseKey
<1>2. held' \in SUBSET Key
  BY DEF PressKey, ReleaseKey, IInv, TypeOK
<1>3. queue' \in [Device -> Seq(Event)] /\ dropped' \in BOOLEAN
  <2>1. /\ [code |-> k, type |-> "Pressed"] \in Event
        /\ [code |-> k, type |-> "Released"] \in Event
    BY DEF Event
  <2> QED
    BY <2>1, EnqueueTyped DEF PressKey, ReleaseKey, IInv
<1>4. TypeOK'
  BY <1>1, <1>2, <1>3, MatcherSame
  DEF IInv, TypeOK, daemon, settings, capture, batch, pending, flags
<1> QED
  BY <1>1, <1>4
  DEF IInv, Places, Versions, CapturingIsGrabbed, NoLostReload, OneConfigurationPerSequence,
      BarLeavesNoText, matcher, daemon, settings, capture, batch, pending, flags

\* A signal sets flags; SIGHUP asks for the files as they are now.
LEMMA SignalStep ==
  ASSUME IInv, NEW s \in Signal, handle_signal(s)
  PROVE  IInv'
<1> USE DEF handle_signal
<1>1. /\ reload_requested' \in BOOLEAN /\ shutdown_requested' \in BOOLEAN
      /\ \/ wanted' = wanted /\ (reload_requested => reload_requested')
         \/ wanted' = disk /\ reload_requested'
  <2>1. reload_requested' \in BOOLEAN /\ shutdown_requested' \in BOOLEAN
    OBVIOUS
  <2>2. CASE s = "HUP"
    BY <2>1, <2>2
  <2>3. CASE s # "HUP"
    BY <2>1, <2>3
  <2> QED
    BY <2>2, <2>3
<1>2. UNCHANGED <<matcher, daemon, world, loaded, began, dropped>>
  OBVIOUS
<1>3. TypeOK'
  BY <1>1, <1>2, MatcherSame
  DEF IInv, TypeOK, daemon, settings, capture, batch, pending, world
<1>4. Places' /\ Versions' /\ NoLostReload'
  BY <1>1, <1>2 DEF IInv, TypeOK, Version, Places, Versions, NoLostReload, daemon,
                    settings, batch, world
<1>5. CapturingIsGrabbed' /\ OneConfigurationPerSequence' /\ BarLeavesNoText'
  BY <1>2 DEF IInv, CapturingIsGrabbed, OneConfigurationPerSequence, BarLeavesNoText,
              matcher, daemon, capture
<1> QED
  BY <1>3, <1>4, <1>5 DEF IInv

\* The clock, the editor, the reading application, and stuttering.
LEMMA OtherStep ==
  ASSUME IInv, TimeExpires \/ EditConfig \/ Repainted \/ UNCHANGED vars
  PROVE  IInv'
<1>1. CASE TimeExpires \/ EditConfig
  <2>1. /\ UNCHANGED <<matcher, daemon, flags, held, queue, page, history>>
        /\ expired' \in BOOLEAN /\ disk' \in Version /\ disk <= disk'
    <3>1. disk \in Version /\ disk \in Nat /\ expired \in BOOLEAN
      BY DEF IInv, TypeOK, Version
    <3>2. CASE TimeExpires
      BY <3>1, <3>2 DEF TimeExpires
    <3>3. CASE EditConfig
      BY <3>1, <3>3 DEF EditConfig
    <3> QED
      BY <1>1, <3>2, <3>3
  <2>2. TypeOK'
    BY <2>1, MatcherSame
    DEF IInv, TypeOK, daemon, settings, capture, batch, pending, flags, history
  <2>3. Places' /\ Versions' /\ NoLostReload'
    BY <2>1 DEF IInv, TypeOK, Version, Places, Versions, NoLostReload, daemon,
                settings, batch, flags, history
  <2>4. CapturingIsGrabbed' /\ OneConfigurationPerSequence' /\ BarLeavesNoText'
    BY <2>1 DEF IInv, CapturingIsGrabbed, OneConfigurationPerSequence, BarLeavesNoText,
                matcher, daemon, capture, history
  <2> QED
    BY <2>2, <2>3, <2>4 DEF IInv
<1>2. CASE Repainted
  <2>1. /\ UNCHANGED <<matcher, pc, settings, capture, batch, pending, flags, held,
                       queue, expired, disk, history>>
        /\ page' \in 1..MaxPage /\ bar' = Repaint(bar, page')
    BY <1>2, ApplicationAssumption DEF Repainted, IInv, TypeOK
  <2>2. GoodBar(bar)' /\ bar'.active = bar.active
    BY <2>1, BarIsGood, BarOperations
  <2>3. TypeOK'
    BY <2>1, <2>2, MatcherSame, BarIsGood
    DEF IInv, TypeOK, settings, capture, batch, pending, flags, history
  <2>4. Places' /\ Versions' /\ NoLostReload'
    BY <2>1, <2>2 DEF IInv, Places, Versions, NoLostReload, settings, batch, flags, history
  <2>5. CapturingIsGrabbed' /\ OneConfigurationPerSequence'
    BY <2>1 DEF IInv, CapturingIsGrabbed, OneConfigurationPerSequence, matcher, capture,
                history
  <2> QED
    BY <2>2, <2>3, <2>4, <2>5, BarIsGood DEF IInv
<1>3. CASE UNCHANGED vars
  <2>1. TypeOK'
    BY <1>3, MatcherSame
    DEF IInv, vars, TypeOK, daemon, settings, capture, batch, pending, flags, world, history
  <2> QED
    BY <1>3, <2>1
    DEF IInv, vars, Places, Versions, CapturingIsGrabbed, NoLostReload,
        OneConfigurationPerSequence, BarLeavesNoText, matcher, daemon, settings, capture,
        batch, pending, flags, world, history
<1> QED
  BY <1>1, <1>2, <1>3

-----------------------------------------------------------------------------
\* The inductive invariant of the main loop and its surroundings.
THEOREM ApplicationInvariant == Spec => []IInv
<1>1. IInv /\ [Next]_vars => IInv'
  BY RunStep, ScanStep, LoadStep, PollStep, ReadStep, EventStep, TimerStep, ExecutorStep,
     ExitStep, KeyStep, SignalStep, OtherStep
  DEF Next, Daemon, Environment, Ended
<1> QED
  BY InitIInv, <1>1, PTL DEF Spec

\* Every variable of the daemon and its surroundings keeps its type.
THEOREM ApplicationTyped == Spec => []TypeOK
<1>1. IInv => TypeOK
  BY DEF IInv
<1> QED
  BY ApplicationInvariant, <1>1, PTL

\* The daemon knows whether it holds a device, whatever EVIOCGRAB granted, and
\* never blocks in a shell command or ends with one grabbed.
THEOREM GrabIsKnown == Spec => []CapturingIsGrabbed
<1>1. IInv => CapturingIsGrabbed
  BY DEF IInv
<1> QED
  BY ApplicationInvariant, <1>1, PTL

\* Every SIGHUP is answered by a scan that starts after it.
THEOREM ReloadIsNotLost == Spec => []NoLostReload
<1>1. IInv => NoLostReload
  BY DEF IInv
<1> QED
  BY ApplicationInvariant, <1>1, PTL

\* A sequence is collected under one configuration.
THEOREM SequenceHasOneConfiguration == Spec => []OneConfigurationPerSequence
<1>1. IInv => OneConfigurationPerSequence
  BY DEF IInv
<1> QED
  BY ApplicationInvariant, <1>1, PTL

\* The text of the status bar is never taken for the page.
THEOREM BarTextIsNotSaved == Spec => []BarLeavesNoText
<1>1. IInv => BarLeavesNoText
  BY DEF IInv
<1> QED
  BY ApplicationInvariant, <1>1, PTL

-----------------------------------------------------------------------------
(* The count of pressed keys.  Events wait in the kernel queues and in the  *)
(* batch; the keys that are down according to the events processed so far  *)
(* lead, through the batch and then through each queue, to those held.     *)

\* The event takes the keys that are down from A to B.
Moves(e, A, B) ==
  \/ e.type = "Pressed" /\ e.code \notin A /\ B = A \cup {e.code}
  \/ e.type = "Released" /\ e.code \in A /\ B = A \ {e.code}

\* The sets of keys, all in K, that are down before, between and after the
\* events of s.
IsTrace(K, s, down) ==
  /\ down \in [0..Len(s) -> SUBSET K]
  /\ \A i \in 1..Len(s) : Moves(s[i], down[i - 1], down[i])

Leads(K, s, A, B) ==
  \E down : IsTrace(K, s, down) /\ down[0] = A /\ down[Len(s)] = B

\* Without events nothing moves.
LEMMA LeadsEmpty ==
  ASSUME NEW K
  PROVE  /\ \A A \in SUBSET K : Leads(K, <<>>, A, A)
         /\ \A A, B : Leads(K, <<>>, A, B) => A = B
<1>1. ASSUME NEW A \in SUBSET K PROVE Leads(K, <<>>, A, A)
  <2>1. IsTrace(K, <<>>, [i \in 0..0 |-> A])
    BY DEF IsTrace
  <2> QED
    BY <2>1 DEF Leads
<1>2. \A A, B : Leads(K, <<>>, A, B) => A = B
  BY DEF Leads, IsTrace
<1> QED
  BY <1>1, <1>2

\* The sets at both ends are sets of keys.
LEMMA LeadsTyped ==
  ASSUME NEW K, NEW s \in Seq(Event), NEW A, NEW B, Leads(K, s, A, B)
  PROVE  A \in SUBSET K /\ B \in SUBSET K
BY DEF Leads, IsTrace

\* The last event.
LEMMA LeadsAppend ==
  ASSUME NEW K, NEW s \in Seq(Event), NEW e \in Event, NEW A, NEW B, NEW C \in SUBSET K,
         Leads(K, s, A, B), Moves(e, B, C)
  PROVE  Leads(K, Append(s, e), A, C)
<1>1. PICK down : IsTrace(K, s, down) /\ down[0] = A /\ down[Len(s)] = B
  BY DEF Leads
<1> DEFINE n == Len(s)
           t == Append(s, e)
           more == [i \in 0..n + 1 |-> IF i <= n THEN down[i] ELSE C]
<1>2. n \in Nat /\ Len(t) = n + 1 /\ t[n + 1] = e /\ \A i \in 1..n : t[i] = s[i]
  OBVIOUS
<1>3. more \in [0..n + 1 -> SUBSET K]
  BY <1>1, <1>2 DEF IsTrace
<1>4. \A i \in 0..n : more[i] = down[i]
  BY <1>2
<1>5. more[n + 1] = C /\ more[0] = A /\ more[n] = B
  BY <1>1, <1>2
<1> HIDE DEF more, n, t
<1>6. ASSUME NEW i \in 1..n + 1 PROVE Moves(t[i], more[i - 1], more[i])
  <2>1. CASE i = n + 1
    BY <1>2, <1>5, <2>1
  <2>2. CASE i # n + 1
    <3>1. i \in 1..n /\ i - 1 \in 0..n /\ i \in 0..n
      BY <1>2, <2>2
    <3>2. Moves(s[i], down[i - 1], down[i])
      BY <1>1, <3>1 DEF IsTrace, n
    <3> QED
      BY <1>2, <1>4, <3>1, <3>2
  <2> QED
    BY <2>1, <2>2
<1>7. IsTrace(K, t, more)
  BY <1>2, <1>3, <1>6 DEF IsTrace
<1> QED
  BY <1>2, <1>5, <1>7 DEF Leads, t

\* The events up to some point, and those after it.
LEMMA LeadsSplit ==
  ASSUME NEW K, NEW s \in Seq(Event), NEW A, NEW B, Leads(K, s, A, B),
         NEW n \in 0..Len(s)
  PROVE  \E C : /\ Leads(K, SubSeq(s, 1, n), A, C)
                /\ Leads(K, SubSeq(s, n + 1, Len(s)), C, B)
<1>1. PICK down : IsTrace(K, s, down) /\ down[0] = A /\ down[Len(s)] = B
  BY DEF Leads
<1> DEFINE m == Len(s) - n
           x == SubSeq(s, 1, n)
           y == SubSeq(s, n + 1, Len(s))
           before == [i \in 0..n |-> down[i]]
           after == [i \in 0..m |-> down[n + i]]
<1>2. /\ n \in Nat /\ m \in Nat /\ n + m = Len(s)
      /\ Len(x) = n /\ \A i \in 1..n : x[i] = s[i]
      /\ Len(y) = m /\ \A i \in 1..m : y[i] = s[n + i]
  OBVIOUS
<1> HIDE DEF m, x, y
<1>3. IsTrace(K, x, before)
  <2>1. \A i \in 0..n : i \in 0..Len(s)
    BY <1>2
  <2>2. before \in [0..n -> SUBSET K]
    BY <1>1, <2>1 DEF IsTrace
  <2>3. ASSUME NEW i \in 1..n PROVE Moves(x[i], before[i - 1], before[i])
    <3>1. i \in 1..Len(s) /\ i - 1 \in 0..n /\ i \in 0..n
      BY <1>2
    <3> QED
      BY <1>1, <1>2, <3>1 DEF IsTrace
  <2> QED
    BY <1>2, <2>2, <2>3 DEF IsTrace
<1>4. IsTrace(K, y, after)
  <2>a. \A i \in 0..m : n + i \in 0..Len(s)
    BY <1>2
  <2>1. after \in [0..m -> SUBSET K]
    BY <1>1, <2>a DEF IsTrace
  <2>2. ASSUME NEW i \in 1..m PROVE Moves(y[i], after[i - 1], after[i])
    <3>1. n + i \in 1..Len(s) /\ i - 1 \in 0..m /\ i \in 0..m
      BY <1>2
    <3>2. Moves(s[n + i], down[n + i - 1], down[n + i])
      BY <1>1, <3>1 DEF IsTrace
    <3>3. n + i - 1 = n + (i - 1)
      BY <1>2
    <3> QED
      BY <1>2, <3>1, <3>2, <3>3
  <2> QED
    BY <1>2, <2>1, <2>2 DEF IsTrace
<1>5. before[0] = A /\ before[n] = down[n] /\ after[0] = down[n] /\ after[m] = B
  BY <1>1, <1>2
<1>6. Leads(K, x, A, down[n]) /\ Leads(K, y, down[n], B)
  BY <1>2, <1>3, <1>4, <1>5 DEF Leads
<1> QED
  BY <1>6 DEF x, y

\* The first event, and the rest.
LEMMA LeadsTail ==
  ASSUME NEW K, NEW s \in Seq(Event), s # <<>>, NEW A, NEW B, Leads(K, s, A, B)
  PROVE  \E C : Moves(Head(s), A, C) /\ Leads(K, Tail(s), C, B)
<1>1. PICK down : IsTrace(K, s, down) /\ down[0] = A /\ down[Len(s)] = B
  BY DEF Leads
<1> DEFINE m == Len(s) - 1
           after == [i \in 0..m |-> down[i + 1]]
<1>2. /\ m \in Nat /\ Len(Tail(s)) = m /\ Head(s) = s[1]
      /\ \A i \in 1..m : Tail(s)[i] = s[i + 1]
  OBVIOUS
<1>3. Moves(Head(s), A, down[1])
  BY <1>1, <1>2 DEF IsTrace
<1>4. IsTrace(K, Tail(s), after)
  <2>1. after \in [0..m -> SUBSET K]
    BY <1>1, <1>2 DEF IsTrace
  <2>2. ASSUME NEW i \in 1..m PROVE Moves(Tail(s)[i], after[i - 1], after[i])
    <3>1. i + 1 \in 1..Len(s) /\ i - 1 \in 0..m /\ i \in 0..m
      BY <1>2
    <3>2. Moves(s[i + 1], down[i + 1 - 1], down[i + 1])
      BY <1>1, <3>1 DEF IsTrace
    <3>3. i + 1 - 1 = i - 1 + 1
      OBVIOUS
    <3> QED
      BY <1>2, <3>1, <3>2, <3>3
  <2> QED
    BY <1>2, <2>1, <2>2 DEF IsTrace
<1>5. after[0] = down[1] /\ after[m] = B
  BY <1>1, <1>2
<1>6. Leads(K, Tail(s), down[1], B)
  BY <1>2, <1>4, <1>5 DEF Leads
<1> QED
  BY <1>3, <1>6

\* Events after events.
LEMMA LeadsConcat ==
  ASSUME NEW K, NEW s \in Seq(Event), NEW t \in Seq(Event), NEW A, NEW B, NEW C,
         Leads(K, s, A, B), Leads(K, t, B, C)
  PROVE  Leads(K, s \o t, A, C)
<1>1. PICK down : IsTrace(K, s, down) /\ down[0] = A /\ down[Len(s)] = B
  BY DEF Leads
<1>2. PICK then : IsTrace(K, t, then) /\ then[0] = B /\ then[Len(t)] = C
  BY DEF Leads
<1> DEFINE n == Len(s)
           m == Len(t)
           both == [i \in 0..n + m |-> IF i <= n THEN down[i] ELSE then[i - n]]
<1>3. /\ n \in Nat /\ m \in Nat /\ Len(s \o t) = n + m
      /\ \A i \in 1..n : (s \o t)[i] = s[i]
      /\ \A i \in n + 1..n + m : (s \o t)[i] = t[i - n]
  OBVIOUS
<1>4. both \in [0..n + m -> SUBSET K]
  BY <1>1, <1>2, <1>3 DEF IsTrace
<1>5. /\ \A i \in 0..n : both[i] = down[i]
      /\ \A i \in n..n + m : both[i] = then[i - n]
  BY <1>1, <1>2, <1>3
<1> HIDE DEF both, n, m
<1>6. ASSUME NEW i \in 1..n + m PROVE Moves((s \o t)[i], both[i - 1], both[i])
  <2>1. CASE i <= n
    <3>1. i \in 1..n /\ i \in 0..n /\ i - 1 \in 0..n
      BY <1>3, <2>1
    <3> QED
      BY <1>1, <1>3, <1>5, <3>1 DEF IsTrace, n
  <2>2. CASE i > n
    <3>1. i \in n + 1..n + m /\ i \in n..n + m /\ i - 1 \in n..n + m /\ i - n \in 1..m
      BY <1>3, <2>2
    <3>2. Moves(t[i - n], then[i - n - 1], then[i - n])
      BY <1>2, <3>1 DEF IsTrace, m
    <3>3. i - n - 1 = i - 1 - n
      BY <1>3
    <3> QED
      BY <1>3, <1>5, <3>1, <3>2, <3>3
  <2> QED
    BY <1>3, <2>1, <2>2
<1>7. IsTrace(K, s \o t, both)
  BY <1>3, <1>4, <1>6 DEF IsTrace
<1>8. both[0] = A /\ both[n + m] = C
  <2>1. 0 \in 0..n
    BY <1>3
  <2>2. both[0] = A
    BY <1>1, <1>5, <2>1
  <2>3. PICK last : last = n + m
    OBVIOUS
  <2>4. last \in n..n + m /\ last - n = m
    BY <1>3, <2>3
  <2>5. both[last] = then[last - n]
    BY <1>5, <2>4
  <2> QED
    BY <1>2, <2>2, <2>3, <2>4, <2>5 DEF m
<1> QED
  BY <1>3, <1>7, <1>8 DEF Leads

\* Keys that the events are not about stay as they are.
LEMMA LeadsBeside ==
  ASSUME NEW K, NEW L, K \subseteq L, NEW s \in Seq(Event), NEW A, NEW B,
         Leads(K, s, A, B), NEW R \in SUBSET L, R \cap K = {}
  PROVE  Leads(L, s, A \cup R, B \cup R)
<1>1. PICK down : IsTrace(K, s, down) /\ down[0] = A /\ down[Len(s)] = B
  BY DEF Leads
<1> DEFINE wide == [i \in 0..Len(s) |-> down[i] \cup R]
<1>2. Len(s) \in Nat
  OBVIOUS
<1>3. wide \in [0..Len(s) -> SUBSET L]
  BY <1>1 DEF IsTrace
<1>4. ASSUME NEW i \in 1..Len(s) PROVE Moves(s[i], wide[i - 1], wide[i])
  <2>1. /\ i - 1 \in 0..Len(s) /\ i \in 0..Len(s)
        /\ Moves(s[i], down[i - 1], down[i])
        /\ down[i - 1] \in SUBSET K /\ down[i] \in SUBSET K
    BY <1>1, <1>2 DEF IsTrace
  <2>2. s[i].code \in K
    BY <2>1 DEF Moves
  <2>3. wide[i - 1] = down[i - 1] \cup R /\ wide[i] = down[i] \cup R
    BY <2>1
  <2> HIDE DEF wide
  <2>4. s[i].code \notin R
    BY <2>2
  <2> QED
    BY <2>1, <2>3, <2>4 DEF Moves
<1>5. wide[0] = A \cup R /\ wide[Len(s)] = B \cup R
  BY <1>1, <1>2
<1> QED
  BY <1>3, <1>4, <1>5 DEF Leads, IsTrace

KeysOf(d) == {k \in Key : DeviceOf[k] = d}

\* D is down for the matcher, M after the batch: from there each queue leads to
\* the keys of its device that are held.
Waiting(D, M) ==
  /\ Leads(Key, events, D, M)
  /\ \A d \in Device : Leads(KeysOf(d), queue[d], M \cap KeysOf(d), held \cap KeysOf(d))

\* What the matcher makes of D: it never counts more keys, and it is armed only
\* by an introducer that is down and counted alone.
Counted(D) ==
  /\ IsFiniteSet(D)
  /\ keys_down <= Cardinality(D)
  /\ introducer_armed => state = "Idle" /\ config.introducer \in D /\ keys_down <= 1

KeysInv == ~dropped => \E D, M : Waiting(D, M) /\ Counted(D)

\* Nothing waits at the start, and no key is down.
LEMMA InitKeys == Init => KeysInv
<1> SUFFICES ASSUME Init PROVE KeysInv
  OBVIOUS
<1>1. \A d \in Device : {} \cap KeysOf(d) = {} /\ queue[d] = <<>>
  BY DEF Init
<1>2. Waiting({}, {})
  BY <1>1, LeadsEmpty DEF Init, Waiting
<1>3. Counted({})
  BY FS_EmptySet DEF Init, MatcherInit, Counted
<1> QED
  BY <1>2, <1>3 DEF KeysInv

\* Reading moves a prefix of a queue to the end of the batch.  The other
\* devices' keys do not change on the way.
LEMMA ReadKeys ==
  ASSUME TypeOK, Places, KeysInv, read_events_from_fd
  PROVE  KeysInv'
<1> SUFFICES ASSUME ~dropped' PROVE \E D, M : Waiting(D, M)' /\ Counted(D)'
  BY DEF KeysInv
<1> DEFINE d == DeviceOrder[First]
           n == Reads(d)
           x == SubSeq(queue[d], 1, n)
           y == SubSeq(queue[d], n + 1, Len(queue[d]))
<1>1. /\ pc = "read"
      /\ events' = events \o x
      /\ queue' = [queue EXCEPT ![d] = y]
      /\ UNCHANGED <<matcher, config, held, dropped>>
  BY DEF read_events_from_fd, First, Reads, settings, history
<1>2. d \in Device /\ n \in 0..Len(queue[d])
  BY <1>1, ReadFrom
<1> HIDE DEF d, n
<1>3. queue[d] \in Seq(Event) /\ events \in Seq(Event)
  BY <1>2 DEF TypeOK
<1>4. x \in Seq(Event) /\ y \in Seq(Event)
  BY <1>2, <1>3
<1>5. PICK D, M : Waiting(D, M) /\ Counted(D)
  BY <1>1 DEF KeysInv
<1>6. PICK C : /\ Leads(KeysOf(d), x, M \cap KeysOf(d), C)
               /\ Leads(KeysOf(d), y, C, held \cap KeysOf(d))
  BY <1>2, <1>3, <1>5, LeadsSplit DEF Waiting
<1> HIDE DEF x, y
<1>a. PICK R, N : R = M \ KeysOf(d) /\ N = C \cup R
  OBVIOUS
<1>7. M \in SUBSET Key /\ C \in SUBSET KeysOf(d)
  BY <1>3, <1>4, <1>5, <1>6, LeadsTyped DEF Waiting
<1>8. Leads(Key, events', D, N)
  <2>1. /\ KeysOf(d) \subseteq Key /\ R \in SUBSET Key /\ R \cap KeysOf(d) = {}
        /\ (M \cap KeysOf(d)) \cup R = M
    BY <1>7, <1>a DEF KeysOf
  <2>2. Leads(Key, x, (M \cap KeysOf(d)) \cup R, C \cup R)
    BY <1>4, <1>6, <2>1, LeadsBeside
  <2>3. Leads(Key, x, M, N)
    BY <1>a, <2>1, <2>2
  <2> QED
    BY <1>1, <1>3, <1>4, <1>5, <2>3, LeadsConcat DEF Waiting
<1>9. ASSUME NEW e \in Device
      PROVE  Leads(KeysOf(e), queue'[e], N \cap KeysOf(e), held \cap KeysOf(e))
  <2>1. CASE e = d
    <3>1. N \cap KeysOf(d) = C /\ queue'[d] = y
      BY <1>1, <1>2, <1>7, <1>a DEF TypeOK
    <3> QED
      BY <1>6, <2>1, <3>1
  <2>2. CASE e # d
    <3>1. N \cap KeysOf(e) = M \cap KeysOf(e) /\ queue'[e] = queue[e]
      BY <1>1, <1>2, <1>7, <1>a, <2>2 DEF TypeOK, KeysOf
    <3> QED
      BY <1>5, <3>1 DEF Waiting
  <2> QED
    BY <2>1, <2>2
<1>10. Waiting(D, N)'
  <2>1. held' = held
    BY <1>1
  <2> QED
    BY <1>8, <1>9, <2>1 DEF Waiting, KeysOf
<1>11. Counted(D)'
  BY <1>1, <1>5 DEF Counted, matcher
<1> QED
  BY <1>10, <1>11

\* The user's key goes to the end of one queue, unless that loses events.
LEMMA PressKeys ==
  ASSUME TypeOK, KeysInv, NEW k \in Key, PressKey(k) \/ ReleaseKey(k)
  PROVE  KeysInv'
<1> SUFFICES ASSUME ~dropped' PROVE \E D, M : Waiting(D, M)' /\ Counted(D)'
  BY DEF KeysInv
<1>1. PICK e \in Event :
        /\ e.code = k /\ Moves(e, held, held') /\ Enqueue(e)
        /\ UNCHANGED <<matcher, daemon>>
  <2>1. CASE PressKey(k)
    <3> DEFINE e == [code |-> k, type |-> "Pressed"]
    <3>1. e \in Event /\ e.code = k /\ e.type = "Pressed"
      BY DEF Event
    <3>2. k \notin held /\ held' = held \cup {k} /\ Enqueue(e) /\ UNCHANGED <<matcher, daemon>>
      BY <2>1 DEF PressKey
    <3> HIDE DEF e
    <3> QED
      BY <3>1, <3>2 DEF Moves
  <2>2. CASE ReleaseKey(k)
    <3> DEFINE e == [code |-> k, type |-> "Released"]
    <3>1. e \in Event /\ e.code = k /\ e.type = "Released"
      BY DEF Event
    <3>2. k \in held /\ held' = held \ {k} /\ Enqueue(e) /\ UNCHANGED <<matcher, daemon>>
      BY <2>2 DEF ReleaseKey
    <3> HIDE DEF e
    <3> QED
      BY <3>1, <3>2 DEF Moves
  <2> QED
    BY <2>1, <2>2
<1> DEFINE d == DeviceOf[k]
<1>2. d \in Device /\ k \in KeysOf(d)
  BY ApplicationAssumption DEF KeysOf
<1>3. queue' = [queue EXCEPT ![d] = Append(@, e)] /\ dropped' = dropped
  BY <1>1 DEF Enqueue, TypeOK
<1> HIDE DEF d
<1>4. PICK D, M : Waiting(D, M) /\ Counted(D)
  BY <1>3 DEF KeysInv
<1>5. ASSUME NEW f \in Device
      PROVE  Leads(KeysOf(f), queue'[f], M \cap KeysOf(f), held' \cap KeysOf(f))
  <2>1. CASE f = d
    <3>1. queue[d] \in Seq(Event) /\ queue'[d] = Append(queue[d], e)
      BY <1>2, <1>3 DEF TypeOK
    <3>2. Moves(e, held \cap KeysOf(d), held' \cap KeysOf(d))
      BY <1>1, <1>2 DEF Moves
    <3>3. Leads(KeysOf(d), queue[d], M \cap KeysOf(d), held \cap KeysOf(d))
      BY <1>2, <1>4 DEF Waiting
    <3>4. held' \cap KeysOf(d) \in SUBSET KeysOf(d)
      OBVIOUS
    <3>5. Leads(KeysOf(d), Append(queue[d], e), M \cap KeysOf(d), held' \cap KeysOf(d))
      BY <3>1, <3>2, <3>3, <3>4, LeadsAppend
    <3> QED
      BY <2>1, <3>1, <3>5
  <2>2. CASE f # d
    <3>1. queue'[f] = queue[f] /\ held' \cap KeysOf(f) = held \cap KeysOf(f)
      BY <1>1, <1>2, <1>3, <2>2 DEF TypeOK, Moves, KeysOf
    <3> QED
      BY <1>4, <3>1 DEF Waiting
  <2> QED
    BY <2>1, <2>2
<1>6. Waiting(D, M)'
  BY <1>1, <1>4, <1>5 DEF Waiting, KeysOf, daemon, batch
<1>7. Counted(D)'
  BY <1>1, <1>4 DEF Counted, matcher, daemon, settings
<1> QED
  BY <1>6, <1>7

\* A key that goes down or up, in the set and in the count.
LEMMA MovesCounted ==
  ASSUME NEW D, IsFiniteSet(D), NEW e, NEW C, Moves(e, D, C)
  PROVE  /\ IsFiniteSet(C) /\ Cardinality(C) \in Nat /\ Cardinality(D) \in Nat
         /\ e.type = "Pressed" => Cardinality(C) = Cardinality(D) + 1
         /\ e.type = "Released" => Cardinality(C) = Cardinality(D) - 1
<1>1. CASE e.type = "Pressed" /\ e.code \notin D /\ C = D \cup {e.code}
  BY <1>1, FS_AddElement, FS_CardinalityType
<1>2. CASE e.type = "Released" /\ e.code \in D /\ C = D \ {e.code}
  BY <1>2, FS_RemoveElement, FS_CardinalityType
<1> QED
  BY <1>1, <1>2 DEF Moves

\* An event is processed: the matcher's count follows the key.
LEMMA EventKeys ==
  ASSUME TypeOK, KeysInv, ProcessKeyEvent
  PROVE  KeysInv'
<1> SUFFICES ASSUME ~dropped' PROVE \E D, M : Waiting(D, M)' /\ Counted(D)'
  BY DEF KeysInv
<1> DEFINE e == Head(events)
<1>1. /\ events # <<>> /\ events' = Tail(events)
      /\ process_key_event(config, e.code, e.type)
      /\ UNCHANGED <<config, held, queue, dropped>>
  BY DEF ProcessKeyEvent, settings
<1> HIDE DEF e
<1>2. PICK D, M : Waiting(D, M) /\ Counted(D)
  BY <1>1 DEF KeysInv
<1>3. PICK C : Moves(e, D, C) /\ Leads(Key, Tail(events), C, M)
  BY <1>1, <1>2, LeadsTail DEF Waiting, TypeOK, e
<1>4. Waiting(C, M)'
  BY <1>1, <1>2, <1>3 DEF Waiting, KeysOf
<1>5. /\ IsFiniteSet(C) /\ Cardinality(C) \in Nat /\ Cardinality(D) \in Nat
      /\ e.type = "Pressed" => Cardinality(C) = Cardinality(D) + 1
      /\ e.type = "Released" => Cardinality(C) = Cardinality(D) - 1
  BY <1>2, <1>3, MovesCounted DEF Counted
<1>6. keys_down \in Nat /\ introducer_armed \in BOOLEAN
  BY DEF TypeOK, MatcherTypeOK
<1>7. CASE e.type = "Pressed"
  <2>1. keys_down' = keys_down + 1
    BY <1>1, <1>7 DEF process_key_event, handle_idle_press, handle_capturing_press
  <2>2. keys_down' <= Cardinality(C)
    BY <1>2, <1>5, <1>6, <1>7, <2>1 DEF Counted
  <2>3. introducer_armed' => state' = "Idle" /\ e.code = config.introducer /\ keys_down' = 1
    <3>1. CASE state = "Idle"
      <4>1. introducer_armed' = (keys_down' = 1 /\ e.code = config.introducer)
            /\ state' = "Idle"
        BY <1>1, <1>7, <3>1 DEF process_key_event, handle_idle_press
      <4> QED
        BY <4>1, Zenon
    <3>2. CASE state = "Capturing"
      BY <1>1, <1>2, <1>7, <3>2 DEF process_key_event, handle_capturing_press, Counted
    <3> QED
      BY <1>1, <3>1, <3>2 DEF process_key_event
  <2>4. e.code \in C
    BY <1>3, <1>7 DEF Moves
  <2>5. Counted(C)'
    <3>1. introducer_armed' => state' = "Idle" /\ config.introducer \in C /\ keys_down' <= 1
      BY <2>3, <2>4
    <3> QED
      BY <1>1, <1>5, <2>2, <3>1 DEF Counted
  <2> QED
    BY <1>4, <2>5
<1>8. CASE e.type = "Released"
  <2>1. keys_down' = OneKeyUp
    BY <1>1, <1>8 DEF process_key_event, handle_idle_release, handle_capturing_release
  <2>2. keys_down' <= Cardinality(C)
    BY <1>2, <1>5, <1>6, <1>8, <2>1 DEF Counted, OneKeyUp
  <2>3. introducer_armed' => introducer_armed /\ state = "Idle"
    BY <1>1, <1>2, <1>8
    DEF process_key_event, handle_idle_release, handle_capturing_release, Counted
  <2>4. introducer_armed' => e.code # config.introducer /\ state' = "Idle" /\ keys_down' = 0
    <3> SUFFICES ASSUME introducer_armed'
                 PROVE  e.code # config.introducer /\ state' = "Idle" /\ keys_down' = 0
      OBVIOUS
    <3>1. introducer_armed /\ state = "Idle" /\ keys_down <= 1
      BY <1>2, <2>3 DEF Counted
    <3>2. keys_down' = 0
      BY <1>6, <2>1, <3>1 DEF OneKeyUp
    <3> QED
      BY <1>1, <1>8, <3>1, <3>2 DEF process_key_event, handle_idle_release
  <2>5. Counted(C)'
    <3>1. introducer_armed' => state' = "Idle" /\ config.introducer \in C /\ keys_down' <= 1
      BY <1>2, <1>3, <1>8, <2>3, <2>4 DEF Counted, Moves
    <3> QED
      BY <1>1, <1>5, <2>2, <3>1 DEF Counted
  <2> QED
    BY <1>4, <2>5
<1> QED
  BY <1>3, <1>7, <1>8 DEF Moves

\* A step that moves no event and no key, and leaves the matcher alone, gives it
\* a timeout, or replaces it.
LEMMA OtherKeys ==
  ASSUME KeysInv, UNCHANGED <<events, held, queue, dropped>>,
         \/ UNCHANGED <<matcher, config>>
         \/ on_timeout /\ UNCHANGED config
         \/ NewMatcher
  PROVE  KeysInv'
<1> SUFFICES ASSUME ~dropped' PROVE \E D, M : Waiting(D, M)' /\ Counted(D)'
  BY DEF KeysInv
<1>1. PICK D, M : Waiting(D, M) /\ Counted(D)
  BY DEF KeysInv
<1>2. Waiting(D, M)'
  BY <1>1 DEF Waiting, KeysOf
<1>3. Counted(D)'
  <2>1. CASE UNCHANGED <<matcher, config>>
    BY <1>1, <2>1 DEF Counted, matcher
  <2>2. CASE on_timeout /\ UNCHANGED config
    BY <1>1, <2>2 DEF Counted, on_timeout
  <2>3. CASE NewMatcher
    <3>1. Cardinality(D) \in Nat /\ IsFiniteSet(D)
      BY <1>1, FS_CardinalityType DEF Counted
    <3>2. keys_down' = 0 /\ introducer_armed' = FALSE
      BY <2>3 DEF NewMatcher
    <3> QED
      BY <3>1, <3>2 DEF Counted
  <2> QED
    BY <2>1, <2>2, <2>3
<1> QED
  BY <1>2, <1>3

\* The daemon's other steps, and those of the surroundings other than the keys.
LEMMA RestKeys ==
  ASSUME KeysInv,
         \/ run \/ scan_directory \/ load_configuration \/ poll \/ check_timer
         \/ execute \/ CommandReturns \/ Exit
         \/ \E s \in Signal : handle_signal(s)
         \/ TimeExpires \/ EditConfig \/ Repainted \/ UNCHANGED vars
  PROVE  KeysInv'
<1> USE DEF settings, batch, world, history
<1>1. CASE run \/ scan_directory \/ poll \/ execute \/ CommandReturns \/ Exit
  BY <1>1, OtherKeys DEF run, scan_directory, poll, execute, CommandReturns, Exit
<1>2. CASE load_configuration
  BY <1>2, OtherKeys DEF load_configuration, ApplyScanned
<1>3. CASE check_timer
  BY <1>3, OtherKeys DEF check_timer
<1>4. CASE \/ \E s \in Signal : handle_signal(s)
           \/ TimeExpires \/ EditConfig \/ Repainted \/ UNCHANGED vars
  BY <1>4, OtherKeys DEF handle_signal, TimeExpires, EditConfig, Repainted, vars, daemon
<1> QED
  BY <1>1, <1>2, <1>3, <1>4

\* When every key is up and nothing waits, no key is down for the matcher.
LEMMA QuietKeys ==
  ASSUME TypeOK, KeysInv
  PROVE  QuietMeansNoKeysDown
<1> SUFFICES ASSUME Quiet, ~dropped PROVE keys_down = 0 /\ ~introducer_armed
  BY DEF QuietMeansNoKeysDown
<1>1. PICK D, M : Waiting(D, M) /\ Counted(D)
  BY DEF KeysInv
<1>2. D = M
  BY <1>1, LeadsEmpty DEF Quiet, Waiting
<1>3. ASSUME NEW d \in Device PROVE M \cap KeysOf(d) = {}
  <2>1. Leads(KeysOf(d), <<>>, M \cap KeysOf(d), held \cap KeysOf(d))
    BY <1>1 DEF Quiet, Waiting
  <2>2. M \cap KeysOf(d) = held \cap KeysOf(d)
    BY <2>1, LeadsEmpty
  <2> QED
    BY <2>2 DEF Quiet
<1>4. M \in SUBSET Key
  BY <1>1, LeadsTyped DEF Waiting, TypeOK
<1>5. D = {}
  BY <1>2, <1>3, <1>4, ApplicationAssumption DEF KeysOf
<1>6. Cardinality(D) = 0
  BY <1>5, FS_EmptySet
<1> QED
  BY <1>1, <1>5, <1>6 DEF Counted, TypeOK, MatcherTypeOK

\* Whatever order the devices are read in and however often the configuration is
\* reloaded, a matcher whose keyboard is at rest counts no key and is not armed,
\* unless the kernel has lost events.
THEOREM CountReturnsToZero == Spec => []QuietMeansNoKeysDown
<1>1. IInv /\ KeysInv /\ [Next]_vars => KeysInv'
  BY ReadKeys, PressKeys, EventKeys, RestKeys
  DEF IInv, Next, Daemon, Environment, Ended
<1>2. IInv /\ KeysInv => QuietMeansNoKeysDown
  BY QuietKeys DEF IInv
<1> QED
  BY InitKeys, <1>1, <1>2, ApplicationInvariant, PTL DEF Spec
=============================================================================
