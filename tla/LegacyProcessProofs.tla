------------------------- MODULE LegacyProcessProofs -------------------------
(***************************************************************************)
(* The C daemon as a process, for any number of descriptors, rounds and    *)
(* datagrams: the lock file, commands received in datagrams, and the       *)
(* descriptors that main remembers.                                        *)
(***************************************************************************)
EXTENDS LegacyProcess, FiniteSetTheorems, TLAPS

-----------------------------------------------------------------------------
(* The descriptor table.                                                   *)

\* Numbers given out: free ones, and different ones for different files.
Good(given) ==
  /\ \A k \in DOMAIN given :
       given[k] = -1 \/ (given[k] \in Descriptor /\ fds[given[k]] = Free)
  /\ \A j, k \in DOMAIN given : given[j] = given[k] => j = k \/ given[k] = -1

\* -1 is not a descriptor.
LEMMA NoDescriptor == -1 \notin Descriptor
BY DEF Descriptor

\* What the kernel gives out is good, whatever exists and however full the table is.
LEMMA GivenGood ==
  ASSUME NEW kinds
  PROVE  Good(Given(kinds)) /\ DOMAIN Given(kinds) = Range(kinds)
<1> DEFINE free == {n \in Descriptor : fds[n] = Free}
           exist == SelectSeq(kinds, LAMBDA k : k \in present)
           rank(n) == Cardinality({m \in free : m <= n})
           own(k) == {n \in free : rank(n) \in DOMAIN exist /\ exist[rank(n)] = k}
<1>1. Given(kinds) = [k \in Range(kinds) |->
                        IF own(k) = {} THEN -1 ELSE CHOOSE n \in own(k) : TRUE]
  BY Zenon DEF Given
<1>2. \A k \in Range(kinds) : Given(kinds)[k] = -1 \/ Given(kinds)[k] \in own(k)
  <2> HIDE DEF own
  <2> QED
    BY <1>1
<1>3. \A j, k, n : n \in own(j) /\ n \in own(k) => j = k
  <2> HIDE DEF free, exist, rank
  <2> QED
    BY Zenon
<1>4. \A k, n : n \in own(k) => n \in Descriptor /\ fds[n] = Free /\ n # -1
  <2> HIDE DEF exist, rank
  <2> QED
    BY NoDescriptor
<1>5. DOMAIN Given(kinds) = Range(kinds)
  <2> HIDE DEF own
  <2> QED
    BY <1>1
<1> HIDE DEF own
<1> QED
  BY <1>2, <1>3, <1>4, <1>5 DEF Good

\* The entries of the table after numbers were given out and others closed.
LEMMA TableEntries ==
  ASSUME NEW given, NEW gen, NEW closed, Good(given), Table(given, gen, closed)
  PROVE  /\ DOMAIN fds' = Descriptor
         /\ \A n \in Descriptor :
              /\ n \in closed => fds'[n] = Free
              /\ n \notin closed => \A k \in DOMAIN given :
                   given[k] = n => fds'[n] = [kind |-> k, gen |-> gen]
              /\ n \notin closed /\ (\A k \in DOMAIN given : given[k] # n) => fds'[n] = fds[n]
<1>1. DOMAIN fds' = Descriptor
  BY DEF Table
<1>2. ASSUME NEW n \in Descriptor, n \notin closed, NEW k \in DOMAIN given, given[k] = n
      PROVE  fds'[n] = [kind |-> k, gen |-> gen]
  <2>1. n \in Range(given)
    BY <1>2 DEF Range
  <2>2. fds'[n] = [kind |-> CHOOSE j \in DOMAIN given : given[j] = n, gen |-> gen]
    BY <1>2, <2>1 DEF Table
  <2>3. \A j \in DOMAIN given : given[j] = n => j = k
    BY <1>2, NoDescriptor DEF Good
  <2>4. (CHOOSE j \in DOMAIN given : given[j] = n) = k
    BY <1>2, <2>3
  <2> QED
    BY <2>2, <2>4
<1>3. ASSUME NEW n \in Descriptor, n \notin closed, \A k \in DOMAIN given : given[k] # n
      PROVE  fds'[n] = fds[n]
  <2>1. n \notin Range(given)
    BY <1>3 DEF Range
  <2> QED
    BY <1>3, <2>1 DEF Table
<1>4. \A n \in Descriptor : n \in closed => fds'[n] = Free
  BY DEF Table
<1> QED
  BY <1>1, <1>2, <1>3, <1>4

-----------------------------------------------------------------------------
(* The lock file, and commands received in datagrams.                      *)

\* Until daemonize() has forked there is no daemon.
LockInv ==
  /\ forked \in BOOLEAN
  /\ pc = "daemonize" => ~forked
  /\ LockFileNamesDaemon

\* A step keeps the lock file: Child() writes it, and only a process that
\* exits removes it again.
LEMMA LockStep == LockInv /\ [Next]_vars => LockInv'
<1> SUFFICES ASSUME LockInv, [Next]_vars
             PROVE  LockInv'
  OBVIOUS
<1> USE DEF LockInv, LockFileNamesDaemon
<1>1. CASE daemonize
  <2>1. CASE UNCHANGED <<forked, lockfile>>
    BY <1>1, <2>1 DEF daemonize, Exit
  <2>2. CASE pc' = "exited" /\ UNCHANGED forked
    BY <2>2
  <2>3. CASE pc' = "child" /\ forked' = TRUE
    BY <2>3
  <2> QED
    BY <1>1, <2>1, <2>2, <2>3 DEF daemonize, Exit
<1>2. CASE Child
  BY <1>2 DEF Child, Exit
<1>3. CASE Main /\ ~daemonize /\ ~Child
  <2>1. UNCHANGED <<forked, lockfile>> /\ pc \notin {"daemonize", "child", "exited"}
        /\ pc' # "daemonize"
    BY <1>3 DEF Main, Again, launchpad_init, open_event_files, StartRce, EnterLoop,
                LeaveLoop, rce_stop, close_files, launchpad_deinit, Exit
  <2> QED
    BY <2>1
<1>4. CASE Action \/ Log
  BY <1>4 DEF Action, Log, Exit
<1>5. CASE hup_handler
  BY <1>5 DEF hup_handler, Exit
<1>6. CASE term_handler
  <2>1. UNCHANGED forked /\ ((pc' = pc /\ lockfile' = lockfile) \/ pc' = "exited")
    BY <1>6 DEF term_handler, Exit
  <2> QED
    BY <2>1
<1>7. CASE RceThread \/ (\E m \in Message : Send(m)) \/ Edit \/ Ended \/ UNCHANGED vars
  <2>1. UNCHANGED <<pc, forked, lockfile>>
    BY <1>7 DEF RceThread, Send, Edit, Ended, vars
  <2> QED
    BY <2>1
<1> QED
  BY <1>1, <1>2, <1>3, <1>4, <1>5, <1>6, <1>7 DEF Next

\* RCE that is on, a thread of it or a command it executed: some round had it
\* configured.
RceInv ==
  /\ ever_on \in BOOLEAN
  /\ IsOn(rce) => ever_on
  /\ threads # <<>> => ever_on
  /\ CommandsNeedRce

\* A step keeps the commands: rce_start() starts a thread only when the round
\* has RCE configured, and only a thread executes commands.
LEMMA RceStep == RceInv /\ [Next]_vars => RceInv'
<1> SUFFICES ASSUME RceInv, [Next]_vars
             PROVE  RceInv'
  OBVIOUS
<1> USE DEF RceInv, CommandsNeedRce
<1>1. CASE launchpad_init
  <2>1. ever_on' = (ever_on \/ IsOn(rce')) /\ UNCHANGED <<threads, ran>>
    BY <1>1 DEF launchpad_init, remote
  <2>2. ever_on' \in BOOLEAN /\ (IsOn(rce)' => ever_on') /\ (ever_on => ever_on')
    BY <2>1, Zenon DEF IsOn
  <2> QED
    BY <2>1, <2>2
<1>2. CASE StartRce
  <2>1. UNCHANGED <<rce, ran, ever_on>> /\ (threads' = threads \/ IsOn(rce))
    BY <1>2 DEF StartRce, rce_start
  <2> QED
    BY <2>1 DEF IsOn
<1>3. CASE RceThread
  <2>1. threads # <<>>
    BY <1>3 DEF RceThread
  <2>2. UNCHANGED <<rce, ever_on>>
    BY <1>3 DEF RceThread
  <2> QED
    BY <2>1, <2>2 DEF IsOn
<1>4. CASE Main /\ ~launchpad_init /\ ~StartRce
  <2>1. UNCHANGED <<rce, threads, ran, ever_on>>
    BY <1>4 DEF Main, daemonize, Child, Again, open_event_files, EnterLoop, LeaveLoop,
                rce_stop, close_files, launchpad_deinit, remote
  <2> QED
    BY <2>1 DEF IsOn
<1>5. CASE Action \/ Log \/ hup_handler \/ term_handler \/ (\E m \in Message : Send(m))
           \/ Edit \/ Ended \/ UNCHANGED vars
  <2>1. UNCHANGED <<rce, threads, ran, ever_on>>
    BY <1>5 DEF Action, Log, hup_handler, term_handler, Send, Edit, Ended, vars, remote
  <2> QED
    BY <2>1 DEF IsOn
<1> QED
  BY <1>1, <1>2, <1>3, <1>4, <1>5 DEF Next

-----------------------------------------------------------------------------
(* The descriptors that main remembers.                                    *)

\* The descriptors that main remembers for these kinds of files are theirs.
Named(kinds) ==
  \A k \in kinds : var[k] = -1 \/ (var[k] \in Descriptor /\ fds[var[k]].kind = k)

\* Between rce_stop() and the next round the socket's number is stale.
KnownKinds ==
  IF pc \in {"close", "deinit", "again", "exited"} THEN Kind \ {"socket"} ELSE Kind

FileTypes ==
  /\ DOMAIN fds = Descriptor
  /\ \A n \in Descriptor : fds[n].kind \in Kind \cup {"free", "leaked"}
  /\ var \in [Kind -> Descriptor \cup {-1}]

\* Nothing but sockets and leaked files is open without being remembered.
Remembered ==
  \A n \in Descriptor : fds[n].kind \in Kind \ {"socket"} => var[fds[n].kind] = n

\* What is open in which part of a round.
BetweenRounds == {"daemonize", "child", "again", "init"}
Unopened ==
  /\ pc \in BetweenRounds => var["fb"] = -1
  /\ pc \in BetweenRounds \cup {"open", "deinit"} => \A k \in {"kbd", "fw", "vol"} : var[k] = -1
  /\ pc \in BetweenRounds \cup {"open", "rce", "proc", "deinit"}
       => \A k \in {"keypad", "fiveway"} : var[k] = -1

\* One socket for each round that has come as far as rce_init().
Sockets == {n \in Descriptor : fds[n].kind = "socket"}
SocketBound ==
  /\ round \in Nat
  /\ Cardinality(Sockets) <= IF pc \in {"init", "open", "rce"} THEN round - 1 ELSE round

FilesInv ==
  FileTypes /\ Named(KnownKinds) /\ Remembered /\ Unopened /\ SocketBound

\* Files are opened and closed.  Before, the descriptors of `known` are theirs;
\* those of `lost` are closed, those of `forgotten` set to -1.  What is given to
\* main replaces nothing that is open, and a file that main does not know is
\* leaked, or closed in the same step.
FilesChange(given, gen, closed, known, lost, forgotten) ==
  /\ Good(given)
  /\ Table(given, gen, closed)
  /\ Remember(given, forgotten)
  /\ Named(known)
  /\ known \subseteq Kind /\ lost \subseteq known /\ forgotten \subseteq Kind
  /\ \A n \in closed : \/ n = -1
                       \/ \E k \in lost : var[k] = n
                       \/ \E k \in DOMAIN given \ Kind : given[k] = n
  /\ \A k \in DOMAIN given \cap Kind : k = "socket" \/ (var[k] = -1 /\ k \notin forgotten)
  /\ \A k \in DOMAIN given \ Kind : k = "leaked" \/ given[k] \in closed \cup {-1}
  /\ \A k \in forgotten : k = "socket" \/ var[k] \in closed \cup {-1}

\* What main remembers after files were opened and closed.
LEMMA RememberEntries ==
  ASSUME NEW given, NEW forgotten, Remember(given, forgotten), forgotten \subseteq Kind
  PROVE  /\ DOMAIN var' = Kind
         /\ \A k \in Kind :
              /\ k \in forgotten => var'[k] = -1
              /\ k \notin forgotten /\ k \in DOMAIN given => var'[k] = given[k]
              /\ k \notin forgotten /\ k \notin DOMAIN given => var'[k] = var[k]
BY DEF Remember

\* Afterwards the descriptors are those of their files for the kinds that were
\* opened, forgotten, or known and not lost: no number is used for two files.
LEMMA StepNamed ==
  ASSUME FileTypes,
         NEW given, NEW gen, NEW closed, NEW known, NEW lost, NEW forgotten,
         FilesChange(given, gen, closed, known, lost, forgotten),
         NEW k \in Kind, k \in forgotten \cup DOMAIN given \cup (known \ lost)
  PROVE  var'[k] = -1 \/ (var'[k] \in Descriptor /\ fds'[var'[k]].kind = k)
<1> USE DEF FilesChange
<1>1. /\ \A n \in Descriptor :
           /\ n \notin closed => \A j \in DOMAIN given :
                given[j] = n => fds'[n] = [kind |-> j, gen |-> gen]
           /\ n \notin closed /\ (\A j \in DOMAIN given : given[j] # n) => fds'[n] = fds[n]
  BY TableEntries
<1>2. \A j \in Kind : j # "free"
  BY DEF Kind
<1>3. \A j \in lost : var[j] = -1 \/ fds[var[j]].kind = j
  BY DEF Named
<1>4. \A j \in DOMAIN given : given[j] = -1 \/ (given[j] \in Descriptor /\ fds[given[j]] = Free)
  BY DEF Good
<1>5. Free.kind = "free"
  BY DEF Free
<1>6. CASE k \in forgotten
  BY <1>6, RememberEntries
<1>7. CASE k \notin forgotten /\ k \in DOMAIN given
  <2>1. var'[k] = given[k]
    BY <1>7, RememberEntries
  <2> SUFFICES ASSUME given[k] # -1
               PROVE  given[k] \in Descriptor /\ fds'[given[k]].kind = k
    BY <2>1
  <2>2. given[k] \in Descriptor /\ fds[given[k]] = Free
    BY <1>4, <1>7
  <2>3. \A j \in lost : var[j] # given[k]
    BY <1>2, <1>3, <1>5, <2>2
  <2>4. \A j \in DOMAIN given \ Kind : given[j] # given[k]
    BY <1>7 DEF Good
  <2>5. given[k] \notin closed
    BY <2>3, <2>4
  <2>6. fds'[given[k]] = [kind |-> k, gen |-> gen]
    BY <1>1, <1>7, <2>2, <2>5
  <2> QED
    BY <2>2, <2>6
<1>8. CASE k \notin forgotten /\ k \notin DOMAIN given
  <2>1. var'[k] = var[k] /\ k \in known /\ k \notin lost
    BY <1>8, RememberEntries
  <2> SUFFICES ASSUME var[k] # -1
               PROVE  var[k] \in Descriptor /\ fds'[var[k]].kind = k
    BY <2>1
  <2>2. var[k] \in Descriptor /\ fds[var[k]].kind = k
    BY <2>1 DEF Named
  <2>3. \A j \in lost : var[j] # var[k]
    BY <1>3, <2>1, <2>2
  <2>4. \A j \in DOMAIN given : given[j] # var[k]
    BY <1>2, <1>4, <1>5, <2>2
  <2>5. var[k] \notin closed
    BY <2>3, <2>4
  <2>6. fds'[var[k]] = fds[var[k]]
    BY <1>1, <2>2, <2>4, <2>5
  <2> QED
    BY <2>2, <2>6
<1> QED
  BY <1>6, <1>7, <1>8

\* Files stay typed, and what is open is remembered, leaked or a socket.
LEMMA StepRemembered ==
  ASSUME FileTypes, Remembered,
         NEW given, NEW gen, NEW closed, NEW known, NEW lost, NEW forgotten,
         FilesChange(given, gen, closed, known, lost, forgotten)
  PROVE  FileTypes' /\ Remembered'
<1> USE DEF FilesChange
<1>1. /\ DOMAIN fds' = Descriptor
      /\ \A n \in Descriptor :
           /\ n \in closed => fds'[n] = Free
           /\ n \notin closed => \A j \in DOMAIN given :
                given[j] = n => fds'[n] = [kind |-> j, gen |-> gen]
           /\ n \notin closed /\ (\A j \in DOMAIN given : given[j] # n) => fds'[n] = fds[n]
  BY TableEntries
<1>2. Free.kind = "free" /\ "free" \notin Kind
  BY DEF Free, Kind
<1>3. ASSUME NEW n \in Descriptor
      PROVE  /\ fds'[n].kind \in Kind \cup {"free", "leaked"}
             /\ fds'[n].kind \in Kind \ {"socket"} => var'[fds'[n].kind] = n
  <2>1. CASE n \in closed
    BY <1>1, <1>2, <2>1
  <2>2. ASSUME n \notin closed, NEW j \in DOMAIN given, given[j] = n
        PROVE  /\ fds'[n].kind \in Kind \cup {"free", "leaked"}
               /\ fds'[n].kind \in Kind \ {"socket"} => var'[fds'[n].kind] = n
    <3>1. fds'[n].kind = j
      BY <1>1, <2>2
    <3>2. j \in Kind \cup {"leaked"}
      BY <2>2, NoDescriptor
    <3>3. j \in Kind \ {"socket"} => var'[j] = n
      BY <2>2, RememberEntries
    <3> QED
      BY <3>1, <3>2, <3>3
  <2>3. CASE n \notin closed /\ \A j \in DOMAIN given : given[j] # n
    <3>1. fds'[n] = fds[n]
      BY <1>1, <2>3
    <3>2. ASSUME fds[n].kind \in Kind \ {"socket"}
          PROVE  var'[fds[n].kind] = n
      <4>1. var[fds[n].kind] = n
        BY <3>2 DEF Remembered
      <4>2. n # -1
        BY NoDescriptor
      <4>3. fds[n].kind \notin forgotten /\ fds[n].kind \notin DOMAIN given
        BY <2>3, <3>2, <4>1, <4>2
      <4> QED
        BY <3>2, <4>1, <4>3, RememberEntries
    <3> QED
      BY <3>1, <3>2 DEF FileTypes
  <2> QED
    BY <2>1, <2>2, <2>3
<1>4. var' \in [Kind -> Descriptor \cup {-1}]
  <2>1. \A k \in Kind : var'[k] \in Descriptor \cup {-1}
    BY RememberEntries DEF FileTypes, Good
  <2>2. var' = [k \in Kind |-> var'[k]]
    BY DEF Remember
  <2> QED
    BY <2>1, <2>2
<1> QED
  BY <1>1, <1>3, <1>4 DEF FileTypes, Remembered

\* Sockets are opened by rce_init() only, one at a time.
LEMMA StepSockets ==
  ASSUME IsFiniteSet(Sockets),
         NEW given, NEW gen, NEW closed, Good(given), Table(given, gen, closed)
  PROVE  /\ IsFiniteSet(Sockets')
         /\ "socket" \notin DOMAIN given => Cardinality(Sockets') <= Cardinality(Sockets)
         /\ Cardinality(Sockets') <= Cardinality(Sockets) + 1
<1>1. \A n \in Descriptor :
        /\ n \in closed => fds'[n] = Free
        /\ n \notin closed => \A j \in DOMAIN given :
             given[j] = n => fds'[n] = [kind |-> j, gen |-> gen]
        /\ n \notin closed /\ (\A j \in DOMAIN given : given[j] # n) => fds'[n] = fds[n]
  BY TableEntries
<1>2. ASSUME NEW n \in Sockets'
      PROVE  n \in Sockets \/ ("socket" \in DOMAIN given /\ n = given["socket"])
  <2>1. n \in Descriptor /\ fds'[n].kind = "socket"
    BY <1>2 DEF Sockets
  <2>2. n \notin closed
    BY <1>1, <2>1 DEF Free
  <2>3. CASE \A j \in DOMAIN given : given[j] # n
    BY <1>1, <2>1, <2>2, <2>3 DEF Sockets
  <2>4. ASSUME NEW j \in DOMAIN given, given[j] = n
        PROVE  j = "socket"
    <3>1. fds'[n] = [kind |-> j, gen |-> gen]
      BY <1>1, <2>1, <2>2, <2>4
    <3> QED
      BY <2>1, <3>1
  <2> QED
    BY <2>3, <2>4
<1>3. Cardinality(Sockets) \in Nat
  BY FS_CardinalityType
<1>4. CASE "socket" \notin DOMAIN given
  <2>1. Sockets' \subseteq Sockets
    BY <1>2, <1>4
  <2> QED
    BY <2>1, <1>3, <1>4, FS_Subset, FS_CardinalityType
<1>5. CASE "socket" \in DOMAIN given
  <2>1. Sockets' \subseteq Sockets \cup {given["socket"]}
    BY <1>2
  <2>2. /\ IsFiniteSet(Sockets \cup {given["socket"]})
        /\ Cardinality(Sockets \cup {given["socket"]}) <= Cardinality(Sockets) + 1
    BY <1>3, FS_AddElement
  <2>3. /\ IsFiniteSet(Sockets')
        /\ Cardinality(Sockets') <= Cardinality(Sockets \cup {given["socket"]})
    BY <2>1, <2>2, FS_Subset
  <2>4. Cardinality(Sockets') \in Nat /\ Cardinality(Sockets \cup {given["socket"]}) \in Nat
    BY <2>2, <2>3, FS_CardinalityType
  <2> QED
    BY <1>3, <1>5, <2>2, <2>3, <2>4
<1> QED
  BY <1>4, <1>5

\* The table is finite, and so are the sockets in it.
LEMMA SocketsFinite == IsFiniteSet(Sockets) /\ Cardinality(Sockets) \in Nat
<1>1. IsFiniteSet(Descriptor)
  BY ProcessAssumption, FS_Interval DEF Descriptor
<1>2. Sockets \subseteq Descriptor
  BY DEF Sockets
<1> QED
  BY <1>1, <1>2, FS_Subset, FS_CardinalityType

\* A step that opens and closes files, in a round.
LEMMA FilesKept ==
  ASSUME FilesInv,
         NEW given, NEW gen, NEW closed, NEW lost, NEW forgotten,
         FilesChange(given, gen, closed, KnownKinds, lost, forgotten),
         KnownKinds' \subseteq forgotten \cup DOMAIN given \cup (KnownKinds \ lost),
         Unopened', "socket" \notin DOMAIN given, round' = round,
         pc \in {"init", "open", "rce"} \/ pc' \notin {"init", "open", "rce"}
  PROVE  FilesInv'
<1>1. FileTypes' /\ Remembered'
  BY StepRemembered DEF FilesInv
<1>2. Named(KnownKinds)'
  <2>1. ASSUME NEW k \in KnownKinds'
        PROVE  var'[k] = -1 \/ (var'[k] \in Descriptor /\ fds'[var'[k]].kind = k)
    <3>1. k \in Kind
      BY DEF KnownKinds
    <3> QED
      BY <2>1, <3>1, StepNamed DEF FilesInv
  <2> QED
    BY <2>1 DEF Named
<1>3. SocketBound'
  <2>1. Cardinality(Sockets') <= Cardinality(Sockets)
    BY StepSockets, SocketsFinite DEF FilesChange
  <2>2. Cardinality(Sockets') \in Nat
    BY StepSockets, SocketsFinite, FS_CardinalityType DEF FilesChange
  <2> QED
    BY <2>1, <2>2, SocketsFinite DEF FilesInv, SocketBound
<1> QED
  BY <1>1, <1>2, <1>3 DEF FilesInv

\* A step that changes no file.
LEMMA FilesUnchanged ==
  ASSUME FilesInv, UNCHANGED files, UNCHANGED round,
         \/ pc' = pc \/ pc' = "exited"
         \/ pc = "daemonize" /\ pc' \in {"child", "again"}
         \/ pc = "child" /\ pc' = "again"
         \/ pc = "loop" /\ pc' = "stop"
  PROVE  FilesInv'
<1> USE DEF FilesInv
<1>1. UNCHANGED <<fds, var>>
  BY DEF files
<1>2. FileTypes' /\ Remembered'
  BY <1>1 DEF FileTypes, Remembered
<1>3. Named(KnownKinds)'
  <2>1. KnownKinds' \subseteq KnownKinds
    BY DEF KnownKinds
  <2> QED
    BY <1>1, <2>1 DEF Named
<1>4. Unopened'
  BY <1>1 DEF Unopened, BetweenRounds
<1>5. SocketBound'
  <2>1. Sockets' = Sockets
    BY <1>1 DEF Sockets
  <2> QED
    BY <2>1, SocketsFinite DEF SocketBound
<1> QED
  BY <1>2, <1>3, <1>4, <1>5

\* No file at all is given.
LEMMA GoodNothing == Good(<<>>) /\ DOMAIN <<>> = {}
BY DEF Good

\* The files of the sequences that main opens.
LEMMA Ranges ==
  /\ Range(<<"log">>) = {"log"} /\ Range(<<"socket">>) = {"socket"}
  /\ Range(<<"leaked">>) = {"leaked"} /\ Range(<<"dir", "fb">>) = {"dir", "fb"}
  /\ Range(<<"keypad", "fiveway">>) = {"keypad", "fiveway"}
  /\ Range(<<"kbd", "fw", "vol">>) = {"kbd", "fw", "vol"}
<1>1. \A k : /\ Range(<<k>>) = {k}
             /\ \A j : Range(<<k, j>>) = {k, j}
             /\ \A j, i : Range(<<k, j, i>>) = {k, j, i}
  <2> TAKE k
  <2>1. Range(<<k>>) = {k}
    BY DEF Range
  <2>2. ASSUME NEW j PROVE Range(<<k, j>>) = {k, j}
    <3>1. <<k, j>>[1] = k /\ <<k, j>>[2] = j /\ DOMAIN <<k, j>> = {1, 2}
      OBVIOUS
    <3> QED
      BY <3>1 DEF Range
  <2>3. ASSUME NEW j, NEW i PROVE Range(<<k, j, i>>) = {k, j, i}
    <3>1. <<k, j, i>>[1] = k /\ <<k, j, i>>[2] = j /\ <<k, j, i>>[3] = i
          /\ DOMAIN <<k, j, i>> = {1, 2, 3}
      OBVIOUS
    <3> QED
      BY <3>1 DEF Range
  <2> QED
    BY <2>1, <2>2, <2>3
<1> QED
  BY <1>1

\* get_diag_fp(): the log is opened when it is not open.
LEMMA LogKept ==
  ASSUME FilesInv, get_diag_fp, UNCHANGED round, UNCHANGED pc
  PROVE  FilesInv'
<1>1. CASE UNCHANGED files
  BY <1>1, FilesUnchanged
<1>2. CASE var["log"] = -1 /\ Open(<<"log">>)
  <2>1. PICK given : given = Given(<<"log">>) /\ Table(given, 0, {}) /\ Remember(given, {})
    BY <1>2 DEF Open
  <2>2. Good(given) /\ DOMAIN given = {"log"}
    BY <2>1, GivenGood, Ranges
  <2>3. FilesChange(given, 0, {}, KnownKinds, {}, {})
    BY <1>2, <2>1, <2>2 DEF FilesChange, FilesInv, KnownKinds, Kind
  <2>4. KnownKinds' = KnownKinds
    BY DEF KnownKinds
  <2>5. \A k \in Kind : k # "log" => var'[k] = var[k]
    BY <2>1, <2>2, RememberEntries
  <2>6. Unopened'
    BY <2>5 DEF FilesInv, Unopened, Kind
  <2> QED
    BY <2>2, <2>3, <2>4, <2>6, FilesKept
<1> QED
  BY <1>1, <1>2 DEF get_diag_fp

\* A round begins: the log is opened, the socket of the round before forgotten.
LEMMA AgainFiles == FilesInv /\ Again => FilesInv'
<1> SUFFICES ASSUME FilesInv, Again
             PROVE  FilesInv'
  OBVIOUS
<1> USE DEF FilesInv
<1>1. pc = "again" /\ pc' = "init" /\ round' = round + 1
  BY DEF Again
<1>2. PICK given : /\ given = IF ~forked \/ var["log"] # -1 THEN <<>> ELSE Given(<<"log">>)
                   /\ Table(given, 0, {}) /\ Remember(given, {"socket"})
  BY DEF Again
<1>3. Good(given) /\ DOMAIN given \subseteq {"log"}
      /\ ("log" \in DOMAIN given => var["log"] = -1)
  BY <1>2, GivenGood, Ranges, GoodNothing
<1>4. KnownKinds = Kind \ {"socket"} /\ KnownKinds' = Kind
  BY <1>1 DEF KnownKinds
<1>5. FilesChange(given, 0, {}, KnownKinds, {}, {"socket"})
  <2>1. "socket" \in Kind /\ "log" \in Kind
    BY DEF Kind
  <2> QED
    BY <1>2, <1>3, <1>4, <2>1 DEF FilesChange
<1>6. FileTypes' /\ Remembered'
  BY <1>5, StepRemembered
<1>7. Named(KnownKinds)'
  <2>1. \A k \in Kind : var'[k] = -1 \/ (var'[k] \in Descriptor /\ fds'[var'[k]].kind = k)
    BY <1>4, <1>5, StepNamed
  <2> QED
    BY <1>4, <2>1 DEF Named
<1>8. Unopened'
  <2>1. \A k \in Kind : k \notin {"log", "socket"} => var'[k] = var[k]
    BY <1>2, <1>3, RememberEntries DEF Kind
  <2> QED
    BY <1>1, <2>1 DEF Unopened, BetweenRounds, Kind
<1>9. SocketBound'
  <2>1. Cardinality(Sockets') <= Cardinality(Sockets)
    BY <1>2, <1>3, StepSockets, SocketsFinite
  <2>2. Cardinality(Sockets') \in Nat
    BY <1>2, <1>3, StepSockets, SocketsFinite, FS_CardinalityType
  <2> QED
    BY <1>1, <2>1, <2>2, SocketsFinite DEF SocketBound
<1> QED
  BY <1>6, <1>7, <1>8, <1>9

\* The directory and the framebuffer are opened, and the directory closed again.
LEMMA InitFiles == FilesInv /\ launchpad_init => FilesInv'
<1> SUFFICES ASSUME FilesInv, launchpad_init
             PROVE  FilesInv'
  OBVIOUS
<1>1. pc = "init" /\ UNCHANGED round
  BY DEF launchpad_init
<1>2. CASE Exit
  BY <1>1, <1>2, FilesUnchanged DEF Exit
<1>3. CASE ~Exit
  <2>1. PICK given : /\ given = Given(<<"dir", "fb">>) /\ pc' = "open"
                     /\ Table(given, 0, {given["dir"]}) /\ Remember(given, {})
    BY <1>3 DEF launchpad_init, fbscreen_open
  <2>2. Good(given) /\ DOMAIN given = {"dir", "fb"}
    BY <2>1, GivenGood, Ranges
  <2>3. KnownKinds = Kind /\ KnownKinds' = Kind
    BY <1>1, <2>1 DEF KnownKinds
  <2>4. var["fb"] = -1
    BY <1>1 DEF FilesInv, Unopened, BetweenRounds
  <2>5. "dir" \notin Kind /\ "fb" \in Kind
    BY DEF Kind
  <2>6. FilesChange(given, 0, {given["dir"]}, KnownKinds, {}, {})
    BY <2>1, <2>2, <2>3, <2>4, <2>5 DEF FilesChange, FilesInv
  <2>7. \A k \in Kind : k # "fb" => var'[k] = var[k]
    BY <2>1, <2>2, <2>5, RememberEntries
  <2>8. Unopened'
    BY <1>1, <2>1, <2>7 DEF FilesInv, Unopened, BetweenRounds, Kind
  <2> QED
    BY <1>1, <2>1, <2>2, <2>3, <2>6, <2>8, FilesKept
<1> QED
  BY <1>2, <1>3

\* The event files are opened.
LEMMA EventFiles == FilesInv /\ open_event_files => FilesInv'
<1> SUFFICES ASSUME FilesInv, open_event_files
             PROVE  FilesInv'
  OBVIOUS
<1>1. pc = "open" /\ pc' \in {"stop", "rce"} /\ UNCHANGED round
  BY DEF open_event_files
<1>2. PICK given : /\ given = Given(<<"kbd", "fw", "vol">>)
                   /\ Table(given, 0, {}) /\ Remember(given, {})
  BY DEF open_event_files, Open
<1>3. Good(given) /\ DOMAIN given = {"kbd", "fw", "vol"}
  BY <1>2, GivenGood, Ranges
<1>4. KnownKinds = Kind /\ KnownKinds' = Kind
  BY <1>1 DEF KnownKinds
<1>5. \A k \in {"kbd", "fw", "vol"} : var[k] = -1 /\ k \in Kind
  BY <1>1 DEF FilesInv, Unopened, Kind
<1>6. FilesChange(given, 0, {}, KnownKinds, {}, {})
  BY <1>2, <1>3, <1>4, <1>5 DEF FilesChange, FilesInv
<1>7. \A k \in Kind : k \notin {"kbd", "fw", "vol"} => var'[k] = var[k]
  BY <1>2, <1>3, RememberEntries
<1>8. Unopened'
  BY <1>1, <1>7 DEF FilesInv, Unopened, BetweenRounds, Kind
<1> QED
  BY <1>1, <1>3, <1>4, <1>6, <1>8, FilesKept

\* The socket of the round is opened, whether or not main is given it.
LEMMA SocketFiles == FilesInv /\ StartRce => FilesInv'
<1> SUFFICES ASSUME FilesInv, StartRce
             PROVE  FilesInv'
  OBVIOUS
<1> USE DEF FilesInv
<1>1. pc = "rce" /\ pc' = "proc" /\ UNCHANGED round
  BY DEF StartRce
<1>2. PICK returned \in BOOLEAN : rce_init(returned)
  BY DEF StartRce
<1>3. PICK given, gen, forgotten :
        /\ given = Given(<<"socket">>) /\ forgotten \subseteq {"socket"}
        /\ Table(given, gen, {}) /\ Remember(given, forgotten)
  BY <1>2 DEF rce_init
<1>4. Good(given) /\ DOMAIN given = {"socket"}
  BY <1>3, GivenGood, Ranges
<1>5. KnownKinds = Kind /\ KnownKinds' = Kind
  BY <1>1 DEF KnownKinds
<1>6. "socket" \in Kind
  BY DEF Kind
<1>7. FilesChange(given, gen, {}, KnownKinds, {}, forgotten)
  BY <1>3, <1>4, <1>5, <1>6 DEF FilesChange
<1>8. FileTypes' /\ Remembered'
  BY <1>7, StepRemembered
<1>9. Named(KnownKinds)'
  <2>1. \A k \in Kind : var'[k] = -1 \/ (var'[k] \in Descriptor /\ fds'[var'[k]].kind = k)
    BY <1>5, <1>7, StepNamed
  <2> QED
    BY <1>5, <2>1 DEF Named
<1>10. Unopened'
  <2>1. forgotten \subseteq Kind
    BY <1>3, <1>6
  <2>2. \A k \in Kind : k # "socket" => var'[k] = var[k]
    BY <1>3, <1>4, <2>1, RememberEntries
  <2> QED
    BY <1>1, <2>2 DEF Unopened, BetweenRounds, Kind
<1>11. SocketBound'
  <2>1. Cardinality(Sockets') <= Cardinality(Sockets) + 1
    BY <1>3, <1>4, StepSockets, SocketsFinite
  <2>2. Cardinality(Sockets') \in Nat
    BY <1>3, <1>4, StepSockets, SocketsFinite, FS_CardinalityType
  <2> QED
    BY <1>1, <2>1, <2>2, SocketsFinite DEF SocketBound
<1> QED
  BY <1>8, <1>9, <1>10, <1>11

\* The files of /proc are opened and the log is closed.
LEMMA LoopFiles == FilesInv /\ EnterLoop => FilesInv'
<1> SUFFICES ASSUME FilesInv, EnterLoop
             PROVE  FilesInv'
  OBVIOUS
<1>1. pc = "proc" /\ pc' = "loop" /\ UNCHANGED round
  BY DEF EnterLoop
<1>2. PICK given : /\ given = Given(<<"keypad", "fiveway">>)
                   /\ Table(given, 0, {var["log"]}) /\ Remember(given, {"log"})
  BY DEF EnterLoop
<1>3. Good(given) /\ DOMAIN given = {"keypad", "fiveway"}
  BY <1>2, GivenGood, Ranges
<1>4. KnownKinds = Kind /\ KnownKinds' = Kind
  BY <1>1 DEF KnownKinds
<1>5. var["keypad"] = -1 /\ var["fiveway"] = -1
  BY <1>1 DEF FilesInv, Unopened
<1>6. {"keypad", "fiveway", "log"} \subseteq Kind
  BY DEF Kind
<1>7. FilesChange(given, 0, {var["log"]}, KnownKinds, {"log"}, {"log"})
  BY <1>2, <1>3, <1>4, <1>5, <1>6 DEF FilesChange, FilesInv
<1>8. Unopened'
  BY <1>1 DEF Unopened, BetweenRounds
<1> QED
  BY <1>1, <1>3, <1>4, <1>7, <1>8, FilesKept

\* Files are closed and nothing is opened.
LEMMA CloseFiles ==
  ASSUME FilesInv, NEW kinds, kinds \subseteq KnownKinds, Close(kinds),
         KnownKinds' \subseteq KnownKinds, Unopened', UNCHANGED round,
         pc' \notin {"init", "open", "rce"}
  PROVE  FilesInv'
<1> PICK none, closed : none = <<>> /\ closed = {var[k] : k \in kinds}
  OBVIOUS
<1>1. Good(none) /\ DOMAIN none = {}
  BY GoodNothing
<1>2. kinds \subseteq Kind /\ KnownKinds \subseteq Kind
  BY DEF KnownKinds
<1>3. FilesChange(none, 0, closed, KnownKinds, kinds, kinds)
  BY <1>1, <1>2 DEF FilesChange, Close, FilesInv
<1> QED
  BY <1>1, <1>3, FilesKept

\* close_event_files(), close_procwrite_files() and launchpad_deinit().
LEMMA ClosingFiles == FilesInv /\ (close_files \/ launchpad_deinit) => FilesInv'
<1> SUFFICES ASSUME FilesInv, close_files \/ launchpad_deinit
             PROVE  FilesInv'
  OBVIOUS
<1>1. CASE close_files
  <2>1. pc = "close" /\ pc' = "deinit" /\ UNCHANGED round
        /\ Close({"kbd", "fw", "vol", "keypad", "fiveway"})
    BY <1>1 DEF close_files
  <2>2. KnownKinds = Kind \ {"socket"} /\ KnownKinds' = Kind \ {"socket"}
    BY <2>1 DEF KnownKinds
  <2>3. {"kbd", "fw", "vol", "keypad", "fiveway"} \subseteq Kind \ {"socket"}
    BY DEF Kind
  <2>4. \A k \in {"kbd", "fw", "vol", "keypad", "fiveway"} : var'[k] = -1
    BY <2>1, <2>3 DEF Close, Remember
  <2>5. Unopened'
    BY <2>1, <2>4 DEF Unopened, BetweenRounds
  <2> QED
    BY <2>1, <2>2, <2>3, <2>5, CloseFiles
<1>2. CASE launchpad_deinit
  <2>1. pc = "deinit" /\ pc' \in {"again", "exited"} /\ UNCHANGED round /\ Close({"fb"})
    BY <1>2 DEF launchpad_deinit, fbscreen_close
  <2>2. KnownKinds = Kind \ {"socket"} /\ KnownKinds' = Kind \ {"socket"}
    BY <2>1 DEF KnownKinds
  <2>3. {"fb"} \subseteq Kind \ {"socket"}
    BY DEF Kind
  <2>4. var'["fb"] = -1 /\ \A k \in Kind \ {"fb"} : var'[k] = var[k]
    <3>1. DOMAIN <<>> = {}
      BY GoodNothing
    <3> QED
      BY <2>1, <2>3, <3>1 DEF Close, Remember
  <2>5. Unopened'
    BY <2>1, <2>4 DEF FilesInv, Unopened, BetweenRounds, Kind
  <2> QED
    BY <2>1, <2>2, <2>3, <2>5, CloseFiles
<1> QED
  BY <1>1, <1>2

\* rce_stop() closes the socket, and its number is stale from then on.
LEMMA StopFiles == FilesInv /\ rce_stop => FilesInv'
<1> SUFFICES ASSUME FilesInv, rce_stop
             PROVE  FilesInv'
  OBVIOUS
<1>1. pc = "stop" /\ pc' = "close" /\ UNCHANGED round /\ UNCHANGED var
      /\ Table(<<>>, 0, {var["socket"]})
  BY DEF rce_stop
<1>2. PICK none : none = <<>>
  OBVIOUS
<1>3. Good(none) /\ DOMAIN none = {}
  BY <1>2, GoodNothing
<1>4. Remember(none, {})
  BY <1>1, <1>3 DEF FilesInv, FileTypes, Remember
<1>5. KnownKinds = Kind /\ KnownKinds' = Kind \ {"socket"}
  BY <1>1 DEF KnownKinds
<1>6. "socket" \in Kind
  BY DEF Kind
<1>7. FilesChange(none, 0, {var["socket"]}, KnownKinds, {"socket"}, {})
  BY <1>1, <1>2, <1>3, <1>4, <1>5, <1>6 DEF FilesChange, FilesInv
<1>8. Unopened'
  BY <1>1 DEF Unopened, BetweenRounds
<1> QED
  BY <1>1, <1>3, <1>5, <1>7, <1>8, FilesKept

\* A script or a screenshot leaks a descriptor that main does not remember.
LEMMA ActionFiles == FilesInv /\ Action => FilesInv'
<1> SUFFICES ASSUME FilesInv, Action
             PROVE  FilesInv'
  OBVIOUS
<1>1. pc = "loop" /\ UNCHANGED round
  BY DEF Action
<1>2. CASE Exit
  BY <1>1, <1>2, FilesUnchanged DEF Exit
<1>3. CASE ~Exit
  <2>1. PICK given : given = Given(<<"leaked">>) /\ Table(given, 0, {})
                     /\ UNCHANGED <<pc, var>>
    BY <1>3 DEF Action
  <2>2. Good(given) /\ DOMAIN given = {"leaked"}
    BY <2>1, GivenGood, Ranges
  <2>3. "leaked" \notin Kind
    BY DEF Kind
  <2>4. Remember(given, {})
    BY <2>1, <2>2, <2>3 DEF FilesInv, FileTypes, Remember
  <2>5. KnownKinds = Kind /\ KnownKinds' = Kind
    BY <1>1, <2>1 DEF KnownKinds
  <2>6. FilesChange(given, 0, {}, KnownKinds, {}, {})
    BY <2>1, <2>2, <2>3, <2>4, <2>5 DEF FilesChange, FilesInv
  <2>7. Unopened'
    BY <2>1 DEF FilesInv, Unopened
  <2> QED
    BY <1>1, <2>1, <2>2, <2>5, <2>6, <2>7, FilesKept
<1> QED
  BY <1>2, <1>3

\* Every step keeps the descriptors.
LEMMA FilesStep == FilesInv /\ [Next]_vars => FilesInv'
<1> SUFFICES ASSUME FilesInv, [Next]_vars
             PROVE  FilesInv'
  OBVIOUS
<1>1. CASE daemonize \/ Child \/ LeaveLoop
  BY <1>1, FilesUnchanged DEF daemonize, Child, LeaveLoop, Exit
<1>2. CASE Again \/ launchpad_init \/ open_event_files \/ StartRce
  BY <1>2, AgainFiles, InitFiles, EventFiles, SocketFiles
<1>3. CASE EnterLoop \/ rce_stop \/ close_files \/ launchpad_deinit
  BY <1>3, LoopFiles, StopFiles, ClosingFiles
<1>4. CASE Action
  BY <1>4, ActionFiles
<1>5. CASE Log
  BY <1>5, LogKept DEF Log
<1>6. CASE hup_handler
  BY <1>6, FilesUnchanged DEF hup_handler, Exit
<1>7. CASE term_handler
  BY <1>7, LogKept, FilesUnchanged DEF term_handler, Exit
<1>8. CASE RceThread \/ (\E m \in Message : Send(m)) \/ Edit \/ Ended \/ UNCHANGED vars
  BY <1>8, FilesUnchanged DEF RceThread, Send, Edit, Ended, vars, files
<1> QED
  BY <1>1, <1>2, <1>3, <1>4, <1>5, <1>6, <1>7, <1>8 DEF Next, Main

-----------------------------------------------------------------------------
IInv == LockInv /\ RceInv /\ FilesInv

\* The process starts with an empty table, no thread and no daemon.
LEMMA ProcessInit == Init => IInv
<1> SUFFICES ASSUME Init
             PROVE  IInv
  OBVIOUS
<1> USE DEF Init
<1>1. LockInv
  BY DEF LockInv, LockFileNamesDaemon
<1>2. RceInv
  BY DEF RceInv, CommandsNeedRce, IsOn, set_rce_defaults
<1>3. FileTypes /\ Named(KnownKinds) /\ Remembered /\ Unopened
  <2>1. \A n \in Descriptor : fds[n].kind = "free"
    BY DEF Free
  <2>2. \A k \in Kind : var[k] = -1
    OBVIOUS
  <2>3. FileTypes
    BY <2>1 DEF FileTypes
  <2>4. Remembered
    BY <2>1 DEF Remembered, Kind
  <2>5. Named(KnownKinds)
    BY <2>2 DEF Named, KnownKinds
  <2>6. Unopened
    BY <2>2 DEF Unopened, Kind
  <2> QED
    BY <2>3, <2>4, <2>5, <2>6
<1>4. SocketBound
  <2>1. Sockets = {}
    BY DEF Sockets, Free
  <2>2. Cardinality(Sockets) = 0
    BY <2>1, FS_EmptySet
  <2> QED
    BY <2>2 DEF SocketBound
<1> QED
  BY <1>1, <1>2, <1>3, <1>4 DEF IInv, FilesInv

\* The inductive invariant of the process (main(), daemonize(), rce.c).
THEOREM ProcessInvariant == Spec => []IInv
<1>1. Init => IInv
  BY ProcessInit
<1>2. IInv /\ [Next]_vars => IInv'
  BY LockStep, RceStep, FilesStep DEF IInv
<1> QED
  BY <1>1, <1>2, PTL DEF Spec

\* A number that main remembers is that of the file it was opened for, for
\* every size of the table, however often main reloads and whatever leaks.
THEOREM NumbersMatch == Spec => []DescriptorsMatch
<1>1. IInv => DescriptorsMatch
  BY DEF IInv, FilesInv, Named, KnownKinds, DescriptorsMatch
<1> QED
  BY <1>1, ProcessInvariant, PTL

\* A round returns what it has opened, but for the log, leaked files and at
\* most one socket for each round.
THEOREM RoundReturnsDescriptors == Spec => []DescriptorsReturned
<1>1. ASSUME IInv, pc = "again"
      PROVE  /\ \A n \in Descriptor : fds[n].kind \in {"free", "log", "leaked", "socket"}
             /\ Cardinality({n \in Descriptor : fds[n].kind = "socket"}) <= round
             /\ Cardinality({n \in Descriptor : fds[n].kind = "log"}) <= 1
  <2> USE DEF IInv, FilesInv
  <2>1. ASSUME NEW n \in Descriptor
        PROVE  fds[n].kind \in {"free", "log", "leaked", "socket"}
    <3>1. n # -1
      BY NoDescriptor
    <3>2. \A k \in {"fb", "kbd", "fw", "vol", "keypad", "fiveway"} : var[k] = -1
      BY <1>1 DEF Unopened, BetweenRounds
    <3>3. fds[n].kind \in Kind \ {"socket"} => var[fds[n].kind] = n
      BY <1>1 DEF Remembered
    <3>4. fds[n].kind \in Kind \cup {"free", "leaked"}
      BY <1>1 DEF FileTypes
    <3> QED
      BY <3>1, <3>2, <3>3, <3>4 DEF Kind
  <2>2. Cardinality({n \in Descriptor : fds[n].kind = "socket"}) <= round
    BY <1>1 DEF SocketBound, Sockets
  <2>3. Cardinality({n \in Descriptor : fds[n].kind = "log"}) <= 1
    <3>1. \A n \in Descriptor : fds[n].kind = "log" => n = var["log"]
      BY <1>1 DEF Remembered, Kind
    <3>2. PICK logs : logs = {n \in Descriptor : fds[n].kind = "log"}
      OBVIOUS
    <3>3. logs \subseteq {var["log"]}
      BY <3>1, <3>2
    <3>4. IsFiniteSet({var["log"]}) /\ Cardinality({var["log"]}) = 1
      BY FS_Singleton
    <3>5. Cardinality(logs) <= 1
      BY <3>3, <3>4, FS_Subset
    <3> QED
      BY <3>2, <3>5
  <2> QED
    BY <2>1, <2>2, <2>3
<1>2. IInv => DescriptorsReturned
  BY <1>1 DEF DescriptorsReturned
<1> QED
  BY <1>2, ProcessInvariant, PTL

\* Commands are executed only by a process that had RCE configured in some
\* round, whatever numbers its old threads wait on.
THEOREM CommandsAreConfigured == Spec => []CommandsNeedRce
<1>1. IInv => CommandsNeedRce
  BY DEF IInv, RceInv
<1> QED
  BY <1>1, ProcessInvariant, PTL

\* A daemon that runs is named by its lock file.
THEOREM DaemonIsNamed == Spec => []LockFileNamesDaemon
<1>1. IInv => LockFileNamesDaemon
  BY DEF IInv, LockInv
<1> QED
  BY <1>1, ProcessInvariant, PTL
=============================================================================
