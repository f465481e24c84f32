--------------------------- MODULE RceServerProofs ---------------------------
(***************************************************************************)
(* The RCE server, for any passphrases and any datagrams: the worker never *)
(* outlives the socket it was given, and it runs a command only while the  *)
(* datagrams received since start() permit commands.                       *)
(***************************************************************************)
EXTENDS RceServer, TLAPS

\* The types that the argument needs; the inbox holds what may arrive.
Types ==
  /\ config \in RceConfig
  /\ owner \in {"idle", "joining"}
  /\ running \in BOOLEAN /\ socket \in BOOLEAN
  /\ enabled \in BOOLEAN /\ may \in BOOLEAN
  /\ worker \in Location
  /\ inbox \in Seq(Message \cup {Empty})

\* The owner, the flag, the socket and the thread agree: the flag is cleared
\* before the join and the socket is closed after it.
Handshake ==
  /\ running => socket /\ owner = "idle"
  /\ owner = "joining" => socket
  /\ worker # "none" => socket
  /\ owner = "idle" /\ ~running => worker = "none"

\* The worker's own flag says what the datagrams permit.  Empty datagrams do
\* not reach process_message, so that an empty passphrase is matched by none.
Permission ==
  /\ enabled = may
  /\ worker = "message" => message # Empty
  /\ worker = "command" => enabled

IInv == Types /\ Handshake /\ Permission

\* The invariant holds initially: there is neither thread nor socket.
LEMMA InitIInv == Init => IInv
<1> SUFFICES ASSUME Init PROVE IInv
  OBVIOUS
<1>1. inbox \in Seq(Message \cup {Empty})
  BY DEF Init
<1>2. Types
  BY <1>1 DEF Init, Types, Location
<1>3. Handshake /\ Permission
  BY DEF Init, Handshake, Permission
<1> QED
  BY <1>2, <1>3 DEF IInv

\* start() and stop(), the latter up to the join and from the join on.
LEMMA OwnerStep ==
  ASSUME IInv, start \/ stop \/ Join
  PROVE  IInv'
<1>1. CASE start
  <2>1. config.auto_enable \in BOOLEAN
    BY DEF IInv, Types, RceConfig
  <2>2. inbox' \in Seq(Message \cup {Empty})
    BY <1>1 DEF start
  <2>3. Types'
    BY <1>1, <2>1, <2>2 DEF IInv, Types, start, Location
  <2>4. Handshake' /\ Permission'
    BY <1>1 DEF IInv, Types, Handshake, Permission, start
  <2> QED
    BY <2>3, <2>4 DEF IInv
<1>2. CASE stop
  BY <1>2 DEF IInv, Types, Handshake, Permission, stop
<1>3. CASE Join
  <2>1. inbox' \in Seq(Message \cup {Empty})
    BY <1>3 DEF Join
  <2> QED
    BY <1>3, <2>1 DEF IInv, Types, Handshake, Permission, Join
<1> QED
  BY <1>1, <1>2, <1>3

\* The steps of the worker that wait or read: it ends only when it has seen
\* the cleared flag, and takes only a datagram that is not empty for a message.
LEMMA WaitStep ==
  ASSUME IInv, TestRunning \/ Poll \/ Receive \/ CommandReturns
  PROVE  IInv'
<1>1. CASE TestRunning
  BY <1>1 DEF IInv, Types, Handshake, Permission, TestRunning, Location
<1>2. CASE Poll
  BY <1>2 DEF IInv, Types, Handshake, Permission, Poll, Location
<1>3. CASE Receive
  <2>1. inbox' \in Seq(Message \cup {Empty})
    BY <1>3 DEF IInv, Types, Receive
  <2>2. Types'
    BY <1>3, <2>1 DEF IInv, Types, Receive, Location
  <2>3. Handshake' /\ Permission'
    BY <1>3 DEF IInv, Handshake, Permission, Receive
  <2> QED
    BY <2>2, <2>3 DEF IInv
<1>4. CASE CommandReturns
  BY <1>4 DEF IInv, Types, Handshake, Permission, CommandReturns, Location
<1> QED
  BY <1>1, <1>2, <1>3, <1>4

\* A message that enables, disables or is a command moves the flag and the
\* permission together.
LEMMA MessageStep ==
  ASSUME IInv, process_message
  PROVE  IInv'
<1> USE DEF process_message
<1>1. enabled \in BOOLEAN /\ may = enabled /\ message # Empty
  BY DEF IInv, Types, Permission
<1>2. CASE enabled
  <2>1. enabled' = (message # config.disable_string)
    BY <1>1, <1>2 DEF Enables, Disables
  <2>2. may' = (message # config.disable_string)
    BY <1>1, <1>2
  <2>3. worker' = "command" => enabled'
    BY <1>1, <1>2, <2>1 DEF IsCommand, Disables
  <2>4. worker' \in {"command", "test"} /\ worker = "message"
    OBVIOUS
  <2> QED
    BY <2>1, <2>2, <2>3, <2>4 DEF IInv, Types, Handshake, Permission, Location
<1>3. CASE ~enabled
  <2>1. enabled' = (message = config.enable_string)
    BY <1>1, <1>3 DEF Enables, Disables
  <2>2. may' = (message = config.enable_string)
    BY <1>1, <1>3
  <2>3. worker' = "test" /\ worker = "message"
    BY <1>3 DEF IsCommand
  <2> QED
    BY <2>1, <2>2, <2>3 DEF IInv, Types, Handshake, Permission, Location
<1> QED
  BY <1>1, <1>2, <1>3

\* Datagrams that arrive or are discarded change the inbox alone.
LEMMA NetworkStep ==
  ASSUME IInv, Vanish \/ \E m \in Message \cup {Empty} : Arrive(m)
  PROVE  IInv'
<1>1. CASE Vanish
  <2>1. inbox' \in Seq(Message \cup {Empty})
    BY <1>1 DEF IInv, Types, Vanish
  <2> QED
    BY <1>1, <2>1 DEF IInv, Types, Handshake, Permission, Vanish
<1>2. ASSUME NEW m \in Message \cup {Empty}, Arrive(m) PROVE IInv'
  <2>1. inbox' \in Seq(Message \cup {Empty})
    BY <1>2 DEF IInv, Types, Arrive
  <2> QED
    BY <1>2, <2>1 DEF IInv, Types, Handshake, Permission, Arrive
<1> QED
  BY <1>1, <1>2

\* The inductive invariant of the server: the handshake of the two threads, and
\* the worker's flag as the permission.
THEOREM ServerInvariant == Spec => []IInv
<1>1. IInv /\ [Next]_vars => IInv'
  <2> SUFFICES ASSUME IInv, [Next]_vars PROVE IInv'
    OBVIOUS
  <2>1. CASE UNCHANGED vars
    BY <2>1 DEF vars, IInv, Types, Handshake, Permission
  <2> QED
    BY <2>1, OwnerStep, WaitStep, MessageStep, NetworkStep DEF Next, Worker
<1> QED
  BY InitIInv, <1>1, PTL DEF Spec

\* The worker thread uses only the socket opened for it, and is gone when
\* stop() has returned.
THEOREM WorkerIsJoined == Spec => []WorkerOwnsSocket
<1>1. IInv => WorkerOwnsSocket
  BY DEF IInv, Handshake, WorkerOwnsSocket
<1> QED
  BY ServerInvariant, <1>1, PTL

\* process_message runs a command only while the datagrams since start()
\* permit commands.
THEOREM CommandsArePermitted == Spec => []CommandsNeedPassphrase
<1>1. IInv => CommandsNeedPassphrase
  BY DEF IInv, Permission, CommandsNeedPassphrase
<1> QED
  BY ServerInvariant, <1>1, PTL
=============================================================================
