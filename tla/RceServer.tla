------------------------------ MODULE RceServer ------------------------------
(***************************************************************************)
(* The Remote Command Entry server (class RceServer): the owner, who calls *)
(* start() and stop() at will, the worker thread that start() creates, and *)
(* the socket with its queue of datagrams.  The two threads share the flag *)
(* `running` and the socket.                                               *)
(***************************************************************************)
EXTENDS Naturals, Sequences

CONSTANTS
  Message,      \* what a datagram may say
  Empty,        \* the empty string: no passphrase
  Passphrase,   \* the strings that may enable or disable
  MaxInbox      \* bound: datagrams queued in the socket

ASSUME RceAssumption ==
  /\ Empty \notin Message /\ Passphrase \subseteq Message
  /\ MaxInbox \in Nat

VARIABLES
  config,    \* RceConfig, fixed
  owner,     \* "idle", or "joining" inside stop()
  running,   \* RceWorker::running
  socket,    \* the socket is open
  inbox,     \* datagrams in the socket
  worker,    \* where the worker thread is; "none" when there is no thread
  enabled,   \* the worker's local flag
  message,   \* the datagram that the worker has received
  may        \* history: the datagrams since start() permit commands

vars == <<config, owner, running, socket, inbox, worker, enabled, message, may>>

RceConfig == [auto_enable: BOOLEAN,
              enable_string: Passphrase \cup {Empty},
              disable_string: Passphrase \cup {Empty}]

Location == {"none", "test", "poll", "recv", "message", "command"}

Init ==
  /\ config \in RceConfig
  /\ owner = "idle" /\ running = FALSE
  /\ socket = FALSE /\ inbox = <<>>
  /\ worker = "none" /\ enabled = FALSE /\ message = Empty
  /\ may = FALSE

-----------------------------------------------------------------------------
(* The owner's calls.                                                      *)

\* Without auto_enable or a passphrase there is nothing to start, and when the
\* port cannot be bound nothing changes.
start ==
  /\ owner = "idle" /\ ~running
  /\ config.auto_enable \/ config.enable_string # Empty
  /\ socket' = TRUE /\ inbox' = <<>>
  /\ running' = TRUE
  /\ worker' = "test"
  /\ enabled' = config.auto_enable
  /\ may' = config.auto_enable
  /\ UNCHANGED <<config, owner, message>>

\* MUTANT: the thread is joined before the flag is cleared.
stop_joins_first ==
  /\ owner = "idle" /\ running
  /\ owner' = "joining"
  /\ UNCHANGED <<config, running, socket, inbox, worker, enabled, message, may>>

stop ==
  /\ owner = "idle" /\ running
  /\ running' = FALSE
  /\ owner' = "joining"
  /\ UNCHANGED <<config, socket, inbox, worker, enabled, message, may>>

\* MUTANT: the thread is detached instead of joined.
Join_detached ==
  /\ owner = "joining"
  /\ socket' = FALSE /\ inbox' = <<>>
  /\ owner' = "idle"
  /\ UNCHANGED <<config, running, worker, enabled, message, may>>

\* join() returns when the thread has ended; only then the socket is closed.
Join ==
  /\ owner = "joining" /\ worker = "none"
  /\ socket' = FALSE /\ inbox' = <<>>
  /\ owner' = "idle"
  /\ UNCHANGED <<config, running, worker, enabled, message, may>>

-----------------------------------------------------------------------------
(* The worker thread.                                                      *)

TestRunning ==
  /\ worker = "test"
  /\ worker' = IF running THEN "poll" ELSE "none"
  /\ UNCHANGED <<config, owner, running, socket, inbox, enabled, message, may>>

\* poll() waits 200 ms for a datagram.
Poll ==
  /\ worker = "poll"
  /\ worker' = IF inbox = <<>> THEN "test" ELSE "recv"
  /\ UNCHANGED <<config, owner, running, socket, inbox, enabled, message, may>>

\* recv() blocks while there is no datagram; an empty one is skipped.
Receive ==
  /\ worker = "recv" /\ inbox # <<>>
  /\ message' = Head(inbox)
  /\ inbox' = Tail(inbox)
  /\ worker' = IF Head(inbox) = Empty THEN "test" ELSE "message"
  /\ UNCHANGED <<config, owner, running, socket, enabled, may>>

\* MUTANT: a disabled server takes any message for the passphrase.
Enables_anything(m) == ~enabled

Enables(m) ==
  ~enabled /\ config.enable_string # Empty /\ m = config.enable_string

Disables(m) ==
  enabled /\ config.disable_string # Empty /\ m = config.disable_string

IsCommand(m) == enabled /\ ~Disables(m) /\ m # config.enable_string

process_message ==
  /\ worker = "message"
  /\ enabled' = ((enabled \/ Enables(message)) /\ ~Disables(message))
  /\ worker' = IF IsCommand(message) THEN "command" ELSE "test"
  /\ may' = CASE message = config.disable_string /\ may -> FALSE
              [] message = config.enable_string /\ ~may -> TRUE
              [] OTHER -> may
  /\ UNCHANGED <<config, owner, running, socket, inbox, message>>

CommandReturns ==
  /\ worker = "command"
  /\ worker' = "test"
  /\ UNCHANGED <<config, owner, running, socket, inbox, enabled, message, may>>

Worker == TestRunning \/ Poll \/ Receive \/ process_message

-----------------------------------------------------------------------------
(* The network.                                                            *)

Arrive(m) ==
  /\ socket /\ Len(inbox) < MaxInbox
  /\ inbox' = Append(inbox, m)
  /\ UNCHANGED <<config, owner, running, socket, worker, enabled, message, may>>

\* The kernel discards a datagram with a bad checksum, even one that poll() has
\* announced.
Vanish ==
  /\ inbox # <<>>
  /\ inbox' = Tail(inbox)
  /\ UNCHANGED <<config, owner, running, socket, worker, enabled, message, may>>

Next ==
  \/ start \/ stop \/ Join
  \/ Worker \/ CommandReturns
  \/ \E m \in Message \cup {Empty} : Arrive(m)
  \/ Vanish

Spec == Init /\ [][Next]_vars

\* Both threads are scheduled; nothing makes a command end.
FairSpec == Spec /\ WF_vars(Join) /\ WF_vars(Worker)

-----------------------------------------------------------------------------
\* The worker polls and reads only the socket that start() opened for it, and
\* when stop() has returned the thread is gone: no command of a stopped
\* server runs on.
WorkerOwnsSocket ==
  /\ worker # "none" => socket
  /\ owner = "idle" /\ ~running => worker = "none"

\* A command runs only while the datagrams received since start() permit it:
\* the last passphrase was the enabling one, or none came and the server
\* enables itself.  Neither an earlier life of the server nor an empty
\* passphrase enables it.
CommandsNeedPassphrase == worker = "command" => may

\* stop() returns, if commands end and the worker does not wait for ever in
\* recv() for a datagram that poll() announced and the kernel discarded.
StopReturns ==
  []<>(worker # "command") /\ []<>(worker # "recv")
    => (owner = "joining" ~> owner = "idle")
=============================================================================
