---------------------------- MODULE LegacyProcess ----------------------------
(***************************************************************************)
(* The C daemon as a process: daemonize(), the rounds of main() between    *)
(* two reloads with the descriptors each of them opens and closes, the     *)
(* signals, and the threads of rce.c that execute commands received in     *)
(* datagrams.  rce_stop() does not end a thread: it stays in recvfrom() on *)
(* the socket, and goes on with whatever its descriptor's number stands    *)
(* for later.                                                              *)
(*                                                                         *)
(* rce.c's own keepgoing is left out: only the outer loop of rce_process() *)
(* tests it, and the inner one never ends.                                 *)
(***************************************************************************)
EXTENDS Integers, Sequences, FiniteSets, Functions

CONSTANTS
  MaxDescriptor,   \* RLIMIT_NOFILE: numbers 3..MaxDescriptor can be used
  Config,          \* what the user may write into rce.ini
  MaxRound,        \* bound: rounds of main()
  MaxDatagram      \* bound: datagrams sent

\* AutoEnable, enableRCE and the group: an address or an interface's name.
RceConfig == [autoenable: BOOLEAN, enable_string: {"", "on"}, group: STRING]

ASSUME ProcessAssumption ==
  /\ MaxDescriptor \in Nat /\ MaxRound \in Nat /\ MaxDatagram \in Nat
  /\ Config \subseteq RceConfig

Descriptor == 3..MaxDescriptor
Message == {"on", "off", "cmd"}     \* enableRCE, disableRCE, anything else

VARIABLES
  pc, round,       \* main: where it is, see Location; how often it was at again
  forked, lockfile, \* daemonize() has made a daemon; what is in the lock file
  handlers,        \* which signal handlers are installed
  keepgoing, reinit,
  present,         \* the files that exist and are not switched off by -kb, -fw
  fds,             \* the descriptor table: [kind, gen], gen numbers sockets
  var,             \* descriptors main remembers, by kind; -1 for none
  disk, rce,       \* rce.ini, and the settings of rce.c
  threads,         \* [number, started, is_enabled, at]: the socket it waits on
  inbox,           \* datagrams that wait, by socket: [text, off], off if RCE was
                   \* switched off in the loop that ran when it was sent
  sent,            \* datagrams sent so far
  ever_on,         \* history: some round had RCE configured
  ran,             \* history: "on" if a command was executed, "off" if it was
                   \* sent while RCE was switched off
  term             \* history: a SIGTERM in the loop that no SIGHUP followed

signals == <<handlers, keepgoing, reinit, term>>
remote == <<threads, inbox, sent, ran>>
files == <<fds, var>>
vars == <<pc, round, forked, lockfile, signals, present, files, disk, rce, remote,
          ever_on>>

Location == {"daemonize", "child", "again", "init", "open", "rce", "proc", "loop",
             "stop", "close", "deinit", "exited"}
Running == pc # "exited"

Kind == {"log", "fb", "kbd", "fw", "vol", "socket", "keypad", "fiveway"}

Free == [kind |-> "free", gen |-> 0]
IsOn(config) == config.autoenable \/ config.enable_string # ""

-----------------------------------------------------------------------------
(* The settings of rce.c.                                                  *)

\* The interface may not be there.
get_iface_ipaddr(p) == IF p = "wlan0" THEN {"10.0.0.1", "0.0.0.0"} ELSE {"0.0.0.0"}

\* What begins with a digit is an address, anything else an interface.
get_ip_addr(p) == IF p \in {"239.1.2.3", "10.0.0.1"} THEN {p} ELSE get_iface_ipaddr(p)

set_rce_defaults == [autoenable |-> FALSE, enable_string |-> "", mc_group |-> "239.1.2.3"]

\* set_rce_autoenable(), set_rce_enable_string(), set_rce_mcgroup().
set_rce(config) ==
  {[autoenable |-> config.autoenable, enable_string |-> config.enable_string,
    mc_group |-> address] : address \in get_ip_addr(config.group)}

doing_unicast == rce.mc_group # "239.1.2.3"

-----------------------------------------------------------------------------
(* The descriptor table of the kernel: external.                           *)

\* open() and socket() give out the lowest number that is free.  For files
\* that are opened one after the other: their numbers, -1 for a file that
\* does not exist, or when the table is full (EMFILE).
Given(kinds) ==
  LET free == {n \in Descriptor : fds[n] = Free}
      exist == SelectSeq(kinds, LAMBDA k : k \in present)
      rank(n) == Cardinality({m \in free : m <= n})
  IN  [k \in Range(kinds) |->
         LET own == {n \in free : rank(n) \in DOMAIN exist /\ exist[rank(n)] = k}
         IN  IF own = {} THEN -1 ELSE CHOOSE n \in own : TRUE]

\* The files with the numbers in `given` are opened, as sockets of the
\* generation gen if that is not 0, and those with a number in `closed` closed.
Table(given, gen, closed) ==
  fds' = [n \in Descriptor |->
            IF n \in closed THEN Free
            ELSE IF n \in Range(given)
              THEN [kind |-> CHOOSE k \in DOMAIN given : given[k] = n, gen |-> gen]
            ELSE fds[n]]

\* main remembers the numbers, and forgets those of the kinds in `closed`.
Remember(given, closed) ==
  var' = [k \in Kind |-> IF k \in closed THEN -1
                         ELSE IF k \in DOMAIN given THEN given[k] ELSE var[k]]

Open(kinds) ==
  \E given \in {Given(kinds)} : Table(given, 0, {}) /\ Remember(given, {})

\* Descriptors of some kinds are closed, and then forgotten.
Close(kinds) ==
  /\ Table(<<>>, 0, {var[k] : k \in kinds})
  /\ Remember(<<>>, kinds)

\* While the directory of the ini files is open: the numbers of both, -1 for a
\* framebuffer that cannot be opened or mapped.
fbscreen_open == Given(<<"dir", "fb">>)

fbscreen_close == Close({"fb"})

-----------------------------------------------------------------------------
(* daemonize().                                                            *)

Init ==
  /\ pc \in {"daemonize", "again"}      \* again: started with -d
  /\ round = 0
  /\ forked = FALSE /\ lockfile \in IF pc = "again" THEN {"none"} ELSE {"none", "old"}
  /\ handlers = "default" /\ keepgoing = TRUE /\ reinit = FALSE
  /\ \E absent \in {{}, {"fb", "vol"}, {"kbd", "fw"}} :
       present = (Kind \cup {"dir", "leaked"}) \ absent
  /\ fds = [n \in Descriptor |-> Free] /\ var = [k \in Kind |-> -1]
  /\ disk \in Config /\ rce = set_rce_defaults
  /\ threads = <<>> /\ inbox = [g \in 1..MaxRound |-> <<>>] /\ sent = 0
  /\ ever_on = FALSE /\ ran = {} /\ term = FALSE

Exit == pc' = "exited" /\ UNCHANGED files

\* Started by init, nothing is done; otherwise the lock file is created,
\* which nobody else is kept out by, and the process forks.  The parent waits
\* two seconds for a signal that the child does not send, and fails.
daemonize ==
  /\ pc = "daemonize"
  /\ \/ pc' = "again" /\ UNCHANGED <<forked, lockfile, files>>
     \/ Exit /\ UNCHANGED <<forked, lockfile>>              \* cannot be opened
     \/ Exit /\ lockfile' = "none" /\ UNCHANGED forked      \* cannot fork
     \/ /\ pc' = "child" /\ forked' = TRUE
        /\ lockfile' = IF lockfile = "none" THEN "empty" ELSE lockfile
        /\ UNCHANGED files
  /\ UNCHANGED <<round, signals, present, disk, rce, remote, ever_on>>

\* MUTANT: the result of write() is not looked at.
Child_unchecked ==
  /\ pc = "child"
  /\ handlers' = "daemon"
  /\ pc' = "again" /\ lockfile' \in {"pid", lockfile} /\ UNCHANGED files
  /\ UNCHANGED <<round, forked, keepgoing, reinit, term, present, disk, rce, remote,
                 ever_on>>

\* The child has no terminal to be signalled from and writes its number.
Child ==
  /\ pc = "child"
  /\ handlers' = "daemon"
  /\ \/ pc' = "again" /\ lockfile' = "pid" /\ UNCHANGED files
     \/ Exit /\ lockfile' \in {"none", lockfile}     \* write(), setsid()
  /\ UNCHANGED <<round, forked, keepgoing, reinit, term, present, disk, rce, remote,
                 ever_on>>

-----------------------------------------------------------------------------
(* A round of main().                                                      *)

\* get_diag_fp(): a daemon's log is opened by the first message.
get_diag_fp ==
  IF ~forked \/ var["log"] # -1 THEN UNCHANGED files ELSE Open(<<"log">>)

\* MUTANT: the socket of the round before is remembered.
Again_keeps_rce_sock ==
  /\ pc = "again" /\ round < MaxRound
  /\ handlers' = "main" /\ keepgoing' = TRUE /\ reinit' = FALSE
  /\ get_diag_fp
  /\ round' = round + 1 /\ term' = FALSE
  /\ pc' = "init"
  /\ UNCHANGED <<forked, lockfile, present, disk, rce, remote, ever_on>>

\* Handlers, flags; the version goes to the log, which is opened for it.
Again ==
  /\ pc = "again" /\ round < MaxRound
  /\ handlers' = "main" /\ keepgoing' = TRUE /\ reinit' = FALSE
  /\ \E given \in {IF ~forked \/ var["log"] # -1 THEN <<>> ELSE Given(<<"log">>)} :
       Table(given, 0, {}) /\ Remember(given, {"socket"})
  /\ round' = round + 1 /\ term' = FALSE
  /\ pc' = "init"
  /\ UNCHANGED <<forked, lockfile, present, disk, rce, remote, ever_on>>

\* set_rce_defaults(), then the ini files while the directory is open.  The
\* framebuffer is opened before the directory is closed.
launchpad_init ==
  /\ pc = "init"
  /\ \E given \in {fbscreen_open} :
       \/ /\ given["dir"] = -1
          /\ rce' = set_rce_defaults /\ Exit
       \/ /\ given["dir"] # -1
          /\ rce' \in IF \A n \in Descriptor : fds[n] # Free \/ n = given["dir"]
                        THEN {set_rce_defaults} ELSE set_rce(disk)
          /\ Table(given, 0, {given["dir"]}) /\ Remember(given, {})
          /\ pc' = "open"
  /\ ever_on' = (ever_on \/ IsOn(rce'))
  /\ UNCHANGED <<round, forked, lockfile, signals, present, disk, remote>>

open_event_files ==
  /\ pc = "open"
  /\ Open(<<"kbd", "fw", "vol">>)
  /\ pc' = IF var'["kbd"] = -1 /\ var'["fw"] = -1 THEN "stop" ELSE "rce"
  /\ UNCHANGED <<round, forked, lockfile, signals, present, disk, rce, remote, ever_on>>

\* rce_init(): a socket for a unicast address, or one that cannot be bound or
\* joined to the group, is left open and not returned.  Sockets have the
\* number of the round.
rce_init(returned) ==
  \E given \in {Given(<<"socket">>)} :
    /\ returned => ~doing_unicast
    /\ Table(given, IF returned \/ doing_unicast THEN round ELSE 0, {})
    /\ Remember(given, IF returned THEN {} ELSE {"socket"})

\* MUTANT: the thread is started whatever the configuration says, and enabled.
rce_start_always ==
  threads' = Append(threads, [number |-> var'["socket"], started |-> TRUE,
                              is_enabled |-> TRUE, at |-> 0])

\* Not started when it could never be enabled.
rce_start ==
  threads' = IF IsOn(rce)
               THEN Append(threads, [number |-> var'["socket"], started |-> FALSE,
                                     is_enabled |-> FALSE, at |-> 0])
               ELSE threads

StartRce ==
  /\ pc = "rce"
  /\ \E returned \in BOOLEAN : rce_init(returned)
  /\ IF var'["socket"] # -1 THEN rce_start ELSE UNCHANGED threads
  /\ pc' = "proc"
  /\ UNCHANGED <<round, forked, lockfile, signals, present, disk, rce, inbox, sent,
                 ran, ever_on>>

\* The loop begins: keepgoing is set once more, and the log closed.
EnterLoop ==
  /\ pc = "proc"
  /\ \E given \in {Given(<<"keypad", "fiveway">>)} :
       Table(given, 0, {var["log"]}) /\ Remember(given, {"log"})
  /\ keepgoing' = TRUE
  /\ pc' = "loop"
  /\ UNCHANGED <<round, forked, lockfile, handlers, reinit, term, present, disk, rce,
                 remote, ever_on>>

LeaveLoop ==
  /\ pc = "loop" /\ ~keepgoing
  /\ pc' = "stop"
  /\ UNCHANGED <<round, forked, lockfile, signals, present, files, disk, rce, remote,
                 ever_on>>

\* close(s).  The variable keeps the number.
rce_stop ==
  /\ pc = "stop"
  /\ Table(<<>>, 0, {var["socket"]})
  /\ pc' = "close"
  /\ UNCHANGED <<round, forked, lockfile, signals, present, var, disk, rce, remote,
                 ever_on>>

\* MUTANT: the files of /proc are left open.
close_files_but_proc ==
  /\ pc = "close"
  /\ Close({"kbd", "fw", "vol"})
  /\ pc' = "deinit"
  /\ UNCHANGED <<round, forked, lockfile, signals, present, disk, rce, remote, ever_on>>

\* close_event_files(), close_procwrite_files().
close_files ==
  /\ pc = "close"
  /\ Close({"kbd", "fw", "vol", "keypad", "fiveway"})
  /\ pc' = "deinit"
  /\ UNCHANGED <<round, forked, lockfile, signals, present, disk, rce, remote, ever_on>>

\* MUTANT: main goes back whether or not a reload was asked for.
launchpad_deinit_again ==
  /\ pc = "deinit"
  /\ fbscreen_close
  /\ pc' = "again"
  /\ reinit' = FALSE
  /\ UNCHANGED <<round, forked, lockfile, handlers, keepgoing, term, present, disk, rce,
                 remote, ever_on>>

\* launchpad_deinit(); then main goes back to again or returns.
launchpad_deinit ==
  /\ pc = "deinit"
  /\ fbscreen_close
  /\ pc' = IF reinit THEN "again" ELSE "exited"
  /\ reinit' = FALSE
  /\ UNCHANGED <<round, forked, lockfile, handlers, keepgoing, term, present, disk, rce,
                 remote, ever_on>>

Main ==
  \/ daemonize \/ Child \/ Again \/ launchpad_init \/ open_event_files \/ StartRce
  \/ EnterLoop \/ LeaveLoop \/ rce_stop \/ close_files \/ launchpad_deinit

-----------------------------------------------------------------------------
(* What happens in the loop: hotkeys.                                      *)

\* A script or a screenshot: the descriptor of the file that was read, the
\* script or the framebuffer, is not closed.  Without a framebuffer the
\* status bar cannot be shown: the process dies of a null pointer.
Action ==
  /\ pc = "loop"
  /\ IF var["fb"] = -1 THEN Exit
     ELSE /\ \E given \in {Given(<<"leaked">>)} : Table(given, 0, {})
          /\ UNCHANGED <<pc, var>>
  /\ UNCHANGED <<round, forked, lockfile, signals, present, disk, rce, remote, ever_on>>

\* A message of the program: an unknown sequence.
Log ==
  /\ pc = "loop"
  /\ get_diag_fp
  /\ UNCHANGED <<pc, round, forked, lockfile, signals, present, disk, rce, remote, ever_on>>

-----------------------------------------------------------------------------
(* Signals.                                                                *)

hup_handler ==
  /\ Running
  /\ \/ handlers = "main" /\ reinit' = TRUE /\ keepgoing' = FALSE /\ term' = FALSE
        /\ UNCHANGED <<pc, files>>
     \/ handlers # "main" /\ Exit /\ UNCHANGED <<reinit, keepgoing, term>>
  /\ UNCHANGED <<round, forked, lockfile, handlers, present, disk, rce, remote, ever_on>>

\* int_handler, term_handler and, while daemonize() is at work,
\* daemon_handler, which removes the lock file.
term_handler ==
  /\ Running
  /\ \/ /\ handlers = "main"
        /\ keepgoing' = FALSE /\ term' = (pc = "loop" /\ ~reinit)
        /\ get_diag_fp /\ UNCHANGED <<pc, lockfile>>
     \/ /\ handlers # "main"
        /\ lockfile' = IF handlers = "daemon" THEN "none" ELSE lockfile
        /\ Exit /\ UNCHANGED <<keepgoing, term>>
  /\ UNCHANGED <<round, forked, handlers, reinit, present, disk, rce, remote, ever_on>>

-----------------------------------------------------------------------------
(* The threads of rce.c.                                                   *)

\* rce_process() begins, with the settings that are there by then.
StartThread(t) ==
  /\ ~threads[t].started
  /\ threads' = [threads EXCEPT ![t].started = TRUE, ![t].is_enabled = rce.autoenable]
  /\ UNCHANGED <<inbox, ran>>

\* recvfrom() looks its number up; what is not a socket is an error, and tried
\* again at once.
Wait(t) ==
  /\ threads[t].started /\ threads[t].at = 0
  /\ threads[t].number \in Descriptor
  /\ fds[threads[t].number].gen # 0
  /\ threads' = [threads EXCEPT ![t].at = fds[threads[t].number].gen]
  /\ UNCHANGED <<inbox, ran>>

\* A datagram is received on the socket that was looked up, whether or not it
\* has been closed since.
rce_process(t) ==
  LET g == threads[t].at
      m == Head(inbox[g])
      enabling == m.text = rce.enable_string
      disabling == m.text = "off" /\ IsOn(rce)
  IN  /\ g # 0 /\ inbox[g] # <<>>
      /\ inbox' = [inbox EXCEPT ![g] = Tail(@)]
      /\ threads' = [threads EXCEPT ![t].at = 0,
           ![t].is_enabled = IF @ THEN ~disabling ELSE enabling]
      /\ ran' = IF threads[t].is_enabled /\ ~enabling /\ ~disabling
                  THEN ran \cup {IF m.off THEN "off" ELSE "on"} ELSE ran

RceThread ==
  /\ Running
  /\ \E t \in DOMAIN threads : StartThread(t) \/ Wait(t) \/ rce_process(t)
  /\ UNCHANGED <<pc, round, forked, lockfile, signals, present, files, disk, rce, sent,
                 ever_on>>

\* A datagram reaches every socket that is open or waited on.
Send(m) ==
  LET live == {g \in DOMAIN inbox : \/ \E n \in Descriptor : fds[n].gen = g
                                    \/ \E t \in DOMAIN threads : threads[t].at = g}
  IN  /\ Running /\ sent < MaxDatagram
      /\ sent' = sent + 1
      /\ inbox' = [g \in DOMAIN inbox |->
           IF g \in live THEN Append(inbox[g], [text |-> m, off |-> pc = "loop" /\ ~IsOn(rce)])
                         ELSE inbox[g]]
      /\ UNCHANGED <<pc, round, forked, lockfile, signals, present, files, disk, rce,
                     threads, ran, ever_on>>

\* The user edits rce.ini, which is read when a round begins.
Edit ==
  /\ pc = "loop" /\ round < MaxRound
  /\ disk' \in Config \ {disk}
  /\ UNCHANGED <<pc, round, forked, lockfile, signals, present, files, rce, remote, ever_on>>

Ended == (~Running \/ (pc = "again" /\ round = MaxRound)) /\ UNCHANGED vars

Next ==
  \/ Main \/ Action \/ Log \/ hup_handler \/ term_handler
  \/ RceThread \/ (\E m \in Message : Send(m)) \/ Edit
  \/ Ended

Spec == Init /\ [][Next]_vars

\* main is scheduled, and select() returns after a second at the latest.
FairSpec == Spec /\ WF_vars(Main)

-----------------------------------------------------------------------------
\* A descriptor that main remembers is one that it opened for that purpose:
\* numbers are given out again after a reload, and a number kept too long
\* would name, and close, the file of somebody else (fd_kbd and the others,
\* rce_sock, pfbscreen->fd, diag_fp).
DescriptorsMatch ==
  \A k \in Kind :
    var[k] = -1 \/ fds[var[k]].kind = k
    \/ (k = "socket" /\ pc \in {"close", "deinit", "again", "exited"})

\* A round returns the descriptors it has opened, except for the log and what
\* the code is known to lose: files of scripts and screenshots
\* (get_kindle_script_file(), do_screenshot()) and, once in a round, a socket
\* that rce_init() did not return.
DescriptorsReturned ==
  pc = "again" =>
    /\ \A n \in Descriptor : fds[n].kind \in {"free", "log", "leaked", "socket"}
    /\ Cardinality({n \in Descriptor : fds[n].kind = "socket"}) <= round
    /\ Cardinality({n \in Descriptor : fds[n].kind = "log"}) <= 1

\* Commands are executed only by a process that has, or once had, RCE
\* configured (rce_start(), is_enabled).
CommandsNeedRce == ran # {} => ever_on

\* A daemon that runs is named by its lock file: only daemonize() and its
\* own handler remove the file.
LockFileNamesDaemon ==
  pc \notin {"daemonize", "child", "exited"} /\ forked => lockfile = "pid"

\* A SIGTERM or SIGINT that arrives in the loop ends the process, unless a
\* SIGHUP comes before it is gone, which turns the end into a reload.
TermEnds == term ~> (~term \/ ~Running)

-----------------------------------------------------------------------------
\* "comment out AutoEnable and enableRCE definitions below in order to tully
\* disable the RCE feature" (rce.ini), "do not start RCE if it is not
\* auto-enabled and no enable string defined" (rce.c): no command is executed
\* that was sent when the loop ran with neither of them set.
DisabledIsOff == "off" \notin ran
=============================================================================
