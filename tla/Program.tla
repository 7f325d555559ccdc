-------------------------------- MODULE Program --------------------------------
(***************************************************************************)
(* main.cpp as a whole: its steps before the fork loop, the wait for       *)
(* SIGINT and the REST server around them, composed with Distribution.     *)
(* stage is how far main has come:                                         *)
(*   "entered"     nothing done yet                                        *)
(*   "hooked"      handleUserInterrupt is the handler of SIGINT            *)
(*   "bound"       the listener has its endpoint                           *)
(*   "parsed"      the paths of the two files are known                    *)
(*   "db"          db.conf has been read                                   *)
(*   "connected"   the pool is filled                                      *)
(*   "configured"  server.conf has been read                               *)
(*   "prepared"    the ranges are computed                                 *)
(*   "serving"     the REST server listens                                 *)
(*   "waiting"     in waitForUserInterrupt                                 *)
(*   "woken"       behind it                                               *)
(*   "loop"        in the fork loop                                        *)
(***************************************************************************)
EXTENDS Distribution, Configuration

CONSTANTS
  Starts,     \* the command lines, files, hosts and tables to start from
  NoFile,     \* in the place of the lines of a file that is not there
  Unreadable  \* ... and of a file that is there and cannot be opened

(* What the program finds: options given, whether the host has an IPv4     *)
(* address, the lines of the two files, the table, the faults.             *)
Lost == {NoFile, Unreadable}
ServerConfOf(s) == ServerConfig(IF s.server_conf \in Lost THEN <<>> ELSE KeyMap(s.server_conf))

(* The setting of Distribution that a start leads to. *)
SettingOf(s) ==
  LET conf == ServerConfOf(s)
      number(n) == IF conf[n] = Text THEN -1 ELSE conf[n]
  IN [ids |-> s.ids, faults |-> s.faults, server_count |-> number("server_count"),
      order_number |-> number("order_number"), process_count |-> number("process_count")]

ASSUME ProgramAssumption ==
  \A s \in Starts : SettingOf(s) \in Settings /\ s.server_conf \in Seq(Lines) \cup Lost

VARIABLES
  start,     \* the member of Starts this behaviour began with
  stage,
  listener,  \* "closed" or "open"
  notified   \* _condition has been notified, and main has not woken up yet

startVars   == <<start, stage, listener, notified>>
programVars == <<vars, startVars>>

ProgramInit ==
  /\ Init
  /\ start \in Starts
  /\ setting = SettingOf(start)
  /\ stage = "entered"
  /\ listener = "closed"
  /\ notified = FALSE

Reach(a, b) == stage = a /\ stage' = b

(* main is still on its way. *)
Alive == pc[main] \notin {"exit", "aborted"}

(* The death of main by a signal or by std::terminate. *)
Die == Goto(main, "aborted") /\ UNCHANGED <<setting, process_row_count, process_idx, taken,
                                            unread, rows, answers, open, torn, attempts,
                                            fork_failed>>

hookSIGINT == Alive /\ Reach("entered", "hooked") /\ UNCHANGED <<vars, start, listener, notified>>

(* Outside the try block: a host without an IPv4 address makes a string    *)
(* from a null pointer, which throws.                                      *)
setEndpoint ==
  /\ Alive
  /\ IF start.ip4 THEN Reach("hooked", "bound") /\ UNCHANGED vars
                  ELSE stage = "hooked" /\ UNCHANGED stage /\ Die
  /\ UNCHANGED <<start, listener, notified>>

(* Both options are required, with --help too. *)
start_parsing ==
  /\ Alive
  /\ IF start.options = {"db", "srv"} THEN Reach("bound", "parsed") /\ UNCHANGED vars
                                      ELSE stage = "bound" /\ UNCHANGED stage /\ GiveUp
  /\ UNCHANGED <<start, listener, notified>>

(* A file that cannot be opened throws, and so does a port that is no      *)
(* number.  A file that is not there makes a null pointer, which nobody    *)
(* tests.                                                                  *)
ReadDbConf ==
  /\ Alive
  /\ IF \/ start.db_conf = Unreadable
        \/ start.db_conf \notin Lost /\ Throws(KeyMap(start.db_conf), DbNumbers)
       THEN stage = "parsed" /\ UNCHANGED stage /\ GiveUp
       ELSE Reach("parsed", "db") /\ UNCHANGED vars
  /\ UNCHANGED <<start, listener, notified>>

(* The constructor of the pool dereferences the configuration. *)
MakePool ==
  /\ Alive
  /\ \/ start.db_conf = NoFile /\ stage = "db" /\ UNCHANGED stage /\ Die
     \/ start.db_conf # NoFile /\ Reach("db", "connected") /\ Connect
     \/ start.db_conf # NoFile /\ stage = "db" /\ UNCHANGED stage /\ ConnectThrows
  /\ UNCHANGED <<start, listener, notified>>

(* main returns -1 without server.conf, and catches what is thrown. *)
ReadServerConf ==
  /\ Alive
  /\ IF start.server_conf \in Lost \/ Throws(KeyMap(start.server_conf), ServerNumbers)
       THEN stage = "connected" /\ UNCHANGED stage /\ GiveUp
       ELSE Reach("connected", "configured") /\ UNCHANGED vars
  /\ UNCHANGED <<start, listener, notified>>

ComputeRange ==
  /\ Alive
  /\ \/ Reach("configured", "prepared") /\ Prepare
     \/ stage = "configured" /\ UNCHANGED stage /\ PrepareThrows
  /\ UNCHANGED <<start, listener, notified>>

(* accept().wait(): throws when the port is taken. *)
Accept ==
  /\ Alive
  /\ \/ Reach("prepared", "serving") /\ listener' = "open" /\ UNCHANGED vars
     \/ stage = "prepared" /\ UNCHANGED <<stage, listener>> /\ GiveUp
  /\ UNCHANGED <<start, notified>>

waitForUserInterrupt ==
  /\ Alive /\ Reach("serving", "waiting") /\ UNCHANGED <<vars, start, listener, notified>>

(* Ctrl-C: the end of the program before the handler is installed; later   *)
(* notify_one, which is lost on a condition that nobody waits for, so that *)
(* only the stages in which a signal changes something are listed.         *)
SIGINT ==
  /\ Alive
  /\ \/ stage = "entered" /\ Die /\ UNCHANGED notified
     \/ stage = "waiting" /\ notified' = TRUE /\ UNCHANGED vars
  /\ UNCHANGED <<start, stage, listener>>

(* The wait has no predicate: it may also end without a notification. *)
WakeUp ==
  /\ Alive /\ Reach("waiting", "woken") /\ notified' = FALSE /\ UNCHANGED <<vars, start, listener>>

(* Mutation: nobody waits for the task. *)
Shutdown_NotAwaited ==
  /\ Alive /\ Reach("woken", "loop") /\ UNCHANGED <<vars, start, listener, notified>>

(* shutdown().wait() *)
Shutdown ==
  /\ Alive /\ Reach("woken", "loop") /\ listener' = "closed" /\ UNCHANGED <<vars, start, notified>>

StartStep ==
  \/ hookSIGINT \/ setEndpoint \/ start_parsing \/ ReadDbConf \/ MakePool \/ ReadServerConf
  \/ ComputeRange \/ Accept \/ waitForUserInterrupt \/ Shutdown

LoopStep(p) == stage = "loop" /\ Step(p) /\ UNCHANGED startVars

ProgramNext == StartStep \/ SIGINT \/ WakeUp \/ \E p \in Processes : LoopStep(p)

ProgramSpec == ProgramInit /\ [][ProgramNext]_programVars

(* A process is in the loop over its rows, which waits for send_mail. *)
Mailing(p) == pc[p] = "mail" /\ Rows(rows[p]) # {}

(* Every process that can go on does, a notification ends the wait, and    *)
(* the operating system sees to it that a process that reads gets what is  *)
(* there.  Nothing says that a process that mails goes on: send_mail has   *)
(* loops that a relay can keep it in (see SmtpSession).                    *)
FairSpec ==
  /\ ProgramSpec
  /\ WF_programVars(StartStep)
  /\ WF_programVars(notified /\ WakeUp)
  /\ \A p \in Processes : WF_programVars(~Mailing(p) /\ LoopStep(p))

-----------------------------------------------------------------------------
(* The values of the variables of the start, with those of the rest. *)
ProgramTypeOK ==
  /\ TypeOK
  /\ start \in Starts
  /\ stage \in {"entered", "hooked", "bound", "parsed", "db", "connected", "configured",
                "prepared", "serving", "waiting", "woken", "loop"}
  /\ listener \in {"open", "closed"}
  /\ notified \in BOOLEAN

(* No child is forked while the REST server has its port, so that none     *)
(* inherits the socket, and no program that ends before its loop leaves a  *)
(* database session behind unless it crashes.                              *)
NothingInherited ==
  /\ (\E p \in Processes \ {main} : pc[p] # "none") => listener = "closed"
  /\ pc[main] = "exit" /\ stage # "loop" => open = {}

(* Rows are mailed only if both files could be read and the lines that     *)
(* count in server.conf, the first ones of their keys, name a server and a *)
(* process: nothing is mailed on the strength of a default or of a line    *)
(* that is overridden.                                                     *)
MailedAsConfigured ==
  LET lines == start.server_conf
      first(k) == \A j \in 1 .. k - 1 : lines[j].name # lines[k].name
  IN (\E i \in setting.ids : attempts[i] > 0) =>
       /\ start.db_conf \notin Lost /\ lines \notin Lost
       /\ \A name \in {"server_count", "process_count"} :
            \E k \in DOMAIN lines :
              lines[k].name = name /\ lines[k].value \in Nat \ {0} /\ first(k)

(* A process that waits for an answer another process has read whole does  *)
(* not wait for ever: the first exit ends its wait.  So every process      *)
(* ends, provided that nobody aborts, that nobody mails for ever, that no  *)
(* answer is torn, and that a SIGINT comes while main waits for it,        *)
(* whatever came before; one such signal is enough.                        *)
EveryoneExits ==
  [](torn = {} /\ \A p \in Processes : pc[p] # "aborted")
    /\ (\A p \in Processes : []<>~Mailing(p))
    /\ []<>(stage = "waiting" => notified)
    => <>[](\A p \in Processes : pc[p] \in {"none", "exit"})
===============================================================================
