------------------------------ MODULE Distribution ------------------------------
(***************************************************************************)
(* main.cpp on one server: the range of the server, the loop that forks a  *)
(* process per range, and the database connections of the pool, which      *)
(* every process inherits together with the sockets behind them.           *)
(*                                                                         *)
(* A child goes on with the loop when it has mailed its range, so that it  *)
(* forks too: a process is the set of the loop indices at which it or its  *)
(* ancestors came into being.  Where a process is, by pc:                  *)
(*   "none"    not forked                                                  *)
(*   "init"    before the connections are made (the first process only)    *)
(*   "start"   before the loop (the first process only)                    *)
(*   "loop"    at the head of the loop                                     *)
(*   "query"   in get_data4send_mail, about to send the query              *)
(*   "read"    in PQgetResult                                              *)
(*   "mail"    in the loop of do_child over the rows                       *)
(*   "exit", "aborted"   gone; the latter by a signal or std::terminate    *)
(***************************************************************************)
EXTENDS Integers, Sequences, FiniteSets

CONSTANTS
  Settings,      \* the configurations and tables to start from
  MaxProcesses,  \* the largest process_count among them
  POOL_COUNT     \* 10 in pg_backend.hpp

Connections == 1 .. POOL_COUNT
Processes   == SUBSET (1 .. MaxProcesses)
main        == {}

(* Rows of core.emails by id, what server.conf says (-1 for what it leaves *)
(* out), and the faults that may happen: fork() fails, a process dies      *)
(* while it mails (see SmtpSession), an answer of the database comes in    *)
(* pieces.                                                                 *)
Setting == [ids: SUBSET Nat, server_count: Int, order_number: Int,
            process_count: -1 .. MaxProcesses, faults: SUBSET {"fork", "abort", "pieces"}]

ASSUME DistributionAssumption ==
  /\ \A s \in Settings : s \in Setting /\ IsFiniteSet(s.ids)
  /\ MaxProcesses \in Nat
  /\ POOL_COUNT \in Nat /\ POOL_COUNT >= 3

VARIABLES
  setting,
  process_row_count,  \* as computed from the range of the server
  pc,
  process_idx,        \* per process, its loop variable
  taken,              \* per process, how often it took the head of its pool
  unread,             \* per process, the connections it left in the middle of
                      \* a query
  rows,               \* per process, the range of rows it is mailing
  answers,            \* per connection, the ranges answered and not yet read
  open,               \* the connections whose session the database keeps
  torn,               \* the connections on which an answer has been split
                      \* between two readers
  attempts,           \* history: per row, how often send_mail was called
  fork_failed         \* history: the loop indices at which fork() failed

process == <<pc, process_idx, taken, unread, rows>>
vars    == <<setting, process_row_count, process, answers, open, torn, attempts,
             fork_failed>>

(* The arithmetic of the ranges. *)
Ranges == INSTANCE DataRange WITH
  RowCounts <- {}, ItemCounts <- {}, row_count <- 0, items_count <- 0,
  order_number <- 0, ranges <- <<>>, thrown <- FALSE

row_count == Cardinality(setting.ids)

(* Mutation: a range is cut from the rows of the table. *)
process_data_range_OfTable(idx) ==
  Ranges!get_data_range(row_count, setting.process_count, idx)

(* What main.cpp:117 computes for a loop index. *)
process_data_range(idx) ==
  Ranges!get_data_range(process_row_count + 1, setting.process_count, idx)

(* The ids the database returns for a range. *)
Rows(r) == Ranges!Rows(r) \cap setting.ids
NoRows  == [first |-> 1, second |-> 0]

(* The connection a process takes next: the queue goes round. *)
connection(p) == (taken[p] % POOL_COUNT) + 1

Init ==
  /\ setting \in Settings
  /\ process_row_count = 0
  /\ pc = [p \in Processes |-> IF p = main THEN "init" ELSE "none"]
  /\ process_idx = [p \in Processes |-> 1]
  /\ taken = [p \in Processes |-> 0]
  /\ unread = [p \in Processes |-> {}]
  /\ rows = [p \in Processes |-> NoRows]
  /\ answers = [c \in Connections |-> <<>>]
  /\ open = {}
  /\ torn = {}
  /\ attempts = [i \in setting.ids |-> 0]
  /\ fork_failed = {}

Goto(p, s) == pc' = [pc EXCEPT ![p] = s]

(* Mutation: without abs, an empty range counts as less than nothing. *)
RowsBetween_Signed(r) == r.second - r.first

(* process_row_count of main.cpp: one less than the rows of the range, or  *)
(* one if the range is empty.                                              *)
RowsBetween(r) == Ranges!abs(r.second - r.first)

(* The pool is filled, with sessions of its own for this process. *)
Connect ==
  /\ pc[main] = "init"
  /\ open' = Connections
  /\ Goto(main, "start")
  /\ UNCHANGED <<setting, process_row_count, process_idx, taken, unread, rows, answers, torn,
                 attempts, fork_failed>>

(* get_row_count leaves its connection in the middle of the query; then    *)
(* the range of the server, and the rows of that range, which are counted  *)
(* by their numbers and otherwise not used.                                *)
Prepare ==
  LET server_data_range ==
        Ranges!get_data_range(row_count, setting.server_count, setting.order_number)
  IN
  /\ pc[main] = "start"
  /\ ~Ranges!InvalidArguments(row_count, setting.server_count)
  /\ process_row_count' = RowsBetween(server_data_range)
  /\ taken' = [taken EXCEPT ![main] = 2]
  /\ unread' = [unread EXCEPT ![main] = {connection(main)}]
  /\ Goto(main, "loop")
  /\ UNCHANGED <<setting, process_idx, rows, answers, open, torn, attempts, fork_failed>>

(* Mutation: the sessions of the others outlive the process. *)
Finish_SessionsStay(p) == Goto(p, "exit") /\ UNCHANGED open

(* The end of a process: PQfinish ends the session of every connection of  *)
(* the pool, whoever else has its socket.  A process that has lost its     *)
(* place in an answer has closed its copy of the socket, and says nothing. *)
Finish(p) == Goto(p, "exit") /\ \E kept \in SUBSET (open \cap torn) : open' = kept

(* main leaves its try block, or returns, before the loop. *)
GiveUp ==
  /\ Finish(main)
  /\ UNCHANGED <<setting, process_row_count, process_idx, taken, unread, rows, answers, torn,
                 attempts, fork_failed>>

(* A connection cannot be made, or get_data_range throws. *)
ConnectThrows == pc[main] = "init" /\ GiveUp
PrepareThrows ==
  /\ pc[main] = "start"
  /\ Ranges!InvalidArguments(row_count, setting.server_count)
  /\ GiveUp

(* Mutation: every parent mails the range of its child as well. *)
Fork_ParentToo(p) ==
  LET idx == process_idx[p]  child == p \cup {idx} IN
  /\ pc[p] = "loop" /\ idx <= setting.process_count
  /\ pc' = [pc EXCEPT ![child] = "query", ![p] = "query"]
  /\ process_idx' = [process_idx EXCEPT ![child] = idx]
  /\ taken' = [taken EXCEPT ![child] = taken[p]]
  /\ unread' = [unread EXCEPT ![child] = unread[p]]
  /\ UNCHANGED <<setting, process_row_count, rows, answers, open, torn, attempts, fork_failed>>

(* One turn of the loop.  The child has a copy of everything; the parent   *)
(* calls do_child as well at the first index.                              *)
Fork(p) ==
  LET idx == process_idx[p]  child == p \cup {idx} IN
  /\ pc[p] = "loop" /\ idx <= setting.process_count
  /\ pc' = [pc EXCEPT ![child] = "query", ![p] = IF idx = 1 THEN "query" ELSE "loop"]
  /\ process_idx' = [process_idx EXCEPT ![child] = idx, ![p] = IF idx = 1 THEN @ ELSE @ + 1]
  /\ taken' = [taken EXCEPT ![child] = taken[p]]
  /\ unread' = [unread EXCEPT ![child] = unread[p]]
  /\ UNCHANGED <<setting, process_row_count, rows, answers, open, torn, attempts, fork_failed>>

ForkFailure(p) ==
  /\ "fork" \in setting.faults
  /\ pc[p] = "loop" /\ process_idx[p] <= setting.process_count
  /\ process_idx' = [process_idx EXCEPT ![p] = @ + 1]
  /\ fork_failed' = fork_failed \cup {process_idx[p]}
  /\ UNCHANGED <<setting, process_row_count, pc, taken, unread, rows, answers, open, torn,
                 attempts>>

(* do_child returns with the rows of r to be mailed, the connection is     *)
(* back at the end of the queue.                                           *)
Mail(p, r) ==
  /\ rows' = [rows EXCEPT ![p] = r]
  /\ taken' = [taken EXCEPT ![p] = @ + 1]
  /\ Goto(p, "mail")

(* PQsendQuery.  The database answers in order, and answers what it got    *)
(* before the end of the session.                                          *)
Query(p) ==
  LET c == connection(p) IN
  /\ pc[p] = "query" /\ c \notin unread[p]
  /\ answers' = IF c \in open
                  THEN [answers EXCEPT ![c] = Append(@, process_data_range(process_idx[p]))]
                  ELSE answers
  /\ Goto(p, "read")
  /\ UNCHANGED <<setting, process_row_count, process_idx, taken, unread, rows, open, torn, attempts,
                 fork_failed>>

(* On a connection that was left in the middle of a query PQsendQuery      *)
(* fails, and PQgetResult finds no more than the end of that query.  One   *)
(* on which the process has lost its place may be closed.                  *)
QueryRefused(p) ==
  /\ pc[p] = "query" /\ connection(p) \in unread[p] \cup torn
  /\ unread' = [unread EXCEPT ![p] = @ \ {connection(p)}]
  /\ Mail(p, NoRows)
  /\ UNCHANGED <<setting, process_row_count, process_idx, answers, open, torn, attempts,
                 fork_failed>>

(* The process reads what has come in on the socket, its own answer or     *)
(* that to another process, and uses the first answer only.  Here it reads *)
(* answers to their ends; Tear is for those it has only a part of.         *)
Read(p) ==
  LET c == connection(p) IN
  /\ pc[p] = "read" /\ answers[c] # <<>>
  /\ \E k \in 1 .. Len(answers[c]) :
       answers' = [answers EXCEPT ![c] = SubSeq(@, k + 1, Len(@))]
  /\ Mail(p, Head(answers[c]))
  /\ UNCHANGED <<setting, process_row_count, process_idx, unread, open, torn, attempts,
                 fork_failed>>

(* An answer comes in pieces, and another process that waits in            *)
(* PQgetResult on the same socket gets the rest of it, or has had the      *)
(* beginning.  This one goes on waiting, or it has the rows up to where    *)
(* its part of the first answer ends, or none.  (That it puts parts of two *)
(* answers together is left out.)                                          *)
Tear(p) ==
  LET c == connection(p) IN
  /\ "pieces" \in setting.faults
  /\ pc[p] = "read" /\ answers[c] # <<>>
  /\ c \in torn \/ \E q \in Processes \ {p} : pc[q] = "read" /\ connection(q) = c
  /\ \E k \in 1 .. Len(answers[c]) :
       answers' = [answers EXCEPT ![c] = SubSeq(@, k + 1, Len(@))]
  /\ torn' = torn \cup {c}
  /\ \/ UNCHANGED <<pc, taken, rows>>
     \/ \E last \in {0} \cup Ranges!Rows(Head(answers[c])) :
          Mail(p, [Head(answers[c]) EXCEPT !.second = last])
  /\ UNCHANGED <<setting, process_row_count, process_idx, unread, open, attempts, fork_failed>>

(* The session is over, or the process finds that it has lost its place:   *)
(* an error result, and no rows.                                           *)
ReadFails(p) ==
  LET c == connection(p) IN
  /\ pc[p] = "read" /\ (c \in torn \/ (answers[c] = <<>> /\ c \notin open))
  /\ Mail(p, NoRows)
  /\ UNCHANGED <<setting, process_row_count, process_idx, unread, answers, open, torn, attempts,
                 fork_failed>>

(* Mutation: do_child stops behind its first row. *)
MailRow_First(p) ==
  /\ pc[p] = "mail" /\ Rows(rows[p]) # {}
  /\ LET i == CHOOSE x \in Rows(rows[p]) : \A y \in Rows(rows[p]) : x <= y IN
       attempts' = [attempts EXCEPT ![i] = @ + 1]
  /\ rows' = [rows EXCEPT ![p] = NoRows]
  /\ UNCHANGED <<setting, process_row_count, pc, process_idx, taken, unread, answers, open, torn,
                 fork_failed>>

(* send_mail for the next row; that it throws is caught and counted.       *)
MailRow(p) ==
  /\ pc[p] = "mail" /\ Rows(rows[p]) # {}
  /\ LET i == CHOOSE x \in Rows(rows[p]) : \A y \in Rows(rows[p]) : x <= y IN
       /\ attempts' = [attempts EXCEPT ![i] = @ + 1]
       /\ rows' = [rows EXCEPT ![p].first = i + 1]
  /\ UNCHANGED <<setting, process_row_count, pc, process_idx, taken, unread, answers, open, torn,
                 fork_failed>>

(* The end of do_child: on with the loop, in the child as in the parent.   *)
ChildDone(p) ==
  /\ pc[p] = "mail" /\ Rows(rows[p]) = {}
  /\ Goto(p, "loop")
  /\ process_idx' = [process_idx EXCEPT ![p] = @ + 1]
  /\ UNCHANGED <<setting, process_row_count, taken, unread, rows, answers, open, torn, attempts,
                 fork_failed>>

Exit(p) ==
  /\ pc[p] = "loop" /\ process_idx[p] > setting.process_count
  /\ Finish(p)
  /\ UNCHANGED <<setting, process_row_count, process_idx, taken, unread, rows, answers, torn,
                 attempts, fork_failed>>

(* SIGPIPE, or an exception out of ~SmtpServer: nothing is finished.       *)
Abort(p) ==
  /\ "abort" \in setting.faults
  /\ pc[p] = "mail" /\ Rows(rows[p]) # {}
  /\ Goto(p, "aborted")
  /\ UNCHANGED <<setting, process_row_count, process_idx, taken, unread, rows, answers, open, torn,
                 attempts, fork_failed>>

Step(p) ==
  \/ Fork(p) \/ ForkFailure(p) \/ Query(p) \/ QueryRefused(p) \/ Read(p) \/ Tear(p)
  \/ ReadFails(p) \/ MailRow(p) \/ ChildDone(p) \/ Exit(p) \/ Abort(p)

-----------------------------------------------------------------------------
(* The values of the variables. *)
DataRanges == [first: Nat, second: Nat]
TypeOK ==
  /\ setting \in Settings
  /\ process_row_count \in Nat
  /\ pc \in [Processes -> {"none", "init", "start", "loop", "query", "read", "mail", "exit", "aborted"}]
  /\ process_idx \in [Processes -> 1 .. MaxProcesses + 1]
  /\ taken \in [Processes -> Nat]
  /\ unread \in [Processes -> SUBSET Connections]
  /\ rows \in [Processes -> DataRanges]
  /\ answers \in [Connections -> Seq(DataRanges)]
  /\ open \subseteq Connections
  /\ torn \subseteq Connections
  /\ attempts \in [setting.ids -> Nat]
  /\ fork_failed \subseteq 1 .. MaxProcesses

(* How many processes ask for the range of a loop index: those that reach  *)
(* the index each fork one, and at the first index the parent asks too.    *)
Askers(idx) == IF idx = 1 THEN 2 ELSE 2 ^ (idx - 1)

(* Whoever reads whose answer, no row is mailed more often than processes  *)
(* ask for the range it lies in.                                           *)
CopiesBounded ==
  \A i \in setting.ids : attempts[i] > 0 =>
    \E idx \in 1 .. setting.process_count :
      i \in Rows(process_data_range(idx)) /\ attempts[i] <= Askers(idx)

(* Whatever its order number, a server mails the first rows of the table,  *)
(* as many as are its share, and the first two if it has none.  An order   *)
(* number of no server (main never asks is_valid) may mail more.           *)
OnlyTheFirstShare ==
  setting.order_number \in 1 .. setting.server_count => \A i \in setting.ids : attempts[i] > 0 =>
    LET share == row_count \div setting.server_count IN
    i <= IF share = 0 THEN 2 ELSE share

(* When main has gone through its loop and every process has come to its   *)
(* end, every row of the first range has been mailed, unless fork() failed *)
(* for that range or main and its first child, which ask for it on one     *)
(* connection, tore each other's answers: answers read by the wrong        *)
(* process, sessions ended by the process that exits first and connections *)
(* left in the middle of a query cost later ranges only.                   *)
FirstRangeMailed ==
  (\A p \in Processes : pc[p] \in {"none", "exit"})
    /\ 0 < setting.process_count /\ setting.process_count < process_idx[main]
    /\ 1 \notin fork_failed /\ 3 \notin torn
    => \A i \in Rows(process_data_range(1)) : attempts[i] > 0
===============================================================================
