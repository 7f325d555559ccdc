# A verification of mail_distributions in TLA+

mail_distributions sends one mail per row of the table `core.emails` through an
SMTP relay. One binary runs on several servers; each server takes a share of
the rows, forks processes, and each process opens one SMTP connection per row.
These modules model it from the first line of `main.cpp` to the characters on
the socket: the start and its configuration, the fork loop with the sockets its
processes share, the arithmetic of the row ranges, the pool of database
connections, the SMTP session with its failures, the socket loops, the text of a
message, and the answers to challenges with the MD5 and Base64 they are made of.

File names below are relative to `src/`.

## The system

| Component | State | Operations | Hard about it |
|---|---|---|---|
| `SmtpServer`, `core/smtp/smtp_server.cpp` | socket, `m_bConnected`, `m_ssl`, `m_receive_buffer`, the message | `connect_remote_server`, `send_mail`, `disconnect_remote_server`, destructor | every step may throw; catch clauses and the destructor talk to the relay again; lost and late replies; TLS in the middle of the dialogue |
| command table, `core/smtp/smtp_common.cpp` | constant | `find_command_entry`, `is_keyword_supported` | which reply counts as success |
| reply parser and socket loops, `smtp_server.cpp` 978-1504 | two buffers, an offset, a time-out | `receive_response`, `receive_data(_SSL)`, `send_data(_ssl)`, `open_ssl_connect` | partial lines and writes, time-outs and loops without one, WANT_READ / WANT_WRITE, a peer that closes |
| message composition, `smtp_server.cpp` 276-353 and 826-975 | a 10 KB buffer, an open file | `format_header`, attachments | the chunks of a file; parts written by two functions |
| answers to challenges, `smtp_server.cpp` 503-722 | none | the branches of the four mechanisms | texts in texts, lengths around 64 |
| MD5, `core/smtp/md_5.cpp` | buffer, bit count, state | `init`, `update`, `finalize`, digests | pieces around the block size, the padding, a count in two words |
| Base64, `core/smtp/base_64.cpp` | none | `base64_encode`, `base64_decode` | the remainder, zeros behind the padding |
| `get_data_range`, `tools/service/service.cpp` | none | a pure function | remainders, off-by-one, order numbers |
| configuration, `tools/service` | a map | `read_config`, `DbConfig`, `ServerConfig` | keys that are missing, doubled or no number |
| `PGBackend`, `core/database/pg_backend.cpp` | mutex, condition variable, queue of connections | `connection`, `free_connection` | lost wake-ups, sharing |
| `DbQueryExecutor`, `core/database/db_query_executor.cpp` | the pool | `get_row_count`, `get_data4send_mail` | an early `break`; answers on a socket that others read from |
| `main.cpp` | the ranges, the loop variable | the start, the fork loop, `do_child` | processes that inherit connections, children that go on with the loop |
| REST service, `core/rest` | the listener | endpoint, `accept`, `shutdown`, stateless handlers | what is open when the program forks |
| `InterruptHandler`, `core/rest/foundation/include` | a condition variable | `waitForUserInterrupt`, the signal handler | a wait without a predicate |
| exceptions, statistics, option parsing | none worth a state machine | tables and counters | nothing |

How they interact: `main` installs the handler, binds the listener, reads the two
configurations, reads the number of rows and a range through
`DbQueryExecutor`, which borrows a `PGConnection` from `PGBackend`; it runs the
REST server until SIGINT, then forks one process per range. A process fetches
the rows of its range over connections it inherited and calls `send_mail` per
row, which makes an `SmtpServer`, and counts a success or a failure that
nobody reads. The `SmtpServer` talks to the relay and throws `SmtpException`.

What makes each part correct: a mail reported sent was accepted whole by the
relay, exactly once, is read by its recipients as it was meant, and secrets go
through TLS only (session); every byte given to a socket loop reaches the peer
once and in order, or the call throws (wire); the relay can verify an answer to
its challenge (credentials); no connection is used twice and nobody sleeps beside
a free one (pool); ranges cover the rows without overlap (ranges); what happens
to each row when processes share sockets is at least bounded, and nothing is
mailed on the strength of a default (program). Where the code does not keep
this, the property says so and names the case: lines the session does not send
as they are, loops it does not leave, answers that are torn.

## The modules

| Module | What it is |
|---|---|
| `SmtpCommon` | the command table, the program points that use it, the choice of a mechanism, the blocks of a message |
| `MailRelay` | the relay and the network (external: any relay that keeps to the protocol, may refuse anything and may hang up at any moment) |
| `SmtpSession` | one `SmtpServer` object, composed with `MailRelay` |
| `MailDelivery` | abstract: what an object promises about each message |
| `MessageText` | the lines of a message, and how a mail program reads them |
| `SessionText` | `SmtpSession` with the text of what the relay has taken |
| `SocketLoops` | `send_data` and `receive_response`, plain and TLS, on characters |
| `DataPhase` | `send_mail` over `SocketLoops`: attachments, blocks, final dot, QUIT |
| `Base64` | encoder and decoder |
| `Md5` | the MD5 object; its compression function is a CONSTANT |
| `Md5Transform` | the compression function, for TLC |
| `Credentials` | the branches of `connect_remote_server` that answer challenges |
| `DataRange` | `get_data_range` and the loop over order numbers |
| `ConnectionPool` | abstract: what the pool promises |
| `PgPool` | `PGBackend` and its threads, step by step |
| `Distribution` | `main.cpp` from the row count to the last exit; uses the operators of `DataRange` |
| `Configuration` | `read_config` and the configurations made from its map |
| `Program` | the whole of `main.cpp`: `Distribution` with the start, the configuration, the listener and the wait for SIGINT |
| `MC*` | the values for TLC |
| `Positions` | the k-th of some positions in a text, and the next one |
| `SharedLemmas`, `*Proofs` | facts several proofs need, and the theorems |

Operators called `X_Something` that stand before `X` with the comment
"Mutation" are plausible bugs: replacing `X` by one of them breaks a
property, which shows that the property depends on that piece of code.

The three views of the SMTP code divide the work. `SmtpSession` has every path
through the dialogue, on whole commands and replies. `DataPhase` has the part in
which most characters move, turn by turn; MAIL, RCPT and DATA, which lie in
between, are left to `SmtpSession`. `Credentials` has what the answers
of an authentication consist of, when `SmtpSession` has when they are sent.

### SmtpSession

The object is sequential: `pc` and `step` say where it is, `caller` which public
call is in progress. `step` is a row of the command table or one of the
branches that use a row twice (`EHLO_TLS`, `CRAMRESPONSE`, `DIGEST`). `Send` is
`send_data`, `Accepts`/`ReplyRefused`/`ReceiveFails` are `receive_response`,
`Throw` is a throw together with the catch clauses it runs into: QUIT if
`m_bConnected`, then `close`; a throw out of the QUIT itself skips the `close`,
and out of the destructor it is `std::terminate`. Connections are numbers;
`m_ssl` holds the connection its TLS session was made for, so that a session
of an earlier connection that is used on a later one (`cleanup_open_ssl` runs in
the destructor only) is seen. A message is its shape: sender or not, numbers of
To, Cc and Bcc recipients, text lines, attachments. Each command and block
carries the number of the `send_mail` it belongs to and its own index, so that
`Whole` can say that the relay took precisely this message.

The history variables `mails`, `results`, `quit_failed`, `resumed`, `clear` and
`mixed` are read by properties only, but for `results` and `quit_failed`, which
tell an owner that does not retry after an exception from one that does.

Several properties say "unless `resumed`". The exception is behaviour of the
code: when QUIT fails, the socket stays open and set (`smtp_server.cpp:1181`,
`804-814`), and a later `send_mail` of the same object goes on with it as if it
were connected, whatever it is in the middle of. The program itself never calls
an object twice; an owner that retries can.

Two loops of the code have no time-out. `send_data_ssl` goes round without a
wait while `SSL_write` wants to read what does not come, and
`receive_response` reads on, with a time-out that starts again, as long as there
is one more line. `Spinning` and `Flooded` say where the object can be in one of
them: whenever it sends through an `m_ssl` whose handshake is not finished, which is
where the QUIT of the catch clause is after an `open_ssl_connect` that timed out,
and with a relay that is `endless`, one that may go on for ever with a reply or a
handshake of its own.

Abstractions: a send that fails has delivered nothing; a reply arrives whole;
a time-out may strike at any wait, which also stands for errors of `select` and
`recv`; bytes for the wrong channel make the relay close. `new` is taken to
succeed. When a connect fails the code closes the socket and its catch clause
closes the number again: in a sequential program an `EBADF`, and one close
in the model. The second half of the DIGEST-MD5 exchange lies behind a reply 335 that
no relay sends; how its answer is made is in `Credentials`.

### MessageText, SessionText

A line of a message is a sequence of what is told apart in it: a field is its
name and its value, a delimiter is one, text is the message's own. `BlockLines`
has the lines of each block `send_mail` sends, `format_header` those of the
first. `Read` is a mail program: it looks for the empty line behind the header,
splits a multipart body at its delimiters and takes each part by its type;
`Meant` is what the owner has set. `MailsReadAsMeant` compares the two for
everything the relay of `SmtpSession` has accepted, under every form of header
in `Forms`, among them the `m_bHTML` nobody in the repository sets.

A line of the text is one of four kinds. A `dot` ends the message, a `dotted` one
begins with a dot and loses it, a `long` one does not fit into `m_send_buffer`
with its line end, and a `text` is any other. `snprintf` cuts a long line (`smtp_server.cpp:284`), and the
block behind it, another line or the delimiter of the first attachment, goes on
in the same line (`Joined`). `main.cpp` passes the whole text of a mail as one
line, so that this is every text of 10 KB. `Sendable` are the messages all of
whose lines are a `text`; for the others `MailsReadAsMeant` says no more than that
what the relay has accepted is one of the messages, whole. The Bcc line is in the header with an empty list, as in the code.
Left out: the format of the date, and whose address a receipt goes to.

### SocketLoops, DataPhase

Texts are sequences of character codes. A call of `send_data` or of
`receive_response` is started by the caller (`call` leaves "idle") and goes on in
turns of its loop: a wait, a partial write, an `SSL_write` that wants to read, an
`SSL_read` that brings a part of a record. `unwritten` is a record that
`SSL_write` has begun and must be called for again. `budget` is what is left of
the time-out: the `select` of Linux leaves the unused time in its `timeval`, so
that the turns of one call share it. When `SSL_write` wants to read, the
socket stays among those `select` waits to write, so that `select` returns at once
and the loop goes round until the peer has sent what is wanted; when `SSL_read`
wants to write, it stays among those to read, and the same happens while there is
something to read (`ReadWantsWrite`). Both are `Spinning`. `closed` is a peer that has gone; writing to it is an error
or, in the plain variant, SIGPIPE.

`DataPhase` is `send_mail` on top: the loop that checks that the attachments
exist and are not too large, the blocks, the cutting of each file into lines of
base64 (`FillLine` is one turn of the loop over `fread`, with the flush when half
the buffer is full), the final dot, the answer, the catch clause with its QUIT.
The texts of the blocks are cut down to what their reader tells apart. The peer
answers with any of the message's `answers`, in continuation lines or not, may
say a goodbye unasked, and closes at any moment. With a message that is `endless`
it may put continuation lines in front of the answer for ever
(`ContinuationLine`): each starts the time-out again.

`BuffersFit` is about the two places where the code watches the end of a buffer: the
lines of a file, and what comes through TLS. It does not watch it where it puts
together the header and the head of a part with `strcat`, whose lengths the model
leaves open and says nothing of, nor behind a `recv` that fills
`m_receive_buffer` to its last character: that is an action of the model, and the
terminator the code then writes behind the buffer (`smtp_server.cpp:1020`) falls
into what the allocator adds to a block of this size.

Left out: files that change while open, and that the line `receive_response` keeps
grows with every continuation line.

### Base64, Md5, Credentials

`Credentials` has one task at a time: a mechanism with login, password and
challenge, or an MD5 object with the pieces it is given. There is one action per
call of an MD5 object. `Md5` keeps the octets that have been transformed
(`hashed`) in the place of the state, so that properties can compare them with
the message; the state is the fold of `transform` over the blocks of `hashed`,
computed when a digest is asked for. `transform` is a CONSTANT, so that nothing
said of the buffering depends on it; `Md5Transform` gives TLC the real one
(tables and rounds of `md_5.cpp`), against the digests the comments of the source
quote. The count of bits is two words of size `WordSize`. PLAIN puts '^' for the
two zeros and replaces every '^' of the text: a login or password that contains
one does not arrive, and `CredentialsArrive` excepts it. Passwords and challenges with a
zero in them, of which `char2uchar` copies the beginning only, are outside of
`TasksAssumption`.

### DataRange

One state per order number; the properties relate all of them.

### PgPool

One action per step between two points where another thread can run: taking
the mutex, the test of the loop, `front`, `pop`, the atomic release in `wait`,
`unlock` before `notify_one`. Spurious wake-ups (`Wake`) are there. A thread is
anybody who calls `DbQueryExecutor`; `MaxQueries` bounds how often.

### Distribution

A child goes on with the loop of `main` when its `do_child` returns, so a
process is named by the set of loop indices at which it or an ancestor was
forked. Every process has a copy of the pool (`taken` counts how far it has gone
round the queue) but the sockets behind it are shared: `answers` is per
connection, a `Read` takes the first answer that has come in and discards what
came with it, whoever asked. An answer with the texts of mails comes in pieces, and
when two processes wait in `PQgetResult` on one socket each gets some of them: `Tear`
is one that reads a part. It goes on waiting, or has the rows up to where its
part ends, or none; the connection is `torn`, and from then on whoever reads from it
may find that it has lost its place, may close its copy of the socket, and may
leave the session open at its exit. `PQfinish` at the exit of any process ends all
sessions (`open`). `get_row_count` leaves its loop before the end of the results,
so that its connection is refused once by whoever draws it next (`unread`).
Abstractions: a process does not put together the parts of two answers; the database
answers in order; `fork` copies everything at once. libpq and the database are external.
What a mail does to the relay is `SmtpSession`'s business: here `MailRow`
counts the attempt and `Abort` is a process that dies in one. That a mail
returns is not supposed (`Mailing`). Which of the three faults, a failed `fork`,
a death and answers in pieces, may happen is part of the setting.

### Configuration, Program

A line of a file is a comment, empty, or a name with a value that is a number or
not (`Text`). `KeyMap` is the `std::map` into which `read_config` inserts, so that
the first of two lines for a key counts. A key that is missing leaves -1, and
`is_valid` is called by nobody.

`stage` is how far `main` has come before its loop; there is one action per
step, each with the ways in which it can fail: no IPv4 address (a string made
from a null pointer, outside the `try`), a missing option, a file that is not
there (a null pointer nobody tests for `db.conf`, an early return for
`server.conf`) or cannot be opened (an exception), a value `stoi` refuses, a database that cannot be reached, a
port that is taken. `SIGINT` kills the program before the handler is installed
and is a `notify_one` afterwards, which is lost unless somebody waits; `WakeUp`
needs no notification, since the wait has no predicate. A start is a command
line, the two files, the host and the table; the steps of `Distribution` run at
stage "loop" only.

## The runs

| Run | Asks | Properties | Distinct states |
|---|---|---|---|
| `session_main` | does the use `main.cpp` makes of the object go well, for seven shapes of message? | `TypeOK`, `OnlyWholeMailsOnce`, `RepliesMatch`, `DescriptorsClosed`, `TerminatesOnlyAfterSuccess`, `MailsReadAsMeant`, `ComesToAnEnd`, `DeliveryPromise` | 520,582 |
| `session_reuse` | a second message, retries, explicit connects, a second connection, all security types | `SuccessMeansAccepted`, `OnlyWholeMailsOnce`, `SecretsOnlyInTls`, `RepliesMatch`, `DescriptorsClosed` | 4,267,219 |
| `session_notconnected`, `session_digest`, `session_dotline` | findings, below | one each | |
| `wire` | does what is composed reach the peer, byte for byte, however the sockets cut, block and fail? | `TypeOK`, `NothingLostOrDoubled`, `BuffersFit`, `WholeOrNothing`, `ReplyCodesRight`, `FilesClosedOnce`, `EveryCallEnds` | 189,074 |
| `credentials` | can the relay verify the answers, whatever the lengths, and is what is hashed the padded message, whatever the pieces? | `TypeOK`, `HoldsWhatItWasFed`, `PaddedAsSpecified`, `CredentialsArrive`, `AnswersAsDocumented` | 4,079 |
| `credentials_peer` | finding, below | `KnownPeerAnswered` | |
| `range` | are the ranges a partition but for the tail? | `TypeOK`, `RangesDisjoint`, `OnlyTheTailIsLeft` | 798 |
| `range_validservers` | finding, below | `ValidServersShareNoRow` | |
| `pool` | is the pool safe, with throws and spurious wake-ups, and is everyone served? | `TypeOK`, `ConnectionsExclusive`, `NoLostWakeup`, `PoolPromise`, `EveryoneServed` | 45,090 |
| `distribution` | from the first line of `main` to the last exit: what happens to each row, with starts that fail, forks that fail, processes that die and answers that are torn? | `ProgramTypeOK`, `CopiesBounded`, `OnlyTheFirstShare`, `FirstRangeMailed`, `NothingInherited`, `MailedAsConfigured`, `EveryoneExits` | 276,930 |

`DeliveryPromise` is the refinement of `MailDelivery`; it contains that a success
means acceptance and that a failure means none, unless it was the answer to the
final dot that was missed. `session_reuse` states the first of these apart,
because an owner that retries is not in the scope of the refinement.

`OnlyTheFirstShare`, `CopiesBounded` and `FirstRangeMailed` describe what the
code guarantees, which is less than a user would want: every server mails the
first rows of the table whatever its order number (`main.cpp:117` cuts the
ranges of the processes from row 1 up), a row of range k is mailed up to
2^(k-1) times (twice for k = 1), and rows behind the first range may not be
mailed at all. Those of the first range are, unless its fork fails or `main` and its
first child, which ask for it on the same socket, tear each other's answers.

### Bounds and why they are enough

* `session_main`: one connection and up to two messages per object; `main.cpp`
  uses one, two are the smallest case in which one leaves something to the
  next. One or two refusal codes: 530 is the one the code tests for, 550 any
  other. Every shape of message takes a different path through `send_mail` and
  through the format (copies, no text, attachments, no sender, no recipient, lines
  that are cut, glued and lose a dot). `Forms`: every optional field there, and
  none of them, with HTML. One of the eight relays is `endless`.
* `session_reuse`: two connections, two messages, three calls of the owner,
  the smallest case in which the TLS session of one connection meets the next.
  A connect that completes at once (`Immediate`) is in `session_main` only.
* `wire`: `BUFFER_SIZE` 10240 becomes 24, `buff_len` 1024 becomes 8, the 54 bytes
  of a line become 3, the time-out is two waits. `DataAssumption` says what
  these must have in common with the code: a line is a multiple of three bytes and
  the buffer has room for one with a line end. Thirteen messages: files of every
  length modulo 3, empty, and around half a buffer, up to three of them, and two
  that are too large together (`MaxTotal`); replies of one and of two lines, with
  digits in their text, too long for the buffer, and a goodbye; and a peer whose lines need not end.
* `credentials`: about 1250 tasks. Words have 1024 values in the place of 2^32, so
  that the count of bits passes from one to the other; streams are read 100
  octets at a time. Logins and passwords of every length modulo 3, passwords of 64,
  65 and 70 octets, challenges of every length modulo 3, up to three pieces
  around the block of 64 and the 56 of the padding.
* `range`: 20 rows and -1 to 7 items contain every kind of remainder, fewer rows
  than items, none, and the refused arguments. The theorems are for all numbers.
* `pool`: three threads are needed for a notification to reach the wrong one; two
  connections for the order of the queue to matter and for one to be lost while
  another is left; three queries for each thread to come back.
* `distribution`: 24 starts. With two indices there are up to four processes,
  with every fault; with three, which is the first case in which processes of
  different indices share a connection, up to eight, without faults. Four
  connections: two are used before the loop, the third and the fourth by the
  first two indices; at the third some processes come round to the connection
  `get_row_count` left busy, as a run with ten would at the ninth.

Nothing is cut but by the constants of the modules: `MaxConns`, `MaxSends`,
`MaxCalls`, `MaxQueries`, `MaxProcesses` and the finite sets of messages, tasks
and starts.

### Fairness

* `SmtpSession!FairSpec`: weak fairness of the client's step outside of `Held`, which
  is `Spinning` or `Flooded`. The program runs, the owner goes on to the destructor,
  and each wait has a time-out (the `select` calls), except in those two loops: there
  the outcome is up to the relay, of which, as of the network, nothing is assumed.
  `ComesToAnEnd` says that they are the only ways not to come to an end. So a
  relay that answers STARTTLS with 220 and is then silent does hold the object for
  ever, in the QUIT of the catch clause.
* `DataPhase!Spec`: weak fairness of the client's step as long as it is neither
  `Spinning`, where no wait with a time-out comes between two calls of
  `SSL_write` or `SSL_read`, nor `Flooded`, where each line begins another one;
  `EveryCallEnds` says the same of them, character by character.
* `PgPool!FairSpec`: weak fairness of each thread and finitely many spurious
  wake-ups; a thread waiting for the mutex gets it because the others use it a
  finite number of times.
* `Program!FairSpec`: weak fairness of the steps of `main` before its loop, of the
  end of a wait that was notified, and of each process, including that data on a
  socket is eventually read by someone who waits for it; but not of a process that is
  in the loop over its rows, because `send_mail` need not return. That every process
  leaves this loop, that none aborts, that no answer is torn and that a SIGINT comes
  while `main` waits are hypotheses of `EveryoneExits`, not assumptions.

### Deadlock

TLC checks it in every run but three: the modules end in explicit stuttering
steps (`Gone`, `Finished` and the like). `DataRange` (`range`,
`range_validservers`) and `Program` (`distribution`) really stop: the loop ends,
every process exits; and with processes that die, one may be left waiting for an
answer someone else has read.

### Findings

* `session_notconnected`: `send_mail` decides by `m_socket` whether it is
  connected, the rest of the object by `m_bConnected`; after a failed QUIT they
  disagree and MAIL FROM goes to a session that has been told to quit.
* `session_digest`: the DIGEST-MD5 branch uses the row with 335; the row with
  334, made for it, is used by nobody.
* `session_dotline`: text lines are not dot-stuffed; the relay answers within
  the data.
* `range_validservers`: `is_valid` counts order numbers from 0,
  `get_data_range` from 1; orders 0 and 2 get the same rows.
* `credentials_peer`: the test of `getpeername` is inverted, so that DIGEST-MD5
  throws when the name of the peer is known.

Seen while modelling and not shown by a run, because the models leave out the
detail: without a reply-to the receipt goes to the sender's name, not to the
address (`smtp_server.cpp:901` against the comment at 898); the Date line has no
zone (the comment at 865 has one). Seen in the models and excepted by their
properties: the loops without a time-out (`Held`, `Spinning`, `Flooded`), where
the comment at 1405-1410 has the code wait; lines that are cut or lose a dot
(`Sendable`); answers that are torn (`torn`).

## The proofs

`tlapm` checks every theorem below for every value of the constants that
satisfies the named ASSUMEs (`RelayAssumption`, `SessionAssumption`,
`FormAssumption`, `CountsAssumption`, `PoolAssumption`, `WireAssumption`,
`DataAssumption`, `ReplyAssumption`, `DistributionAssumption`,
`ProgramAssumption`, `TextAssumption`, `Md5Assumption`, `TasksAssumption`), which
TLC evaluates in the runs, and the hypotheses named below. Of the safety
invariants and action properties the passing runs check, all but one are
proved.

* `SmtpSessionProofs`, the object by itself: `TypeCorrect`, and `SecretsStayInTls`. The inductive
  invariant is `TypeOK /\ SocketOK /\ Unopened /\ TlsInv`. `SecretsOnlyInTls`
  alone is not inductive: one has to know that behind the program points that
  follow a TLS handshake `m_ssl` is set, that before it only INIT, EHLO, STARTTLS,
  QUIT or, after a connect that completed at once, MAIL FROM can be reached,
  that in this last case the relay has not greeted, so the first reply on the
  connection is the greeting or a refusal and cannot be a 250, and for that
  which connections have been opened.
  `DescriptorsAreClosed` and `NeverResumed` rest on the invariant `Courses`: a
  socket in the owner's hands is one `m_bConnected` knows of, or a QUIT failed on
  it. Their hypothesis `NoEarlyReturn` leaves out an owner that calls `connect`
  itself when connects can complete at once: it is told nothing of the greeting
  that is unread, and the invariant is false of it; `NeverResumed` also
  supposes an owner that does not go on after an exception. `TerminatesAfterSuccess`
  (invariant `OpenAfterSuccess`: a connection that is open after a `send_mail` has
  returned is one of a success) is for an owner that leaves the connecting to
  `send_mail`, as `main.cpp` does.
* `SmtpSessionProofs`, the object and its relay: `StaysInStep`, `RepliesAlwaysMatch`, `WholeMailsOnce`,
  `SuccessIsAccepted`, for every set of messages, number of connections and order
  of calls, under `NoDots`: no text line is a single dot, unless it is glued to one that was cut
  in front of it; of the others `session_dotline` shows it to be false. Lines that
  are cut and lines that lose a dot are within these theorems. None of the properties is inductive alone;
  `DeliveryInv` adds what object and relay know of each other. For the connection
  in use, `InStep` says step by step which command is under way, which reply
  to it has been given or is awaited, and what the relay has taken of the
  message: nothing before its MAIL FROM, its recipients before DATA, and from
  there on a `Stream` (the body the relay has read, then what is on its way to
  it) that is the blocks sent so far. For every connection, also those
  given up half-way, `Farewell` says that a 221 answers nothing but a QUIT,
  `Untouched` that one not yet made carries nothing, `WholeBeforeDot` that only a
  whole message is followed by its final dot; `OneDot` that the dot of a message is
  sent once and on one connection, and `Counted` what `send_mail` knows of itself. `KeepsPromise` is the refinement of `MailDelivery`,
  step by step, from that invariant, `DescriptorsAreClosed`'s and `NeverResumed`;
  so it has the hypotheses of all of them.
* `SessionTextProofs`: `WholeMailsAreRead`, and `MailsAreReadAsMeant` with the
  hypotheses of `NeverResumed`, both under `NoDots`, for messages with any number of recipients, lines and
  files. What they say of a message that is not `Sendable` is that it is
  accepted whole, and nothing of how it is read. By `WholeMailsOnce` what the relay has accepted is the header and the blocks
  of one message (`TextIsWhole`), so the rest is about a text and not about steps:
  `ReadAsMeant`. `TextIs` says which line stands where: with `F` files and `t` lines of
  text, each file has six lines behind those of the text. The header
  is the fields `Present` names, some of them only for some messages (`HeadIs`); since
  no two have the same name, a reader finds for each name its value or none
  (`FieldsAreMeant`).
  `MarksAre` has the places of the delimiters and no others: a line of text, a field and
  base64 are none. `PartsAre` cuts the body there, and `PartsRead` finds the
  text and then the files, in order. `NthInOrder` is what lets one
  count delimiters: the k-th of a set of places listed in increasing order.
* `CredentialsProofs`: `CredentialsHold` and from it `CredentialsTypes`,
  `NothingLostInTheBuffer`, `PaddingIsRight`, `CredentialsAlwaysArrive`, for
  logins, passwords, challenges and pieces of every length. `ObjectInv` says of
  the object what has been given to it (`Given`), that it holds this (`Holds`), or,
  once it is finalized, the padded form of it (`Done`); `Keyed` what the objects of
  HMAC have been given and are still to be given. The hypothesis `OnStates(State)` is about the
  compression function, which is a constant: it takes a state and a block to a
  state, and a state has an encoding in octets. (The one of `Md5Transform` does, with
  the quadruples of words for `State`; that module needs `Bitwise`, which the prover
  cannot read.) Where the model has a recursive function, of the turns of
  `update_stream` and of the blocks transformed, the proof takes the smallest number
  of turns for which it would be wrong (`AfterExists`, `StateExists`) in the place of
  an induction. Base64 is proved in both directions, three octets to four characters
  and back (`SixBitsAre`, `EncodedIs`, `DecodedIs`), with each kind of remainder.
  `CredentialsArrive` keeps its exception for '^'.
* `DataPhaseProofs`: `TypeCorrect`, `NoBufferOverrun`, `FilesAlwaysClosed` and
  `NothingLost`, for any sizes of the buffers, lines and files. The inductive
  invariant is `WireInv /\ ProgramInv`. `SentInv` is what makes
  `NothingLostOrDoubled` inductive: in the middle of a call what has been given to
  `send_data` is what has got out followed by the rest of the buffer, and a
  record `SSL_write` has begun is that rest. `FillInv` relates what the buffer
  holds, base64 with line ends, to `msg_part`, the count that decides when it is
  sent: this is what bounds it, and all that `NoBufferOverrun` says of `m_send_buffer`: the
  code has no such count for the header and the heads of parts. `FileInv` says where a file can be open, among
  other places in the catch clause only for the check of the attachments. `PlaceInv`
  keeps the index of the attachment within the list. The lemmas `EncodeText`
  (what `base64_encode` returns and how long it is) and `ReplyCode` are about the
  operators. `Smallest` of `SharedLemmas` (every set of numbers has a least member)
  serves here and in `CredentialsProofs` and `DistributionProofs` in the place of
  an induction.

  `RepliesHeard` adds `ReplyInv`, and from it come `CodesAreRight` and
  `NothingFailsBehindTheEnd`. `HeardInv`: until something fails, what is in the line
  under way, in `m_receive_buffer` and on the socket is together what the peer has
  said, which is one reply or nothing; so no part of it is lost, doubled or
  taken from a call before. The lemma `PartialReply` says that a part of a reply
  that does not reach its last line is not taken for one. `DotInv`: no dot is sent
  before the final one, because the alphabet of base64 and the texts of the blocks
  have none. `PhaseInv` and `FailedInv` follow where the program is and where it
  failed. `ReplyAssumption` is what is supposed of the peer: each line of a reply
  begins with its code, and a goodbye is not a 250. `NothingFailsBehindTheEnd` is
  the second half of `WholeOrNothing` in other words: a failure after the end of
  the data is one of the wait for the answer.

  `MailsArriveWhole` is all of `WholeOrNothing`: the files decoded from the lines the
  peer has read are the files attached. Its invariant `WholeInv` reads the text as the
  peer will, at every step. `TextInv`: up to a failure what has been composed
  (`Composed`: what was given to `send_data`, and while lines are written what is in the
  buffer) is whole lines, and decoding them gives the files that have been
  sent and what has been read of the one that is open; `OpenText` and `ShutText`
  tell whether the next line of base64 would still belong to the last file. So a
  block that was cut inside of a line, or a delimiter that is a line of base64,
  would show at once. `ThrownInv` says that a throw that is not a failure of the socket
  leaves a text that can still be finished, and `AfterInv`, that behind a failure
  of the wait for the answer there is the whole message with its dot, and some of QUIT.
  The proof follows `Nth`, `NextOf` and `FlattenSeq` through each line that
  comes behind a text (`NthGrows`, `NextIs`, `FlattenAppend` of `SharedLemmas`); what a
  fold is on a sequence of any length is shown once (`FlatExists`, `FlatOnce`), by the
  smallest length for which it would be wrong.
* `DataRangeProofs`: `RangesInTable`, `NoRowTwice`, `NoRowForgotten`. The
  invariant `LoopInv` says that `ranges` holds the ranges of the order numbers
  passed so far; the rest is arithmetic: lemmas on division and monotone
  products (`Division`, `Product`, `ProductMonotone`), then `Disjoint`, `Covered`.
* `PgPoolProofs`: `TypeCorrect`, `NeverShared`, `WakeupsArrive`, and
  `KeepsPromise`, the refinement of `ConnectionPool`. The inductive invariant adds
  to `ConnectionsExclusive` who has the mutex at which program point (`MutexInv`),
  who has a connection (`HeldInv`), that a thread in front of `pop` holds the head
  of the queue (`PopInv`), and who is asleep (`SleepInv`). For `NoLostWakeup` the
  number of threads on their way to the queue (`Awake`) is followed through every
  step.
* `DistributionProofs`: `TypeCorrect`, `FirstShareOnly`, `ListenerNotInherited`,
  `OnlyAsConfigured`, about `Program` with any number of processes, connections
  and rows. `DInv` says that no range that is being mailed, or is in an answer on
  any connection, passes `Bound` (`RangeInv`), whoever reads whose answer; that
  therefore no row behind it is mailed (`AttemptInv`); and that the bound is the
  share of the server (`LimitInv`). `StageInv` adds what is true before the loop.
  `ConfInv` carries a row that is mailed back to the lines of `server.conf`,
  through the lemma `FirstEntry` about the map.

  `CopiesAreBounded`: `TreeInv` says which processes exist and what they do next
  (`AtWork`, `Alone` before the first fork, `Forked`: whose child is there and
  whose is not). `Counted` is the argument for the bound: there is an injection
  that gives to each copy of a row that has been mailed, each row a process has in
  hand and each unread answer on a connection a process that has asked, and a
  process asks for a range once. A count per process would not do, since
  processes read each other's answers. `FirstRangeIsMailed`: the first
  range is asked for on the connection third in the queue, by `main` and its
  first child. `EarlyInv` and `FirstInv` say that one of them is still on its way
  to it, or that the answer waits there whole, or that the rows are in hand or mailed,
  and that no session is ended before. All of it as long as that connection is not
  `torn`; what is torn elsewhere, and what a process does that has lost its place,
  is part of every step of the proof. `DistributionAssumption` has the
  three connections this needs (`POOL_COUNT` is 10).

Only model-checked, and why:

* `ComesToAnEnd`, `EveryCallEnds`, `EveryoneServed`, `EveryoneExits`: liveness under
  fairness is out of the prover's reach.
* `AnswersAsDocumented`: it compares concrete digests, and the tables of
  `Md5Transform` need `Bitwise`.

The hypotheses `NoDots` and `NoEarlyReturn` hold in every run of `SmtpSession` but
`session_dotline`, so what `session_main` and `session_reuse` check is within the
theorems.

## Not modelled

* The handlers of the REST service (stateless, 200, 404 or 501) and the threads
  cpprest leaves behind at the fork: what they do then is code that is not here.
* The texts of exceptions and the statistics, which nobody reads.
* The option parser of boost and the help text: only which options are given.
* The columns of a row, the database's own behaviour beyond answering in order, and
  rows that libpq would make of parts of two answers.
* The format of the date, the address of a receipt, DNS.
* A line of text that is itself the boundary of the parts: lines of text are told from
  delimiters.
* How long the header and the head of a part are, and so whether they stay within
  `m_send_buffer`: the code does not see to it.
* Files that change while they are open, '^' in a login or password under PLAIN, which
  `CredentialsArrive` excepts, and zeros in a password or challenge under CRAM-MD5.
* The constructors of MD5 that hash a file, and `operator<<`, which nobody uses.
* The setters of the message, whose result is the message a run starts from.

## Plan

The modules were written in the order of the damage a mistake would do:
`SmtpSession` with `MailDelivery` first, because a wrong report about a mail is the
worst this program can do; then `DataRange`, `PgPool`, `Distribution`; then what
surrounds them and what lies below: `SocketLoops`, `DataPhase`, `Base64`, `Md5`,
`Credentials`, `Configuration`, `Program`, `MessageText`.

The proofs followed in the same order. What is left to the runs is what the prover
cannot reach, the four liveness properties and `AnswersAsDocumented`.
