------------------------------ MODULE SocketLoops ------------------------------
(***************************************************************************)
(* send_data and receive_response of core/smtp/smtp_server.cpp with their  *)
(* TLS variants, turn by turn, on the characters they move.  The caller    *)
(* starts a call when call is "idle"; it is "idle" again when the function *)
(* has returned, with thrown set if by an exception.  A character is its   *)
(* code.  The select of Linux leaves in its timeval what is not yet used   *)
(* up, so the turns of one call share its time-out.                        *)
(***************************************************************************)
EXTENDS SmtpCommon, Integers

CONSTANTS
  BUFFER_SIZE,
  buff_len,     \* what one SSL_read takes at most
  Timeout       \* how often a call may wait before its time is used up

ASSUME WireAssumption ==
  BUFFER_SIZE \in Nat \ {0, 1} /\ buff_len \in Nat \ {0} /\ Timeout \in Nat

VARIABLES
  m_ssl,                  \* whether the session goes through TLS
  call,                   \* "idle", "send", "receive", or "killed" by SIGPIPE
  entry,                  \* pEntry, the row of the command table
  thrown,
  m_send_buffer, idx,     \* idx is offset in send_data_ssl
  budget,                 \* what is left of the time-out of the call
  write_blocked_on_read,
  m_receive_buffer,       \* in receive_data: what SSL_read has brought so far
  more,                   \* SSL_pending: the next SSL_read does not wait
  read_blocked_on_write,
  line,
  sent,                   \* what has got to the peer
  unwritten,              \* a record SSL_write has begun and not finished
  incoming,               \* what the peer has written and nobody has read
  closed,                 \* the peer has closed the connection
  given,                  \* history: everything send_data was called with
  codes                   \* history: the codes receive_response has found

client  == <<call, entry, thrown>>
sender  == <<m_send_buffer, idx, write_blocked_on_read, given>>
reader  == <<m_receive_buffer, more, read_blocked_on_write, line, codes>>
network == <<sent, unwritten, incoming, closed>>
wireVars == <<m_ssl, client, budget, sender, reader, network>>

CR == 13
LF == 10
CRLF == <<CR, LF>>

WireInit ==
  /\ m_ssl \in BOOLEAN
  /\ call = "idle" /\ entry = "DATA" /\ thrown = FALSE /\ budget = Timeout
  /\ m_send_buffer = <<>> /\ idx = 0 /\ write_blocked_on_read = FALSE /\ given = <<>>
  /\ m_receive_buffer = <<>> /\ more = FALSE /\ read_blocked_on_write = FALSE
  /\ line = <<>> /\ codes = <<>>
  /\ sent = <<>> /\ unwritten = <<>> /\ incoming = <<>> /\ closed = FALSE

Upto(s, n) == IF n < Len(s) THEN SubSeq(s, 1, n) ELSE s

-----------------------------------------------------------------------------
(* The calls. *)
send_data(row, text) ==
  /\ call' = "send" /\ entry' = row /\ UNCHANGED thrown
  /\ m_send_buffer' = text /\ idx' = 0 /\ write_blocked_on_read' = FALSE
  /\ given' = given \o text
  /\ budget' = Timeout
  /\ UNCHANGED <<m_ssl, reader, network>>

receive_response(row) ==
  /\ call' = "receive" /\ entry' = row /\ UNCHANGED thrown
  /\ m_receive_buffer' = <<>> /\ more' = FALSE /\ read_blocked_on_write' = FALSE
  /\ line' = <<>> /\ UNCHANGED codes
  /\ budget' = Timeout
  /\ UNCHANGED <<m_ssl, sender, network>>

(* What is local to receive_response, or only read by it, is forgotten. *)
Throw ==
  /\ call' = "idle" /\ thrown' = TRUE /\ UNCHANGED entry
  /\ m_receive_buffer' = <<>> /\ more' = FALSE /\ read_blocked_on_write' = FALSE
  /\ line' = <<>> /\ UNCHANGED codes

-----------------------------------------------------------------------------
(* send_data, send_data_ssl: while (nLeft > 0). *)
nLeft == Len(m_send_buffer) - idx
Rest  == SubSeq(m_send_buffer, idx + 1, Len(m_send_buffer))

(* Mutation: the sum is not kept, the next turn sends the rest from the    *)
(* place of the one before.                                                *)
Written_SameIndex(chars) ==
  /\ sent' = IF closed THEN sent ELSE sent \o chars
  /\ idx' = IF idx = 0 THEN Len(chars) ELSE idx
  /\ call' = IF Len(chars) = nLeft THEN "idle" ELSE "send"
  /\ UNCHANGED <<m_ssl, entry, thrown, budget, m_send_buffer, given, reader, incoming, closed>>

(* chars are out; to a connection the peer has closed they are lost. *)
Written(chars) ==
  /\ sent' = IF closed THEN sent ELSE sent \o chars
  /\ idx' = idx + Len(chars)
  /\ call' = IF Len(chars) = nLeft THEN "idle" ELSE "send"
  /\ UNCHANGED <<m_ssl, entry, thrown, budget, m_send_buffer, given, reader, incoming, closed>>

(* send() takes as much as fits into the buffer of the socket; how it cuts *)
(* what is lost anyway does not matter.                                    *)
SendSome ==
  /\ call = "send" /\ ~m_ssl
  /\ \E n \in 1 .. nLeft : (closed => n = nLeft) /\ Written(SubSeq(Rest, 1, n))
  /\ UNCHANGED <<write_blocked_on_read, unwritten>>

(* SSL_write writes a record whole.  One it has begun it finishes first,   *)
(* whatever it is given now, and refuses a text shorter than that.         *)
record == IF unwritten = <<>> THEN Rest ELSE unwritten

SSL_write ==
  /\ call = "send" /\ m_ssl /\ Len(record) <= nLeft
  /\ Written(record)
  /\ write_blocked_on_read' = FALSE /\ unwritten' = <<>>

(* Mutation: the timeval starts again with every turn. *)
WantWrite_NewTimeval ==
  /\ call = "send" /\ m_ssl /\ Len(record) <= nLeft
  /\ budget > 0 /\ budget' = IF budget = 1 THEN Timeout ELSE budget - 1
  /\ unwritten' = record /\ write_blocked_on_read' = FALSE
  /\ UNCHANGED <<m_ssl, client, m_send_buffer, idx, given, reader, sent, incoming, closed>>

(* SSL_ERROR_WANT_WRITE: the next select waits for room in the socket. *)
WantWrite ==
  /\ call = "send" /\ m_ssl /\ Len(record) <= nLeft
  /\ budget > 0 /\ budget' = budget - 1
  /\ unwritten' = record /\ write_blocked_on_read' = FALSE
  /\ UNCHANGED <<m_ssl, client, m_send_buffer, idx, given, reader, sent, incoming, closed>>

(* SSL_ERROR_WANT_READ, in a handshake the peer has asked for.  The next   *)
(* select asks for room as well, so it returns at once and uses up no time. *)
WantRead ==
  /\ call = "send" /\ m_ssl
  /\ write_blocked_on_read' = TRUE
  /\ UNCHANGED <<m_ssl, client, budget, m_send_buffer, idx, given, reader, network>>

(* send() to a connection the peer has closed raises SIGPIPE. *)
Killed ==
  /\ call = "send" /\ closed
  /\ call' = "killed"
  /\ UNCHANGED <<m_ssl, entry, thrown, budget, sender, reader, network>>

-----------------------------------------------------------------------------
(* receive_response. *)
Ends(s)   == {i \in 1 .. Len(s) - 1 : s[i] = CR /\ s[i + 1] = LF}
Starts(s) == {1} \cup {i + 2 : i \in Ends(s)}
(* Mutation: any three characters pass for a code. *)
isdigit_Any(c) == TRUE

isdigit(c) == c \in 48 .. 57

(* The line that begins at b is the last of a reply: XYZ<CRLF> or XYZ<SP>*. *)
IsLast(s, ends, b) ==
  /\ \E e \in ends : e >= b + 3
  /\ \A i \in b .. b + 2 : i \notin ends /\ isdigit(s[i])
  /\ b + 3 \in ends \/ s[b + 3] = 32

LastLines(s) == LET ends == Ends(s) IN {b \in Starts(s) : IsLast(s, ends, b)}

reply_code(s) ==
  LET last == LastLines(s)
      b == CHOOSE b \in last : \A c \in last : b <= c
  IN (s[b] - 48) * 100 + (s[b + 1] - 48) * 10 + s[b + 2] - 48

(* Mutation: only what came last is looked at. *)
Parsed_LastChunk(text) == text

(* What receive_response parses when text has come: all of the reply so far. *)
Parsed(text) == line \o text

(* receive_data has returned text. *)
Received(text) ==
  LET s == Parsed(text) IN
  /\ more' = FALSE /\ read_blocked_on_write' = FALSE
  /\ IF LastLines(s) = {}
       THEN /\ line' = s /\ m_receive_buffer' = <<>> /\ budget' = Timeout
            /\ UNCHANGED <<client, codes>>
       ELSE /\ line' = <<>> /\ m_receive_buffer' = Upto(s, BUFFER_SIZE - 1)
            /\ codes' = Append(codes, reply_code(s))
            /\ call' = "idle" /\ thrown' = (reply_code(s) # valid_reply_code[entry])
            /\ UNCHANGED <<entry, budget>>

Take(n) ==
  /\ incoming' = SubSeq(incoming, n + 1, Len(incoming))
  /\ UNCHANGED <<m_ssl, sender, sent, unwritten, closed>>

(* recv() returns some of what is there.  When it fills the buffer the     *)
(* terminator is written behind it, into what the allocator adds to a      *)
(* block of that size, and the text is read whole.                         *)
Receive ==
  /\ call = "receive" /\ ~m_ssl
  /\ \E n \in 1 .. Len(incoming) :
       n <= BUFFER_SIZE /\ Received(SubSeq(incoming, 1, n)) /\ Take(n)

Fits(n) == Len(m_receive_buffer) + n <= BUFFER_SIZE - 1

(* SSL_read returns a record, or the first buff_len characters of it; then *)
(* the loop goes on without select.                                        *)
SSL_read ==
  /\ call = "receive" /\ m_ssl
  /\ \E n \in 1 .. Len(incoming) :
       LET text == m_receive_buffer \o SubSeq(incoming, 1, n) IN
       /\ n <= buff_len
       /\ Take(n)
       /\ \/ ~Fits(n) /\ Throw /\ UNCHANGED budget
          \/ Fits(n) /\ Received(text)
          \/ /\ Fits(n) /\ n = buff_len /\ n < Len(incoming)
             /\ more' = TRUE /\ read_blocked_on_write' = FALSE /\ m_receive_buffer' = text
             /\ UNCHANGED <<client, budget, line, codes>>

(* SSL_ERROR_WANT_READ: the next select waits for more. *)
ReadBlocked ==
  /\ call = "receive" /\ m_ssl /\ ~more
  /\ budget > 0 /\ budget' = budget - 1
  /\ read_blocked_on_write' = FALSE
  /\ UNCHANGED <<m_ssl, client, m_receive_buffer, more, line, codes, sender, network>>

(* SSL_ERROR_WANT_WRITE: the next select waits for room or for more, so    *)
(* that it returns at once while there is something to read.               *)
ReadWantsWrite ==
  /\ call = "receive" /\ m_ssl /\ ~more
  /\ IF incoming # <<>> THEN UNCHANGED budget ELSE budget > 0 /\ budget' = budget - 1
  /\ read_blocked_on_write' = TRUE
  /\ UNCHANGED <<m_ssl, client, m_receive_buffer, more, line, codes, sender, network>>

-----------------------------------------------------------------------------
(* The time is used up, select or the call after it fails, the peer has   *)
(* closed the connection and there is nothing left to read.               *)
Fails ==
  /\ call \in {"send", "receive"} /\ Throw
  /\ UNCHANGED <<m_ssl, budget, sender, network>>

WireStep ==
  \/ SendSome \/ SSL_write \/ WantWrite \/ WantRead \/ Killed
  \/ Receive \/ SSL_read \/ ReadBlocked \/ ReadWantsWrite \/ Fails

(* SSL_write or SSL_read is asked again and again: no wait is in between.  *)
Spinning ==
  \/ call = "send" /\ write_blocked_on_read
  \/ call = "receive" /\ read_blocked_on_write /\ incoming # <<>>

-----------------------------------------------------------------------------
(* The peer and the network. *)
PeerWrites(text) ==
  /\ incoming' = incoming \o text
  /\ UNCHANGED <<m_ssl, client, budget, sender, reader, sent, unwritten>>

-----------------------------------------------------------------------------
Char == 0 .. 255
Text == Seq(Char)

(* The values of the variables. *)
WireTypeOK ==
  /\ m_ssl \in BOOLEAN
  /\ call \in {"idle", "send", "receive", "killed"}
  /\ entry \in Steps /\ thrown \in BOOLEAN /\ budget \in 0 .. Timeout
  /\ m_send_buffer \in Text /\ idx \in 0 .. Len(m_send_buffer)
  /\ {write_blocked_on_read, read_blocked_on_write, more, closed} \subseteq BOOLEAN
  /\ {m_receive_buffer, line, sent, unwritten, incoming, given} \subseteq Text
  /\ codes \in Seq(0 .. 999)
===============================================================================
