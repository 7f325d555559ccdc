------------------------------- MODULE DataPhase -------------------------------
(***************************************************************************)
(* send_mail (core/smtp/smtp_server.cpp) over the socket loops: the check  *)
(* of the attachments and everything from the header to the answer to the  *)
(* final dot, with the catch clause and the QUIT it says.  MAIL, RCPT and  *)
(* DATA, which come in between, are SmtpSession's and go well here.        *)
(***************************************************************************)
EXTENDS SocketLoops, Base64, Positions, SequencesExt

CONSTANTS
  LineBytes,    \* the bytes of a file in one line of base64
  MaxTotal,     \* the bytes of all attachments that are still accepted
  Messages      \* how many text lines, the contents of the attachments, what
                \* the peer may answer, and say when it closes the connection,
                \* and whether it may go on with continuation lines for ever

Reply == [code: 0 .. 999, text: Seq(Bytes)]

ASSUME DataAssumption ==
  /\ LineBytes \in Nat \ {0} /\ LineBytes % 3 = 0
  /\ BUFFER_SIZE >= 4 * LineBytes + 7
  /\ MaxTotal \in Nat
  /\ Messages \subseteq [lines: Nat, files: Seq(Seq(Bytes)),
                         answers: SUBSET Reply, goodbyes: SUBSET Reply,
                         endless: BOOLEAN]

(* Each line of a reply begins with its code, and a goodbye accepts no     *)
(* message.                                                                *)
NamesCode(r) ==
  \A b \in Starts(r.text) : b + 2 <= Len(r.text) =>
    r.code = (r.text[b] - 48) * 100 + (r.text[b + 1] - 48) * 10 + r.text[b + 2] - 48

ASSUME ReplyAssumption ==
  \A m \in Messages :
    /\ \A r \in m.answers \cup m.goodbyes : NamesCode(r)
    /\ \A r \in m.goodbyes : r.code # valid_reply_code["DATAEND"]

VARIABLES
  message,        \* the message send_mail was called for
  pc,             \* what send_mail does once no call is in progress
  at,             \* the text line or attachment it is at
  j, msg_part, total_size,
  hFile,          \* the attachment that is open, 0 for nullptr
  m_bConnected,
  phase,          \* of the peer: "command", "data", "taken", "bye"
  fopens, fcloses, \* history
  failed_at,      \* history: where the first exception was thrown
  answers         \* history: the codes the peer has answered with

program == <<message, pc, at, j, msg_part, total_size, hFile, m_bConnected>>
history == <<fopens, fcloses, failed_at>>
peer    == <<phase, answers>>
vars    == <<wireVars, program, history, peer>>

Final == {"sent", "failed"}
Points == {"check", "header", "lines", "part", "open", "fill", "close", "end", "answer",
           "answered", "quit", "bye"} \cup Final

Init ==
  /\ WireInit
  /\ message \in Messages
  /\ pc = "check" /\ at = 1 /\ j = 0 /\ msg_part = 0 /\ total_size = 0 /\ hFile = 0
  /\ m_bConnected = TRUE
  /\ phase = "command" /\ answers = <<>>
  /\ fopens = 0 /\ fcloses = 0 /\ failed_at = "nowhere"

-----------------------------------------------------------------------------
(* The texts, cut down to what their reader tells apart.  How long the     *)
(* header and the head of a part are is not among it: nothing in the code  *)
(* keeps them within the buffer.                                           *)
Header   == <<72>> \o CRLF
TextLine == <<84, 84>> \o CRLF
Blank    == <<32>> \o CRLF
Part     == <<45, 45, 66>> \o CRLF \o CRLF
Closing  == CRLF \o <<45, 45, 66, 45, 45>> \o CRLF
FinalDot == CRLF \o <<46>> \o CRLF
Quit     == <<81, 85, 73, 84>> \o CRLF

-----------------------------------------------------------------------------
(* send_mail. *)
Ready(p) == pc = p /\ call = "idle" /\ ~thrown

Goto(p) == pc' = p /\ UNCHANGED message

(* Send a block and go on at p. *)
Sends(row, text, p) ==
  send_data(row, text) /\ Goto(p)
  /\ UNCHANGED <<total_size, hFile, m_bConnected, history, peer>>

(* An exception of send_mail itself. *)
Raise == Throw /\ UNCHANGED <<m_ssl, budget, sender, network>>

(* The attachment is opened to see how long it is; it may be missing, and  *)
(* all together may be too long.                                           *)
CheckFile ==
  /\ Ready("check") /\ at <= Len(message.files)
  /\ \/ Raise /\ UNCHANGED <<program, history>>
     \/ LET total == total_size + Len(message.files[at]) IN
        /\ total_size' = total /\ fopens' = fopens + 1
        /\ IF total > MaxTotal
             THEN Raise /\ hFile' = at /\ UNCHANGED <<at, fcloses>>
             ELSE at' = at + 1 /\ fcloses' = fcloses + 1 /\ UNCHANGED <<wireVars, hFile>>
        /\ UNCHANGED <<message, pc, j, msg_part, m_bConnected, failed_at>>
  /\ UNCHANGED peer

EnvelopeAccepted ==
  /\ Ready("check") /\ at > Len(message.files)
  /\ Goto("header") /\ phase' = "data"
  /\ UNCHANGED <<wireVars, at, j, msg_part, total_size, hFile, m_bConnected, history, answers>>

SendHeader ==
  /\ Ready("header") /\ Sends("DATABLOCK", Header, "lines")
  /\ at' = 1 /\ UNCHANGED <<j, msg_part>>

SendLines ==
  /\ Ready("lines")
  /\ IF message.lines = 0 THEN Sends("DATABLOCK", Blank, "part")
     ELSE Sends("DATABLOCK", TextLine, IF at < message.lines THEN "lines" ELSE "part")
  /\ at' = IF at < message.lines THEN at + 1 ELSE 1
  /\ UNCHANGED <<j, msg_part>>

SendPart ==
  /\ Ready("part") /\ at <= Len(message.files)
  /\ Sends("DATABLOCK", Part, "open")
  /\ UNCHANGED <<at, j, msg_part>>

(* The file may have gone since it was checked. *)
OpenFile ==
  /\ Ready("open")
  /\ \/ Raise /\ UNCHANGED <<program, history>>
     \/ /\ Goto("fill") /\ hFile' = at /\ fopens' = fopens + 1
        /\ j' = 0 /\ msg_part' = 0
        /\ UNCHANGED <<wireVars, at, total_size, m_bConnected, fcloses, failed_at>>
  /\ UNCHANGED peer

file == message.files[at]

(* What the j-th fread returns. *)
fread == SubSeq(file, j * LineBytes + 1,
                IF (j + 1) * LineBytes < Len(file) THEN (j + 1) * LineBytes ELSE Len(file))

(* Mutation: no line for what is left behind the last full one. *)
LineCount_FullOnly == Len(file) \div LineBytes

LineCount == Len(file) \div LineBytes + 1

(* Mutation: the buffer is sent when it should be full. *)
FlushAt_Full == BUFFER_SIZE

FlushAt == BUFFER_SIZE \div 2

(* One line of the file: added to the buffer, or the first in it. *)
FillLine ==
  /\ Ready("fill") /\ j < LineCount
  /\ j' = j + 1
  /\ LET block  == (IF msg_part = 0 THEN <<>> ELSE m_send_buffer) \o base64_encode(fread) \o CRLF
         length == msg_part + Len(fread) + 2
     IN IF length >= FlushAt
          THEN msg_part' = 0 /\ Sends("DATABLOCK", block, "fill")
          ELSE /\ msg_part' = length /\ m_send_buffer' = block /\ idx' = 0
               /\ UNCHANGED <<m_ssl, client, budget, write_blocked_on_read, given, reader, network>>
               /\ UNCHANGED <<message, pc, total_size, hFile, m_bConnected, history, peer>>
  /\ UNCHANGED at

FlushRest ==
  /\ Ready("fill") /\ j = LineCount
  /\ IF msg_part > 0
       THEN Sends("DATABLOCK", m_send_buffer, "close")
       ELSE /\ Goto("close")
            /\ UNCHANGED <<wireVars, total_size, hFile, m_bConnected, history, peer>>
  /\ UNCHANGED <<at, j, msg_part>>

(* Mutation: hFile keeps the closed file. *)
CloseFile_KeepsHandle ==
  /\ Ready("close")
  /\ Goto("part") /\ at' = at + 1
  /\ fcloses' = fcloses + 1
  /\ UNCHANGED <<wireVars, j, msg_part, total_size, hFile, m_bConnected, fopens, failed_at, peer>>

CloseFile ==
  /\ Ready("close")
  /\ Goto("part") /\ at' = at + 1
  /\ hFile' = 0 /\ fcloses' = fcloses + 1
  /\ UNCHANGED <<wireVars, j, msg_part, total_size, m_bConnected, fopens, failed_at, peer>>

SendClosing ==
  /\ Ready("part") /\ at > Len(message.files) /\ message.files # <<>>
  /\ Sends("DATABLOCK", Closing, "end")
  /\ UNCHANGED <<at, j, msg_part>>

SendFinalDot ==
  /\ \/ Ready("end")
     \/ Ready("part") /\ message.files = <<>>
  /\ Sends("DATAEND", FinalDot, "answer")
  /\ UNCHANGED <<at, j, msg_part>>

(* receive_response, after the final dot and after QUIT. *)
Awaits(p, row, q) ==
  /\ Ready(p) /\ receive_response(row) /\ Goto(q)
  /\ UNCHANGED <<at, j, msg_part, total_size, hFile, m_bConnected, history, peer>>

AwaitAnswer == Awaits("answer", "DATAEND", "answered") \/ Awaits("quit", "QUIT", "bye")

(* send_mail returns true, or disconnect_remote_server closes the socket   *)
(* and the exception goes on.                                              *)
Leave ==
  /\ \/ Ready("answered") /\ Goto("sent")
     \/ Ready("bye") /\ Goto("failed")
  /\ UNCHANGED <<wireVars, at, j, msg_part, total_size, hFile, m_bConnected, history, peer>>

(* The catch clause of send_mail, up to the QUIT of say_quit. *)
Catch ==
  /\ thrown /\ m_bConnected
  /\ failed_at' = pc /\ hFile' = 0
  /\ fcloses' = IF hFile # 0 THEN fcloses + 1 ELSE fcloses
  /\ m_bConnected' = FALSE
  /\ call' = "send" /\ entry' = "QUIT" /\ thrown' = FALSE
  /\ m_send_buffer' = Quit /\ idx' = 0 /\ write_blocked_on_read' = FALSE
  /\ given' = given \o Quit /\ budget' = Timeout
  /\ Goto("quit")
  /\ UNCHANGED <<m_ssl, reader, network, at, j, msg_part, total_size, fopens, peer>>

(* say_quit itself has thrown: the exception leaves send_mail. *)
QuitFails ==
  /\ thrown /\ ~m_bConnected /\ pc # "failed"
  /\ Goto("failed")
  /\ UNCHANGED <<wireVars, at, j, msg_part, total_size, hFile, m_bConnected, history, peer>>

Program ==
  \/ CheckFile \/ EnvelopeAccepted \/ SendHeader \/ SendLines \/ SendPart
  \/ OpenFile \/ FillLine \/ FlushRest \/ CloseFile \/ SendClosing \/ SendFinalDot
  \/ AwaitAnswer \/ Leave \/ Catch \/ QuitFails

ClientStep == Program \/ (WireStep /\ UNCHANGED <<program, history, peer>>)

-----------------------------------------------------------------------------
(* The peer: one answer for a message, one for a QUIT that is not part of  *)
(* a message, and the end of the connection, with or without a word.  For  *)
(* the client it comes before a block or while it waits: within a block it *)
(* is a send that fails.  Some peers put continuation lines in front of an *)
(* answer that may never come.                                             *)
EndOfData(s) == \E i \in 1 .. Len(s) - 4 : SubSeq(s, i, i + 4) = FinalDot

AnswerMessage ==
  /\ phase = "data" /\ ~closed /\ EndOfData(sent)
  /\ phase' = "taken"
  /\ \E a \in message.answers : PeerWrites(a.text) /\ answers' = Append(answers, a.code)
  /\ UNCHANGED <<closed, program, history>>

AnswerQuit ==
  /\ phase \in {"command", "taken"} /\ ~closed /\ IsSuffix(Quit, sent)
  /\ phase' = "bye"
  /\ PeerWrites(<<50, 50, 49>> \o CRLF) /\ answers' = Append(answers, 221)
  /\ UNCHANGED <<closed, program, history>>

Hangup ==
  /\ ~closed /\ closed' = TRUE /\ (call = "send" => idx = 0)
  /\ \/ PeerWrites(<<>>) /\ UNCHANGED answers
     \/ phase = "data" /\ \E a \in message.goodbyes : PeerWrites(a.text) /\ answers' = Append(answers, a.code)
  /\ UNCHANGED <<phase, program, history>>

Flooded == call = "receive" /\ message.endless /\ ~closed

(* One more of these lines.  receive_response reads on, and receive_data   *)
(* starts with a time-out of its own; that line grows by it is left out.   *)
ContinuationLine ==
  /\ Flooded /\ incoming = <<>> /\ m_receive_buffer = <<>> /\ line = <<>>
  /\ budget' = Timeout /\ read_blocked_on_write' = FALSE
  /\ UNCHANGED <<m_ssl, client, m_receive_buffer, more, line, codes, sender, network>>
  /\ UNCHANGED <<program, history, peer>>

Peer == AnswerMessage \/ AnswerQuit \/ Hangup \/ ContinuationLine

Over == pc \in Final \/ call = "killed"

Next ==
  \/ ~Over /\ (ClientStep \/ Peer)
  \/ Over /\ UNCHANGED vars

(* The client goes on by itself, except while it asks SSL_write or         *)
(* SSL_read over and over, where only the peer or an error gets it any     *)
(* further, and while a peer that does not stop keeps it reading.          *)
Spec == Init /\ [][Next]_vars /\ WF_vars(~Over /\ ~Spinning /\ ~Flooded /\ ClientStep)

-----------------------------------------------------------------------------
(* The values of the variables. *)
TypeOK ==
  /\ WireTypeOK
  /\ message \in Messages /\ pc \in Points
  /\ {at, j, msg_part, total_size, hFile, fopens, fcloses} \subseteq Nat
  /\ m_bConnected \in BOOLEAN
  /\ phase \in {"command", "data", "taken", "bye"}
  /\ failed_at \in Points \cup {"nowhere"}
  /\ answers \in Seq(0 .. 999)

(* Until something fails, the peer has got what the blocks passed to       *)
(* send_data say, in order, without gap or repetition, however the socket  *)
(* cuts them, and between two blocks it has got all of them.               *)
NothingLostOrDoubled ==
  failed_at = "nowhere" =>
    /\ IsPrefix(sent, given)
    /\ call = "idle" /\ ~thrown /\ ~closed => sent = given

(* While it is filled with lines of a file m_send_buffer has room for      *)
(* them and the terminator, although msg_part counts bytes of the file and *)
(* the buffer holds base64; and so has m_receive_buffer for what a TLS     *)
(* session brings.  The code keeps no such bound for the header and the    *)
(* head of a part, put together with strcat, nor for recv(), which may     *)
(* leave no room for the terminator (see Receive).                         *)
BuffersFit ==
  /\ pc \in {"fill", "close"} /\ j > 0 => Len(m_send_buffer) < BUFFER_SIZE
  /\ m_ssl => Len(m_receive_buffer) < BUFFER_SIZE

(* The files a mail program makes of a text: the base64 lines behind the   *)
(* head of each part, decoded line by line.                                *)
LinesOf(s) ==
  LET end(k) == IF k = 0 THEN -1 ELSE Nth(Ends(s), k)
  IN <<>> \o [k \in 1 .. Cardinality(Ends(s)) |-> SubSeq(s, end(k - 1) + 2, end(k) - 1)]
Heads(lines)  == {k \in 1 .. Len(lines) : lines[k] = <<45, 45, 66>>}
Dashes(lines) == {k \in 1 .. Len(lines) : lines[k] # <<>> /\ lines[k][1] = 45}
FileAt(lines, k) ==
  FlattenSeq([n \in 1 .. NextOf(Dashes(lines), k, Len(lines) + 1) - k - 1 |-> base64_decode(lines[k + n])])
FilesOf(lines) == [f \in 1 .. Cardinality(Heads(lines)) |-> FileAt(lines, Nth(Heads(lines), f))]

(* The peer sees the end of a message only if every attachment is in it    *)
(* byte for byte, whatever failed on the way and whatever QUIT was sent    *)
(* behind it; and then only the wait for the answer can still go wrong.    *)
WholeOrNothing ==
  EndOfData(sent) =>
    /\ FilesOf(LinesOf(sent)) = message.files
    /\ failed_at \in {"nowhere", "answer", "answered"}

(* The code receive_response finds is the one the peer has answered with,  *)
(* however the reply is cut and whatever digits its text holds (behind a   *)
(* failure QUIT may read what is left of the answer to the message), and   *)
(* send_mail returns true only for a message that was taken.               *)
ReplyCodesRight ==
  /\ failed_at = "nowhere" => IsPrefix(codes, answers)
  /\ pc = "sent" => phase = "taken" /\ answers[1] = valid_reply_code["DATAEND"]

(* Every file that was opened is closed once, before QUIT at the latest.   *)
FilesClosedOnce ==
  /\ fopens = fcloses + (IF hFile = 0 THEN 0 ELSE 1)
  /\ pc \in {"quit", "bye"} \cup Final => hFile = 0

(* Every call ends, in success, an exception or a signal, unless the       *)
(* client is kept by what no time-out interrupts: a handshake in which TLS *)
(* wants to read what does not come while send_data_ssl writes, or to      *)
(* write what does not go while there is something for receive_data_SSL to *)
(* read; or a reply whose continuation lines do not end.                   *)
EveryCallEnds == <>Over \/ <>[]Spinning \/ <>[]Flooded
===============================================================================
