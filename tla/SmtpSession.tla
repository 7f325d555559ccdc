------------------------------ MODULE SmtpSession ------------------------------
(***************************************************************************)
(* One SmtpServer object (core/smtp/smtp_server.cpp) and its relay.        *)
(*                                                                         *)
(* The object is a sequential program: pc and step say where it is.        *)
(*   "user"     no call is in progress, the owner decides what comes next  *)
(*   "connect"  in connect_remote_server, before the socket is connected   *)
(*   "tls"      in open_ssl_connect                                        *)
(*   "send"     about to compose and send the command or block of step     *)
(*   "recv"     in receive_response for the command of step                *)
(*   "done", "terminated", "killed"  destroyed; std::terminate because the *)
(*              destructor threw; killed by SIGPIPE                        *)
(* caller is the public operation in progress.  A throw and the catch      *)
(* clause that handles it are one step.  A send that fails is taken to     *)
(* have delivered nothing.                                                 *)
(***************************************************************************)
EXTENDS MailRelay

CONSTANTS
  Mails,      \* the messages the owner may hand to the object
  MaxSends,   \* how many times the owner calls send_mail (1 in main.cpp)
  MaxCalls,   \* how many messages and connections there are together
  UserCalls,  \* the other public calls the owner makes; "retry" is send_mail
              \* again after a call that threw
  Immediate   \* whether a non-blocking connect() may complete at once

ASSUME SessionAssumption ==
  /\ Mails \subseteq Mail
  /\ MaxSends \in Nat \ {0} /\ MaxCalls \in Nat
  /\ UserCalls \subseteq {"connect", "disconnect", "retry"}
  /\ Immediate \in BOOLEAN

VARIABLES
  pc, caller, step,
  index,              \* the number of the recipient or block of step
  opened,             \* connections opened so far
  m_socket,           \* 0 is INVALID_SOCKET
  fds,                \* the connections whose descriptor is open
  m_bConnected,
  m_ssl,              \* the connection m_ssl was made for, 0 if it is null
  m_receive_buffer,   \* the last reply received
  mails,              \* history: the message of each send_mail so far
  results,            \* history: how each finished send_mail ended
  quit_failed,        \* history: say_quit threw and left the socket behind
  resumed,            \* history: send_mail went on with such a socket
  clear,              \* history: commands sent outside TLS
  mixed               \* history: a reply to one command passed for another's

control == <<pc, caller, step, index>>
socket  == <<opened, m_socket, fds, m_bConnected, m_ssl>>
history == <<mails, results, quit_failed, resumed, clear, mixed>>
vars    == <<relayVars, control, socket, m_receive_buffer, history>>

Callers == {"none", "send_mail", "connect", "disconnect", "destructor"}
Final   == {"done", "terminated", "killed"}
Result  == [ok: BOOLEAN, at: Steps \cup {"CONNECT"}, code: ReplyCodes]

mail == mails[Len(mails)]

Init ==
  /\ RelayInit
  /\ pc = "user" /\ caller = "none" /\ step = "QUIT" /\ index = 0
  /\ opened = 0 /\ m_socket = 0 /\ fds = {} /\ m_bConnected = FALSE /\ m_ssl = 0
  /\ m_receive_buffer = NoReply
  /\ mails = <<>> /\ results = <<>> /\ quit_failed = FALSE
  /\ resumed = FALSE /\ clear = {} /\ mixed = FALSE

-----------------------------------------------------------------------------
(* Where control goes. *)
Goto(p, s, i) == pc' = p /\ step' = s /\ index' = i /\ UNCHANGED caller

(* The public call in progress is over. *)
Return == pc' = "user" /\ caller' = "none" /\ UNCHANGED <<step, index>>

(* connect_remote_server returns true: to its caller, or on to MAIL FROM. *)
Connected ==
  IF caller = "send_mail" THEN Goto("send", "MAILFROM", 0) ELSE Return

(* Mutation: the flag is cleared only once QUIT has been answered. *)
BeginQuit_StillConnected ==
  UNCHANGED m_bConnected /\ Goto("send", "QUIT", 0) /\ UNCHANGED <<m_socket, fds>>

(* say_quit, entered by disconnect_remote_server. *)
BeginQuit == m_bConnected' = FALSE /\ Goto("send", "QUIT", 0) /\ UNCHANGED <<m_socket, fds>>

(* Mutation: the descriptor is forgotten, not closed. *)
CloseSocket_NotClosed == m_socket' = 0 /\ UNCHANGED fds

(* The rest of disconnect_remote_server. *)
CloseSocket == m_socket' = 0 /\ fds' = fds \ {m_socket}

(***************************************************************************)
(* A throw while step is in progress, with buf in m_receive_buffer.        *)
(* Outside say_quit the catch clause of connect_remote_server or of        *)
(* send_mail disconnects and rethrows; the former skips QUIT after a 530.  *)
(* A throw of say_quit itself leaves disconnect_remote_server before the   *)
(* socket is closed, and out of the destructor it is std::terminate.       *)
(***************************************************************************)
Throw(buf) ==
  /\ m_receive_buffer' = buf
  /\ UNCHANGED <<opened, mails, resumed, mixed>>
  /\ \/ /\ step = "QUIT"
        /\ IF caller = "destructor"
             THEN pc' = "terminated" /\ fds' = {} /\ UNCHANGED <<caller, step, index, quit_failed>>
             ELSE Return /\ quit_failed' = TRUE /\ UNCHANGED fds
        /\ UNCHANGED <<m_socket, m_bConnected, results>>
     \/ /\ step # "QUIT"
        /\ results' = IF caller = "send_mail"
                        THEN Append(results, [ok |-> FALSE, at |-> step, code |-> buf.code])
                        ELSE results
        /\ UNCHANGED quit_failed
        /\ IF m_bConnected /\ ~(step \in ConnectSteps /\ buf.code = 530)
             THEN BeginQuit
             ELSE m_bConnected' = FALSE /\ CloseSocket /\ Return

-----------------------------------------------------------------------------
(* The owner of the object. *)

(* send_mail, up to the connection test. *)
CallSendMail ==
  /\ pc = "user" /\ Len(mails) < MaxSends
  /\ Len(mails) + opened + (IF m_socket = 0 THEN 2 ELSE 1) <= MaxCalls
  /\ "retry" \in UserCalls \/ (~quit_failed /\ \A n \in 1 .. Len(results) : results[n].ok)
  /\ \E m \in Mails : mails' = Append(mails, m)
  /\ caller' = "send_mail"
  /\ IF m_socket = 0 THEN pc' = "connect" /\ UNCHANGED <<step, index>>
                     ELSE pc' = "send" /\ step' = "MAILFROM" /\ index' = 0
  /\ resumed' = (resumed \/ (m_socket # 0 /\ ~m_bConnected))
  /\ UNCHANGED <<relayVars, socket, m_receive_buffer, results, quit_failed, clear, mixed>>

(* connect_remote_server, called by the owner of an unconnected object. *)
CallConnect ==
  /\ pc = "user" /\ "connect" \in UserCalls
  /\ m_socket = 0 /\ opened < MaxConns /\ Len(mails) + opened < MaxCalls
  /\ pc' = "connect" /\ caller' = "connect"
  /\ UNCHANGED <<relayVars, step, index, socket, m_receive_buffer, history>>

(* disconnect_remote_server, called by the owner. *)
CallDisconnect ==
  /\ pc = "user" /\ "disconnect" \in UserCalls /\ m_socket # 0
  /\ IF m_bConnected
       THEN /\ m_bConnected' = FALSE /\ UNCHANGED <<m_socket, fds>>
            /\ pc' = "send" /\ step' = "QUIT" /\ index' = 0 /\ caller' = "disconnect"
       ELSE CloseSocket /\ UNCHANGED <<control, m_bConnected>>
  /\ UNCHANGED <<relayVars, opened, m_ssl, m_receive_buffer, history>>

(* ~SmtpServer: QUIT if connected; otherwise the socket is left as it is. *)
Destroy ==
  /\ pc = "user"
  /\ IF m_bConnected
       THEN /\ m_bConnected' = FALSE /\ UNCHANGED m_ssl
            /\ pc' = "send" /\ step' = "QUIT" /\ index' = 0 /\ caller' = "destructor"
       ELSE /\ pc' = "done" /\ m_ssl' = 0 /\ UNCHANGED <<caller, step, index, m_bConnected>>
  /\ UNCHANGED <<relayVars, opened, m_socket, fds, m_receive_buffer, history>>

-----------------------------------------------------------------------------
(* connect_remote_server. *)

(* socket, name lookup or connect fails, or the connect times out.  Behind *)
(* the close in front of the throw, the catch clause closes the number a   *)
(* second time: nothing has got it in between, so this is an EBADF nobody  *)
(* looks at, and the two are one here.                                     *)
ConnectFails ==
  /\ pc = "connect"
  /\ results' = IF caller = "send_mail"
                  THEN Append(results, [ok |-> FALSE, at |-> "CONNECT", code |-> 0])
                  ELSE results
  /\ Return
  /\ UNCHANGED <<relayVars, socket, m_receive_buffer, mails, quit_failed,
                 resumed, clear, mixed>>

(* A connection is made.  When connect() completes at once the function   *)
(* returns true there, before the greeting, EHLO, TLS and AUTH.           *)
ConnectSucceeds ==
  LET c == opened + 1 IN
  /\ pc = "connect" /\ c \in Conns
  /\ opened' = c /\ m_socket' = c /\ fds' = fds \cup {c}
  /\ phase' = [phase EXCEPT ![c] = IF conf.implicit THEN "sslwait" ELSE "new"]
  /\ \/ Immediate /\ Connected /\ UNCHANGED m_ssl
     \/ conf.security = "USE_SSL" /\ m_ssl' = c /\ Goto("tls", "INIT", 0)
     \/ conf.security # "USE_SSL" /\ UNCHANGED m_ssl /\ Goto("recv", "INIT", 0)
  /\ UNCHANGED <<conf, tls, transaction, c2s, s2c, accepted, m_bConnected,
                 m_receive_buffer, history>>

(* The TLS handshake of the session on this connection completes: in      *)
(* open_ssl_connect, or, when that gave up, inside a later SSL_write.     *)
Handshake ==
  /\ pc \in {"tls", "send"}
  /\ m_ssl = m_socket /\ m_ssl # 0
  /\ phase[m_ssl] \in {"sslwait", "starttls"} /\ c2s[m_ssl] = <<>>
  /\ tls' = [tls EXCEPT ![m_ssl] = TRUE]
  /\ phase' = [phase EXCEPT ![m_ssl] = IF @ = "sslwait" THEN "new" ELSE "cmd"]
  /\ IF pc = "send" THEN UNCHANGED control
     ELSE IF conf.security = "USE_SSL" THEN Goto("recv", "INIT", 0)
     ELSE Goto("send", "EHLO_TLS", 0)
  /\ UNCHANGED <<conf, transaction, c2s, s2c, accepted, socket, m_receive_buffer, history>>

(* open_ssl_connect throws; m_ssl stays set. *)
HandshakeFails ==
  /\ pc = "tls"
  /\ Throw(m_receive_buffer)
  /\ UNCHANGED <<relayVars, m_ssl, clear>>

-----------------------------------------------------------------------------
(* send_data and the checks on the way to it. *)

(* What connect_remote_server and send_mail check before they send. *)
Refuses(s) ==
  \/ s = "STARTTLS" /\ "STARTTLS" \notin m_receive_buffer.kw
  \/ s \in AuthSteps /\ (~conf.login \/ ~conf.password \/ s = "AUTH")
  \/ s = "MAILFROM" /\ ~mail.from
  \/ s = "RCPTTO" /\ mail.to = 0

(* What may be wrong outside the program: an attachment that is missing or *)
(* too large, at first or when it is opened again to be sent; the clock.   *)
Surprises(s) ==
  \/ s = "MAILFROM" /\ mail.files > 0
  \/ s = "DATABLOCK" /\ Blocks(mail)[index] \in {"header", "content"}

ThrowBeforeSend ==
  /\ pc = "send" /\ (Refuses(step) \/ Surprises(step))
  /\ Throw(m_receive_buffer)
  /\ UNCHANGED <<relayVars, m_ssl, clear>>

(* The bytes on the wire: a text line that is a single dot is sent as it   *)
(* is, and is a line of its own unless the one before it was cut.          *)
Wire(s) ==
  IF s = "DATABLOCK" /\ Blocks(mail)[index] = "dot" /\ Blocks(mail)[index - 1] # "long"
    THEN "DOT" ELSE s

(* send_mail after a block: the next one, or the final dot. *)
AfterBlock ==
  IF index < Len(Blocks(mail)) THEN Goto("send", "DATABLOCK", index + 1)
                               ELSE Goto("send", "DATAEND", 0)

(* A command or block is sent: through m_ssl if there is one.  The bytes  *)
(* may well go to a connection the relay has already closed.              *)
Send ==
  /\ pc = "send" /\ ~Refuses(step)
  /\ m_ssl # 0 => tls[m_ssl]
  /\ c2s' = [c2s EXCEPT ![m_socket] =
               Append(@, [verb |-> Wire(step), n |-> Len(mails), i |-> index, via |-> m_ssl])]
  /\ clear' = IF m_ssl = 0 THEN clear \cup {step} ELSE clear
  /\ IF step = "DATABLOCK" THEN AfterBlock ELSE Goto("recv", step, index)
  /\ UNCHANGED <<conf, phase, tls, transaction, s2c, accepted, socket, m_receive_buffer,
                 mails, results, quit_failed, resumed, mixed>>

(* select or send fails or times out. *)
SendFails ==
  /\ pc = "send" /\ ~Refuses(step)
  /\ Throw(m_receive_buffer)
  /\ UNCHANGED <<relayVars, m_ssl, clear>>

(* send() to a connection the peer has closed raises SIGPIPE. *)
Killed ==
  /\ pc = "send" /\ ~Refuses(step)
  /\ phase[m_socket] = "closed"
  /\ pc' = "killed" /\ fds' = {}
  /\ UNCHANGED <<relayVars, caller, step, index, opened, m_socket, m_bConnected, m_ssl,
                 m_receive_buffer, history>>

-----------------------------------------------------------------------------
(* receive_response: the first complete reply counts, whatever else came  *)
(* with it is dropped.                                                    *)
reply == Head(s2c[m_socket])

(* Mutations: the reply code is not looked at; or not for a recipient. *)
Expected_AnyReply(s) == reply.via = m_ssl
Expected_AnyRecipient(s) ==
  /\ reply.via = m_ssl
  /\ s = "RCPTTO" \/ reply.code = valid_reply_code[find_command_entry(s)]

Expected(s) == reply.via = m_ssl /\ reply.code = valid_reply_code[find_command_entry(s)]

TakeReplies ==
  /\ pc = "recv" /\ s2c[m_socket] # <<>>
  /\ \E k \in 1 .. Len(s2c[m_socket]) :
       s2c' = [s2c EXCEPT ![m_socket] = SubSeq(@, k + 1, Len(@))]
  /\ UNCHANGED <<conf, phase, tls, transaction, c2s, accepted>>

Accepts(s) ==
  /\ step = s
  /\ TakeReplies
  /\ Expected(s)
  /\ m_receive_buffer' = reply
  /\ mixed' = (mixed \/ reply.for # s)
  /\ UNCHANGED <<opened, mails, quit_failed, resumed, clear>>

(* The reply is not the expected one, or is not text of this TLS session. *)
ReplyRefused ==
  /\ TakeReplies
  /\ ~Expected(step)
  /\ Throw(IF reply.via = m_ssl THEN reply ELSE m_receive_buffer)
  /\ UNCHANGED <<m_ssl, clear>>

(* Mutation: no receive time-out. *)
ReceiveFails_NoTimeout ==
  /\ pc = "recv"
  /\ phase[m_socket] = "closed" /\ Throw(NoReply)
  /\ UNCHANGED <<relayVars, m_ssl, clear>>

(* Time-out, an interrupted select, a reset, or the end of the stream: the *)
(* last one empties m_receive_buffer, the others leave the previous reply. *)
ReceiveFails ==
  /\ pc = "recv"
  /\ \/ Throw(m_receive_buffer)
     \/ phase[m_socket] = "closed" /\ Throw(NoReply)
  /\ UNCHANGED <<relayVars, m_ssl, clear>>

Greeted ==
  /\ Accepts("INIT") /\ Goto("send", "EHLO", 0)
  /\ UNCHANGED <<m_socket, fds, m_bConnected, m_ssl, results>>

(* After the last EHLO: authenticate if both sides want it. *)
Authenticate ==
  IF "AUTH" \in reply.kw /\ conf.authenticate
    THEN Goto("send", AuthStep(reply.kw), 0)
    ELSE Connected

(* Mutations: go on without TLS when the relay does not offer it; or when *)
(* the security type is compared with the wrong enumerator.               *)
Hello_Opportunistic ==
  /\ \/ /\ Accepts("EHLO")
        /\ IF conf.security = "USE_TLS" /\ "STARTTLS" \in reply.kw
             THEN Goto("send", "STARTTLS", 0) ELSE Authenticate
     \/ Accepts("EHLO_TLS") /\ Authenticate
  /\ m_bConnected' = TRUE
  /\ UNCHANGED <<m_socket, fds, m_ssl, results>>
Hello_NoStartTls ==
  /\ \E s \in {"EHLO", "EHLO_TLS"} : Accepts(s) /\ Authenticate
  /\ m_bConnected' = TRUE
  /\ UNCHANGED <<m_socket, fds, m_ssl, results>>

Hello ==
  /\ \/ Accepts("EHLO") /\ IF conf.security = "USE_TLS" THEN Goto("send", "STARTTLS", 0)
                                                        ELSE Authenticate
     \/ Accepts("EHLO_TLS") /\ Authenticate
  /\ m_bConnected' = TRUE
  /\ UNCHANGED <<m_socket, fds, m_ssl, results>>

(* Mutation: the TLS session is made for another descriptor. *)
StartTls_NextSocket ==
  /\ Accepts("STARTTLS") /\ Goto("tls", "STARTTLS", 0)
  /\ m_ssl' = m_socket + 1
  /\ UNCHANGED <<m_socket, fds, m_bConnected, results>>

StartTls ==
  /\ Accepts("STARTTLS") /\ Goto("tls", "STARTTLS", 0)
  /\ m_ssl' = m_socket
  /\ UNCHANGED <<m_socket, fds, m_bConnected, results>>

Authenticated ==
  /\ \/ Accepts("AUTHLOGIN") /\ Goto("send", "USER", 0)
     \/ Accepts("USER") /\ Goto("send", "PASSWORD", 0)
     \/ Accepts("AUTHCRAMMD5") /\ Goto("send", "CRAMRESPONSE", 0)
     \/ \E s \in {"PASSWORD", "AUTHPLAIN", "CRAMRESPONSE"} : Accepts(s) /\ Connected
  /\ UNCHANGED <<m_socket, fds, m_bConnected, m_ssl, results>>

EnvelopeAccepted ==
  /\ \/ Accepts("MAILFROM") /\ Goto("send", "RCPTTO", 1)
     \/ Accepts("RCPTTO") /\ IF index < Recipients(mail) THEN Goto("send", "RCPTTO", index + 1)
                                                         ELSE Goto("send", "DATA", 0)
     \/ Accepts("DATA") /\ Goto("send", "DATABLOCK", 1)
  /\ UNCHANGED <<m_socket, fds, m_bConnected, m_ssl, results>>

(* Mutation: the message is sent again although it was accepted. *)
MailAccepted_Again ==
  /\ Accepts("DATAEND") /\ Goto("send", "MAILFROM", 0)
  /\ UNCHANGED <<m_socket, fds, m_bConnected, m_ssl, results>>

(* send_mail returns true; the connection stays open. *)
MailAccepted ==
  /\ Accepts("DATAEND") /\ Return
  /\ results' = Append(results, [ok |-> TRUE, at |-> "DATAEND", code |-> reply.code])
  /\ UNCHANGED <<m_socket, fds, m_bConnected, m_ssl>>

(* say_quit returns and disconnect_remote_server goes on; the destructor   *)
(* then frees the TLS session.                                             *)
QuitAccepted ==
  /\ Accepts("QUIT") /\ CloseSocket
  /\ IF caller = "destructor"
       THEN pc' = "done" /\ m_ssl' = 0 /\ UNCHANGED <<caller, step, index>>
       ELSE Return /\ UNCHANGED m_ssl
  /\ UNCHANGED <<m_bConnected, results>>

-----------------------------------------------------------------------------
OwnerStep == CallSendMail \/ CallConnect \/ CallDisconnect \/ Destroy

ClientStep ==
  \/ OwnerStep
  \/ ConnectFails \/ ConnectSucceeds \/ Handshake \/ HandshakeFails
  \/ ThrowBeforeSend \/ Send \/ SendFails \/ Killed
  \/ ReplyRefused \/ ReceiveFails
  \/ Greeted \/ Hello \/ StartTls \/ Authenticated
  \/ EnvelopeAccepted \/ MailAccepted \/ QuitAccepted

Relay == RelayStep /\ UNCHANGED <<control, socket, m_receive_buffer, history>>

(* The object is gone: nothing is left to do for the client. *)
Gone == pc \in Final /\ UNCHANGED vars

Next == ClientStep \/ Relay \/ Gone

Spec == Init /\ [][Next]_vars

(* send_data_ssl keeps the socket in fdwrite when SSL_write wants to read: *)
(* there is room, so select returns at once, and the time-out never comes. *)
(* So it is while the handshake of m_ssl is not finished and there is      *)
(* nothing to read, and while the relay does not finish one of its own.    *)
Spinning ==
  /\ pc = "send" /\ m_ssl # 0 /\ phase[m_socket] # "closed"
  /\ conf.endless \/ (~tls[m_ssl] /\ s2c[m_socket] = <<>>)

(* receive_data begins its time-out anew with every line of a reply, and   *)
(* receive_data_SSL has the like of Spinning.                              *)
Flooded == pc = "recv" /\ conf.endless /\ phase[m_socket] # "closed"

Held == Spinning \/ Flooded

(* All other waits have a time-out, and none is begun again on the way.    *)
FairSpec == Spec /\ WF_vars(~Held /\ ClientStep)

-----------------------------------------------------------------------------
(* The values of the variables. *)
ClientTypeOK ==
  /\ pc \in {"user", "connect", "tls", "send", "recv"} \cup Final
  /\ caller \in Callers
  /\ step \in Steps
  /\ index \in Nat
  /\ opened \in 0 .. MaxConns
  /\ m_socket \in 0 .. MaxConns
  /\ fds \subseteq Conns
  /\ m_bConnected \in BOOLEAN
  /\ m_ssl \in 0 .. MaxConns
  /\ m_receive_buffer \in Reply
  /\ mails \in Seq(Mails)
  /\ results \in Seq(Result)
  /\ quit_failed \in BOOLEAN
  /\ resumed \in BOOLEAN
  /\ clear \subseteq Steps
  /\ mixed \in BOOLEAN

TypeOK == RelayTypeOK /\ ClientTypeOK

(* An accepted message a is the message of the n-th send_mail, whole: every *)
(* To, Cc and Bcc recipient once and in order, and every block.            *)
Whole(a, n) ==
  /\ Len(a.rcpts) = Recipients(mails[n])
  /\ \A k \in 1 .. Len(a.rcpts) :
       a.rcpts[k].verb = "RCPTTO" /\ a.rcpts[k].n = n /\ a.rcpts[k].i = k
  /\ Len(a.body) = Len(Blocks(mails[n]))
  /\ \A k \in 1 .. Len(a.body) :
       a.body[k].verb = "DATABLOCK" /\ a.body[k].n = n /\ a.body[k].i = k

Accepted(n) == \E j \in 1 .. Len(accepted) : Whole(accepted[j], n)

(* When send_mail returns true (and main.cpp counts a success), the relay *)
(* has accepted that very message, complete, for all of its recipients.   *)
SuccessMeansAccepted ==
  ~resumed => \A n \in 1 .. Len(results) : results[n].ok => Accepted(n)

(* Whatever fails half-way (a refused recipient, a file that vanishes in  *)
(* the middle of DATA, the QUIT that is then read as body), the relay     *)
(* never accepts part of a message or a mixture of two, nor one twice.    *)
OnlyWholeMailsOnce ==
  ~resumed =>
    /\ \A j \in 1 .. Len(accepted) : \E n \in 1 .. Len(mails) : Whole(accepted[j], n)
    /\ \A j, k \in 1 .. Len(accepted) :
         j # k => accepted[j].body[1].n # accepted[k].body[1].n

(* With USE_TLS or USE_SSL no credential, recipient or text leaves the    *)
(* program outside TLS, unless send_mail goes on with a connection that a *)
(* failed QUIT left behind, whatever state its TLS session was in.        *)
Secrets == {"AUTHLOGIN", "USER", "PASSWORD", "AUTHPLAIN", "AUTHCRAMMD5", "CRAMRESPONSE",
            "DIGEST", "RCPTTO", "DATA", "DATABLOCK", "DATAEND"}
SecretsOnlyInTls ==
  conf.security # "NO_SECURITY" /\ ~resumed => clear \cap Secrets = {}

(* No reply passes for the answer to a command it does not answer, however *)
(* late it comes and whatever comes with it, with the same exception.      *)
RepliesMatch == mixed => resumed

(* The object is done with every descriptor it opened: only a QUIT that    *)
(* failed leaves one open, and never more than one.                        *)
DescriptorsClosed ==
  /\ pc \in {"user", "done"} /\ ~m_bConnected /\ fds # {} => quit_failed
  /\ fds \subseteq {m_socket}

(* The destructor brings the program down only on a connection that had    *)
(* just taken a message: a mail that failed cannot do it.                   *)
TerminatesOnlyAfterSuccess ==
  pc = "terminated" => results # <<>> /\ results[Len(results)].ok

(* Every call of the public interface comes to an end, and so does the    *)
(* object, whatever the relay does or leaves undone, with the exceptions   *)
(* of Held: the relay keeps the connection open and is silent in the       *)
(* handshake of m_ssl, which ends open_ssl_connect by a time-out and then  *)
(* holds the QUIT of the catch clause for ever; or it is an endless one.   *)
ComesToAnEnd == <>(pc \in Final) \/ <>[]Held

-----------------------------------------------------------------------------
(* What the documentation says of the program, and the program does not do. *)

(* smtp_server.cpp:199: "connecting to remote host if not already           *)
(* connected".  MAIL FROM is only ever sent on a connection that has said   *)
(* EHLO and has not been told QUIT.                                         *)
MailOnlyWhenConnected == pc = "send" /\ step = "MAILFROM" => m_bConnected

(* smtp_common.cpp:18: the row of AUTH DIGEST-MD5 takes a 334 challenge for *)
(* success.  The client never gives up on such a challenge.                 *)
DigestChallengeAccepted ==
  \A n \in 1 .. Len(results) : ~(results[n].at = "DIGEST" /\ results[n].code = 334)

(* smtp_common.cpp:25: "there are no replies when sending data blocks".     *)
NoReplyWhileSendingDataBlocks ==
  \A c \in Conns : \A k \in 1 .. Len(s2c[c]) : s2c[c][k].for # "DATABLOCK"

-----------------------------------------------------------------------------
(* The object keeps the promise of MailDelivery: a message counts as        *)
(* delivered once the relay has accepted it whole, and one reported as      *)
(* failed is delivered only when the answer to the final dot was missed.    *)
Delivery == INSTANCE MailDelivery WITH
  submitted <- Len(mails),
  delivered <- {n \in 1 .. Len(mails) : Accepted(n)},
  reports   <- [n \in 1 .. Len(results) |->
                  IF results[n].ok THEN "sent"
                  ELSE IF results[n].at = "DATAEND" THEN "doubt" ELSE "refused"]

DeliveryPromise == Delivery!Spec
===============================================================================
