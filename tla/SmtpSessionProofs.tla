--------------------------- MODULE SmtpSessionProofs ---------------------------
(***************************************************************************)
(* Proofs about SmtpSession for every set of settings and messages, every  *)
(* number of calls and connections: first of the object by itself (its     *)
(* socket, its descriptors, TLS), then that the object and its relay stay  *)
(* in step, that the relay only accepts whole messages, each once, and     *)
(* that the object keeps the promise of MailDelivery.  The second part is  *)
(* for messages of which no line is sent as one that is a single dot       *)
(* (NoDots): send_mail does not double such a dot, and session_dotline     *)
(* shows what becomes of the message.                                      *)
(***************************************************************************)
EXTENDS SmtpSession, TLAPS, SequenceTheorems

(* A call that may throw or talk to the relay has a socket, and so has an  *)
(* object that believes it is connected; connect_remote_server starts      *)
(* without one; and who says QUIT no longer believes to be connected.      *)
SocketOK ==
  /\ pc \in {"tls", "send", "recv"} => m_socket # 0
  /\ pc = "connect" => m_socket = 0
  /\ m_bConnected => m_socket # 0
  /\ pc \in {"tls", "send", "recv"} /\ step = "QUIT" => ~m_bConnected

-----------------------------------------------------------------------------
(* Lemmas about sequences and about the relay's part. *)

(* What is left of a sequence behind its k-th element is a sequence. *)
LEMMA RestOfSeq ==
  ASSUME NEW S, NEW s \in Seq(S), NEW k \in 1 .. Len(s)
  PROVE  SubSeq(s, k + 1, Len(s)) \in Seq(S)
  BY SubSeqProperties, LenProperties, Z3

(* An answer, whatever its code and keywords, keeps the replies well typed. *)
Answers(c) ==
  \E code \in ReplyCodes, kw \in SUBSET Keywords, s \in Steps \cup {"NONE"} :
    Answer(c, code, kw, s)

LEMMA AnswerType ==
  ASSUME RelayTypeOK, RelayAssumption, NEW c \in Conns, Answers(c)
  PROVE  s2c' \in [Conns -> Seq(Reply)]
<1>1. PICK code \in ReplyCodes, kw \in SUBSET Keywords, s \in Steps \cup {"NONE"} :
           Answer(c, code, kw, s)
  BY DEF Answers
<1>2. [code |-> code, kw |-> kw, for |-> s, via |-> Channel(c)] \in Reply
  BY DEF Channel, Conns, RelayAssumption, Reply
<1> QED
  BY <1>1, <1>2, AppendProperties DEF Answer, RelayTypeOK

(* The code the relay accepts a command with is one of the known codes. *)
LEMMA PositiveCodeType ==
  ASSUME NEW v PROVE PositiveCode(v) \in ReplyCodes
  BY DEF PositiveCode, ReplyCodes

(* Reading the next command leaves a well-typed queue, and the command is  *)
(* a message.                                                              *)
LEMMA ReadsType ==
  ASSUME RelayTypeOK, NEW c \in Conns, NEW p, Reads(c, p)
  PROVE  /\ Head(c2s[c]) \in Message
         /\ c2s' \in [Conns -> Seq(Message)]
<1>1. c2s[c] \in Seq(Message) /\ c2s[c] # <<>>
  BY DEF Reads, RelayTypeOK
<1>2. Head(c2s[c]) \in Message /\ Tail(c2s[c]) \in Seq(Message)
  BY <1>1, HeadTailProperties
<1> QED
  BY <1>2 DEF Reads, RelayTypeOK

(* No step of the relay leaves the types. *)
LEMMA RelayStepType ==
  ASSUME RelayTypeOK, RelayAssumption, RelayStep
  PROVE  RelayTypeOK'
<1>1. PICK c \in Conns : \/ Greet(c) \/ AcceptCommand(c) \/ RefuseCommand(c)
                         \/ ReadLine(c) \/ ReadDot(c) \/ ReadGarbage(c) \/ Hangup(c)
  BY DEF RelayStep
<1>2. {} \in SUBSET Keywords /\ {220, 250, 421, 500} \subseteq ReplyCodes
      /\ RejectCodes \subseteq ReplyCodes
  BY RelayAssumption DEF ReplyCodes, Refusals
<1>3. {"INIT", "DATABLOCK", "DATAEND", "NONE"} \subseteq Steps \cup {"NONE"}
  BY DEF Steps, ConnectSteps, MailSteps
<1>4. <<>> \in Seq(Message)
  BY EmptySeq
<1>5. CASE Greet(c)
  <2>1. Answers(c)
    BY <1>5, <1>2, <1>3 DEF Greet, Answers
  <2>2. s2c' \in [Conns -> Seq(Reply)]
    BY <2>1, AnswerType
  <2>a. \/ phase' = [phase EXCEPT ![c] = "cmd"]
        \/ phase' = [phase EXCEPT ![c] = "closed"]
    BY <1>5, Zenon DEF Greet
  <2>3. phase' \in [Conns -> Phases]
    <3>1. phase \in [Conns -> Phases] /\ "cmd" \in Phases /\ "closed" \in Phases
      BY DEF RelayTypeOK, Phases
    <3> QED
      BY <2>a, <3>1
  <2> QED
    BY <2>2, <2>3, <1>5 DEF Greet, RelayTypeOK, transaction
<1>6. CASE AcceptCommand(c)
  <2> DEFINE m == Head(c2s[c])
  <2>1. m \in Message /\ c2s' \in [Conns -> Seq(Message)]
    BY <1>6, ReadsType DEF AcceptCommand
  <2>a. PositiveCode("DOT") = 0
    BY DEF PositiveCode
  <2>b. PositiveCode(m.verb) # 0
    BY <1>6 DEF AcceptCommand, InSequence
  <2>2. m.verb \in Steps \cup {"NONE"}
    BY <2>1, <2>a, <2>b DEF Message, Verbs
  <2>3. conf.keywords \in SUBSET Keywords
    BY DEF RelayAssumption, RelayTypeOK, Conf
  <2>4. s2c' \in [Conns -> Seq(Reply)]
    <3> DEFINE kw == IF m.verb = "EHLO" THEN conf.keywords
                     ELSE IF m.verb = "EHLO_TLS" THEN conf.keywords \ {"STARTTLS"} ELSE {}
    <3>1. kw \in SUBSET Keywords
      BY <2>3
    <3>2. Answer(c, PositiveCode(m.verb), kw, m.verb)
      BY <1>6 DEF AcceptCommand
    <3>3. PositiveCode(m.verb) \in ReplyCodes
      BY PositiveCodeType
    <3> HIDE DEF kw
    <3>4. Answers(c)
      BY <3>1, <3>2, <3>3, <2>2 DEF Answers
    <3> QED
      BY <3>4, AnswerType
  <2>5. PhaseAfter(m.verb) \in Phases
    BY DEF PhaseAfter, Phases
  <2>6. Append(rcpts[c], m) \in Seq(Message)
    BY <2>1, AppendProperties DEF RelayTypeOK
  <2>7. phase' \in [Conns -> Phases]
    BY <1>6, <2>5 DEF AcceptCommand, RelayTypeOK
  <2>9. from' \subseteq Conns
    BY <1>6 DEF AcceptCommand, RelayTypeOK
  <2>8. rcpts' \in [Conns -> Seq(Message)]
    BY <1>6, <1>4, <2>6 DEF AcceptCommand, RelayTypeOK
  <2> QED
    BY <2>1, <2>4, <2>7, <2>8, <2>9, <1>6 DEF AcceptCommand, RelayTypeOK
<1>7. CASE RefuseCommand(c)
  <2> DEFINE m == Head(c2s[c])
  <2>1. m \in Message /\ c2s' \in [Conns -> Seq(Message)]
    BY <1>7, ReadsType DEF RefuseCommand
  <2>2. (IF m.verb = "DOT" THEN "DATABLOCK" ELSE m.verb) \in Steps \cup {"NONE"}
    BY <2>1, <1>3 DEF Message, Verbs
  <2>3. Answers(c)
    BY <1>7, <1>2, <2>2 DEF RefuseCommand, Answers
  <2> QED
    BY <2>1, <2>3, <1>7, AnswerType DEF RefuseCommand, RelayTypeOK, transaction
<1>8. CASE ReadLine(c)
  <2>1. Head(c2s[c]) \in Message /\ c2s' \in [Conns -> Seq(Message)]
    BY <1>8, ReadsType DEF ReadLine
  <2>2. Append(body[c], Head(c2s[c])) \in Seq(Message)
    BY <2>1, AppendProperties DEF RelayTypeOK
  <2> QED
    BY <2>1, <2>2, <1>8 DEF ReadLine, RelayTypeOK
<1>9. CASE ReadDot(c)
  <2> DEFINE s == IF Head(c2s[c]).verb = "DOT" THEN "DATABLOCK" ELSE "DATAEND"
             a == [rcpts |-> rcpts[c], body |-> body[c]]
  <2>1. c2s' \in [Conns -> Seq(Message)]
    BY <1>9, ReadsType DEF ReadDot
  <2>2. PICK code \in RejectCodes \cup {250} :
           accepted' = (IF code = 250 THEN Append(accepted, a) ELSE accepted) /\ Answer(c, code, {}, s)
    BY <1>9 DEF ReadDot
  <2>3. Answers(c)
    BY <2>2, <1>2, <1>3 DEF Answers
  <2>7. s2c' \in [Conns -> Seq(Reply)]
    BY <2>3, AnswerType
  <2>4. a \in [rcpts: Seq(Message), body: Seq(Message)]
    BY DEF RelayTypeOK
  <2>5. accepted' \in Seq([rcpts: Seq(Message), body: Seq(Message)])
    <3>1. accepted \in Seq([rcpts: Seq(Message), body: Seq(Message)])
      BY DEF RelayTypeOK
    <3>2. Append(accepted, a) \in Seq([rcpts: Seq(Message), body: Seq(Message)])
      <4> HIDE DEF a
      <4> QED BY <3>1, <2>4, AppendProperties
    <3> HIDE DEF a
    <3>3. accepted' = accepted \/ accepted' = Append(accepted, a)
      BY <2>2
    <3> QED
      BY <3>1, <3>2, <3>3, ZenonT(60)
  <2>6. /\ phase' \in [Conns -> Phases] /\ from' \subseteq Conns
        /\ rcpts' \in [Conns -> Seq(Message)] /\ body' \in [Conns -> Seq(Message)]
    BY <1>9, <1>4 DEF ReadDot, RelayTypeOK, Phases
  <2> QED
    BY <2>1, <2>5, <2>6, <2>7, <1>9 DEF ReadDot, RelayTypeOK
<1>10. CASE ReadGarbage(c)
  BY <1>10 DEF ReadGarbage, RelayTypeOK, Phases, transaction
<1>11. CASE Hangup(c)
  <2>1. UNCHANGED s2c \/ Answers(c)
    BY <1>11, <1>2, <1>3 DEF Hangup, Answers
  <2> QED
    BY <2>1, <1>11, AnswerType DEF Hangup, RelayTypeOK, Phases, transaction
<1> QED
  BY <1>1, <1>5, <1>6, <1>7, <1>8, <1>9, <1>10, <1>11

-----------------------------------------------------------------------------
(* The client's part. *)

(* A program point belongs to the commands the client may be at. *)
LEMMA StepTypes ==
  /\ ConnectSteps \subseteq Steps /\ MailSteps \subseteq Steps /\ AuthSteps \subseteq Steps
  /\ {"INIT", "EHLO", "STARTTLS", "EHLO_TLS", "USER", "PASSWORD", "CRAMRESPONSE",
      "MAILFROM", "RCPTTO", "DATA", "DATABLOCK", "DATAEND", "QUIT"} \subseteq Steps
  BY DEF Steps, ConnectSteps, MailSteps, AuthSteps

(* The mechanism that is picked is one of the mechanisms. *)
LEMMA AuthStepType ==
  ASSUME NEW kw PROVE AuthStep(kw) \in AuthSteps
  BY DEF AuthStep, AuthSteps

(* The values of m_socket and m_ssl include that of no connection. *)
LEMMA NoConn ==
  ASSUME RelayAssumption PROVE 0 \in 0 .. MaxConns
  BY DEF RelayAssumption

(* A throw leaves the client well typed, with a socket if it goes on to    *)
(* say QUIT and without the connected flag if it does not.                 *)
LEMMA ThrowType ==
  ASSUME TypeOK, SocketOK, RelayAssumption, m_socket # 0,
         NEW buf \in Reply, Throw(buf), UNCHANGED <<m_ssl, clear>>
  PROVE  ClientTypeOK' /\ SocketOK'
<1>1. buf.code \in ReplyCodes
  BY DEF Reply
<1>2. [ok |-> FALSE, at |-> step, code |-> buf.code] \in Result
  BY <1>1 DEF Result, TypeOK, ClientTypeOK
<1>3. results' \in Seq(Result)
  <2>1. \/ results' = results
        \/ results' = Append(results, [ok |-> FALSE, at |-> step, code |-> buf.code])
    BY DEF Throw
  <2>2. results \in Seq(Result)
    BY DEF TypeOK, ClientTypeOK
  <2> QED
    BY <1>2, <2>1, <2>2, AppendProperties
<1>4. /\ pc' \in {"user", "send", "terminated"}
      /\ caller' \in Callers /\ step' \in Steps /\ index' \in Nat
  BY StepTypes DEF Throw, TypeOK, ClientTypeOK, Callers, Return, BeginQuit, Goto
<1>8. m_socket' \in 0 .. MaxConns /\ fds' \subseteq Conns
  BY NoConn DEF Throw, TypeOK, ClientTypeOK, BeginQuit, CloseSocket
<1>5. m_bConnected' \in BOOLEAN /\ quit_failed' \in BOOLEAN
  <2>1. m_bConnected' = m_bConnected \/ m_bConnected' = FALSE
    BY DEF Throw, BeginQuit
  <2>2. quit_failed' = quit_failed \/ quit_failed' = TRUE
    BY DEF Throw
  <2>3. m_bConnected \in BOOLEAN /\ quit_failed \in BOOLEAN
    BY DEF TypeOK, ClientTypeOK
  <2> QED
    BY <2>1, <2>2, <2>3, ZenonT(60)
<1>6. ClientTypeOK'
  BY <1>3, <1>4, <1>5, <1>8 DEF Throw, TypeOK, ClientTypeOK, Final
<1>7. SocketOK'
  BY DEF Throw, SocketOK, Return, BeginQuit, CloseSocket, Goto
<1> QED
  BY <1>6, <1>7

(* Taking the replies that came in leaves the relay's part well typed, and *)
(* the first of them is a reply.                                           *)
LEMMA TakeRepliesType ==
  ASSUME TypeOK, SocketOK, TakeReplies
  PROVE  m_socket \in Conns /\ reply \in Reply /\ RelayTypeOK'
<1>1. m_socket \in Conns
  BY DEF TypeOK, ClientTypeOK, SocketOK, TakeReplies, Conns
<1>2. s2c[m_socket] \in Seq(Reply) /\ s2c[m_socket] # <<>>
  BY <1>1 DEF TypeOK, RelayTypeOK, TakeReplies
<1>3. reply \in Reply
  BY <1>2, HeadTailProperties DEF reply
<1>4. PICK k \in 1 .. Len(s2c[m_socket]) :
        s2c' = [s2c EXCEPT ![m_socket] = SubSeq(@, k + 1, Len(@))]
  BY DEF TakeReplies
<1>5. SubSeq(s2c[m_socket], k + 1, Len(s2c[m_socket])) \in Seq(Reply)
  BY <1>2, RestOfSeq
<1>6. s2c' \in [Conns -> Seq(Reply)]
  BY <1>4, <1>5 DEF TypeOK, RelayTypeOK
<1> QED
  BY <1>1, <1>3, <1>6 DEF TakeReplies, TypeOK, RelayTypeOK, transaction

(* An expected reply that is taken leaves everything well typed that the   *)
(* action it belongs to does not set itself.                               *)
LEMMA AcceptsType ==
  ASSUME TypeOK, SocketOK, NEW s, Accepts(s)
  PROVE  /\ RelayTypeOK' /\ reply \in Reply /\ m_socket \in Conns
         /\ m_receive_buffer' \in Reply /\ mixed' \in BOOLEAN
         /\ opened' \in 0 .. MaxConns /\ mails' \in Seq(Mails)
         /\ quit_failed' \in BOOLEAN /\ resumed' \in BOOLEAN /\ clear' \subseteq Steps
<1>1. RelayTypeOK' /\ reply \in Reply /\ m_socket \in Conns
  BY TakeRepliesType DEF Accepts
<1>2. mixed' \in BOOLEAN
  BY DEF Accepts
<1> QED
  BY <1>1, <1>2 DEF Accepts, TypeOK, ClientTypeOK

(* Every step past the greeting but the two that end a call accepts a      *)
(* reply and goes on.                                                      *)
LEMMA AcceptsSome ==
  ASSUME Greeted \/ Hello \/ StartTls \/ Authenticated \/ EnvelopeAccepted
  PROVE  \E s : Accepts(s)
<1>1. CASE Greeted \/ StartTls
  BY <1>1, Zenon DEF Greeted, StartTls
<1>2. CASE Hello
  BY <1>2, ZenonT(60) DEF Hello
<1>3. CASE Authenticated
  <2>1. \/ Accepts("AUTHLOGIN") \/ Accepts("USER") \/ Accepts("AUTHCRAMMD5")
        \/ Accepts("PASSWORD") \/ Accepts("AUTHPLAIN") \/ Accepts("CRAMRESPONSE")
    BY <1>3 DEF Authenticated
  <2> QED
    BY <2>1, Zenon
<1>4. CASE EnvelopeAccepted
  <2>1. Accepts("MAILFROM") \/ Accepts("RCPTTO") \/ Accepts("DATA")
    BY <1>4, Zenon DEF EnvelopeAccepted
  <2> QED
    BY <2>1, Zenon
<1> QED
  BY <1>1, <1>2, <1>3, <1>4

(* Types and sockets together are preserved by every step of the client. *)
LEMMA ClientStepType ==
  ASSUME TypeOK, SocketOK, RelayAssumption, SessionAssumption, ClientStep
  PROVE  TypeOK' /\ SocketOK'
<1> USE DEF TypeOK
<1>1. CASE CallSendMail
  <2>1. mails' \in Seq(Mails)
    BY <1>1, AppendProperties DEF CallSendMail, ClientTypeOK
  <2>2. resumed' \in BOOLEAN
    BY <1>1 DEF CallSendMail
  <2>3. /\ pc' \in {"connect", "send"} /\ caller' \in Callers
        /\ step' \in Steps /\ index' \in Nat
    BY <1>1, StepTypes DEF CallSendMail, ClientTypeOK, Callers
  <2>4. SocketOK'
    BY <1>1 DEF CallSendMail, SocketOK, socket
  <2> QED
    BY <1>1, <2>1, <2>2, <2>3, <2>4
    DEF CallSendMail, ClientTypeOK, socket, relayVars, transaction, RelayTypeOK
<1>2. CASE CallConnect
  BY <1>2 DEF CallConnect, ClientTypeOK, SocketOK, socket, history, relayVars, transaction,
              RelayTypeOK, Callers
<1>3. CASE CallDisconnect
  <2>3. m_bConnected' \in BOOLEAN
    <3>1. m_bConnected' = m_bConnected \/ m_bConnected' = FALSE
      BY <1>3 DEF CallDisconnect
    <3>2. m_bConnected \in BOOLEAN
      BY DEF ClientTypeOK
    <3> QED
      BY <3>1, <3>2, ZenonT(60)
  <2>4. /\ pc' \in {"send", "user"} /\ caller' \in Callers
        /\ step' \in Steps /\ index' \in Nat
    BY <1>3, StepTypes DEF CallDisconnect, ClientTypeOK, control, Callers
  <2>5. m_socket' \in 0 .. MaxConns /\ fds' \subseteq Conns
    BY <1>3, NoConn DEF CallDisconnect, ClientTypeOK, CloseSocket
  <2>1. ClientTypeOK'
    BY <1>3, <2>3, <2>4, <2>5 DEF CallDisconnect, ClientTypeOK, history
  <2>2. SocketOK'
    BY <1>3 DEF CallDisconnect, SocketOK, CloseSocket, control
  <2> QED
    BY <1>3, <2>1, <2>2 DEF CallDisconnect, relayVars, transaction, RelayTypeOK
<1>4. CASE Destroy
  <2>3. m_bConnected' \in BOOLEAN
    <3>1. m_bConnected' = m_bConnected \/ m_bConnected' = FALSE
      BY <1>4 DEF Destroy
    <3>2. m_bConnected \in BOOLEAN
      BY DEF ClientTypeOK
    <3> QED
      BY <3>1, <3>2, ZenonT(60)
  <2>4. /\ pc' \in {"send", "done"} /\ caller' \in Callers
        /\ step' \in Steps /\ index' \in Nat /\ m_ssl' \in 0 .. MaxConns
    BY <1>4, StepTypes, NoConn DEF Destroy, ClientTypeOK, Callers
  <2>1. ClientTypeOK'
    BY <1>4, <2>3, <2>4 DEF Destroy, ClientTypeOK, history, Final
  <2>2. SocketOK'
    BY <1>4 DEF Destroy, SocketOK
  <2> QED
    BY <1>4, <2>1, <2>2 DEF Destroy, relayVars, transaction, RelayTypeOK
<1>5. CASE ConnectFails
  <2>1. [ok |-> FALSE, at |-> "CONNECT", code |-> 0] \in Result
    BY DEF Result, ReplyCodes
  <2>2. results' \in Seq(Result)
    BY <1>5, <2>1, AppendProperties DEF ConnectFails, ClientTypeOK
  <2> QED
    BY <1>5, <2>2 DEF ConnectFails, ClientTypeOK, SocketOK, Return, Callers, socket,
                      relayVars, transaction, RelayTypeOK
<1>6. CASE ConnectSucceeds
  <2> DEFINE c == opened + 1
  <2>1. c \in Conns /\ c # 0 /\ c \in 0 .. MaxConns
    BY <1>6 DEF ConnectSucceeds, Conns, ClientTypeOK, RelayAssumption
  <2>2. phase' \in [Conns -> Phases]
    BY <1>6, <2>1 DEF ConnectSucceeds, RelayTypeOK, Phases
  <2>3. opened' = c /\ m_socket' = c /\ fds' \subseteq Conns /\ m_ssl' \in 0 .. MaxConns
    BY <1>6, <2>1 DEF ConnectSucceeds, ClientTypeOK
  <2>4. /\ pc' \in {"tls", "send", "recv", "user"} /\ caller' \in Callers
        /\ step' \in Steps /\ index' \in Nat
    BY <1>6, StepTypes DEF ConnectSucceeds, ClientTypeOK, Connected, Goto, Return, Callers
  <2>6. ~m_bConnected'
    BY <1>6 DEF ConnectSucceeds, SocketOK
  <2>5. SocketOK'
    BY <2>1, <2>3, <2>4, <2>6 DEF SocketOK
  <2> QED
    BY <1>6, <2>1, <2>2, <2>3, <2>4, <2>5
    DEF ConnectSucceeds, ClientTypeOK, RelayTypeOK, transaction, history
<1>7. CASE Handshake
  <2>1. m_ssl \in Conns
    BY <1>7 DEF Handshake, ClientTypeOK, Conns
  <2>2. phase' \in [Conns -> Phases] /\ tls' \in [Conns -> BOOLEAN]
    BY <1>7, <2>1 DEF Handshake, RelayTypeOK, Phases
  <2>3. /\ pc' \in {"send", "recv"} /\ caller' \in Callers
        /\ step' \in Steps /\ index' \in Nat
    BY <1>7, StepTypes DEF Handshake, ClientTypeOK, Goto, control
  <2>4. SocketOK'
    BY <1>7, <2>1, <2>3 DEF Handshake, SocketOK, Goto, control, socket, Conns
  <2> QED
    BY <1>7, <2>1, <2>2, <2>3, <2>4 DEF Handshake, ClientTypeOK, RelayTypeOK, transaction,
                                        history, socket
<1>8. CASE HandshakeFails \/ ThrowBeforeSend \/ SendFails
  <2>1. m_socket # 0 /\ m_receive_buffer \in Reply
    BY <1>8 DEF HandshakeFails, ThrowBeforeSend, SendFails, SocketOK, ClientTypeOK
  <2>2. Throw(m_receive_buffer) /\ UNCHANGED <<m_ssl, clear>> /\ UNCHANGED relayVars
    BY <1>8 DEF HandshakeFails, ThrowBeforeSend, SendFails
  <2> QED
    BY <2>1, <2>2, ThrowType DEF relayVars, transaction, RelayTypeOK
<1>9. CASE Send
  <2>1. m_socket \in Conns
    BY <1>9 DEF Send, SocketOK, ClientTypeOK, Conns
  <2> DEFINE m == [verb |-> Wire(step), n |-> Len(mails), i |-> index, via |-> m_ssl]
  <2>2. m \in Message
    BY <1>9, LenProperties DEF Message, Verbs, Wire, ClientTypeOK
  <2>3. c2s' \in [Conns -> Seq(Message)]
    <3>1. Append(c2s[m_socket], m) \in Seq(Message)
      BY <2>1, <2>2, AppendProperties DEF RelayTypeOK
    <3>2. c2s \in [Conns -> Seq(Message)]
      BY DEF RelayTypeOK
    <3>3. c2s' = [c2s EXCEPT ![m_socket] = Append(c2s[m_socket], m)]
      BY <1>9 DEF Send
    <3> DEFINE longer == Append(c2s[m_socket], m)
               queues == Seq(Message)
    <3> HIDE DEF longer, queues
    <3>4. longer \in queues /\ c2s \in [Conns -> queues] /\ c2s' = [c2s EXCEPT ![m_socket] = longer]
      BY <3>1, <3>2, <3>3 DEF longer, queues
    <3>5. c2s' \in [Conns -> queues]
      BY <3>4, ZenonT(30)
    <3> QED
      BY <3>5 DEF queues
  <2>4. /\ pc' \in {"send", "recv"} /\ caller' \in Callers
        /\ step' \in Steps /\ index' \in Nat
    BY <1>9, StepTypes DEF Send, AfterBlock, Goto, ClientTypeOK
  <2>5. clear' \subseteq Steps
    BY <1>9 DEF Send, ClientTypeOK
  <2>6. SocketOK'
    BY <1>9, <2>4 DEF Send, AfterBlock, Goto, SocketOK, socket
  <2> QED
    BY <1>9, <2>1, <2>3, <2>4, <2>5, <2>6
    DEF Send, ClientTypeOK, RelayTypeOK, transaction, socket
<1>10. CASE Killed
  BY <1>10 DEF Killed, ClientTypeOK, SocketOK, relayVars, transaction, RelayTypeOK, history, Final
<1>11. CASE ReplyRefused
  <2>1. m_socket \in Conns /\ reply \in Reply /\ RelayTypeOK'
    BY <1>11, TakeRepliesType DEF ReplyRefused
  <2>2. (IF reply.via = m_ssl THEN reply ELSE m_receive_buffer) \in Reply
    BY <2>1 DEF ClientTypeOK
  <2>3. m_socket # 0
    BY <2>1 DEF Conns
  <2> QED
    BY <1>11, <2>1, <2>2, <2>3, ThrowType DEF ReplyRefused
<1>12. CASE ReceiveFails
  <2>1. m_socket # 0 /\ m_receive_buffer \in Reply
    BY <1>12 DEF ReceiveFails, SocketOK, ClientTypeOK
  <2>2. NoReply \in Reply
    BY DEF NoReply, Reply, ReplyCodes, RelayAssumption
  <2>3. \E buf \in Reply : Throw(buf)
    BY <1>12, <2>1, <2>2 DEF ReceiveFails
  <2> QED
    BY <1>12, <2>1, <2>3, ThrowType DEF ReceiveFails, relayVars, transaction, RelayTypeOK
<1>13. CASE Greeted \/ Hello \/ StartTls \/ Authenticated \/ EnvelopeAccepted
  <2>1. PICK s : Accepts(s)
    BY <1>13, AcceptsSome
  <2>2. /\ RelayTypeOK' /\ reply \in Reply /\ m_socket \in Conns
        /\ m_receive_buffer' \in Reply /\ mixed' \in BOOLEAN
        /\ opened' \in 0 .. MaxConns /\ mails' \in Seq(Mails)
        /\ quit_failed' \in BOOLEAN /\ resumed' \in BOOLEAN /\ clear' \subseteq Steps
    BY <2>1, AcceptsType
  <2>3. /\ pc' \in {"user", "send", "tls"} /\ caller' \in Callers
        /\ step' \in Steps /\ index' \in Nat
    BY <1>13, StepTypes, AuthStepType
    DEF Greeted, Hello, StartTls, Authenticated, EnvelopeAccepted, Authenticate, Connected,
        Goto, Return, ClientTypeOK, Callers
  <2>4. UNCHANGED <<m_socket, fds, results>> /\ m_ssl' \in {m_ssl, m_socket}
    BY <1>13 DEF Greeted, Hello, StartTls, Authenticated, EnvelopeAccepted
  <2>5. m_bConnected' = m_bConnected \/ m_bConnected' = TRUE
    BY <1>13 DEF Greeted, Hello, StartTls, Authenticated, EnvelopeAccepted
  <2>8. m_bConnected' \in BOOLEAN
    BY <2>5, ZenonT(30) DEF ClientTypeOK
  <2>10. /\ m_socket' \in 0 .. MaxConns /\ fds' \subseteq Conns /\ results' \in Seq(Result)
         /\ m_ssl' \in 0 .. MaxConns
    BY <2>2, <2>4 DEF ClientTypeOK, Conns
  <2>11. pc' \in {"user", "connect", "tls", "send", "recv"} \cup Final
    BY <2>3
  <2>6. ClientTypeOK'
    BY <2>2, <2>3, <2>8, <2>10, <2>11, SMTT(30) DEF ClientTypeOK
  <2>9. pc' \in {"tls", "send"} => step' # "QUIT"
    BY <1>13, AuthStepType DEF Greeted, Hello, StartTls, Authenticated, EnvelopeAccepted,
       Authenticate, Connected, Goto, Return, AuthSteps
  <2>7. SocketOK'
    BY <2>2, <2>3, <2>4, <2>9 DEF SocketOK, Conns
  <2> QED
    BY <2>2, <2>6, <2>7
<1>14. CASE MailAccepted
  <2>1. Accepts("DATAEND")
    BY <1>14 DEF MailAccepted
  <2>2. /\ RelayTypeOK' /\ reply \in Reply /\ m_socket \in Conns
        /\ m_receive_buffer' \in Reply /\ mixed' \in BOOLEAN
        /\ opened' \in 0 .. MaxConns /\ mails' \in Seq(Mails)
        /\ quit_failed' \in BOOLEAN /\ resumed' \in BOOLEAN /\ clear' \subseteq Steps
    BY <2>1, AcceptsType
  <2>3. [ok |-> TRUE, at |-> "DATAEND", code |-> reply.code] \in Result
    BY <2>2, StepTypes DEF Result, Reply
  <2>4. results' \in Seq(Result)
    BY <1>14, <2>3, AppendProperties DEF MailAccepted, ClientTypeOK
  <2> QED
    BY <1>14, <2>2, <2>4 DEF MailAccepted, ClientTypeOK, SocketOK, Return, Callers
<1>15. CASE QuitAccepted
  <2>1. Accepts("QUIT")
    BY <1>15 DEF QuitAccepted
  <2>2. /\ RelayTypeOK' /\ reply \in Reply /\ m_socket \in Conns
        /\ m_receive_buffer' \in Reply /\ mixed' \in BOOLEAN
        /\ opened' \in 0 .. MaxConns /\ mails' \in Seq(Mails)
        /\ quit_failed' \in BOOLEAN /\ resumed' \in BOOLEAN /\ clear' \subseteq Steps
    BY <2>1, AcceptsType
  <2>5. /\ pc' \in {"user", "done"} /\ caller' \in Callers
        /\ step' \in Steps /\ index' \in Nat /\ m_ssl' \in 0 .. MaxConns
    BY <1>15, NoConn DEF QuitAccepted, ClientTypeOK, Return, Callers
  <2>6. m_socket' \in 0 .. MaxConns /\ fds' \subseteq Conns
    BY <1>15, NoConn DEF QuitAccepted, ClientTypeOK, CloseSocket
  <2>3. ClientTypeOK'
    BY <1>15, <2>2, <2>5, <2>6 DEF QuitAccepted, ClientTypeOK, Final
  <2>7. ~m_bConnected'
    BY <1>15, <2>1 DEF QuitAccepted, Accepts, TakeReplies, SocketOK
  <2>4. SocketOK'
    BY <2>5, <2>7 DEF SocketOK
  <2> QED
    BY <2>2, <2>3, <2>4
<1> QED
  BY <1>1, <1>2, <1>3, <1>4, <1>5, <1>6, <1>7, <1>8, <1>9, <1>10, <1>11, <1>12, <1>13, <1>14, <1>15
  DEF ClientStep, OwnerStep

-----------------------------------------------------------------------------
(* The first state. *)
LEMMA InitType ==
  ASSUME Init, RelayAssumption PROVE TypeOK /\ SocketOK
<1>1. \A S : <<>> \in Seq(S)
  BY EmptySeq
<1>2. NoReply \in Reply
  BY DEF NoReply, Reply, ReplyCodes, RelayAssumption
<1>3. RelayTypeOK
  BY <1>1 DEF Init, RelayInit, RelayTypeOK, Phases
<1>5. <<>> \in Seq(Mails) /\ <<>> \in Seq(Result)
  BY <1>1
<1>4. ClientTypeOK
  BY <1>2, <1>5, StepTypes, NoConn DEF Init, ClientTypeOK, Callers
<1> QED
  BY <1>3, <1>4 DEF Init, TypeOK, SocketOK

(* Every step of the system keeps types and sockets right. *)
LEMMA TypeStep ==
  ASSUME TypeOK, SocketOK, [Next]_vars PROVE (TypeOK /\ SocketOK)'
<1>1. CASE ClientStep
  BY <1>1, ClientStepType, RelayAssumption, SessionAssumption
<1>2. CASE Relay
  <2>1. RelayTypeOK'
    BY <1>2, RelayStepType, RelayAssumption DEF Relay, TypeOK
  <2>2. ClientTypeOK' /\ SocketOK'
    BY <1>2 DEF Relay, TypeOK, ClientTypeOK, SocketOK, control, socket, history
  <2> QED
    BY <2>1, <2>2 DEF TypeOK
<1>3. CASE UNCHANGED vars
  BY <1>3 DEF vars, relayVars, transaction, control, socket, history, TypeOK, RelayTypeOK,
              ClientTypeOK, SocketOK
<1> QED
  BY <1>1, <1>2, <1>3 DEF Next, Gone

(* Every variable keeps to its values (TypeOK), and the calls that throw,  *)
(* read or write do so on an open connection (SocketOK), whatever the      *)
(* relay answers and in whatever order the owner calls.                    *)
THEOREM TypeCorrect == Spec => []TypeOK
<1>1. Init => TypeOK /\ SocketOK
  BY InitType, RelayAssumption
<1>2. TypeOK /\ SocketOK /\ [Next]_vars => (TypeOK /\ SocketOK)'
  BY TypeStep
<1> QED
  BY <1>1, <1>2, PTL DEF Spec

-----------------------------------------------------------------------------
(* The inductive invariant behind SecretsOnlyInTls.                        *)

Guarded == conf.security # "NO_SECURITY" /\ ~resumed

(* A connection that has not been opened is untouched. *)
Unopened == \A c \in Conns : c > opened => phase[c] = "none" /\ s2c[c] = <<>>

(* The first reply the client gets to read on c is not a 250: nothing but   *)
(* a greeting, or a 421, comes first.                                      *)
Fresh(c) ==
  /\ s2c[c] = <<>> => phase[c] \in {"sslwait", "new", "closed"}
  /\ s2c[c] # <<>> => Head(s2c[c]).code # 250

(* Whoever is at a secret has a TLS session, and so has whoever may get     *)
(* there without another STARTTLS; MAIL FROM is reached without one only    *)
(* from a connect() that completed at once, where the greeting is unread.   *)
TlsInv ==
  Guarded =>
    /\ clear \cap Secrets = {}
    /\ pc \in {"send", "recv"} /\ step \in Secrets \cup {"EHLO_TLS", "AUTH"} => m_ssl # 0
    /\ pc \in {"send", "recv"} /\ step \in {"INIT", "EHLO"} /\ conf.security = "USE_SSL" => m_ssl # 0
    /\ pc \in {"send", "recv"} /\ step = "MAILFROM" /\ m_ssl = 0 => Fresh(m_socket)
    /\ pc = "user" /\ m_bConnected => m_ssl # 0

(* Putting an answer behind what is unread leaves the first reply first. *)
LEMMA AnswerHead ==
  ASSUME RelayTypeOK, NEW c \in Conns, NEW d \in Conns, NEW code, NEW kw, NEW s,
         Answer(d, code, kw, s)
  PROVE  /\ d # c => s2c'[c] = s2c[c]
         /\ d = c /\ s2c[c] # <<>> => s2c'[c] # <<>> /\ Head(s2c'[c]) = Head(s2c[c])
         /\ d = c /\ s2c[c] = <<>> => s2c'[c] # <<>> /\ Head(s2c'[c]).code = code
<1> DEFINE e == [code |-> code, kw |-> kw, for |-> s, via |-> Channel(d)]
<1>1. s2c'[c] = IF c = d THEN Append(s2c[c], e) ELSE s2c[c]
  BY DEF Answer, RelayTypeOK
<1>2. e.code = code
  OBVIOUS
<1>3. s2c[c] \in Seq(Reply)
  BY DEF RelayTypeOK
<1> HIDE DEF e
<1>4. \A t \in Seq(Reply) : Append(t, e) # <<>>
                            /\ Head(Append(t, e)) = IF t = <<>> THEN e ELSE Head(t)
  <2> TAKE t \in Seq(Reply)
  <2>1. Append(t, e) # <<>>
    <3>1. Len(Append(t, e)) = Len(t) + 1
      OBVIOUS
    <3> QED
      BY <3>1, LenProperties, EmptySeq
  <2> QED
    BY <2>1, HeadTailAppend
<1> QED
  BY <1>1, <1>2, <1>3, <1>4

(* The relay's steps leave an unread greeting, and what is not opened, be. *)
LEMMA RelayKeepsFresh ==
  ASSUME TypeOK, RelayAssumption, RelayStep, NEW c \in Conns, Fresh(c)
  PROVE  Fresh(c)'
<1>1. PICK d \in Conns : \/ Greet(d) \/ AcceptCommand(d) \/ RefuseCommand(d)
                         \/ ReadLine(d) \/ ReadDot(d) \/ ReadGarbage(d) \/ Hangup(d)
  BY DEF RelayStep
<1>2. RelayTypeOK
  BY DEF TypeOK
<1>3. CASE Greet(d)
  <2>1. PICK code \in {220, 421} : Answer(d, code, {}, "INIT")
    BY <1>3 DEF Greet
  <2>2. s2c'[c] # <<>> => Head(s2c'[c]).code # 250
    BY <1>2, <2>1, AnswerHead DEF Fresh
  <2>3. s2c'[c] = <<>> => d # c /\ s2c[c] = <<>>
    BY <1>2, <2>1, AnswerHead
  <2>4. d # c => phase'[c] = phase[c]
    BY <1>2, <1>3 DEF Greet, RelayTypeOK
  <2> QED
    BY <2>2, <2>3, <2>4 DEF Fresh
<1>4. CASE AcceptCommand(d) \/ RefuseCommand(d) \/ ReadDot(d)
  <2>1. PICK code, kw, s : Answer(d, code, kw, s)
    <3>1. CASE AcceptCommand(d)
      BY <3>1, SMT DEF AcceptCommand
    <3>2. CASE RefuseCommand(d)
      BY <3>2, SMT DEF RefuseCommand
    <3>3. CASE ReadDot(d)
      BY <3>3, SMT DEF ReadDot
    <3> QED
      BY <1>4, <3>1, <3>2, <3>3
  <2>2. phase[d] \in {"cmd", "data"}
    BY <1>4 DEF AcceptCommand, RefuseCommand, ReadDot, Reads
  <2>3. d = c => s2c[c] # <<>>
    BY <2>2 DEF Fresh
  <2>4. d # c => phase'[c] = phase[c]
    BY <1>2, <1>4 DEF AcceptCommand, RefuseCommand, ReadDot, RelayTypeOK
  <2> QED
    BY <1>2, <2>1, <2>3, <2>4, AnswerHead DEF Fresh
<1>5. CASE ReadLine(d)
  BY <1>5 DEF ReadLine, Fresh
<1>6. CASE ReadGarbage(d)
  BY <1>2, <1>6 DEF ReadGarbage, Fresh, RelayTypeOK
<1>7. CASE Hangup(d)
  <2>1. phase'[c] = IF d = c THEN "closed" ELSE phase[c]
    BY <1>2, <1>7 DEF Hangup, RelayTypeOK
  <2>2. CASE UNCHANGED s2c
    BY <2>1, <2>2 DEF Fresh
  <2>3. CASE Answer(d, 421, {}, "NONE")
    BY <1>2, <2>1, <2>3, AnswerHead DEF Fresh
  <2> QED
    BY <1>7, <2>2, <2>3 DEF Hangup
<1> QED
  BY <1>1, <1>3, <1>4, <1>5, <1>6, <1>7

LEMMA RelayKeepsUnopened ==
  ASSUME TypeOK, RelayStep, Unopened, UNCHANGED opened
  PROVE  Unopened'
<1>1. PICK d \in Conns : \/ Greet(d) \/ AcceptCommand(d) \/ RefuseCommand(d)
                         \/ ReadLine(d) \/ ReadDot(d) \/ ReadGarbage(d) \/ Hangup(d)
  BY DEF RelayStep
<1>2. phase[d] # "none"
  BY <1>1 DEF Greet, AcceptCommand, RefuseCommand, ReadLine, ReadDot, ReadGarbage, Hangup, Reads
<1>3. \A c \in Conns : c # d => phase'[c] = phase[c]
  BY <1>1 DEF Greet, AcceptCommand, RefuseCommand, ReadLine, ReadDot, ReadGarbage, Hangup,
              TypeOK, RelayTypeOK
<1>4. \A c \in Conns : c # d => s2c'[c] = s2c[c]
  <2>1. CASE AcceptCommand(d)
    BY <2>1 DEF AcceptCommand, Answer, TypeOK, RelayTypeOK
  <2>2. CASE RefuseCommand(d)
    BY <2>2 DEF RefuseCommand, Answer, TypeOK, RelayTypeOK
  <2>3. CASE ReadDot(d)
    BY <2>3 DEF ReadDot, Answer, TypeOK, RelayTypeOK
  <2>4. CASE Greet(d) \/ ReadLine(d) \/ ReadGarbage(d) \/ Hangup(d)
    BY <2>4 DEF Greet, ReadLine, ReadGarbage, Hangup, Answer, TypeOK, RelayTypeOK
  <2> QED
    BY <1>1, <2>1, <2>2, <2>3, <2>4
<1> QED
  BY <1>2, <1>3, <1>4 DEF Unopened

(* The client opens connections in order, and deals with opened ones only. *)
LEMMA ClientKeepsUnopened ==
  ASSUME TypeOK, SocketOK, RelayAssumption, Unopened, ClientStep
  PROVE  Unopened'
<1>1. CASE ConnectSucceeds
  <2>1. UNCHANGED s2c /\ opened' = opened + 1 /\ opened \in Nat
    BY <1>1 DEF ConnectSucceeds, TypeOK, ClientTypeOK
  <2>2. \A c \in Conns : c # opened + 1 => phase'[c] = phase[c]
    BY <1>1 DEF ConnectSucceeds, TypeOK, RelayTypeOK
  <2> QED
    BY <2>1, <2>2 DEF Unopened, Conns
<1>2. CASE Handshake
  <2>1. m_ssl \in Conns /\ m_ssl <= opened
    BY <1>2 DEF Handshake, Unopened, TypeOK, ClientTypeOK, Conns
  <2>2. UNCHANGED <<s2c, opened>>
    BY <1>2 DEF Handshake, socket
  <2>3. \A c \in Conns : c # m_ssl => phase'[c] = phase[c]
    BY <1>2 DEF Handshake, TypeOK, RelayTypeOK
  <2>4. m_ssl \in Nat /\ opened \in Nat
    BY <2>1 DEF TypeOK, ClientTypeOK, Conns
  <2> QED
    BY <2>1, <2>2, <2>3, <2>4 DEF Unopened, Conns
<1>3. ASSUME TakeReplies, UNCHANGED opened PROVE Unopened'
  <2>1. m_socket \in Conns /\ UNCHANGED phase
    BY <1>3, TakeRepliesType DEF TakeReplies
  <2>2. \A c \in Conns : c # m_socket => s2c'[c] = s2c[c]
    BY <1>3 DEF TakeReplies, TypeOK, RelayTypeOK
  <2>3. s2c[m_socket] # <<>>
    BY <1>3 DEF TakeReplies
  <2> QED
    BY <1>3, <2>1, <2>2, <2>3 DEF Unopened
<1>4. CASE Greeted \/ Hello \/ StartTls \/ Authenticated \/ EnvelopeAccepted
  <2>1. PICK s : Accepts(s)
    BY <1>4, AcceptsSome
  <2> QED
    BY <1>3, <2>1 DEF Accepts
<1>5. CASE MailAccepted
  BY <1>3, <1>5 DEF MailAccepted, Accepts
<1>6. CASE QuitAccepted
  BY <1>3, <1>6 DEF QuitAccepted, Accepts
<1>7. CASE ReplyRefused
  BY <1>3, <1>7 DEF ReplyRefused, Throw
<1>8. CASE OwnerStep \/ ConnectFails \/ HandshakeFails \/ ThrowBeforeSend \/ Send \/ SendFails
           \/ Killed \/ ReceiveFails
  <2>1. UNCHANGED <<phase, s2c, opened>>
    <3>1. CASE OwnerStep
      BY <3>1 DEF OwnerStep, CallSendMail, CallConnect, CallDisconnect, Destroy, relayVars, socket
    <3>2. CASE ConnectFails \/ Send \/ Killed
      BY <3>2 DEF ConnectFails, Send, Killed, relayVars, socket
    <3>3. CASE HandshakeFails \/ ThrowBeforeSend \/ SendFails \/ ReceiveFails
      BY <3>3 DEF HandshakeFails, ThrowBeforeSend, SendFails, ReceiveFails, Throw, relayVars
    <3> QED
      BY <1>8, <3>1, <3>2, <3>3
  <2> QED
    BY <2>1 DEF Unopened
<1> QED
  BY <1>1, <1>2, <1>4, <1>5, <1>6, <1>7, <1>8 DEF ClientStep

(* After a throw nothing but QUIT is said, and an object that returns to   *)
(* its owner does not believe to be connected.                             *)
LEMMA ThrowKeepsTls ==
  ASSUME SocketOK, pc \in {"tls", "send", "recv"},
         TlsInv, NEW buf, Throw(buf), UNCHANGED <<conf, m_ssl, clear>>
  PROVE  TlsInv'
<1>1. UNCHANGED resumed
  BY DEF Throw
<1>2. \/ pc' = "send" /\ step' = "QUIT"
      \/ pc' = "terminated"
      \/ pc' = "user" /\ ~m_bConnected'
  <2>1. CASE step = "QUIT"
    BY <2>1 DEF Throw, Return, SocketOK
  <2>2. CASE step # "QUIT"
    BY <2>2 DEF Throw, BeginQuit, CloseSocket, Return, Goto
  <2> QED
    BY <2>1, <2>2
<1>3. "QUIT" \notin Secrets \cup {"EHLO_TLS", "AUTH", "INIT", "EHLO", "MAILFROM"}
  BY DEF Secrets
<1> QED
  BY <1>1, <1>2, <1>3 DEF TlsInv, Guarded

(* Accepting a reply sends nothing and leaves the settings alone. *)
LEMMA AcceptsKeeps ==
  ASSUME NEW s, Accepts(s)
  PROVE  pc = "recv" /\ step = s /\ UNCHANGED <<conf, resumed, clear>> /\ Expected(s)
  BY DEF Accepts, TakeReplies

(* No step of the client sends a secret outside TLS or gets to where it    *)
(* would.                                                                  *)
LEMMA ClientKeepsTls ==
  ASSUME TypeOK, SocketOK, RelayAssumption, Unopened, TlsInv, ClientStep, Guarded'
  PROVE  TlsInv'
<1>0. Guarded /\ conf' = conf
  <2>1. conf' = conf /\ (resumed => resumed')
    <3>1. CASE CallSendMail
      BY <3>1 DEF CallSendMail, relayVars
    <3>2. CASE CallConnect \/ CallDisconnect \/ Destroy
      BY <3>2 DEF CallConnect, CallDisconnect, Destroy, relayVars, history
    <3>3. CASE ConnectFails \/ ConnectSucceeds \/ Handshake \/ Send \/ Killed
      BY <3>3 DEF ConnectFails, ConnectSucceeds, Handshake, Send, Killed, relayVars, history
    <3>4. CASE HandshakeFails \/ ThrowBeforeSend \/ SendFails \/ ReceiveFails
      BY <3>4 DEF HandshakeFails, ThrowBeforeSend, SendFails, ReceiveFails, Throw, relayVars
    <3>5. CASE ReplyRefused
      BY <3>5 DEF ReplyRefused, Throw, TakeReplies
    <3>6. CASE Greeted \/ Hello \/ StartTls \/ Authenticated \/ EnvelopeAccepted
      BY <3>6, AcceptsSome, AcceptsKeeps
    <3>7. CASE MailAccepted \/ QuitAccepted
      BY <3>7, AcceptsKeeps DEF MailAccepted, QuitAccepted
    <3> QED
      BY <3>1, <3>2, <3>3, <3>4, <3>5, <3>6, <3>7 DEF ClientStep, OwnerStep
  <2> QED
    BY <2>1 DEF Guarded
<1>1. CASE CallSendMail
  <2>1. m_socket # 0 => m_ssl # 0
    BY <1>1, <1>0 DEF CallSendMail, Guarded, TlsInv
  <2> QED
    BY <1>1, <1>0, <2>1 DEF CallSendMail, TlsInv, socket, Secrets
<1>2. CASE CallConnect \/ CallDisconnect \/ Destroy \/ ConnectFails \/ Killed
  <2>1. /\ clear' = clear
        /\ \/ pc' \in {"connect", "done", "killed"}
           \/ pc' = "send" /\ step' = "QUIT"
           \/ pc' = "user" /\ ~m_bConnected'
    <3>1. CASE CallConnect
      BY <3>1 DEF CallConnect, history
    <3>2. CASE CallDisconnect
      BY <3>2 DEF CallDisconnect, control, history
    <3>3. CASE Destroy
      BY <3>3 DEF Destroy, history
    <3>4. CASE ConnectFails
      BY <3>4 DEF ConnectFails, Return, socket, SocketOK
    <3>5. CASE Killed
      BY <3>5 DEF Killed, history
    <3> QED
      BY <1>2, <3>1, <3>2, <3>3, <3>4, <3>5
  <2> QED
    BY <1>0, <2>1 DEF TlsInv, Secrets
<1>3. CASE ConnectSucceeds
  <2> DEFINE c == opened + 1
  <2>1. c \in Conns /\ c # 0 /\ m_socket' = c /\ clear' = clear /\ m_bConnected' = FALSE
    BY <1>3 DEF ConnectSucceeds, SocketOK, TypeOK, ClientTypeOK, history, Conns
  <2>2. Fresh(m_socket)'
    <3>1. phase'[c] \in {"sslwait", "new"}
      BY <1>3, <2>1 DEF ConnectSucceeds, TypeOK, RelayTypeOK
    <3>2. s2c' = s2c
      BY <1>3 DEF ConnectSucceeds
    <3>3. c > opened
      BY DEF TypeOK, ClientTypeOK
    <3>4. s2c[c] = <<>>
      BY <2>1, <3>3 DEF Unopened
    <3> QED
      BY <2>1, <3>1, <3>2, <3>4 DEF Fresh
  <2>3. \/ pc' = "user"
        \/ pc' = "send" /\ step' = "MAILFROM"
        \/ pc' = "tls"
        \/ pc' = "recv" /\ step' = "INIT" /\ conf.security # "USE_SSL"
    BY <1>3 DEF ConnectSucceeds, Connected, Return, Goto
  <2> QED
    BY <1>0, <2>1, <2>2, <2>3 DEF TlsInv, Secrets
<1>4. CASE Handshake
  <2>1. UNCHANGED <<m_ssl, m_bConnected, clear>> /\ m_ssl # 0 /\ pc' \in {"send", "recv"}
    BY <1>4 DEF Handshake, socket, history, control, Goto
  <2> QED
    BY <1>0, <2>1 DEF TlsInv
<1>5. CASE HandshakeFails \/ ThrowBeforeSend \/ SendFails \/ ReceiveFails \/ ReplyRefused
  <2>1. /\ pc \in {"tls", "send", "recv"} /\ UNCHANGED <<m_ssl, clear>>
        /\ \E buf : Throw(buf)
    BY <1>5 DEF HandshakeFails, ThrowBeforeSend, SendFails, ReceiveFails, ReplyRefused, TakeReplies
  <2> QED
    BY <1>0, <2>1, ThrowKeepsTls
<1>6. CASE Send
  <2>1. UNCHANGED <<m_ssl, m_bConnected, m_socket, s2c, phase>>
    BY <1>6 DEF Send, socket
  <2>2. clear' \cap Secrets = {}
    BY <1>0, <1>6 DEF Send, TlsInv
  <2>3. \/ pc' = "recv" /\ step' = step
        \/ pc' = "send" /\ step = "DATABLOCK" /\ step' \in {"DATABLOCK", "DATAEND"}
    BY <1>6 DEF Send, AfterBlock, Goto
  <2>4. Fresh(m_socket)' <=> Fresh(m_socket)
    BY <2>1 DEF Fresh
  <2> QED
    BY <1>0, <1>6, <2>1, <2>2, <2>3, <2>4 DEF TlsInv, Send, Secrets
<1>7. CASE Greeted
  <2>1. pc = "recv" /\ step = "INIT" /\ UNCHANGED clear
    BY <1>7, AcceptsKeeps DEF Greeted
  <2> QED
    BY <1>0, <1>7, <2>1 DEF Greeted, Goto, TlsInv, Secrets
<1>8. CASE Hello
  <2>1. pc = "recv" /\ step \in {"EHLO", "EHLO_TLS"} /\ UNCHANGED <<clear, m_ssl>>
    BY <1>8, AcceptsKeeps DEF Hello
  <2>2. \/ pc' = "send" /\ step' = "STARTTLS"
        \/ Authenticate /\ m_ssl # 0
    BY <1>8, <1>0, <2>1, AcceptsKeeps DEF Hello, Goto, TlsInv, Guarded, TypeOK, RelayTypeOK,
       RelayAssumption, Conf, SecurityTypes
  <2>3. CASE Authenticate /\ m_ssl # 0
    BY <1>0, <2>1, <2>3 DEF TlsInv
  <2>4. CASE pc' = "send" /\ step' = "STARTTLS"
    BY <1>0, <2>1, <2>4 DEF TlsInv, Secrets
  <2> QED
    BY <2>2, <2>3, <2>4
<1>9. CASE StartTls
  <2>1. UNCHANGED clear
    BY <1>9, AcceptsKeeps DEF StartTls
  <2> QED
    BY <1>0, <1>9, <2>1 DEF StartTls, Goto, TlsInv
<1>10. CASE Authenticated
  <2>1. pc = "recv" /\ step \in Secrets /\ UNCHANGED <<clear, m_ssl>>
    BY <1>10, AcceptsKeeps DEF Authenticated, Secrets
  <2>2. m_ssl # 0
    BY <1>0, <2>1 DEF TlsInv
  <2> QED
    BY <1>0, <2>1, <2>2 DEF TlsInv
<1>11. CASE EnvelopeAccepted
  <2>1. pc = "recv" /\ step \in {"MAILFROM", "RCPTTO", "DATA"} /\ UNCHANGED <<clear, m_ssl>>
    BY <1>11, AcceptsKeeps DEF EnvelopeAccepted
  <2>2. step = "MAILFROM" => reply.code = 250 /\ s2c[m_socket] # <<>>
    BY <1>11, AcceptsKeeps DEF EnvelopeAccepted, Expected, valid_reply_code, find_command_entry,
       Accepts, TakeReplies
  <2>3. m_ssl # 0
    BY <1>0, <2>1, <2>2 DEF TlsInv, Fresh, reply, Secrets
  <2> QED
    BY <1>0, <2>1, <2>3 DEF TlsInv
<1>12. CASE MailAccepted
  <2>1. pc = "recv" /\ step = "DATAEND" /\ UNCHANGED <<clear, m_ssl>> /\ pc' = "user"
    BY <1>12, AcceptsKeeps DEF MailAccepted, Return
  <2>2. m_ssl # 0
    BY <1>0, <2>1 DEF TlsInv, Secrets
  <2> QED
    BY <1>0, <2>1, <2>2 DEF TlsInv
<1>13. CASE QuitAccepted
  <2>1. pc = "recv" /\ step = "QUIT" /\ UNCHANGED <<clear, m_bConnected>> /\ pc' \in {"user", "done"}
    BY <1>13, AcceptsKeeps DEF QuitAccepted, Return
  <2> QED
    BY <1>0, <2>1 DEF TlsInv, SocketOK
<1> QED
  BY <1>1, <1>2, <1>3, <1>4, <1>5, <1>6, <1>7, <1>8, <1>9, <1>10, <1>11, <1>12, <1>13
  DEF ClientStep, OwnerStep

(* With USE_TLS or USE_SSL no credential, recipient or text leaves the     *)
(* program in the clear, whatever the relay offers or answers and however  *)
(* often the owner calls, up to a call on a connection that is left over   *)
(* from a failed QUIT.                                                     *)
THEOREM SecretsStayInTls == Spec => []SecretsOnlyInTls
<1> DEFINE IInv == TypeOK /\ SocketOK /\ Unopened /\ TlsInv
<1>1. Init => IInv
  <2> SUFFICES ASSUME Init PROVE IInv
    OBVIOUS
  <2>1. TypeOK /\ SocketOK
    BY InitType, RelayAssumption
  <2>2. Unopened /\ TlsInv
    BY DEF Init, RelayInit, Unopened, TlsInv
  <2> QED
    BY <2>1, <2>2
<1>2. IInv /\ [Next]_vars => IInv'
  <2> SUFFICES ASSUME IInv, [Next]_vars PROVE IInv'
    OBVIOUS
  <2>1. (TypeOK /\ SocketOK)'
    BY TypeStep
  <2>2. CASE ClientStep
    <3>1. Unopened'
      BY <2>2, ClientKeepsUnopened, RelayAssumption
    <3>2. TlsInv'
      BY <2>2, ClientKeepsTls, RelayAssumption DEF TlsInv
    <3> QED
      BY <2>1, <3>1, <3>2
  <2>3. CASE Relay
    <3>1. Unopened'
      BY <2>3, RelayKeepsUnopened DEF Relay, socket
    <3>2. UNCHANGED <<conf, pc, step, m_socket, m_bConnected, m_ssl, resumed, clear>>
      BY <2>3 DEF Relay, RelayStep, control, socket, history, Greet, AcceptCommand, RefuseCommand,
         ReadLine, ReadDot, ReadGarbage, Hangup
    <3>3. pc \in {"send", "recv"} /\ Fresh(m_socket) => Fresh(m_socket)'
      <4> SUFFICES ASSUME pc \in {"send", "recv"}, Fresh(m_socket) PROVE Fresh(m_socket)'
        OBVIOUS
      <4>1. m_socket \in Conns
        BY DEF SocketOK, TypeOK, ClientTypeOK, Conns
      <4>2. \A c \in Conns : Fresh(c) => Fresh(c)'
        BY <2>3, RelayKeepsFresh, RelayAssumption DEF Relay
      <4> QED
        BY <3>2, <4>1, <4>2 DEF Fresh
    <3>4. TlsInv'
      BY <3>2, <3>3 DEF TlsInv, Guarded
    <3> QED
      BY <2>1, <3>1, <3>4
  <2>4. CASE UNCHANGED vars
    BY <2>1, <2>4 DEF vars, relayVars, control, socket, history, Unopened, TlsInv, Guarded, Fresh
  <2> QED
    BY <2>2, <2>3, <2>4 DEF Next, Gone
<1>3. IInv => SecretsOnlyInTls
  BY DEF TlsInv, Guarded, SecretsOnlyInTls
<1> QED
  BY <1>1, <1>2, <1>3, PTL DEF Spec

-----------------------------------------------------------------------------
(* Descriptors, and the destructor.                                        *)

(* An owner that calls connect_remote_server itself is not told of a       *)
(* connect() that completed at once, before the greeting: the object then  *)
(* has a socket that neither it nor its destructor counts as connected.    *)
NoEarlyReturn == Immediate => "connect" \notin UserCalls

(* A socket in the hands of the owner belongs to a connection that is made *)
(* or has failed to say QUIT; only MAIL FROM is reached without the former *)
(* and the latter, behind a connect() that completed at once, and there    *)
(* the relay's greeting is unread.                                         *)
Courses ==
  /\ fds \subseteq {m_socket}
  /\ pc = "connect" => caller = "send_mail" \/ "connect" \in UserCalls
  /\ pc \in {"user", "done"} /\ m_socket # 0 => m_bConnected \/ quit_failed
  /\ pc = "tls" /\ conf.security # "USE_SSL" => m_bConnected
  /\ pc \in {"send", "recv"} /\ step \in ConnectSteps \ {"INIT", "EHLO"} => m_bConnected
  /\ pc \in {"send", "recv"} /\ step \in MailSteps =>
       m_bConnected \/ quit_failed \/ (step = "MAILFROM" /\ Fresh(m_socket))

LEMMA ThrowKeepsCourses ==
  ASSUME SocketOK, pc \in {"tls", "send", "recv"}, Courses, NEW buf, Throw(buf), UNCHANGED conf
  PROVE  Courses'
<1>1. "QUIT" \notin MailSteps \cup ConnectSteps
  BY DEF MailSteps, ConnectSteps
<1>2. CASE step = "QUIT"
  BY <1>1, <1>2 DEF Throw, Return, Courses
<1>3. CASE step # "QUIT"
  BY <1>1, <1>3 DEF Throw, BeginQuit, CloseSocket, Return, Goto, Courses
<1> QED
  BY <1>2, <1>3

LEMMA OwnerKeepsCourses ==
  ASSUME Courses, SocketOK, OwnerStep
  PROVE  Courses'
<1>1. "QUIT" \notin MailSteps \cup ConnectSteps /\ "MAILFROM" \in MailSteps \ ConnectSteps
  BY DEF MailSteps, ConnectSteps
<1>2. CASE CallSendMail
  <2>1. pc = "user" /\ UNCHANGED <<fds, m_socket, m_bConnected, quit_failed>> /\ caller' = "send_mail"
        /\ IF m_socket = 0 THEN pc' = "connect" ELSE pc' = "send" /\ step' = "MAILFROM"
    BY <1>2 DEF CallSendMail, socket
  <2> QED
    BY <1>1, <2>1 DEF Courses
<1>3. CASE CallConnect
  BY <1>3 DEF CallConnect, Courses, socket
<1>4. CASE CallDisconnect
  BY <1>1, <1>4 DEF CallDisconnect, CloseSocket, control, history, Courses
<1>5. CASE Destroy
  BY <1>1, <1>5 DEF Destroy, history, Courses
<1> QED
  BY <1>2, <1>3, <1>4, <1>5 DEF OwnerStep

LEMMA ConnectKeepsCourses ==
  ASSUME NoEarlyReturn, TypeOK, SocketOK, Unopened, Courses,
         ConnectFails \/ ConnectSucceeds \/ Handshake
  PROVE  Courses'
<1>1. "EHLO_TLS" \notin MailSteps /\ "INIT" \notin MailSteps /\ "MAILFROM" \notin ConnectSteps
  BY DEF MailSteps, ConnectSteps
<1>2. CASE ConnectFails
  BY <1>2 DEF ConnectFails, Return, socket, SocketOK, Courses
<1>3. CASE ConnectSucceeds
  <2>1. /\ pc = "connect" /\ opened + 1 \in Conns /\ m_socket' = opened + 1
        /\ fds' = fds \cup {opened + 1} /\ UNCHANGED <<conf, s2c, m_bConnected, quit_failed>>
        /\ phase' = [phase EXCEPT ![opened + 1] = IF conf.implicit THEN "sslwait" ELSE "new"]
        /\ \/ Immediate /\ Connected
           \/ conf.security = "USE_SSL" /\ Goto("tls", "INIT", 0)
           \/ Goto("recv", "INIT", 0)
    BY <1>3 DEF ConnectSucceeds, history
  <2>2. fds' \subseteq {m_socket'}
    <3>1. fds = {}
      BY <2>1 DEF SocketOK, Courses, TypeOK, ClientTypeOK, Conns
    <3> QED
      BY <2>1, <3>1
  <2>3. Fresh(m_socket)'
    <3>1. s2c[opened + 1] = <<>>
      <4>1. opened + 1 > opened
        BY DEF TypeOK, ClientTypeOK
      <4> QED
        BY <2>1, <4>1 DEF Unopened
    <3>2. phase'[opened + 1] \in {"sslwait", "new"}
      BY <2>1 DEF TypeOK, RelayTypeOK
    <3> QED
      BY <2>1, <3>1, <3>2 DEF Fresh
  <2>4. \/ pc' = "send" /\ step' = "MAILFROM"
        \/ pc' = "tls" /\ conf.security = "USE_SSL"
        \/ pc' = "recv" /\ step' = "INIT"
    BY <2>1 DEF Connected, Goto, NoEarlyReturn, Courses
  <2> QED
    BY <1>1, <2>1, <2>2, <2>3, <2>4 DEF Courses
<1>4. CASE Handshake
  <2>1. /\ pc \in {"tls", "send"} /\ m_ssl = m_socket /\ m_ssl # 0
        /\ phase[m_ssl] \in {"sslwait", "starttls"}
        /\ phase' = [phase EXCEPT ![m_ssl] = IF @ = "sslwait" THEN "new" ELSE "cmd"]
        /\ UNCHANGED <<conf, s2c, fds, m_socket, m_bConnected, quit_failed>>
        /\ IF pc = "send" THEN UNCHANGED control
           ELSE IF conf.security = "USE_SSL" THEN Goto("recv", "INIT", 0)
           ELSE Goto("send", "EHLO_TLS", 0)
    BY <1>4 DEF Handshake, socket, history
  <2>2. Fresh(m_socket) => Fresh(m_socket)'
    <3>1. m_socket \in Conns
      BY <2>1 DEF TypeOK, ClientTypeOK, Conns
    <3>2. phase'[m_socket] = IF phase[m_socket] = "sslwait" THEN "new" ELSE "cmd"
      BY <2>1, <3>1 DEF TypeOK, RelayTypeOK
    <3> QED
      BY <2>1, <3>2 DEF Fresh
  <2>3. CASE pc = "send"
    BY <2>1, <2>2, <2>3 DEF control, Courses
  <2>4. CASE pc = "tls"
    BY <1>1, <2>1, <2>4 DEF Goto, Courses
  <2> QED
    BY <2>1, <2>3, <2>4
<1> QED
  BY <1>2, <1>3, <1>4

LEMMA ReplyKeepsCourses ==
  ASSUME TypeOK, SocketOK, Courses,
         Greeted \/ Hello \/ StartTls \/ Authenticated \/ EnvelopeAccepted \/ MailAccepted \/ QuitAccepted
  PROVE  Courses'
<1>0. /\ "QUIT" \notin MailSteps \cup ConnectSteps
      /\ {"EHLO", "STARTTLS", "EHLO_TLS", "AUTHLOGIN", "USER", "PASSWORD", "AUTHPLAIN", "AUTHCRAMMD5",
          "CRAMRESPONSE"} \subseteq ConnectSteps \ MailSteps
      /\ {"MAILFROM", "RCPTTO", "DATA", "DATABLOCK", "DATAEND"} \subseteq MailSteps \ ConnectSteps
      /\ \A kw : AuthStep(kw) \in ConnectSteps \ MailSteps
  <2>1. AuthSteps \subseteq ConnectSteps \ MailSteps
    BY DEF AuthSteps, ConnectSteps, MailSteps
  <2> QED
    BY <2>1, AuthStepType DEF MailSteps, ConnectSteps
<1>1. ASSUME NEW s, Accepts(s)
      PROVE  pc = "recv" /\ step = s /\ UNCHANGED <<conf, quit_failed>>
             /\ (s = "MAILFROM" => ~Fresh(m_socket))
  <2>1. TakeReplies /\ Expected(s) /\ step = s /\ UNCHANGED quit_failed
    BY <1>1 DEF Accepts
  <2>2. s = "MAILFROM" => reply.code = 250
    BY <2>1 DEF Expected, valid_reply_code, find_command_entry
  <2> QED
    BY <2>1, <2>2 DEF TakeReplies, Fresh, reply
<1>2. CASE Greeted
  <2>1. pc = "recv" /\ UNCHANGED <<conf, quit_failed, m_socket, fds, m_bConnected>>
        /\ Goto("send", "EHLO", 0)
    BY <1>1, <1>2 DEF Greeted
  <2> QED
    BY <1>0, <2>1 DEF Courses, Goto
<1>3. CASE Hello
  <2>1. m_bConnected' = TRUE /\ UNCHANGED <<m_socket, fds>>
    BY <1>3 DEF Hello
  <2>2. \/ pc' = "user"
        \/ pc' = "send"
    <3>1. Goto("send", "STARTTLS", 0) \/ Authenticate
      BY <1>3 DEF Hello
    <3> QED
      BY <3>1 DEF Authenticate, Connected, Goto, Return
  <2> QED
    BY <2>1, <2>2 DEF Courses
<1>4. CASE StartTls
  <2>1. Accepts("STARTTLS") /\ pc' = "tls" /\ UNCHANGED <<m_socket, fds, m_bConnected>>
    BY <1>4 DEF StartTls, Goto
  <2>2. pc = "recv" /\ step = "STARTTLS" /\ UNCHANGED <<conf, quit_failed>>
    BY <1>1, <2>1
  <2>3. m_bConnected
    BY <1>0, <2>2 DEF Courses
  <2> QED
    BY <2>1, <2>2, <2>3 DEF Courses
<1>5. CASE Authenticated
  <2>1. UNCHANGED <<m_socket, fds, m_bConnected>>
    BY <1>5 DEF Authenticated
  <2>2. \E s \in {"AUTHLOGIN", "USER", "AUTHCRAMMD5", "PASSWORD", "AUTHPLAIN", "CRAMRESPONSE"} : Accepts(s)
    BY <1>5, Zenon DEF Authenticated
  <2>3. m_bConnected /\ UNCHANGED <<conf, quit_failed>>
    BY <1>0, <1>1, <2>2 DEF Courses
  <2>4. \/ Goto("send", "USER", 0) \/ Goto("send", "PASSWORD", 0) \/ Goto("send", "CRAMRESPONSE", 0)
        \/ Connected
    BY <1>5 DEF Authenticated
  <2>5. pc' \in {"send", "user"}
    BY <2>4 DEF Connected, Goto, Return
  <2> QED
    BY <2>1, <2>3, <2>5 DEF Courses
<1>6. CASE EnvelopeAccepted
  <2>1. UNCHANGED <<m_socket, fds, m_bConnected>>
    BY <1>6 DEF EnvelopeAccepted
  <2>2. \E s \in {"MAILFROM", "RCPTTO", "DATA"} : Accepts(s)
    BY <1>6, Zenon DEF EnvelopeAccepted
  <2>3. (m_bConnected \/ quit_failed) /\ UNCHANGED <<conf, quit_failed>>
    BY <1>0, <1>1, <2>2 DEF Courses
  <2>4. pc' = "send" /\ step' \in MailSteps \ ConnectSteps
    BY <1>0, <1>6 DEF EnvelopeAccepted, Goto
  <2> QED
    BY <2>1, <2>3, <2>4 DEF Courses
<1>7. CASE MailAccepted
  <2>1. Accepts("DATAEND") /\ Return /\ UNCHANGED <<m_socket, fds, m_bConnected>>
    BY <1>7 DEF MailAccepted
  <2>2. pc = "recv" /\ step = "DATAEND" /\ UNCHANGED <<conf, quit_failed>>
    BY <1>1, <2>1
  <2>3. m_bConnected \/ quit_failed
    BY <1>0, <2>2 DEF Courses
  <2> QED
    BY <2>1, <2>2, <2>3 DEF Courses, Return
<1>8. CASE QuitAccepted
  <2>1. Accepts("QUIT") /\ CloseSocket /\ pc' \in {"user", "done"}
    BY <1>8 DEF QuitAccepted, Return
  <2> QED
    BY <2>1 DEF Courses, CloseSocket
<1> QED
  BY <1>2, <1>3, <1>4, <1>5, <1>6, <1>7, <1>8

LEMMA ClientKeepsCourses ==
  ASSUME NoEarlyReturn, TypeOK, SocketOK, Unopened, Courses, ClientStep
  PROVE  Courses'
<1>1. CASE OwnerStep
  BY <1>1, OwnerKeepsCourses
<1>2. CASE ConnectFails \/ ConnectSucceeds \/ Handshake
  BY <1>2, ConnectKeepsCourses
<1>3. CASE HandshakeFails \/ ThrowBeforeSend \/ SendFails \/ ReceiveFails
  <2>1. pc \in {"tls", "send", "recv"} /\ UNCHANGED conf
    BY <1>3 DEF HandshakeFails, ThrowBeforeSend, SendFails, ReceiveFails, relayVars
  <2>2. Throw(m_receive_buffer) \/ Throw(NoReply)
    BY <1>3, Zenon DEF HandshakeFails, ThrowBeforeSend, SendFails, ReceiveFails
  <2> QED
    BY <2>1, <2>2, ThrowKeepsCourses
<1>4. CASE ReplyRefused
  <2>1. pc = "recv" /\ UNCHANGED conf
        /\ Throw(IF reply.via = m_ssl THEN reply ELSE m_receive_buffer)
    BY <1>4 DEF ReplyRefused, TakeReplies
  <2> QED
    BY <2>1, ThrowKeepsCourses
<1>5. CASE Send
  <2>1. pc = "send" /\ UNCHANGED <<conf, phase, s2c, fds, m_socket, m_bConnected, quit_failed>>
    BY <1>5 DEF Send, socket
  <2>2. \/ step = "DATABLOCK" /\ pc' = "send" /\ step' \in {"DATABLOCK", "DATAEND"}
        \/ pc' = "recv" /\ step' = step
    BY <1>5 DEF Send, AfterBlock, Goto
  <2>3. {"DATABLOCK", "DATAEND"} \subseteq MailSteps \ ConnectSteps
    BY DEF MailSteps, ConnectSteps
  <2>4. Fresh(m_socket)' <=> Fresh(m_socket)
    BY <2>1 DEF Fresh
  <2> QED
    BY <2>1, <2>2, <2>3, <2>4 DEF Courses
<1>6. CASE Killed
  BY <1>6 DEF Killed, Courses
<1>7. CASE Greeted \/ Hello \/ StartTls \/ Authenticated \/ EnvelopeAccepted \/ MailAccepted \/ QuitAccepted
  BY <1>7, ReplyKeepsCourses
<1> QED
  BY <1>1, <1>2, <1>3, <1>4, <1>5, <1>6, <1>7 DEF ClientStep

(* A step of the relay, or none, leaves the client where it is, and an     *)
(* unread greeting unread.                                                 *)
LEMMA RelayKeepsCourses ==
  ASSUME TypeOK, SocketOK, RelayAssumption, Courses, Relay \/ UNCHANGED vars
  PROVE  Courses' /\ UNCHANGED <<control, socket, history>>
<1>1. UNCHANGED <<conf, control, socket, history>>
  BY DEF Relay, RelayStep, Greet, AcceptCommand, RefuseCommand, ReadLine, ReadDot, ReadGarbage,
     Hangup, vars, relayVars
<1>2. pc \in {"send", "recv"} /\ Fresh(m_socket) => Fresh(m_socket)'
  <2> SUFFICES ASSUME pc \in {"send", "recv"}, Fresh(m_socket) PROVE Fresh(m_socket)'
    OBVIOUS
  <2>1. m_socket \in Conns
    BY DEF SocketOK, TypeOK, ClientTypeOK, Conns
  <2>2. CASE Relay
    <3>1. \A c \in Conns : Fresh(c) => Fresh(c)'
      BY <2>2, RelayKeepsFresh DEF Relay
    <3> QED
      BY <1>1, <2>1, <3>1 DEF Fresh, socket
  <2>3. CASE UNCHANGED vars
    BY <2>3 DEF vars, relayVars, socket, Fresh
  <2> QED
    BY <2>2, <2>3
<1> QED
  BY <1>1, <1>2 DEF Courses, control, socket, history

LEMMA CoursesInv == ASSUME NoEarlyReturn PROVE Spec => [](TypeOK /\ SocketOK /\ Unopened /\ Courses)
<1> DEFINE IInv == TypeOK /\ SocketOK /\ Unopened /\ Courses
<1>1. Init => IInv
  <2> SUFFICES ASSUME Init PROVE IInv
    OBVIOUS
  <2>1. TypeOK /\ SocketOK
    BY InitType, RelayAssumption
  <2>2. Unopened /\ Courses
    BY DEF Init, RelayInit, Unopened, Courses
  <2> QED
    BY <2>1, <2>2
<1>2. IInv /\ [Next]_vars => IInv'
  <2> SUFFICES ASSUME IInv, [Next]_vars PROVE IInv'
    OBVIOUS
  <2>1. (TypeOK /\ SocketOK)'
    BY TypeStep
  <2>2. CASE ClientStep
    BY <2>1, <2>2, ClientKeepsUnopened, ClientKeepsCourses, RelayAssumption
  <2>3. CASE Relay
    <3>1. Courses' /\ UNCHANGED socket
      BY <2>3, RelayKeepsCourses, RelayAssumption
    <3>2. Unopened'
      BY <2>3, <3>1, RelayKeepsUnopened DEF Relay, socket
    <3> QED
      BY <2>1, <3>1, <3>2
  <2>4. CASE UNCHANGED vars
    <3>1. Courses'
      BY <2>4, RelayKeepsCourses, RelayAssumption
    <3>2. Unopened'
      BY <2>4 DEF vars, relayVars, socket, Unopened
    <3> QED
      BY <2>1, <3>1, <3>2
  <2> QED
    BY <2>2, <2>3, <2>4 DEF Next, Gone
<1> QED
  BY <1>1, <1>2, PTL DEF Spec

(* No descriptor but that of m_socket is ever open, and an object that is  *)
(* done has closed that one too unless a QUIT failed: for every order of   *)
(* calls, if a connect() that completes at once is not one of the owner's. *)
THEOREM DescriptorsAreClosed == ASSUME NoEarlyReturn PROVE Spec => []DescriptorsClosed
<1>1. TypeOK /\ Courses => DescriptorsClosed
  <2>1. TypeOK => 0 \notin fds
    BY DEF TypeOK, ClientTypeOK, Conns
  <2> QED
    BY <2>1 DEF Courses, DescriptorsClosed
<1> QED
  BY <1>1, CoursesInv, PTL

(* An owner that gives up after a send_mail that threw never goes on with  *)
(* a connection that a failed QUIT left behind.                            *)
THEOREM NeverResumed ==
  ASSUME NoEarlyReturn, "retry" \notin UserCalls
  PROVE  Spec => []~resumed
<1> DEFINE IInv == SocketOK /\ Courses
<1>1. Init => ~resumed
  BY DEF Init
<1>2. IInv /\ ~resumed /\ [Next]_vars => ~resumed'
  <2> SUFFICES ASSUME IInv, ~resumed, [Next]_vars PROVE ~resumed'
    OBVIOUS
  <2>1. CASE CallSendMail
    <3>1. pc = "user" /\ ~quit_failed /\ resumed' = (resumed \/ (m_socket # 0 /\ ~m_bConnected))
      BY <2>1 DEF CallSendMail
    <3> QED
      BY <3>1 DEF Courses
  <2>2. CASE CallConnect \/ CallDisconnect \/ Destroy
    BY <2>2 DEF CallConnect, CallDisconnect, Destroy, history
  <2>3. CASE ConnectFails \/ ConnectSucceeds \/ Handshake \/ Send \/ Killed
    BY <2>3 DEF ConnectFails, ConnectSucceeds, Handshake, Send, Killed, history
  <2>4. CASE HandshakeFails \/ ThrowBeforeSend \/ SendFails \/ ReceiveFails \/ ReplyRefused
    BY <2>4 DEF HandshakeFails, ThrowBeforeSend, SendFails, ReceiveFails, ReplyRefused, Throw
  <2>5. CASE Greeted \/ Hello \/ StartTls \/ Authenticated \/ EnvelopeAccepted
    BY <2>5, AcceptsSome, AcceptsKeeps
  <2>6. CASE MailAccepted \/ QuitAccepted
    BY <2>6, AcceptsKeeps DEF MailAccepted, QuitAccepted
  <2>7. CASE Relay \/ UNCHANGED vars
    BY <2>7 DEF Relay, vars, history
  <2> QED
    BY <2>1, <2>2, <2>3, <2>4, <2>5, <2>6, <2>7 DEF Next, Gone, ClientStep, OwnerStep
<1> QED
  BY <1>1, <1>2, CoursesInv, PTL DEF Spec

(* Without connect_remote_server among the owner's calls, every connection *)
(* is made by a send_mail, and is left open only by one that succeeded;    *)
(* the destructor says QUIT on no other.                                   *)
LastSent == results # <<>> /\ results[Len(results)].ok
OpenAfterSuccess ==
  /\ pc \in {"connect", "tls"} => caller = "send_mail"
  /\ pc \in {"send", "recv"} /\ step # "QUIT" => caller = "send_mail"
  /\ pc = "user" /\ m_bConnected => LastSent
  /\ caller = "destructor" => LastSent
  /\ pc = "terminated" => caller = "destructor"

LEMMA ClientKeepsOpenAfterSuccess ==
  ASSUME "connect" \notin UserCalls, TypeOK, SocketOK, OpenAfterSuccess, ClientStep
  PROVE  OpenAfterSuccess'
<1>1. CASE CallSendMail
  BY <1>1 DEF CallSendMail, OpenAfterSuccess
<1>2. CASE CallConnect
  BY <1>2 DEF CallConnect
<1>3. CASE CallDisconnect
  BY <1>3 DEF CallDisconnect, OpenAfterSuccess, LastSent, control, history
<1>4. CASE Destroy
  BY <1>4 DEF Destroy, OpenAfterSuccess, LastSent, history
<1>5. CASE ConnectFails
  <2>1. pc = "connect" /\ pc' = "user" /\ caller' = "none" /\ m_bConnected' = m_bConnected
    BY <1>5 DEF ConnectFails, Return, socket
  <2> QED
    BY <2>1 DEF OpenAfterSuccess, SocketOK
<1>6. CASE ConnectSucceeds
  <2>1. pc = "connect" /\ UNCHANGED history
        /\ (Connected \/ Goto("tls", "INIT", 0) \/ Goto("recv", "INIT", 0))
    BY <1>6 DEF ConnectSucceeds
  <2>2. caller = "send_mail" /\ UNCHANGED results
    BY <2>1 DEF OpenAfterSuccess, history
  <2> QED
    BY <2>1, <2>2 DEF Connected, Goto, OpenAfterSuccess
<1>7. CASE Handshake
  BY <1>7 DEF Handshake, Goto, control, socket, history, OpenAfterSuccess, LastSent, SocketOK
<1>8. ASSUME NEW buf, pc \in {"tls", "send", "recv"}, Throw(buf) PROVE OpenAfterSuccess'
  <2>1. CASE step = "QUIT"
    BY <1>8, <2>1 DEF Throw, Return, SocketOK, OpenAfterSuccess, LastSent
  <2>2. CASE step # "QUIT"
    BY <1>8, <2>2 DEF Throw, BeginQuit, CloseSocket, Return, Goto, OpenAfterSuccess
  <2> QED
    BY <2>1, <2>2
<1>9. CASE HandshakeFails \/ ThrowBeforeSend \/ SendFails \/ ReceiveFails
  <2>1. pc \in {"tls", "send", "recv"} /\ (Throw(m_receive_buffer) \/ Throw(NoReply))
    BY <1>9, Zenon DEF HandshakeFails, ThrowBeforeSend, SendFails, ReceiveFails
  <2> QED
    BY <1>8, <2>1
<1>10. CASE ReplyRefused
  <2>1. pc = "recv" /\ Throw(IF reply.via = m_ssl THEN reply ELSE m_receive_buffer)
    BY <1>10 DEF ReplyRefused, TakeReplies
  <2> QED
    BY <1>8, <2>1
<1>11. CASE Send
  <2>1. pc = "send" /\ UNCHANGED <<caller, m_bConnected, results>>
        /\ \/ step = "DATABLOCK" /\ pc' = "send" /\ step' \in {"DATABLOCK", "DATAEND"}
           \/ pc' = "recv" /\ step' = step
    BY <1>11 DEF Send, AfterBlock, Goto, socket
  <2> QED
    BY <2>1 DEF OpenAfterSuccess, LastSent
<1>12. CASE Killed
  BY <1>12 DEF Killed, history, OpenAfterSuccess, LastSent
<1>13. CASE Greeted \/ Hello \/ StartTls \/ Authenticated \/ EnvelopeAccepted
  <2>1. PICK s : Accepts(s)
    BY <1>13, AcceptsSome
  <2>2. pc = "recv" /\ step = s
    BY <2>1, AcceptsKeeps
  <2>3. s # "QUIT" /\ results' = results
    <3>1. CASE Greeted \/ StartTls
      BY <2>2, <3>1, AcceptsKeeps DEF Greeted, StartTls
    <3>2. CASE Hello
      BY <2>2, <3>2, AcceptsKeeps DEF Hello
    <3>3. CASE Authenticated
      BY <2>2, <3>3, AcceptsKeeps DEF Authenticated
    <3>4. CASE EnvelopeAccepted
      BY <2>2, <3>4, AcceptsKeeps DEF EnvelopeAccepted
    <3> QED
      BY <1>13, <3>1, <3>2, <3>3, <3>4
  <2>4. caller = "send_mail"
    BY <2>2, <2>3 DEF OpenAfterSuccess
  <2>5. pc' \in {"send", "tls"} /\ caller' = caller
    BY <1>13, <2>4 DEF Greeted, Hello, StartTls, Authenticated, EnvelopeAccepted, Authenticate,
       Connected, Goto
  <2> QED
    BY <2>3, <2>4, <2>5 DEF OpenAfterSuccess
<1>14. CASE MailAccepted
  <2>1. pc' = "user" /\ caller' = "none"
        /\ results' = Append(results, [ok |-> TRUE, at |-> "DATAEND", code |-> reply.code])
    BY <1>14 DEF MailAccepted, Return
  <2>2. reply.code \in ReplyCodes
    BY <1>14, AcceptsType DEF MailAccepted, Reply
  <2>3. PICK r : r = [ok |-> TRUE, at |-> "DATAEND", code |-> reply.code]
    OBVIOUS
  <2>4. r \in Result /\ r.ok
    BY <2>2, <2>3, StepTypes DEF Result
  <2>5. results' = Append(results, r) /\ results \in Seq(Result)
    BY <2>1, <2>3 DEF TypeOK, ClientTypeOK
  <2>6. results' # <<>> /\ results'[Len(results')] = r
    BY <2>4, <2>5, AppendProperties, LenProperties
  <2> QED
    BY <2>1, <2>4, <2>6 DEF OpenAfterSuccess, LastSent
<1>15. CASE QuitAccepted
  <2>1. pc = "recv" /\ step = "QUIT" /\ UNCHANGED <<m_bConnected, results>>
    BY <1>15, AcceptsKeeps DEF QuitAccepted
  <2>2. \/ pc' = "done" /\ UNCHANGED caller
        \/ pc' = "user" /\ caller' = "none"
    BY <1>15 DEF QuitAccepted, Return
  <2> QED
    BY <2>1, <2>2 DEF OpenAfterSuccess, LastSent, SocketOK
<1> QED
  BY <1>1, <1>2, <1>3, <1>4, <1>5, <1>6, <1>7, <1>9, <1>10, <1>11, <1>12, <1>13, <1>14, <1>15
     DEF ClientStep, OwnerStep

(* The destructor brings the program down only after a send_mail that      *)
(* succeeded: a mail that failed has closed its connection already.        *)
THEOREM TerminatesAfterSuccess ==
  ASSUME "connect" \notin UserCalls
  PROVE  Spec => []TerminatesOnlyAfterSuccess
<1> DEFINE IInv == TypeOK /\ SocketOK /\ OpenAfterSuccess
<1>1. Init => IInv
  <2> SUFFICES ASSUME Init PROVE IInv
    OBVIOUS
  <2>1. TypeOK /\ SocketOK
    BY InitType, RelayAssumption
  <2>2. OpenAfterSuccess
    BY DEF Init, OpenAfterSuccess
  <2> QED
    BY <2>1, <2>2
<1>2. IInv /\ [Next]_vars => IInv'
  <2> SUFFICES ASSUME IInv, [Next]_vars PROVE IInv'
    OBVIOUS
  <2>1. (TypeOK /\ SocketOK)'
    BY TypeStep
  <2>2. OpenAfterSuccess'
    <3>1. CASE ClientStep
      BY <3>1, ClientKeepsOpenAfterSuccess
    <3>2. CASE Relay \/ UNCHANGED vars
      BY <3>2 DEF Relay, vars, control, socket, history, OpenAfterSuccess, LastSent
    <3> QED
      BY <3>1, <3>2 DEF Next, Gone
  <2> QED
    BY <2>1, <2>2
<1>3. IInv => TerminatesOnlyAfterSuccess
  BY DEF OpenAfterSuccess, LastSent, TerminatesOnlyAfterSuccess
<1> QED
  BY <1>1, <1>2, <1>3, PTL DEF Spec

-----------------------------------------------------------------------------
(* The object and its relay. *)

(* A single dot is only found behind a line that is cut and so goes on with it. *)
NoDots ==
  \A m \in Mails : \A k \in 1 .. Len(m.lines) :
    m.lines[k] = "dot" => k > 1 /\ m.lines[k - 1] = "long"

-----------------------------------------------------------------------------
(* The inductive invariant.  What holds of the connection in use when      *)
(* nothing has gone wrong with it, step by step, ...                       *)

(* A reply that some command takes for success. *)
Good(r) == r.code \notin {421, 500, 530, 550}

NoGood(c) == \A k \in 1 .. Len(s2c[c]) : ~Good(s2c[c][k])

(* At most one reply is good, and it answers s. *)
GoodFor(c, s) ==
  \A k \in 1 .. Len(s2c[c]) : Good(s2c[c][k]) =>
    s2c[c][k].for = s /\ \A l \in 1 .. Len(s2c[c]) : Good(s2c[c][l]) => l = k

(* What the relay has read of a message and what it has still to read. *)
Stream(c) == body[c] \o c2s[c]

(* The first k recipients, or blocks, of message n and nothing else. *)
IsRcpts(q, n, k) ==
  Len(q) = k /\ \A j \in 1 .. k : q[j].verb = "RCPTTO" /\ q[j].n = n /\ q[j].i = j
StartsWithBlocks(q, n, k) ==
  Len(q) >= k /\ \A j \in 1 .. k : q[j].verb = "DATABLOCK" /\ q[j].n = n /\ q[j].i = j

(* How many recipients and blocks of the message are out before step s, i. *)
RcptsBefore(s, i) ==
  IF s = "RCPTTO" THEN i - 1
  ELSE IF s \in {"DATA", "DATABLOCK", "DATAEND"} THEN Recipients(mail) ELSE 0
BlocksBefore(s, i) ==
  IF s = "DATABLOCK" THEN i - 1 ELSE IF s = "DATAEND" THEN Len(Blocks(mail)) ELSE 0

(* Where the relay stands before step s, i, with len commands and lines on *)
(* their way since DATA.                                                   *)
Stands(c, s, i, len) ==
  /\ phase[c] = IF s \in {"DATABLOCK", "DATAEND"} THEN "data" ELSE "cmd"
  /\ IsRcpts(rcpts[c], Len(mails), RcptsBefore(s, i))
  /\ Len(Stream(c)) = len
  /\ StartsWithBlocks(Stream(c), Len(mails), BlocksBefore(s, i))

(* The client may send s, i: everything before it has been answered.       *)
Ready(c, s, i) ==
  NoGood(c) /\ (phase[c] # "closed" => Stands(c, s, i, BlocksBefore(s, i)))

(* The relay has yet to answer s, i. *)
Asked(c, s, i) ==
  IF s = "INIT"
    THEN phase[c] \in {"sslwait", "new"} /\ Stream(c) = <<>> /\ rcpts[c] = <<>>
    ELSE LET k == BlocksBefore(s, i) + 1 IN
         /\ Stands(c, s, i, k)
         /\ Stream(c)[k].verb = s /\ Stream(c)[k].n = Len(mails) /\ Stream(c)[k].i = i

(* The relay has accepted s, i. *)
Granted(c, s, i) ==
  /\ phase[c] # "closed" =>
       /\ phase[c] = PhaseAfter(s)
       /\ IsRcpts(rcpts[c], Len(mails), IF s = "RCPTTO" THEN i
                                        ELSE IF s = "DATA" THEN Recipients(mail) ELSE 0)
       /\ Stream(c) = <<>>
  /\ s = "DATAEND" => Accepted(Len(mails))

(* The client waits for the answer to s, i. *)
Waiting(c, s, i) ==
  \/ NoGood(c) /\ (phase[c] # "closed" => Asked(c, s, i) \/ (phase[c] = "cmd" /\ c2s[c] = <<>>))
  \/ GoodFor(c, s) /\ Granted(c, s, i)

(* The client is about to negotiate TLS. *)
Securing(c) ==
  IF conf.security = "USE_SSL"
    THEN /\ phase[c] # "starttls" /\ Stream(c) = <<>> /\ rcpts[c] = <<>>
         /\ phase[c] = "sslwait" => s2c[c] = <<>>
    ELSE NoGood(c) /\ (phase[c] # "closed" =>
           phase[c] = "starttls" /\ Stream(c) = <<>> /\ rcpts[c] = <<>>)

(* MAIL FROM may also go to a relay whose greeting is unread (Fresh): that *)
(* is what becomes of a connect() that completes at once.                  *)
InStep ==
  ~resumed =>
    /\ ~mixed
    /\ pc = "user" /\ m_bConnected => Ready(m_socket, "MAILFROM", 0)
    /\ pc = "tls" => Securing(m_socket)
    /\ pc = "send" /\ step # "QUIT" =>
         Ready(m_socket, step, index) \/ (step = "MAILFROM" /\ Fresh(m_socket))
    /\ pc = "recv" /\ step # "QUIT" =>
         Waiting(m_socket, step, index) \/ (step = "MAILFROM" /\ Fresh(m_socket))

(* ... what holds of every connection, also of those given up half-way, ... *)

(* 221 answers QUIT, whatever else was asked before. *)
Farewell == \A c \in Conns : \A k \in 1 .. Len(s2c[c]) : s2c[c][k].code = 221 => s2c[c][k].for = "QUIT"

(* Nothing happens on a connection that has not been opened. *)
Untouched ==
  /\ m_socket <= opened
  /\ \A c \in Conns : c > opened =>
       phase[c] = "none" /\ s2c[c] = <<>> /\ c2s[c] = <<>> /\ rcpts[c] = <<>> /\ body[c] = <<>>

(* Only a whole message is ever followed by its final dot. *)
WholeBeforeDot(c) ==
  /\ \A k \in 1 .. Len(Stream(c)) : Stream(c)[k].verb # "DOT"
  /\ phase[c] \notin {"data", "closed"} => body[c] = <<>>
  /\ \A k \in 1 .. Len(body[c]) : body[c][k].verb # "DATAEND"
  /\ \A k \in 1 .. Len(Stream(c)) : phase[c] # "closed" /\ Stream(c)[k].verb = "DATAEND" =>
       LET n == Stream(c)[k].n IN
       /\ phase[c] = "data" /\ n \in 1 .. Len(mails)
       /\ IsRcpts(rcpts[c], n, Recipients(mails[n]))
       /\ k = Len(Blocks(mails[n])) + 1
       /\ StartsWithBlocks(Stream(c), n, k - 1)

(* ... what holds of each message, once its final dot has been sent, ...    *)

DotSent(n) ==
  \/ \E c \in Conns : \E k \in 1 .. Len(c2s[c]) : c2s[c][k].verb = "DATAEND" /\ c2s[c][k].n = n
  \/ \E j \in 1 .. Len(accepted) : accepted[j].body[1].n = n

(* send_mail is in progress and has not reported yet. *)
Unreported ==
  caller = "send_mail" /\ (pc = "connect" \/ (pc \in {"tls", "send", "recv"} /\ step # "QUIT"))

OneDot ==
  ~resumed =>
    /\ \A c, d \in Conns : \A k \in 1 .. Len(c2s[c]), l \in 1 .. Len(c2s[d]) :
         /\ c2s[c][k].verb = "DATAEND" /\ c2s[d][l].verb = "DATAEND"
         /\ c2s[c][k].n = c2s[d][l].n
         => c = d /\ k = l
    /\ \A c \in Conns : \A k \in 1 .. Len(c2s[c]) : \A j \in 1 .. Len(accepted) :
         c2s[c][k].verb = "DATAEND" => c2s[c][k].n # accepted[j].body[1].n
    /\ Unreported /\ ~(pc = "recv" /\ step = "DATAEND") => ~DotSent(Len(mails))
    /\ \A n \in 1 .. Len(results) : results[n].ok \/ results[n].at = "DATAEND" \/ ~DotSent(n)
    /\ \A c \in Conns : \A k \in 1 .. Len(c2s[c]) :
         c2s[c][k].verb = "DATAEND" => c2s[c][k].n \in 1 .. Len(mails)

(* ... and what send_mail knows of itself. *)
Counted ==
  /\ pc = "user" => caller = "none"
  /\ pc = "connect" => caller \in {"send_mail", "connect"}
  /\ pc \in {"send", "recv"} /\ step \in MailSteps => caller = "send_mail"
  /\ pc \notin Final => Len(mails) = IF Unreported THEN Len(results) + 1 ELSE Len(results)
  /\ pc \in Final => Len(results) <= Len(mails)
  /\ pc = "tls" => step # "QUIT"
  /\ pc = "recv" => step # "DATABLOCK"
  /\ pc = "send" => step # "INIT"
  /\ pc \in {"send", "recv"} /\ step = "STARTTLS" => conf.security = "USE_TLS"
  /\ pc = "send" /\ step = "RCPTTO" => index = 1 \/ index \in 1 .. Recipients(mail)
  /\ pc = "recv" /\ step = "RCPTTO" => index \in 1 .. Recipients(mail)
  /\ pc = "send" /\ step = "DATABLOCK" => index \in 1 .. Len(Blocks(mail))

DeliveryInv ==
  /\ TypeOK /\ SocketOK /\ Counted /\ Farewell /\ Untouched
  /\ ~resumed => \A c \in Conns : WholeBeforeDot(c)
  /\ InStep /\ OneDot /\ OnlyWholeMailsOnce /\ SuccessMeansAccepted

-----------------------------------------------------------------------------
(* Lemmas about sequences. *)

(* Counting on behind the first of two parts. *)
LEMMA Shift ==
  ASSUME NEW l \in Nat, NEW k \in Nat, NEW i \in 1 .. k
  PROVE  /\ i \in Nat /\ l + i \in 1 .. l + k /\ l + i > l
         /\ k > 0 /\ (l + i = l + k => i = k)
  OBVIOUS

LEMMA Regroup ==
  ASSUME NEW l \in Nat, NEW k \in Nat
  PROVE  l + (k + 1) = k + (l + 1) /\ k >= 0 /\ (k + (l + 1) > l + 1 <=> k > 0)
  OBVIOUS

(* Moving the head of a queue behind what has been read changes nothing in *)
(* the two together.                                                       *)
LEMMA MoveHead ==
  ASSUME NEW S, NEW b \in Seq(S), NEW q \in Seq(S), q # <<>>
  PROVE  Append(b, Head(q)) \o Tail(q) = b \o q
<1>1. Head(q) \in S /\ Tail(q) \in Seq(S) /\ Len(Tail(q)) = Len(q) - 1
      /\ \A i \in 1 .. Len(Tail(q)) : Tail(q)[i] = q[i + 1]
  BY HeadTailProperties
<1>2. Append(b, Head(q)) \in Seq(S) /\ Len(Append(b, Head(q))) = Len(b) + 1
      /\ \A i \in 1 .. Len(b) : Append(b, Head(q))[i] = b[i]
      /\ Append(b, Head(q))[Len(b) + 1] = Head(q)
  BY <1>1, AppendProperties
<1> DEFINE l == Append(b, Head(q)) \o Tail(q)
           r == b \o q
<1>3. l \in Seq(S) /\ r \in Seq(S) /\ Len(l) = Len(b) + Len(q) /\ Len(r) = Len(b) + Len(q)
  BY <1>1, <1>2, ConcatProperties, LenProperties
<1>4. ASSUME NEW i \in 1 .. Len(l) PROVE l[i] = r[i]
  <2>0. Len(q) \in Nat \ {0} /\ Len(b) \in Nat /\ i \in 1 .. Len(b) + Len(q)
    BY <1>3, <1>4, LenProperties, EmptySeq
  <2>1. l[i] = IF i <= Len(b) + 1 THEN Append(b, Head(q))[i] ELSE Tail(q)[i - (Len(b) + 1)]
    BY <1>1, <1>2, <2>0, ConcatProperties
  <2>2. r[i] = IF i <= Len(b) THEN b[i] ELSE q[i - Len(b)]
    BY <2>0, ConcatProperties
  <2>3. q[1] = Head(q)
    BY HeadTailProperties
  <2>4. CASE i <= Len(b)
    BY <1>2, <2>0, <2>1, <2>2, <2>4
  <2>5. CASE i = Len(b) + 1
    BY <1>2, <2>0, <2>1, <2>2, <2>3, <2>5
  <2>6. CASE i > Len(b) + 1
    <3>1. i - (Len(b) + 1) \in 1 .. Len(Tail(q)) /\ i - (Len(b) + 1) + 1 = i - Len(b)
      BY <1>1, <2>0, <2>6
    <3> QED
      BY <1>1, <2>0, <2>1, <2>2, <2>6, <3>1
  <2> QED
    BY <2>0, <2>4, <2>5, <2>6
<1> HIDE DEF l, r
<1>5. l = r
  BY <1>3, <1>4, SeqEqual
<1> QED
  BY <1>5 DEF l, r

(* The elements of two sequences one behind the other. *)
LEMMA Behind ==
  ASSUME NEW S, NEW b \in Seq(S), NEW q \in Seq(S)
  PROVE  /\ b \o q \in Seq(S) /\ Len(b \o q) = Len(b) + Len(q)
         /\ Len(b) \in Nat /\ Len(q) \in Nat
         /\ \A i \in 1 .. Len(b) : (b \o q)[i] = b[i]
         /\ \A i \in 1 .. Len(q) : (b \o q)[Len(b) + i] = q[i]
         /\ b \o q = <<>> => b = <<>> /\ q = <<>>
<1>1. /\ b \o q \in Seq(S) /\ Len(b \o q) = Len(b) + Len(q)
      /\ \A i \in 1 .. Len(b) + Len(q) : (b \o q)[i] = IF i <= Len(b) THEN b[i] ELSE q[i - Len(b)]
  BY ConcatProperties
<1>2. Len(b) \in Nat /\ Len(q) \in Nat
  BY LenProperties
<1>3. \A i \in 1 .. Len(q) : Len(b) + i \in 1 .. Len(b) + Len(q) /\ ~(Len(b) + i <= Len(b))
                             /\ Len(b) + i - Len(b) = i
  BY <1>2
<1>4. b \o q = <<>> => b = <<>> /\ q = <<>>
  BY <1>1, <1>2, EmptySeq, LenProperties
<1> QED
  BY <1>1, <1>2, <1>3, <1>4

LEMMA NotEmpty ==
  ASSUME NEW S, NEW q \in Seq(S)
  PROVE  /\ Len(q) \in Nat
         /\ q # <<>> <=> Len(q) > 0
         /\ q # <<>> => /\ Head(q) = q[1] /\ Head(q) \in S /\ Tail(q) \in Seq(S)
                        /\ Len(Tail(q)) = Len(q) - 1
                        /\ \A i \in 1 .. Len(q) - 1 : Tail(q)[i] = q[i + 1]
<1>1. Len(q) \in Nat /\ (q # <<>> <=> Len(q) > 0)
  BY LenProperties, EmptySeq
<1> QED
  BY <1>1, HeadTailProperties

(* Sending something puts it behind all that is on its way. *)
LEMMA SendBehind ==
  ASSUME NEW S, NEW b \in Seq(S), NEW q \in Seq(S), NEW m \in S
  PROVE  b \o Append(q, m) = Append(b \o q, m)
<1>1. Append(q, m) \in Seq(S) /\ Len(Append(q, m)) = Len(q) + 1
      /\ \A i \in 1 .. Len(q) : Append(q, m)[i] = q[i]
      /\ Append(q, m)[Len(q) + 1] = m
  BY AppendProperties
<1>2. /\ b \o q \in Seq(S) /\ Len(b \o q) = Len(b) + Len(q)
      /\ Len(b) \in Nat /\ Len(q) \in Nat
      /\ \A i \in 1 .. Len(b) + Len(q) : (b \o q)[i] = IF i <= Len(b) THEN b[i] ELSE q[i - Len(b)]
  BY ConcatProperties, LenProperties
<1> DEFINE l == b \o Append(q, m)
           r == Append(b \o q, m)
<1>3. /\ l \in Seq(S) /\ Len(l) = Len(b) + Len(q) + 1
      /\ \A i \in 1 .. Len(b) + Len(q) + 1 :
           l[i] = IF i <= Len(b) THEN b[i] ELSE Append(q, m)[i - Len(b)]
  BY <1>1, <1>2, ConcatProperties
<1>4. /\ r \in Seq(S) /\ Len(r) = Len(b) + Len(q) + 1
      /\ \A i \in 1 .. Len(b) + Len(q) : r[i] = (b \o q)[i]
      /\ r[Len(b) + Len(q) + 1] = m
  BY <1>2, AppendProperties
<1> HIDE DEF l, r
<1>5. ASSUME NEW i \in 1 .. Len(l) PROVE l[i] = r[i]
  <2>0. i \in 1 .. Len(b) + Len(q) + 1
    BY <1>3, <1>5
  <2>1. CASE i <= Len(b)
    <3>1. i \in 1 .. Len(b) + Len(q)
      BY <1>2, <2>0, <2>1
    <3> QED
      BY <1>2, <1>3, <1>4, <2>0, <2>1, <3>1
  <2>2. CASE i > Len(b) /\ i <= Len(b) + Len(q)
    <3>1. i - Len(b) \in 1 .. Len(q)
      BY <1>2, <1>3, <1>5, <2>2
    <3>2. l[i] = q[i - Len(b)]
      BY <1>1, <1>2, <1>3, <1>5, <2>2, <3>1
    <3> QED
      BY <1>2, <1>3, <1>4, <1>5, <2>2, <3>2
  <2>3. CASE i = Len(b) + Len(q) + 1
    BY <1>1, <1>2, <1>3, <1>4, <2>3
  <2>4. Len(b) \in Nat /\ Len(q) \in Nat
    BY <1>2
  <2>5. i <= Len(b) \/ (i > Len(b) /\ i <= Len(b) + Len(q)) \/ i = Len(b) + Len(q) + 1
    BY <2>0, <2>4
  <2> QED
    BY <2>1, <2>2, <2>3, <2>5
<1>6. l = r
  BY <1>3, <1>4, <1>5, SeqEqual
<1> QED
  BY <1>6 DEF l, r

-----------------------------------------------------------------------------
(* What a step of the relay on connection d does, connection by connection. *)

RelayOn(d) ==
  Greet(d) \/ AcceptCommand(d) \/ RefuseCommand(d) \/ ReadLine(d) \/ ReadDot(d)
  \/ ReadGarbage(d) \/ Hangup(d)

(* A reply with this code, to this command, is put behind the others. *)
Replied(d, code, s) ==
  \E r \in Reply : s2c'[d] = Append(s2c[d], r) /\ r.code = code /\ r.for = s

Taken(d) == c2s[d] # <<>> /\ c2s'[d] = Tail(c2s[d])

(* The transaction and the queue of c are as they were. *)
SameMail(c) == rcpts'[c] = rcpts[c] /\ body'[c] = body[c] /\ c2s'[c] = c2s[c]

LEMMA Replies ==
  ASSUME RelayTypeOK, RelayAssumption, NEW d \in Conns, NEW code \in ReplyCodes,
         NEW kw \in SUBSET Keywords, NEW s \in Steps \cup {"NONE"}, Answer(d, code, kw, s)
  PROVE  Replied(d, code, s)
<1> DEFINE r == [code |-> code, kw |-> kw, for |-> s, via |-> Channel(d)]
<1>1. r \in Reply
  BY DEF Channel, Conns, RelayAssumption, Reply
<1>2. s2c'[d] = Append(s2c[d], r)
  BY DEF Answer, RelayTypeOK
<1>3. r.code = code /\ r.for = s
  OBVIOUS
<1> HIDE DEF r
<1> QED
  BY <1>1, <1>2, <1>3 DEF Replied

(* The other connections are left alone. *)
LEMMA RelayElsewhere ==
  ASSUME RelayTypeOK, NEW d \in Conns, RelayOn(d), NEW c \in Conns, c # d
  PROVE  SameMail(c) /\ phase'[c] = phase[c] /\ s2c'[c] = s2c[c]
<1>1. ASSUME NEW code, NEW kw, NEW s, Answer(d, code, kw, s) PROVE s2c'[c] = s2c[c]
  BY <1>1 DEF Answer, RelayTypeOK
<1>2. CASE Greet(d)
  <2>1. s2c'[c] = s2c[c]
    BY <1>1, <1>2 DEF Greet
  <2> QED
    BY <1>2, <2>1 DEF Greet, SameMail, transaction, RelayTypeOK
<1>3. CASE AcceptCommand(d)
  <2>1. s2c'[c] = s2c[c]
    BY <1>1, <1>3, SMT DEF AcceptCommand
  <2> QED
    BY <1>3, <2>1 DEF AcceptCommand, Reads, SameMail, RelayTypeOK
<1>4. CASE RefuseCommand(d)
  <2>1. s2c'[c] = s2c[c]
    BY <1>1, <1>4, SMT DEF RefuseCommand
  <2> QED
    BY <1>4, <2>1 DEF RefuseCommand, Reads, SameMail, transaction, RelayTypeOK
<1>5. CASE ReadLine(d)
  BY <1>5 DEF ReadLine, Reads, SameMail, RelayTypeOK
<1>6. CASE ReadDot(d)
  <2>1. s2c'[c] = s2c[c]
    BY <1>1, <1>6, SMT DEF ReadDot
  <2> QED
    BY <1>6, <2>1 DEF ReadDot, Reads, SameMail, RelayTypeOK
<1>7. CASE ReadGarbage(d)
  BY <1>7 DEF ReadGarbage, SameMail, transaction, RelayTypeOK
<1>8. CASE Hangup(d)
  <2>1. s2c'[c] = s2c[c]
    BY <1>1, <1>8 DEF Hangup
  <2> QED
    BY <1>8, <2>1 DEF Hangup, SameMail, transaction, RelayTypeOK
<1> QED
  BY <1>2, <1>3, <1>4, <1>5, <1>6, <1>7, <1>8 DEF RelayOn

LEMMA GreetHere ==
  ASSUME RelayTypeOK, RelayAssumption, NEW d \in Conns, Greet(d)
  PROVE  /\ phase[d] = "new" /\ SameMail(d) /\ accepted' = accepted
         /\ \/ phase'[d] = "cmd" /\ Replied(d, 220, "INIT")
            \/ phase'[d] = "closed" /\ Replied(d, 421, "INIT")
<1>1. {} \in SUBSET Keywords /\ "INIT" \in Steps \cup {"NONE"} /\ {220, 421} \subseteq ReplyCodes
  BY StepTypes DEF ReplyCodes
<1>2. \A code \in {220, 421} : Answer(d, code, {}, "INIT") => Replied(d, code, "INIT")
  BY <1>1, Replies
<1>3. phase[d] = "new" /\ SameMail(d) /\ accepted' = accepted
  BY DEF Greet, SameMail, transaction
<1>4. phase \in [Conns -> Phases]
  BY DEF RelayTypeOK
<1>5. CASE phase' = [phase EXCEPT ![d] = "cmd"] /\ Answer(d, 220, {}, "INIT")
  BY <1>2, <1>3, <1>4, <1>5
<1>6. CASE phase' = [phase EXCEPT ![d] = "closed"] /\ Answer(d, 421, {}, "INIT")
  BY <1>2, <1>3, <1>4, <1>6
<1> QED
  BY <1>5, <1>6 DEF Greet

LEMMA AcceptHere ==
  ASSUME RelayTypeOK, RelayAssumption, NEW d \in Conns, AcceptCommand(d)
  PROVE  LET m == Head(c2s[d]) IN
         /\ phase[d] = "cmd" /\ Taken(d) /\ m \in Message /\ m.verb \in Steps
         /\ PositiveCode(m.verb) # 0 /\ phase'[d] = PhaseAfter(m.verb)
         /\ body'[d] = body[d] /\ accepted' = accepted
         /\ rcpts'[d] = IF m.verb = "RCPTTO" THEN Append(rcpts[d], m)
                        ELSE IF m.verb \in {"EHLO", "EHLO_TLS"} THEN <<>> ELSE rcpts[d]
         /\ Replied(d, PositiveCode(m.verb), m.verb)
<1> DEFINE m == Head(c2s[d])
<1>1. m \in Message /\ Taken(d) /\ phase[d] = "cmd"
  BY ReadsType DEF AcceptCommand, Reads, Taken, RelayTypeOK
<1>2. PositiveCode(m.verb) # 0
  BY DEF AcceptCommand, InSequence
<1>3. m.verb \in Steps
  BY <1>1, <1>2 DEF Message, Verbs, PositiveCode
<1>4. /\ phase'[d] = PhaseAfter(m.verb) /\ body'[d] = body[d] /\ accepted' = accepted
      /\ rcpts'[d] = IF m.verb = "RCPTTO" THEN Append(rcpts[d], m)
                     ELSE IF m.verb \in {"EHLO", "EHLO_TLS"} THEN <<>> ELSE rcpts[d]
  BY DEF AcceptCommand, RelayTypeOK
<1> DEFINE kw == IF m.verb = "EHLO" THEN conf.keywords
                 ELSE IF m.verb = "EHLO_TLS" THEN conf.keywords \ {"STARTTLS"} ELSE {}
<1>5. kw \in SUBSET Keywords
  BY DEF RelayAssumption, RelayTypeOK, Conf
<1>6. Answer(d, PositiveCode(m.verb), kw, m.verb)
  BY DEF AcceptCommand
<1>7. PositiveCode(m.verb) \in ReplyCodes
  BY PositiveCodeType
<1> HIDE DEF kw
<1>8. Replied(d, PositiveCode(m.verb), m.verb)
  BY <1>3, <1>5, <1>6, <1>7, Replies
<1> QED
  BY <1>1, <1>2, <1>3, <1>4, <1>8

LEMMA RefuseHere ==
  ASSUME RelayTypeOK, RelayAssumption, NEW d \in Conns, RefuseCommand(d)
  PROVE  /\ phase[d] = "cmd" /\ Taken(d) /\ phase'[d] = "cmd" /\ accepted' = accepted
         /\ body'[d] = body[d] /\ rcpts'[d] = rcpts[d]
         /\ \E code \in {500, 530, 550} : \E s : Replied(d, code, s)
<1> DEFINE m == Head(c2s[d])
           s == IF m.verb = "DOT" THEN "DATABLOCK" ELSE m.verb
<1>1. m \in Message /\ Taken(d) /\ phase[d] = "cmd"
  BY ReadsType DEF RefuseCommand, Reads, Taken, RelayTypeOK
<1>2. s \in Steps \cup {"NONE"}
  BY <1>1, StepTypes DEF Message, Verbs
<1>3. \E code \in {500, 530, 550} : Answer(d, code, {}, s)
  BY RelayAssumption DEF RefuseCommand, Refusals
<1> HIDE DEF s
<1>4. {} \in SUBSET Keywords /\ {500, 530, 550} \subseteq ReplyCodes
  BY DEF ReplyCodes
<1>5. \E code \in {500, 530, 550} : Replied(d, code, s)
  BY <1>2, <1>3, <1>4, Replies
<1> QED
  BY <1>1, <1>5 DEF RefuseCommand, transaction

LEMMA LineHere ==
  ASSUME RelayTypeOK, NEW d \in Conns, ReadLine(d)
  PROVE  /\ phase[d] = "data" /\ Taken(d) /\ phase'[d] = "data" /\ accepted' = accepted
         /\ Head(c2s[d]) \in Message /\ Head(c2s[d]).verb \notin {"DATAEND", "DOT"}
         /\ body'[d] = Append(body[d], Head(c2s[d]))
         /\ rcpts'[d] = rcpts[d] /\ s2c'[d] = s2c[d]
<1>1. Head(c2s[d]) \in Message
  BY ReadsType DEF ReadLine
<1> QED
  BY <1>1 DEF ReadLine, Reads, Taken, RelayTypeOK

LEMMA DotHere ==
  ASSUME RelayTypeOK, NEW d \in Conns, ReadDot(d)
  PROVE  /\ phase[d] = "data" /\ Taken(d) /\ phase'[d] = "cmd"
         /\ Head(c2s[d]) \in Message /\ Head(c2s[d]).verb \in {"DATAEND", "DOT"}
         /\ rcpts'[d] = <<>> /\ body'[d] = <<>>
<1>1. Head(c2s[d]) \in Message
  BY ReadsType DEF ReadDot
<1> QED
  BY <1>1 DEF ReadDot, Reads, Taken, RelayTypeOK

(* The relay accepts the message it has read, or refuses it. *)
LEMMA DotAnswered ==
  ASSUME RelayTypeOK, RelayAssumption, NEW d \in Conns, ReadDot(d)
  PROVE  \E s \in {"DATABLOCK", "DATAEND"} :
           /\ s = "DATABLOCK" => Head(c2s[d]).verb = "DOT"
           /\ \/ /\ accepted' = Append(accepted, [rcpts |-> rcpts[d], body |-> body[d]])
                 /\ Replied(d, 250, s)
              \/ /\ accepted' = accepted
                 /\ \E code \in {500, 530, 550} : Replied(d, code, s)
<1> DEFINE s == IF Head(c2s[d]).verb = "DOT" THEN "DATABLOCK" ELSE "DATAEND"
           a == [rcpts |-> rcpts[d], body |-> body[d]]
<1>1. PICK code \in RejectCodes \cup {250} :
        accepted' = (IF code = 250 THEN Append(accepted, a) ELSE accepted) /\ Answer(d, code, {}, s)
  BY DEF ReadDot
<1>2. {} \in SUBSET Keywords /\ code \in ReplyCodes /\ s \in Steps \cup {"NONE"}
      /\ (code # 250 => code \in {500, 530, 550})
  BY StepTypes, RelayAssumption DEF ReplyCodes, Refusals
<1>3. s \in {"DATABLOCK", "DATAEND"} /\ (s = "DATABLOCK" => Head(c2s[d]).verb = "DOT")
  OBVIOUS
<1> HIDE DEF s, a
<1>4. Replied(d, code, s)
  BY <1>1, <1>2, Replies
<1>5. \/ accepted' = Append(accepted, a) /\ Replied(d, 250, s)
      \/ accepted' = accepted /\ \E e \in {500, 530, 550} : Replied(d, e, s)
  BY <1>1, <1>2, <1>4
<1> QED
  BY <1>3, <1>5 DEF a

LEMMA CloseHere ==
  ASSUME RelayTypeOK, RelayAssumption, NEW d \in Conns, ReadGarbage(d) \/ Hangup(d)
  PROVE  /\ phase[d] \notin {"none", "closed"} /\ phase'[d] = "closed"
         /\ SameMail(d) /\ accepted' = accepted
         /\ \/ s2c'[d] = s2c[d]
            \/ phase[d] \in {"cmd", "data"} /\ Replied(d, 421, "NONE")
<1>1. CASE ReadGarbage(d)
  BY <1>1 DEF ReadGarbage, SameMail, transaction, RelayTypeOK
<1>2. CASE Hangup(d)
  <2>1. {} \in SUBSET Keywords /\ 421 \in ReplyCodes /\ "NONE" \in Steps \cup {"NONE"}
    BY DEF ReplyCodes
  <2>2. Answer(d, 421, {}, "NONE") => Replied(d, 421, "NONE")
    BY <2>1, Replies
  <2> QED
    BY <1>2, <2>2 DEF Hangup, SameMail, transaction, RelayTypeOK
<1> QED
  BY <1>1, <1>2

LEMMA RepliedLast ==
  ASSUME RelayTypeOK, NEW d \in Conns, NEW code, NEW s, Replied(d, code, s)
  PROVE  /\ Len(s2c[d]) \in Nat /\ Len(s2c'[d]) = Len(s2c[d]) + 1
         /\ \A k \in 1 .. Len(s2c[d]) : s2c'[d][k] = s2c[d][k]
         /\ s2c'[d][Len(s2c[d]) + 1].code = code
         /\ s2c'[d][Len(s2c[d]) + 1].for = s
<1>1. PICK r \in Reply : s2c'[d] = Append(s2c[d], r) /\ r.code = code /\ r.for = s
  BY DEF Replied
<1>2. s2c[d] \in Seq(Reply)
  BY DEF RelayTypeOK
<1> QED
  BY <1>1, <1>2, AppendProperties, LenProperties

(* A command that is answered 221 is QUIT, and no accepted command is      *)
(* answered with the code of a refusal.                                    *)
LEMMA PositiveCodes ==
  ASSUME NEW v
  PROVE  /\ PositiveCode(v) \notin {421, 500, 530, 550}
         /\ PositiveCode(v) = 221 => v = "QUIT"
  BY DEF PositiveCode

LEMMA RelayKeepsFarewell ==
  ASSUME RelayTypeOK, RelayAssumption, NEW d \in Conns, RelayOn(d), Farewell
  PROVE  Farewell'
<1>1. ASSUME NEW code, NEW s, Replied(d, code, s), code = 221 => s = "QUIT"
      PROVE  \A k \in 1 .. Len(s2c'[d]) : s2c'[d][k].code = 221 => s2c'[d][k].for = "QUIT"
  <2>1. \A k \in 1 .. Len(s2c[d]) : s2c[d][k].code = 221 => s2c[d][k].for = "QUIT"
    BY DEF Farewell
  <2>2. /\ Len(s2c[d]) \in Nat /\ Len(s2c'[d]) = Len(s2c[d]) + 1
        /\ \A k \in 1 .. Len(s2c[d]) : s2c'[d][k] = s2c[d][k]
        /\ s2c'[d][Len(s2c[d]) + 1].code = code
        /\ s2c'[d][Len(s2c[d]) + 1].for = s
    BY <1>1, RepliedLast
  <2>3. ASSUME NEW k \in 1 .. Len(s2c'[d]), s2c'[d][k].code = 221
        PROVE  s2c'[d][k].for = "QUIT"
    <3>1. k \in 1 .. Len(s2c[d]) \/ k = Len(s2c[d]) + 1
      BY <2>2, <2>3
    <3>2. CASE k \in 1 .. Len(s2c[d])
      <4>1. s2c'[d][k] = s2c[d][k]
        BY <2>2, <3>2
      <4>2. s2c[d][k].code = 221 => s2c[d][k].for = "QUIT"
        BY <2>1, <3>2
      <4> QED
        BY <2>3, <4>1, <4>2
    <3>3. CASE k = Len(s2c[d]) + 1
      BY <1>1, <2>2, <2>3, <3>3
    <3> QED
      BY <3>1, <3>2, <3>3
  <2> QED
    BY <2>3
<1>2. ASSUME s2c'[d] = s2c[d]
      PROVE  \A k \in 1 .. Len(s2c'[d]) : s2c'[d][k].code = 221 => s2c'[d][k].for = "QUIT"
  BY <1>2 DEF Farewell
<1>3. \A k \in 1 .. Len(s2c'[d]) : s2c'[d][k].code = 221 => s2c'[d][k].for = "QUIT"
  <2>1. CASE Greet(d)
    BY <2>1, <1>1, GreetHere
  <2>2. CASE AcceptCommand(d)
    <3>1. Replied(d, PositiveCode(Head(c2s[d]).verb), Head(c2s[d]).verb)
      BY <2>2, AcceptHere
    <3> QED
      BY <3>1, <1>1, PositiveCodes
  <2>3. CASE RefuseCommand(d)
    BY <2>3, <1>1, RefuseHere
  <2>4. CASE ReadLine(d)
    BY <2>4, <1>2, LineHere
  <2>5. CASE ReadDot(d)
    <3>1. \E code \in {250, 500, 530, 550} : \E s : Replied(d, code, s)
      <4>1. PICK s \in {"DATABLOCK", "DATAEND"} :
              Replied(d, 250, s) \/ \E code \in {500, 530, 550} : Replied(d, code, s)
        <5>1. ReadDot(d)
          BY <2>5
        <5>2. \E s \in {"DATABLOCK", "DATAEND"} :
           /\ s = "DATABLOCK" => Head(c2s[d]).verb = "DOT"
           /\ \/ /\ accepted' = Append(accepted, [rcpts |-> rcpts[d], body |-> body[d]])
                 /\ Replied(d, 250, s)
              \/ /\ accepted' = accepted
                 /\ \E code \in {500, 530, 550} : Replied(d, code, s)
          BY <5>1, DotAnswered
        <5> QED BY <5>2
      <4> QED
        BY <4>1
    <3> QED
      BY <3>1, <1>1
  <2>6. CASE ReadGarbage(d) \/ Hangup(d)
    BY <2>6, <1>1, <1>2, CloseHere
  <2> QED
    BY <2>1, <2>2, <2>3, <2>4, <2>5, <2>6 DEF RelayOn
<1>4. \A c \in Conns : c # d => s2c'[c] = s2c[c]
  BY RelayElsewhere
<1> QED
  BY <1>3, <1>4 DEF Farewell

-----------------------------------------------------------------------------
(* The stream of a connection. *)

LEMMA EmptyStream ==
  ASSUME RelayTypeOK, NEW c \in Conns
  PROVE  Stream(c) = <<>> => body[c] = <<>> /\ c2s[c] = <<>>
<1> DEFINE b == body[c]
           q == c2s[c]
<1>1. b \in Seq(Message) /\ q \in Seq(Message)
  BY DEF RelayTypeOK
<1> HIDE DEF b, q
<1>2. b \o q = <<>> => b = <<>> /\ q = <<>>
  BY <1>1, Behind
<1> QED
  BY <1>2 DEF Stream, b, q

LEMMA StreamType ==
  ASSUME RelayTypeOK, NEW c \in Conns
  PROVE  /\ body[c] \in Seq(Message) /\ c2s[c] \in Seq(Message) /\ Stream(c) \in Seq(Message)
         /\ Len(body[c]) \in Nat /\ Len(c2s[c]) \in Nat
         /\ Len(Stream(c)) = Len(body[c]) + Len(c2s[c])
         /\ \A i \in 1 .. Len(body[c]) : Stream(c)[i] = body[c][i]
         /\ \A i \in 1 .. Len(c2s[c]) : Stream(c)[Len(body[c]) + i] = c2s[c][i]
         /\ Stream(c) = <<>> => body[c] = <<>> /\ c2s[c] = <<>>
         /\ Len(Stream(c)) = 0 => Stream(c) = <<>>
<1> DEFINE b == body[c]
           q == c2s[c]
<1>1. b \in Seq(Message) /\ q \in Seq(Message)
  BY DEF RelayTypeOK
<1> HIDE DEF b, q
<1>2. /\ b \o q \in Seq(Message) /\ Len(b \o q) = Len(b) + Len(q)
      /\ Len(b) \in Nat /\ Len(q) \in Nat
      /\ \A i \in 1 .. Len(b) : (b \o q)[i] = b[i]
      /\ \A i \in 1 .. Len(q) : (b \o q)[Len(b) + i] = q[i]
      /\ b \o q = <<>> => b = <<>> /\ q = <<>>
  BY <1>1, Behind
<1>3. Len(b \o q) = 0 => b \o q = <<>>
  BY <1>2, EmptySeq
<1> QED
  BY <1>1, <1>2, <1>3 DEF Stream, b, q

LEMMA StreamAt ==
  ASSUME RelayTypeOK, NEW c \in Conns, NEW i, i \in 1 .. Len(c2s[c])
  PROVE  /\ Stream(c)[Len(body[c]) + i] = c2s[c][i]
         /\ Len(body[c]) + i \in 1 .. Len(Stream(c)) /\ Len(body[c]) \in Nat
<1>1. /\ Len(body[c]) \in Nat /\ Len(c2s[c]) \in Nat
      /\ Len(Stream(c)) = Len(body[c]) + Len(c2s[c])
  BY StreamType
<1>2. \A j \in 1 .. Len(c2s[c]) : Stream(c)[Len(body[c]) + j] = c2s[c][j]
  BY StreamType
<1>3. Stream(c)[Len(body[c]) + i] = c2s[c][i]
  BY <1>2, Zenon
<1>4. Len(body[c]) + i \in 1 .. Len(body[c]) + Len(c2s[c])
  BY <1>1, Shift
<1> QED
  BY <1>1, <1>3, <1>4

(* Between two messages the stream is the queue. *)
LEMMA StreamIsQueue ==
  ASSUME RelayTypeOK, NEW c \in Conns, body[c] = <<>>
  PROVE  Stream(c) = c2s[c]
  BY ConcatEmptySeq DEF Stream, RelayTypeOK

LEMMA TakenTail ==
  ASSUME RelayTypeOK, NEW d \in Conns, Taken(d)
  PROVE  /\ Len(c2s[d]) \in Nat /\ Len(c2s[d]) > 0 /\ Head(c2s[d]) = c2s[d][1]
         /\ Len(c2s'[d]) = Len(c2s[d]) - 1
         /\ \A k \in 1 .. Len(c2s'[d]) : c2s'[d][k] = c2s[d][k + 1]
         /\ c2s'[d] \in Seq(Message)
  BY NotEmpty DEF Taken, RelayTypeOK

LEMMA LineKeepsStream ==
  ASSUME RelayTypeOK, NEW d \in Conns, ReadLine(d)
  PROVE  Stream(d)' = Stream(d)
<1> DEFINE b == body[d]
           q == c2s[d]
<1>1. b \in Seq(Message) /\ q \in Seq(Message) /\ q # <<>>
  BY LineHere DEF Taken, RelayTypeOK
<1>2. Stream(d)' = Append(b, Head(q)) \o Tail(q)
  BY LineHere DEF Stream, Taken
<1> HIDE DEF b, q
<1>3. Append(b, Head(q)) \o Tail(q) = b \o q
  BY <1>1, MoveHead
<1> QED
  BY <1>2, <1>3 DEF Stream, b, q

LEMMA SameStream ==
  ASSUME NEW c, SameMail(c)
  PROVE  Stream(c)' = Stream(c)
  BY DEF SameMail, Stream

(* When the relay has read the last line of a message, the queue is left. *)
LEMMA QueueIsLeft ==
  ASSUME RelayTypeOK, RelayTypeOK', NEW d \in Conns, Taken(d), body'[d] = <<>>
  PROVE  \A k \in 1 .. Len(Stream(d)') :
           /\ k + (Len(body[d]) + 1) \in 1 .. Len(Stream(d))
           /\ Stream(d)'[k] = Stream(d)[k + (Len(body[d]) + 1)]
<1>1. Stream(d)' = c2s'[d]
  BY ConcatEmptySeq DEF Stream, RelayTypeOK
<1> SUFFICES ASSUME NEW k \in 1 .. Len(c2s'[d])
             PROVE  /\ k + (Len(body[d]) + 1) \in 1 .. Len(Stream(d))
                    /\ c2s'[d][k] = Stream(d)[k + (Len(body[d]) + 1)]
  BY <1>1
<1>2. c2s'[d][k] = c2s[d][k + 1] /\ k + 1 \in 1 .. Len(c2s[d]) /\ k \in Nat
  BY TakenTail
<1>3. /\ Stream(d)[Len(body[d]) + (k + 1)] = c2s[d][k + 1]
      /\ Len(body[d]) + (k + 1) \in 1 .. Len(Stream(d)) /\ Len(body[d]) \in Nat
  BY <1>2, StreamAt
<1>4. Len(body[d]) + (k + 1) = k + (Len(body[d]) + 1)
  BY <1>2, <1>3, Regroup
<1> QED
  BY <1>2, <1>3, <1>4

(* Between two messages nothing but commands are on their way; in a        *)
(* message, its final dot comes behind the whole of it.                    *)
LEMMA RelayKeepsWhole ==
  ASSUME RelayTypeOK, RelayTypeOK', RelayAssumption, NEW d \in Conns, RelayOn(d), mails' = mails,
         NEW c \in Conns, WholeBeforeDot(c)
  PROVE  WholeBeforeDot(c)'
<1> USE DEF WholeBeforeDot
<1>0. Stream(c)' = body'[c] \o c2s'[c]
  BY DEF Stream
<1>1. ASSUME SameMail(c), phase'[c] = phase[c] \/ phase'[c] = "closed" PROVE WholeBeforeDot(c)'
  <2>1. Stream(c)' = Stream(c) /\ rcpts'[c] = rcpts[c] /\ body'[c] = body[c]
    BY <1>1, SameStream DEF SameMail
  <2> QED
    BY <1>1, <2>1
<1>2. CASE c # d
  BY <1>1, <1>2, RelayElsewhere
<1>3. CASE c = d /\ (ReadGarbage(d) \/ Hangup(d))
  BY <1>1, <1>3, CloseHere
<1>4. CASE c = d /\ Greet(d)
  <2>1. SameMail(c) /\ phase[c] = "new" /\ phase'[c] \in {"cmd", "closed"}
    BY <1>4, GreetHere
  <2> QED
    BY <2>1, SameStream DEF SameMail
<1>5. CASE c = d /\ (AcceptCommand(d) \/ RefuseCommand(d))
  <2>1. phase[c] = "cmd" /\ Taken(c) /\ body'[c] = body[c]
    BY <1>5, AcceptHere, RefuseHere
  <2>2. body[c] = <<>> /\ Stream(c) = c2s[c]
    BY <2>1, StreamIsQueue
  <2>3. Stream(c)' = c2s'[c]
    BY <2>1, <2>2, <1>0, ConcatEmptySeq DEF RelayTypeOK
  <2>4. \A k \in 1 .. Len(Stream(c)') : k + 1 \in 1 .. Len(Stream(c)) /\ Stream(c)'[k] = Stream(c)[k + 1]
    BY <2>1, <2>2, <2>3, TakenTail
  <2>5. \A k \in 1 .. Len(Stream(c)) : Stream(c)[k].verb \notin {"DOT", "DATAEND"}
    BY <2>1
  <2>6. \A k \in 1 .. Len(Stream(c)') : Stream(c)'[k].verb \notin {"DOT", "DATAEND"}
    BY <2>4, <2>5
  <2> QED
    BY <2>1, <2>2, <2>6
<1>6. CASE c = d /\ ReadLine(d)
  <2>1. Stream(c)' = Stream(c)
    BY <1>6, LineKeepsStream
  <2>2. /\ phase[c] = "data" /\ phase'[c] = "data" /\ rcpts'[c] = rcpts[c]
        /\ body'[c] = Append(body[c], Head(c2s[c])) /\ Head(c2s[c]).verb # "DATAEND"
        /\ Head(c2s[c]) \in Message
    BY <1>6, LineHere
  <2>3. \A k \in 1 .. Len(body'[c]) : body'[c][k].verb # "DATAEND"
    <3>1. body[c] \in Seq(Message) /\ \A k \in 1 .. Len(body[c]) : body[c][k].verb # "DATAEND"
      BY DEF RelayTypeOK
    <3> DEFINE m == Head(c2s[c])
    <3> HIDE DEF m
    <3>2. /\ Len(Append(body[c], m)) = Len(body[c]) + 1 /\ Len(body[c]) \in Nat
          /\ \A k \in 1 .. Len(body[c]) : Append(body[c], m)[k] = body[c][k]
          /\ Append(body[c], m)[Len(body[c]) + 1] = m
      BY <3>1, <2>2, AppendProperties, LenProperties DEF m
    <3>3. body'[c] = Append(body[c], m) /\ m.verb # "DATAEND"
      BY <2>2 DEF m
    <3> QED
      BY <3>1, <3>2, <3>3
  <2> QED
    BY <2>1, <2>2, <2>3
<1>7. CASE c = d /\ ReadDot(d)
  <2>1. /\ phase[c] = "data" /\ phase'[c] = "cmd" /\ Taken(c) /\ body'[c] = <<>>
        /\ Head(c2s[c]).verb \in {"DATAEND", "DOT"}
    BY <1>7, DotHere
  <2> DEFINE p == Len(body[c]) + 1
  <2>2. p \in 1 .. Len(Stream(c)) /\ Stream(c)[p] = Head(c2s[c]) /\ Len(body[c]) \in Nat
    <3>1. 1 \in 1 .. Len(c2s[c]) /\ Head(c2s[c]) = c2s[c][1]
      BY <2>1, TakenTail
    <3> QED
      BY <3>1, StreamAt
  <2>3. Stream(c)[p].verb = "DATAEND"
    BY <2>1, <2>2
  <2>4. Stream(c)' = c2s'[c]
    BY <2>1, <1>0, ConcatEmptySeq DEF RelayTypeOK
  <2>5. \A k \in 1 .. Len(Stream(c)') :
           k + p \in 1 .. Len(Stream(c)) /\ Stream(c)'[k] = Stream(c)[k + p]
    BY <2>1, QueueIsLeft
  <2>6. \A k \in 1 .. Len(Stream(c)) : k > p => Stream(c)[k].verb # "DATAEND"
    <3>1. TAKE k \in 1 .. Len(Stream(c))
    <3>2. SUFFICES ASSUME k > p, Stream(c)[k].verb = "DATAEND" PROVE FALSE
      OBVIOUS
    <3>3. StartsWithBlocks(Stream(c), Stream(c)[k].n, k - 1)
      BY <2>1, <3>2
    <3>4. p \in 1 .. k - 1
      BY <2>2, <3>2
    <3>5. Stream(c)[p].verb = "DATABLOCK"
      BY <3>3, <3>4 DEF StartsWithBlocks
    <3> QED
      BY <2>3, <3>5
  <2>7. \A k \in 1 .. Len(Stream(c)') : Stream(c)'[k].verb \notin {"DOT", "DATAEND"}
    <3>1. TAKE k \in 1 .. Len(Stream(c)')
    <3>2. k + p > p
      BY <2>2
    <3> QED
      BY <2>5, <2>6, <3>2
  <2>8. \A k \in 1 .. Len(body'[c]) : FALSE
    BY <2>1
  <2> QED
    BY <2>1, <2>7, <2>8
<1> QED
  BY <1>2, <1>3, <1>4, <1>5, <1>6, <1>7 DEF RelayOn

-----------------------------------------------------------------------------
(* The blocks of a message: there is one at least, and a single dot among   *)
(* them stands behind a line that is cut.                                   *)
LEMMA BlocksOf ==
  ASSUME NEW S, NEW m \in Mail, {"header", "blank", "part", "content", "boundary"} \subseteq S,
         m.lines \in Seq(S)
  PROVE  Blocks(m) \in Seq(S) /\ Len(Blocks(m)) \in Nat /\ Len(Blocks(m)) >= 1
<1> DEFINE a == <<"header">>
           b == IF m.lines = <<>> THEN <<"blank">> ELSE m.lines
           c == [k \in 1 .. 2 * m.files |-> IF k % 2 = 1 THEN "part" ELSE "content"]
           d == IF m.files > 0 THEN <<"boundary">> ELSE <<>>
<1>1. a \in Seq(S) /\ Len(a) = 1
  OBVIOUS
<1>2. b \in Seq(S)
  OBVIOUS
<1>3. c \in Seq(S)
  <2>1. 2 * m.files \in Nat
    BY DEF Mail
  <2>2. \A k \in 1 .. 2 * m.files : (IF k % 2 = 1 THEN "part" ELSE "content") \in S
    OBVIOUS
  <2> DEFINE n == 2 * m.files
             e(k) == IF k % 2 = 1 THEN "part" ELSE "content"
  <2>3. n \in Nat /\ \A k \in 1 .. n : e(k) \in S
    BY <2>1, <2>2
  <2> HIDE DEF n, e
  <2>4. [k \in 1 .. n |-> e(k)] \in Seq(S)
    BY <2>3, IsASeq
  <2> QED
    BY <2>4 DEF n, e
<1>4. d \in Seq(S)
  <2>1. <<>> \in Seq(S) /\ <<"boundary">> \in Seq(S)
    OBVIOUS
  <2> QED
    BY <2>1
<1>5. Blocks(m) = ((a \o b) \o c) \o d
  BY DEF Blocks
<1> HIDE DEF a, b, c, d
<1>6. a \o b \in Seq(S) /\ Len(a \o b) = Len(a) + Len(b) /\ Len(b) \in Nat
  BY <1>1, <1>2, Behind
<1>7. (a \o b) \o c \in Seq(S) /\ Len((a \o b) \o c) = Len(a \o b) + Len(c) /\ Len(c) \in Nat
  BY <1>3, <1>6, Behind
<1>8. /\ ((a \o b) \o c) \o d \in Seq(S) /\ Len(d) \in Nat
      /\ Len(((a \o b) \o c) \o d) = Len((a \o b) \o c) + Len(d)
  BY <1>4, <1>7, Behind
<1>9. \A i, j, k \in Nat : ((1 + i) + j) + k \in Nat /\ ((1 + i) + j) + k >= 1
  OBVIOUS
<1>10. Len(Blocks(m)) = ((1 + Len(b)) + Len(c)) + Len(d)
  BY <1>1, <1>5, <1>6, <1>7, <1>8
<1>11. Len(Blocks(m)) \in Nat /\ Len(Blocks(m)) >= 1
  BY <1>6, <1>7, <1>8, <1>9, <1>10
<1> QED
  BY <1>5, <1>8, <1>11

LEMMA BlocksLen ==
  ASSUME NEW m \in Mail
  PROVE  Len(Blocks(m)) \in Nat /\ Len(Blocks(m)) >= 1 /\ Recipients(m) \in Nat
<1> DEFINE S == {"header", "blank", "part", "content", "boundary"} \cup LineKinds
<1>1. m.lines \in Seq(S)
  <2>1. m.lines \in Seq(LineKinds) /\ LineKinds \subseteq S
    BY DEF Mail
  <2> HIDE DEF S
  <2> QED
    BY <2>1, SeqMonotonic
<1>2. Len(Blocks(m)) \in Nat /\ Len(Blocks(m)) >= 1
  <2>1. {"header", "blank", "part", "content", "boundary"} \subseteq S
    OBVIOUS
  <2> HIDE DEF S
  <2> QED
    BY <1>1, <2>1, BlocksOf
<1> QED
  BY <1>2 DEF Mail, Recipients

LEMMA NoDotBlock ==
  ASSUME NoDots, NEW m \in Mails, SessionAssumption, NEW k \in 1 .. Len(Blocks(m))
  PROVE  Blocks(m)[k] = "dot" => Blocks(m)[k - 1] = "long"
<1> DEFINE S == {"header", "blank", "part", "content", "boundary"} \cup LineKinds
           a == <<"header">>
           b == IF m.lines = <<>> THEN <<"blank">> ELSE m.lines
           c == [i \in 1 .. 2 * m.files |-> IF i % 2 = 1 THEN "part" ELSE "content"]
           d == IF m.files > 0 THEN <<"boundary">> ELSE <<>>
<1>1. m \in Mail
  BY DEF SessionAssumption
<1>2. a \in Seq(S) /\ Len(a) = 1 /\ a[1] = "header"
  OBVIOUS
<1>3. b \in Seq(S) /\ \A i \in 1 .. Len(b) : b[i] = "dot" => i > 1 /\ b[i - 1] = "long"
  <2>1. CASE m.lines = <<>>
    <3>1. PICK one : one = <<"blank">>
      OBVIOUS
    <3>2. one \in Seq(S) /\ Len(one) = 1 /\ one[1] # "dot"
      BY <3>1
    <3>3. b = one
      BY <2>1, <3>1
    <3>4. \A i \in 1 .. Len(one) : one[i] # "dot"
      BY <3>2
    <3> HIDE DEF b, S
    <3> QED
      BY <3>2, <3>3, <3>4, Zenon
  <2>2. CASE m.lines # <<>>
    <3>1. b = m.lines /\ m.lines \in Seq(LineKinds) /\ LineKinds \subseteq S
      BY <1>1, <2>2 DEF Mail
    <3> HIDE DEF S, b
    <3> QED
      BY <3>1, SeqMonotonic DEF NoDots
  <2> QED
    BY <2>1, <2>2
<1>4. c \in Seq(S) /\ \A i \in 1 .. Len(c) : c[i] # "dot"
  <2> DEFINE n == 2 * m.files
             e(i) == IF i % 2 = 1 THEN "part" ELSE "content"
  <2>1. n \in Nat /\ \A i \in 1 .. n : e(i) \in {"part", "content"}
    BY <1>1 DEF Mail
  <2> HIDE DEF n, e
  <2>2. [i \in 1 .. n |-> e(i)] \in Seq({"part", "content"})
    BY <2>1, IsASeq
  <2>3. c \in Seq({"part", "content"})
    BY <2>2 DEF n, e
  <2>4. {"part", "content"} \subseteq S
    OBVIOUS
  <2> HIDE DEF c, S
  <2>5. \A i \in 1 .. Len(c) : c[i] \in {"part", "content"}
    BY <2>3, ElementOfSeq
  <2> QED
    BY <2>3, <2>4, <2>5, SeqMonotonic
<1>5. d \in Seq(S) /\ \A i \in 1 .. Len(d) : d[i] # "dot"
  <2>1. PICK none, one : none = <<>> /\ one = <<"boundary">>
    OBVIOUS
  <2>2. none \in Seq(S) /\ Len(none) = 0 /\ one \in Seq(S) /\ Len(one) = 1 /\ one[1] # "dot"
    BY <2>1
  <2>3. d = none \/ d = one
    BY <2>1
  <2>4. (\A i \in 1 .. Len(none) : none[i] # "dot") /\ (\A i \in 1 .. Len(one) : one[i] # "dot")
    BY <2>2
  <2> HIDE DEF d, S
  <2> QED
    BY <2>2, <2>3, <2>4, Zenon
<1>6. Blocks(m) = ((a \o b) \o c) \o d
  BY DEF Blocks
<1> HIDE DEF S, a, b, c, d
<1>7. PICK x, y : x = a \o b /\ y = x \o c /\ Blocks(m) = y \o d
  BY <1>6
<1>8. /\ x \in Seq(S) /\ Len(x) = 1 + Len(b) /\ Len(b) \in Nat
      /\ x[1] = "header" /\ \A i \in 1 .. Len(b) : x[1 + i] = b[i]
  <2>1. /\ a \o b \in Seq(S) /\ Len(a \o b) = Len(a) + Len(b) /\ Len(b) \in Nat
        /\ \A i \in 1 .. Len(a) : (a \o b)[i] = a[i]
        /\ \A i \in 1 .. Len(b) : (a \o b)[Len(a) + i] = b[i]
    <3>1. a \in Seq(S) /\ b \in Seq(S)
      BY <1>2, <1>3
    <3> QED
      BY <3>1, Behind
  <2>2. 1 \in 1 .. 1
    OBVIOUS
  <2> QED
    BY <1>2, <1>7, <2>1, <2>2, Zenon
<1>9. /\ y \in Seq(S) /\ Len(y) = Len(x) + Len(c) /\ Len(x) \in Nat /\ Len(c) \in Nat
      /\ \A i \in 1 .. Len(x) : y[i] = x[i]
      /\ \A i \in 1 .. Len(c) : y[Len(x) + i] = c[i]
  <2>1. /\ x \o c \in Seq(S) /\ Len(x \o c) = Len(x) + Len(c) /\ Len(x) \in Nat /\ Len(c) \in Nat
        /\ \A i \in 1 .. Len(x) : (x \o c)[i] = x[i]
        /\ \A i \in 1 .. Len(c) : (x \o c)[Len(x) + i] = c[i]
    <3>1. x \in Seq(S) /\ c \in Seq(S)
      BY <1>4, <1>8
    <3> QED
      BY <3>1, Behind
  <2> QED
    BY <1>7, <2>1, Zenon
<1>10. /\ Len(Blocks(m)) = Len(y) + Len(d) /\ Len(y) \in Nat /\ Len(d) \in Nat
       /\ \A i \in 1 .. Len(y) : Blocks(m)[i] = y[i]
       /\ \A i \in 1 .. Len(d) : Blocks(m)[Len(y) + i] = d[i]
  BY <1>5, <1>7, <1>9, Behind
<1>11. SUFFICES ASSUME Blocks(m)[k] = "dot" PROVE Blocks(m)[k - 1] = "long"
  OBVIOUS
<1>12. k \in 1 .. Len(y)
  <2>1. ASSUME k \notin 1 .. Len(y) PROVE FALSE
    <3>1. PICK i \in 1 .. Len(d) : k = Len(y) + i
      <4>1. k - Len(y) \in 1 .. Len(d) /\ k = Len(y) + (k - Len(y))
        BY <1>10, <2>1
      <4> QED
        BY <4>1
    <3> QED
      BY <1>5, <1>10, <1>11, <3>1
  <2> QED
    BY <2>1
<1>13. k \in 1 .. Len(x)
  <2>1. ASSUME k \notin 1 .. Len(x) PROVE FALSE
    <3>1. PICK i \in 1 .. Len(c) : k = Len(x) + i
      <4>1. k - Len(x) \in 1 .. Len(c) /\ k = Len(x) + (k - Len(x))
        BY <1>9, <1>12, <2>1
      <4> QED
        BY <4>1
    <3> QED
      BY <1>4, <1>9, <1>10, <1>11, <1>12, <3>1
  <2> QED
    BY <2>1
<1>14. x[k] = "dot" /\ k # 1
  BY <1>8, <1>9, <1>10, <1>11, <1>12, <1>13
<1>15. PICK i \in 1 .. Len(b) : k = 1 + i /\ b[i] = "dot"
  <2>1. k - 1 \in 1 .. Len(b) /\ k = 1 + (k - 1)
    BY <1>8, <1>13, <1>14
  <2> QED
    BY <1>8, <1>14, <2>1
<1>16. i > 1 /\ b[i - 1] = "long"
  BY <1>3, <1>15
<1>17. i - 1 \in 1 .. Len(b) /\ k - 1 = 1 + (i - 1)
  BY <1>15, <1>16
<1>18. x[k - 1] = "long" /\ k - 1 \in 1 .. Len(x) /\ k - 1 \in 1 .. Len(y)
  BY <1>8, <1>9, <1>13, <1>15, <1>16, <1>17
<1> QED
  BY <1>9, <1>10, <1>18

-----------------------------------------------------------------------------
(* A message the relay accepts is the whole of the one its final dot       *)
(* belongs to.                                                             *)
LEMMA DotIsWhole ==
  ASSUME RelayTypeOK, mails \in Seq(Mails), SessionAssumption,
         NEW d \in Conns, ReadDot(d), WholeBeforeDot(d),
         NEW a, a.rcpts = rcpts[d], a.body = body[d]
  PROVE  LET n == Head(c2s[d]).n IN
         /\ Head(c2s[d]).verb = "DATAEND" /\ n \in 1 .. Len(mails)
         /\ Whole(a, n) /\ a.body[1].n = n
<1> DEFINE n == Head(c2s[d]).n
           p == Len(body[d]) + 1
<1>1. /\ phase[d] = "data" /\ Taken(d) /\ Head(c2s[d]).verb \in {"DATAEND", "DOT"}
  BY DotHere
<1>2. p \in 1 .. Len(Stream(d)) /\ Stream(d)[p] = Head(c2s[d]) /\ Len(body[d]) \in Nat
  <2>1. 1 \in 1 .. Len(c2s[d]) /\ Head(c2s[d]) = c2s[d][1]
    BY <1>1, TakenTail
  <2> QED
    BY <2>1, StreamAt
<1>3. Head(c2s[d]).verb = "DATAEND"
  BY <1>1, <1>2 DEF WholeBeforeDot
<1>4. /\ n \in 1 .. Len(mails)
      /\ IsRcpts(rcpts[d], n, Recipients(mails[n]))
      /\ p = Len(Blocks(mails[n])) + 1
      /\ StartsWithBlocks(Stream(d), n, p - 1)
  BY <1>1, <1>2, <1>3 DEF WholeBeforeDot
<1>5. mails[n] \in Mail
  BY <1>4, ElementOfSeq DEF SessionAssumption
<1>6. Len(Blocks(mails[n])) \in Nat /\ Len(Blocks(mails[n])) >= 1
  BY <1>5, BlocksLen
<1>7. \A k, l \in Nat : k + 1 = l + 1 => k = l
  OBVIOUS
<1>8. Len(body[d]) = Len(Blocks(mails[n])) /\ p - 1 = Len(body[d])
  BY <1>2, <1>4, <1>6, <1>7
<1>9. \A k \in 1 .. Len(body[d]) : Stream(d)[k] = body[d][k]
  BY StreamType
<1>10. \A k \in 1 .. Len(body[d]) : body[d][k].verb = "DATABLOCK" /\ body[d][k].n = n /\ body[d][k].i = k
  BY <1>4, <1>8, <1>9 DEF StartsWithBlocks
<1>11. 1 \in 1 .. Len(body[d])
  BY <1>6, <1>8
<1>12. Whole(a, n)
  BY <1>4, <1>8, <1>10 DEF Whole, IsRcpts
<1>13. a.body[1].n = n
  BY <1>10, <1>11
<1> QED
  BY <1>3, <1>4, <1>12, <1>13

(* What is on its way after a step of the relay was on its way before it,  *)
(* one place further back if the relay has read something there.           *)
LEMMA RelayTakes ==
  ASSUME RelayTypeOK, RelayAssumption, NEW d \in Conns, RelayOn(d)
  PROVE  \E o \in {0, 1} :
           /\ o = 0 => accepted' = accepted
           /\ o = 1 => Taken(d)
           /\ \A c \in Conns : \A k \in 1 .. Len(c2s'[c]) :
                LET j == IF c = d THEN k + o ELSE k IN
                j \in 1 .. Len(c2s[c]) /\ c2s'[c][k] = c2s[c][j]
<1>1. \A c \in Conns : c # d => c2s'[c] = c2s[c]
  BY RelayElsewhere DEF SameMail
<1>2. CASE Greet(d) \/ ReadGarbage(d) \/ Hangup(d)
  <2>1. c2s'[d] = c2s[d] /\ accepted' = accepted
    BY <1>2, GreetHere, CloseHere DEF SameMail
  <2>2. \A c \in Conns : c2s'[c] = c2s[c]
    BY <1>1, <2>1
  <2>3. \A c \in Conns : \A k \in 1 .. Len(c2s'[c]) : k + 0 = k
    OBVIOUS
  <2> QED
    BY <2>1, <2>2, <2>3
<1>3. CASE AcceptCommand(d) \/ RefuseCommand(d) \/ ReadLine(d) \/ ReadDot(d)
  <2>1. Taken(d)
    BY <1>3, AcceptHere, RefuseHere, LineHere, DotHere
  <2>2. \A k \in 1 .. Len(c2s'[d]) : k + 1 \in 1 .. Len(c2s[d]) /\ c2s'[d][k] = c2s[d][k + 1]
    BY <2>1, TakenTail
  <2> QED
    BY <1>1, <2>1, <2>2
<1> QED
  BY <1>2, <1>3 DEF RelayOn

(* The relay accepts nothing but what it has read up to the final dot. *)
LEMMA RelayAdds ==
  ASSUME RelayTypeOK, RelayAssumption, NEW d \in Conns, RelayOn(d)
  PROVE  \/ accepted' = accepted
         \/ /\ ReadDot(d)
            /\ accepted' = Append(accepted, [rcpts |-> rcpts[d], body |-> body[d]])
<1>1. CASE ReadDot(d)
  <2>1. \E s \in {"DATABLOCK", "DATAEND"} :
           /\ s = "DATABLOCK" => Head(c2s[d]).verb = "DOT"
           /\ \/ /\ accepted' = Append(accepted, [rcpts |-> rcpts[d], body |-> body[d]])
                 /\ Replied(d, 250, s)
              \/ /\ accepted' = accepted
                 /\ \E code \in {500, 530, 550} : Replied(d, code, s)
    BY <1>1, DotAnswered
  <2> QED
    BY <1>1, <2>1
<1>2. CASE ~ReadDot(d)
  BY <1>2, GreetHere, AcceptHere, RefuseHere, LineHere, CloseHere DEF RelayOn
<1> QED
  BY <1>1, <1>2

(* The accepted messages are the old ones and possibly a last one. *)
LEMMA AcceptedMore ==
  ASSUME RelayTypeOK, RelayAssumption, NEW d \in Conns, RelayOn(d)
  PROVE  /\ Len(accepted) \in Nat /\ Len(accepted') >= Len(accepted)
         /\ \A j \in 1 .. Len(accepted) : accepted'[j] = accepted[j] /\ j \in 1 .. Len(accepted')
         /\ \A j \in 1 .. Len(accepted') : j \notin 1 .. Len(accepted) =>
              /\ ReadDot(d) /\ j = Len(accepted) + 1
              /\ accepted'[j].rcpts = rcpts[d] /\ accepted'[j].body = body[d]
<1> DEFINE a == [rcpts |-> rcpts[d], body |-> body[d]]
           M == [rcpts: Seq(Message), body: Seq(Message)]
<1>1. accepted \in Seq(M) /\ a \in M
  BY DEF RelayTypeOK
<1>2. accepted' = accepted \/ (ReadDot(d) /\ accepted' = Append(accepted, a))
  BY RelayAdds
<1>6. a.rcpts = rcpts[d] /\ a.body = body[d]
  OBVIOUS
<1> HIDE DEF a, M
<1>3. Len(accepted) \in Nat
  BY <1>1, LenProperties
<1>4. CASE accepted' = accepted
  BY <1>3, <1>4
<1>5. CASE ReadDot(d) /\ accepted' = Append(accepted, a)
  <2>1. /\ Len(accepted') = Len(accepted) + 1
        /\ \A j \in 1 .. Len(accepted) : accepted'[j] = accepted[j]
        /\ accepted'[Len(accepted) + 1] = a
    BY <1>1, <1>5, AppendProperties
  <2> QED
    BY <1>3, <1>5, <1>6, <2>1
<1> QED
  BY <1>2, <1>4, <1>5

(* No final dot appears where there was none. *)
LEMMA RelaySendsNoDot ==
  ASSUME TypeOK, RelayAssumption, SessionAssumption, NEW d \in Conns, RelayOn(d),
         WholeBeforeDot(d), NEW n, DotSent(n)'
  PROVE  DotSent(n)
<1>0. RelayTypeOK /\ mails \in Seq(Mails)
  BY DEF TypeOK, ClientTypeOK
<1>1. CASE \E c \in Conns : \E k \in 1 .. Len(c2s'[c]) : c2s'[c][k].verb = "DATAEND" /\ c2s'[c][k].n = n
  <2>0. PICK c \in Conns :
          \E k \in 1 .. Len(c2s'[c]) : c2s'[c][k].verb = "DATAEND" /\ c2s'[c][k].n = n
    BY <1>1
  <2>1. PICK k \in 1 .. Len(c2s'[c]) : c2s'[c][k].verb = "DATAEND" /\ c2s'[c][k].n = n
    BY <2>0
  <2>2. \E j \in 1 .. Len(c2s[c]) : c2s'[c][k] = c2s[c][j]
    BY <1>0, RelayTakes
  <2> QED
    BY <2>1, <2>2 DEF DotSent
<1>2. CASE \E j \in 1 .. Len(accepted') : accepted'[j].body[1].n = n
  <2>1. PICK j \in 1 .. Len(accepted') : accepted'[j].body[1].n = n
    BY <1>2
  <2>2. CASE j \in 1 .. Len(accepted)
    BY <1>0, <2>1, <2>2, AcceptedMore DEF DotSent
  <2>3. CASE j \notin 1 .. Len(accepted)
    <3>1. ReadDot(d) /\ accepted'[j].rcpts = rcpts[d] /\ accepted'[j].body = body[d]
      BY <1>0, <2>3, AcceptedMore
    <3>2. Head(c2s[d]).verb = "DATAEND" /\ Head(c2s[d]).n = n
      BY <1>0, <2>1, <3>1, DotIsWhole
    <3>3. 1 \in 1 .. Len(c2s[d]) /\ Head(c2s[d]) = c2s[d][1]
      BY <1>0, <3>1, DotHere, TakenTail
    <3> QED
      BY <3>2, <3>3 DEF DotSent
  <2> QED
    BY <2>2, <2>3
<1> QED
  BY <1>1, <1>2 DEF DotSent

LEMMA RelayKeepsOneDot ==
  ASSUME TypeOK, RelayAssumption, SessionAssumption, NEW d \in Conns, RelayOn(d), ~resumed,
         WholeBeforeDot(d), UNCHANGED <<control, history>>, OneDot
  PROVE  OneDot'
<1>0. RelayTypeOK /\ mails \in Seq(Mails)
  BY DEF TypeOK, ClientTypeOK
<1>1. PICK o \in {0, 1} :
           /\ o = 0 => accepted' = accepted
           /\ o = 1 => Taken(d)
           /\ \A c \in Conns : \A k \in 1 .. Len(c2s'[c]) :
                LET j == IF c = d THEN k + o ELSE k IN
                j \in 1 .. Len(c2s[c]) /\ c2s'[c][k] = c2s[c][j]
  BY <1>0, RelayTakes
<1>2. ASSUME NEW c \in Conns, NEW e \in Conns, NEW k \in 1 .. Len(c2s'[c]), NEW l \in 1 .. Len(c2s'[e]),
             c2s'[c][k].verb = "DATAEND", c2s'[e][l].verb = "DATAEND",
             c2s'[c][k].n = c2s'[e][l].n
      PROVE  c = e /\ k = l
  <2> DEFINE i == IF c = d THEN k + o ELSE k
             j == IF e = d THEN l + o ELSE l
  <2>1. i \in 1 .. Len(c2s[c]) /\ c2s'[c][k] = c2s[c][i]
    BY <1>1
  <2>2. j \in 1 .. Len(c2s[e]) /\ c2s'[e][l] = c2s[e][j]
    BY <1>1
  <2>3. c = e /\ i = j
    <3>1. /\ c2s[c][i].verb = "DATAEND" /\ c2s[e][j].verb = "DATAEND"
          /\ c2s[c][i].n = c2s[e][j].n
      BY <1>2, <2>1, <2>2, Zenon
    <3> HIDE DEF i, j
    <3>2. \A a, b \in Conns : \A m \in 1 .. Len(c2s[a]), n \in 1 .. Len(c2s[b]) :
            /\ c2s[a][m].verb = "DATAEND" /\ c2s[b][n].verb = "DATAEND"
            /\ c2s[a][m].n = c2s[b][n].n
            => a = b /\ m = n
      BY DEF OneDot
    <3>3. i \in 1 .. Len(c2s[c]) /\ j \in 1 .. Len(c2s[e])
      BY <2>1, <2>2
    <3> QED
      BY <3>1, <3>2, <3>3
  <2>4. k \in Int /\ l \in Int /\ o \in Int
    OBVIOUS
  <2> QED
    BY <2>3, <2>4
<1>3. ASSUME NEW c \in Conns, NEW k \in 1 .. Len(c2s'[c]), NEW j \in 1 .. Len(accepted'),
             c2s'[c][k].verb = "DATAEND"
      PROVE  c2s'[c][k].n # accepted'[j].body[1].n
  <2> DEFINE i == IF c = d THEN k + o ELSE k
  <2>1. i \in 1 .. Len(c2s[c]) /\ c2s'[c][k] = c2s[c][i]
    BY <1>1
  <2>2. CASE j \in 1 .. Len(accepted)
    <3>1. accepted'[j] = accepted[j]
      BY <1>0, <2>2, AcceptedMore
    <3> HIDE DEF i
    <3> QED
      BY <1>3, <2>1, <2>2, <3>1 DEF OneDot
  <2>3. CASE j \notin 1 .. Len(accepted)
    <3>1. ReadDot(d) /\ accepted'[j].rcpts = rcpts[d] /\ accepted'[j].body = body[d]
      BY <1>0, <2>3, AcceptedMore
    <3>2. /\ Head(c2s[d]).verb = "DATAEND" /\ Head(c2s[d]).n = accepted'[j].body[1].n
          /\ 1 \in 1 .. Len(c2s[d]) /\ Head(c2s[d]) = c2s[d][1]
      BY <1>0, <3>1, DotIsWhole, DotHere, TakenTail
    <3>3. o = 1
      <4>1. accepted' # accepted
        BY <2>3
      <4> QED
        BY <1>1, <4>1
    <3>4. ~(c = d /\ i = 1)
      BY <3>3
    <3> HIDE DEF i
    <3>5. c2s[c][i].n # c2s[d][1].n
      BY <1>3, <2>1, <3>2, <3>4 DEF OneDot
    <3> QED
      BY <2>1, <3>1, <3>2, <3>5
  <2> QED
    BY <2>2, <2>3
<1>4. \A n : DotSent(n)' => DotSent(n)
  BY RelaySendsNoDot
<1>5. UNCHANGED <<mails, results, resumed, caller, pc, step>>
  BY DEF control, history
<1>6. DotSent(Len(mails))' => DotSent(Len(mails))
  <2>1. PICK n : n = Len(mails)
    BY Zenon
  <2>2. Len(mails') = n
    BY <1>5, <2>1
  <2>3. DotSent(n)' => DotSent(n)
    BY <1>4
  <2>4. DotSent(Len(mails))' => DotSent(n)'
    BY <2>2 DEF DotSent
  <2> QED
    BY <2>1, <2>3, <2>4
<1>7. \A n \in 1 .. Len(results') : DotSent(n)' => DotSent(n)
  BY <1>4
<1>8. ASSUME NEW c \in Conns, NEW k \in 1 .. Len(c2s'[c]), c2s'[c][k].verb = "DATAEND"
      PROVE  c2s'[c][k].n \in 1 .. Len(mails')
  <2>1. PICK i \in 1 .. Len(c2s[c]) : c2s'[c][k] = c2s[c][i]
    <3> DEFINE j == IF c = d THEN k + o ELSE k
    <3>1. j \in 1 .. Len(c2s[c]) /\ c2s'[c][k] = c2s[c][j]
      BY <1>1
    <3> HIDE DEF j
    <3> QED
      BY <3>1
  <2> QED
    BY <1>5, <1>8, <2>1 DEF OneDot
<1> QED
  BY <1>2, <1>3, <1>5, <1>6, <1>7, <1>8 DEF OneDot, Unreported

(* What has been accepted stays accepted. *)
LEMMA StaysAccepted ==
  ASSUME RelayTypeOK, RelayAssumption, NEW d \in Conns, RelayOn(d), mails' = mails,
         NEW n, Accepted(n)
  PROVE  Accepted(n)'
<1>1. PICK j \in 1 .. Len(accepted) : Whole(accepted[j], n)
  BY DEF Accepted
<1>2. accepted'[j] = accepted[j] /\ j \in 1 .. Len(accepted')
  BY AcceptedMore
<1>3. Whole(accepted[j], n)'
  BY <1>1, <1>2 DEF Whole
<1> QED
  BY <1>2, <1>3 DEF Accepted

LEMMA RelayKeepsMailsWhole ==
  ASSUME TypeOK, RelayAssumption, SessionAssumption, NEW d \in Conns, RelayOn(d), ~resumed,
         WholeBeforeDot(d), UNCHANGED <<control, history>>, OneDot, OnlyWholeMailsOnce
  PROVE  OnlyWholeMailsOnce'
<1>0. RelayTypeOK /\ mails \in Seq(Mails) /\ mails' = mails
  BY DEF TypeOK, ClientTypeOK, history
<1>1. ASSUME NEW j \in 1 .. Len(accepted'), j \notin 1 .. Len(accepted)
      PROVE  /\ ReadDot(d) /\ j = Len(accepted) + 1
             /\ Head(c2s[d]).verb = "DATAEND" /\ Head(c2s[d]).n \in 1 .. Len(mails)
             /\ Whole(accepted'[j], Head(c2s[d]).n)
             /\ accepted'[j].body[1].n = Head(c2s[d]).n
             /\ 1 \in 1 .. Len(c2s[d]) /\ Head(c2s[d]) = c2s[d][1]
  <2>1. /\ ReadDot(d) /\ j = Len(accepted) + 1
        /\ accepted'[j].rcpts = rcpts[d] /\ accepted'[j].body = body[d]
    BY <1>0, <1>1, AcceptedMore
  <2>2. /\ Head(c2s[d]).verb = "DATAEND" /\ Head(c2s[d]).n \in 1 .. Len(mails)
        /\ Whole(accepted'[j], Head(c2s[d]).n)
        /\ accepted'[j].body[1].n = Head(c2s[d]).n
    BY <1>0, <2>1, DotIsWhole
  <2>3. 1 \in 1 .. Len(c2s[d]) /\ Head(c2s[d]) = c2s[d][1]
    BY <1>0, <2>1, DotHere, TakenTail
  <2> QED
    BY <2>1, <2>2, <2>3
<1>2. ASSUME NEW j \in 1 .. Len(accepted') PROVE \E n \in 1 .. Len(mails) : Whole(accepted'[j], n)
  <2>1. CASE j \in 1 .. Len(accepted)
    BY <1>0, <2>1, AcceptedMore DEF OnlyWholeMailsOnce
  <2>2. CASE j \notin 1 .. Len(accepted)
    BY <1>1, <2>2
  <2> QED
    BY <2>1, <2>2
<1>3. ASSUME NEW j \in 1 .. Len(accepted'), NEW k \in 1 .. Len(accepted'),
             j \in 1 .. Len(accepted), k \notin 1 .. Len(accepted)
      PROVE  accepted'[j].body[1].n # accepted'[k].body[1].n
  <2>1. accepted'[j] = accepted[j]
    BY <1>0, <1>3, AcceptedMore
  <2>2. /\ Head(c2s[d]).verb = "DATAEND" /\ accepted'[k].body[1].n = Head(c2s[d]).n
        /\ 1 \in 1 .. Len(c2s[d]) /\ Head(c2s[d]) = c2s[d][1]
    BY <1>1, <1>3
  <2> QED
    BY <1>3, <2>1, <2>2 DEF OneDot
<1>4. ASSUME NEW j \in 1 .. Len(accepted'), NEW k \in 1 .. Len(accepted'), j # k
      PROVE  accepted'[j].body[1].n # accepted'[k].body[1].n
  <2>1. CASE j \in 1 .. Len(accepted) /\ k \in 1 .. Len(accepted)
    <3>1. accepted'[j] = accepted[j] /\ accepted'[k] = accepted[k]
      BY <1>0, <2>1, AcceptedMore
    <3> QED
      BY <1>4, <2>1, <3>1 DEF OnlyWholeMailsOnce
  <2>2. CASE j \in 1 .. Len(accepted) /\ k \notin 1 .. Len(accepted)
    BY <1>3, <2>2
  <2>3. CASE j \notin 1 .. Len(accepted) /\ k \in 1 .. Len(accepted)
    BY <1>3, <2>3
  <2>4. CASE j \notin 1 .. Len(accepted) /\ k \notin 1 .. Len(accepted)
    BY <1>1, <1>4, <2>4
  <2> QED
    BY <2>1, <2>2, <2>3, <2>4
<1>5. ASSUME NEW j \in 1 .. Len(accepted') PROVE \E n \in 1 .. Len(mails') : Whole(accepted[j], n)'
  <2>1. PICK n \in 1 .. Len(mails) : Whole(accepted'[j], n)
    BY <1>2
  <2>2. Whole(accepted[j], n)'
    BY <1>0, <2>1 DEF Whole
  <2> QED
    BY <1>0, <2>1, <2>2
<1>6. \A j \in 1 .. Len(accepted') : \E n \in 1 .. Len(mails') : Whole(accepted[j], n)'
  BY <1>5
<1>7. \A j, k \in 1 .. Len(accepted') : j # k => accepted'[j].body[1].n # accepted'[k].body[1].n
  BY <1>4
<1> QED
  BY <1>6, <1>7, Zenon DEF OnlyWholeMailsOnce

-----------------------------------------------------------------------------
(* The relay and the connection in use. *)

LEMMA BadReply ==
  ASSUME RelayTypeOK, NEW d \in Conns, NEW code \in {421, 500, 530, 550}, NEW s, Replied(d, code, s)
  PROVE  /\ NoGood(d) => NoGood(d)'
         /\ \A t : GoodFor(d, t) => GoodFor(d, t)'
<1> DEFINE l == Len(s2c[d])
<1>1. /\ l \in Nat /\ Len(s2c'[d]) = l + 1
      /\ \A k \in 1 .. l : s2c'[d][k] = s2c[d][k]
      /\ s2c'[d][l + 1].code = code
  BY RepliedLast
<1>2. \A k \in 1 .. Len(s2c'[d]) : Good(s2c'[d][k]) => k \in 1 .. l /\ s2c'[d][k] = s2c[d][k]
  BY <1>1 DEF Good
<1>3. NoGood(d) => NoGood(d)'
  BY <1>2 DEF NoGood
<1>4. ASSUME NEW t, GoodFor(d, t) PROVE GoodFor(d, t)'
  BY <1>2, <1>4 DEF GoodFor
<1> QED
  BY <1>3, <1>4

LEMMA GoodReply ==
  ASSUME RelayTypeOK, NEW d \in Conns, NEW code, NEW s, Replied(d, code, s), NoGood(d)
  PROVE  GoodFor(d, s)'
<1> DEFINE l == Len(s2c[d])
<1>1. /\ l \in Nat /\ Len(s2c'[d]) = l + 1
      /\ \A k \in 1 .. l : s2c'[d][k] = s2c[d][k]
      /\ s2c'[d][l + 1].for = s
  BY RepliedLast
<1>2. \A k \in 1 .. Len(s2c'[d]) : Good(s2c'[d][k]) => k = l + 1
  BY <1>1 DEF NoGood
<1> QED
  BY <1>1, <1>2 DEF GoodFor

(* Where a connection stands is said by its phase, recipients and stream. *)
LEMMA SameStands ==
  ASSUME mails' = mails, NEW c, NEW s, NEW i, NEW len,
         phase'[c] = phase[c], rcpts'[c] = rcpts[c], Stream(c)' = Stream(c)
  PROVE  Stands(c, s, i, len)' <=> Stands(c, s, i, len)
<1>1. mail' = mail
  BY DEF mail
<1>2. RcptsBefore(s, i)' = RcptsBefore(s, i) /\ BlocksBefore(s, i)' = BlocksBefore(s, i)
  BY <1>1 DEF RcptsBefore, BlocksBefore
<1>3. IsRcpts(rcpts[c], Len(mails), RcptsBefore(s, i))'
      <=> IsRcpts(rcpts[c], Len(mails), RcptsBefore(s, i))
  BY <1>2 DEF IsRcpts
<1>4. StartsWithBlocks(Stream(c), Len(mails), BlocksBefore(s, i))'
      <=> StartsWithBlocks(Stream(c), Len(mails), BlocksBefore(s, i))
  BY <1>2 DEF StartsWithBlocks
<1> QED
  BY <1>3, <1>4 DEF Stands

LEMMA SameReady ==
  ASSUME mails' = mails, NEW c, NEW s, NEW i, phase'[c] = phase[c], rcpts'[c] = rcpts[c],
         Stream(c)' = Stream(c), s2c'[c] = s2c[c]
  PROVE  Ready(c, s, i)' <=> Ready(c, s, i)
<1>1. Stands(c, s, i, BlocksBefore(s, i))' <=> Stands(c, s, i, BlocksBefore(s, i))
  <2>1. BlocksBefore(s, i)' = BlocksBefore(s, i)
    BY DEF BlocksBefore, mail
  <2>2. PICK len : len = BlocksBefore(s, i)
    OBVIOUS
  <2>3. Stands(c, s, i, len)' <=> Stands(c, s, i, len)
    BY SameStands
  <2>4. Stands(c, s, i, BlocksBefore(s, i))' <=> Stands(c, s, i, len)'
    BY <2>1, <2>2 DEF Stands
  <2> QED
    BY <2>2, <2>3, <2>4
<1>2. NoGood(c)' <=> NoGood(c)
  BY DEF NoGood
<1> QED
  BY <1>1, <1>2 DEF Ready

(* The relay leaves a client alone that has nothing asked. *)
LEMMA RelayKeepsReady ==
  ASSUME RelayTypeOK, RelayAssumption, NEW d \in Conns, RelayOn(d), mails' = mails,
         NEW c \in Conns, NEW s, NEW i, Ready(c, s, i)
  PROVE  Ready(c, s, i)'
<1>1. ASSUME phase'[c] = phase[c], rcpts'[c] = rcpts[c], Stream(c)' = Stream(c), s2c'[c] = s2c[c]
      PROVE  Ready(c, s, i)'
  BY <1>1, SameReady
<1>2. CASE c # d
  <2>1. SameMail(c) /\ phase'[c] = phase[c] /\ s2c'[c] = s2c[c]
    BY <1>2, RelayElsewhere
  <2> QED
    BY <2>1, <1>1, SameStream DEF SameMail
<1>3. CASE c = d /\ ReadLine(d)
  BY <1>1, <1>3, LineHere, LineKeepsStream
<1>4. CASE c = d /\ (ReadGarbage(d) \/ Hangup(d))
  <2>1. phase'[c] = "closed"
    BY <1>4, CloseHere
  <2>2. NoGood(c)'
    <3>1. CASE s2c'[c] = s2c[c]
      BY <3>1 DEF NoGood, Ready
    <3>2. CASE Replied(d, 421, "NONE")
      BY <1>4, <3>2, BadReply DEF Ready
    <3> QED
      BY <1>4, <3>1, <3>2, CloseHere
  <2> QED
    BY <2>1, <2>2 DEF Ready
<1>5. CASE c = d /\ Greet(d)
  BY <1>5, GreetHere DEF Ready, Stands
<1>6. CASE c = d /\ (AcceptCommand(d) \/ RefuseCommand(d))
  <2>1. phase[c] = "cmd" /\ Taken(c)
    BY <1>6, AcceptHere, RefuseHere
  <2>2. Len(Stream(c)) = 0
    BY <2>1 DEF Ready, Stands, BlocksBefore
  <2>3. Stream(c) = <<>>
    BY <2>2, StreamType
  <2>4. c2s[c] = <<>>
    <3>1. Stream(c) = <<>> => body[c] = <<>> /\ c2s[c] = <<>>
      BY EmptyStream
    <3> QED
      BY <2>3, <3>1, Zenon
  <2> QED
    BY <2>1, <2>4 DEF Taken
<1>7. CASE c = d /\ ReadDot(d)
  <2>1. phase[c] = "data" /\ Taken(c) /\ Head(c2s[c]).verb \in {"DATAEND", "DOT"}
    BY <1>7, DotHere
  <2>2. 1 \in 1 .. Len(c2s[c]) /\ Head(c2s[c]) = c2s[c][1]
    BY <2>1, TakenTail
  <2>3. Stream(c)[Len(body[c]) + 1] = Head(c2s[c]) /\ Len(body[c]) + 1 \in 1 .. Len(Stream(c))
    BY <2>2, StreamAt
  <2>4. Len(Stream(c)) = BlocksBefore(s, i) /\ StartsWithBlocks(Stream(c), Len(mails), BlocksBefore(s, i))
    BY <2>1 DEF Ready, Stands
  <2>5. Stream(c)[Len(body[c]) + 1].verb = "DATABLOCK"
    BY <2>3, <2>4 DEF StartsWithBlocks
  <2> QED
    BY <2>1, <2>3, <2>5
<1> QED
  BY <1>2, <1>3, <1>4, <1>5, <1>6, <1>7 DEF RelayOn

(* One more recipient. *)
LEMMA OneMoreRcpt ==
  ASSUME NEW q \in Seq(Message), NEW n, NEW i \in Nat \ {0}, IsRcpts(q, n, i - 1),
         NEW m \in Message, m.verb = "RCPTTO", m.n = n, m.i = i
  PROVE  IsRcpts(Append(q, m), n, i)
<1>1. /\ Len(Append(q, m)) = Len(q) + 1
      /\ \A k \in 1 .. Len(q) : Append(q, m)[k] = q[k]
      /\ Append(q, m)[Len(q) + 1] = m
  BY AppendProperties
<1>2. Len(q) = i - 1 /\ \A k \in 1 .. i - 1 : q[k].verb = "RCPTTO" /\ q[k].n = n /\ q[k].i = k
  BY DEF IsRcpts
<1>3. (i - 1) + 1 = i /\ \A k \in 1 .. i : k \in 1 .. i - 1 \/ k = i
  OBVIOUS
<1>4. Append(q, m)[i] = m /\ Len(Append(q, m)) = i
  BY <1>1, <1>2, <1>3
<1> QED
  BY <1>1, <1>2, <1>3, <1>4 DEF IsRcpts

(* The one command a client waits for the answer to. *)
LEMMA OneAsked ==
  ASSUME RelayTypeOK, NEW c \in Conns, WholeBeforeDot(c), NEW s, NEW i,
         s \notin {"INIT", "DATABLOCK", "DATAEND"}, Asked(c, s, i)
  PROVE  /\ phase[c] = "cmd" /\ body[c] = <<>> /\ c2s[c] \in Seq(Message) /\ Len(c2s[c]) = 1
         /\ Head(c2s[c]).verb = s /\ Head(c2s[c]).n = Len(mails) /\ Head(c2s[c]).i = i
         /\ IsRcpts(rcpts[c], Len(mails), RcptsBefore(s, i))
<1>1. BlocksBefore(s, i) = 0 /\ 0 + 1 = 1
  BY DEF BlocksBefore
<1>2. /\ Stands(c, s, i, 1)
      /\ Stream(c)[1].verb = s /\ Stream(c)[1].n = Len(mails) /\ Stream(c)[1].i = i
  BY <1>1 DEF Asked
<1>3. phase[c] = "cmd" /\ IsRcpts(rcpts[c], Len(mails), RcptsBefore(s, i)) /\ Len(Stream(c)) = 1
  BY <1>2 DEF Stands
<1>4. body[c] = <<>>
  BY <1>3 DEF WholeBeforeDot
<1>5. Stream(c) = c2s[c] /\ c2s[c] \in Seq(Message)
  BY <1>4, StreamIsQueue, StreamType
<1>6. Head(c2s[c]) = c2s[c][1]
  BY <1>3, <1>5, NotEmpty
<1> QED
  BY <1>2, <1>3, <1>4, <1>5, <1>6

(* The relay answers the command, and nothing is left on its way. *)
LEMMA RelayAnswersCommand ==
  ASSUME RelayTypeOK, RelayTypeOK', RelayAssumption, mails' = mails, NEW c \in Conns,
         AcceptCommand(c) \/ RefuseCommand(c),
         NEW s, NEW i \in Nat, s \notin {"INIT", "DATABLOCK", "DATAEND", "QUIT"},
         s = "RCPTTO" => i # 0, WholeBeforeDot(c), Asked(c, s, i), NoGood(c)
  PROVE  Waiting(c, s, i)'
<1>0. /\ phase[c] = "cmd" /\ body[c] = <<>> /\ c2s[c] \in Seq(Message) /\ Len(c2s[c]) = 1
      /\ Head(c2s[c]).verb = s /\ Head(c2s[c]).n = Len(mails) /\ Head(c2s[c]).i = i
      /\ IsRcpts(rcpts[c], Len(mails), RcptsBefore(s, i))
  BY OneAsked
<1>1. c2s'[c] = <<>> /\ body'[c] = <<>>
  <2>1. Taken(c) /\ body'[c] = body[c]
    BY AcceptHere, RefuseHere
  <2>2. Len(c2s'[c]) = 0 /\ c2s'[c] \in Seq(Message)
    BY <1>0, <2>1, TakenTail
  <2> QED
    BY <1>0, <2>1, <2>2, EmptySeq
<1>2. Stream(c)' = <<>>
  BY <1>1, ConcatEmptySeq DEF Stream
<1>3. CASE AcceptCommand(c)
  <2>1. /\ phase'[c] = PhaseAfter(s) /\ Replied(c, PositiveCode(s), s)
        /\ Head(c2s[c]) \in Message
        /\ rcpts'[c] = IF s = "RCPTTO" THEN Append(rcpts[c], Head(c2s[c]))
                       ELSE IF s \in {"EHLO", "EHLO_TLS"} THEN <<>> ELSE rcpts[c]
    BY <1>0, <1>3, AcceptHere
  <2>2. GoodFor(c, s)'
    BY <2>1, GoodReply
  <2>3. IsRcpts(rcpts'[c], Len(mails), IF s = "RCPTTO" THEN i
                                       ELSE IF s = "DATA" THEN Recipients(mail) ELSE 0)
    <3>1. CASE s = "RCPTTO"
      <4>1. RcptsBefore(s, i) = i - 1 /\ rcpts[c] \in Seq(Message)
        BY <3>1 DEF RcptsBefore, RelayTypeOK
      <4>2. IsRcpts(Append(rcpts[c], Head(c2s[c])), Len(mails), i)
        BY <1>0, <2>1, <3>1, <4>1, OneMoreRcpt
      <4> QED
        BY <2>1, <3>1, <4>2
    <3>2. CASE s = "DATA"
      BY <1>0, <2>1, <3>2 DEF RcptsBefore
    <3>3. CASE s \in {"EHLO", "EHLO_TLS"}
      BY <2>1, <3>3 DEF IsRcpts
    <3>4. CASE s \notin {"RCPTTO", "DATA", "EHLO", "EHLO_TLS"}
      BY <1>0, <2>1, <3>4 DEF RcptsBefore
    <3> QED
      BY <3>1, <3>2, <3>3, <3>4
  <2>4. mail' = mail
    BY DEF mail
  <2>5. Granted(c, s, i)'
    BY <1>2, <2>1, <2>3, <2>4 DEF Granted, IsRcpts
  <2> QED
    BY <2>2, <2>5 DEF Waiting
<1>4. CASE RefuseCommand(c)
  <2>1. phase'[c] = "cmd" /\ \E code \in {500, 530, 550} : \E e : Replied(c, code, e)
    BY <1>4, RefuseHere
  <2>2. NoGood(c)'
    BY <2>1, BadReply
  <2> QED
    BY <1>1, <2>1, <2>2 DEF Waiting
<1> QED
  BY <1>3, <1>4

(* The relay answers the final dot. *)
LEMMA RelayAnswersDot ==
  ASSUME TypeOK, RelayTypeOK', RelayAssumption, SessionAssumption, mails' = mails, mails # <<>>,
         NEW c \in Conns, ReadDot(c), NEW i, WholeBeforeDot(c), Asked(c, "DATAEND", i), NoGood(c)
  PROVE  Waiting(c, "DATAEND", i)'
<1>0. RelayTypeOK /\ mails \in Seq(Mails) /\ Len(mails) \in 1 .. Len(mails)
  BY NotEmpty DEF TypeOK, ClientTypeOK
<1>1. mail \in Mail /\ Len(Blocks(mail)) \in Nat
  BY <1>0, BlocksLen, ElementOfSeq DEF mail, SessionAssumption
<1> DEFINE b == Len(Blocks(mail))
           p == Len(body[c]) + 1
<1>2. /\ Len(Stream(c)) = b + 1 /\ StartsWithBlocks(Stream(c), Len(mails), b)
      /\ Stream(c)[b + 1].verb = "DATAEND" /\ Stream(c)[b + 1].n = Len(mails)
  BY DEF Asked, Stands, BlocksBefore
<1>3. Taken(c) /\ Head(c2s[c]).verb \in {"DATAEND", "DOT"} /\ rcpts'[c] = <<>> /\ body'[c] = <<>>
      /\ phase'[c] = "cmd"
  BY <1>0, DotHere
<1>4. 1 \in 1 .. Len(c2s[c]) /\ Head(c2s[c]) = c2s[c][1]
  BY <1>0, <1>3, TakenTail
<1>5. Stream(c)[p] = Head(c2s[c]) /\ p \in 1 .. Len(Stream(c)) /\ Len(body[c]) \in Nat
  BY <1>0, <1>4, StreamAt
<1>6. p = b + 1
  <2>1. p \notin 1 .. b
    BY <1>2, <1>3, <1>5 DEF StartsWithBlocks
  <2>2. b \in Nat /\ p \in 1 .. b + 1
    BY <1>1, <1>2, <1>5
  <2> HIDE DEF b, p
  <2> QED
    BY <2>1, <2>2
<1>7. c2s'[c] = <<>>
  <2>1. Len(c2s[c]) \in Nat
    BY <1>0, StreamType
  <2>2. Len(c2s'[c]) = Len(c2s[c]) - 1 /\ c2s'[c] \in Seq(Message)
    BY <1>0, <1>3, TakenTail
  <2>5. Len(Stream(c)) = Len(body[c]) + Len(c2s[c])
    <3> HIDE DEF b, p
    <3> QED
      BY <1>0, StreamType
  <2>6. PICK l, k, m : l = Len(body[c]) /\ k = Len(c2s[c]) /\ m = Len(Stream(c))
    BY Zenon
  <2>7. b \in Nat
    BY <1>1
  <2>4. Len(c2s[c]) = 1
    <3> HIDE DEF b
    <3>1. l + 1 = b + 1 /\ m = b + 1 /\ m = l + k
      BY <1>2, <1>6, <2>5, <2>6
    <3>2. l \in Nat /\ k \in Nat /\ b \in Nat /\ m \in Nat
      BY <1>5, <2>1, <2>6, <2>7, <3>1
    <3>3. k = 1
      BY <3>1, <3>2
    <3> QED
      BY <2>6, <3>3
  <2> QED
    BY <2>2, <2>4, EmptySeq
<1>8. Stream(c)' = <<>>
  BY <1>3, <1>7, ConcatEmptySeq DEF Stream
<1>9. Head(c2s[c]).verb = "DATAEND" /\ Head(c2s[c]).n = Len(mails)
  BY <1>2, <1>5, <1>6
<1>10. \E s \in {"DATABLOCK", "DATAEND"} :
           /\ s = "DATABLOCK" => Head(c2s[c]).verb = "DOT"
           /\ \/ /\ accepted' = Append(accepted, [rcpts |-> rcpts[c], body |-> body[c]])
                 /\ Replied(c, 250, s)
              \/ /\ accepted' = accepted
                 /\ \E code \in {500, 530, 550} : Replied(c, code, s)
  BY <1>0, DotAnswered
<1>11. \/ /\ accepted' = Append(accepted, [rcpts |-> rcpts[c], body |-> body[c]])
          /\ Replied(c, 250, "DATAEND")
       \/ \E code \in {500, 530, 550} : Replied(c, code, "DATAEND")
  BY <1>9, <1>10
<1>12. CASE \E code \in {500, 530, 550} : Replied(c, code, "DATAEND")
  <2>1. NoGood(c)'
    BY <1>0, <1>12, BadReply
  <2> QED
    BY <1>3, <1>7, <2>1 DEF Waiting
<1>13. CASE /\ accepted' = Append(accepted, [rcpts |-> rcpts[c], body |-> body[c]])
            /\ Replied(c, 250, "DATAEND")
  <2>1. GoodFor(c, "DATAEND")'
    BY <1>0, <1>13, GoodReply
  <2>2. \E j \in 1 .. Len(accepted') : /\ accepted'[j].rcpts = rcpts[c]
                                       /\ accepted'[j].body = body[c]
    <3> DEFINE a == [rcpts |-> rcpts[c], body |-> body[c]]
               M == [rcpts: Seq(Message), body: Seq(Message)]
    <3>1. accepted \in Seq(M) /\ a \in M /\ a.rcpts = rcpts[c] /\ a.body = body[c]
          /\ accepted' = Append(accepted, a)
      BY <1>0, <1>13 DEF RelayTypeOK
    <3> HIDE DEF a, M
    <3>2. /\ Len(accepted') = Len(accepted) + 1 /\ accepted'[Len(accepted) + 1] = a
          /\ Len(accepted) \in Nat
      BY <3>1, AppendProperties, LenProperties
    <3>3. Len(accepted) + 1 \in 1 .. Len(accepted')
      BY <3>2
    <3> QED
      BY <3>1, <3>2, <3>3
  <2>3. PICK j \in 1 .. Len(accepted') : accepted'[j].rcpts = rcpts[c] /\ accepted'[j].body = body[c]
    BY <2>2
  <2>4. Whole(accepted'[j], Len(mails))
    BY <1>0, <1>9, <2>3, DotIsWhole
  <2>5. PICK n : n = Len(mails)
    BY Zenon
  <2>6. Whole(accepted[j], n)'
    BY <2>4, <2>5 DEF Whole
  <2>7. Accepted(Len(mails))'
    BY <2>5, <2>6 DEF Accepted, Whole
  <2>8. IsRcpts(rcpts'[c], Len(mails'), 0)
    BY <1>3 DEF IsRcpts
  <2>9. Granted(c, "DATAEND", i)'
    BY <1>3, <1>8, <2>7, <2>8 DEF Granted, PhaseAfter
  <2> QED
    BY <2>1, <2>9 DEF Waiting
<1> QED
  BY <1>11, <1>12, <1>13

(* What a lost connection leaves to read is no good news. *)
LEMMA CloseKeepsReplies ==
  ASSUME RelayTypeOK, RelayAssumption, NEW c \in Conns, ReadGarbage(c) \/ Hangup(c)
  PROVE  /\ NoGood(c) => NoGood(c)'
         /\ \A t : GoodFor(c, t) => GoodFor(c, t)'
<1>1. CASE s2c'[c] = s2c[c]
  <2>1. NoGood(c) => NoGood(c)'
    BY <1>1 DEF NoGood
  <2>2. ASSUME NEW t, GoodFor(c, t) PROVE GoodFor(c, t)'
    BY <1>1, <2>2 DEF GoodFor
  <2> QED
    BY <2>1, <2>2
<1>2. CASE Replied(c, 421, "NONE")
  BY <1>2, BadReply
<1> QED
  BY <1>1, <1>2, CloseHere

(* While nothing is on its way, the relay reads nothing. *)
LEMMA ReadsSomething ==
  ASSUME RelayTypeOK, RelayAssumption, NEW c \in Conns, Stream(c) = <<>> \/ c2s[c] = <<>>
  PROVE  ~AcceptCommand(c) /\ ~RefuseCommand(c) /\ ~ReadLine(c) /\ ~ReadDot(c)
<1>1. c2s[c] = <<>>
  <2>1. Stream(c) = <<>> => body[c] = <<>> /\ c2s[c] = <<>>
    BY EmptyStream
  <2> QED
    BY <2>1, Zenon
<1> QED
  BY <1>1 DEF AcceptCommand, RefuseCommand, ReadLine, ReadDot, Reads

(* The relay greets a client that waits for the greeting. *)
LEMMA RelayGreets ==
  ASSUME RelayTypeOK, RelayTypeOK', RelayAssumption, NEW c \in Conns, Greet(c), NEW i,
         NoGood(c), Asked(c, "INIT", i)
  PROVE  Waiting(c, "INIT", i)'
<1>1. rcpts'[c] = <<>> /\ Stream(c)' = <<>>
  BY GreetHere, SameStream DEF Asked, SameMail
<1>2. CASE phase'[c] = "cmd" /\ Replied(c, 220, "INIT")
  <2>1. GoodFor(c, "INIT")'
    BY <1>2, GoodReply
  <2>2. IsRcpts(rcpts'[c], Len(mails'), 0)
    BY <1>1 DEF IsRcpts
  <2>3. Granted(c, "INIT", i)'
    BY <1>1, <1>2, <2>2 DEF Granted, PhaseAfter
  <2> QED
    BY <2>1, <2>3 DEF Waiting
<1>3. CASE phase'[c] = "closed" /\ Replied(c, 421, "INIT")
  <2>1. NoGood(c)'
    BY <1>3, BadReply
  <2> QED
    BY <1>3, <2>1 DEF Waiting
<1> QED
  BY <1>2, <1>3, GreetHere

(* What is said of a connection changes only with its parts. *)
LEMMA SameAsked ==
  ASSUME mails' = mails, NEW c, NEW s, NEW i, phase'[c] = phase[c], rcpts'[c] = rcpts[c],
         Stream(c)' = Stream(c)
  PROVE  Asked(c, s, i)' <=> Asked(c, s, i)
<1>1. PICK k : k = BlocksBefore(s, i) + 1
  OBVIOUS
<1>2. (BlocksBefore(s, i) + 1)' = k
  BY <1>1 DEF BlocksBefore, mail
<1>3. Stands(c, s, i, k)' <=> Stands(c, s, i, k)
  BY SameStands
<1>4. CASE s = "INIT"
  BY <1>4 DEF Asked
<1>5. CASE s # "INIT"
  <2>1. Asked(c, s, i) <=>
          Stands(c, s, i, k) /\ Stream(c)[k].verb = s /\ Stream(c)[k].n = Len(mails) /\ Stream(c)[k].i = i
    BY <1>1, <1>5 DEF Asked
  <2>2. Asked(c, s, i)' <=>
          /\ Stands(c, s, i, k)'
          /\ Stream(c)'[k].verb = s /\ Stream(c)'[k].n = Len(mails') /\ Stream(c)'[k].i = i
    <3>1. Stands(c, s, i, BlocksBefore(s, i) + 1)' <=> Stands(c, s, i, k)'
      BY <1>2 DEF Stands
    <3> QED
      BY <1>2, <1>5, <3>1 DEF Asked
  <2> QED
    BY <1>3, <2>1, <2>2
<1> QED
  BY <1>4, <1>5

LEMMA SameWaiting ==
  ASSUME mails' = mails, NEW c, NEW s, NEW i, phase'[c] = phase[c], SameMail(c),
         s2c'[c] = s2c[c], Accepted(Len(mails)) => Accepted(Len(mails))', Waiting(c, s, i)
  PROVE  Waiting(c, s, i)'
<1>1. Stream(c)' = Stream(c) /\ rcpts'[c] = rcpts[c] /\ c2s'[c] = c2s[c]
  BY SameStream DEF SameMail
<1>2. Asked(c, s, i)' <=> Asked(c, s, i)
  BY <1>1, SameAsked
<1>3. NoGood(c)' <=> NoGood(c)
  BY DEF NoGood
<1>4. GoodFor(c, s)' <=> GoodFor(c, s)
  BY DEF GoodFor
<1>5. Granted(c, s, i) => Granted(c, s, i)'
  <2>1. mail' = mail
    BY DEF mail
  <2>2. PICK k : k = IF s = "RCPTTO" THEN i ELSE IF s = "DATA" THEN Recipients(mail) ELSE 0
    OBVIOUS
  <2>3. k = (IF s = "RCPTTO" THEN i ELSE IF s = "DATA" THEN Recipients(mail) ELSE 0)'
    BY <2>1, <2>2
  <2>4. IsRcpts(rcpts[c], Len(mails), k)' <=> IsRcpts(rcpts[c], Len(mails), k)
    BY <1>1 DEF IsRcpts
  <2>5. Granted(c, s, i) <=>
          /\ phase[c] # "closed" => /\ phase[c] = PhaseAfter(s) /\ IsRcpts(rcpts[c], Len(mails), k)
                                    /\ Stream(c) = <<>>
          /\ s = "DATAEND" => Accepted(Len(mails))
    BY <2>2 DEF Granted
  <2>6. Granted(c, s, i)' <=>
          /\ phase'[c] # "closed" => /\ phase'[c] = PhaseAfter(s) /\ IsRcpts(rcpts[c], Len(mails), k)'
                                     /\ Stream(c)' = <<>>
          /\ s = "DATAEND" => Accepted(Len(mails))'
    BY <2>3 DEF Granted, IsRcpts
  <2> QED
    BY <1>1, <2>4, <2>5, <2>6
<1> QED
  BY <1>1, <1>2, <1>3, <1>4, <1>5 DEF Waiting

(* The relay answers what it is asked, and that alone. *)
LEMMA RelayKeepsWaiting ==
  ASSUME TypeOK, RelayTypeOK', RelayAssumption, SessionAssumption, mails' = mails,
         NEW d \in Conns, RelayOn(d), NEW c \in Conns, WholeBeforeDot(c), NEW i \in Nat,
         NEW s, s \in Steps \ {"QUIT", "DATABLOCK"}, s = "RCPTTO" => i # 0,
         s = "DATAEND" => mails # <<>>, Waiting(c, s, i)
  PROVE  Waiting(c, s, i)'
<1>0. RelayTypeOK
  BY DEF TypeOK
<1>1. Accepted(Len(mails)) => Accepted(Len(mails))'
  <2>1. PICK n : n = Len(mails)
    BY Zenon
  <2>2. Accepted(n) => Accepted(n)'
    BY <1>0, StaysAccepted
  <2>3. Accepted(Len(mails))' <=> Accepted(n)'
    BY <2>1 DEF Accepted, Whole
  <2> QED
    BY <2>1, <2>2, <2>3
<1>2. CASE c # d
  <2>1. SameMail(c) /\ phase'[c] = phase[c] /\ s2c'[c] = s2c[c]
    BY <1>0, <1>2, RelayElsewhere
  <2> QED
    BY <1>1, <2>1, SameWaiting
<1>3. CASE c = d /\ (ReadGarbage(c) \/ Hangup(c))
  <2>1. phase'[c] = "closed"
    BY <1>0, <1>3, CloseHere
  <2>2. (NoGood(c) => NoGood(c)') /\ (GoodFor(c, s) => GoodFor(c, s)')
    BY <1>0, <1>3, CloseKeepsReplies
  <2>3. Granted(c, s, i) => Granted(c, s, i)'
    BY <1>1, <2>1 DEF Granted
  <2> QED
    BY <2>1, <2>2, <2>3 DEF Waiting
<1>4. CASE c = d /\ ~(ReadGarbage(c) \/ Hangup(c))
  <2>0. Greet(c) \/ AcceptCommand(c) \/ RefuseCommand(c) \/ ReadLine(c) \/ ReadDot(c)
    BY <1>4 DEF RelayOn
  <2>1. phase[c] \in {"new", "cmd", "data"}
    BY <2>0 DEF Greet, AcceptCommand, RefuseCommand, ReadLine, ReadDot, Reads
  <2>2. Greet(c) => phase[c] = "new"
    BY DEF Greet
  <2>3. ~(GoodFor(c, s) /\ Granted(c, s, i))
    <3>1. SUFFICES ASSUME Granted(c, s, i) PROVE FALSE
      OBVIOUS
    <3>2. phase[c] = PhaseAfter(s) /\ Stream(c) = <<>>
      BY <2>1, <3>1 DEF Granted
    <3>3. phase[c] # "new"
      BY <3>2 DEF PhaseAfter
    <3> QED
      BY <1>0, <2>0, <2>2, <3>2, <3>3, ReadsSomething
  <2>4. NoGood(c) /\ (Asked(c, s, i) \/ (phase[c] = "cmd" /\ c2s[c] = <<>>))
    BY <2>1, <2>3 DEF Waiting
  <2>5. Asked(c, s, i)
    BY <1>0, <2>0, <2>2, <2>4, ReadsSomething
  <2>6. CASE s = "INIT"
    <3>1. Stream(c) = <<>>
      BY <2>5, <2>6 DEF Asked
    <3>2. Greet(c)
      BY <1>0, <2>0, <3>1, ReadsSomething
    <3> QED
      BY <1>0, <2>4, <2>5, <2>6, <3>2, RelayGreets
  <2>7. CASE s = "DATAEND"
    <3>1. phase[c] = "data"
      BY <2>5, <2>7 DEF Asked, Stands
    <3>2. ReadLine(c) \/ ReadDot(c)
      BY <2>0, <3>1 DEF Greet, AcceptCommand, RefuseCommand, Reads
    <3>3. CASE ReadLine(c)
      <4>1. Asked(c, s, i)'
        BY <1>0, <2>5, <3>3, LineHere, LineKeepsStream, SameAsked
      <4>2. NoGood(c)'
        BY <1>0, <2>4, <3>3, LineHere DEF NoGood
      <4> QED
        BY <4>1, <4>2 DEF Waiting
    <3>4. CASE ReadDot(c)
      BY <2>4, <2>5, <2>7, <3>4, RelayAnswersDot
    <3> QED
      BY <3>2, <3>3, <3>4
  <2>8. CASE s \notin {"INIT", "DATAEND"}
    <3>1. phase[c] = "cmd"
      BY <2>5, <2>8 DEF Asked, Stands
    <3>2. AcceptCommand(c) \/ RefuseCommand(c)
      BY <2>0, <3>1 DEF Greet, ReadLine, ReadDot, Reads
    <3> QED
      BY <1>0, <2>4, <2>5, <2>8, <3>2, RelayAnswersCommand
  <2> QED
    BY <2>6, <2>7, <2>8
<1> QED
  BY <1>2, <1>3, <1>4 DEF RelayOn

LEMMA RelayKeepsSecuring ==
  ASSUME RelayTypeOK, RelayAssumption, NEW d \in Conns, RelayOn(d), NEW c \in Conns, Securing(c)
  PROVE  Securing(c)'
<1>0. conf' = conf
  BY DEF RelayOn, Greet, AcceptCommand, RefuseCommand, ReadLine, ReadDot, ReadGarbage, Hangup
<1>1. CASE c # d
  <2>1. SameMail(c) /\ phase'[c] = phase[c] /\ s2c'[c] = s2c[c] /\ Stream(c)' = Stream(c)
    BY <1>1, RelayElsewhere, SameStream
  <2> QED
    BY <1>0, <2>1 DEF Securing, SameMail, NoGood
<1>2. CASE c = d /\ phase'[c] = "closed" /\ (ReadGarbage(c) \/ Hangup(c))
  <2>1. SameMail(c) /\ Stream(c)' = Stream(c) /\ (NoGood(c) => NoGood(c)')
    BY <1>2, CloseHere, CloseKeepsReplies, SameStream
  <2> QED
    BY <1>0, <1>2, <2>1 DEF Securing, SameMail
<1>3. CASE c = d /\ Greet(c)
  <2>1. SameMail(c) /\ Stream(c)' = Stream(c) /\ phase[c] = "new" /\ phase'[c] \in {"cmd", "closed"}
    BY <1>3, GreetHere, SameStream
  <2> QED
    BY <1>0, <2>1 DEF Securing, SameMail
<1>4. CASE c = d /\ (AcceptCommand(c) \/ RefuseCommand(c) \/ ReadLine(c) \/ ReadDot(c))
  <2>1. phase[c] \in {"cmd", "data"}
    BY <1>4 DEF AcceptCommand, RefuseCommand, ReadLine, ReadDot, Reads
  <2>2. Stream(c) = <<>>
    BY <2>1 DEF Securing
  <2> QED
    BY <1>4, <2>2, ReadsSomething
<1> QED
  BY <1>1, <1>2, <1>3, <1>4, CloseHere DEF RelayOn

LEMMA RelayKeepsUntouched ==
  ASSUME RelayTypeOK, RelayAssumption, NEW d \in Conns, RelayOn(d), UNCHANGED socket, Untouched
  PROVE  Untouched'
<1>1. phase[d] # "none"
  BY DEF RelayOn, Greet, AcceptCommand, RefuseCommand, ReadLine, ReadDot, ReadGarbage, Hangup, Reads
<1>2. ASSUME NEW c \in Conns, c > opened
      PROVE  phase'[c] = "none" /\ s2c'[c] = <<>> /\ c2s'[c] = <<>> /\ rcpts'[c] = <<>> /\ body'[c] = <<>>
  <2>1. c # d
    BY <1>1, <1>2 DEF Untouched
  <2> QED
    BY <1>2, <2>1, RelayElsewhere DEF Untouched, SameMail
<1> QED
  BY <1>2 DEF Untouched, socket

(* The relay keeps in step with the client. *)
LEMMA RelayKeepsInStep ==
  ASSUME TypeOK, RelayTypeOK', RelayAssumption, SessionAssumption, SocketOK, Counted, ~resumed,
         NEW d \in Conns, RelayOn(d), UNCHANGED <<control, socket, history>>,
         \A c \in Conns : WholeBeforeDot(c), InStep
  PROVE  InStep'
<1>0. RelayTypeOK
  BY DEF TypeOK
<1>1. UNCHANGED <<mails, results, resumed, mixed, pc, caller, step, index, m_socket, m_bConnected>>
  BY DEF control, socket, history
<1>2. PICK c, s, i : c = m_socket /\ s = step /\ i = index
  OBVIOUS
<1>3. c \in 0 .. MaxConns /\ (c # 0 => c \in Conns) /\ i \in Nat /\ s \in Steps
  BY <1>2 DEF TypeOK, ClientTypeOK, Conns
<1>4. RelayStep
  BY DEF RelayStep, RelayOn
<1>5. \A e \in Conns : Fresh(e) => Fresh(e)'
  BY <1>4, RelayKeepsFresh
<1>6. ASSUME pc = "user", m_bConnected PROVE Ready(c, "MAILFROM", 0)'
  <2>1. c \in Conns /\ Ready(c, "MAILFROM", 0)
    BY <1>2, <1>3, <1>6 DEF SocketOK, InStep
  <2> QED
    BY <1>0, <1>1, <2>1, RelayKeepsReady
<1>7. ASSUME pc = "tls" PROVE Securing(c)'
  <2>1. c \in Conns /\ Securing(c)
    BY <1>2, <1>3, <1>7 DEF SocketOK, InStep
  <2> QED
    BY <1>0, <2>1, RelayKeepsSecuring
<1>8. ASSUME pc = "send", step # "QUIT" PROVE Ready(c, s, i)' \/ (step = "MAILFROM" /\ Fresh(c)')
  <2>1. c \in Conns /\ (Ready(c, s, i) \/ (step = "MAILFROM" /\ Fresh(c)))
    BY <1>2, <1>3, <1>8 DEF SocketOK, InStep
  <2>2. Ready(c, s, i) => Ready(c, s, i)'
    BY <1>0, <1>1, <2>1, RelayKeepsReady
  <2> QED
    BY <1>5, <2>1, <2>2
<1>9. ASSUME pc = "recv", step # "QUIT" PROVE Waiting(c, s, i)' \/ (step = "MAILFROM" /\ Fresh(c)')
  <2>1. c \in Conns /\ (Waiting(c, s, i) \/ (step = "MAILFROM" /\ Fresh(c)))
    BY <1>2, <1>3, <1>9 DEF SocketOK, InStep
  <2>2. s \in Steps \ {"QUIT", "DATABLOCK"} /\ (s = "RCPTTO" => i # 0)
    BY <1>2, <1>3, <1>9 DEF Counted
  <2>3. s = "DATAEND" => mails # <<>>
    <3>1. SUFFICES ASSUME s = "DATAEND" PROVE mails # <<>>
      OBVIOUS
    <3>2. Unreported /\ pc \notin Final
      BY <1>2, <1>9, <3>1 DEF Counted, Unreported, MailSteps, Final
    <3>3. Len(mails) = Len(results) + 1
      BY <3>2 DEF Counted
    <3>4. Len(results) \in Nat
      BY LenProperties DEF TypeOK, ClientTypeOK
    <3>5. Len(mails) # 0
      BY <3>3, <3>4
    <3> QED
      BY <3>5
  <2>4. Waiting(c, s, i) => Waiting(c, s, i)'
    BY <1>1, <1>3, <2>1, <2>2, <2>3, RelayKeepsWaiting
  <2> QED
    BY <1>5, <2>1, <2>4
<1>10. ~mixed'
  BY <1>1 DEF InStep
<1>11. /\ pc' = "user" /\ m_bConnected' => Ready(m_socket, "MAILFROM", 0)'
       /\ pc' = "tls" => Securing(m_socket)'
  <2>1. pc' = "user" /\ m_bConnected' => Ready(m_socket, "MAILFROM", 0)'
    <3>1. Ready(c, "MAILFROM", 0)' => Ready(m_socket, "MAILFROM", 0)'
      BY <1>1, <1>2
    <3> QED
      BY <1>1, <1>6, <3>1
  <2>2. pc' = "tls" => Securing(m_socket)'
    <3>1. Securing(c)' => Securing(m_socket)'
      BY <1>1, <1>2 DEF Securing, NoGood, Stream
    <3> QED
      BY <1>1, <1>7, <3>1
  <2> QED
    BY <2>1, <2>2
<1>12. Fresh(c)' => Fresh(m_socket)'
  BY <1>1, <1>2 DEF Fresh
<1>13. pc' = "send" /\ step' # "QUIT" =>
         Ready(m_socket, step, index)' \/ (step' = "MAILFROM" /\ Fresh(m_socket)')
  <2>1. Ready(c, s, i)' => Ready(m_socket, step, index)'
    BY <1>1, <1>2
  <2> QED
    BY <1>1, <1>8, <1>12, <2>1
<1>14. pc' = "recv" /\ step' # "QUIT" =>
         Waiting(m_socket, step, index)' \/ (step' = "MAILFROM" /\ Fresh(m_socket)')
  <2>1. Waiting(c, s, i)' => Waiting(m_socket, step, index)'
    BY <1>1, <1>2
  <2> QED
    BY <1>1, <1>9, <1>12, <2>1
<1> QED
  BY <1>10, <1>11, <1>13, <1>14 DEF InStep

LEMMA RelayKeepsSuccess ==
  ASSUME RelayTypeOK, RelayAssumption, NEW d \in Conns, RelayOn(d), UNCHANGED history,
         SuccessMeansAccepted
  PROVE  SuccessMeansAccepted'
<1>1. UNCHANGED <<mails, results, resumed>>
  BY DEF history
<1>2. ASSUME NEW n, Accepted(n) PROVE Accepted(n)'
  BY <1>1, <1>2, StaysAccepted
<1> QED
  BY <1>1, <1>2 DEF SuccessMeansAccepted

(* The relay's steps keep the whole invariant. *)
LEMMA RelayKeepsDelivery ==
  ASSUME DeliveryInv, TypeOK', RelayAssumption, SessionAssumption, Relay
  PROVE  DeliveryInv'
<1>1. PICK d \in Conns : RelayOn(d)
  BY DEF Relay, RelayStep, RelayOn
<1>2. UNCHANGED <<control, socket, history>>
  BY DEF Relay
<1>3. UNCHANGED <<pc, caller, step, index, m_socket, m_bConnected, mails, results, resumed>>
  BY <1>2 DEF control, socket, history
<1>4. TypeOK /\ RelayTypeOK /\ RelayTypeOK'
  BY DEF DeliveryInv, TypeOK
<1>5. SocketOK' /\ Counted'
  <2>1. conf' = conf
    BY <1>1 DEF RelayOn, Greet, AcceptCommand, RefuseCommand, ReadLine, ReadDot, ReadGarbage, Hangup
  <2> QED
    BY <1>3, <2>1 DEF DeliveryInv, SocketOK, Counted, Unreported, mail
<1>6. Farewell' /\ Untouched'
  BY <1>1, <1>2, <1>4, RelayKeepsFarewell, RelayKeepsUntouched DEF DeliveryInv
<1>7. SuccessMeansAccepted'
  BY <1>1, <1>2, <1>4, RelayKeepsSuccess DEF DeliveryInv
<1>8. CASE resumed
  BY <1>3, <1>5, <1>6, <1>7, <1>8 DEF DeliveryInv, InStep, OneDot, OnlyWholeMailsOnce
<1>9. CASE ~resumed
  <2>1. \A c \in Conns : WholeBeforeDot(c)
    BY <1>9 DEF DeliveryInv
  <2>2. \A c \in Conns : WholeBeforeDot(c)'
    BY <1>1, <1>3, <1>4, <2>1, RelayKeepsWhole
  <2>3. InStep'
    BY <1>1, <1>2, <1>4, <1>9, <2>1, RelayKeepsInStep DEF DeliveryInv
  <2>4. OneDot'
    BY <1>1, <1>2, <1>4, <1>9, <2>1, RelayKeepsOneDot DEF DeliveryInv
  <2>5. OnlyWholeMailsOnce'
    BY <1>1, <1>2, <1>4, <1>9, <2>1, RelayKeepsMailsWhole DEF DeliveryInv
  <2> QED
    BY <1>5, <1>6, <1>7, <2>2, <2>3, <2>4, <2>5 DEF DeliveryInv
<1> QED
  BY <1>8, <1>9

-----------------------------------------------------------------------------
(* What a step of the client does. *)

Throws == HandshakeFails \/ ThrowBeforeSend \/ SendFails \/ ReplyRefused \/ ReceiveFails

Proceeds == Greeted \/ Hello \/ StartTls \/ Authenticated \/ EnvelopeAccepted

(* The client leaves alone what the relay keeps. *)
LEMMA ClientLeaves ==
  ASSUME ClientStep
  PROVE  UNCHANGED <<conf, rcpts, body, accepted>> /\ (resumed => resumed')
<1>1. CASE OwnerStep
  <2>1. CASE CallSendMail
    <3>1. UNCHANGED relayVars
      BY <2>1 DEF CallSendMail
    <3>2. resumed' = (resumed \/ (m_socket # 0 /\ ~m_bConnected))
      BY <2>1 DEF CallSendMail
    <3> QED
      BY <3>1, <3>2 DEF relayVars, transaction
  <2>2. CASE CallConnect \/ CallDisconnect \/ Destroy
    BY <2>2 DEF CallConnect, CallDisconnect, Destroy, relayVars, transaction, history
  <2> QED
    BY <1>1, <2>1, <2>2 DEF OwnerStep
<1>2. CASE ConnectFails \/ ConnectSucceeds \/ Handshake \/ Send \/ Killed
  BY <1>2 DEF ConnectFails, ConnectSucceeds, Handshake, Send, Killed, relayVars, transaction, history
<1>3. CASE HandshakeFails \/ ThrowBeforeSend \/ SendFails \/ ReceiveFails
  BY <1>3 DEF HandshakeFails, ThrowBeforeSend, SendFails, ReceiveFails, Throw, relayVars, transaction
<1>4. CASE ReplyRefused
  BY <1>4 DEF ReplyRefused, Throw, TakeReplies, transaction
<1>5. CASE Proceeds
  <2>1. PICK s : Accepts(s)
    BY <1>5, AcceptsSome DEF Proceeds
  <2> QED
    BY <2>1 DEF Accepts, TakeReplies, transaction
<1>6. CASE MailAccepted \/ QuitAccepted
  BY <1>6 DEF MailAccepted, QuitAccepted, Accepts, TakeReplies, transaction
<1> QED
  BY <1>1, <1>2, <1>3, <1>4, <1>5, <1>6 DEF ClientStep, Proceeds

(* The replies that are left unread when some have been taken. *)
LEMMA TakenReplies ==
  ASSUME TypeOK, SocketOK, TakeReplies
  PROVE  /\ pc = "recv" /\ m_socket \in Conns /\ reply \in Reply
         /\ 1 \in 1 .. Len(s2c[m_socket]) /\ reply = s2c[m_socket][1]
         /\ UNCHANGED <<conf, phase, rcpts, body, c2s, accepted>>
         /\ \A c \in Conns : c # m_socket => s2c'[c] = s2c[c]
         /\ \A k \in 1 .. Len(s2c'[m_socket]) :
              \E j \in 2 .. Len(s2c[m_socket]) : s2c'[m_socket][k] = s2c[m_socket][j]
<1>1. m_socket \in Conns /\ reply \in Reply
  BY TakeRepliesType
<1>2. s2c[m_socket] \in Seq(Reply) /\ s2c[m_socket] # <<>>
  BY <1>1 DEF TypeOK, RelayTypeOK, TakeReplies
<1> DEFINE q == s2c[m_socket]
<1>3. q \in Seq(Reply) /\ q # <<>> /\ Len(q) \in Nat
  BY <1>2, LenProperties
<1>4. 1 \in 1 .. Len(q) /\ reply = q[1]
  BY <1>3, NotEmpty DEF reply
<1>5. PICK n \in 1 .. Len(q) : s2c' = [s2c EXCEPT ![m_socket] = SubSeq(q, n + 1, Len(q))]
  BY DEF TakeReplies
<1>6. s2c'[m_socket] = SubSeq(q, n + 1, Len(q)) /\ \A c \in Conns : c # m_socket => s2c'[c] = s2c[c]
  BY <1>1, <1>5 DEF TypeOK, RelayTypeOK
<1>7. ASSUME NEW k \in 1 .. Len(s2c'[m_socket])
      PROVE  \E j \in 2 .. Len(q) : s2c'[m_socket][k] = q[j]
  <2> HIDE DEF q
  <2>1. n \in Nat /\ n >= 1 /\ n <= Len(q)
    BY <1>3, <1>5
  <2>2. /\ Len(SubSeq(q, n + 1, Len(q))) = IF n + 1 <= Len(q) THEN Len(q) - (n + 1) + 1 ELSE 0
        /\ \A i \in 1 .. Len(SubSeq(q, n + 1, Len(q))) :
             SubSeq(q, n + 1, Len(q))[i] = q[n + 1 + i - 1]
    BY <1>3, <2>1, SubSeqProperties
  <2>3. k \in 1 .. Len(SubSeq(q, n + 1, Len(q)))
    BY <1>6
  <2>4. s2c'[m_socket][k] = q[n + 1 + k - 1]
    BY <1>6, <2>2, <2>3
  <2>5. n + 1 + k - 1 \in 2 .. Len(q)
    BY <1>3, <2>1, <2>2, <2>3
  <2> QED
    BY <2>4, <2>5
<1> QED
  BY <1>1, <1>4, <1>6, <1>7 DEF TakeReplies, transaction

(* A call that throws, and what is left of it. *)
LEMMA ThrowsWhere ==
  ASSUME TypeOK, SocketOK, Throws
  PROVE  /\ pc \in {"tls", "send", "recv"} /\ m_socket \in Conns
         /\ \E buf \in Reply : Throw(buf)
         /\ UNCHANGED <<conf, phase, rcpts, body, c2s, accepted>>
         /\ UNCHANGED s2c \/ TakeReplies
<1>0. m_receive_buffer \in Reply /\ NoReply \in Reply
  BY RelayAssumption, NoConn DEF TypeOK, ClientTypeOK, NoReply, Reply, ReplyCodes, RelayAssumption
<1>1. CASE HandshakeFails \/ ThrowBeforeSend \/ SendFails \/ ReceiveFails
  <2>1. pc \in {"tls", "send", "recv"} /\ UNCHANGED relayVars
    BY <1>1 DEF HandshakeFails, ThrowBeforeSend, SendFails, ReceiveFails
  <2>2. Throw(m_receive_buffer) \/ Throw(NoReply)
    BY <1>1, Zenon DEF HandshakeFails, ThrowBeforeSend, SendFails, ReceiveFails
  <2> QED
    BY <1>0, <2>1, <2>2 DEF relayVars, transaction, SocketOK, TypeOK, ClientTypeOK, Conns
<1>2. CASE ReplyRefused
  <2>1. TakeReplies /\ Throw(IF reply.via = m_ssl THEN reply ELSE m_receive_buffer)
    BY <1>2 DEF ReplyRefused
  <2>2. reply \in Reply /\ m_socket \in Conns
    BY <2>1, TakenReplies
  <2>3. (IF reply.via = m_ssl THEN reply ELSE m_receive_buffer) \in Reply
    BY <1>0, <2>2
  <2> QED
    BY <2>1, <2>2, <2>3 DEF TakeReplies, transaction
<1> QED
  BY <1>1, <1>2 DEF Throws

LEMMA ThrowEnds ==
  ASSUME SocketOK, Counted, pc \in {"tls", "send", "recv"}, NEW buf, Throw(buf)
  PROVE  /\ UNCHANGED <<opened, mails, resumed, mixed>>
         /\ \/ pc' = "send" /\ step' = "QUIT"
            \/ pc' = "terminated"
            \/ pc' = "user" /\ caller' = "none" /\ ~m_bConnected'
         /\ m_socket' \in {0, m_socket}
         /\ ~Unreported'
         /\ IF Unreported
              THEN results' = Append(results, [ok |-> FALSE, at |-> step, code |-> buf.code])
              ELSE results' = results
<1>1. CASE step = "QUIT"
  BY <1>1 DEF Throw, Return, SocketOK, Unreported
<1>2. CASE step # "QUIT"
  BY <1>2 DEF Throw, BeginQuit, CloseSocket, Return, Goto, Unreported
<1> QED
  BY <1>1, <1>2

(* Where the client goes from a reply it accepts. *)
Onward(s) ==
  \/ /\ s \in ConnectSteps \ {"STARTTLS"}
     /\ \/ Connected
        \/ \E t \in ConnectSteps \ {"INIT"} :
             (t = "STARTTLS" => conf.security = "USE_TLS") /\ Goto("send", t, 0)
  \/ s = "STARTTLS" /\ Goto("tls", "STARTTLS", 0)
  \/ s = "MAILFROM" /\ Goto("send", "RCPTTO", 1)
  \/ s = "RCPTTO" /\ index < Recipients(mail) /\ Goto("send", "RCPTTO", index + 1)
  \/ s = "RCPTTO" /\ ~(index < Recipients(mail)) /\ Goto("send", "DATA", 0)
  \/ s = "DATA" /\ Goto("send", "DATABLOCK", 1)

LEMMA ProceedsTo ==
  ASSUME Proceeds
  PROVE  \E s \in Steps \ {"QUIT", "DATABLOCK", "DATAEND"} :
           Accepts(s) /\ Onward(s) /\ UNCHANGED <<m_socket, results>>
<1>0. UNCHANGED <<m_socket, results>>
  BY DEF Proceeds, Greeted, Hello, StartTls, Authenticated, EnvelopeAccepted
<1>1. CASE Greeted
  <2>1. Accepts("INIT") /\ Goto("send", "EHLO", 0)
    BY <1>1 DEF Greeted
  <2>2. Onward("INIT") /\ "INIT" \in Steps \ {"QUIT", "DATABLOCK", "DATAEND"}
    BY <2>1, StepTypes DEF Onward, ConnectSteps
  <2> QED
    BY <1>0, <2>1, <2>2
<1>2. CASE Hello
  <2>0. {"EHLO", "EHLO_TLS"} \subseteq Steps \ {"QUIT", "DATABLOCK", "DATAEND"}
    BY StepTypes
  <2>1. Authenticate => Onward("EHLO") /\ Onward("EHLO_TLS")
    <3>1. Authenticate => Connected \/ \E t \in AuthSteps : Goto("send", t, 0)
      BY AuthStepType DEF Authenticate
    <3>2. AuthSteps \subseteq ConnectSteps \ {"INIT", "STARTTLS"}
      BY DEF AuthSteps, ConnectSteps
    <3> QED
      BY <3>1, <3>2 DEF Onward, ConnectSteps
  <2>2. conf.security = "USE_TLS" /\ Goto("send", "STARTTLS", 0) => Onward("EHLO")
    BY DEF Onward, ConnectSteps
  <2>3. \/ Accepts("EHLO") /\ (Authenticate \/ (conf.security = "USE_TLS" /\ Goto("send", "STARTTLS", 0)))
        \/ Accepts("EHLO_TLS") /\ Authenticate
    BY <1>2 DEF Hello
  <2> QED
    BY <1>0, <2>0, <2>1, <2>2, <2>3
<1>3. CASE StartTls
  <2>1. Accepts("STARTTLS") /\ Goto("tls", "STARTTLS", 0)
    BY <1>3 DEF StartTls
  <2>2. Onward("STARTTLS") /\ "STARTTLS" \in Steps \ {"QUIT", "DATABLOCK", "DATAEND"}
    BY <2>1, StepTypes DEF Onward, ConnectSteps
  <2> QED
    BY <1>0, <2>1, <2>2
<1>4. CASE Authenticated
  <2>0. {"AUTHLOGIN", "USER", "AUTHCRAMMD5", "PASSWORD", "AUTHPLAIN", "CRAMRESPONSE"}
          \subseteq Steps \ {"QUIT", "DATABLOCK", "DATAEND"}
    BY DEF Steps, ConnectSteps
  <2>1. \A s \in {"AUTHLOGIN", "USER", "AUTHCRAMMD5"}, t \in {"USER", "PASSWORD", "CRAMRESPONSE"} :
          Goto("send", t, 0) => Onward(s)
    BY DEF Onward, ConnectSteps
  <2>2. \A s \in {"PASSWORD", "AUTHPLAIN", "CRAMRESPONSE"} : Connected => Onward(s)
    BY DEF Onward, ConnectSteps
  <2>3. \/ Accepts("AUTHLOGIN") /\ Goto("send", "USER", 0)
        \/ Accepts("USER") /\ Goto("send", "PASSWORD", 0)
        \/ Accepts("AUTHCRAMMD5") /\ Goto("send", "CRAMRESPONSE", 0)
        \/ \E s \in {"PASSWORD", "AUTHPLAIN", "CRAMRESPONSE"} : Accepts(s) /\ Connected
    BY <1>4 DEF Authenticated
  <2> QED
    BY <1>0, <2>0, <2>1, <2>2, <2>3
<1>5. CASE EnvelopeAccepted
  <2>0. {"MAILFROM", "RCPTTO", "DATA"} \subseteq Steps \ {"QUIT", "DATABLOCK", "DATAEND"}
    BY StepTypes
  <2>1. \/ Accepts("MAILFROM") /\ Goto("send", "RCPTTO", 1)
        \/ Accepts("RCPTTO") /\ IF index < Recipients(mail) THEN Goto("send", "RCPTTO", index + 1)
                                                            ELSE Goto("send", "DATA", 0)
        \/ Accepts("DATA") /\ Goto("send", "DATABLOCK", 1)
    BY <1>5 DEF EnvelopeAccepted
  <2>2. \E s \in {"MAILFROM", "RCPTTO", "DATA"} : Accepts(s) /\ Onward(s)
    BY <2>1 DEF Onward
  <2> QED
    BY <1>0, <2>0, <2>2
<1> QED
  BY <1>1, <1>2, <1>3, <1>4, <1>5 DEF Proceeds

(* While send_mail has not reported there is a message it is about. *)
LEMMA MailInHand ==
  ASSUME TypeOK, SessionAssumption, Counted, Unreported
  PROVE  /\ mail \in Mail /\ Len(mails) \in 1 .. Len(mails) /\ mails # <<>>
         /\ Len(mails) = Len(results) + 1 /\ Len(results) \in Nat
         /\ Len(Blocks(mail)) \in Nat /\ Len(Blocks(mail)) >= 1 /\ Recipients(mail) \in Nat
<1>1. Len(mails) = Len(results) + 1
  BY DEF Counted, Unreported, Final
<1>2. mails \in Seq(Mails) /\ Len(results) \in Nat
  BY LenProperties DEF TypeOK, ClientTypeOK
<1>3. Len(mails) \in 1 .. Len(mails)
  BY <1>1, <1>2
<1>4. mail \in Mail
  BY <1>2, <1>3, ElementOfSeq DEF mail, SessionAssumption
<1>5. mails # <<>>
  BY <1>3
<1> QED
  BY <1>1, <1>2, <1>3, <1>4, <1>5, BlocksLen

LEMMA MailStepIsUnreported ==
  ASSUME Counted, pc \in {"send", "recv"}, step \in MailSteps
  PROVE  Unreported /\ caller = "send_mail"
  BY DEF Counted, Unreported, MailSteps

LEMMA ClientKeepsCounted ==
  ASSUME TypeOK, SocketOK, RelayAssumption, SessionAssumption, Counted, ClientStep
  PROVE  Counted'
<1>0. Len(mails) \in Nat /\ Len(results) \in Nat /\ conf' = conf /\ index \in Nat
      /\ mails \in Seq(Mails) /\ results \in Seq(Result)
  BY LenProperties, ClientLeaves DEF TypeOK, ClientTypeOK
<1>1. CASE CallSendMail
  <2>1. PICK m \in Mails : mails' = Append(mails, m)
    BY <1>1 DEF CallSendMail
  <2>2. Len(mails') = Len(mails) + 1 /\ results' = results /\ Len(mails) = Len(results)
    BY <1>0, <1>1, <2>1, AppendProperties DEF CallSendMail, Counted, Unreported, Final
  <2>3. /\ caller' = "send_mail"
        /\ pc' = "connect" \/ (pc' = "send" /\ step' = "MAILFROM")
    BY <1>1 DEF CallSendMail
  <2> QED
    BY <2>2, <2>3 DEF Counted, Unreported, Final
<1>2. CASE CallConnect
  BY <1>2 DEF CallConnect, history, Counted, Unreported, Final
<1>3. CASE CallDisconnect
  BY <1>3 DEF CallDisconnect, CloseSocket, control, history, Counted, Unreported, Final, MailSteps
<1>4. CASE Destroy
  BY <1>0, <1>4 DEF Destroy, history, Counted, Unreported, Final, MailSteps
<1>5. CASE ConnectFails
  <2>1. results' = IF caller = "send_mail"
                     THEN Append(results, [ok |-> FALSE, at |-> "CONNECT", code |-> 0]) ELSE results
    BY <1>5 DEF ConnectFails
  <2> DEFINE r == [ok |-> FALSE, at |-> "CONNECT", code |-> 0]
  <2>2. r \in Result
    BY DEF Result, ReplyCodes
  <2> HIDE DEF r
  <2>3. Len(Append(results, r)) = Len(results) + 1
    BY <1>0, <2>2, AppendProperties
  <2>4. results' = IF caller = "send_mail" THEN Append(results, r) ELSE results
    BY <2>1 DEF r
  <2>5. pc = "connect" /\ pc' = "user" /\ caller' = "none" /\ mails' = mails
    BY <1>5 DEF ConnectFails, Return
  <2> QED
    BY <1>0, <2>3, <2>4, <2>5 DEF Counted, Unreported, Final
<1>6. CASE ConnectSucceeds
  <2>1. /\ pc = "connect" /\ UNCHANGED <<mails, results>>
        /\ \/ Connected
           \/ Goto("tls", "INIT", 0)
           \/ Goto("recv", "INIT", 0)
    BY <1>6 DEF ConnectSucceeds, history
  <2> QED
    BY <2>1 DEF Connected, Goto, Return, Counted, Unreported, Final, MailSteps
<1>7. CASE Handshake
  <2>1. /\ pc \in {"tls", "send"} /\ UNCHANGED <<mails, results>>
        /\ \/ pc = "send" /\ UNCHANGED control
           \/ pc = "tls" /\ (Goto("recv", "INIT", 0) \/ Goto("send", "EHLO_TLS", 0))
    BY <1>7 DEF Handshake, history
  <2>2. CASE pc = "send" /\ UNCHANGED control
    BY <1>0, <2>1, <2>2 DEF control, Counted, Unreported, mail
  <2>3. CASE pc = "tls" /\ (Goto("recv", "INIT", 0) \/ Goto("send", "EHLO_TLS", 0))
    <3>1. step # "QUIT"
      BY <2>3 DEF Counted
    <3> QED
      BY <2>1, <2>3, <3>1 DEF Goto, Counted, Unreported, Final, MailSteps
  <2> QED
    BY <2>1, <2>2, <2>3
<1>8. CASE Throws
  <2>1. pc \in {"tls", "send", "recv"} /\ \E buf \in Reply : Throw(buf)
    BY <1>8, ThrowsWhere
  <2>2. PICK buf \in Reply : Throw(buf)
    BY <2>1
  <2> DEFINE r == [ok |-> FALSE, at |-> step, code |-> buf.code]
  <2>3. /\ UNCHANGED mails /\ ~Unreported'
        /\ (pc' = "send" /\ step' = "QUIT") \/ pc' = "terminated" \/ (pc' = "user" /\ caller' = "none")
        /\ results' = IF Unreported THEN Append(results, r) ELSE results
    BY <2>1, <2>2, ThrowEnds
  <2>4. r \in Result
    BY DEF Result, Reply, TypeOK, ClientTypeOK
  <2> HIDE DEF r
  <2>5. Len(Append(results, r)) = Len(results) + 1
    BY <1>0, <2>4, AppendProperties
  <2>6. Len(mails') = Len(results')
    BY <1>0, <2>1, <2>3, <2>5 DEF Counted, Final
  <2> QED
    BY <1>0, <2>3, <2>6 DEF Counted, Final, MailSteps
<1>9. CASE Send
  <2>1. /\ pc = "send" /\ ~Refuses(step) /\ UNCHANGED <<mails, results>>
        /\ IF step = "DATABLOCK" THEN AfterBlock ELSE Goto("recv", step, index)
    BY <1>9 DEF Send
  <2>2. mail' = mail
    BY <2>1 DEF mail
  <2>3. CASE step = "DATABLOCK"
    <3>1. Unreported /\ caller = "send_mail"
      BY <2>1, <2>3, MailStepIsUnreported DEF MailSteps
    <3>2. index \in 1 .. Len(Blocks(mail)) /\ Len(Blocks(mail)) \in Nat /\ Len(mails) = Len(results) + 1
      BY <2>1, <2>3, <3>1, MailInHand DEF Counted
    <3>3. /\ pc' = "send" /\ caller' = caller
          /\ \/ index < Len(Blocks(mail)) /\ step' = "DATABLOCK" /\ index' = index + 1
             \/ step' = "DATAEND"
      BY <2>1, <2>3 DEF AfterBlock, Goto
    <3> QED
      BY <2>1, <2>2, <3>1, <3>2, <3>3 DEF Counted, Unreported, Final
  <2>4. CASE step # "DATABLOCK"
    <3>1. pc' = "recv" /\ step' = step /\ index' = index /\ caller' = caller
      BY <2>1, <2>4 DEF Goto
    <3>2. step = "RCPTTO" => index \in 1 .. Recipients(mail)
      <4>1. SUFFICES ASSUME step = "RCPTTO" PROVE index \in 1 .. Recipients(mail)
        OBVIOUS
      <4>2. mail \in Mail /\ mail.to # 0
        BY <2>1, <4>1, MailStepIsUnreported, MailInHand DEF MailSteps, Refuses
      <4>3. Recipients(mail) >= 1
        BY <4>2 DEF Recipients, Mail
      <4>4. Recipients(mail) \in Nat
        BY <4>2, BlocksLen
      <4> QED
        BY <2>1, <4>1, <4>3, <4>4 DEF Counted
    <3> QED
      BY <1>0, <2>1, <2>2, <2>4, <3>1, <3>2 DEF Counted, Unreported, Final
  <2> QED
    BY <2>3, <2>4
<1>10. CASE Killed
  <2>1. pc = "send" /\ pc' = "killed" /\ UNCHANGED <<mails, results>>
    BY <1>10 DEF Killed, history
  <2> QED
    BY <1>0, <2>1 DEF Counted, Unreported, Final
<1>11. CASE Proceeds
  <2>1. PICK s \in Steps \ {"QUIT", "DATABLOCK", "DATAEND"} :
          Accepts(s) /\ Onward(s) /\ UNCHANGED <<m_socket, results>>
    BY <1>11, ProceedsTo
  <2>2. pc = "recv" /\ step = s /\ UNCHANGED <<mails, results>>
    BY <2>1 DEF Accepts, TakeReplies
  <2>3. mail' = mail
    BY <2>2 DEF mail
  <2>4. CASE s \in ConnectSteps \ {"STARTTLS"} /\ Connected
    BY <2>1, <2>2, <2>4 DEF Connected, Goto, Return, Counted, Unreported, Final, MailSteps
  <2>5. CASE \E t \in ConnectSteps \ {"INIT"} :
             (t = "STARTTLS" => conf.security = "USE_TLS") /\ Goto("send", t, 0)
    BY <1>0, <2>1, <2>2, <2>5 DEF Goto, Counted, Unreported, Final, MailSteps, ConnectSteps
  <2>6. CASE s = "STARTTLS" /\ Goto("tls", "STARTTLS", 0)
    BY <2>2, <2>6 DEF Goto, Counted, Unreported, Final, MailSteps
  <2>7. CASE s \in {"MAILFROM", "RCPTTO", "DATA"}
    <3>1. Unreported /\ caller = "send_mail"
      BY <2>2, <2>7, MailStepIsUnreported DEF MailSteps
    <3>2. Len(Blocks(mail)) \in Nat /\ Len(Blocks(mail)) >= 1 /\ Recipients(mail) \in Nat
          /\ Len(mails) = Len(results) + 1
      BY <3>1, MailInHand
    <3>3. s = "RCPTTO" => index \in 1 .. Recipients(mail)
      BY <2>2 DEF Counted
    <3>4. 1 \in 1 .. Len(Blocks(mail))
      BY <3>2
    <3>5. /\ pc' = "send" /\ caller' = caller
          /\ \/ step' = "RCPTTO" /\ (index' = 1 \/ (index' = index + 1 /\ index < Recipients(mail) /\ s = "RCPTTO"))
             \/ step' = "DATA"
             \/ step' = "DATABLOCK" /\ index' = 1
      BY <2>1, <2>7 DEF Onward, Goto, ConnectSteps
    <3>6. step' = "RCPTTO" => index' = 1 \/ index' \in 1 .. Recipients(mail)
      BY <3>2, <3>3, <3>5
    <3> QED
      BY <2>2, <2>3, <3>1, <3>2, <3>4, <3>5, <3>6 DEF Counted, Unreported, Final
  <2> QED
    BY <2>1, <2>4, <2>5, <2>6, <2>7 DEF Onward
<1>12. CASE MailAccepted
  <2> DEFINE r == [ok |-> TRUE, at |-> "DATAEND", code |-> reply.code]
  <2>1. /\ pc = "recv" /\ step = "DATAEND" /\ pc' = "user" /\ caller' = "none" /\ mails' = mails
        /\ results' = Append(results, r)
    BY <1>12 DEF MailAccepted, Accepts, TakeReplies, Return
  <2>2. r \in Result
    <3>1. Accepts("DATAEND")
      BY <1>12 DEF MailAccepted
    <3>2. reply \in Reply
      BY <3>1, AcceptsType
    <3> QED
      BY <3>2, StepTypes DEF Result, Reply
  <2> HIDE DEF r
  <2>3. Len(results') = Len(results) + 1
    BY <1>0, <2>1, <2>2, AppendProperties
  <2>4. Len(mails) = Len(results) + 1
    BY <2>1, MailStepIsUnreported, MailInHand DEF MailSteps
  <2> QED
    BY <2>1, <2>3, <2>4 DEF Counted, Unreported, Final
<1>13. CASE QuitAccepted
  <2>1. /\ pc = "recv" /\ step = "QUIT" /\ UNCHANGED <<mails, results>>
        /\ pc' = "done" \/ (pc' = "user" /\ caller' = "none")
    BY <1>13 DEF QuitAccepted, Accepts, TakeReplies, Return
  <2> QED
    BY <1>0, <2>1 DEF Counted, Unreported, Final
<1> QED
  BY <1>1, <1>2, <1>3, <1>4, <1>5, <1>6, <1>7, <1>8, <1>9, <1>10, <1>11, <1>12, <1>13
  DEF ClientStep, OwnerStep, Throws, Proceeds

(* Everything the client does not send or take stays where it is. *)
Quiet == UNCHANGED <<phase, c2s, s2c>>

(* A step of the client takes replies, or leaves the connections alone, or *)
(* is one of the three that do something else to one.                      *)
LEMMA ClientKinds ==
  ASSUME TypeOK, SocketOK, ClientStep
  PROVE  \/ Quiet /\ ~ConnectSucceeds /\ ~Handshake /\ ~Send
         \/ TakeReplies
         \/ ConnectSucceeds \/ Handshake \/ Send
<1>1. OwnerStep \/ ConnectFails \/ Killed => Quiet
  <2>1. CallSendMail \/ CallConnect \/ CallDisconnect \/ Destroy \/ ConnectFails \/ Killed
        => UNCHANGED relayVars
    BY DEF CallSendMail, CallConnect, CallDisconnect, Destroy, ConnectFails, Killed
  <2> QED
    BY <2>1 DEF OwnerStep, relayVars, Quiet
<1>2. Throws => Quiet \/ TakeReplies
  BY ThrowsWhere DEF Quiet
<1>3. Proceeds => TakeReplies
  <2>1. (\E s : Accepts(s)) => TakeReplies
    BY DEF Accepts
  <2> QED
    BY <2>1, AcceptsSome DEF Proceeds
<1>4. MailAccepted \/ QuitAccepted => TakeReplies
  BY DEF MailAccepted, QuitAccepted, Accepts
<1> QED
  BY <1>1, <1>2, <1>3, <1>4 DEF ClientStep, Throws, Proceeds

(* A connection is made: nothing has happened on it yet. *)
LEMMA ConnectEffect ==
  ASSUME TypeOK, SocketOK, Untouched, ConnectSucceeds
  PROVE  LET c == opened + 1 IN
         /\ pc = "connect" /\ c \in Conns /\ opened' = c /\ m_socket' = c
         /\ UNCHANGED <<c2s, s2c, rcpts, body, m_bConnected, mails, results, resumed, mixed>>
         /\ phase'[c] \in {"sslwait", "new"} /\ s2c[c] = <<>> /\ c2s[c] = <<>>
         /\ rcpts[c] = <<>> /\ body[c] = <<>>
         /\ \A d \in Conns : d # c => phase'[d] = phase[d]
<1> DEFINE c == opened + 1
<1>1. /\ pc = "connect" /\ c \in Conns /\ opened' = c /\ m_socket' = c
      /\ UNCHANGED <<c2s, s2c, rcpts, body, m_bConnected, mails, results, resumed, mixed>>
      /\ phase' = [phase EXCEPT ![c] = IF conf.implicit THEN "sslwait" ELSE "new"]
  BY DEF ConnectSucceeds, transaction, history
<1>2. c > opened
  BY DEF TypeOK, ClientTypeOK
<1>3. s2c[c] = <<>> /\ c2s[c] = <<>> /\ rcpts[c] = <<>> /\ body[c] = <<>>
  BY <1>1, <1>2 DEF Untouched
<1> QED
  BY <1>1, <1>3 DEF TypeOK, RelayTypeOK

(* A handshake completes: nothing is on its way to the relay then. *)
LEMMA HandshakeEffect ==
  ASSUME TypeOK, Handshake
  PROVE  /\ pc \in {"tls", "send"} /\ m_socket \in Conns
         /\ phase[m_socket] \in {"sslwait", "starttls"} /\ c2s[m_socket] = <<>>
         /\ phase'[m_socket] = (IF phase[m_socket] = "sslwait" THEN "new" ELSE "cmd")
         /\ \A d \in Conns : d # m_socket => phase'[d] = phase[d]
         /\ UNCHANGED <<conf, c2s, s2c, rcpts, body, socket, mails, results, resumed, mixed>>
<1>1. /\ pc \in {"tls", "send"} /\ m_ssl = m_socket /\ m_ssl # 0
      /\ phase[m_ssl] \in {"sslwait", "starttls"} /\ c2s[m_ssl] = <<>>
      /\ phase' = [phase EXCEPT ![m_ssl] = IF @ = "sslwait" THEN "new" ELSE "cmd"]
      /\ UNCHANGED <<conf, c2s, s2c, rcpts, body, socket, mails, results, resumed, mixed>>
  BY DEF Handshake, transaction, history
<1>2. m_socket \in Conns
  BY <1>1 DEF TypeOK, ClientTypeOK, Conns
<1> QED
  BY <1>1, <1>2 DEF TypeOK, RelayTypeOK

(* Something is sent: it comes behind what is on its way on the connection. *)
LEMMA SendEffect ==
  ASSUME TypeOK, SocketOK, Send
  PROVE  LET m == [verb |-> Wire(step), n |-> Len(mails), i |-> index, via |-> m_ssl] IN
         /\ pc = "send" /\ ~Refuses(step) /\ m_socket \in Conns /\ m \in Message
         /\ c2s'[m_socket] = Append(c2s[m_socket], m)
         /\ Len(c2s[m_socket]) \in Nat /\ Len(c2s'[m_socket]) = Len(c2s[m_socket]) + 1
         /\ \A k \in 1 .. Len(c2s[m_socket]) : c2s'[m_socket][k] = c2s[m_socket][k]
         /\ c2s'[m_socket][Len(c2s[m_socket]) + 1] = m
         /\ \A d \in Conns : d # m_socket => c2s'[d] = c2s[d]
         /\ UNCHANGED <<conf, phase, s2c, rcpts, body, accepted, socket, mails, results, resumed, mixed>>
         /\ IF step = "DATABLOCK" THEN AfterBlock ELSE Goto("recv", step, index)
<1> DEFINE m == [verb |-> Wire(step), n |-> Len(mails), i |-> index, via |-> m_ssl]
<1>1. /\ pc = "send" /\ ~Refuses(step)
      /\ c2s' = [c2s EXCEPT ![m_socket] = Append(@, m)]
      /\ UNCHANGED <<conf, phase, s2c, rcpts, body, accepted, socket, mails, results, resumed, mixed>>
      /\ IF step = "DATABLOCK" THEN AfterBlock ELSE Goto("recv", step, index)
  BY DEF Send, transaction
<1>2. m_socket \in Conns
  BY <1>1 DEF TypeOK, ClientTypeOK, SocketOK, Conns
<1>3. m \in Message
  <2>1. Len(mails) \in Nat /\ index \in Nat /\ m_ssl \in 0 .. MaxConns /\ step \in Steps
    BY LenProperties DEF TypeOK, ClientTypeOK
  <2>2. Wire(step) \in Verbs
    BY <2>1 DEF Wire, Verbs
  <2> QED
    BY <2>1, <2>2 DEF Message
<1>4. c2s[m_socket] \in Seq(Message)
  BY <1>2 DEF TypeOK, RelayTypeOK
<1> HIDE DEF m
<1>5. /\ c2s'[m_socket] = Append(c2s[m_socket], m)
      /\ \A d \in Conns : d # m_socket => c2s'[d] = c2s[d]
  BY <1>1, <1>2 DEF TypeOK, RelayTypeOK
<1>6. /\ Len(c2s[m_socket]) \in Nat /\ Len(c2s'[m_socket]) = Len(c2s[m_socket]) + 1
      /\ \A k \in 1 .. Len(c2s[m_socket]) : c2s'[m_socket][k] = c2s[m_socket][k]
      /\ c2s'[m_socket][Len(c2s[m_socket]) + 1] = m
  BY <1>3, <1>4, <1>5, AppendProperties, LenProperties
<1> QED
  BY <1>1, <1>2, <1>3, <1>5, <1>6 DEF m

LEMMA ClientKeepsFarewell ==
  ASSUME TypeOK, SocketOK, ClientStep, Farewell
  PROVE  Farewell'
<1>1. CASE TakeReplies
  <2>1. ASSUME NEW c \in Conns
        PROVE  \A k \in 1 .. Len(s2c'[c]) : \E j \in 1 .. Len(s2c[c]) : s2c'[c][k] = s2c[c][j]
    <3>1. CASE c # m_socket
      <4>1. s2c'[c] = s2c[c]
        BY <1>1, <3>1, TakenReplies
      <4> QED
        BY <4>1
    <3>2. CASE c = m_socket
      <4>1. \A j \in 2 .. Len(s2c[c]) : j \in 1 .. Len(s2c[c])
        OBVIOUS
      <4> QED
        BY <1>1, <3>2, <4>1, TakenReplies
    <3> QED
      BY <3>1, <3>2
  <2> QED
    BY <2>1 DEF Farewell
<1>2. CASE UNCHANGED s2c
  BY <1>2 DEF Farewell
<1> QED
  BY <1>1, <1>2, ClientKinds DEF Quiet, ConnectSucceeds, Handshake, Send

(* What the client does to its socket. *)
LEMMA SocketMoves ==
  ASSUME TypeOK, SocketOK, Counted, ClientStep, ~ConnectSucceeds
  PROVE  opened' = opened /\ m_socket' \in {0, m_socket}
<1>1. CASE OwnerStep
  BY <1>1 DEF OwnerStep, CallSendMail, CallConnect, CallDisconnect, Destroy, CloseSocket, socket
<1>2. CASE ConnectFails \/ Handshake \/ Send \/ Killed
  BY <1>2 DEF ConnectFails, Handshake, Send, Killed, socket
<1>3. CASE Throws
  <2>1. pc \in {"tls", "send", "recv"} /\ \E buf \in Reply : Throw(buf)
    BY <1>3, ThrowsWhere
  <2> QED
    BY <2>1, ThrowEnds
<1>4. CASE Proceeds
  <2>1. PICK s \in Steps \ {"QUIT", "DATABLOCK", "DATAEND"} :
          Accepts(s) /\ Onward(s) /\ UNCHANGED <<m_socket, results>>
    BY <1>4, ProceedsTo
  <2> QED
    BY <2>1 DEF Accepts
<1>5. CASE MailAccepted \/ QuitAccepted
  BY <1>5 DEF MailAccepted, QuitAccepted, Accepts, CloseSocket
<1> QED
  BY <1>1, <1>2, <1>3, <1>4, <1>5 DEF ClientStep, Throws, Proceeds

LEMMA ClientKeepsUntouched ==
  ASSUME TypeOK, SocketOK, Counted, ClientStep, Untouched
  PROVE  Untouched'
<1>0. UNCHANGED <<rcpts, body>> /\ opened \in Nat /\ m_socket \in Nat /\ m_socket <= opened
      /\ \A c \in Conns : c \in Nat
  BY ClientLeaves DEF TypeOK, ClientTypeOK, Untouched, Conns
<1>1. CASE ConnectSucceeds
  BY <1>0, <1>1, ConnectEffect DEF Untouched
<1>2. CASE ~ConnectSucceeds
  <2>0. opened' = opened /\ m_socket' <= opened'
    BY <1>0, <1>2, SocketMoves
  <2>1. CASE Quiet
    BY <1>0, <2>0, <2>1 DEF Quiet, Untouched
  <2>2. CASE TakeReplies
    <3>1. m_socket \in Conns /\ UNCHANGED <<phase, c2s>>
          /\ \A c \in Conns : c # m_socket => s2c'[c] = s2c[c]
      BY <2>2, TakenReplies
    <3>2. \A c \in Conns : c > opened => c # m_socket
      BY <1>0
    <3> QED
      BY <1>0, <2>0, <3>1, <3>2 DEF Untouched
  <2>3. CASE Handshake
    <3>1. /\ \A c \in Conns : c # m_socket => phase'[c] = phase[c]
          /\ UNCHANGED <<c2s, s2c>>
      BY <2>3, HandshakeEffect
    <3>2. \A c \in Conns : c > opened => c # m_socket
      BY <1>0
    <3> QED
      BY <1>0, <2>0, <3>1, <3>2 DEF Untouched
  <2>4. CASE Send
    <3>1. /\ \A c \in Conns : c # m_socket => c2s'[c] = c2s[c]
          /\ UNCHANGED <<phase, s2c>>
      BY <2>4, SendEffect
    <3>2. \A c \in Conns : c > opened => c # m_socket
      BY <1>0
    <3> QED
      BY <1>0, <2>0, <3>1, <3>2 DEF Untouched
  <2> QED
    BY <1>2, <2>1, <2>2, <2>3, <2>4, ClientKinds
<1> QED
  BY <1>1, <1>2

-----------------------------------------------------------------------------
(* What the client sends. *)

LEMMA WireIsStep ==
  ASSUME NoDots, TypeOK, SessionAssumption, Counted, pc = "send"
  PROVE  Wire(step) = step
<1>1. CASE step = "DATABLOCK"
  <2>1. Unreported
    BY <1>1, MailStepIsUnreported DEF MailSteps
  <2>2. Len(mails) \in 1 .. Len(mails) /\ mails \in Seq(Mails)
    BY <2>1, MailInHand DEF TypeOK, ClientTypeOK
  <2>3. mail \in Mails
    BY <2>2, ElementOfSeq DEF mail
  <2>4. index \in 1 .. Len(Blocks(mail))
    BY <1>1 DEF Counted
  <2>5. Blocks(mail)[index] = "dot" => Blocks(mail)[index - 1] = "long"
    BY <2>3, <2>4, NoDotBlock
  <2> QED
    BY <2>5 DEF Wire
<1> QED
  BY <1>1 DEF Wire

LEMMA SendStream ==
  ASSUME NoDots, TypeOK, SessionAssumption, SocketOK, Counted, Send
  PROVE  LET l == Len(Stream(m_socket)) IN
         /\ l \in Nat /\ m_socket \in Conns /\ m_socket' = m_socket
         /\ Len(Stream(m_socket)') = l + 1
         /\ \A k \in 1 .. l : Stream(m_socket)'[k] = Stream(m_socket)[k]
         /\ Stream(m_socket)'[l + 1].verb = step
         /\ Stream(m_socket)'[l + 1].n = Len(mails)
         /\ Stream(m_socket)'[l + 1].i = index
         /\ \A d \in Conns : d # m_socket => Stream(d)' = Stream(d)
<1> DEFINE m == [verb |-> Wire(step), n |-> Len(mails), i |-> index, via |-> m_ssl]
<1>1. /\ pc = "send" /\ m_socket \in Conns /\ m \in Message
      /\ c2s'[m_socket] = Append(c2s[m_socket], m)
      /\ \A d \in Conns : d # m_socket => c2s'[d] = c2s[d]
      /\ body' = body /\ m_socket' = m_socket
  BY SendEffect DEF socket
<1>2. m.verb = step /\ m.n = Len(mails) /\ m.i = index
  BY <1>1, WireIsStep
<1> HIDE DEF m
<1>3. RelayTypeOK
  BY DEF TypeOK
<1> DEFINE b == body[m_socket]
           q == c2s[m_socket]
<1>4. b \in Seq(Message) /\ q \in Seq(Message) /\ Stream(m_socket) = b \o q
      /\ Stream(m_socket)' = b \o Append(q, m)
  BY <1>1, <1>3, StreamType DEF Stream
<1> HIDE DEF b, q
<1>5. Stream(m_socket)' = Append(b \o q, m)
  BY <1>1, <1>4, SendBehind
<1>6. b \o q \in Seq(Message)
  BY <1>4, Behind
<1>7. /\ Len(b \o q) \in Nat /\ Len(Append(b \o q, m)) = Len(b \o q) + 1
      /\ \A k \in 1 .. Len(b \o q) : Append(b \o q, m)[k] = (b \o q)[k]
      /\ Append(b \o q, m)[Len(b \o q) + 1] = m
  BY <1>1, <1>6, AppendProperties, LenProperties
<1>8. \A d \in Conns : d # m_socket => Stream(d)' = Stream(d)
  BY <1>1 DEF Stream
<1> QED
  BY <1>1, <1>2, <1>4, <1>5, <1>7, <1>8

(* The messages the owner has handed over stay what they are. *)
LEMMA MailsStay ==
  ASSUME TypeOK, ClientStep
  PROVE  /\ \A n \in 1 .. Len(mails) : n \in 1 .. Len(mails') /\ mails'[n] = mails[n]
         /\ ~CallSendMail => mails' = mails
<1>1. CASE CallSendMail
  <2>1. PICK m \in Mails : mails' = Append(mails, m)
    BY <1>1 DEF CallSendMail
  <2>2. mails \in Seq(Mails) /\ Len(mails) \in Nat
    BY LenProperties DEF TypeOK, ClientTypeOK
  <2>3. Len(mails') = Len(mails) + 1 /\ \A n \in 1 .. Len(mails) : mails'[n] = mails[n]
    BY <2>1, <2>2, AppendProperties
  <2> QED
    BY <1>1, <2>2, <2>3
<1>2. CASE ~CallSendMail
  <2>1. CASE CallConnect \/ CallDisconnect \/ Destroy
    BY <2>1 DEF CallConnect, CallDisconnect, Destroy, history
  <2>2. CASE ConnectFails \/ ConnectSucceeds \/ Handshake \/ Send \/ Killed
    BY <2>2 DEF ConnectFails, ConnectSucceeds, Handshake, Send, Killed, history
  <2>3. CASE HandshakeFails \/ ThrowBeforeSend \/ SendFails \/ ReceiveFails \/ ReplyRefused
    BY <2>3 DEF HandshakeFails, ThrowBeforeSend, SendFails, ReceiveFails, ReplyRefused, Throw
  <2>4. CASE Proceeds
    BY <2>4, ProceedsTo DEF Accepts
  <2>5. CASE MailAccepted \/ QuitAccepted
    BY <2>5 DEF MailAccepted, QuitAccepted, Accepts
  <2>6. mails' = mails
    BY <1>2, <2>1, <2>2, <2>3, <2>4, <2>5 DEF ClientStep, OwnerStep, Proceeds
  <2> QED
    BY <1>2, <2>6
<1> QED
  BY <1>1, <1>2

LEMMA SameWhole ==
  ASSUME NEW c, WholeBeforeDot(c), Stream(c)' = Stream(c), body'[c] = body[c], rcpts'[c] = rcpts[c],
         phase'[c] = phase[c],
         \A n \in 1 .. Len(mails) : n \in 1 .. Len(mails') /\ mails'[n] = mails[n]
  PROVE  WholeBeforeDot(c)'
<1>1. ASSUME NEW k \in 1 .. Len(Stream(c)), phase[c] # "closed", Stream(c)[k].verb = "DATAEND"
      PROVE  LET n == Stream(c)[k].n IN
             /\ phase[c] = "data" /\ n \in 1 .. Len(mails') /\ mails'[n] = mails[n]
             /\ IsRcpts(rcpts[c], n, Recipients(mails'[n]))
             /\ k = Len(Blocks(mails'[n])) + 1
             /\ StartsWithBlocks(Stream(c), n, k - 1)
  BY <1>1 DEF WholeBeforeDot
<1>2. /\ \A k \in 1 .. Len(Stream(c)) : Stream(c)[k].verb # "DOT"
      /\ phase[c] \notin {"data", "closed"} => body[c] = <<>>
      /\ \A k \in 1 .. Len(body[c]) : body[c][k].verb # "DATAEND"
  BY DEF WholeBeforeDot
<1> QED
  BY <1>1, <1>2 DEF WholeBeforeDot

(* Only behind the whole of a message does the client send its final dot. *)
LEMMA SendKeepsWhole ==
  ASSUME NoDots, TypeOK, SessionAssumption, SocketOK, Counted, ~resumed, InStep, Send,
         WholeBeforeDot(m_socket)
  PROVE  WholeBeforeDot(m_socket)'
<1> DEFINE c == m_socket
           l == Len(Stream(c))
           s == Stream(c)'
<1>0. /\ l \in Nat /\ c \in Conns /\ c' = c /\ Len(s) = l + 1
      /\ \A k \in 1 .. l : s[k] = Stream(c)[k]
      /\ s[l + 1].verb = step /\ s[l + 1].n = Len(mails)
  BY SendStream
<1>1. pc = "send" /\ UNCHANGED <<phase, rcpts, body, mails>>
  BY SendEffect
<1>2. step \in Steps /\ step # "DOT"
  BY DEF TypeOK, ClientTypeOK, Steps, ConnectSteps, MailSteps
<1>3. ASSUME step = "DATAEND", phase[c] # "closed"
      PROVE  /\ phase[c] = "data" /\ Len(mails) \in 1 .. Len(mails)
             /\ IsRcpts(rcpts[c], Len(mails), Recipients(mail))
             /\ l = Len(Blocks(mail)) /\ StartsWithBlocks(Stream(c), Len(mails), l)
  <2>1. Ready(c, "DATAEND", index)
    BY <1>1, <1>3 DEF InStep
  <2>2. Stands(c, "DATAEND", index, BlocksBefore("DATAEND", index))
    BY <1>3, <2>1 DEF Ready
  <2>3. Unreported
    BY <1>1, <1>3, MailStepIsUnreported DEF MailSteps
  <2> QED
    BY <2>2, <2>3, MailInHand DEF Stands, BlocksBefore, RcptsBefore
<1>4. \A k \in 1 .. l + 1 : k \in 1 .. l \/ k = l + 1
  BY <1>0
<1>5. \A k \in 1 .. Len(s) : s[k].verb # "DOT"
  BY <1>0, <1>2, <1>4 DEF WholeBeforeDot
<1>6. ASSUME NEW k \in 1 .. Len(s), phase[c] # "closed", s[k].verb = "DATAEND"
      PROVE  LET n == s[k].n IN
             /\ phase[c] = "data" /\ n \in 1 .. Len(mails)
             /\ IsRcpts(rcpts[c], n, Recipients(mails[n]))
             /\ k = Len(Blocks(mails[n])) + 1
             /\ StartsWithBlocks(s, n, k - 1)
  <2>1. CASE k \in 1 .. l
    <3>1. s[k] = Stream(c)[k]
      BY <1>0, <2>1
    <3>2. LET n == s[k].n IN
             /\ phase[c] = "data" /\ n \in 1 .. Len(mails)
             /\ IsRcpts(rcpts[c], n, Recipients(mails[n]))
             /\ k = Len(Blocks(mails[n])) + 1
             /\ StartsWithBlocks(Stream(c), n, k - 1)
      BY <1>6, <2>1, <3>1 DEF WholeBeforeDot
    <3>3. \A j \in 1 .. k - 1 : j \in 1 .. l
      BY <1>0, <2>1
    <3>4. StartsWithBlocks(s, s[k].n, k - 1)
      <4>1. Len(s) >= k - 1
        BY <1>0, <2>1
      <4>2. PICK n : n = s[k].n
        OBVIOUS
      <4>3. StartsWithBlocks(Stream(c), n, k - 1)
        BY <3>2, <4>2
      <4>4. \A j \in 1 .. k - 1 : s[j] = Stream(c)[j]
        BY <1>0, <3>3
      <4>5. StartsWithBlocks(s, n, k - 1)
        <5> HIDE DEF s
        <5> QED
          BY <4>1, <4>3, <4>4 DEF StartsWithBlocks
      <4> QED
        BY <4>2, <4>5
    <3> QED
      BY <3>2, <3>4
  <2>2. CASE k = l + 1
    <3>1. step = "DATAEND" /\ s[k].n = Len(mails)
      BY <1>0, <1>6, <2>2
    <3>2. k - 1 = l /\ Len(s) >= l
      BY <1>0, <2>2
    <3>3. StartsWithBlocks(s, Len(mails), l)
      <4>1. StartsWithBlocks(Stream(c), Len(mails), l)
        BY <1>3, <1>6, <3>1
      <4> HIDE DEF s, l
      <4> QED
        BY <1>0, <3>2, <4>1 DEF StartsWithBlocks
    <3> QED
      BY <1>3, <1>6, <2>2, <3>1, <3>2, <3>3 DEF mail
  <2> QED
    BY <1>0, <1>4, <2>1, <2>2
<1>7. /\ phase'[c] \notin {"data", "closed"} => body'[c] = <<>>
      /\ \A k \in 1 .. Len(body'[c]) : body'[c][k].verb # "DATAEND"
  BY <1>1 DEF WholeBeforeDot
<1> QED
  BY <1>0, <1>1, <1>5, <1>6, <1>7 DEF WholeBeforeDot

LEMMA ClientKeepsWhole ==
  ASSUME NoDots, TypeOK, SessionAssumption, SocketOK, Counted, Untouched, ~resumed, InStep, ClientStep,
         NEW c \in Conns, WholeBeforeDot(c)
  PROVE  WholeBeforeDot(c)'
<1>1. rcpts' = rcpts /\ body' = body
  BY ClientLeaves
<1>2. \A n \in 1 .. Len(mails) : n \in 1 .. Len(mails') /\ mails'[n] = mails[n]
  BY MailsStay
<1>3. CASE phase'[c] = phase[c] /\ c2s'[c] = c2s[c]
  <2>1. Stream(c)' = Stream(c)
    BY <1>1, <1>3 DEF Stream
  <2> QED
    BY <1>1, <1>2, <1>3, <2>1, SameWhole
<1>4. CASE c2s'[c] = <<>> /\ body[c] = <<>>
  <2>1. Stream(c)' = <<>> /\ body'[c] = <<>>
    BY <1>1, <1>4, ConcatEmptySeq DEF Stream
  <2> QED
    BY <2>1 DEF WholeBeforeDot
<1>5. CASE Quiet \/ TakeReplies
  BY <1>3, <1>5 DEF Quiet, TakeReplies
<1>6. CASE ConnectSucceeds
  BY <1>3, <1>4, <1>6, ConnectEffect
<1>7. CASE Handshake
  <2>1. CASE c = m_socket
    <3>1. c2s'[c] = <<>> /\ phase[c] \in {"sslwait", "starttls"}
      BY <1>7, <2>1, HandshakeEffect
    <3> QED
      BY <1>4, <3>1 DEF WholeBeforeDot
  <2>2. CASE c # m_socket
    BY <1>3, <1>7, <2>2, HandshakeEffect
  <2> QED
    BY <2>1, <2>2
<1>8. CASE Send
  <2>1. CASE c = m_socket
    <3>1. WholeBeforeDot(m_socket)'
      BY <1>8, <2>1, SendKeepsWhole
    <3>2. m_socket' = c
      BY <1>8, <2>1, SendStream
    <3> QED
      BY <3>1, <3>2
  <2>2. CASE c # m_socket
    BY <1>3, <1>8, <2>2, SendEffect
  <2> QED
    BY <2>1, <2>2
<1> QED
  BY <1>5, <1>6, <1>7, <1>8, ClientKinds

-----------------------------------------------------------------------------
(* What send_mail reports, and what has become of the message. *)

LEMMA Reports ==
  ASSUME TypeOK, SocketOK, Counted, ClientStep
  PROVE  \/ results' = results
         \/ /\ Unreported /\ mails' = mails
            /\ \E r \in Result :
                 /\ results' = Append(results, r)
                 /\ r.ok => MailAccepted
                 /\ r.ok \/ r.at = "DATAEND" \/ ~(pc = "recv" /\ step = "DATAEND")
<1>1. CASE OwnerStep
  BY <1>1 DEF OwnerStep, CallSendMail, CallConnect, CallDisconnect, Destroy, history
<1>2. CASE ConnectSucceeds \/ Handshake \/ Send \/ Killed
  BY <1>2 DEF ConnectSucceeds, Handshake, Send, Killed, history
<1>3. CASE ConnectFails
  <2> DEFINE r == [ok |-> FALSE, at |-> "CONNECT", code |-> 0]
  <2>1. r \in Result /\ r.ok = FALSE
    BY DEF Result, ReplyCodes
  <2>2. /\ pc = "connect" /\ mails' = mails
        /\ results' = IF caller = "send_mail" THEN Append(results, r) ELSE results
    BY <1>3 DEF ConnectFails
  <2> HIDE DEF r
  <2> QED
    BY <2>1, <2>2 DEF Unreported
<1>4. CASE Throws
  <2>1. pc \in {"tls", "send", "recv"} /\ \E buf \in Reply : Throw(buf)
    BY <1>4, ThrowsWhere
  <2>2. PICK buf \in Reply : Throw(buf)
    BY <2>1
  <2> DEFINE r == [ok |-> FALSE, at |-> step, code |-> buf.code]
  <2>3. mails' = mails /\ results' = IF Unreported THEN Append(results, r) ELSE results
    BY <2>1, <2>2, ThrowEnds
  <2>4. r \in Result /\ r.ok = FALSE /\ r.at = step
    BY DEF Result, Reply, TypeOK, ClientTypeOK
  <2> HIDE DEF r
  <2> QED
    BY <2>3, <2>4
<1>5. CASE Proceeds
  BY <1>5, ProceedsTo
<1>6. CASE MailAccepted
  <2> DEFINE r == [ok |-> TRUE, at |-> "DATAEND", code |-> reply.code]
  <2>1. Accepts("DATAEND") /\ results' = Append(results, r)
    BY <1>6 DEF MailAccepted
  <2>2. pc = "recv" /\ step = "DATAEND" /\ reply \in Reply /\ mails' = mails
    BY <2>1, AcceptsType DEF Accepts, TakeReplies
  <2>3. r \in Result
    BY <2>2, StepTypes DEF Result, Reply
  <2>5. r.at = "DATAEND"
    OBVIOUS
  <2> HIDE DEF r
  <2>4. Unreported
    BY <2>2, MailStepIsUnreported DEF MailSteps
  <2> QED
    BY <1>6, <2>1, <2>2, <2>3, <2>4, <2>5
<1>7. CASE QuitAccepted
  BY <1>7 DEF QuitAccepted
<1> QED
  BY <1>1, <1>2, <1>3, <1>4, <1>5, <1>6, <1>7 DEF ClientStep, Throws, Proceeds

(* Nothing but send_mail itself begins a report that is due; and the answer *)
(* to the final dot is the last thing that is waited for.                  *)
LEMMA UnreportedBefore ==
  ASSUME TypeOK, SocketOK, Counted, ClientStep, ~CallSendMail, Unreported'
  PROVE  Unreported /\ ~(pc = "recv" /\ step = "DATAEND")
<1>1. CASE CallConnect \/ CallDisconnect \/ Destroy
  BY <1>1 DEF CallConnect, CallDisconnect, Destroy, CloseSocket, control, Counted, Unreported
<1>2. CASE ConnectFails \/ Killed
  BY <1>2 DEF ConnectFails, Killed, Return, Unreported
<1>3. CASE ConnectSucceeds
  BY <1>3 DEF ConnectSucceeds, Connected, Goto, Return, Unreported
<1>4. CASE Handshake
  BY <1>4 DEF Handshake, control, Goto, Unreported, Counted
<1>5. CASE Throws
  <2>1. pc \in {"tls", "send", "recv"} /\ \E buf \in Reply : Throw(buf)
    BY <1>5, ThrowsWhere
  <2> QED
    BY <2>1, ThrowEnds
<1>6. CASE Send
  BY <1>6 DEF Send, AfterBlock, Goto, Unreported
<1>7. CASE Proceeds
  <2>1. PICK s \in Steps \ {"QUIT", "DATABLOCK", "DATAEND"} :
          Accepts(s) /\ Onward(s) /\ UNCHANGED <<m_socket, results>>
    BY <1>7, ProceedsTo
  <2>2. pc = "recv" /\ step = s
    BY <2>1 DEF Accepts, TakeReplies
  <2>3. caller' = caller \/ pc' = "user"
    BY <2>1 DEF Onward, Connected, Goto, Return
  <2> QED
    BY <2>2, <2>3 DEF Unreported
<1>8. CASE MailAccepted \/ QuitAccepted
  BY <1>8 DEF MailAccepted, QuitAccepted, Return, Unreported
<1> QED
  BY <1>1, <1>2, <1>3, <1>4, <1>5, <1>6, <1>7, <1>8 DEF ClientStep, OwnerStep, Throws, Proceeds

(* Every final dot belongs to a message that has been handed over. *)
LEMMA DotNumbered ==
  ASSUME TypeOK, SessionAssumption, ~resumed, OneDot, OnlyWholeMailsOnce, NEW n, DotSent(n)
  PROVE  n \in 1 .. Len(mails)
<1>1. CASE \E c \in Conns : \E k \in 1 .. Len(c2s[c]) : c2s[c][k].verb = "DATAEND" /\ c2s[c][k].n = n
  BY <1>1 DEF OneDot
<1>2. CASE \E j \in 1 .. Len(accepted) : accepted[j].body[1].n = n
  <2>1. PICK j \in 1 .. Len(accepted) : accepted[j].body[1].n = n
    BY <1>2
  <2>2. PICK k \in 1 .. Len(mails) : Whole(accepted[j], k)
    BY DEF OnlyWholeMailsOnce
  <2>3. mails[k] \in Mail
    BY ElementOfSeq DEF TypeOK, ClientTypeOK, SessionAssumption
  <2>4. Len(accepted[j].body) = Len(Blocks(mails[k])) /\ Len(Blocks(mails[k])) >= 1
        /\ Len(Blocks(mails[k])) \in Nat
    BY <2>2, <2>3, BlocksLen DEF Whole
  <2>5. 1 \in 1 .. Len(accepted[j].body)
    BY <2>4
  <2>6. accepted[j].body[1].n = k
    BY <2>2, <2>5 DEF Whole
  <2> QED
    BY <2>1, <2>6
<1> QED
  BY <1>1, <1>2 DEF DotSent

(* A message has at most one final dot, and none when it is reported as    *)
(* refused.                                                                *)
LEMMA ClientKeepsOneDot ==
  ASSUME NoDots, TypeOK, SessionAssumption, SocketOK, Counted, ~resumed, OneDot, OnlyWholeMailsOnce,
         ClientStep
  PROVE  OneDot'
<1>1. accepted' = accepted
  BY ClientLeaves
<1>2. Len(mails) \in Nat /\ Len(results) \in Nat /\ results \in Seq(Result)
  BY LenProperties DEF TypeOK, ClientTypeOK
<1>3. CASE ~Send
  <2>1. c2s' = c2s
    BY <1>3, ClientKinds DEF Quiet, TakeReplies, ConnectSucceeds, Handshake
  <2>2. \A n : DotSent(n)' <=> DotSent(n)
    BY <1>1, <2>1 DEF DotSent
  <2>3. ASSUME NEW c \in Conns, NEW k \in 1 .. Len(c2s'[c]), c2s'[c][k].verb = "DATAEND"
        PROVE  c2s'[c][k].n \in 1 .. Len(mails')
    BY <2>1, <2>3, MailsStay DEF OneDot
  <2>4. ASSUME Unreported', ~(pc' = "recv" /\ step' = "DATAEND") PROVE ~DotSent(Len(mails))'
    <3>1. PICK n : n = Len(mails')
      OBVIOUS
    <3>2. ~DotSent(n)
      <4>1. CASE CallSendMail
        <5>1. PICK m \in Mails : mails' = Append(mails, m)
          BY <4>1 DEF CallSendMail
        <5>2. n = Len(mails) + 1
          BY <3>1, <5>1, AppendProperties DEF TypeOK, ClientTypeOK
        <5>3. n \notin 1 .. Len(mails)
          BY <1>2, <5>2
        <5> QED
          BY <5>3, DotNumbered
      <4>2. CASE ~CallSendMail
        <5>1. n = Len(mails)
          BY <3>1, <4>2, MailsStay
        <5>2. Unreported /\ ~(pc = "recv" /\ step = "DATAEND")
          BY <2>4, <4>2, UnreportedBefore
        <5> QED
          BY <5>1, <5>2 DEF OneDot
      <4> QED
        BY <4>1, <4>2
    <3>3. DotSent(Len(mails))' <=> DotSent(n)'
      BY <3>1
    <3> QED
      BY <2>2, <3>2, <3>3
  <2>5. ASSUME NEW n \in 1 .. Len(results')
        PROVE  results'[n].ok \/ results'[n].at = "DATAEND" \/ ~DotSent(n)'
    <3>1. CASE results' = results
      BY <2>2, <3>1 DEF OneDot
    <3>2. CASE results' # results
      <4>1. Unreported /\ \E r \in Result :
                 /\ results' = Append(results, r)
                 /\ r.ok \/ r.at = "DATAEND" \/ ~(pc = "recv" /\ step = "DATAEND")
        BY <3>2, Reports
      <4>2. PICK r \in Result :
                 /\ results' = Append(results, r)
                 /\ r.ok \/ r.at = "DATAEND" \/ ~(pc = "recv" /\ step = "DATAEND")
        BY <4>1
      <4>3. /\ Len(results') = Len(results) + 1
            /\ \A k \in 1 .. Len(results) : results'[k] = results[k]
            /\ results'[Len(results) + 1] = r
        BY <1>2, <4>2, AppendProperties
      <4>4. CASE n \in 1 .. Len(results)
        BY <2>2, <4>3, <4>4 DEF OneDot
      <4>5. CASE n \notin 1 .. Len(results)
        <5>1. n = Len(results) + 1
          BY <1>2, <2>5, <4>3, <4>5
        <5>2. n = Len(mails)
          BY <4>1, <5>1, MailInHand
        <5>3. ~(pc = "recv" /\ step = "DATAEND") => ~DotSent(n)
          BY <4>1, <5>2 DEF OneDot
        <5> QED
          BY <2>2, <4>2, <4>3, <5>1, <5>3
      <4> QED
        BY <4>4, <4>5
    <3> QED
      BY <3>1, <3>2
  <2>7. /\ \A c, d \in Conns : \A k \in 1 .. Len(c2s[c]), l \in 1 .. Len(c2s[d]) :
            /\ c2s[c][k].verb = "DATAEND" /\ c2s[d][l].verb = "DATAEND"
            /\ c2s[c][k].n = c2s[d][l].n
            => c = d /\ k = l
        /\ \A c \in Conns : \A k \in 1 .. Len(c2s[c]) : \A j \in 1 .. Len(accepted) :
             c2s[c][k].verb = "DATAEND" => c2s[c][k].n # accepted[j].body[1].n
    BY DEF OneDot
  <2>8. (\A n \in 1 .. Len(results) : results[n].ok \/ results[n].at = "DATAEND" \/ ~DotSent(n))'
    BY <2>5
  <2>9. (Unreported /\ ~(pc = "recv" /\ step = "DATAEND") => ~DotSent(Len(mails)))'
    BY <2>4
  <2> QED
    BY <1>1, <2>1, <2>3, <2>7, <2>8, <2>9 DEF OneDot
<1>4. CASE Send
  <2> DEFINE q == c2s[m_socket]
             p == Len(q) + 1
  <2>1. /\ pc = "send" /\ m_socket \in Conns /\ UNCHANGED <<mails, results, resumed>>
        /\ Len(q) \in Nat /\ Len(c2s'[m_socket]) = p
        /\ \A k \in 1 .. Len(q) : c2s'[m_socket][k] = q[k]
        /\ c2s'[m_socket][p].verb = Wire(step) /\ c2s'[m_socket][p].n = Len(mails)
        /\ \A d \in Conns : d # m_socket => c2s'[d] = c2s[d]
        /\ IF step = "DATABLOCK" THEN AfterBlock ELSE Goto("recv", step, index)
    BY <1>4, SendEffect
  <2>2. Wire(step) = step
    BY <2>1, WireIsStep
  <2>3. ASSUME NEW c \in Conns, NEW k \in 1 .. Len(c2s'[c]), c2s'[c][k].verb = "DATAEND"
        PROVE  \/ k \in 1 .. Len(c2s[c]) /\ c2s'[c][k] = c2s[c][k]
               \/ step = "DATAEND" /\ c = m_socket /\ k = p /\ c2s'[c][k].n = Len(mails)
    <3>1. CASE c = m_socket /\ k \notin 1 .. Len(q)
      <4>1. k = p
        BY <2>1, <2>3, <3>1
      <4> QED
        BY <2>1, <2>2, <2>3, <3>1, <4>1
    <3> HIDE DEF p
    <3> QED
      BY <2>1, <2>3, <3>1
  <2>4. step = "DATAEND" => ~DotSent(Len(mails)) /\ Len(mails) \in 1 .. Len(mails)
                            /\ Len(mails) = Len(results) + 1
    <3>1. step = "DATAEND" => Unreported
      BY <2>1, MailStepIsUnreported DEF MailSteps
    <3> QED
      BY <2>1, <3>1, MailInHand DEF OneDot
  <2>5. ASSUME NEW n, DotSent(n)' PROVE DotSent(n) \/ (step = "DATAEND" /\ n = Len(mails))
    <3>1. CASE \E c \in Conns : \E k \in 1 .. Len(c2s'[c]) : c2s'[c][k].verb = "DATAEND" /\ c2s'[c][k].n = n
      <4>1. PICK c \in Conns : \E k \in 1 .. Len(c2s'[c]) : c2s'[c][k].verb = "DATAEND" /\ c2s'[c][k].n = n
        BY <3>1
      <4>2. PICK k \in 1 .. Len(c2s'[c]) : c2s'[c][k].verb = "DATAEND" /\ c2s'[c][k].n = n
        BY <4>1
      <4> HIDE DEF p
      <4> QED
        BY <2>3, <4>2 DEF DotSent
    <3>2. CASE \E j \in 1 .. Len(accepted') : accepted'[j].body[1].n = n
      BY <1>1, <3>2 DEF DotSent
    <3> QED
      BY <2>5, <3>1, <3>2 DEF DotSent
  <2> HIDE DEF p, q
  <2>6. ASSUME NEW c \in Conns, NEW d \in Conns, NEW k \in 1 .. Len(c2s'[c]), NEW l \in 1 .. Len(c2s'[d]),
               c2s'[c][k].verb = "DATAEND", c2s'[d][l].verb = "DATAEND", c2s'[c][k].n = c2s'[d][l].n
        PROVE  c = d /\ k = l
    <3>1. ASSUME NEW a \in Conns, NEW i \in 1 .. Len(c2s[a]), c2s[a][i].verb = "DATAEND", step = "DATAEND"
          PROVE  c2s[a][i].n # Len(mails)
      BY <2>4, <3>1 DEF DotSent
    <3>2. CASE k \in 1 .. Len(c2s[c]) /\ c2s'[c][k] = c2s[c][k]
      <4>1. CASE l \in 1 .. Len(c2s[d]) /\ c2s'[d][l] = c2s[d][l]
        BY <2>6, <3>2, <4>1 DEF OneDot
      <4>2. CASE step = "DATAEND" /\ c2s'[d][l].n = Len(mails)
        BY <2>6, <3>1, <3>2, <4>2
      <4> QED
        BY <2>3, <2>6, <4>1, <4>2
    <3>3. CASE step = "DATAEND" /\ c = m_socket /\ k = p /\ c2s'[c][k].n = Len(mails)
      <4>1. CASE l \in 1 .. Len(c2s[d]) /\ c2s'[d][l] = c2s[d][l]
        BY <2>6, <3>1, <3>3, <4>1
      <4>2. CASE d = m_socket /\ l = p
        BY <3>3, <4>2
      <4> QED
        BY <2>3, <2>6, <4>1, <4>2
    <3> QED
      BY <2>3, <2>6, <3>2, <3>3
  <2>7. ASSUME NEW c \in Conns, NEW k \in 1 .. Len(c2s'[c]), NEW j \in 1 .. Len(accepted),
               c2s'[c][k].verb = "DATAEND"
        PROVE  c2s'[c][k].n # accepted[j].body[1].n
    <3>1. CASE k \in 1 .. Len(c2s[c]) /\ c2s'[c][k] = c2s[c][k]
      BY <2>7, <3>1 DEF OneDot
    <3>2. CASE step = "DATAEND" /\ c2s'[c][k].n = Len(mails)
      BY <2>4, <3>2 DEF DotSent
    <3> QED
      BY <2>3, <2>7, <3>1, <3>2
  <2>8. (Unreported /\ ~(pc = "recv" /\ step = "DATAEND") => ~DotSent(Len(mails)))'
    <3>1. SUFFICES ASSUME Unreported', ~(pc' = "recv" /\ step' = "DATAEND") PROVE ~DotSent(Len(mails))'
      OBVIOUS
    <3>2. PICK n : n = Len(mails)
      BY Zenon
    <3>3. ~CallSendMail
      BY <2>1 DEF CallSendMail
    <3>4. Unreported /\ ~(pc = "recv" /\ step = "DATAEND")
      BY <3>1, <3>3, UnreportedBefore
    <3>5. ~DotSent(n)
      BY <3>2, <3>4 DEF OneDot
    <3>6. step # "DATAEND"
      BY <2>1, <3>1 DEF Goto
    <3>7. ~DotSent(n)'
      BY <2>5, <3>5, <3>6
    <3>8. DotSent(Len(mails))' <=> DotSent(n)'
      BY <2>1, <3>2
    <3> QED
      BY <3>7, <3>8
  <2>9. ASSUME NEW n \in 1 .. Len(results)
        PROVE  results[n].ok \/ results[n].at = "DATAEND" \/ ~DotSent(n)'
    <3>1. step = "DATAEND" => n # Len(mails)
      BY <1>2, <2>4
    <3>2. DotSent(n)' => DotSent(n)
      BY <2>5, <3>1
    <3> QED
      BY <3>2 DEF OneDot
  <2>10. ASSUME NEW c \in Conns, NEW k \in 1 .. Len(c2s'[c]), c2s'[c][k].verb = "DATAEND"
         PROVE  c2s'[c][k].n \in 1 .. Len(mails)
    <3>1. CASE k \in 1 .. Len(c2s[c]) /\ c2s'[c][k] = c2s[c][k]
      BY <2>10, <3>1 DEF OneDot
    <3>2. CASE step = "DATAEND" /\ c2s'[c][k].n = Len(mails)
      BY <2>4, <3>2
    <3> QED
      BY <2>3, <2>10, <3>1, <3>2
  <2>11. (\A n \in 1 .. Len(results) : results[n].ok \/ results[n].at = "DATAEND" \/ ~DotSent(n))'
    BY <2>1, <2>9
  <2> QED
    BY <1>1, <2>1, <2>6, <2>7, <2>8, <2>10, <2>11 DEF OneDot
<1> QED
  BY <1>3, <1>4

LEMMA ClientKeepsMailsWhole ==
  ASSUME TypeOK, ~resumed, OnlyWholeMailsOnce, ClientStep
  PROVE  OnlyWholeMailsOnce'
<1>1. accepted' = accepted
  BY ClientLeaves
<1>2. \A n \in 1 .. Len(mails) : n \in 1 .. Len(mails') /\ mails'[n] = mails[n]
  BY MailsStay
<1>3. ASSUME NEW j \in 1 .. Len(accepted) PROVE \E n \in 1 .. Len(mails') : Whole(accepted[j], n)'
  <2>1. PICK n \in 1 .. Len(mails) : Whole(accepted[j], n)
    BY DEF OnlyWholeMailsOnce
  <2>2. Whole(accepted[j], n)'
    BY <1>1, <1>2, <2>1 DEF Whole
  <2> QED
    BY <1>2, <2>2
<1>4. \A j \in 1 .. Len(accepted') : \E n \in 1 .. Len(mails') : Whole(accepted[j], n)'
  BY <1>1, <1>3
<1>5. \A j, k \in 1 .. Len(accepted') : j # k => accepted'[j].body[1].n # accepted'[k].body[1].n
  BY <1>1 DEF OnlyWholeMailsOnce
<1> QED
  BY <1>4, <1>5, Zenon DEF OnlyWholeMailsOnce

-----------------------------------------------------------------------------
(* The client keeps in step with the relay. *)

(* No code that is expected is one of a refusal, and only QUIT expects 221. *)
LEMMA ExpectedCodes ==
  ASSUME NEW s \in Steps
  PROVE  /\ valid_reply_code[find_command_entry(s)] \notin {421, 500, 530, 550}
         /\ s = "MAILFROM" => valid_reply_code[find_command_entry(s)] = 250
         /\ s = "QUIT" => valid_reply_code[find_command_entry(s)] = 221
  BY DEF Steps, ConnectSteps, MailSteps, find_command_entry, valid_reply_code

(* A reply that is accepted answers the command it is accepted for, the    *)
(* relay has granted that command, and no other good news is left.         *)
LEMMA AcceptedAnswer ==
  ASSUME TypeOK, SocketOK, ~resumed, InStep, NEW s \in Steps \ {"QUIT"}, Accepts(s)
  PROVE  /\ pc = "recv" /\ step = s /\ reply.for = s /\ Granted(m_socket, s, index)
         /\ \A k \in 1 .. Len(s2c'[m_socket]) : ~Good(s2c'[m_socket][k])
<1>1. /\ step = s /\ TakeReplies /\ Expected(s)
  BY DEF Accepts
<1>2. /\ pc = "recv" /\ m_socket \in Conns
      /\ 1 \in 1 .. Len(s2c[m_socket]) /\ reply = s2c[m_socket][1]
      /\ \A k \in 1 .. Len(s2c'[m_socket]) :
           \E j \in 2 .. Len(s2c[m_socket]) : s2c'[m_socket][k] = s2c[m_socket][j]
  BY <1>1, TakenReplies
<1>3. Good(reply) /\ (s = "MAILFROM" => reply.code = 250)
  BY <1>1, ExpectedCodes DEF Expected, Good
<1>4. ~(step = "MAILFROM" /\ Fresh(m_socket))
  <2>1. s2c[m_socket] # <<>>
    BY <1>1 DEF TakeReplies
  <2> QED
    BY <1>1, <1>3, <2>1 DEF Fresh, reply
<1>5. Waiting(m_socket, s, index)
  BY <1>1, <1>2, <1>4 DEF InStep
<1>6. ~NoGood(m_socket)
  BY <1>2, <1>3 DEF NoGood
<1>7. GoodFor(m_socket, s) /\ Granted(m_socket, s, index)
  BY <1>5, <1>6 DEF Waiting
<1>8. reply.for = s
  BY <1>2, <1>3, <1>7 DEF GoodFor
<1>9. ASSUME NEW k \in 1 .. Len(s2c'[m_socket]) PROVE ~Good(s2c'[m_socket][k])
  <2>1. PICK j \in 2 .. Len(s2c[m_socket]) : s2c'[m_socket][k] = s2c[m_socket][j]
    BY <1>2
  <2>2. j \in 1 .. Len(s2c[m_socket]) /\ j # 1
    OBVIOUS
  <2>3. ~Good(s2c[m_socket][j])
    BY <1>2, <1>3, <1>7, <2>2 DEF GoodFor
  <2> QED
    BY <2>1, <2>3
<1> QED
  BY <1>1, <1>2, <1>7, <1>8, <1>9

(* Then the client may go on with the command that comes next. *)
LEMMA GoOn ==
  ASSUME TypeOK, SocketOK, ~resumed, InStep,
         NEW s, s \in Steps \ {"QUIT", "STARTTLS"}, Accepts(s), NEW c, c = m_socket,
         NEW t, NEW j, BlocksBefore(t, j) = 0, t = "DATABLOCK" <=> s = "DATA", t # "DATAEND",
         RcptsBefore(t, j) = (IF s = "RCPTTO" THEN index ELSE IF s = "DATA" THEN Recipients(mail) ELSE 0)
  PROVE  Ready(c, t, j)'
<1>1. Granted(c, s, index) /\ \A k \in 1 .. Len(s2c'[c]) : ~Good(s2c'[c][k])
  BY AcceptedAnswer
<1>2. c \in Conns /\ UNCHANGED <<mails, phase, rcpts, body, c2s>>
  BY TakenReplies DEF Accepts
<1>3. NoGood(c)'
  BY <1>1 DEF NoGood
<1>4. Stream(c)' = Stream(c)
  BY <1>2 DEF Stream
<1>5. SUFFICES ASSUME phase[c] # "closed" PROVE Stands(c, t, j, 0)'
  <2>1. BlocksBefore(t, j)' = 0
    BY <1>2 DEF BlocksBefore, mail
  <2> QED
    BY <1>2, <1>3, <2>1 DEF Ready
<1>6. /\ phase[c] = PhaseAfter(s) /\ Stream(c) = <<>>
      /\ IsRcpts(rcpts[c], Len(mails), RcptsBefore(t, j))
  BY <1>1, <1>5 DEF Granted
<1>7. Stands(c, t, j, 0)
  <2>1. PhaseAfter(s) = IF t = "DATABLOCK" THEN "data" ELSE "cmd"
    BY DEF PhaseAfter
  <2>2. StartsWithBlocks(Stream(c), Len(mails), 0) /\ Len(Stream(c)) = 0
    BY <1>6 DEF StartsWithBlocks
  <2> QED
    BY <1>6, <2>1, <2>2 DEF Stands
<1> QED
  BY <1>2, <1>4, <1>7, SameStands

(* A throw leaves nothing behind that the client would rely on. *)
LEMMA ThrowsKeepInStep ==
  ASSUME TypeOK, SocketOK, Counted, ~resumed, InStep, Throws
  PROVE  InStep'
<1>1. pc \in {"tls", "send", "recv"} /\ \E buf \in Reply : Throw(buf)
  BY ThrowsWhere
<1> QED
  BY <1>1, ThrowEnds DEF InStep

LEMMA OwnerKeepsInStep ==
  ASSUME TypeOK, SocketOK, Counted, ~resumed, InStep, OwnerStep, ~resumed'
  PROVE  InStep'
<1>1. CASE CallSendMail
  <2>1. /\ pc = "user" /\ mixed' = mixed
        /\ UNCHANGED <<phase, rcpts, body, c2s, s2c, m_socket>>
        /\ IF m_socket = 0 THEN pc' = "connect"
                           ELSE pc' = "send" /\ step' = "MAILFROM" /\ index' = 0
        /\ m_socket # 0 => m_bConnected
    BY <1>1 DEF CallSendMail, relayVars, transaction, socket
  <2>2. CASE m_socket # 0
    <3>1. PICK c : c = m_socket
      OBVIOUS
    <3>2. Ready(c, "MAILFROM", 0)
      BY <2>1, <2>2, <3>1 DEF InStep
    <3>3. NoGood(c)' /\ Stream(c)' = Stream(c)
      BY <2>1, <3>2 DEF Ready, NoGood, Stream
    <3>4. \A k : BlocksBefore("MAILFROM", 0) = 0 /\ RcptsBefore("MAILFROM", 0) = 0
                 /\ BlocksBefore("MAILFROM", 0)' = 0 /\ RcptsBefore("MAILFROM", 0)' = 0
      BY DEF BlocksBefore, RcptsBefore
    <3>5. phase[c] # "closed" => Stands(c, "MAILFROM", 0, 0)
      BY <3>2, <3>4 DEF Ready
    <3>6. phase[c] # "closed" => Stands(c, "MAILFROM", 0, 0)'
      <4>1. \A q : IsRcpts(q, Len(mails), 0) => IsRcpts(q, Len(mails'), 0)
        BY DEF IsRcpts
      <4>2. \A q : StartsWithBlocks(q, Len(mails), 0) => StartsWithBlocks(q, Len(mails'), 0)
        BY DEF StartsWithBlocks
      <4> QED
        BY <2>1, <3>3, <3>4, <3>5, <4>1, <4>2 DEF Stands
    <3>7. Ready(c, "MAILFROM", 0)'
      BY <2>1, <3>3, <3>4, <3>6 DEF Ready
    <3>8. Ready(m_socket, step, index)'
      BY <2>1, <2>2, <3>1, <3>7
    <3> QED
      BY <2>1, <2>2, <3>8 DEF InStep
  <2>3. CASE m_socket = 0
    BY <2>1, <2>3 DEF InStep
  <2> QED
    BY <2>2, <2>3
<1>2. CASE CallConnect
  BY <1>2 DEF CallConnect, history, InStep
<1>3. CASE CallDisconnect
  BY <1>3 DEF CallDisconnect, CloseSocket, control, history, InStep
<1>4. CASE Destroy
  BY <1>4 DEF Destroy, history, InStep
<1> QED
  BY <1>1, <1>2, <1>3, <1>4 DEF OwnerStep

LEMMA ConnectKeepsInStep ==
  ASSUME TypeOK, SocketOK, ~resumed, InStep, Untouched, ConnectSucceeds
  PROVE  InStep'
<1>1. PICK c : c = opened + 1
  OBVIOUS
<1>2. /\ pc = "connect" /\ c \in Conns /\ m_socket' = c
      /\ UNCHANGED <<c2s, s2c, rcpts, body, m_bConnected, mixed>>
      /\ phase'[c] \in {"sslwait", "new"} /\ s2c[c] = <<>> /\ c2s[c] = <<>>
      /\ rcpts[c] = <<>> /\ body[c] = <<>>
  BY <1>1, ConnectEffect
<1>3. Stream(c)' = <<>>
  BY <1>2, ConcatEmptySeq DEF Stream
<1>4. ~m_bConnected'
  BY <1>2 DEF SocketOK
<1>5. NoGood(c)' /\ Fresh(c)' /\ (conf.security = "USE_SSL" => Securing(c)') /\ Waiting(c, "INIT", 0)'
  <2>1. conf' = conf
    BY DEF ConnectSucceeds
  <2>2. NoGood(c)'
    BY <1>2 DEF NoGood
  <2> QED
    BY <1>2, <1>3, <2>1, <2>2 DEF Fresh, Securing, Waiting, Asked
<1>6. \/ pc' = "user" \/ (pc' = "send" /\ step' = "MAILFROM")
      \/ pc' = "tls" /\ conf.security = "USE_SSL"
      \/ pc' = "recv" /\ step' = "INIT" /\ index' = 0
  BY DEF ConnectSucceeds, Connected, Goto, Return
<1>7. pc' = "recv" => Waiting(m_socket, step, index)'
  <2>1. SUFFICES ASSUME pc' = "recv" PROVE Waiting(m_socket, step, index)'
    OBVIOUS
  <2>2. m_socket' = c /\ step' = "INIT" /\ index' = 0
    BY <1>2, <1>6, <2>1
  <2> QED
    BY <1>5, <2>2
<1>8. pc' = "tls" => Securing(m_socket)'
  BY <1>2, <1>5, <1>6
<1>9. Fresh(m_socket)'
  BY <1>2, <1>5
<1> QED
  BY <1>2, <1>4, <1>6, <1>7, <1>8, <1>9 DEF InStep

LEMMA HandshakeKeepsInStep ==
  ASSUME TypeOK, SocketOK, ~resumed, InStep, Handshake
  PROVE  InStep'
<1>1. PICK c : c = m_socket
  OBVIOUS
<1>2. /\ pc \in {"tls", "send"} /\ c \in Conns
      /\ phase[c] \in {"sslwait", "starttls"}
      /\ phase'[c] = (IF phase[c] = "sslwait" THEN "new" ELSE "cmd")
      /\ UNCHANGED <<conf, c2s, s2c, rcpts, body, m_bConnected, mails, mixed>> /\ m_socket' = c
  BY <1>1, HandshakeEffect DEF socket
<1>3. Stream(c)' = Stream(c)
  BY <1>2 DEF Stream
<1>4. CASE pc = "tls" /\ conf.security = "USE_SSL"
  <2>1. Securing(c)
    BY <1>1, <1>4 DEF InStep
  <2>2. pc' = "recv" /\ step' = "INIT" /\ index' = 0
    BY <1>4 DEF Handshake, Goto
  <2>3. phase'[c] = "new" /\ Stream(c)' = <<>> /\ rcpts'[c] = <<>> /\ s2c'[c] = <<>>
    BY <1>2, <1>3, <1>4, <2>1 DEF Securing
  <2>4. Waiting(c, "INIT", 0)'
    BY <2>3 DEF Waiting, Asked, NoGood
  <2>5. Waiting(m_socket, step, index)'
    BY <1>2, <2>2, <2>4
  <2> QED
    BY <1>2, <2>2, <2>5 DEF InStep
<1>5. CASE pc = "tls" /\ conf.security # "USE_SSL"
  <2>1. Securing(c)
    BY <1>1, <1>5 DEF InStep
  <2>2. pc' = "send" /\ step' = "EHLO_TLS" /\ index' = 0
    BY <1>5 DEF Handshake, Goto
  <2>3. NoGood(c) /\ phase'[c] = "cmd" /\ Stream(c)' = <<>> /\ rcpts'[c] = <<>>
    BY <1>2, <1>3, <1>5, <2>1 DEF Securing
  <2>4. NoGood(c)'
    BY <1>2, <2>3 DEF NoGood
  <2>5. BlocksBefore("EHLO_TLS", 0)' = 0 /\ RcptsBefore("EHLO_TLS", 0)' = 0
    BY DEF BlocksBefore, RcptsBefore
  <2>6. Stands(c, "EHLO_TLS", 0, 0)'
    BY <2>3, <2>5 DEF Stands, IsRcpts, StartsWithBlocks
  <2>7. Ready(c, "EHLO_TLS", 0)'
    BY <2>4, <2>5, <2>6 DEF Ready
  <2>8. Ready(m_socket, step, index)'
    BY <1>2, <2>2, <2>7
  <2> QED
    BY <1>2, <2>2, <2>8 DEF InStep
<1>6. CASE pc = "send"
  <2>1. UNCHANGED control
    BY <1>6 DEF Handshake
  <2>2. ~Ready(c, step, index)
    BY <1>2 DEF Ready, Stands
  <2>3. step # "QUIT" => step = "MAILFROM" /\ Fresh(c)
    BY <1>1, <1>6, <2>2 DEF InStep
  <2>4. Fresh(c) => Fresh(c)'
    BY <1>2 DEF Fresh
  <2>5. step' # "QUIT" => step' = "MAILFROM" /\ Fresh(m_socket)'
    BY <1>2, <2>1, <2>3, <2>4 DEF control
  <2> QED
    BY <1>2, <1>6, <2>1, <2>5 DEF InStep, control
<1> QED
  BY <1>2, <1>4, <1>5, <1>6

(* What was ready to be sent is on its way, and has yet to be answered; or *)
(* it was a block, and the next one is ready.                              *)
LEMMA SendKeepsReady ==
  ASSUME NoDots, TypeOK, SessionAssumption, SocketOK, Counted, Send, step # "QUIT",
         NEW c, c = m_socket, Ready(c, step, index)
  PROVE  /\ pc' = "recv" => Waiting(c, step, index)'
         /\ pc' = "send" => Ready(c, step, index)'
<1>1. PICK s, i, l, n : s = step /\ i = index /\ l = Len(Stream(c)) /\ n = Len(mails)
  OBVIOUS
<1>2. /\ pc = "send" /\ c \in Conns /\ UNCHANGED <<phase, s2c, rcpts, mails>>
      /\ IF s = "DATABLOCK" THEN AfterBlock ELSE Goto("recv", s, i)
  BY <1>1, SendEffect
<1>3. /\ l \in Nat /\ Len(Stream(c)') = l + 1
      /\ \A k \in 1 .. l : Stream(c)'[k] = Stream(c)[k]
      /\ Stream(c)'[l + 1].verb = s /\ Stream(c)'[l + 1].n = n /\ Stream(c)'[l + 1].i = i
  BY <1>1, SendStream
<1>4. NoGood(c)'
  BY <1>2 DEF Ready, NoGood
<1>5. CASE phase[c] = "closed"
  BY <1>2, <1>4, <1>5 DEF Ready, Waiting
<1>6. CASE phase[c] # "closed"
  <2>0. i \in Nat
    BY <1>1 DEF TypeOK, ClientTypeOK
  <2>1. Stands(c, s, i, BlocksBefore(s, i))
    BY <1>1, <1>6 DEF Ready
  <2>2. l = BlocksBefore(s, i) /\ StartsWithBlocks(Stream(c), n, l) /\ IsRcpts(rcpts[c], n, RcptsBefore(s, i))
        /\ phase[c] = IF s \in {"DATABLOCK", "DATAEND"} THEN "data" ELSE "cmd"
    BY <1>1, <2>1 DEF Stands
  <2>3. StartsWithBlocks(Stream(c)', n, l)
    BY <1>3, <2>2 DEF StartsWithBlocks
  <2>4. ASSUME s # "DATABLOCK" PROVE pc' = "recv" /\ Waiting(c, step, index)'
    <3>1. pc' = "recv" /\ step' = s /\ index' = i
      BY <1>2, <2>4 DEF Goto
    <3>2. s # "INIT"
      BY <1>1, <1>2 DEF Counted
    <3>3. BlocksBefore(s, i)' = l /\ RcptsBefore(s, i)' = RcptsBefore(s, i) /\ Len(mails') = n
      BY <1>1, <1>2, <2>2 DEF BlocksBefore, RcptsBefore, mail
    <3>4. Stands(c, s, i, l + 1)'
      BY <1>2, <1>3, <2>2, <2>3, <3>3 DEF Stands
    <3>5. Asked(c, s, i)'
      BY <1>3, <3>2, <3>3, <3>4 DEF Asked
    <3>6. Waiting(c, s, i)'
      BY <1>4, <3>5 DEF Waiting
    <3> QED
      BY <3>1, <3>6
  <2>5. ASSUME s = "DATABLOCK" PROVE pc' = "send" /\ Ready(c, step, index)'
    <3>1. /\ i \in 1 .. Len(Blocks(mail)) /\ Len(Blocks(mail)) \in Nat /\ l = i - 1 /\ l + 1 = i
          /\ RcptsBefore(s, i) = Recipients(mail)
      <4>1. i \in 1 .. Len(Blocks(mail))
        BY <1>1, <1>2, <2>5 DEF Counted
      <4>2. Len(Blocks(mail)) \in Nat
        BY <1>1, <1>2, <2>5, MailInHand, MailStepIsUnreported DEF MailSteps
      <4> QED
        BY <2>0, <2>2, <2>5, <4>1, <4>2 DEF BlocksBefore, RcptsBefore
    <3>2. PICK t, j : /\ Goto("send", t, j)
                      /\ \/ t = "DATABLOCK" /\ j = i + 1
                         \/ t = "DATAEND" /\ j = 0 /\ i = Len(Blocks(mail))
      BY <1>1, <1>2, <2>5, <3>1 DEF AfterBlock
    <3>3. BlocksBefore(t, j)' = i /\ RcptsBefore(t, j)' = Recipients(mail) /\ Len(mails') = n
      <4>1. mail' = mail /\ Len(mails') = n
        BY <1>1, <1>2 DEF mail
      <4> QED
        BY <2>0, <3>2, <4>1 DEF BlocksBefore, RcptsBefore
    <3>4. StartsWithBlocks(Stream(c)', n, i)
      <4>1. Len(Stream(c)') >= i
        BY <1>3, <3>1
      <4>2. ASSUME NEW k \in 1 .. i
            PROVE  Stream(c)'[k].verb = "DATABLOCK" /\ Stream(c)'[k].n = n /\ Stream(c)'[k].i = k
        <5>1. CASE k = i
          BY <1>3, <2>5, <3>1, <5>1
        <5>2. CASE k # i
          <6>1. k \in 1 .. l
            BY <2>0, <3>1, <5>2
          <6> QED
            BY <2>3, <6>1 DEF StartsWithBlocks
        <5> QED
          BY <5>1, <5>2
      <4> QED
        BY <4>1, <4>2 DEF StartsWithBlocks
    <3>5. Stands(c, t, j, i)'
      BY <1>2, <1>3, <2>2, <2>5, <3>1, <3>2, <3>3, <3>4 DEF Stands
    <3>6. Ready(c, t, j)'
      BY <1>4, <3>3, <3>5 DEF Ready
    <3>7. pc' = "send" /\ step' = t /\ index' = j
      BY <3>2 DEF Goto
    <3> QED
      BY <3>6, <3>7
  <2> QED
    BY <2>4, <2>5
<1> QED
  BY <1>5, <1>6

LEMMA SendKeepsInStep ==
  ASSUME NoDots, TypeOK, SessionAssumption, SocketOK, Counted, ~resumed, InStep, Send
  PROVE  InStep'
<1>1. PICK c : c = m_socket
  OBVIOUS
<1>2. /\ pc = "send" /\ UNCHANGED <<phase, s2c, mixed>> /\ m_socket' = c
      /\ IF step = "DATABLOCK" THEN AfterBlock ELSE Goto("recv", step, index)
  BY <1>1, SendEffect DEF socket
<1>3. pc' \in {"send", "recv"}
  BY <1>2 DEF AfterBlock, Goto
<1>4. CASE step = "QUIT"
  BY <1>2, <1>4 DEF Goto, InStep
<1>5. CASE step # "QUIT" /\ Ready(c, step, index)
  <2>1. /\ pc' = "recv" => Waiting(c, step, index)'
        /\ pc' = "send" => Ready(c, step, index)'
    BY <1>1, <1>5, SendKeepsReady
  <2>2. /\ pc' = "recv" => Waiting(m_socket, step, index)'
        /\ pc' = "send" => Ready(m_socket, step, index)'
    BY <1>2, <2>1
  <2> QED
    BY <1>2, <1>3, <2>2 DEF InStep
<1>6. CASE step = "MAILFROM" /\ Fresh(c)
  <2>1. pc' = "recv" /\ step' = "MAILFROM"
    BY <1>2, <1>6 DEF Goto
  <2>2. Fresh(m_socket)'
    BY <1>2, <1>6 DEF Fresh
  <2> QED
    BY <1>2, <2>1, <2>2 DEF InStep
<1> QED
  BY <1>1, <1>2, <1>4, <1>5, <1>6 DEF InStep

(* The step the client takes from an accepted reply is one it is ready for. *)
LEMMA ProceedsKeepsInStep ==
  ASSUME TypeOK, SessionAssumption, SocketOK, Counted, ~resumed, InStep, Proceeds
  PROVE  InStep'
<1>1. PICK s \in Steps \ {"QUIT", "DATABLOCK", "DATAEND"} :
           Accepts(s) /\ Onward(s) /\ UNCHANGED <<m_socket, results>>
  BY ProceedsTo
<1>2. PICK c, i : c = m_socket /\ i = index
  OBVIOUS
<1>3. pc = "recv" /\ step = s /\ reply.for = s /\ Granted(c, s, i) /\ c \in Conns /\ i \in Nat
  <2>1. pc = "recv" /\ step = s /\ reply.for = s /\ Granted(m_socket, s, index)
    BY <1>1, AcceptedAnswer
  <2>2. m_socket \in Conns
    BY <1>1, TakenReplies DEF Accepts
  <2> QED
    BY <1>2, <2>1, <2>2 DEF TypeOK, ClientTypeOK
<1>4. ~mixed' /\ m_socket' = c /\ UNCHANGED <<conf, mails, phase, rcpts, body, c2s>>
  <2>1. ~mixed
    BY DEF InStep
  <2>2. mixed' = (mixed \/ reply.for # s) /\ UNCHANGED mails /\ TakeReplies
    BY <1>1 DEF Accepts
  <2> QED
    BY <1>1, <1>2, <1>3, <2>1, <2>2 DEF TakeReplies, transaction
<1>5. ASSUME s # "STARTTLS",
             NEW t, NEW j, BlocksBefore(t, j) = 0, t = "DATABLOCK" <=> s = "DATA", t # "DATAEND",
             RcptsBefore(t, j) = (IF s = "RCPTTO" THEN i ELSE IF s = "DATA" THEN Recipients(mail) ELSE 0),
             Goto("send", t, j)
      PROVE  InStep'
  <2>1. Ready(c, t, j)'
    BY <1>1, <1>2, <1>5, GoOn
  <2>2. pc' = "send" /\ step' = t /\ index' = j
    BY <1>5 DEF Goto
  <2>3. Ready(m_socket, step, index)'
    BY <1>4, <2>1, <2>2
  <2> QED
    BY <1>4, <2>2, <2>3 DEF InStep
<1>6. ASSUME NEW t, t \notin {"RCPTTO", "DATA", "DATABLOCK", "DATAEND"}
      PROVE  BlocksBefore(t, 0) = 0 /\ RcptsBefore(t, 0) = 0
  BY <1>6 DEF BlocksBefore, RcptsBefore
<1>7. CASE s \in ConnectSteps \ {"STARTTLS"}
  <2>0. s \notin {"RCPTTO", "DATA"}
    BY <1>7 DEF ConnectSteps
  <2>1. \/ Connected
        \/ \E t \in ConnectSteps \ {"INIT"} : Goto("send", t, 0)
    BY <1>1, <1>7 DEF Onward, ConnectSteps
  <2>2. ASSUME NEW t \in ConnectSteps \cup {"MAILFROM"}, Goto("send", t, 0) PROVE InStep'
    <3>1. t \notin {"RCPTTO", "DATA", "DATABLOCK", "DATAEND"}
      BY DEF ConnectSteps
    <3> QED
      BY <1>5, <1>6, <1>7, <2>0, <2>2, <3>1
  <2>3. ASSUME Return PROVE InStep'
    <3>1. Ready(c, "MAILFROM", 0)'
      BY <1>1, <1>2, <1>6, <1>7, <2>0, GoOn
    <3>2. Ready(m_socket, "MAILFROM", 0)'
      BY <1>4, <3>1
    <3> QED
      BY <1>4, <2>3, <3>2 DEF InStep, Return
  <2> QED
    BY <2>1, <2>2, <2>3 DEF Connected
<1>8. CASE s = "STARTTLS"
  <2>1. pc' = "tls"
    BY <1>1, <1>8 DEF Onward, ConnectSteps, Goto
  <2>2. conf.security = "USE_TLS"
    BY <1>3, <1>8 DEF Counted
  <2>3. NoGood(c)'
    <3>1. \A k \in 1 .. Len(s2c'[m_socket]) : ~Good(s2c'[m_socket][k])
      BY <1>1, AcceptedAnswer
    <3> QED
      BY <1>2, <3>1 DEF NoGood
  <2>4. phase[c] # "closed" => phase[c] = "starttls" /\ Stream(c) = <<>> /\ IsRcpts(rcpts[c], Len(mails), 0)
    BY <1>3, <1>8 DEF Granted, PhaseAfter
  <2>5. IsRcpts(rcpts[c], Len(mails), 0) => rcpts[c] = <<>>
    BY <1>3, EmptySeq, LenProperties DEF IsRcpts, TypeOK, RelayTypeOK
  <2>6. Securing(c)'
    BY <1>4, <2>2, <2>3, <2>4, <2>5 DEF Securing, Stream
  <2>7. Securing(m_socket)'
    BY <1>4, <2>6
  <2> QED
    BY <1>4, <2>1, <2>7 DEF InStep
<1>9. CASE s = "MAILFROM"
  <2>1. Goto("send", "RCPTTO", 1)
    BY <1>1, <1>9 DEF Onward, ConnectSteps
  <2>2. BlocksBefore("RCPTTO", 1) = 0 /\ RcptsBefore("RCPTTO", 1) = 0
    BY DEF BlocksBefore, RcptsBefore
  <2> QED
    BY <1>5, <1>9, <2>1, <2>2
<1>10. CASE s = "RCPTTO"
  <2>1. \/ i < Recipients(mail) /\ Goto("send", "RCPTTO", i + 1)
        \/ ~(i < Recipients(mail)) /\ Goto("send", "DATA", 0)
    BY <1>1, <1>2, <1>10 DEF Onward, ConnectSteps
  <2>2. i \in 1 .. Recipients(mail) /\ Recipients(mail) \in Nat
    <3>1. Unreported
      BY <1>3, <1>10, MailStepIsUnreported DEF MailSteps
    <3> QED
      BY <1>2, <1>3, <1>10, <3>1, MailInHand DEF Counted
  <2>3. BlocksBefore("RCPTTO", i + 1) = 0 /\ RcptsBefore("RCPTTO", i + 1) = i
        /\ BlocksBefore("DATA", 0) = 0 /\ RcptsBefore("DATA", 0) = Recipients(mail)
    BY <1>3 DEF BlocksBefore, RcptsBefore
  <2>4. CASE i < Recipients(mail) /\ Goto("send", "RCPTTO", i + 1)
    BY <1>5, <1>10, <2>3, <2>4
  <2>5. CASE ~(i < Recipients(mail)) /\ Goto("send", "DATA", 0)
    <3>1. Recipients(mail) = i
      BY <2>2, <2>5
    <3>2. RcptsBefore("DATA", 0) = i
      BY <2>3, <3>1
    <3> QED
      BY <1>5, <1>10, <2>3, <2>5, <3>2
  <2> QED
    BY <2>1, <2>4, <2>5
<1>11. CASE s = "DATA"
  <2>1. Goto("send", "DATABLOCK", 1)
    BY <1>1, <1>11 DEF Onward, ConnectSteps
  <2>2. BlocksBefore("DATABLOCK", 1) = 0 /\ RcptsBefore("DATABLOCK", 1) = Recipients(mail)
    BY DEF BlocksBefore, RcptsBefore
  <2> QED
    BY <1>5, <1>11, <2>1, <2>2
<1> QED
  BY <1>1, <1>7, <1>8, <1>9, <1>10, <1>11 DEF Onward

(* A mail that was accepted, and a QUIT that was answered, end the call. *)
LEMMA EndsKeepInStep ==
  ASSUME TypeOK, SessionAssumption, SocketOK, Counted, Farewell, ~resumed, InStep,
         MailAccepted \/ QuitAccepted
  PROVE  InStep'
<1>0. ~mixed
  BY DEF InStep
<1>1. CASE MailAccepted
  <2>1. Accepts("DATAEND") /\ Return /\ m_socket' = m_socket
    BY <1>1 DEF MailAccepted
  <2>2. PICK c : c = m_socket
    OBVIOUS
  <2>3. "DATAEND" \in Steps \ {"QUIT", "STARTTLS"} /\ "DATAEND" \in Steps \ {"QUIT"}
    BY StepTypes
  <2>4. BlocksBefore("MAILFROM", 0) = 0 /\ RcptsBefore("MAILFROM", 0) = 0
    BY DEF BlocksBefore, RcptsBefore
  <2>5. Ready(c, "MAILFROM", 0)'
    BY <2>1, <2>2, <2>3, <2>4, GoOn
  <2>6. Ready(m_socket, "MAILFROM", 0)'
    BY <2>1, <2>2, <2>5
  <2>7. ~mixed'
    <3>1. reply.for = "DATAEND"
      BY <2>1, <2>3, AcceptedAnswer
    <3> QED
      BY <1>0, <2>1, <3>1 DEF Accepts
  <2> QED
    BY <2>1, <2>6, <2>7 DEF InStep, Return
<1>2. CASE QuitAccepted
  <2>1. Accepts("QUIT") /\ m_bConnected' = m_bConnected /\ pc' \in {"user", "done"}
    BY <1>2 DEF QuitAccepted, Return
  <2>2. pc = "recv" /\ ~m_bConnected
    BY <2>1 DEF Accepts, TakeReplies, SocketOK
  <2>3. reply.for = "QUIT"
    <3>1. m_socket \in Conns /\ 1 \in 1 .. Len(s2c[m_socket]) /\ reply = s2c[m_socket][1]
      BY <2>1, TakenReplies DEF Accepts
    <3>2. reply.code = 221
      BY <2>1, StepTypes, ExpectedCodes DEF Accepts, Expected
    <3> QED
      BY <3>1, <3>2 DEF Farewell
  <2>4. ~mixed'
    BY <1>0, <2>1, <2>3 DEF Accepts
  <2> QED
    BY <2>1, <2>2, <2>4 DEF InStep
<1> QED
  BY <1>1, <1>2

LEMMA ClientKeepsInStep ==
  ASSUME NoDots, TypeOK, SessionAssumption, SocketOK, Counted, Farewell, Untouched, InStep, ClientStep
  PROVE  InStep'
<1>0. CASE resumed'
  BY <1>0 DEF InStep
<1>1. CASE ~resumed'
  <2>0. ~resumed
    BY <1>1, ClientLeaves
  <2>1. CASE OwnerStep
    BY <1>1, <2>0, <2>1, OwnerKeepsInStep
  <2>2. CASE ConnectFails
    <3>1. pc = "connect" /\ UNCHANGED <<socket, mixed>> /\ pc' = "user"
      BY <2>2 DEF ConnectFails, Return
    <3> QED
      BY <2>0, <3>1 DEF SocketOK, socket, InStep
  <2>3. CASE Killed
    BY <2>0, <2>3 DEF Killed, history, InStep
  <2>4. CASE ConnectSucceeds \/ Handshake \/ Send
    BY <2>0, <2>4, ConnectKeepsInStep, HandshakeKeepsInStep, SendKeepsInStep
  <2>5. CASE Throws
    BY <2>0, <2>5, ThrowsKeepInStep
  <2>6. CASE Proceeds
    BY <2>0, <2>6, ProceedsKeepsInStep
  <2>7. CASE MailAccepted \/ QuitAccepted
    BY <2>0, <2>7, EndsKeepInStep
  <2> QED
    BY <2>1, <2>2, <2>3, <2>4, <2>5, <2>6, <2>7 DEF ClientStep, Throws, Proceeds
<1> QED
  BY <1>0, <1>1

-----------------------------------------------------------------------------
(* The invariant holds, and with it the properties. *)

LEMMA ClientKeepsSuccess ==
  ASSUME TypeOK, SessionAssumption, SocketOK, Counted, InStep, SuccessMeansAccepted, ClientStep
  PROVE  SuccessMeansAccepted'
<1>0. SUFFICES ASSUME ~resumed' PROVE \A n \in 1 .. Len(results') : results'[n].ok => Accepted(n)'
  BY DEF SuccessMeansAccepted
<1>1. ~resumed /\ accepted' = accepted
  BY <1>0, ClientLeaves
<1>2. Len(results) \in Nat /\ Len(mails) \in Nat /\ Len(results) <= Len(mails) /\ results \in Seq(Result)
  <2>1. Len(results) \in Nat /\ Len(mails) \in Nat /\ results \in Seq(Result)
    BY LenProperties DEF TypeOK, ClientTypeOK
  <2> QED
    BY <2>1 DEF Counted
<1>3. ASSUME NEW n \in 1 .. Len(mails), Accepted(n) PROVE Accepted(n)'
  <2>1. mails'[n] = mails[n]
    BY MailsStay
  <2>2. PICK j \in 1 .. Len(accepted) : Whole(accepted[j], n)
    BY <1>3 DEF Accepted
  <2>3. Whole(accepted[j], n)'
    BY <1>1, <2>1, <2>2 DEF Whole
  <2> QED
    BY <1>1, <2>3 DEF Accepted
<1>4. ASSUME NEW n \in 1 .. Len(results), results[n].ok PROVE Accepted(n)'
  <2>1. n \in 1 .. Len(mails)
    BY <1>2
  <2>2. Accepted(n)
    BY <1>1, <1>4 DEF SuccessMeansAccepted
  <2> QED
    BY <1>3, <2>1, <2>2
<1>5. CASE results' = results
  BY <1>4, <1>5
<1>6. CASE results' # results
  <2>1. Unreported /\ \E r \in Result : results' = Append(results, r) /\ (r.ok => MailAccepted)
    BY <1>6, Reports
  <2>2. PICK r \in Result : results' = Append(results, r) /\ (r.ok => MailAccepted)
    BY <2>1
  <2>3. Len(mails) = Len(results) + 1 /\ Len(mails) \in 1 .. Len(mails)
    BY <2>1, MailInHand
  <2>4. r.ok => Accepted(Len(mails))
    <3>1. SUFFICES ASSUME Accepts("DATAEND") PROVE Accepted(Len(mails))
      BY <2>2 DEF MailAccepted
    <3>2. "DATAEND" \in Steps \ {"QUIT"}
      BY StepTypes
    <3> QED
      BY <1>1, <3>1, <3>2, AcceptedAnswer DEF Granted
  <2>5. /\ Len(results') = Len(results) + 1 /\ results'[Len(results) + 1] = r
        /\ \A n \in 1 .. Len(results) : results'[n] = results[n]
    BY <1>2, <2>2, AppendProperties
  <2>6. ASSUME NEW n \in 1 .. Len(results'), results'[n].ok PROVE Accepted(n)'
    <3>1. CASE n \in 1 .. Len(results)
      BY <1>4, <2>5, <2>6, <3>1
    <3>2. CASE n = Len(results) + 1
      <4>1. n = Len(mails) /\ n \in 1 .. Len(mails) /\ r.ok
        BY <2>3, <2>5, <2>6, <3>2
      <4> QED
        BY <1>3, <2>4, <4>1
    <3> QED
      BY <1>2, <2>5, <3>1, <3>2
  <2> QED
    BY <2>6
<1> QED
  BY <1>5, <1>6

LEMMA ClientKeepsDelivery ==
  ASSUME NoDots, DeliveryInv, (TypeOK /\ SocketOK)', RelayAssumption, SessionAssumption, ClientStep
  PROVE  DeliveryInv'
<1>1. TypeOK /\ SocketOK /\ Counted /\ Farewell /\ Untouched /\ InStep /\ SuccessMeansAccepted
  BY DEF DeliveryInv
<1>2. Counted' /\ Farewell' /\ Untouched'
  BY <1>1, ClientKeepsCounted, ClientKeepsFarewell, ClientKeepsUntouched
<1>3. InStep' /\ SuccessMeansAccepted'
  BY <1>1, ClientKeepsInStep, ClientKeepsSuccess
<1>4. CASE resumed'
  BY <1>2, <1>3, <1>4 DEF DeliveryInv, OneDot, OnlyWholeMailsOnce
<1>5. CASE ~resumed'
  <2>0. ~resumed
    BY <1>5, ClientLeaves
  <2>1. OneDot /\ OnlyWholeMailsOnce /\ \A c \in Conns : WholeBeforeDot(c)
    BY <2>0 DEF DeliveryInv
  <2>2. \A c \in Conns : WholeBeforeDot(c)'
    BY <1>1, <2>0, <2>1, ClientKeepsWhole
  <2>3. OneDot' /\ OnlyWholeMailsOnce'
    BY <1>1, <2>0, <2>1, ClientKeepsOneDot, ClientKeepsMailsWhole
  <2> QED
    BY <1>2, <1>3, <2>2, <2>3 DEF DeliveryInv
<1> QED
  BY <1>4, <1>5

LEMMA InitDelivery ==
  ASSUME RelayAssumption, Init
  PROVE  DeliveryInv
<1>1. TypeOK /\ SocketOK
  BY InitType
<1>2. /\ pc = "user" /\ caller = "none" /\ step = "QUIT" /\ mails = <<>> /\ results = <<>>
      /\ ~m_bConnected /\ ~mixed /\ m_socket = 0 /\ opened = 0 /\ accepted = <<>>
      /\ \A c \in Conns : /\ phase[c] = "none" /\ s2c[c] = <<>> /\ c2s[c] = <<>>
                          /\ rcpts[c] = <<>> /\ body[c] = <<>>
  BY DEF Init, RelayInit
<1>3. Counted
  BY <1>2 DEF Counted, Unreported, Final
<1>4. Farewell /\ Untouched
  BY <1>2 DEF Farewell, Untouched
<1>5. ASSUME NEW c \in Conns PROVE WholeBeforeDot(c)
  <2>1. Stream(c) = <<>>
    BY <1>1, <1>2, StreamIsQueue DEF TypeOK
  <2> QED
    BY <1>2, <2>1 DEF WholeBeforeDot
<1>6. InStep
  BY <1>2 DEF InStep
<1>7. OneDot
  BY <1>2 DEF OneDot, Unreported
<1>8. OnlyWholeMailsOnce /\ SuccessMeansAccepted
  BY <1>2 DEF OnlyWholeMailsOnce, SuccessMeansAccepted
<1> QED
  BY <1>1, <1>3, <1>4, <1>5, <1>6, <1>7, <1>8 DEF DeliveryInv

LEMMA StutterKeepsDelivery ==
  ASSUME DeliveryInv, UNCHANGED vars
  PROVE  DeliveryInv'
<1>1. UNCHANGED <<conf, phase, tls, from, rcpts, body, c2s, s2c, accepted, pc, caller, step, index,
                  opened, m_socket, fds, m_bConnected, m_ssl, m_receive_buffer, mails, results,
                  quit_failed, resumed, clear, mixed>>
  BY DEF vars, relayVars, transaction, control, socket, history
<1>2. TypeOK' /\ SocketOK'
  BY <1>1 DEF DeliveryInv, TypeOK, RelayTypeOK, ClientTypeOK, SocketOK
<1>3. Counted' /\ Farewell' /\ Untouched'
  BY <1>1 DEF DeliveryInv, Counted, Unreported, mail, Farewell, Untouched
<1>4. ~resumed' => \A c \in Conns : WholeBeforeDot(c)'
  <2>1. \A c \in Conns : Stream(c)' = Stream(c)
    BY <1>1 DEF Stream
  <2>2. \A c \in Conns : WholeBeforeDot(c) => WholeBeforeDot(c)'
    BY <1>1, <2>1, SameWhole
  <2> QED
    BY <1>1, <2>2 DEF DeliveryInv
<1>5. \A n : Accepted(n) <=> Accepted(n)'
  <2>1. ASSUME NEW n, NEW j PROVE Whole(accepted[j], n)' <=> Whole(accepted[j], n)
    BY <1>1 DEF Whole
  <2> QED
    BY <1>1, <2>1 DEF Accepted
<1>6. InStep'
  <2>1. PICK c, s, i : c = m_socket /\ s = step /\ i = index
    OBVIOUS
  <2>2. Stream(c)' = Stream(c) /\ SameMail(c)
    BY <1>1 DEF Stream, SameMail
  <2>3. /\ Ready(c, "MAILFROM", 0) => Ready(c, "MAILFROM", 0)'
        /\ Ready(c, s, i) => Ready(c, s, i)'
    BY <1>1, <2>2, SameReady
  <2>4. Waiting(c, s, i) => Waiting(c, s, i)'
    BY <1>1, <1>5, <2>2, SameWaiting
  <2>5. /\ Securing(c) => Securing(c)'
        /\ Fresh(c) => Fresh(c)'
    BY <1>1, <2>2 DEF Securing, NoGood, Fresh
  <2>6. /\ Ready(m_socket, "MAILFROM", 0) => Ready(m_socket, "MAILFROM", 0)'
        /\ Ready(m_socket, step, index) => Ready(m_socket, step, index)'
        /\ Waiting(m_socket, step, index) => Waiting(m_socket, step, index)'
        /\ Securing(m_socket) => Securing(m_socket)'
        /\ Fresh(m_socket) => Fresh(m_socket)'
    <3>1. m_socket' = c /\ step' = s /\ index' = i
      BY <1>1, <2>1
    <3> QED
      BY <2>1, <2>3, <2>4, <2>5, <3>1
  <2> QED
    BY <1>1, <2>6 DEF DeliveryInv, InStep
<1>7. OneDot'
  BY <1>1 DEF DeliveryInv, OneDot, DotSent, Unreported
<1>8. SuccessMeansAccepted'
  BY <1>1, <1>5 DEF DeliveryInv, SuccessMeansAccepted
<1>9. OnlyWholeMailsOnce'
  <2>1. ASSUME NEW n, NEW j PROVE Whole(accepted[j], n)' <=> Whole(accepted[j], n)
    BY <1>1 DEF Whole
  <2> QED
    BY <1>1, <2>1 DEF DeliveryInv, OnlyWholeMailsOnce
<1> QED
  BY <1>2, <1>3, <1>4, <1>6, <1>7, <1>8, <1>9 DEF DeliveryInv

LEMMA DeliveryStep ==
  ASSUME NoDots, DeliveryInv, [Next]_vars
  PROVE  DeliveryInv'
<1>1. (TypeOK /\ SocketOK)'
  BY TypeStep DEF DeliveryInv
<1>2. CASE ClientStep
  BY <1>1, <1>2, ClientKeepsDelivery, RelayAssumption, SessionAssumption
<1>3. CASE Relay
  BY <1>1, <1>3, RelayKeepsDelivery, RelayAssumption, SessionAssumption
<1>4. CASE UNCHANGED vars
  BY <1>4, StutterKeepsDelivery
<1> QED
  BY <1>2, <1>3, <1>4 DEF Next, Gone

(* The object and its relay stay in step, however the calls follow one     *)
(* another, whatever the relay refuses and wherever a connection is lost.  *)
THEOREM StaysInStep == ASSUME NoDots PROVE Spec => []DeliveryInv
<1>1. Init => DeliveryInv
  BY InitDelivery, RelayAssumption
<1>2. DeliveryInv /\ [Next]_vars => DeliveryInv'
  BY DeliveryStep
<1> QED
  BY <1>1, <1>2, PTL DEF Spec

(* No reply passes for the answer to a command it does not answer, unless  *)
(* send_mail went on with a connection that a failed QUIT left behind.     *)
THEOREM RepliesAlwaysMatch == ASSUME NoDots PROVE Spec => []RepliesMatch
<1>1. DeliveryInv => RepliesMatch
  BY DEF DeliveryInv, InStep, RepliesMatch
<1> QED
  BY <1>1, StaysInStep, PTL

(* The relay accepts whole messages only, for all of their recipients, and *)
(* the message of one send_mail at most once, with the same exception.     *)
THEOREM WholeMailsOnce == ASSUME NoDots PROVE Spec => []OnlyWholeMailsOnce
<1>1. DeliveryInv => OnlyWholeMailsOnce
  BY DEF DeliveryInv
<1> QED
  BY <1>1, StaysInStep, PTL

(* A send_mail that returns true has had its message accepted, whole and   *)
(* for all of its recipients, with the same exception.                     *)
THEOREM SuccessIsAccepted == ASSUME NoDots PROVE Spec => []SuccessMeansAccepted
<1>1. DeliveryInv => SuccessMeansAccepted
  BY DEF DeliveryInv
<1> QED
  BY <1>1, StaysInStep, PTL

-----------------------------------------------------------------------------
(* The object keeps the promise of MailDelivery.                           *)

Told(r) == IF r.ok THEN "sent" ELSE IF r.at = "DATAEND" THEN "doubt" ELSE "refused"
Delivered == {n \in 1 .. Len(mails) : Accepted(n)}
Reported == [n \in 1 .. Len(results) |-> Told(results[n])]

(* A whole message carries the number of its send_mail. *)
LEMMA WholeNumber ==
  ASSUME TypeOK, SessionAssumption, NEW n \in 1 .. Len(mails), NEW a, Whole(a, n)
  PROVE  a.body[1].n = n
<1>1. mails[n] \in Mail
  BY ElementOfSeq DEF TypeOK, ClientTypeOK, SessionAssumption
<1>2. Len(a.body) = Len(Blocks(mails[n])) /\ Len(Blocks(mails[n])) >= 1 /\ Len(Blocks(mails[n])) \in Nat
  BY <1>1, BlocksLen DEF Whole
<1>3. 1 \in 1 .. Len(a.body)
  BY <1>2
<1> QED
  BY <1>3 DEF Whole

(* A message that is accepted has had its final dot, and belongs to a call. *)
LEMMA AcceptedHasDot ==
  ASSUME TypeOK, SessionAssumption, NEW n \in 1 .. Len(mails), Accepted(n)
  PROVE  DotSent(n)
<1>1. PICK j \in 1 .. Len(accepted) : Whole(accepted[j], n)
  BY DEF Accepted
<1>2. accepted[j].body[1].n = n
  BY <1>1, WholeNumber
<1> QED
  BY <1>2 DEF DotSent

(* What is told of the results follows them one by one. *)
LEMMA ReportedNext ==
  ASSUME results \in Seq(Result), NEW r \in Result, results' = Append(results, r)
  PROVE  Reported' = Append(Reported, Told(r)) /\ Len(Reported) = Len(results)
<1>1. /\ Len(results) \in Nat /\ Len(results') = Len(results) + 1
      /\ results'[Len(results) + 1] = r
      /\ \A n \in 1 .. Len(results) : results'[n] = results[n]
  BY AppendProperties, LenProperties
<1>2. PICK l : l = Len(results)
  OBVIOUS
<1>3. Reported = [n \in 1 .. l |-> Told(results[n])] /\ l \in Nat
  BY <1>1, <1>2 DEF Reported
<1>4. Reported' = [n \in 1 .. l + 1 |-> Told(results'[n])]
  BY <1>1, <1>2 DEF Reported, Told
<1>5. Reported \in Seq({"sent", "refused", "doubt"}) /\ Len(Reported) = l
  BY <1>3 DEF Told
<1>6. /\ Len(Append(Reported, Told(r))) = l + 1
      /\ \A n \in 1 .. l : Append(Reported, Told(r))[n] = Reported[n]
      /\ Append(Reported, Told(r))[l + 1] = Told(r)
      /\ Append(Reported, Told(r)) \in Seq({"sent", "refused", "doubt"})
  BY <1>5, AppendProperties DEF Told
<1>7. Reported' \in Seq({"sent", "refused", "doubt"}) /\ Len(Reported') = l + 1
  BY <1>3, <1>4 DEF Told
<1>8. ASSUME NEW n \in 1 .. l + 1 PROVE Reported'[n] = Append(Reported, Told(r))[n]
  <2>1. CASE n \in 1 .. l
    BY <1>1, <1>2, <1>3, <1>4, <1>6, <2>1
  <2>2. CASE n = l + 1
    BY <1>1, <1>2, <1>4, <1>6, <2>2
  <2> QED
    BY <1>3, <2>1, <2>2
<1>9. Reported' = Append(Reported, Told(r))
  BY <1>6, <1>7, <1>8, SeqEqual
<1> QED
  BY <1>2, <1>5, <1>9

(* What OnlyWholeMailsOnce says behind a step that adds no message. *)
LEMMA WholeThen ==
  ASSUME OnlyWholeMailsOnce', ~resumed', mails' = mails, NEW l \in 1 .. Len(accepted')
  PROVE  \E n \in 1 .. Len(mails) : Whole(accepted'[l], n)
<1>1. \E n \in 1 .. Len(mails') : Whole(accepted[l], n)'
  BY DEF OnlyWholeMailsOnce
<1>2. PICK n \in 1 .. Len(mails) : Whole(accepted[l], n)'
  BY <1>1
<1>3. Whole(accepted'[l], n)
  BY <1>2 DEF Whole
<1> QED
  BY <1>3

(* The relay accepts a message: Deliver. *)
LEMMA RelayKeepsPromise ==
  ASSUME TypeOK, TypeOK', SessionAssumption, RelayAssumption, ~resumed, ~resumed',
         OnlyWholeMailsOnce', OneDot', SuccessMeansAccepted,
         NEW d \in Conns, RelayOn(d), UNCHANGED <<mails, results>>
  PROVE  \/ UNCHANGED <<Len(mails), Delivered, Reported>>
         \/ \E n \in 1 .. Len(mails) :
              /\ n \notin Delivered /\ Delivered' = Delivered \cup {n}
              /\ n > Len(results) \/ Reported[n] = "doubt"
              /\ UNCHANGED <<Len(mails), Reported>>
<1>1. RelayTypeOK /\ Len(mails) \in Nat /\ Len(results) \in Nat
  BY LenProperties DEF TypeOK, ClientTypeOK
<1>2. UNCHANGED <<Len(mails), Reported>>
  BY DEF Reported, Told
<1>3. ASSUME NEW n, NEW a PROVE Whole(a, n)' <=> Whole(a, n)
  BY DEF Whole
<1>4. ASSUME NEW n PROVE Accepted(n)' <=> \E j \in 1 .. Len(accepted') : Whole(accepted'[j], n)
  BY DEF Accepted, Whole
<1>5. CASE accepted' = accepted
  <2>1. ASSUME NEW n PROVE Accepted(n)' <=> Accepted(n)
    <3>1. (\E j \in 1 .. Len(accepted') : Whole(accepted'[j], n)) <=> Accepted(n)
      BY <1>5 DEF Accepted
    <3> QED
      BY <1>4, <3>1
  <2> QED
    BY <1>2, <2>1 DEF Delivered
<1>6. CASE accepted' # accepted
  <2> DEFINE M == [rcpts: Seq(Message), body: Seq(Message)]
  <2>1. PICK l, b : /\ l = Len(accepted) + 1 /\ b = accepted'[l] /\ Len(accepted) \in Nat /\ Len(accepted') = l
                    /\ \A j \in 1 .. Len(accepted) : accepted'[j] = accepted[j]
    <3>1. accepted' = Append(accepted, [rcpts |-> rcpts[d], body |-> body[d]])
      BY <1>1, <1>6, RelayAdds
    <3>2. accepted \in Seq(M) /\ [rcpts |-> rcpts[d], body |-> body[d]] \in M
      BY <1>1 DEF RelayTypeOK
    <3> HIDE DEF M
    <3>3. /\ Len(accepted) \in Nat /\ Len(accepted') = Len(accepted) + 1
          /\ \A j \in 1 .. Len(accepted) : accepted'[j] = accepted[j]
      BY <3>1, <3>2, AppendProperties, LenProperties
    <3> QED
      BY <3>3
  <2>2. /\ l \in 1 .. Len(accepted') /\ l \notin 1 .. Len(accepted)
        /\ \A j \in 1 .. Len(accepted') : j = l \/ j \in 1 .. Len(accepted)
        /\ \A j \in 1 .. Len(accepted) : j \in 1 .. Len(accepted')
    BY <2>1
  <2>3. PICK n \in 1 .. Len(mails) : Whole(b, n)
    <3>1. \E n \in 1 .. Len(mails) : Whole(accepted'[l], n)
      BY <2>2, WholeThen
    <3> QED
      BY <2>1, <3>1
  <2>4. b.body[1].n = n
    BY <2>3, WholeNumber
  <2>5. \A j \in 1 .. Len(accepted) : accepted[j].body[1].n # n
    <3>1. \A j \in 1 .. Len(accepted') : j # l => accepted'[j].body[1].n # accepted'[l].body[1].n
      BY <2>2 DEF OnlyWholeMailsOnce
    <3> QED
      BY <2>1, <2>2, <2>4, <3>1
  <2>6. n \notin Delivered
    <3>1. ASSUME NEW j \in 1 .. Len(accepted), Whole(accepted[j], n) PROVE FALSE
      BY <2>5, <3>1, WholeNumber
    <3> QED
      BY <3>1 DEF Delivered, Accepted
  <2>7. ASSUME NEW k \in 1 .. Len(mails) PROVE Accepted(k)' <=> Accepted(k) \/ k = n
    <3>1. Whole(b, k) <=> k = n
      BY <2>3, <2>4, WholeNumber
    <3>2. Accepted(k)' <=> \E j \in 1 .. Len(accepted') : Whole(accepted'[j], k)
      BY <1>4
    <3>3. (\E j \in 1 .. Len(accepted') : Whole(accepted'[j], k))
          <=> Whole(b, k) \/ \E j \in 1 .. Len(accepted) : Whole(accepted[j], k)
      BY <2>1, <2>2
    <3> QED
      BY <3>1, <3>2, <3>3 DEF Accepted
  <2>8. Delivered' = Delivered \cup {n}
    BY <2>7 DEF Delivered
  <2>9. n > Len(results) \/ Reported[n] = "doubt"
    <3>1. SUFFICES ASSUME n \in 1 .. Len(results) PROVE Reported[n] = "doubt"
      BY <1>1
    <3>2. DotSent(n)'
      BY <2>1, <2>2, <2>4 DEF DotSent
    <3>3. results[n].ok \/ results[n].at = "DATAEND"
      BY <3>1, <3>2 DEF OneDot
    <3>4. ~results[n].ok
      BY <2>6, <3>1 DEF SuccessMeansAccepted, Delivered
    <3> QED
      BY <3>1, <3>3, <3>4 DEF Reported, Told
  <2> QED
    BY <1>2, <2>6, <2>8, <2>9
<1> QED
  BY <1>5, <1>6

(* The client submits a message or reports on one. *)
LEMMA ClientKeepsPromise ==
  ASSUME DeliveryInv, DeliveryInv', SessionAssumption, ~resumed, ~resumed', ClientStep
  PROVE  \/ UNCHANGED <<Len(mails), Delivered, Reported>>
         \/ /\ Len(Reported) = Len(mails) /\ Len(mails) < MaxSends
            /\ Len(mails') = Len(mails) + 1 /\ UNCHANGED <<Delivered, Reported>>
         \/ \E r \in {"sent", "refused", "doubt"} :
              /\ Len(Reported) < Len(mails)
              /\ r = "sent" => Len(mails) \in Delivered
              /\ r = "refused" => Len(mails) \notin Delivered
              /\ Reported' = Append(Reported, r)
              /\ UNCHANGED <<Len(mails), Delivered>>
<1>1. /\ TypeOK /\ SocketOK /\ Counted /\ OnlyWholeMailsOnce /\ TypeOK'
      /\ mails \in Seq(Mails) /\ results \in Seq(Result) /\ Len(mails) \in Nat /\ Len(results) \in Nat
  BY LenProperties DEF DeliveryInv, TypeOK, ClientTypeOK
<1>2. accepted' = accepted
  BY ClientLeaves
<1>3. ASSUME NEW n \in 1 .. Len(mails) PROVE Accepted(n)' <=> Accepted(n)
  <2>1. mails'[n] = mails[n]
    BY <1>1, MailsStay
  <2>2. ASSUME NEW j PROVE Whole(accepted[j], n)' <=> Whole(accepted[j], n)
    BY <1>2, <2>1 DEF Whole
  <2> QED
    BY <1>2, <2>2 DEF Accepted
<1>4. Len(Reported) = Len(results)
  <2>1. Reported \in Seq({"sent", "refused", "doubt"})
    BY <1>1 DEF Reported, Told
  <2> QED
    BY <1>1 DEF Reported
<1>5. CASE CallSendMail
  <2>1. /\ pc = "user" /\ Len(mails) < MaxSends /\ results' = results
        /\ \E m \in Mails : mails' = Append(mails, m)
    BY <1>5 DEF CallSendMail
  <2>2. PICK l : l = Len(mails) + 1
    OBVIOUS
  <2>3. Len(mails') = l /\ l \in 1 .. Len(mails') /\ \A n \in 1 .. l : n = l \/ n \in 1 .. Len(mails)
    BY <1>1, <2>1, <2>2, AppendProperties
  <2>4. ~Accepted(l)'
    <3>1. ASSUME NEW j \in 1 .. Len(accepted), Whole(accepted[j], l)' PROVE FALSE
      <4>1. accepted'[j] = accepted[j] /\ j \in 1 .. Len(accepted')
        BY <1>2
      <4>2. PICK n \in 1 .. Len(mails) : Whole(accepted[j], n)
        BY <1>1 DEF OnlyWholeMailsOnce
      <4>3. accepted[j].body[1].n = n
        BY <1>1, <4>2, WholeNumber
      <4>4. Len(Blocks(mails'[l])) \in Nat /\ Len(Blocks(mails'[l])) >= 1
        <5>1. mails'[l] \in Mail
          BY <1>1, <2>3, ElementOfSeq DEF TypeOK, ClientTypeOK, SessionAssumption
        <5> QED
          BY <5>1, BlocksLen
      <4>5. accepted[j].body[1].n = l
        <5>1. 1 \in 1 .. Len(accepted[j].body)
          BY <1>2, <3>1, <4>4 DEF Whole
        <5> QED
          BY <1>2, <3>1, <5>1 DEF Whole
      <4> QED
        BY <1>1, <2>2, <4>3, <4>5
    <3> QED
      BY <1>2, <3>1 DEF Accepted
  <2>5. Delivered' = Delivered
    <3>1. \A n \in 1 .. Len(mails) : n \in 1 .. Len(mails')
      BY <1>1, <1>5, MailsStay
    <3>2. ASSUME NEW n PROVE n \in 1 .. Len(mails') /\ Accepted(n)' <=> n \in 1 .. Len(mails) /\ Accepted(n)
      BY <1>3, <2>3, <2>4, <3>1
    <3> QED
      BY <3>2 DEF Delivered
  <2>6. Len(mails) = Len(results)
    <3>1. pc \notin Final /\ ~Unreported
      BY <2>1 DEF Unreported, Final
    <3>2. pc \notin Final => Len(mails) = IF Unreported THEN Len(results) + 1 ELSE Len(results)
      BY <1>1 DEF Counted
    <3> QED
      BY <3>1, <3>2
  <2>7. Reported' = Reported
    BY <2>1 DEF Reported, Told
  <2> QED
    BY <1>4, <2>1, <2>2, <2>3, <2>5, <2>6, <2>7
<1>6. CASE ~CallSendMail
  <2>1. mails' = mails
    BY <1>1, <1>6, MailsStay
  <2>2. Delivered' = Delivered
    BY <1>3, <2>1 DEF Delivered
  <2>3. CASE results' = results
    <3>1. Reported' = Reported
      BY <2>3 DEF Reported, Told
    <3> QED
      BY <2>1, <2>2, <3>1
  <2>4. CASE results' # results
    <3>1. Unreported /\ \E r \in Result : results' = Append(results, r)
      BY <1>1, <2>4, Reports
    <3>2. PICK r \in Result : results' = Append(results, r)
      BY <3>1
    <3>3. PICK l : l = Len(results) + 1
      OBVIOUS
    <3>4. Len(mails) = l /\ l \in 1 .. Len(mails)
      BY <1>1, <3>1, <3>3, MailInHand
    <3>5. Len(results') = l /\ results'[l] = r /\ l \in 1 .. Len(results')
      BY <1>1, <3>2, <3>3, AppendProperties
    <3>6. r.ok => l \in Delivered
      <4>1. r.ok => Accepted(l)'
        BY <3>5 DEF DeliveryInv, SuccessMeansAccepted
      <4> QED
        BY <1>3, <3>4, <4>1 DEF Delivered
    <3>7. ~r.ok /\ r.at # "DATAEND" => l \notin Delivered
      <4>1. SUFFICES ASSUME ~r.ok, r.at # "DATAEND", Accepted(l) PROVE FALSE
        BY DEF Delivered
      <4>2. DotSent(l)'
        <5>1. DotSent(l)
          BY <1>1, <3>4, <4>1, AcceptedHasDot
        <5>2. PICK j \in 1 .. Len(accepted) : Whole(accepted[j], l)
          BY <4>1 DEF Accepted
        <5>3. accepted[j].body[1].n = l
          BY <1>1, <3>4, <5>2, WholeNumber
        <5> QED
          BY <1>2, <5>3 DEF DotSent
      <4> QED
        BY <3>5, <4>1, <4>2 DEF DeliveryInv, OneDot
    <3>8. Reported' = Append(Reported, Told(r))
      BY <1>1, <3>2, ReportedNext
    <3>9. Told(r) \in {"sent", "refused", "doubt"}
          /\ (Told(r) = "sent" => r.ok) /\ (Told(r) = "refused" => ~r.ok /\ r.at # "DATAEND")
      BY DEF Told
    <3>10. Len(Reported) < Len(mails)
      BY <1>1, <1>4, <3>3, <3>4
    <3> QED
      BY <2>1, <2>2, <3>4, <3>6, <3>7, <3>8, <3>9, <3>10
  <2> QED
    BY <2>3, <2>4
<1> QED
  BY <1>5, <1>6

(* A step of the object and its relay is a step of MailDelivery or none. *)
LEMMA PromiseStep ==
  ASSUME DeliveryInv, DeliveryInv', ~resumed, ~resumed', [Next]_vars
  PROVE  [Delivery!Next]_<<Len(mails), Delivered, Reported>>
<1>0. Reported = [n \in 1 .. Len(results) |->
                  IF results[n].ok THEN "sent"
                  ELSE IF results[n].at = "DATAEND" THEN "doubt" ELSE "refused"]
      /\ Delivered = {n \in 1 .. Len(mails) : Accepted(n)}
  BY DEF Reported, Told, Delivered
<1>0a. Len(Reported) = Len(results)
  <2>1. Len(results) \in Nat
    BY LenProperties DEF DeliveryInv, TypeOK, ClientTypeOK
  <2>2. Reported \in Seq({"sent", "refused", "doubt"})
    BY <2>1 DEF Reported, Told
  <2> QED
    BY <2>1 DEF Reported
<1>1. CASE ClientStep
  <2>1. \/ UNCHANGED <<Len(mails), Delivered, Reported>>
        \/ /\ Len(Reported) = Len(mails) /\ Len(mails) < MaxSends
           /\ Len(mails') = Len(mails) + 1 /\ UNCHANGED <<Delivered, Reported>>
        \/ \E r \in {"sent", "refused", "doubt"} :
             /\ Len(Reported) < Len(mails)
             /\ r = "sent" => Len(mails) \in Delivered
             /\ r = "refused" => Len(mails) \notin Delivered
             /\ Reported' = Append(Reported, r)
             /\ UNCHANGED <<Len(mails), Delivered>>
    BY <1>1, ClientKeepsPromise, SessionAssumption
  <2>2. UNCHANGED <<Len(mails), Delivered, Reported>> \/ Delivery!Submit
        \/ \E r \in Delivery!Reports : Delivery!Report(r)
    BY <2>1 DEF Delivery!Submit, Delivery!Report, Delivery!Reports, Reported, Told, Delivered
  <2> QED
    BY <2>2 DEF Delivery!Next
<1>2. CASE Relay
  <2>1. PICK d \in Conns : RelayOn(d)
    BY <1>2 DEF Relay, RelayStep, RelayOn
  <2>2. UNCHANGED <<mails, results>>
    BY <1>2 DEF Relay, history
  <2>3. TypeOK /\ TypeOK' /\ OnlyWholeMailsOnce' /\ OneDot' /\ SuccessMeansAccepted
    BY DEF DeliveryInv
  <2>4. \/ UNCHANGED <<Len(mails), Delivered, Reported>>
        \/ \E n \in 1 .. Len(mails) :
             /\ n \notin Delivered /\ Delivered' = Delivered \cup {n}
             /\ n > Len(results) \/ Reported[n] = "doubt"
             /\ UNCHANGED <<Len(mails), Reported>>
    BY <2>1, <2>2, <2>3, RelayKeepsPromise, RelayAssumption, SessionAssumption
  <2>5. UNCHANGED <<Len(mails), Delivered, Reported>>
        \/ \E n \in 1 .. Len(mails) : Delivery!Deliver(n)
    BY <1>0a, <2>4 DEF Delivery!Deliver, Reported, Told, Delivered
  <2> QED
    BY <2>5 DEF Delivery!Next
<1>3. CASE UNCHANGED vars
  <2>1. UNCHANGED <<mails, results, accepted>>
    BY <1>3 DEF vars, relayVars, history
  <2>2. \A n : Accepted(n)' <=> Accepted(n)
    <3>1. ASSUME NEW n, NEW j PROVE Whole(accepted[j], n)' <=> Whole(accepted[j], n)
      BY <2>1 DEF Whole
    <3> QED
      BY <2>1, <3>1 DEF Accepted
  <2> QED
    BY <2>1, <2>2 DEF Delivered, Reported, Told
<1> QED
  BY <1>1, <1>2, <1>3 DEF Next, Gone

(* Every behaviour of the object and its relay is one of MailDelivery: a   *)
(* message is delivered at most once, it is delivered when it is reported  *)
(* sent, and never when it is reported refused.  The owner neither tries   *)
(* again on an object whose call threw nor meets NoEarlyReturn's exception.*)
THEOREM KeepsPromise ==
  ASSUME NoDots, NoEarlyReturn, "retry" \notin UserCalls
  PROVE  Spec => DeliveryPromise
<1>1. Init => Delivery!Init
  <2> SUFFICES ASSUME Init PROVE Delivery!Init
    OBVIOUS
  <2>1. mails = <<>> /\ results = <<>>
    BY DEF Init
  <2> QED
    BY <2>1 DEF Delivery!Init
<1>2. DeliveryInv /\ DeliveryInv' /\ ~resumed /\ ~resumed' /\ [Next]_vars
      => [Delivery!Next]_<<Len(mails), Delivered, Reported>>
  BY PromiseStep
<1>3. Spec => []DeliveryInv
  BY StaysInStep
<1>4. Spec => []~resumed
  BY NeverResumed
<1> QED
  BY <1>1, <1>2, <1>3, <1>4, PTL DEF Spec, DeliveryPromise, Delivery!Spec, Delivered, Reported, Told
===============================================================================
