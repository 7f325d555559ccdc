------------------------------- MODULE MailRelay -------------------------------
(***************************************************************************)
(* The relay SmtpServer talks to, and the TCP connections between them.    *)
(* The relay is not part of the repository: what is modelled is a relay    *)
(* that follows the protocol the client expects.  It reads one command at  *)
(* a time, answers it or refuses it as it likes, and may close a           *)
(* connection at any moment, with or without a 421.                        *)
(***************************************************************************)
EXTENDS SmtpCommon

CONSTANTS
  MaxConns,     \* how many connections the client may open
  RejectCodes,  \* the replies the relay may refuse a command with
  Confs         \* client settings and relay features to start from

Conns == 1 .. MaxConns

Keywords == {"STARTTLS", "AUTH", "LOGIN", "PLAIN", "CRAM-MD5", "DIGEST-MD5"}

(* endless: the relay may go on for ever with a reply or with a handshake  *)
(* it has asked for, without finishing it.                                 *)
Conf == [security: SecurityTypes, authenticate: BOOLEAN, login: BOOLEAN,
         password: BOOLEAN, keywords: SUBSET Keywords, implicit: BOOLEAN, endless: BOOLEAN]

(* "Not understood", "authentication required" and any other refusal. *)
Refusals == {500, 530, 550}

ASSUME RelayAssumption ==
  /\ MaxConns \in Nat \ {0}
  /\ RejectCodes \subseteq Refusals
  /\ Confs \subseteq Conf

VARIABLES
  conf,      \* the settings of this behaviour
  phase,     \* per connection, where the relay's session stands
  tls,       \* per connection, whether TLS is in use
  from,      \* the connections on which the relay has taken a sender
  rcpts,     \* per connection, the recipients it has taken
  body,      \* per connection, the lines it has read since DATA
  c2s,       \* per connection, what the client sent and the relay has not read
  s2c,       \* per connection, the replies the client has not read
  accepted   \* the messages the relay has accepted for delivery

transaction == <<from, rcpts, body>>
relayVars   == <<conf, phase, tls, transaction, c2s, s2c, accepted>>

(* A command or block: its verb, the send_mail call it belongs to, its    *)
(* index among its kind, and the TLS session it went through (0: clear).  *)
Verbs   == Steps \cup {"DOT"}
Message == [verb: Verbs, n: Nat, i: Nat, via: 0 .. MaxConns]

(* A reply: its code, the keywords it lists, the command it answers, and  *)
(* its TLS session.  NoReply is the empty m_receive_buffer.               *)
ReplyCodes == {0, 220, 221, 235, 250, 334, 354, 421, 500, 530, 550}
Reply      == [code: ReplyCodes, kw: SUBSET Keywords, for: Steps \cup {"NONE"}, via: 0 .. MaxConns]
NoReply    == [code |-> 0, kw |-> {}, for |-> "NONE", via |-> 0]

(* Phases of a session: "sslwait" and "starttls" wait for the client's    *)
(* TLS handshake, "new" has not greeted, "cmd" reads commands, "data"     *)
(* reads the body of a message.                                           *)
Phases == {"none", "sslwait", "new", "cmd", "starttls", "data", "closed"}

RelayInit ==
  /\ conf \in Confs
  /\ phase = [c \in Conns |-> "none"]
  /\ tls = [c \in Conns |-> FALSE]
  /\ from = {}
  /\ rcpts = [c \in Conns |-> <<>>]
  /\ body = [c \in Conns |-> <<>>]
  /\ c2s = [c \in Conns |-> <<>>]
  /\ s2c = [c \in Conns |-> <<>>]
  /\ accepted = <<>>

(* The TLS session in use on connection c, 0 while it is in the clear. *)
Channel(c) == IF tls[c] THEN c ELSE 0

Answer(c, code, kw, s) ==
  s2c' = [s2c EXCEPT ![c] = Append(@, [code |-> code, kw |-> kw, for |-> s, via |-> Channel(c)])]

(* What the relay answers when it accepts a command. *)
PositiveCode(verb) ==
  CASE verb \in {"EHLO", "EHLO_TLS", "MAILFROM", "RCPTTO"}      -> 250
    [] verb = "STARTTLS"                                        -> 220
    [] verb \in {"AUTHLOGIN", "USER", "AUTHCRAMMD5", "DIGEST"}  -> 334
    [] verb \in {"PASSWORD", "AUTHPLAIN", "CRAMRESPONSE"}       -> 235
    [] verb = "DATA"                                            -> 354
    [] verb = "QUIT"                                            -> 221
    [] OTHER                                                    -> 0

(* Where a session stands after an accepted command. *)
PhaseAfter(verb) ==
  CASE verb = "STARTTLS" -> "starttls"
    [] verb = "DATA"     -> "data"
    [] verb = "QUIT"     -> "closed"
    [] OTHER             -> "cmd"

(* Commands the relay may accept on c: the others are refused. *)
InSequence(c, m) ==
  /\ PositiveCode(m.verb) # 0
  /\ m.verb = "STARTTLS" => "STARTTLS" \in conf.keywords /\ ~tls[c]
  /\ m.verb = "MAILFROM" => c \notin from
  /\ m.verb = "RCPTTO"   => c \in from
  /\ m.verb = "DATA"     => rcpts[c] # <<>>

-----------------------------------------------------------------------------
(* The relay greets, or refuses the connection with its greeting. *)
Greet(c) ==
  /\ phase[c] = "new"
  /\ \/ phase' = [phase EXCEPT ![c] = "cmd"] /\ Answer(c, 220, {}, "INIT")
     \/ phase' = [phase EXCEPT ![c] = "closed"] /\ Answer(c, 421, {}, "INIT")
  /\ UNCHANGED <<conf, tls, transaction, c2s, accepted>>

(* The next thing the relay reads on c, if it can make sense of it. *)
Reads(c, ph) ==
  /\ phase[c] = ph
  /\ c2s[c] # <<>>
  /\ Head(c2s[c]).via = Channel(c)
  /\ c2s' = [c2s EXCEPT ![c] = Tail(@)]

AcceptCommand(c) ==
  LET m == Head(c2s[c]) IN
  /\ Reads(c, "cmd")
  /\ InSequence(c, m)
  /\ phase' = [phase EXCEPT ![c] = PhaseAfter(m.verb)]
  /\ from' = IF m.verb = "MAILFROM" THEN from \cup {c}
             ELSE IF m.verb \in {"EHLO", "EHLO_TLS"} THEN from \ {c} ELSE from
  /\ rcpts' = [rcpts EXCEPT ![c] = IF m.verb = "RCPTTO" THEN Append(@, m)
                                   ELSE IF m.verb \in {"EHLO", "EHLO_TLS"} THEN <<>> ELSE @]
  /\ Answer(c, PositiveCode(m.verb),
            IF m.verb = "EHLO" THEN conf.keywords
            ELSE IF m.verb = "EHLO_TLS" THEN conf.keywords \ {"STARTTLS"} ELSE {},
            m.verb)
  /\ UNCHANGED <<conf, tls, body, accepted>>

(* A refusal leaves the session as it was. *)
RefuseCommand(c) ==
  LET m == Head(c2s[c]) IN
  /\ Reads(c, "cmd")
  /\ \E code \in IF InSequence(c, m) THEN RejectCodes ELSE {500} :
       Answer(c, code, {}, IF m.verb = "DOT" THEN "DATABLOCK" ELSE m.verb)
  /\ UNCHANGED <<conf, phase, tls, transaction, accepted>>

(* After DATA every line is body, whatever it says, ...                   *)
ReadLine(c) ==
  /\ Reads(c, "data")
  /\ Head(c2s[c]).verb \notin {"DATAEND", "DOT"}
  /\ body' = [body EXCEPT ![c] = Append(@, Head(c2s[c]))]
  /\ UNCHANGED <<conf, phase, tls, from, rcpts, s2c, accepted>>

(* ... up to a line that is a single dot: the relay then accepts the      *)
(* message, or refuses it, and forgets the transaction.                   *)
ReadDot(c) ==
  LET verb == Head(c2s[c]).verb IN
  /\ Reads(c, "data")
  /\ verb \in {"DATAEND", "DOT"}
  /\ phase' = [phase EXCEPT ![c] = "cmd"]
  /\ from' = from \ {c}
  /\ rcpts' = [rcpts EXCEPT ![c] = <<>>]
  /\ body' = [body EXCEPT ![c] = <<>>]
  /\ \E code \in RejectCodes \cup {250} :
       /\ accepted' = IF code = 250 THEN Append(accepted, [rcpts |-> rcpts[c], body |-> body[c]])
                                    ELSE accepted
       /\ Answer(c, code, {}, IF verb = "DOT" THEN "DATABLOCK" ELSE "DATAEND")
  /\ UNCHANGED <<conf, tls>>

(* Bytes of another channel (clear text where TLS is expected, or the     *)
(* reverse), or anything while a handshake is awaited: the relay closes.  *)
ReadGarbage(c) ==
  /\ phase[c] \notin {"none", "closed"}
  /\ c2s[c] # <<>>
  /\ phase[c] \in {"sslwait", "starttls"} \/ Head(c2s[c]).via # Channel(c)
  /\ phase' = [phase EXCEPT ![c] = "closed"]
  /\ UNCHANGED <<conf, tls, transaction, c2s, s2c, accepted>>

(* The connection is lost, or the relay gives up with or without a 421.   *)
Hangup(c) ==
  /\ phase[c] \notin {"none", "closed"}
  /\ phase' = [phase EXCEPT ![c] = "closed"]
  /\ \/ UNCHANGED s2c
     \/ phase[c] \in {"cmd", "data"} /\ Answer(c, 421, {}, "NONE")
  /\ UNCHANGED <<conf, tls, transaction, c2s, accepted>>

RelayStep ==
  \E c \in Conns :
    \/ Greet(c) \/ AcceptCommand(c) \/ RefuseCommand(c)
    \/ ReadLine(c) \/ ReadDot(c) \/ ReadGarbage(c) \/ Hangup(c)

-----------------------------------------------------------------------------
RelayTypeOK ==
  /\ conf \in Confs
  /\ phase \in [Conns -> Phases]
  /\ tls \in [Conns -> BOOLEAN]
  /\ from \subseteq Conns
  /\ rcpts \in [Conns -> Seq(Message)]
  /\ body \in [Conns -> Seq(Message)]
  /\ c2s \in [Conns -> Seq(Message)]
  /\ s2c \in [Conns -> Seq(Reply)]
  /\ accepted \in Seq([rcpts: Seq(Message), body: Seq(Message)])
===============================================================================
