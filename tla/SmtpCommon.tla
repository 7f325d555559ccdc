------------------------------ MODULE SmtpCommon ------------------------------
(***************************************************************************)
(* The constant part of the SMTP client: the command table of              *)
(* core/smtp/smtp_common.cpp, the program points of SmtpServer that use    *)
(* its rows, and what one call of send_mail sends for a given message.     *)
(***************************************************************************)
EXTENDS Naturals, Sequences

(* SMTP_SECURITY_TYPE, without DO_NOT_SET (which leaves the type alone). *)
SecurityTypes == {"NO_SECURITY", "USE_TLS", "USE_SSL"}

(* command_list: the reply code each row of the table takes for success. *)
valid_reply_code ==
  [ INIT         |-> 220, EHLO          |-> 250, AUTHPLAIN |-> 235,
    AUTHLOGIN    |-> 334, AUTHCRAMMD5   |-> 334, AUTHDIGESTMD5 |-> 334,
    DIGESTMD5    |-> 335, USER          |-> 334, PASSWORD  |-> 235,
    MAILFROM     |-> 250, RCPTTO        |-> 250, DATA      |-> 354,
    DATABLOCK    |-> 0,   DATAEND       |-> 250, QUIT      |-> 221,
    STARTTLS     |-> 220 ]

(* Program points of SmtpServer that send a command or wait for a reply.  *)
(* EHLO_TLS is the second say_hello, CRAMRESPONSE and DIGEST are the two  *)
(* halves of the challenge mechanisms that name another row of the table, *)
(* AUTH is the branch that finds no mechanism it knows.                   *)
ConnectSteps == {"INIT", "EHLO", "STARTTLS", "EHLO_TLS", "AUTH", "AUTHLOGIN", "USER",
                 "PASSWORD", "AUTHPLAIN", "AUTHCRAMMD5", "CRAMRESPONSE", "DIGEST"}
MailSteps    == {"MAILFROM", "RCPTTO", "DATA", "DATABLOCK", "DATAEND"}
Steps        == ConnectSteps \cup MailSteps \cup {"QUIT"}

(* Mutation: QUIT is checked against the row of EHLO. *)
find_command_entry_Quit250(s) ==
  CASE s \in {"EHLO_TLS", "QUIT"} -> "EHLO"
    [] s = "CRAMRESPONSE"         -> "PASSWORD"
    [] s = "DIGEST"               -> "DIGESTMD5"
    [] s = "AUTH"                 -> "AUTHPLAIN"
    [] OTHER                      -> s

(* find_command_entry: the row whose reply code decides at a program point. *)
find_command_entry(s) ==
  CASE s = "EHLO_TLS"     -> "EHLO"
    [] s = "CRAMRESPONSE" -> "PASSWORD"
    [] s = "DIGEST"       -> "DIGESTMD5"
    [] s = "AUTH"         -> "AUTHPLAIN"
    [] OTHER              -> s

(* The mechanism connect_remote_server picks from the keywords of EHLO. *)
AuthSteps == {"AUTHLOGIN", "AUTHPLAIN", "AUTHCRAMMD5", "DIGEST", "AUTH"}
AuthStep(kw) ==
  CASE "LOGIN" \in kw      -> "AUTHLOGIN"
    [] "PLAIN" \in kw      -> "AUTHPLAIN"
    [] "CRAM-MD5" \in kw   -> "AUTHCRAMMD5"
    [] "DIGEST-MD5" \in kw -> "DIGEST"
    [] OTHER               -> "AUTH"

(***************************************************************************)
(* A message: whether a sender is set, how many To, Cc and Bcc recipients, *)
(* what add_message_line was called with, and how many attachments.  A     *)
(* "dot" is a single dot, "dotted" begins with a dot and goes on, "long"   *)
(* does not fit into BUFFER_SIZE with its line end, "text" is any other.   *)
(***************************************************************************)
LineKinds == {"text", "dot", "dotted", "long"}
Mail == [from: BOOLEAN, to: Nat, cc: Nat, bcc: Nat, lines: Seq(LineKinds), files: Nat]

Recipients(m) == m.to + m.cc + m.bcc

(* What send_mail passes to send_data between DATA and the final dot. *)
Blocks(m) ==
  <<"header">>
  \o (IF m.lines = <<>> THEN <<"blank">> ELSE m.lines)
  \o [k \in 1 .. 2 * m.files |-> IF k % 2 = 1 THEN "part" ELSE "content"]
  \o (IF m.files > 0 THEN <<"boundary">> ELSE <<>>)
===============================================================================
