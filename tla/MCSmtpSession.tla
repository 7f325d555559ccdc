----------------------------- MODULE MCSmtpSession -----------------------------
(***************************************************************************)
(* Instances of SmtpSession for TLC: the settings and the messages of the  *)
(* runs.                                                                   *)
(***************************************************************************)
EXTENDS SessionText

Settings(security, implicit, keywords) ==
  [security |-> security, authenticate |-> TRUE, login |-> TRUE, password |-> TRUE,
   keywords |-> keywords, implicit |-> implicit, endless |-> FALSE]

(* main.cpp: USE_TLS, against relays with every mechanism and without TLS. *)
(* One of them need not come to an end with what it says.                  *)
MainConfs ==
  {[Settings("USE_TLS", FALSE, {"STARTTLS", "AUTH", k}) EXCEPT !.endless = (k = "PLAIN")] :
      k \in {"LOGIN", "PLAIN", "CRAM-MD5", "DIGEST-MD5"}}
  \cup {Settings("USE_TLS", FALSE, {"STARTTLS"}),
        Settings("USE_TLS", FALSE, {"STARTTLS", "AUTH"}),
        Settings("USE_TLS", FALSE, {"AUTH", "PLAIN"}),
        [Settings("USE_TLS", FALSE, {"STARTTLS", "AUTH", "LOGIN"}) EXCEPT !.password = FALSE]}

(* Every security type the object knows, with and without a relay that    *)
(* expects TLS from the first byte.                                        *)
ReuseConfs ==
  {Settings("USE_TLS", i, {"STARTTLS", "AUTH", "PLAIN"}) : i \in BOOLEAN}
  \cup {Settings(s, i, {"STARTTLS"}) : s \in SecurityTypes \ {"USE_TLS"}, i \in BOOLEAN}

(* One message per shape: plain, with carbon copies, with attachments,     *)
(* without text, without sender, without a To recipient, with lines that   *)
(* do not arrive as they are.                                              *)
Plain    == [from |-> TRUE, to |-> 1, cc |-> 0, bcc |-> 0, lines |-> <<"text">>, files |-> 0]
Copies   == [Plain EXCEPT !.cc = 1, !.bcc = 1]
Attached == [Plain EXCEPT !.files = 2]
NoText   == [Plain EXCEPT !.lines = <<>>, !.files = 1]
NoSender == [Plain EXCEPT !.from = FALSE]
NoTo     == [Plain EXCEPT !.to = 0, !.cc = 1]
Cut      == [Plain EXCEPT !.lines = <<"dotted", "long", "dot">>, !.files = 1]
Dotted   == [Plain EXCEPT !.lines = <<"dot", "text">>]

(* A relay that wants no authentication, for the runs that show a finding. *)
OpenConfs ==
  {Settings(s, s = "USE_SSL", {"STARTTLS"}) : s \in SecurityTypes}

MainMails   == {Plain}
ShapedMails == {Plain, Copies, Attached, NoText, NoSender, NoTo, Cut}
DottedMails == {Dotted}

(* What main.cpp sets (everything but the receipt, which is asked for by   *)
(* default), and an owner that sets nothing but m_bHTML.                   *)
MainForm == [name |-> TRUE, xmailer |-> TRUE, reply_to |-> TRUE, subject |-> TRUE,
             receipt |-> TRUE, priority |-> "high", html |-> FALSE]
BareForm == [name |-> FALSE, xmailer |-> FALSE, reply_to |-> FALSE, subject |-> FALSE,
             receipt |-> FALSE, priority |-> "other", html |-> TRUE]
AllForms == {MainForm, BareForm}
===============================================================================
