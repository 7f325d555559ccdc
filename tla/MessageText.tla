------------------------------- MODULE MessageText -------------------------------
(***************************************************************************)
(* The text of a message: format_header and the other blocks of send_mail  *)
(* (core/smtp/smtp_server.cpp) line by line, and how a mail program reads  *)
(* it.  A line is a sequence of what is told apart in it; a field has its  *)
(* name and its value.                                                     *)
(***************************************************************************)
EXTENDS SmtpCommon, Positions, SequencesExt

CONSTANT Forms   \* which texts a message has, whether it asks for a receipt,
                 \* its priority, and m_bHTML (public, set by nobody)

Form == [name: BOOLEAN, xmailer: BOOLEAN, reply_to: BOOLEAN, subject: BOOLEAN,
         receipt: BOOLEAN, priority: {"high", "normal", "low", "other"}, html: BOOLEAN]

ASSUME FormAssumption == Forms \subseteq Form

Empty     == <<>>
Delimiter == <<"--", "BOUNDARY">>
Closing   == <<"--", "BOUNDARY", "--">>
Field(name, value) == <<name, value>>
OnlyIf(test, line) == IF test THEN <<line>> ELSE <<>>

(* One entry for every recipient of a kind. *)
List(kind, n) == [k \in 1 .. n |-> <<kind, k>>]

TextType(f) == IF f.html THEN "text/html" ELSE "text/plain"

XPriority(p) == CASE p = "high" -> 2 [] p = "low" -> 4 [] OTHER -> 3

(* What all messages begin with.  The list of the Bcc line is never filled. *)
HeadLines(m, f, bcc) ==
  <<Field("Date", "now"), Field("From", <<IF f.name THEN "name" ELSE "", "<sender>">>)>>
  \o OnlyIf(f.xmailer, Field("X-Mailer", "xmailer"))
  \o OnlyIf(f.reply_to, Field("Reply-To", "reply_to"))
  \o OnlyIf(f.receipt, Field("Disposition-Notification-To",
                             IF f.reply_to THEN "reply_to" ELSE IF f.name THEN "name" ELSE ""))
  \o <<Field("X-Priority", XPriority(f.priority)), Field("To", List("to", m.to))>>
  \o OnlyIf(m.cc > 0, Field("Cc", List("cc", m.cc)))
  \o OnlyIf(m.bcc > 0, Field("Bcc", bcc))
  \o <<Field("Subject", IF f.subject THEN "subject" ELSE " "), Field("MIME-Version", "1.0")>>

(* ... and their type; with attachments the text is a part of its own.     *)
TypeLines(m, f) ==
  LET text == <<Field("Content-Type", TextType(f)), Field("Content-Transfer-Encoding", "7bit"), Empty>>
  IN IF m.files = 0 THEN text
                    ELSE <<Field("Content-Type", "multipart/mixed"), Empty, Delimiter>> \o text

(* Mutation: the blind copies are listed like the others. *)
format_header_ListsBcc(m, f) == HeadLines(m, f, List("bcc", m.bcc)) \o TypeLines(m, f)

format_header(m, f) == HeadLines(m, f, <<>>) \o TypeLines(m, f)

(* The i-th block of a message, as a relay hands it on.  snprintf cuts a   *)
(* line that is too long for m_send_buffer, and with it the line end: the  *)
(* next block goes on with the line ("cut").  A dot that begins a line is  *)
(* sent once, so the relay takes it off.                                   *)
BlockLines(m, f, i) ==
  LET block == Blocks(m)[i]
      place == i - 1 - (IF m.lines = <<>> THEN 1 ELSE Len(m.lines))
      file  == (place + 1) \div 2
      glued == Blocks(m)[i - 1] = "long"
  IN CASE block = "header"   -> format_header(m, f)
       [] block = "blank"    -> << <<" ">> >>
       [] block = "text"     -> << <<"line", i - 1>> >>
       [] block = "dot"      -> << <<".">> >>
       [] block = "dotted"   -> << IF glued THEN <<".", "rest", i - 1>> ELSE <<"rest", i - 1>> >>
       [] block = "long"     -> << <<"cut", i - 1>> >>
       [] block = "part"     -> <<Delimiter, Field("Content-Type", "application/x-msdownload"),
                                  Field("Content-Transfer-Encoding", "base64"),
                                  Field("Content-Disposition", <<"filename", file>>), Empty>>
       [] block = "content"  -> << <<"base64", file>> >>
       [] block = "boundary" -> <<Empty, Closing>>

(* The lines of a text whose cut lines go on with the next one. *)
Joined(lines) ==
  LET begins == {k \in DOMAIN lines : k > 1 => lines[k - 1] = Empty \/ lines[k - 1][1] # "cut"}
  IN [n \in 1 .. Cardinality(begins) |->
        LET k == Nth(begins, n)
        IN FlattenSeq(SubSeq(lines, k, NextOf(begins, k, Len(lines) + 1) - 1))]

-----------------------------------------------------------------------------
(* How a mail program reads a text (RFC 2045 and 2046). *)
FieldsOf(text) ==
  LET end == CHOOSE k \in 1 .. Len(text) + 1 :
               (k = Len(text) + 1 \/ text[k] = Empty) /\ \A j \in 1 .. k - 1 : text[j] # Empty
  IN SubSeq(text, 1, end - 1)

BodyOf(text) == SubSeq(text, Len(FieldsOf(text)) + 2, Len(text))

(* The values of all fields of a name. *)
ValuesOf(text, name) ==
  LET fields == FieldsOf(text) IN
  {fields[k][2] : k \in {j \in DOMAIN fields : Len(fields[j]) = 2 /\ fields[j][1] = name}}

(* What is between one delimiter and the next, without the line end in     *)
(* front of it.                                                            *)
PartsOf(body) ==
  LET marks == {k \in DOMAIN body : body[k] \in {Delimiter, Closing}}
  IN [p \in 1 .. Cardinality(marks) - 1 |->
        LET last == Nth(marks, p + 1) - 1 IN
        SubSeq(body, Nth(marks, p) + 1, IF body[last] = Empty THEN last - 1 ELSE last)]

Contents(text) ==
  IF ValuesOf(text, "Content-Type") = {"multipart/mixed"}
    THEN [p \in DOMAIN PartsOf(BodyOf(text)) |->
            LET part == PartsOf(BodyOf(text))[p] IN
            [type |-> ValuesOf(part, "Content-Type"), encoding |-> ValuesOf(part, "Content-Transfer-Encoding"),
             name |-> ValuesOf(part, "Content-Disposition"), body |-> BodyOf(part)]]
    ELSE << [type |-> ValuesOf(text, "Content-Type"),
             encoding |-> ValuesOf(text, "Content-Transfer-Encoding"), name |-> {}, body |-> BodyOf(text)] >>

Read(text) ==
  [fields |-> [n \in {"From", "To", "Cc", "Bcc", "Reply-To", "Subject", "X-Priority", "MIME-Version"} |->
                 ValuesOf(text, n)],
   contents |-> Contents(text)]

(* Lines that send_mail sends as they are: it neither doubles a dot that   *)
(* begins a line nor breaks a line that is too long.                       *)
Sendable(m) == \A k \in 1 .. Len(m.lines) : m.lines[k] = "text"

(* What the owner has asked for: everybody but the blind copies is named,  *)
(* the text comes first and then the files, one by one.  Without files the *)
(* line end in front of the final dot makes an empty line of the text.     *)
Meant(m, f) ==
  LET set(test, value) == IF test THEN {value} ELSE {}
      text == (IF m.lines = <<>> THEN << <<" ">> >> ELSE [k \in DOMAIN m.lines |-> <<"line", k>>])
              \o (IF m.files = 0 THEN <<Empty>> ELSE <<>>)
  IN [fields |-> [n \in {"From", "To", "Cc", "Bcc", "Reply-To", "Subject", "X-Priority", "MIME-Version"} |->
                    CASE n = "From"         -> {<<IF f.name THEN "name" ELSE "", "<sender>">>}
                      [] n = "To"           -> {List("to", m.to)}
                      [] n = "Cc"           -> set(m.cc > 0, List("cc", m.cc))
                      [] n = "Bcc"          -> set(m.bcc > 0, <<>>)
                      [] n = "Reply-To"     -> set(f.reply_to, "reply_to")
                      [] n = "Subject"      -> {IF f.subject THEN "subject" ELSE " "}
                      [] n = "X-Priority"   -> {XPriority(f.priority)}
                      [] n = "MIME-Version" -> {"1.0"}],
      contents |-> <<[type |-> {TextType(f)}, encoding |-> {"7bit"}, name |-> {}, body |-> text]>>
                   \o [k \in 1 .. m.files |->
                         [type |-> {"application/x-msdownload"}, encoding |-> {"base64"},
                          name |-> {<<"filename", k>>}, body |-> << <<"base64", k>> >>]]]
===============================================================================
