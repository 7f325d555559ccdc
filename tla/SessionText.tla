------------------------------- MODULE SessionText -------------------------------
(***************************************************************************)
(* SmtpSession with the text of its messages: what the relay has taken on  *)
(* a connection, block by block, is read as a mail program reads it.       *)
(***************************************************************************)
EXTENDS SmtpSession, MessageText

(* The lines of blocks; a command that the relay has read there is a line  *)
(* too, and the line end of CRLF . CRLF makes an empty one.                *)
TextOf(blocks, f) ==
  Joined(FlattenSeq([k \in DOMAIN blocks |->
                       LET b == blocks[k] IN
                       IF b.verb = "DATABLOCK" THEN BlockLines(mails[b.n], f, b.i)
                                               ELSE << <<b.verb>> >>])
         \o <<Empty>>)

(* A message that the relay has accepted is one the owner gave to the      *)
(* object, and if its lines are such as send_mail can send, its recipients *)
(* read what the owner asked for: the header ends where the text begins,   *)
(* nobody sees the blind copies, the text and every attachment are found   *)
(* as parts of the right type, and nothing else is, whatever has failed on *)
(* the way.  A line that is too long is cut, and so may be the delimiter   *)
(* behind it; one that begins with a dot arrives without it.               *)
MailsReadAsMeant ==
  pc = "user" => \A a \in 1 .. Len(accepted) : \E n \in 1 .. Len(mails) :
    /\ Whole(accepted[a], n)
    /\ Sendable(mails[n]) =>
         \A f \in Forms : Read(TextOf(accepted[a].body, f)) = Meant(mails[n], f)
===============================================================================
