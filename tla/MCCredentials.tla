----------------------------- MODULE MCCredentials -----------------------------
(***************************************************************************)
(* Tasks for TLC: the data of the comments in smtp_server.cpp, logins and  *)
(* passwords of every length modulo 3 and around 64, and MD5 objects given *)
(* pieces around the sizes at which something changes.                     *)
(***************************************************************************)
EXTENDS Credentials, Md5Transform

(* The octets of a text, of the characters the texts below have. *)
Upper == "./0123456789:;<=>?@ABCDEFGHIJKLMNOPQRSTUVWXYZ"
Lower == "abcdefghijklmnopqrstuvwxyz"
PlaceIn(c, text) == {k \in 1 .. Len(text) : SubSeq(text, k, k) = c}
Ascii(text) ==
  [i \in 1 .. Len(text) |->
     LET c == SubSeq(text, i, i) IN
     IF PlaceIn(c, Upper) # {} THEN 45 + CHOOSE k \in PlaceIn(c, Upper) : TRUE
                               ELSE 96 + CHOOSE k \in PlaceIn(c, Lower) : TRUE]

Blank(mechanism) ==
  [mechanism |-> mechanism, login |-> <<>>, password |-> <<>>, plain |-> <<>>, challenge |-> <<>>,
   realm |-> <<>>, nonce |-> <<>>, cnonce |-> <<>>, uri |-> <<>>, peer_known |-> FALSE,
   pieces |-> <<>>, documented |-> <<>>]

Cram(login, password, text, documented) ==
  [Blank("CRAM-MD5") EXCEPT !.login = login, !.password = password, !.plain = text,
                            !.challenge = Encoded(text), !.documented = documented]

(* n octets, none of them zero. *)
Data(n, seed) == [i \in 1 .. n |-> ((seed + 37 * i) % 255) + 1]

(* smtp_server.cpp:539-545. *)
Rfc2195 ==
  Cram(Ascii("tim"), Ascii("tanstaaftanstaaf"), Ascii("<1896.697170952@postoffice.reston.mci.net>"),
       <<Ascii("dGltIGI5MTNhNjAyYzdlZGE3YTQ5NWI0ZTZlNzMzNGQzODkw")>>)

(* smtp_server.cpp:614-617 and 661-673. *)
Rfc2831 ==
  [Blank("DIGEST-MD5") EXCEPT
     !.login = Ascii("chris"), !.password = Ascii("secret"), !.realm = Ascii("elwood.innosoft.com"),
     !.nonce = Ascii("OA6MG9tEQGm2hh"), !.cnonce = Ascii("OA6MHXh6VqTrRk"),
     !.uri = Ascii("imap/elwood.innosoft.com"),
     !.documented = << <<"charset", "username", "realm", "nonce", "nc", "cnonce", "digest-uri",
                         "response", "qop">>, Ascii("d388dad90d4bbd760a152321f2143af7")>>]

Words == UNION {[1 .. n -> {1, 62, 94, 255}] : n \in 0 .. 2} \cup {<<250, 3, 128>>}

PasswordTasks ==
  {[Blank(m) EXCEPT !.login = l, !.password = p] : m \in {"LOGIN", "PLAIN"}, l \in Words, p \in Words}

CramTasks ==
  {Cram(Data(l, 5), Data(p, 11), Data(c, 3), <<>>) :
     l \in {4, 5}, p \in {1, 55, 64, 65, 70}, c \in {0, 1, 2, 60}}

Lengths == {0, 1, 55, 56, 63, 64, 65, 70, 130, 200}

ObjectTasks ==
  LET lengths == [1 .. 1 -> Lengths] \cup [1 .. 2 -> Lengths] \cup [1 .. 3 -> {0, 1, 56, 63, 130}] IN
  {[Blank("OBJECT") EXCEPT !.pieces = [k \in DOMAIN s |-> Data(s[k], 100 * k)]] : s \in lengths}
  \cup {[Blank("STREAM") EXCEPT !.pieces = <<Data(n, 1), Data(m, 2)>>] :
          n \in {0, 99, 100, 101, 200}, m \in {0, 1, 100}}

AllTasks ==
  {Rfc2195, Rfc2831, [Rfc2831 EXCEPT !.realm = <<>>, !.documented = <<>>],
   [Rfc2831 EXCEPT !.nonce = <<>>], [Rfc2831 EXCEPT !.peer_known = TRUE]}
  \cup PasswordTasks \cup CramTasks \cup ObjectTasks

DigestTasks == {[Rfc2831 EXCEPT !.peer_known = TRUE, !.documented = <<>>]}
===============================================================================
