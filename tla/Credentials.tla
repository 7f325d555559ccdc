------------------------------ MODULE Credentials ------------------------------
(***************************************************************************)
(* How connect_remote_server turns login, password and challenge into      *)
(* answers: LOGIN, PLAIN, CRAM-MD5 and DIGEST-MD5, with one action for     *)
(* every call of an MD5 object.  Texts are sequences of octets.  A task of *)
(* mechanism "OBJECT" is an MD5 object in other hands, given some pieces.  *)
(* Where the work on a task is, by pc:                                     *)
(*   "begin"   in front of the branch of its mechanism                     *)
(*   "hash"    in front of the next update of the MD5 object at work, or   *)
(*             of its finalize                                             *)
(*   "answer"  all digests are computed                                    *)
(*   "done", "thrown"                                                      *)
(***************************************************************************)
EXTENDS Base64, Md5

CONSTANT Tasks   \* mechanism, login, password and challenge, or pieces

(* Texts are octets, and a relay challenges with the base64 form of one.   *)
(* Neither it nor a password that answers it has a zero: char2uchar copies *)
(* a text up to its first one only.                                        *)
ASSUME TasksAssumption ==
  \A t \in Tasks :
    /\ t.mechanism \in {"LOGIN", "PLAIN", "CRAM-MD5", "DIGEST-MD5", "OBJECT", "STREAM"}
    /\ {t.login, t.password, t.plain, t.realm, t.nonce, t.cnonce, t.uri} \subseteq Seq(Bytes)
    /\ t.pieces \in Seq(Seq(Bytes)) /\ t.peer_known \in BOOLEAN
    /\ t.mechanism = "CRAM-MD5" =>
         /\ t.challenge = Encoded(t.plain)
         /\ \A text \in {t.plain, t.password} : \A i \in 1 .. Len(text) : text[i] # 0

VARIABLES
  task,
  pc,
  ctx,      \* the MD5 object at work
  fed,      \* history: what it has been given so far
  todo,     \* the pieces it is still to be given
  digests,  \* the digests computed so far
  answers   \* the texts sent to the relay

vars == <<task, pc, ctx, fed, todo, digests, answers>>

Caret == 94
Space == 32
Colon == <<58>>
CRLF  == <<13, 10>>
AUTHENTICATE == <<65, 85, 84, 72, 69, 78, 84, 73, 67, 65, 84, 69, 58>>   \* with its colon
auth  == <<97, 117, 116, 104>>
nc    == <<48, 48, 48, 48, 48, 48, 48, 49>>

(* The challenge as it comes from the relay, and without the code in front *)
(* of it, is base64 with a line end behind.                                *)
Challenge == base64_decode(task.challenge \o CRLF)

Init ==
  /\ task \in Tasks
  /\ pc = "begin"
  /\ ctx = init /\ fed = <<>> /\ todo = <<>>
  /\ digests = <<>>
  /\ answers = <<>>

Send(texts) == answers' = texts /\ pc' = "done" /\ UNCHANGED <<task, ctx, fed, todo, digests>>

AnswerLogin ==
  /\ pc = "begin" /\ task.mechanism = "LOGIN"
  /\ Send(<<base64_encode(task.login), base64_encode(task.password)>>)

(* Every '^' becomes a zero, the two separators and those of the user.     *)
Plain(login, password) ==
  LET text == login \o <<Caret>> \o login \o <<Caret>> \o password
  IN [i \in DOMAIN text |-> IF text[i] = Caret THEN 0 ELSE text[i]]

AnswerPlain ==
  /\ pc = "begin" /\ task.mechanism = "PLAIN"
  /\ Send(<<base64_encode(Plain(task.login, task.password))>>)

(* A new MD5 object, which is to be given these pieces. *)
Hash(pieces) == ctx' = init /\ fed' = <<>> /\ todo' = pieces /\ pc' = "hash"

XorByte(a, b) ==
  LET bit(x, k) == (x \div 2 ^ k) % 2
      digit(k) == IF bit(a, k) = bit(b, k) THEN 0 ELSE 2 ^ k
  IN digit(0) + digit(1) + digit(2) + digit(3) + digit(4) + digit(5) + digit(6) + digit(7)

(* The password in 64 octets, with every octet changed by mask. *)
Pad64(password, mask) ==
  [i \in 1 .. 64 |-> XorByte(IF i <= Len(password) THEN password[i] ELSE 0, mask)]

(* Mutation: a password of 64 octets counts as too long. *)
LongPassword_From64(password) == Len(password) >= 64
LongPassword(password) == Len(password) > 64

(* The octets of the pads: those of the password, or its digest. *)
Key == IF LongPassword(task.password) THEN raw_digest(digests[1]) ELSE task.password

(* The objects of each mechanism in order, by their pieces: the k-th one,  *)
(* when there are the digests of those before it.                          *)
CramPieces ==
  IF LongPassword(task.password) /\ digests = <<>> THEN <<task.password>>
  ELSE IF Len(digests) = IF LongPassword(task.password) THEN 1 ELSE 0
    THEN <<Pad64(Key, 54), Challenge>>
  ELSE <<Pad64(Key, 92), raw_digest(digests[Len(digests)])>>

DigestPieces ==
  CASE Len(digests) = 0 -> <<task.login, Colon, task.realm, Colon, task.password>>
    [] Len(digests) = 1 -> <<raw_digest(digests[1]), Colon, task.nonce, Colon, task.cnonce>>
    [] Len(digests) = 2 -> <<AUTHENTICATE, task.uri>>
    [] Len(digests) = 3 -> <<hex_digest(digests[2]), Colon, task.nonce, Colon, nc, Colon, task.cnonce,
                             Colon, auth, Colon, hex_digest(digests[3])>>

Objects ==
  CASE task.mechanism = "CRAM-MD5" -> IF LongPassword(task.password) THEN 3 ELSE 2
    [] task.mechanism = "DIGEST-MD5" -> 4
    [] task.mechanism \in {"OBJECT", "STREAM"} -> 1

BeginCram ==
  /\ pc = "begin" /\ task.mechanism = "CRAM-MD5"
  /\ Hash(CramPieces)
  /\ UNCHANGED <<task, digests, answers>>

(* The challenge needs a nonce.  getpeername returns 0 when it knows the   *)
(* name, and that is when the code throws; otherwise it goes on with an    *)
(* address that nobody has written (the uri of the task).                  *)
BeginDigest ==
  /\ pc = "begin" /\ task.mechanism = "DIGEST-MD5"
  /\ IF task.nonce = <<>> \/ task.peer_known
       THEN pc' = "thrown" /\ UNCHANGED <<ctx, fed, todo>>
       ELSE Hash(DigestPieces)
  /\ UNCHANGED <<task, digests, answers>>

BeginObject ==
  /\ pc = "begin" /\ task.mechanism \in {"OBJECT", "STREAM"}
  /\ Hash(task.pieces)
  /\ UNCHANGED <<task, digests, answers>>

Update ==
  /\ pc = "hash" /\ todo # <<>>
  /\ ctx' = IF task.mechanism = "STREAM" THEN update_stream(ctx, Head(todo)) ELSE update(ctx, Head(todo))
  /\ fed' = fed \o Head(todo)
  /\ todo' = Tail(todo)
  /\ UNCHANGED <<task, pc, digests, answers>>

Finalize ==
  /\ pc = "hash" /\ todo = <<>> /\ ~ctx.finalized
  /\ ctx' = finalize(ctx)
  /\ digests' = Append(digests, ctx')
  /\ pc' = IF Len(digests') = Objects THEN "answer" ELSE "hash"
  /\ UNCHANGED <<task, fed, todo, answers>>

(* On to the next object. *)
NextObject ==
  /\ pc = "hash" /\ ctx.finalized
  /\ Hash(IF task.mechanism = "CRAM-MD5" THEN CramPieces ELSE DigestPieces)
  /\ UNCHANGED <<task, digests, answers>>

AnswerCram ==
  /\ pc = "answer" /\ task.mechanism = "CRAM-MD5"
  /\ Send(<<base64_encode(task.login \o <<Space>> \o hex_digest(digests[Objects]))>>)

(* The fields of the response in order; the realm only if there is one.    *)
AnswerDigest ==
  /\ pc = "answer" /\ task.mechanism = "DIGEST-MD5"
  /\ Send(<< <<"charset", "username">> \o (IF task.realm = <<>> THEN <<>> ELSE <<"realm">>)
             \o <<"nonce", "nc", "cnonce", "digest-uri", "response", "qop">>,
             hex_digest(digests[4]) >>)

(* What an update or a finalize does to an object that is finalized. *)
UseAgain ==
  /\ pc = "answer" /\ task.mechanism \in {"OBJECT", "STREAM"}
  /\ ctx' = finalize(update(ctx, <<1, 2, 3>>))
  /\ pc' = "done"
  /\ UNCHANGED <<task, fed, todo, digests, answers>>

Gone == pc \in {"done", "thrown"} /\ UNCHANGED vars

Next ==
  \/ AnswerLogin \/ AnswerPlain \/ BeginCram \/ BeginDigest \/ BeginObject
  \/ Update \/ Finalize \/ NextObject \/ AnswerCram \/ AnswerDigest \/ UseAgain \/ Gone

Spec == Init /\ [][Next]_vars

-----------------------------------------------------------------------------
(* The values of the variables. *)
TypeOK ==
  /\ task \in Tasks
  /\ pc \in {"begin", "hash", "answer", "done", "thrown"}
  /\ ctx \in Context
  /\ fed \in Seq(Bytes)
  /\ Len(digests) <= 4 /\ \A k \in DOMAIN digests : digests[k] \in Context /\ digests[k].finalized

(* However a message is cut into pieces, empty ones, whole blocks and more *)
(* than a block among them: what has been transformed and what waits in    *)
(* the buffer are together the message, and the two words count its bits.  *)
HoldsWhatItWasFed ==
  ~ctx.finalized =>
    /\ ctx.hashed \o Waiting(ctx) = fed
    /\ ctx.count = <<(8 * Len(fed)) % WordSize, ((8 * Len(fed)) \div WordSize) % WordSize>>

(* What finalize has transformed is the message with the padding of MD5,   *)
(* also where the length does not fit behind the message in its last       *)
(* block, and a finalized object never changes again.                      *)
PaddedAsSpecified ==
  /\ ctx.finalized => ctx.hashed = Padded(fed)
  /\ digests # <<>> /\ ctx.finalized => ctx = digests[Len(digests)]

(* Reference: HMAC-MD5 of RFC 2104. *)
Md5Of(message) == encode_state(StateOf(Padded(message)))
Hmac(key, text) ==
  LET short == IF Len(key) <= 64 THEN key ELSE Md5Of(key)
      masked(mask) == [i \in 1 .. 64 |-> IF i <= Len(short) THEN XorByte(short[i], mask) ELSE mask]
  IN Md5Of(masked(92) \o Md5Of(masked(54) \o text))
Hex(octets) == [j \in 1 .. 2 * Len(octets) |->
  LET n == IF j % 2 = 1 THEN octets[(j + 1) \div 2] \div 16 ELSE octets[j \div 2] % 16
  IN IF n < 10 THEN 48 + n ELSE 97 + (n - 10)]

(* The relay that decodes the answers finds what the mechanism promises:   *)
(* the two credentials, the message of PLAIN unless a '^' is among its     *)
(* octets, the keyed digest of the challenge for passwords of any length.  *)
CredentialsArrive ==
  pc = "done" =>
    /\ task.mechanism = "LOGIN" =>
         answers = <<Encoded(task.login), Encoded(task.password)>>
    /\ task.mechanism = "PLAIN" /\ (\A i \in DOMAIN (task.login \o task.password) :
                                      (task.login \o task.password)[i] # Caret) =>
         answers = <<Encoded(task.login \o <<0>> \o task.login \o <<0>> \o task.password)>>
    /\ task.mechanism = "CRAM-MD5" =>
         answers = <<Encoded(task.login \o <<Space>> \o Hex(Hmac(task.password, task.plain)))>>

(* The answers to the two challenges that the comments quote from RFC 2195 *)
(* and RFC 2831 are those that the comments quote.                         *)
AnswersAsDocumented == pc = "done" /\ task.documented # <<>> => answers = task.documented

(* A challenge with a nonce is answered when the name of the peer is known *)
(* ("Get server address and set uri").                                     *)
KnownPeerAnswered ==
  pc = "thrown" => task.nonce = <<>> \/ ~task.peer_known
===============================================================================
