---------------------------- MODULE DataPhaseProofs ----------------------------
(***************************************************************************)
(* Proofs about DataPhase for every message, every size of the buffers, of *)
(* a line of base64 and of a record, and every time-out.                   *)
(***************************************************************************)
EXTENDS DataPhase, SharedLemmas

-----------------------------------------------------------------------------
(* Pieces of texts. *)
LEMMA SubText ==
  ASSUME NEW s \in Text, NEW m \in Nat \ {0}, NEW n \in Int, n <= Len(s)
  PROVE  /\ SubSeq(s, m, n) \in Text
         /\ Len(SubSeq(s, m, n)) = IF m <= n THEN n - m + 1 ELSE 0
<1>1. \A i \in m .. n : s[i] \in Char
  BY ElementOfSeq DEF Text
<1> QED
  BY <1>1, SubSeqProperties, Z3 DEF Text

LEMMA JoinText ==
  ASSUME NEW s \in Text, NEW t \in Text
  PROVE  s \o t \in Text /\ Len(s \o t) = Len(s) + Len(t)
BY ConcatProperties DEF Text

LEMMA LenText ==
  ASSUME NEW s \in Text
  PROVE  Len(s) \in Nat
BY LenProperties DEF Text

LEMMA UptoText ==
  ASSUME NEW s \in Text, NEW n \in Nat
  PROVE  Upto(s, n) \in Text /\ Len(Upto(s, n)) <= n
<1>1. Len(s) \in Nat
  BY LenText
<1>2. CASE n < Len(s)
  BY <1>1, <1>2, SubText DEF Upto
<1>3. CASE ~(n < Len(s))
  BY <1>1, <1>3 DEF Upto
<1> QED
  BY <1>2, <1>3

(* A text without a dot, and one without the marks of a line or part. *)
DotFree(s)  == \A i \in 1 .. Len(s) : s[i] # 46
MarkFree(s) == \A i \in 1 .. Len(s) : s[i] # 13 /\ s[i] # 45

(* A sextet is less than 64, and its character is one and none of these. *)
LEMMA SextetChars ==
  ASSUME NEW a \in Bytes, NEW b \in Bytes, NEW c \in Bytes, NEW k \in 1 .. 4
  PROVE  base64_chars[Sextets(a, b, c)[k]] \in Char \ {13, 45, 46}
<1>1. \A d \in 0 .. 63 : base64_chars[d] \in Char \ {13, 45, 46}
  BY DEF base64_chars, Char
<1>2. /\ a \div 4 \in 0 .. 63
      /\ (a % 4) * 16 + b \div 16 \in 0 .. 63
      /\ (b % 16) * 4 + c \div 64 \in 0 .. 63
      /\ c % 64 \in 0 .. 63
  BY DEF Bytes
<1>3. Sextets(a, b, c)[k] \in 0 .. 63
  BY <1>2 DEF Sextets
<1> QED
  BY <1>1, <1>3

(* What base64_encode returns, and how long it is. *)
LEMMA EncodeText ==
  ASSUME NEW b \in Seq(Bytes)
  PROVE  /\ base64_encode(b) \in Text
         /\ Len(base64_encode(b)) = 4 * ((Len(b) + 2) \div 3)
         /\ DotFree(base64_encode(b)) /\ MarkFree(base64_encode(b))
<1> DEFINE n == Len(b)
           octet(i) == IF i <= n THEN b[i] ELSE 0
           char(i) == LET g == (i - 1) \div 4  k == ((i - 1) % 4) + 1 IN
                      IF k > n - 3 * g + 1 THEN Pad
                      ELSE base64_chars[Sextets(octet(3 * g + 1), octet(3 * g + 2), octet(3 * g + 3))[k]]
           m == 4 * ((n + 2) \div 3)
<1>1. n \in Nat /\ m \in Nat
  BY LenProperties
<1>2. \A i \in Nat \ {0} : octet(i) \in Bytes
  BY <1>1, ElementOfSeq DEF Bytes
<1>3. ASSUME NEW i \in 1 .. m PROVE char(i) \in Char \ {13, 45, 46}
  <2> DEFINE g == (i - 1) \div 4
             k == ((i - 1) % 4) + 1
  <2>1. g \in Nat /\ k \in 1 .. 4
    BY <1>1, <1>3
  <2>2. /\ octet(3 * g + 1) \in Bytes /\ octet(3 * g + 2) \in Bytes
        /\ octet(3 * g + 3) \in Bytes
    BY <1>2, <2>1
  <2>3. Pad \in Char \ {13, 45, 46}
    BY DEF Pad, Char
  <2> HIDE DEF g, k, octet
  <2>4. base64_chars[Sextets(octet(3 * g + 1), octet(3 * g + 2), octet(3 * g + 3))[k]] \in Char \ {13, 45, 46}
    BY <2>1, <2>2, SextetChars
  <2> QED
    BY <2>3, <2>4 DEF g, k
<1> HIDE DEF char
<1>4. [i \in 1 .. m |-> char(i)] \in [1 .. m -> Char]
  BY <1>3
<1>5. [i \in 1 .. m |-> char(i)] \in Text
  BY <1>1, <1>4, SeqDef DEF Text
<1>6. Len([i \in 1 .. m |-> char(i)]) = m
  BY <1>1, <1>5, LenProperties DEF Text
<1>7. base64_encode(b) = [i \in 1 .. m |-> char(i)]
  BY DEF base64_encode, char
<1>8. DotFree(base64_encode(b)) /\ MarkFree(base64_encode(b))
  BY <1>3, <1>6, <1>7 DEF DotFree, MarkFree
<1> QED
  BY <1>5, <1>6, <1>7, <1>8

-----------------------------------------------------------------------------
(* The code of a reply that is complete has three digits. *)
LEMMA ReplyCode ==
  ASSUME NEW s \in Text, LastLines(s) # {}
  PROVE  reply_code(s) \in 0 .. 999
<1>1. Len(s) \in Nat
  BY LenText
<1>2. LastLines(s) \subseteq Nat
  BY <1>1 DEF LastLines, Starts, Ends
<1> DEFINE b == CHOOSE b \in LastLines(s) : \A c \in LastLines(s) : b <= c
<1>3. b \in LastLines(s)
  BY <1>2, Smallest, Zenon
<1>4. b \in Nat /\ IsLast(s, Ends(s), b)
  BY <1>2, <1>3 DEF LastLines
<1>5. \A i \in b .. b + 2 : s[i] \in 48 .. 57
  BY <1>4 DEF IsLast, isdigit
<1>6. s[b] \in 48 .. 57 /\ s[b + 1] \in 48 .. 57 /\ s[b + 2] \in 48 .. 57
  BY <1>4, <1>5
<1>7. reply_code(s) = (s[b] - 48) * 100 + (s[b + 1] - 48) * 10 + s[b + 2] - 48
  BY DEF reply_code
<1> HIDE DEF b
<1> QED
  BY <1>6, <1>7

-----------------------------------------------------------------------------
(* Every call and every turn of a loop keeps the types. *)
LEMMA NoText == <<>> \in Text /\ Len(<<>>) = 0
BY EmptySeq DEF Text

(* WireTypeOK, text by text. *)
LEMMA WireTypes ==
  WireTypeOK <=>
    /\ m_ssl \in BOOLEAN
    /\ call \in {"idle", "send", "receive", "killed"}
    /\ entry \in Steps /\ thrown \in BOOLEAN /\ budget \in 0 .. Timeout
    /\ m_send_buffer \in Text /\ idx \in 0 .. Len(m_send_buffer)
    /\ write_blocked_on_read \in BOOLEAN /\ read_blocked_on_write \in BOOLEAN
    /\ more \in BOOLEAN /\ closed \in BOOLEAN
    /\ m_receive_buffer \in Text /\ line \in Text /\ sent \in Text
    /\ unwritten \in Text /\ incoming \in Text /\ given \in Text
    /\ codes \in Seq(0 .. 999)
BY DEF WireTypeOK

LEMMA SendDataTypes ==
  ASSUME WireAssumption, WireTypeOK, NEW row \in Steps, NEW text \in Text, send_data(row, text)
  PROVE  WireTypeOK'
<1>1. given' \in Text
  BY WireTypes, JoinText DEF send_data
<1>2. /\ call' = "send" /\ entry' = row /\ thrown' = thrown /\ budget' = Timeout
      /\ m_send_buffer' = text /\ idx' = 0 /\ write_blocked_on_read' = FALSE
      /\ m_ssl' = m_ssl /\ m_receive_buffer' = m_receive_buffer /\ more' = more
      /\ read_blocked_on_write' = read_blocked_on_write
      /\ line' = line /\ codes' = codes /\ sent' = sent /\ unwritten' = unwritten
      /\ incoming' = incoming /\ closed' = closed
  BY DEF send_data, reader, network
<1>3. idx' \in 0 .. Len(m_send_buffer') /\ budget' \in 0 .. Timeout
  BY <1>2, LenText DEF WireAssumption
<1>4. m_send_buffer' \in Text /\ entry' \in Steps
  BY <1>2
<1>5. {m_receive_buffer, line, sent, unwritten, incoming, given}' \subseteq Text
  BY <1>1, <1>2, WireTypes
<1>6. /\ m_ssl' \in BOOLEAN /\ thrown' \in BOOLEAN /\ write_blocked_on_read' \in BOOLEAN
      /\ read_blocked_on_write' \in BOOLEAN
      /\ more' \in BOOLEAN /\ closed' \in BOOLEAN /\ codes' \in Seq(0 .. 999)
      /\ call' \in {"idle", "send", "receive", "killed"}
  BY <1>2, WireTypes
<1> QED
  BY <1>3, <1>4, <1>5, <1>6 DEF WireTypeOK

LEMMA ReceiveResponseTypes ==
  ASSUME WireAssumption, WireTypeOK, NEW row \in Steps, receive_response(row)
  PROVE  WireTypeOK'
<1>1. /\ call' = "receive" /\ entry' = row /\ thrown' = thrown /\ budget' = Timeout
      /\ m_send_buffer' = m_send_buffer /\ idx' = idx
      /\ write_blocked_on_read' = write_blocked_on_read /\ given' = given
      /\ m_ssl' = m_ssl /\ m_receive_buffer' = <<>> /\ more' = FALSE
      /\ read_blocked_on_write' = FALSE
      /\ line' = <<>> /\ codes' = codes /\ sent' = sent /\ unwritten' = unwritten
      /\ incoming' = incoming /\ closed' = closed
  BY DEF receive_response, sender, network
<1>2. Timeout \in 0 .. Timeout
  BY DEF WireAssumption
<1> QED
  BY <1>1, <1>2, NoText, WireTypes DEF WireTypeOK

LEMMA ThrowTypes ==
  ASSUME WireAssumption, WireTypeOK, Throw, UNCHANGED <<m_ssl, budget, sender>>,
         sent' = sent, unwritten' = unwritten, closed' = closed, incoming' \in Text
  PROVE  WireTypeOK' /\ Len(m_receive_buffer') < BUFFER_SIZE
<1>1. /\ call' = "idle" /\ thrown' = TRUE /\ entry' = entry /\ codes' = codes
      /\ m_receive_buffer' = <<>> /\ more' = FALSE /\ read_blocked_on_write' = FALSE
      /\ line' = <<>>
  BY DEF Throw
<1>2. /\ m_ssl' = m_ssl /\ budget' = budget /\ m_send_buffer' = m_send_buffer
      /\ idx' = idx /\ write_blocked_on_read' = write_blocked_on_read /\ given' = given
  BY DEF sender
<1>3. 0 < BUFFER_SIZE
  BY DEF WireAssumption
<1>4. {m_receive_buffer, line, sent, unwritten, incoming, given}' \subseteq Text
  BY <1>1, <1>2, NoText, WireTypes
<1>5. /\ m_ssl' \in BOOLEAN /\ entry' \in Steps /\ budget' \in 0 .. Timeout
      /\ m_send_buffer' \in Text /\ idx' \in 0 .. Len(m_send_buffer')
      /\ write_blocked_on_read' \in BOOLEAN /\ closed' \in BOOLEAN
      /\ codes' \in Seq(0 .. 999)
  BY <1>1, <1>2, WireTypes
<1> QED
  BY <1>1, <1>3, <1>4, <1>5, NoText DEF WireTypeOK

LEMMA WrittenTypes ==
  ASSUME WireTypeOK, NEW chars \in Text, Len(chars) <= nLeft, Written(chars),
         write_blocked_on_read' \in BOOLEAN, unwritten' \in Text
  PROVE  WireTypeOK'
<1> USE WireTypes
<1>1. Len(chars) \in Nat /\ Len(m_send_buffer) \in Nat
  BY LenText
<1>2. idx' \in 0 .. Len(m_send_buffer')
  BY <1>1 DEF Written, nLeft
<1>3. sent' \in Text
  BY JoinText DEF Written
<1> QED
  BY <1>2, <1>3 DEF Written, reader, WireTypeOK

LEMMA ReceivedTypes ==
  ASSUME WireAssumption, WireTypeOK, NEW text \in Text, Received(text)
  PROVE  /\ call' \in {"idle", "receive", call} /\ entry' \in Steps /\ thrown' \in BOOLEAN
         /\ budget' \in 0 .. Timeout /\ more' \in BOOLEAN
         /\ read_blocked_on_write' \in BOOLEAN
         /\ m_receive_buffer' \in Text /\ Len(m_receive_buffer') < BUFFER_SIZE
         /\ line' \in Text /\ codes' \in Seq(0 .. 999)
<1> USE WireTypes
<1> DEFINE s == Parsed(text)
<1>1. s \in Text
  BY JoinText DEF Parsed
<1> HIDE DEF s
<1>2. CASE LastLines(s) = {}
  <2>1. /\ more' = FALSE /\ read_blocked_on_write' = FALSE
        /\ line' = s /\ m_receive_buffer' = <<>> /\ budget' = Timeout
        /\ call' = call /\ entry' = entry /\ thrown' = thrown /\ codes' = codes
    BY <1>2 DEF Received, s, client
  <2>2. 0 < BUFFER_SIZE /\ Timeout \in 0 .. Timeout
    BY DEF WireAssumption
  <2> QED
    BY <1>1, <2>1, <2>2, NoText
<1>3. CASE LastLines(s) # {}
  <2>1. reply_code(s) \in 0 .. 999
    <3> HIDE WireTypes
    <3> QED
      BY <1>1, <1>3, ReplyCode
  <2>2. Append(codes, reply_code(s)) \in Seq(0 .. 999)
    <3>1. codes \in Seq(0 .. 999)
      OBVIOUS
    <3> HIDE WireTypes
    <3> QED
      BY <2>1, <3>1, AppendProperties
  <2>3. Upto(s, BUFFER_SIZE - 1) \in Text /\ Len(Upto(s, BUFFER_SIZE - 1)) < BUFFER_SIZE
    BY <1>1, UptoText, LenText DEF WireAssumption
  <2> QED
    BY <1>3, <2>2, <2>3, NoText DEF Received, s
<1> QED
  BY <1>2, <1>3

LEMMA TakeTypes ==
  ASSUME WireTypeOK, NEW n \in 1 .. Len(incoming), Take(n)
  PROVE  /\ incoming' \in Text
         /\ UNCHANGED <<m_ssl, m_send_buffer, idx, write_blocked_on_read, given, sent,
                        unwritten, closed>>
<1>1. Len(incoming) \in Nat
  BY WireTypes, LenText
<1> QED
  BY <1>1, SubText, WireTypes DEF Take, sender

LEMMA RestText ==
  ASSUME WireTypeOK
  PROVE  Rest \in Text /\ Len(Rest) = nLeft /\ nLeft \in Nat /\ record \in Text
<1>1. Len(m_send_buffer) \in Nat /\ idx \in 0 .. Len(m_send_buffer)
  BY WireTypes, LenText
<1>2. Rest \in Text /\ Len(Rest) = nLeft
  BY <1>1, SubText, WireTypes DEF Rest, nLeft
<1> QED
  BY <1>1, <1>2, WireTypes DEF record, nLeft

-----------------------------------------------------------------------------
(* No call goes on with an exception in flight. *)
CallInv == call # "idle" => ~thrown

ReceiveFits == Len(m_receive_buffer) < BUFFER_SIZE

LEMMA SendSomeTypes ==
  ASSUME WireTypeOK, SendSome
  PROVE  WireTypeOK'
<1>1. PICK n \in 1 .. nLeft : Written(SubSeq(Rest, 1, n))
  BY DEF SendSome
<1>2. SubSeq(Rest, 1, n) \in Text /\ Len(SubSeq(Rest, 1, n)) = n
  BY RestText, SubText
<1>3. write_blocked_on_read' \in BOOLEAN /\ unwritten' \in Text
  BY WireTypes DEF SendSome
<1>4. n <= nLeft
  BY RestText
<1> QED
  BY <1>1, <1>2, <1>3, <1>4, WrittenTypes

LEMMA SSLWriteTypes ==
  ASSUME WireTypeOK, SSL_write
  PROVE  WireTypeOK'
BY RestText, NoText, WrittenTypes DEF SSL_write

LEMMA BlockedTypes ==
  ASSUME WireAssumption, WireTypeOK,
         WantWrite \/ WantRead \/ ReadBlocked \/ ReadWantsWrite \/ Killed
  PROVE  WireTypeOK'
<1>1. CASE WantWrite
  <2>1. budget' \in 0 .. Timeout
    <3>1. budget \in 0 .. Timeout /\ budget' = budget - 1 /\ budget > 0 /\ Timeout \in Nat
      BY <1>1, WireTypes DEF WantWrite, WireAssumption
    <3> QED
      BY <3>1
  <2>2. unwritten' \in Text /\ write_blocked_on_read' \in BOOLEAN
    BY <1>1, RestText DEF WantWrite
  <2> QED
    BY <1>1, <2>1, <2>2, WireTypes DEF WantWrite, client, reader, WireTypeOK
<1>2. CASE WantRead
  BY <1>2, WireTypes DEF WantRead, client, reader, network, WireTypeOK
<1>3. CASE ReadBlocked \/ ReadWantsWrite
  <2>1. budget \in 0 .. Timeout /\ Timeout \in Nat
    BY WireTypes DEF WireAssumption
  <2>2. budget' = budget \/ (budget > 0 /\ budget' = budget - 1)
    BY <1>3 DEF ReadBlocked, ReadWantsWrite
  <2>3. budget' \in 0 .. Timeout
    BY <2>1, <2>2
  <2>4. read_blocked_on_write' \in BOOLEAN
    BY <1>3 DEF ReadBlocked, ReadWantsWrite
  <2> QED
    BY <1>3, <2>3, <2>4, WireTypes
       DEF ReadBlocked, ReadWantsWrite, client, sender, network, WireTypeOK
<1>4. CASE Killed
  BY <1>4, WireTypes DEF Killed, sender, reader, network, WireTypeOK
<1> QED
  BY <1>1, <1>2, <1>3, <1>4

LEMMA ReceiveTypes ==
  ASSUME WireAssumption, WireTypeOK, Receive
  PROVE  WireTypeOK' /\ ReceiveFits'
<1>1. PICK n \in 1 .. Len(incoming) : Received(SubSeq(incoming, 1, n)) /\ Take(n)
  BY DEF Receive
<1>2. SubSeq(incoming, 1, n) \in Text
  BY WireTypes, LenText, SubText
<1>3. call = "receive"
  BY DEF Receive
<1> QED
  BY <1>1, <1>2, <1>3, ReceivedTypes, TakeTypes, WireTypes DEF WireTypeOK, ReceiveFits

LEMMA SSLReadTypes ==
  ASSUME WireAssumption, WireTypeOK, SSL_read
  PROVE  WireTypeOK' /\ ReceiveFits'
<1> DEFINE text(n) == m_receive_buffer \o SubSeq(incoming, 1, n)
<1>1. PICK n \in 1 .. Len(incoming) :
        /\ Take(n)
        /\ \/ ~Fits(n) /\ Throw /\ UNCHANGED budget
           \/ Fits(n) /\ Received(text(n))
           \/ /\ Fits(n) /\ more' = TRUE /\ read_blocked_on_write' = FALSE
              /\ m_receive_buffer' = text(n)
              /\ UNCHANGED <<client, budget, line, codes>>
  BY DEF SSL_read
<1>2. Len(incoming) \in Nat /\ Len(m_receive_buffer) \in Nat
  BY WireTypes, LenText
<1>3. SubSeq(incoming, 1, n) \in Text /\ Len(SubSeq(incoming, 1, n)) = n
  BY <1>2, WireTypes, SubText
<1>4. text(n) \in Text /\ Len(text(n)) = Len(m_receive_buffer) + n
  BY <1>3, WireTypes, JoinText
<1>5. call = "receive"
  BY DEF SSL_read
<1> HIDE DEF text
<1>6. CASE ~Fits(n) /\ Throw /\ UNCHANGED budget
  BY <1>1, <1>6, ThrowTypes, TakeTypes DEF sender, ReceiveFits
<1>7. CASE Received(text(n))
  BY <1>1, <1>4, <1>5, <1>7, ReceivedTypes, TakeTypes, WireTypes DEF WireTypeOK, ReceiveFits
<1>8. CASE /\ Fits(n) /\ more' = TRUE /\ read_blocked_on_write' = FALSE
           /\ m_receive_buffer' = text(n)
           /\ UNCHANGED <<client, budget, line, codes>>
  <2>1. /\ call' = call /\ entry' = entry /\ thrown' = thrown /\ budget' = budget
        /\ line' = line /\ codes' = codes
    BY <1>8 DEF client
  <2>2. more' \in BOOLEAN /\ read_blocked_on_write' \in BOOLEAN
    BY <1>8
  <2>3. m_receive_buffer' \in Text /\ Len(m_receive_buffer') < BUFFER_SIZE
    BY <1>2, <1>4, <1>8 DEF Fits, WireAssumption
  <2> QED
    BY <1>1, <2>1, <2>2, <2>3, TakeTypes, WireTypes DEF WireTypeOK, ReceiveFits
<1> QED
  BY <1>1, <1>6, <1>7, <1>8

LEMMA FailsTypes ==
  ASSUME WireAssumption, WireTypeOK, Fails
  PROVE  WireTypeOK' /\ ReceiveFits'
<1>1. /\ sent' = sent /\ unwritten' = unwritten /\ closed' = closed /\ incoming' \in Text
  BY WireTypes DEF Fails, network
<1> QED
  BY <1>1, ThrowTypes DEF Fails, ReceiveFits

(* What no turn of a loop changes. *)
LEMMA WireSteps ==
  ASSUME WireAssumption, WireTypeOK, CallInv, ReceiveFits, WireStep
  PROVE  /\ WireTypeOK' /\ CallInv' /\ ReceiveFits'
         /\ UNCHANGED <<m_ssl, m_send_buffer, given, closed>>
         /\ ~thrown /\ call # "idle"
<1>1. CASE SendSome
  BY <1>1, SendSomeTypes DEF SendSome, Written, reader, CallInv, ReceiveFits
<1>2. CASE SSL_write
  BY <1>2, SSLWriteTypes DEF SSL_write, Written, reader, CallInv, ReceiveFits
<1>3. CASE WantWrite \/ WantRead \/ ReadBlocked \/ ReadWantsWrite \/ Killed
  <2>1. WireTypeOK'
    BY <1>3, BlockedTypes
  <2> QED
    BY <1>3, <2>1 DEF WantWrite, WantRead, ReadBlocked, ReadWantsWrite, Killed, client, sender,
                      reader, network, CallInv, ReceiveFits
<1>4. CASE Receive
  <2>1. /\ call' \in {"idle", "receive"} /\ (call' = "receive" => UNCHANGED thrown)
    BY <1>4 DEF Receive, Received, client
  <2> QED
    BY <1>4, <2>1, ReceiveTypes DEF Receive, Take, sender, CallInv
<1>5. CASE SSL_read
  <2>1. /\ call' \in {"idle", "receive"} /\ (call' = "receive" => UNCHANGED thrown)
    BY <1>5 DEF SSL_read, Received, Throw, client
  <2>2. UNCHANGED <<m_ssl, sender, closed>>
    BY <1>5 DEF SSL_read, Take
  <2>3. WireTypeOK' /\ ReceiveFits'
    BY <1>5, SSLReadTypes
  <2>4. call = "receive"
    BY <1>5 DEF SSL_read
  <2> QED
    BY <2>1, <2>2, <2>3, <2>4 DEF sender, CallInv
<1>6. CASE Fails
  BY <1>6, FailsTypes DEF Fails, Throw, sender, network, CallInv
<1> QED
  BY <1>1, <1>2, <1>3, <1>4, <1>5, <1>6 DEF WireStep

-----------------------------------------------------------------------------
(* What has got to the peer and what send_data was given.  This is         *)
(* NothingLostOrDoubled with what holds in the middle of a block.          *)
SentInv ==
  /\ ~m_ssl => unwritten = <<>>
  /\ failed_at = "nowhere" =>
       /\ IsPrefix(sent, given)
       /\ ~thrown /\ ~closed =>
            /\ call = "send" => given = sent \o Rest /\ unwritten \in {<<>>, Rest}
            /\ call # "send" => given = sent /\ unwritten = <<>>

LEMMA PrefixJoin ==
  ASSUME NEW s \in Text, NEW t \in Text, NEW u \in Text, IsPrefix(s, t)
  PROVE  IsPrefix(s, t \o u)
<1>1. /\ Len(s) \in Nat /\ Len(t) \in Nat /\ t \o u \in Text
      /\ Len(t \o u) = Len(t) + Len(u) /\ Len(u) \in Nat
  BY LenText, JoinText
<1>2. Len(s) <= Len(t) /\ SubSeq(s, 1, Len(s)) = SubSeq(t, 1, Len(s))
  BY DEF IsPrefix
<1>3. SubSeq(t \o u, 1, Len(s)) = SubSeq(t, 1, Len(s))
  <2>1. CASE Len(s) = 0
    BY <2>1, SubSeqEmpty
  <2>2. CASE Len(s) # 0
    <3>1. 1 \in 1 .. Len(t) /\ Len(s) \in 1 .. Len(t)
      BY <1>1, <1>2, <2>2
    <3> QED
      BY <3>1, SubSeqOfConcat1 DEF Text
  <2> QED
    BY <2>1, <2>2
<1> QED
  BY <1>1, <1>2, <1>3 DEF IsPrefix

LEMMA PrefixSelf ==
  ASSUME NEW s \in Text
  PROVE  IsPrefix(s, s)
BY LenText DEF IsPrefix

(* Joined pieces. *)
LEMMA JoinAssoc ==
  ASSUME NEW s \in Text, NEW t \in Text, NEW u \in Text
  PROVE  (s \o t) \o u = s \o (t \o u)
BY ConcatAssociative DEF Text

Together(s, t, u) == (s \o t) \o u = s \o (t \o u)

LEMMA JoinTogether ==
  ASSUME NEW s \in Text, NEW t \in Text, NEW u \in Text
  PROVE  Together(s, t, u)
BY JoinAssoc DEF Together

(* The same for four. *)
Regrouped(s, t, u, v) == (s \o t) \o (u \o v) = (s \o (t \o u)) \o v

LEMMA Reassociate ==
  ASSUME NEW s \in Text, NEW t \in Text, NEW u \in Text, NEW v \in Text
  PROVE  Regrouped(s, t, u, v)
<1>1. s \o t \in Text
  BY JoinText
<1>2. (s \o t) \o (u \o v) = ((s \o t) \o u) \o v
  BY <1>1, JoinAssoc
<1>3. (s \o t) \o u = s \o (t \o u)
  BY JoinAssoc
<1> QED
  BY <1>2, <1>3, Zenon DEF Regrouped

LEMMA JoinNothing ==
  ASSUME NEW s \in Text
  PROVE  s \o <<>> = s
BY ConcatEmptySeq DEF Text

(* The first n characters of the rest of a text. *)
LEMMA FirstOfRest ==
  ASSUME NEW s \in Text, NEW i \in 0 .. Len(s), NEW n \in 0 .. Len(s) - i
  PROVE  SubSeq(SubSeq(s, i + 1, Len(s)), 1, n) = SubSeq(s, i + 1, i + n)
<1>1. Len(s) \in Nat /\ s \in Seq(Char)
  BY LenText DEF Text
<1>2. CASE n = 0
  BY <1>1, <1>2, SubSeqEmpty
<1>3. CASE n # 0
  <2>1. /\ i + 1 \in 1 .. Len(s) /\ Len(s) \in 1 .. Len(s)
        /\ 1 \in 1 .. Len(s) - (i + 1) + 1 /\ n \in 1 .. Len(s) - (i + 1) + 1
    BY <1>1, <1>3
  <2>2. SubSeq(SubSeq(s, i + 1, Len(s)), 1, n) = SubSeq(s, (i + 1) + 1 - 1, (i + 1) + n - 1)
    BY <1>1, <2>1, SubSeqOfSubSeq
  <2> QED
    BY <1>1, <2>2
<1> QED
  BY <1>2, <1>3

(* The first n characters of a text, and the others. *)
LEMMA CutText ==
  ASSUME NEW s \in Text, NEW i \in 0 .. Len(s), NEW n \in 0 .. Len(s) - i
  PROVE  LET r == SubSeq(s, i + 1, Len(s)) IN
         r = SubSeq(r, 1, n) \o SubSeq(s, i + n + 1, Len(s))
<1> DEFINE r == SubSeq(s, i + 1, Len(s))
<1>1. Len(s) \in Nat /\ s \in Seq(Char)
  BY LenText DEF Text
<1>2. SubSeq(r, 1, n) = SubSeq(s, i + 1, i + n)
  BY FirstOfRest
<1>3. /\ i + 1 \in 1 .. Len(s) + 1 /\ i + n \in (i + 1) - 1 .. Len(s)
      /\ Len(s) \in i + n .. Len(s)
  BY <1>1
<1>4. SubSeq(s, i + 1, i + n) \o SubSeq(s, i + n + 1, Len(s)) = SubSeq(s, i + 1, Len(s))
  BY <1>1, <1>3, ConcatAdjacentSubSeq
<1> QED
  BY <1>2, <1>4

-----------------------------------------------------------------------------
(* Every turn of a loop keeps SentInv. *)
LEMMA WrittenSent ==
  ASSUME WireTypeOK, CallInv, SentInv, call = "send", UNCHANGED failed_at,
         NEW chars \in Text, Written(chars), ~m_ssl => unwritten' = <<>>,
         ~closed /\ failed_at = "nowhere" =>
                    /\ chars \o SubSeq(m_send_buffer, idx + Len(chars) + 1, Len(m_send_buffer)) = Rest
                    /\ unwritten' = <<>>
  PROVE  SentInv'
<1> DEFINE rest == SubSeq(m_send_buffer, idx + Len(chars) + 1, Len(m_send_buffer))
<1>1. /\ m_ssl' = m_ssl /\ given' = given /\ closed' = closed /\ thrown' = thrown /\ Rest' = rest /\ ~thrown
      /\ call' = (IF Len(chars) = nLeft THEN "idle" ELSE "send")
      /\ sent' = (IF closed THEN sent ELSE sent \o chars)
  BY DEF Written, CallInv, Rest
<1>2. Len(m_send_buffer) \in Nat /\ idx \in 0 .. Len(m_send_buffer) /\ Len(chars) \in Nat
  BY WireTypes, LenText
<1>3. rest \in Text /\ (Len(chars) = nLeft => rest = <<>>)
  <2>1. idx + Len(chars) + 1 \in Nat \ {0}
    BY <1>2
  <2>2. rest \in Text
    BY <1>2, <2>1, SubText, WireTypes
  <2> QED
    BY <1>2, <2>2, SubSeqEmpty DEF nLeft
<1> HIDE DEF rest
<1>4. CASE closed
  BY <1>1, <1>4 DEF SentInv
<1>5. CASE ~closed /\ failed_at = "nowhere"
  <2>1. given = sent \o (chars \o rest)
    BY <1>1, <1>5 DEF SentInv, rest
  <2>2. sent \in Text /\ sent' = sent \o chars
    BY <1>1, <1>5, WireTypes
  <2>3. sent' \in Text /\ given = sent' \o rest
    BY <1>3, <2>1, <2>2, JoinText, JoinAssoc
  <2>4. IsPrefix(sent', given)
    BY <1>3, <2>3, PrefixSelf, PrefixJoin
  <2>5. CASE Len(chars) = nLeft
    BY <1>1, <1>3, <1>5, <2>3, <2>4, <2>5, JoinNothing DEF SentInv
  <2>6. CASE Len(chars) # nLeft
    BY <1>1, <1>5, <2>3, <2>4, <2>6 DEF SentInv
  <2> QED
    BY <2>5, <2>6
<1>6. CASE failed_at # "nowhere"
  BY <1>1, <1>6 DEF SentInv
<1> QED
  BY <1>4, <1>5, <1>6

LEMMA WireSent ==
  ASSUME WireAssumption, WireTypeOK, CallInv, ReceiveFits, SentInv, WireStep, UNCHANGED failed_at
  PROVE  SentInv'
<1>1. CASE SendSome
  <2>1. PICK n \in 1 .. nLeft : Written(SubSeq(Rest, 1, n))
    BY <1>1 DEF SendSome
  <2>2. /\ SubSeq(Rest, 1, n) \in Text /\ Len(SubSeq(Rest, 1, n)) = n
    BY RestText, SubText
  <2>3. n \in 0 .. Len(m_send_buffer) - idx /\ idx \in 0 .. Len(m_send_buffer)
    BY WireTypes, LenText DEF nLeft
  <2>4. SubSeq(Rest, 1, n) \o SubSeq(m_send_buffer, idx + n + 1, Len(m_send_buffer)) = Rest
    <3>1. m_send_buffer \in Text
      BY WireTypes
    <3>2. LET r == SubSeq(m_send_buffer, idx + 1, Len(m_send_buffer)) IN
          r = SubSeq(r, 1, n) \o SubSeq(m_send_buffer, idx + n + 1, Len(m_send_buffer))
      BY <2>3, <3>1, CutText
    <3> QED
      BY <3>2, Zenon DEF Rest
  <2>5. call = "send" /\ unwritten' = <<>>
    BY <1>1 DEF SendSome, SentInv
  <2> QED
    BY <2>1, <2>2, <2>4, <2>5, WrittenSent
<1>2. CASE SSL_write
  <2>1. call = "send" /\ Written(record) /\ unwritten' = <<>>
    BY <1>2 DEF SSL_write
  <2>2. record \in Text
    BY RestText
  <2>3. ASSUME ~closed, failed_at = "nowhere"
        PROVE  record \o SubSeq(m_send_buffer, idx + Len(record) + 1, Len(m_send_buffer)) = Rest
    <3>1. record = Rest
      BY <2>1, <2>3 DEF record, SentInv, CallInv
    <3>2. /\ Len(m_send_buffer) \in Nat /\ idx \in Nat
          /\ idx + Len(record) + 1 = Len(m_send_buffer) + 1
      <4>1. Len(m_send_buffer) \in Nat /\ idx \in 0 .. Len(m_send_buffer)
        BY WireTypes, LenText
      <4>2. Len(record) = Len(m_send_buffer) - idx
        BY <3>1, RestText DEF nLeft
      <4> QED
        BY <4>1, <4>2
    <3>3. SubSeq(m_send_buffer, idx + Len(record) + 1, Len(m_send_buffer)) = <<>>
      BY <3>2, SubSeqEmpty
    <3> QED
      BY <3>1, <3>3, RestText, JoinNothing
  <2> QED
    BY <2>1, <2>2, <2>3, WrittenSent
<1>3. CASE WantWrite
  BY <1>3 DEF WantWrite, client, record, SentInv, Rest
<1>4. CASE WantRead \/ ReadBlocked \/ ReadWantsWrite
  BY <1>4 DEF WantRead, ReadBlocked, ReadWantsWrite, client, sender, network, SentInv, Rest
<1>5. CASE Killed
  <2>1. closed /\ UNCHANGED <<m_ssl, given, sent, unwritten, closed, thrown>>
    BY <1>5 DEF Killed, sender, network
  <2> QED
    BY <2>1 DEF SentInv
<1>6. CASE Receive
  <2>1. call = "receive" /\ call' # "send" /\ (thrown => thrown')
    BY <1>6 DEF Receive, Received, client, CallInv
  <2>2. UNCHANGED <<m_ssl, given, sent, unwritten, closed>>
    BY <1>6 DEF Receive, Take, sender
  <2> QED
    BY <2>1, <2>2 DEF SentInv, CallInv
<1>7. CASE SSL_read
  <2>1. call = "receive" /\ call' # "send" /\ (thrown => thrown')
    BY <1>7 DEF SSL_read, Received, Throw, client, CallInv
  <2>2. UNCHANGED <<m_ssl, given, sent, unwritten, closed>>
    BY <1>7 DEF SSL_read, Take, sender
  <2> QED
    BY <2>1, <2>2 DEF SentInv, CallInv
<1>8. CASE Fails
  BY <1>8 DEF Fails, Throw, sender, network, SentInv, Rest
<1> QED
  BY <1>1, <1>2, <1>3, <1>4, <1>5, <1>6, <1>7, <1>8 DEF WireStep

-----------------------------------------------------------------------------
(* What is said of the wire, step by step of send_mail.  SendFits holds of  *)
(* the texts as the model has them; of the code's it is claimed for the    *)
(* lines of a file only (BuffersFit).                                      *)
SendFits == Len(m_send_buffer) < BUFFER_SIZE

WireInv == WireTypeOK /\ CallInv /\ SendFits /\ ReceiveFits /\ SentInv

LEMMA SizeFacts ==
  ASSUME WireAssumption, DataAssumption
  PROVE  /\ BUFFER_SIZE \in Nat /\ LineBytes \in Nat \ {0} /\ LineBytes % 3 = 0
         /\ LineBytes >= 3 /\ BUFFER_SIZE >= 4 * LineBytes + 7 /\ MaxTotal \in Nat
BY DEF WireAssumption, DataAssumption

(* A block is passed to send_data. *)
LEMMA SendsWire ==
  ASSUME WireAssumption, WireInv, NEW row \in Steps, NEW text \in Text,
         Len(text) < BUFFER_SIZE, NEW p, Sends(row, text, p), call = "idle", ~thrown
  PROVE  /\ WireInv'
         /\ thrown' = thrown
         /\ pc' = p
         /\ UNCHANGED <<message, total_size, hFile, m_bConnected, history, peer>>
<1>1. send_data(row, text) /\ pc' = p
      /\ UNCHANGED <<message, total_size, hFile, m_bConnected, history, peer>>
  BY DEF Sends, Goto
<1>2. WireTypeOK'
  BY <1>1, SendDataTypes DEF WireInv
<1>3. /\ m_send_buffer' = text /\ idx' = 0 /\ call' = "send" /\ thrown' = thrown
      /\ given' = given \o text /\ UNCHANGED <<m_ssl, sent, unwritten, closed, m_receive_buffer>>
  BY <1>1 DEF send_data, reader, network
<1>4. Rest' = text
  BY <1>3, SubSeqFull DEF Rest, Text
<1>5. failed_at' = failed_at
  BY <1>1 DEF history
<1>6. sent \in Text /\ given \in Text
  BY WireTypes DEF WireInv
<1>7. IsPrefix(sent, given) => IsPrefix(sent, given \o text)
  BY <1>6, PrefixJoin
<1>8. SentInv'
  BY <1>3, <1>4, <1>5, <1>7 DEF WireInv, SentInv
<1> QED
  BY <1>1, <1>2, <1>3, <1>8 DEF WireInv, CallInv, SendFits, ReceiveFits

(* An exception of send_mail itself. *)
LEMMA RaiseWire ==
  ASSUME WireAssumption, WireInv, Raise, call = "idle", failed_at' = failed_at
  PROVE  WireInv' /\ thrown' = TRUE /\ m_send_buffer' = m_send_buffer
<1>1. /\ UNCHANGED <<m_ssl, budget, sender>> /\ sent' = sent /\ unwritten' = unwritten
      /\ closed' = closed /\ incoming' = incoming /\ incoming \in Text
  BY WireTypes DEF Raise, network, WireInv
<1>2. WireTypeOK' /\ ReceiveFits'
  BY <1>1, ThrowTypes DEF Raise, WireInv, ReceiveFits
<1>3. /\ call' = "idle" /\ thrown' = TRUE /\ m_send_buffer' = m_send_buffer /\ given' = given
  BY <1>1 DEF Raise, Throw, sender
<1>4. SentInv'
  BY <1>1, <1>3 DEF WireInv, SentInv
<1> QED
  BY <1>2, <1>3, <1>4 DEF WireInv, CallInv, SendFits

(* A step that leaves the wire alone. *)
LEMMA SameWire ==
  ASSUME WireInv, UNCHANGED wireVars, failed_at' = failed_at
  PROVE  WireInv'
<1>1. /\ m_ssl' = m_ssl /\ call' = call /\ entry' = entry /\ thrown' = thrown /\ budget' = budget
      /\ m_send_buffer' = m_send_buffer /\ idx' = idx /\ given' = given
      /\ write_blocked_on_read' = write_blocked_on_read
      /\ m_receive_buffer' = m_receive_buffer /\ more' = more /\ line' = line /\ codes' = codes
      /\ read_blocked_on_write' = read_blocked_on_write
      /\ sent' = sent /\ unwritten' = unwritten /\ incoming' = incoming /\ closed' = closed
  BY DEF wireVars, client, sender, reader, network
<1>2. WireTypeOK'
  BY <1>1 DEF WireInv, WireTypeOK
<1>3. CallInv' /\ SendFits' /\ ReceiveFits'
  BY <1>1 DEF WireInv, CallInv, SendFits, ReceiveFits
<1>4. SentInv'
  <2>1. Rest' = Rest /\ IsPrefix(sent, given)' = IsPrefix(sent, given)
    BY <1>1, Zenon DEF Rest, IsPrefix
  <2> QED
    BY <1>1, <2>1 DEF WireInv, SentInv
<1> QED
  BY <1>2, <1>3, <1>4 DEF WireInv

LEMMA AwaitWire ==
  ASSUME WireAssumption, WireInv, NEW row \in Steps, receive_response(row),
         call = "idle", ~thrown, failed_at' = failed_at
  PROVE  WireInv' /\ thrown' = thrown /\ m_send_buffer' = m_send_buffer
<1>1. WireTypeOK'
  BY ReceiveResponseTypes DEF WireInv
<1>2. /\ call' = "receive" /\ thrown' = thrown /\ m_receive_buffer' = <<>>
      /\ UNCHANGED <<m_ssl, m_send_buffer, given, sent, unwritten, closed>>
  BY DEF receive_response, sender, network
<1>3. SentInv'
  BY <1>2 DEF WireInv, SentInv
<1>4. ReceiveFits'
  BY <1>2, NoText DEF ReceiveFits, WireAssumption
<1> QED
  BY <1>1, <1>2, <1>3, <1>4 DEF WireInv, CallInv, SendFits

-----------------------------------------------------------------------------
(* What is said of send_mail itself. *)
ProgramTypeOK ==
  /\ message \in Messages /\ pc \in Points
  /\ at \in Nat /\ j \in Nat /\ msg_part \in Nat /\ total_size \in Nat /\ hFile \in Nat
  /\ fopens \in Nat /\ fcloses \in Nat /\ m_bConnected \in BOOLEAN
  /\ phase \in {"command", "data", "taken", "bye"}
  /\ failed_at \in Points \cup {"nowhere"}
  /\ answers \in Seq(0 .. 999)

(* The attachment send_mail is at is one of the message. *)
PlaceInv ==
  /\ at >= 1
  /\ pc \in {"open", "fill", "close"} => at <= Len(message.files)

(* Where an attachment is open, and where the catch clause has been. *)
FileInv ==
  /\ fopens = fcloses + (IF hFile = 0 THEN 0 ELSE 1)
  /\ pc \in {"fill", "close"} => hFile # 0
  /\ hFile # 0 => pc \in {"fill", "close"} \/ (pc = "check" /\ thrown)
  /\ pc \in {"quit", "bye", "failed"} <=> ~m_bConnected

(* What the buffer holds of a file, against the count that decides when it *)
(* is sent: four characters for three bytes, and CRLF behind each line.    *)
FillInv ==
  pc = "fill" =>
    /\ j <= LineCount /\ msg_part < FlushAt
    /\ msg_part > 0 =>
         3 * Len(m_send_buffer) <= 4 * msg_part + (IF j = LineCount THEN 6 ELSE 0)

ProgramInv == ProgramTypeOK /\ PlaceInv /\ FileInv /\ FillInv

Inv == WireInv /\ ProgramInv

LEMMA MessageFacts ==
  ASSUME DataAssumption, ProgramTypeOK
  PROVE  /\ message.lines \in Nat /\ message.files \in Seq(Seq(Bytes))
         /\ \A a \in message.answers \cup message.goodbyes : a.code \in 0 .. 999 /\ a.text \in Text
         /\ Len(message.files) \in Nat
<1>1. message \in [lines: Nat, files: Seq(Seq(Bytes)), answers: SUBSET Reply,
                  goodbyes: SUBSET Reply, endless: BOOLEAN]
  BY DEF DataAssumption, ProgramTypeOK
<1>2. message.lines \in Nat /\ message.files \in Seq(Seq(Bytes))
  BY <1>1
<1>3. message.answers \subseteq Reply /\ message.goodbyes \subseteq Reply
  BY <1>1
<1>4. \A a \in Reply : a.code \in 0 .. 999 /\ a.text \in Text
  BY DEF Reply, Text, Bytes, Char
<1>5. Len(message.files) \in Nat
  BY <1>2, LenProperties
<1> QED
  BY <1>2, <1>3, <1>4, <1>5

(* The j-th fread brings a full line, but for the last. *)
LEMMA FreadFacts ==
  ASSUME WireAssumption, DataAssumption, j \in Nat, file \in Seq(Bytes), j < LineCount
  PROVE  /\ LineCount \in Nat
         /\ fread \in Seq(Bytes) /\ Len(fread) \in Nat
         /\ Len(fread) = LineBytes \/ (Len(fread) < LineBytes /\ j + 1 = LineCount)
<1> DEFINE n == Len(file)
           q == n \div LineBytes
           first == j * LineBytes
           last == IF (j + 1) * LineBytes < n THEN (j + 1) * LineBytes ELSE n
<1>1. n \in Nat /\ LineBytes \in Nat \ {0}
  BY SizeFacts, LenProperties
<1>2. q \in Nat /\ q * LineBytes <= n /\ n < q * LineBytes + LineBytes
  BY <1>1, Z3
<1>3. LineCount = q + 1 /\ j <= q /\ j \in Nat
  BY <1>2 DEF LineCount
<1> HIDE DEF q
<1>4. first \in Nat /\ (j + 1) * LineBytes = first + LineBytes
  BY <1>1, <1>3, Z3
<1>5. first <= n /\ (j < q => first + LineBytes <= n) /\ (j = q => n < first + LineBytes)
  BY <1>1, <1>2, <1>3, Z3
<1> HIDE DEF first
<1>6. fread = SubSeq(file, first + 1, last) /\ last \in Nat /\ last <= n
      /\ (j < q => last = first + LineBytes)
      /\ (j = q => last = n)
  BY <1>1, <1>3, <1>4, <1>5 DEF fread, first
<1> HIDE DEF last
<1>7. \A i \in first + 1 .. last : file[i] \in Bytes
  BY <1>1, <1>4, <1>6, ElementOfSeq
<1>8. /\ fread \in Seq(Bytes)
      /\ Len(fread) = IF first + 1 <= last THEN last - (first + 1) + 1 ELSE 0
  BY <1>4, <1>6, <1>7, SubSeqProperties
<1> QED
  BY <1>1, <1>2, <1>3, <1>4, <1>5, <1>6, <1>8

(* How much a line adds to the buffer. *)
LEMMA LineSize ==
  ASSUME NEW b \in Seq(Bytes)
  PROVE  /\ 3 * Len(base64_encode(b)) <= 4 * Len(b) + 8
         /\ Len(b) % 3 = 0 => 3 * Len(base64_encode(b)) = 4 * Len(b)
         /\ Len(base64_encode(b)) \in Nat
<1>1. Len(b) \in Nat /\ Len(base64_encode(b)) = 4 * ((Len(b) + 2) \div 3)
  BY EncodeText, LenProperties
<1> QED
  BY <1>1

-----------------------------------------------------------------------------
(* The texts that are short whatever the message is. *)
LEMMA ShortTexts ==
  ASSUME WireAssumption, DataAssumption
  PROVE  /\ Header \in Text /\ Len(Header) < BUFFER_SIZE
         /\ TextLine \in Text /\ Len(TextLine) < BUFFER_SIZE
         /\ Blank \in Text /\ Len(Blank) < BUFFER_SIZE
         /\ Part \in Text /\ Len(Part) < BUFFER_SIZE
         /\ Closing \in Text /\ Len(Closing) < BUFFER_SIZE
         /\ FinalDot \in Text /\ Len(FinalDot) < BUFFER_SIZE
         /\ Quit \in Text /\ Len(Quit) < BUFFER_SIZE
<1>1. BUFFER_SIZE >= 19 /\ BUFFER_SIZE \in Nat
  BY SizeFacts
<1>2. /\ Header \in Text /\ Len(Header) = 3 /\ TextLine \in Text /\ Len(TextLine) = 4
      /\ Blank \in Text /\ Len(Blank) = 3 /\ Quit \in Text /\ Len(Quit) = 6
      /\ FinalDot \in Text /\ Len(FinalDot) = 5
  BY DEF Header, TextLine, Blank, Quit, FinalDot, CRLF, CR, LF, Text, Char
<1>3. /\ Part \in Text /\ Len(Part) = 7 /\ Closing \in Text /\ Len(Closing) = 9
  BY DEF Part, Closing, CRLF, CR, LF, Text, Char
<1> QED
  BY <1>1, <1>2, <1>3

(* A step of the peer, or none, leaves the program alone. *)
LEMMA SameProgram ==
  ASSUME ProgramInv, UNCHANGED <<program, history>>, m_send_buffer' = m_send_buffer,
         thrown' = thrown, phase' \in {"command", "data", "taken", "bye"}, answers' \in Seq(0 .. 999)
  PROVE  ProgramInv'
<1>1. /\ message' = message /\ pc' = pc /\ at' = at /\ j' = j /\ msg_part' = msg_part
      /\ total_size' = total_size /\ hFile' = hFile /\ m_bConnected' = m_bConnected
      /\ fopens' = fopens /\ fcloses' = fcloses /\ failed_at' = failed_at
  BY DEF program, history
<1>2. ProgramTypeOK'
  BY <1>1 DEF ProgramInv, ProgramTypeOK
<1>3. PlaceInv'
  BY <1>1 DEF ProgramInv, PlaceInv
<1>4. FillInv'
  <2>1. LineCount' = LineCount /\ FlushAt' = FlushAt
    BY <1>1, Zenon DEF LineCount, FlushAt, file
  <2> QED
    BY <1>1, <2>1 DEF ProgramInv, FillInv
<1>5. FileInv'
  <2>1. FileInv
    BY DEF ProgramInv
  <2>2. fopens' = fcloses' + (IF hFile' = 0 THEN 0 ELSE 1)
    BY <1>1, <2>1, Zenon DEF FileInv
  <2>3. /\ pc' \in {"fill", "close"} => hFile' # 0
        /\ hFile' # 0 => pc' \in {"fill", "close"} \/ (pc' = "check" /\ thrown')
    <3>1. /\ pc \in {"fill", "close"} => hFile # 0
          /\ hFile # 0 => pc \in {"fill", "close"} \/ (pc = "check" /\ thrown)
      BY <2>1 DEF FileInv
    <3>2. pc' = pc /\ hFile' = hFile /\ thrown' = thrown
      BY <1>1
    <3> QED
      BY <3>1, <3>2, SMT
  <2>4. pc' \in {"quit", "bye", "failed"} <=> ~m_bConnected'
    <3>1. pc \in {"quit", "bye", "failed"} <=> ~m_bConnected
      BY <2>1 DEF FileInv
    <3>2. pc' = pc /\ m_bConnected' = m_bConnected
      BY <1>1
    <3> QED
      BY <3>1, <3>2, Zenon
  <2> QED
    BY <2>2, <2>3, <2>4, Zenon DEF FileInv
<1> QED
  BY <1>2, <1>3, <1>4, <1>5 DEF ProgramInv

(* The rows send_mail uses. *)
LEMMA Rows == {"DATABLOCK", "DATAEND", "QUIT", "DATA"} \subseteq Steps
BY DEF Steps, MailSteps

LEMMA CheckFileInv ==
  ASSUME WireAssumption, DataAssumption, Inv, CheckFile
  PROVE  Inv'
<1> USE DEF Inv, ProgramInv
<1>1. /\ pc = "check" /\ call = "idle" /\ ~thrown /\ at <= Len(message.files) /\ hFile = 0
  BY DEF CheckFile, Ready, FileInv
<1>2. CASE Raise /\ UNCHANGED <<program, history>>
  <2>1. WireInv'
    BY <1>1, <1>2, RaiseWire DEF history
  <2> QED
    BY <1>1, <1>2, <2>1 DEF CheckFile, program, history, peer, ProgramTypeOK, PlaceInv,
                            FileInv, FillInv, Points, Final
<1>3. CASE LET total == total_size + Len(message.files[at]) IN
             /\ total_size' = total /\ fopens' = fopens + 1
             /\ IF total > MaxTotal
                  THEN Raise /\ hFile' = at /\ UNCHANGED <<at, fcloses>>
                  ELSE at' = at + 1 /\ fcloses' = fcloses + 1 /\ UNCHANGED <<wireVars, hFile>>
             /\ UNCHANGED <<message, pc, j, msg_part, m_bConnected, failed_at>>
  <2>1. message.files[at] \in Seq(Bytes) /\ at \in Nat /\ at >= 1
    BY <1>1, MessageFacts, ElementOfSeq DEF ProgramTypeOK, PlaceInv
  <2>2. total_size' \in Nat
    BY <1>3, <2>1, LenProperties DEF ProgramTypeOK
  <2>3. CASE total_size' > MaxTotal
    <3>1. Raise /\ hFile' = at /\ UNCHANGED <<at, fcloses>> /\ failed_at' = failed_at
      BY <1>3, <2>3
    <3>2. WireInv' /\ thrown'
      BY <1>1, <3>1, RaiseWire
    <3> QED
      BY <1>1, <1>3, <2>1, <2>2, <3>1, <3>2
         DEF CheckFile, peer, ProgramTypeOK, PlaceInv, FileInv, FillInv
  <2>4. CASE ~(total_size' > MaxTotal)
    <3>1. at' = at + 1 /\ fcloses' = fcloses + 1 /\ UNCHANGED <<wireVars, hFile>>
      BY <1>3, <2>4
    <3>2. WireInv'
      BY <1>3, <3>1, SameWire
    <3> QED
      BY <1>1, <1>3, <2>1, <2>2, <3>1, <3>2
         DEF CheckFile, peer, ProgramTypeOK, PlaceInv, FileInv, FillInv
  <2> QED
    BY <2>3, <2>4
<1> QED
  BY <1>2, <1>3 DEF CheckFile

LEMMA OpenFileInv ==
  ASSUME WireAssumption, DataAssumption, Inv, OpenFile
  PROVE  Inv'
<1> USE DEF Inv, ProgramInv
<1>1. pc = "open" /\ call = "idle" /\ ~thrown /\ hFile = 0
  BY DEF OpenFile, Ready, FileInv
<1>2. CASE Raise /\ UNCHANGED <<program, history>>
  <2>1. WireInv'
    BY <1>1, <1>2, RaiseWire DEF history
  <2> QED
    BY <1>1, <1>2, <2>1 DEF OpenFile, program, history, peer, ProgramTypeOK, PlaceInv,
                            FileInv, FillInv
<1>3. CASE /\ Goto("fill") /\ hFile' = at /\ fopens' = fopens + 1
           /\ j' = 0 /\ msg_part' = 0
           /\ UNCHANGED <<wireVars, at, total_size, m_bConnected, fcloses, failed_at>>
  <2>1. WireInv'
    BY <1>3, SameWire
  <2>2. file \in Seq(Bytes) /\ at \in Nat /\ at >= 1
    BY <1>1, MessageFacts, ElementOfSeq DEF ProgramTypeOK, PlaceInv, file
  <2>3. 0 <= LineCount /\ 0 < FlushAt
    <3>1. Len(file) \in Nat /\ LineBytes \in Nat \ {0} /\ BUFFER_SIZE >= 2 /\ BUFFER_SIZE \in Nat
      BY <2>2, SizeFacts, LenProperties
    <3>2. Len(file) \div LineBytes >= 0
      BY <3>1, Z3
    <3> QED
      BY <3>1, <3>2 DEF LineCount, FlushAt
  <2>4. /\ pc' = "fill" /\ message' = message /\ LineCount' = LineCount
    BY <1>3 DEF Goto, LineCount, file
  <2>5. ProgramTypeOK' /\ PlaceInv'
    BY <1>1, <1>3, <2>2, <2>4 DEF OpenFile, peer, ProgramTypeOK, PlaceInv, Points, Final
  <2>6. FileInv'
    BY <1>1, <1>3, <2>2, <2>4 DEF FileInv, ProgramTypeOK
  <2>7. FillInv'
    BY <1>3, <2>3, <2>4 DEF FillInv, FlushAt
  <2> QED
    BY <2>1, <2>5, <2>6, <2>7
<1> QED
  BY <1>2, <1>3 DEF OpenFile

(* A block that is not made of an attachment. *)
LEMMA SendsInv ==
  ASSUME WireAssumption, DataAssumption, Inv, NEW row \in {"DATABLOCK", "DATAEND"},
         NEW text \in Text, Len(text) < BUFFER_SIZE,
         NEW p \in {"lines", "part", "open", "end", "answer"}, Sends(row, text, p),
         call = "idle", ~thrown, pc \notin {"fill", "close", "quit", "bye", "failed"},
         at' \in Nat, at' >= 1, p = "open" => at' <= Len(message.files),
         UNCHANGED <<j, msg_part>>
  PROVE  Inv'
<1>1. /\ WireInv' /\ thrown' = thrown /\ pc' = p
      /\ UNCHANGED <<message, total_size, hFile, m_bConnected, history, peer>>
  BY Rows, SendsWire DEF Inv
<1>2. hFile = 0 /\ m_bConnected
  BY DEF Inv, ProgramInv, FileInv, ProgramTypeOK
<1>3. UNCHANGED <<fopens, fcloses, failed_at, phase, answers>>
  BY <1>1 DEF history, peer
<1>4. ProgramTypeOK'
  BY <1>1, <1>3 DEF Inv, ProgramInv, ProgramTypeOK, Points
<1>5. PlaceInv' /\ FileInv' /\ FillInv'
  BY <1>1, <1>2, <1>3 DEF Inv, ProgramInv, PlaceInv, FileInv, FillInv
<1> QED
  BY <1>1, <1>4, <1>5 DEF Inv, ProgramInv

LEMMA BlocksInv ==
  ASSUME WireAssumption, DataAssumption, Inv,
         SendHeader \/ SendLines \/ SendPart \/ SendClosing \/ SendFinalDot
  PROVE  Inv'
<1>0. at \in Nat /\ at >= 1
  BY DEF Inv, ProgramInv, ProgramTypeOK, PlaceInv
<1>1. CASE SendHeader
  BY <1>1, SendsInv, ShortTexts DEF SendHeader, Ready
<1>2. CASE SendLines
  <2>1. /\ call = "idle" /\ ~thrown /\ pc = "lines" /\ at' \in Nat /\ at' >= 1
        /\ UNCHANGED <<j, msg_part>>
    BY <1>0, <1>2 DEF SendLines, Ready
  <2>2. CASE message.lines = 0
    <3>1. Sends("DATABLOCK", Blank, "part")
      BY <1>2, <2>2 DEF SendLines
    <3> QED
      BY <2>1, <3>1, SendsInv, ShortTexts
  <2>3. CASE message.lines # 0
    <3> DEFINE p == IF at < message.lines THEN "lines" ELSE "part"
    <3>1. Sends("DATABLOCK", TextLine, p)
      BY <1>2, <2>3 DEF SendLines
    <3>2. p \in {"lines", "part"}
      OBVIOUS
    <3> HIDE DEF p
    <3> QED
      BY <2>1, <3>1, <3>2, SendsInv, ShortTexts
  <2> QED
    BY <2>2, <2>3
<1>3. CASE SendPart
  BY <1>0, <1>3, SendsInv, ShortTexts DEF SendPart, Ready
<1>4. CASE SendClosing
  BY <1>0, <1>4, SendsInv, ShortTexts DEF SendClosing, Ready
<1>5. CASE SendFinalDot
  BY <1>0, <1>5, SendsInv, ShortTexts DEF SendFinalDot, Ready
<1> QED
  BY <1>1, <1>2, <1>3, <1>4, <1>5

(* A line of a file goes into the buffer, which then may go out. *)
LEMMA FillLineInv ==
  ASSUME WireAssumption, DataAssumption, Inv, FillLine
  PROVE  Inv'
<1> DEFINE held   == IF msg_part = 0 THEN <<>> ELSE m_send_buffer
           block  == held \o base64_encode(fread) \o CRLF
           length == msg_part + Len(fread) + 2
<1>1. /\ pc = "fill" /\ call = "idle" /\ ~thrown /\ j < LineCount /\ j' = j + 1 /\ at' = at
  BY DEF FillLine, Ready
<1>2. /\ j \in Nat /\ msg_part \in Nat /\ at \in Nat /\ at >= 1 /\ at <= Len(message.files)
      /\ msg_part < FlushAt
      /\ msg_part > 0 => 3 * Len(m_send_buffer) <= 4 * msg_part
  BY <1>1 DEF Inv, ProgramInv, ProgramTypeOK, PlaceInv, FillInv
<1>3. file \in Seq(Bytes)
  BY <1>2, MessageFacts, ElementOfSeq DEF file, Inv, ProgramInv
<1>4. /\ LineCount \in Nat /\ fread \in Seq(Bytes) /\ Len(fread) \in Nat
      /\ Len(fread) = LineBytes \/ (Len(fread) < LineBytes /\ j + 1 = LineCount)
  BY <1>1, <1>2, <1>3, FreadFacts
<1>5. /\ base64_encode(fread) \in Text /\ Len(base64_encode(fread)) \in Nat
      /\ 3 * Len(base64_encode(fread)) <= 4 * Len(fread) + 8
      /\ (Len(fread) = LineBytes => 3 * Len(base64_encode(fread)) = 4 * Len(fread))
  BY <1>4, EncodeText, LineSize, SizeFacts
<1>6. held \in Text /\ Len(held) \in Nat /\ 3 * Len(held) <= 4 * msg_part
  BY <1>2, NoText, WireTypes, LenText DEF Inv, WireInv
<1>7. CRLF \in Text /\ Len(CRLF) = 2
  BY DEF CRLF, CR, LF, Text, Char
<1> HIDE DEF held
<1>8. block \in Text /\ Len(block) = Len(held) + Len(base64_encode(fread)) + 2 /\ Len(block) \in Nat
  <2> DEFINE most == held \o base64_encode(fread)
  <2>1. most \in Text /\ Len(most) = Len(held) + Len(base64_encode(fread))
    BY <1>5, <1>6, JoinText
  <2> HIDE DEF most
  <2>2. most \o CRLF \in Text /\ Len(most \o CRLF) = Len(most) + 2
    BY <1>7, <2>1, JoinText
  <2> QED
    BY <1>5, <1>6, <2>1, <2>2 DEF most
<1>9. /\ length \in Nat /\ length > 0
      /\ 3 * Len(block) <= 4 * length + (IF j + 1 = LineCount THEN 6 ELSE 0)
  <2> HIDE DEF block
  <2>1. CASE Len(fread) = LineBytes
    BY <1>2, <1>4, <1>5, <1>6, <1>8, <2>1
  <2>2. CASE Len(fread) < LineBytes /\ j + 1 = LineCount
    BY <1>2, <1>4, <1>5, <1>6, <1>8, <2>2
  <2> QED
    BY <1>4, <2>1, <2>2
<1>10. Len(block) < BUFFER_SIZE
  <2>1. 2 * msg_part <= BUFFER_SIZE - 2
    BY <1>2, SizeFacts DEF FlushAt
  <2>2. CASE Len(fread) = LineBytes
    BY <1>2, <1>4, <1>5, <1>6, <1>8, <2>1, <2>2, SizeFacts
  <2>3. CASE Len(fread) < LineBytes
    BY <1>2, <1>4, <1>5, <1>6, <1>8, <2>1, <2>3, SizeFacts
  <2> QED
    BY <1>4, <2>2, <2>3, SizeFacts
<1> HIDE DEF block, length
<1>11. \/ length >= FlushAt /\ msg_part' = 0 /\ Sends("DATABLOCK", block, "fill")
       \/ /\ length < FlushAt /\ msg_part' = length /\ m_send_buffer' = block /\ idx' = 0
          /\ UNCHANGED <<m_ssl, client, budget, write_blocked_on_read, given, reader, network>>
          /\ UNCHANGED <<message, pc, total_size, hFile, m_bConnected, history, peer>>
  <2>1. IF length >= FlushAt
          THEN msg_part' = 0 /\ Sends("DATABLOCK", block, "fill")
          ELSE /\ msg_part' = length /\ m_send_buffer' = block /\ idx' = 0
               /\ UNCHANGED <<m_ssl, client, budget, write_blocked_on_read, given, reader, network>>
               /\ UNCHANGED <<message, pc, total_size, hFile, m_bConnected, history, peer>>
    BY Zenon DEF FillLine, block, length, held
  <2>2. ~(length >= FlushAt) => length < FlushAt
    BY <1>9, SizeFacts DEF FlushAt
  <2> QED
    BY <2>1, <2>2, Zenon
<1>12. /\ WireInv' /\ thrown' = thrown /\ pc' = "fill"
       /\ UNCHANGED <<message, total_size, hFile, m_bConnected, history, peer>>
  <2>1. CASE Sends("DATABLOCK", block, "fill")
    BY <1>1, <1>8, <1>10, <2>1, Rows, SendsWire DEF Inv
  <2>2. CASE /\ m_send_buffer' = block /\ idx' = 0
             /\ UNCHANGED <<m_ssl, client, budget, write_blocked_on_read, given, reader, network>>
             /\ UNCHANGED <<message, pc, total_size, hFile, m_bConnected, history, peer>>
    <3>1. /\ call' = call /\ thrown' = thrown /\ failed_at' = failed_at
          /\ UNCHANGED <<m_receive_buffer, sent, unwritten, closed>>
      BY <2>2 DEF client, reader, network, history
    <3>2. WireTypeOK'
      <4>1. idx' \in 0 .. Len(m_send_buffer') /\ m_send_buffer' \in Text
        BY <1>8, <2>2
      <4> QED
        BY <2>2, <4>1, WireTypes DEF client, reader, network, Inv, WireInv, WireTypeOK
    <3>3. SentInv'
      BY <1>1, <2>2, <3>1 DEF Inv, WireInv, SentInv
    <3> QED
      BY <1>1, <1>10, <2>2, <3>1, <3>2, <3>3
         DEF Inv, WireInv, CallInv, SendFits, ReceiveFits
  <2> QED
    BY <1>11, <2>1, <2>2
<1>13. /\ msg_part' \in Nat /\ msg_part' < FlushAt
       /\ msg_part' > 0 => msg_part' = length /\ m_send_buffer' = block
  BY <1>9, <1>11, SizeFacts DEF FlushAt
<1>14. LineCount' = LineCount /\ FlushAt' = FlushAt
  BY <1>1, <1>12 DEF LineCount, FlushAt, file
<1>15. ProgramTypeOK'
  BY <1>1, <1>2, <1>12, <1>13 DEF history, peer, Inv, ProgramInv, ProgramTypeOK, Points
<1>16. PlaceInv' /\ FileInv'
  BY <1>1, <1>2, <1>12 DEF history, Inv, ProgramInv, PlaceInv, FileInv
<1>17. FillInv'
  BY <1>1, <1>2, <1>4, <1>9, <1>12, <1>13, <1>14 DEF FillInv
<1> QED
  BY <1>12, <1>15, <1>16, <1>17 DEF Inv, ProgramInv

LEMMA FlushRestInv ==
  ASSUME WireAssumption, DataAssumption, Inv, FlushRest
  PROVE  Inv'
<1>1. /\ pc = "fill" /\ call = "idle" /\ ~thrown /\ UNCHANGED <<at, j, msg_part>>
  BY DEF FlushRest, Ready
<1>2. /\ WireInv' /\ thrown' = thrown /\ pc' = "close"
      /\ UNCHANGED <<message, total_size, hFile, m_bConnected, history, peer>>
  <2>1. CASE msg_part > 0
    <3>1. Sends("DATABLOCK", m_send_buffer, "close")
      BY <2>1 DEF FlushRest
    <3>2. m_send_buffer \in Text /\ Len(m_send_buffer) < BUFFER_SIZE
      BY WireTypes DEF Inv, WireInv, SendFits
    <3> QED
      BY <1>1, <3>1, <3>2, Rows, SendsWire DEF Inv
  <2>2. CASE ~(msg_part > 0)
    <3>1. /\ Goto("close")
          /\ UNCHANGED <<wireVars, total_size, hFile, m_bConnected, history, peer>>
      BY <2>2 DEF FlushRest
    <3>2. failed_at' = failed_at /\ thrown' = thrown
      BY <3>1 DEF history, wireVars, client
    <3> QED
      BY <3>1, <3>2, SameWire DEF Goto, Inv
  <2> QED
    BY <2>1, <2>2
<1>3. UNCHANGED <<fopens, fcloses, failed_at, phase, answers>>
  BY <1>2 DEF history, peer
<1>4. ProgramTypeOK'
  BY <1>1, <1>2, <1>3 DEF Inv, ProgramInv, ProgramTypeOK, Points
<1>5. PlaceInv' /\ FileInv' /\ FillInv'
  BY <1>1, <1>2, <1>3 DEF Inv, ProgramInv, PlaceInv, FileInv, FillInv
<1> QED
  BY <1>2, <1>4, <1>5 DEF Inv, ProgramInv

(* The steps that leave the wire alone. *)
LEMMA QuietStepsInv ==
  ASSUME DataAssumption, Inv, EnvelopeAccepted \/ CloseFile \/ Leave \/ QuitFails
  PROVE  Inv'
<1>1. WireInv' /\ thrown' = thrown
  <2>1. UNCHANGED wireVars /\ failed_at' = failed_at
    BY DEF EnvelopeAccepted, CloseFile, Leave, QuitFails, history
  <2> QED
    BY <2>1, SameWire DEF wireVars, client, Inv
<1> USE DEF Inv, ProgramInv, Ready, Goto
<1>2. CASE EnvelopeAccepted
  BY <1>1, <1>2 DEF EnvelopeAccepted, history, ProgramTypeOK, PlaceInv, FileInv, FillInv, Points
<1>3. CASE CloseFile
  BY <1>1, <1>3 DEF CloseFile, peer, ProgramTypeOK, PlaceInv, FileInv, FillInv, Points
<1>4. CASE Leave
  BY <1>1, <1>4 DEF Leave, history, peer, ProgramTypeOK, PlaceInv, FileInv, FillInv, Points, Final
<1>5. CASE QuitFails
  BY <1>1, <1>5
     DEF QuitFails, history, peer, ProgramTypeOK, PlaceInv, FileInv, FillInv, Points, Final
<1> QED
  BY <1>2, <1>3, <1>4, <1>5

LEMMA AwaitAnswerInv ==
  ASSUME WireAssumption, DataAssumption, Inv, AwaitAnswer
  PROVE  Inv'
<1> USE DEF Inv, ProgramInv
<1>1. PICK p \in {"answer", "quit"}, row \in {"DATAEND", "QUIT"}, q \in {"answered", "bye"} :
        Awaits(p, row, q) /\ (p = "quit" <=> q = "bye")
  BY DEF AwaitAnswer
<1>2. /\ pc = p /\ call = "idle" /\ ~thrown /\ receive_response(row) /\ pc' = q
      /\ UNCHANGED <<message, at, j, msg_part, total_size, hFile, m_bConnected, history, peer>>
  BY <1>1 DEF Awaits, Ready, Goto
<1>3. failed_at' = failed_at
  BY <1>2 DEF history
<1>4. WireInv' /\ thrown' = thrown
  BY <1>2, <1>3, Rows, AwaitWire
<1> QED
  BY <1>1, <1>2, <1>4 DEF history, peer, ProgramTypeOK, PlaceInv, FileInv, FillInv, Points

(* The catch clause passes QUIT to send_data. *)
LEMMA CatchInv ==
  ASSUME WireAssumption, DataAssumption, Inv, Catch, ~Over
  PROVE  Inv'
<1> USE DEF Inv, ProgramInv
<1>1. /\ thrown /\ m_bConnected /\ failed_at' = pc /\ hFile' = 0 /\ m_bConnected' = FALSE
      /\ fcloses' = (IF hFile # 0 THEN fcloses + 1 ELSE fcloses)
      /\ pc' = "quit" /\ UNCHANGED <<message, at, j, msg_part, total_size, fopens, peer>>
  BY DEF Catch, Goto
<1>2. /\ call' = "send" /\ entry' = "QUIT" /\ thrown' = FALSE /\ budget' = Timeout
      /\ m_send_buffer' = Quit /\ idx' = 0 /\ write_blocked_on_read' = FALSE
      /\ given' = given \o Quit
      /\ m_ssl' = m_ssl /\ m_receive_buffer' = m_receive_buffer /\ more' = more
      /\ read_blocked_on_write' = read_blocked_on_write
      /\ line' = line /\ codes' = codes /\ sent' = sent /\ unwritten' = unwritten
      /\ incoming' = incoming /\ closed' = closed
  BY DEF Catch, reader, network
<1>3. WireTypeOK'
  <2>1. given' \in Text
    BY <1>2, WireTypes, JoinText, ShortTexts DEF WireInv
  <2>2. idx' \in 0 .. Len(m_send_buffer') /\ budget' \in 0 .. Timeout
    BY <1>2, ShortTexts, LenText DEF WireAssumption
  <2>3. m_send_buffer' \in Text /\ entry' \in Steps
    BY <1>2, ShortTexts, Rows
  <2>4. {m_receive_buffer, line, sent, unwritten, incoming, given}' \subseteq Text
    BY <1>2, <2>1, WireTypes DEF WireInv
  <2>5. /\ m_ssl' \in BOOLEAN /\ thrown' \in BOOLEAN /\ write_blocked_on_read' \in BOOLEAN
        /\ read_blocked_on_write' \in BOOLEAN
        /\ more' \in BOOLEAN /\ closed' \in BOOLEAN /\ codes' \in Seq(0 .. 999)
        /\ call' \in {"idle", "send", "receive", "killed"}
    BY <1>2, WireTypes DEF WireInv
  <2> QED
    BY <2>2, <2>3, <2>4, <2>5 DEF WireTypeOK
<1>4. failed_at' # "nowhere" /\ failed_at' \in Points
  BY <1>1 DEF ProgramTypeOK, Points, Final
<1>5. SentInv'
  BY <1>2, <1>4 DEF WireInv, SentInv
<1>6. WireInv'
  BY <1>2, <1>3, <1>5, ShortTexts DEF WireInv, CallInv, SendFits, ReceiveFits
<1>7. ProgramTypeOK'
  <2>1. fcloses' \in Nat /\ fopens' \in Nat /\ hFile' \in Nat
    BY <1>1 DEF ProgramTypeOK
  <2>2. pc' \in Points /\ m_bConnected' \in BOOLEAN
    BY <1>1 DEF Points
  <2> QED
    BY <1>1, <1>4, <2>1, <2>2 DEF peer, ProgramTypeOK
<1>8. PlaceInv' /\ FileInv' /\ FillInv'
  BY <1>1 DEF PlaceInv, FileInv, FillInv, ProgramTypeOK
<1> QED
  BY <1>6, <1>7, <1>8

(* A turn of a loop. *)
LEMMA WireStepInv ==
  ASSUME WireAssumption, Inv, WireStep, UNCHANGED <<program, history, peer>>
  PROVE  Inv'
<1>1. /\ WireTypeOK' /\ CallInv' /\ ReceiveFits' /\ m_send_buffer' = m_send_buffer
      /\ ~thrown
  BY WireSteps DEF Inv, WireInv
<1>2. failed_at' = failed_at
  BY DEF history
<1>3. SentInv'
  BY <1>2, WireSent DEF Inv, WireInv
<1>4. ProgramInv'
  BY <1>1 DEF program, history, peer, Inv, ProgramInv, ProgramTypeOK, PlaceInv, FileInv,
              FillInv, LineCount, FlushAt, file
<1> QED
  BY <1>1, <1>3, <1>4 DEF Inv, WireInv, SendFits

LEMMA ProgramStepInv ==
  ASSUME WireAssumption, DataAssumption, Inv, Program, ~Over
  PROVE  Inv'
BY CheckFileInv, OpenFileInv, BlocksInv, FillLineInv, FlushRestInv, QuietStepsInv,
   AwaitAnswerInv, CatchInv DEF Program

(* The peer says something, or nothing more. *)
(* What the peer says, continuation lines apart. *)
Speaks == AnswerMessage \/ AnswerQuit \/ Hangup

LEMMA PeerInv ==
  ASSUME WireAssumption, DataAssumption, Inv, Speaks
  PROVE  Inv'
<1>1. PICK text \in Text : PeerWrites(text)
  <2>1. <<50, 50, 49>> \o CRLF \in Text /\ <<>> \in Text
    BY NoText DEF CRLF, CR, LF, Text, Char
  <2> QED
    BY <2>1, MessageFacts DEF Speaks, AnswerMessage, AnswerQuit, Hangup, Inv, ProgramInv
<1>2. UNCHANGED <<program, history>> /\ closed' \in {closed, TRUE}
  BY DEF Speaks, AnswerMessage, AnswerQuit, Hangup
<1>3. phase' \in {"command", "data", "taken", "bye"} /\ answers' \in Seq(0 .. 999)
  <2>1. phase \in {"command", "data", "taken", "bye"} /\ answers \in Seq(0 .. 999) /\ 221 \in 0 .. 999
    BY DEF Inv, ProgramInv, ProgramTypeOK
  <2>2. \A a \in message.answers \cup message.goodbyes : Append(answers, a.code) \in Seq(0 .. 999)
    BY <2>1, MessageFacts, AppendProperties DEF Inv, ProgramInv
  <2>3. Append(answers, 221) \in Seq(0 .. 999)
    BY <2>1, AppendProperties
  <2>4. CASE AnswerMessage
    BY <2>2, <2>4 DEF AnswerMessage
  <2>5. CASE AnswerQuit
    BY <2>3, <2>5 DEF AnswerQuit
  <2>6. CASE Hangup
    <3>1. phase' = phase
      BY <2>6 DEF Hangup
    <3>2. \/ answers' = answers
          \/ \E a \in message.goodbyes : answers' = Append(answers, a.code)
      BY <2>6, Zenon DEF Hangup
    <3>3. ASSUME NEW a \in message.goodbyes, answers' = Append(answers, a.code)
          PROVE  answers' \in Seq(0 .. 999)
      <4>1. a \in message.answers \cup message.goodbyes
        BY <3>3
      <4> QED
        BY <2>2, <3>3, <4>1
    <3>4. answers' \in Seq(0 .. 999)
      BY <2>1, <3>2, <3>3
    <3> QED
      BY <2>1, <3>1, <3>4
  <2> QED
    BY <2>4, <2>5, <2>6 DEF Speaks
<1>4. incoming' \in Text
  BY <1>1, JoinText, WireTypes DEF PeerWrites, Inv, WireInv
<1>5. /\ m_ssl' = m_ssl /\ call' = call /\ entry' = entry /\ thrown' = thrown /\ budget' = budget
      /\ m_send_buffer' = m_send_buffer /\ idx' = idx /\ given' = given
      /\ write_blocked_on_read' = write_blocked_on_read
      /\ m_receive_buffer' = m_receive_buffer /\ more' = more /\ line' = line /\ codes' = codes
      /\ read_blocked_on_write' = read_blocked_on_write
      /\ sent' = sent /\ unwritten' = unwritten
  BY <1>1 DEF PeerWrites, client, sender, reader
<1>6. WireTypeOK'
  <2>1. {m_receive_buffer, line, sent, unwritten, incoming, given}' \subseteq Text
    BY <1>4, <1>5, WireTypes DEF Inv, WireInv
  <2>2. closed' \in BOOLEAN
    BY <1>2, WireTypes DEF Inv, WireInv
  <2> QED
    BY <1>5, <2>1, <2>2, WireTypes DEF Inv, WireInv, WireTypeOK
<1>7. WireInv'
  BY <1>2, <1>5, <1>6 DEF history, Inv, WireInv, CallInv, SendFits, ReceiveFits, SentInv, Rest
<1>8. ProgramInv'
  BY <1>2, <1>3, <1>5, SameProgram DEF Inv
<1> QED
  BY <1>7, <1>8 DEF Inv

(* The peer begins one more continuation line. *)
LEMMA LineChanges ==
  ASSUME ContinuationLine
  PROVE  /\ UNCHANGED <<m_ssl, call, entry, thrown, m_send_buffer, idx, write_blocked_on_read, given>>
         /\ UNCHANGED <<m_receive_buffer, more, line, codes, sent, unwritten, incoming, closed>>
         /\ UNCHANGED <<program, history, peer>>
         /\ budget' = Timeout /\ read_blocked_on_write' = FALSE
BY DEF ContinuationLine, client, sender, network

LEMMA LineInv ==
  ASSUME WireAssumption, Inv, ContinuationLine
  PROVE  Inv'
<1>1. WireTypeOK'
  BY LineChanges, WireTypes DEF Inv, WireInv, WireTypeOK, WireAssumption
<1>2. WireInv'
  <2>1. failed_at' = failed_at
    BY LineChanges DEF history
  <2>2. Rest' = Rest
    BY LineChanges DEF Rest
  <2>3. SentInv'
    <3>1. SentInv
      BY DEF Inv, WireInv
    <3> QED
      BY <2>1, <2>2, <3>1, LineChanges DEF SentInv
  <2> QED
    BY <1>1, <2>3, LineChanges DEF Inv, WireInv, CallInv, SendFits, ReceiveFits
<1>3. ProgramInv'
  <2>1. phase' \in {"command", "data", "taken", "bye"} /\ answers' \in Seq(0 .. 999)
    BY LineChanges DEF peer, Inv, ProgramInv, ProgramTypeOK
  <2> QED
    BY <2>1, LineChanges, SameProgram DEF Inv
<1> QED
  BY <1>2, <1>3 DEF Inv

-----------------------------------------------------------------------------
LEMMA InvInit ==
  ASSUME WireAssumption, DataAssumption, Init
  PROVE  Inv
<1>1. WireInit /\ message \in Messages /\ failed_at = "nowhere"
  BY DEF Init
<1>2. WireTypeOK
  <2>1. /\ m_ssl \in BOOLEAN /\ call = "idle" /\ entry \in Steps /\ thrown = FALSE
        /\ budget \in 0 .. Timeout /\ write_blocked_on_read = FALSE /\ more = FALSE
        /\ read_blocked_on_write = FALSE /\ closed = FALSE
    BY <1>1, Rows DEF WireInit, WireAssumption
  <2>2. m_send_buffer \in Text /\ idx \in 0 .. Len(m_send_buffer) /\ codes \in Seq(0 .. 999)
    BY <1>1, NoText, EmptySeq DEF WireInit
  <2>3. {m_receive_buffer, line, sent, unwritten, incoming, given} \subseteq Text
    BY <1>1, NoText DEF WireInit
  <2> QED
    BY <2>1, <2>2, <2>3 DEF WireTypeOK
<1>3. Rest = <<>> /\ IsPrefix(sent, given)
  BY <1>1, PrefixSelf, NoText, SubSeqEmpty DEF WireInit, Rest
<1>4. WireInv
  BY <1>1, <1>2, <1>3, NoText
     DEF WireInit, WireInv, CallInv, SendFits, ReceiveFits, SentInv, WireAssumption
<1>5. ProgramInv
  BY <1>1, EmptySeq
     DEF Init, WireInit, ProgramInv, ProgramTypeOK, PlaceInv, FileInv, FillInv, Points
<1> QED
  BY <1>4, <1>5 DEF Inv

LEMMA InvNext ==
  ASSUME WireAssumption, DataAssumption, Inv, [Next]_vars
  PROVE  Inv'
<1>1. CASE Program /\ ~Over
  BY <1>1, ProgramStepInv
<1>2. CASE WireStep /\ UNCHANGED <<program, history, peer>>
  BY <1>2, WireStepInv
<1>3. CASE Peer
  BY <1>3, PeerInv, LineInv DEF Peer, Speaks
<1>4. CASE UNCHANGED vars
  <2>1. UNCHANGED <<wireVars, program, history, peer>>
    BY <1>4 DEF vars
  <2>2. WireInv'
    BY <2>1, SameWire DEF history, Inv
  <2>3. m_send_buffer' = m_send_buffer /\ thrown' = thrown
    BY <2>1 DEF wireVars, sender, client
  <2>4. ProgramInv'
    BY <2>1, <2>3, SameProgram DEF peer, Inv, ProgramInv, ProgramTypeOK
  <2> QED
    BY <2>2, <2>4 DEF Inv
<1> QED
  BY <1>1, <1>2, <1>3, <1>4 DEF Next, ClientStep

(* The inductive invariant of the data phase: the socket loops and the     *)
(* program that calls them.                                                *)
THEOREM Invariance == Spec => []Inv
<1>1. Init => Inv
  BY InvInit, WireAssumption, DataAssumption
<1>2. Inv /\ [Next]_vars => Inv'
  BY InvNext, WireAssumption, DataAssumption
<1> QED
  BY <1>1, <1>2, PTL DEF Spec

(* The variables keep their types, for every message. *)
THEOREM TypeCorrect == Spec => []TypeOK
<1>1. Inv => TypeOK
  BY DEF Inv, WireInv, ProgramInv, ProgramTypeOK, TypeOK
<1> QED
  BY <1>1, Invariance, PTL

(* However long a file is, and however the lines of base64 fall, adding a  *)
(* line never writes beyond the end of the buffer of send_mail: one is     *)
(* added only while less than half of it is counted as used, and FillInv   *)
(* relates that count of bytes to the characters that are really there.    *)
(* What TLS brings fits into m_receive_buffer as well.  Nothing is said of *)
(* the header, the head of a part and recv(), for which the code has no    *)
(* such test.                                                              *)
THEOREM NoBufferOverrun == Spec => []BuffersFit
<1>1. Inv => BuffersFit
  BY DEF Inv, WireInv, SendFits, ReceiveFits, BuffersFit
<1> QED
  BY <1>1, Invariance, PTL

(* Each attachment that send_mail opens is closed exactly once, by the     *)
(* check, the loop or the catch clause, whatever fails.                    *)
THEOREM FilesAlwaysClosed == Spec => []FilesClosedOnce
<1>1. Inv => FilesClosedOnce
  BY DEF Inv, ProgramInv, FileInv, ProgramTypeOK, FilesClosedOnce, Final
<1> QED
  BY <1>1, Invariance, PTL

(* What the peer has got is a prefix of what was passed to send_data, and  *)
(* all of it between two blocks, for every way in which the socket or TLS  *)
(* cuts, blocks and repeats the writes.                                    *)
THEOREM NothingLost == Spec => []NothingLostOrDoubled
<1>1. Inv => NothingLostOrDoubled
  BY DEF Inv, WireInv, SentInv, NothingLostOrDoubled
<1> QED
  BY <1>1, Invariance, PTL
-----------------------------------------------------------------------------
(* ReplyCodesRight.  Where an exception has been caught, and where not. *)
FailedInv == failed_at = "nowhere" <=> m_bConnected

(* No text that goes out holds a dot before the final one, so that the     *)
(* peer cannot take a part of the message for its end.                     *)
AfterDot == {"answer", "answered", "sent"}
DotSent  == (failed_at = "nowhere" /\ pc \in AfterDot) \/ failed_at \in {"answer", "answered"}

DotInv ==
  /\ ~DotSent => DotFree(sent) /\ DotFree(unwritten) /\ DotFree(m_send_buffer) /\ DotFree(given)
  /\ failed_at = "nowhere" => \A i \in 1 .. Len(given) : given[i] = 46 => i = Len(given) - 2

(* How far the peer has come while nothing has failed. *)
PhaseInv ==
  failed_at = "nowhere" =>
    /\ phase # "bye"
    /\ phase = "command" <=> pc = "check"
    /\ phase = "command" => given = <<>> /\ answers = <<>>
    /\ phase = "data" /\ ~closed => answers = <<>>
    /\ phase = "taken" => /\ pc \in AfterDot /\ sent = given
                          /\ Len(given) >= 3 /\ given[Len(given) - 2] = 46

(* All that the peer has said so far is w: nothing, or one reply. *)
Said(w) ==
  \/ answers = <<>> /\ w = <<>>
  \/ \E a \in message.answers \cup message.goodbyes :
       /\ answers = <<a.code>> /\ w = a.text
       /\ phase # "taken" => a \in message.goodbyes

(* None of it is lost between the peer and reply_code. *)
HeardInv ==
  failed_at = "nowhere" =>
    /\ call = "receive" =>
         /\ pc = "answered" /\ entry = "DATAEND" /\ codes = <<>>
         /\ ~m_ssl => m_receive_buffer = <<>>
         /\ Said((line \o m_receive_buffer) \o incoming)
    /\ call # "receive" /\ ~thrown /\ codes = <<>> => Said(incoming)
    /\ codes # <<>> =>
         /\ pc \in {"answered", "sent"} /\ call = "idle" /\ codes = answers
         /\ \E w \in Text : Said(w)
         /\ ~thrown => codes = <<valid_reply_code["DATAEND"]>>
    /\ pc = "answered" /\ call # "receive" /\ ~thrown => codes # <<>>
    /\ pc = "sent" => codes # <<>> /\ ~thrown

ReplyInv == FailedInv /\ DotInv /\ PhaseInv /\ HeardInv

-----------------------------------------------------------------------------
(* Lemmas about texts. *)
LEMMA JoinElements ==
  ASSUME NEW s \in Text, NEW t \in Text
  PROVE  /\ s \o t \in Text /\ Len(s) \in Nat /\ Len(t) \in Nat
         /\ Len(s \o t) = Len(s) + Len(t)
         /\ \A i \in 1 .. Len(s) + Len(t) : (s \o t)[i] = IF i <= Len(s) THEN s[i] ELSE t[i - Len(s)]
BY ConcatProperties, LenProperties DEF Text

LEMMA JoinDotFree ==
  ASSUME NEW s \in Text, NEW t \in Text, DotFree(s), DotFree(t)
  PROVE  DotFree(s \o t)
<1>1. /\ Len(s) \in Nat /\ Len(t) \in Nat /\ Len(s \o t) = Len(s) + Len(t)
      /\ \A i \in 1 .. Len(s) + Len(t) : (s \o t)[i] = IF i <= Len(s) THEN s[i] ELSE t[i - Len(s)]
  BY JoinElements
<1>2. ASSUME NEW i \in 1 .. Len(s) + Len(t) PROVE (s \o t)[i] # 46
  <2>1. i <= Len(s) => i \in 1 .. Len(s)
    BY <1>1
  <2>2. ~(i <= Len(s)) => i - Len(s) \in 1 .. Len(t)
    BY <1>1
  <2> QED
    BY <1>1, <2>1, <2>2 DEF DotFree
<1> QED
  BY <1>1, <1>2 DEF DotFree

LEMMA SubDotFree ==
  ASSUME NEW s \in Text, NEW m \in Nat \ {0}, NEW n \in Int, n <= Len(s), DotFree(s)
  PROVE  DotFree(SubSeq(s, m, n))
<1>1. Len(s) \in Nat
  BY LenText
<1>2. \A i \in m .. n : s[i] \in Char
  BY <1>1, ElementOfSeq DEF Text
<1>3. /\ Len(SubSeq(s, m, n)) = IF m <= n THEN n - m + 1 ELSE 0
      /\ \A i \in 1 .. n - m + 1 : SubSeq(s, m, n)[i] = s[m + i - 1]
  BY <1>2, SubSeqProperties, Z3 DEF Text
<1> QED
  BY <1>1, <1>3 DEF DotFree

LEMMA NothingDotFree == DotFree(<<>>)
BY NoText DEF DotFree

LEMMA BlocksDotFree ==
  /\ DotFree(Header) /\ DotFree(TextLine) /\ DotFree(Blank) /\ DotFree(Part)
  /\ DotFree(Closing) /\ DotFree(Quit) /\ DotFree(CRLF)
<1>1. DotFree(Header) /\ DotFree(TextLine) /\ DotFree(Blank) /\ DotFree(Quit) /\ DotFree(CRLF)
  BY DEF Header, TextLine, Blank, Quit, CRLF, CR, LF, DotFree
<1>2. DotFree(Part) /\ DotFree(Closing)
  BY DEF Part, Closing, CRLF, CR, LF, DotFree
<1> QED
  BY <1>1, <1>2

(* Where the dot is in FinalDot. *)
LEMMA DotPlace ==
  /\ FinalDot \in Text /\ Len(FinalDot) = 5 /\ FinalDot[3] = 46
  /\ \A i \in 1 .. 5 : FinalDot[i] = 46 => i = 3
<1>1. FinalDot \in Text /\ Len(FinalDot) = 5
  BY DEF FinalDot, CRLF, CR, LF, Text, Char
<1>2. FinalDot[1] = 13 /\ FinalDot[2] = 10 /\ FinalDot[3] = 46 /\ FinalDot[4] = 13 /\ FinalDot[5] = 10
  BY DEF FinalDot, CRLF, CR, LF
<1>3. \A i \in 1 .. 5 : i = 1 \/ i = 2 \/ i = 3 \/ i = 4 \/ i = 5
  OBVIOUS
<1> QED
  BY <1>1, <1>2, <1>3

(* The characters of a prefix. *)
LEMMA PrefixElements ==
  ASSUME NEW s \in Text, NEW t \in Text, IsPrefix(s, t)
  PROVE  /\ Len(s) \in Nat /\ Len(t) \in Nat /\ Len(s) <= Len(t)
         /\ \A i \in 1 .. Len(s) : s[i] = t[i]
         /\ Len(s) = Len(t) => s = t
<1>1. /\ Len(s) \in Nat /\ Len(t) \in Nat /\ Len(s) <= Len(t)
      /\ SubSeq(s, 1, Len(s)) = SubSeq(t, 1, Len(s))
  BY LenText DEF IsPrefix
<1>2. SubSeq(s, 1, Len(s)) = s /\ SubSeq(t, 1, Len(t)) = t
  BY SubSeqFull DEF Text
<1>3. \A i \in 1 .. Len(s) : t[i] \in Char
  BY <1>1, ElementOfSeq DEF Text
<1>4. \A i \in 1 .. Len(s) : SubSeq(t, 1, Len(s))[i] = t[i]
  BY <1>1, <1>3, SubSeqProperties, Z3 DEF Text
<1> QED
  BY <1>1, <1>2, <1>4

LEMMA QuitText == Quit[4] = 84 /\ Quit \in Text /\ Len(Quit) = 6
BY DEF Quit, CRLF, CR, LF, Text, Char

(* A text that ends in QUIT does not end in a final dot. *)
LEMMA QuitHasNoDot ==
  ASSUME NEW s \in Text, IsSuffix(Quit, s)
  PROVE  Len(s) >= 6 /\ s[Len(s) - 2] = 84
<1>1. Quit[4] = 84 /\ Quit \in Text /\ Len(Quit) = 6
  BY QuitText
<1>2. Len(s) \in Nat /\ s \in Seq(Char)
  BY LenText DEF Text
<1> DEFINE q == [i \in 1 .. 6 |-> Quit[(6 - i) + 1]]
           r == [i \in 1 .. Len(s) |-> s[(Len(s) - i) + 1]]
<1>3. q = Reverse(Quit) /\ r = Reverse(s)
  BY <1>1 DEF Reverse
<1>4. q \in Text /\ Len(q) = 6
  <2>1. ASSUME NEW i \in 1 .. 6 PROVE Quit[(6 - i) + 1] \in Char
    <3>1. (6 - i) + 1 \in 1 .. Len(Quit) /\ Quit \in Seq(Char)
      BY <1>1 DEF Text
    <3> QED
      BY <3>1, ElementOfSeq
  <2> QED
    BY <2>1, SeqDef, LenProperties DEF Text
<1>5. r \in Text /\ Len(r) = Len(s)
  <2>1. \A i \in 1 .. Len(s) : s[(Len(s) - i) + 1] \in Char
    BY <1>2, ElementOfSeq
  <2> QED
    BY <1>2, <2>1, SeqDef, LenProperties DEF Text
<1>6. q[3] = 84 /\ (Len(s) >= 3 => r[3] = s[Len(s) - 2])
  BY <1>1, <1>2
<1> HIDE DEF q, r
<1>7. 6 <= Len(r) /\ \A i \in 1 .. 6 : q[i] = r[i]
  BY <1>3, <1>4, <1>5, PrefixElements DEF IsSuffix
<1> QED
  BY <1>2, <1>5, <1>6, <1>7

-----------------------------------------------------------------------------
(* The peer gets the end of a message only from FinalDot: once it has, the *)
(* whole of what was given to send_data is out.                            *)
LEMMA EndSeen ==
  ASSUME WireTypeOK, SentInv, DotInv, failed_at = "nowhere", EndOfData(sent)
  PROVE  pc \in AfterDot /\ sent = given /\ Len(given) >= 3 /\ given[Len(given) - 2] = 46
<1>1. sent \in Text /\ given \in Text /\ IsPrefix(sent, given)
  BY WireTypes DEF SentInv
<1>2. /\ Len(sent) \in Nat /\ Len(given) \in Nat /\ Len(sent) <= Len(given)
      /\ \A i \in 1 .. Len(sent) : sent[i] = given[i]
      /\ Len(sent) = Len(given) => sent = given
  BY <1>1, PrefixElements
<1>3. PICK i \in 1 .. Len(sent) - 4 : SubSeq(sent, i, i + 4) = FinalDot
  BY DEF EndOfData
<1>4. sent[i + 2] = 46
  <2>1. /\ \A k \in i .. i + 4 : sent[k] \in Char
        /\ i \in Int /\ i + 4 \in Int
    BY <1>1, <1>2, ElementOfSeq DEF Text
  <2>2. SubSeq(sent, i, i + 4)[3] = sent[i + 3 - 1]
    <3>1. \A k \in 1 .. (i + 4) - i + 1 : SubSeq(sent, i, i + 4)[k] = sent[i + k - 1]
      BY <2>1, SubSeqProperties
    <3>2. 3 \in 1 .. (i + 4) - i + 1
      BY <2>1
    <3> QED
      BY <3>1, <3>2
  <2> QED
    BY <1>2, <1>3, <2>2, DotPlace
<1>5. i + 2 \in 1 .. Len(sent) /\ i + 2 \in 1 .. Len(given)
  BY <1>2
<1>6. given[i + 2] = 46
  BY <1>2, <1>4, <1>5
<1>7. ~DotFree(given)
  BY <1>5, <1>6 DEF DotFree
<1>8. DotSent /\ i + 2 = Len(given) - 2
  BY <1>5, <1>6, <1>7 DEF DotInv
<1>9. pc \in AfterDot
  BY <1>8 DEF DotSent
<1> QED
  BY <1>2, <1>5, <1>6, <1>8, <1>9

(* No QUIT has been said as long as nothing has failed, whatever the bytes *)
(* of an attachment spell.                                                 *)
LEMMA NoQuitYet ==
  ASSUME WireTypeOK, SentInv, PhaseInv, failed_at = "nowhere", phase \in {"command", "taken"}
  PROVE  ~IsSuffix(Quit, sent)
<1> SUFFICES ASSUME IsSuffix(Quit, sent) PROVE FALSE
  OBVIOUS
<1>1. sent \in Text /\ given \in Text /\ IsPrefix(sent, given)
  BY WireTypes DEF SentInv
<1>2. Len(sent) >= 6 /\ sent[Len(sent) - 2] = 84
  BY <1>1, QuitHasNoDot
<1>3. Len(sent) \in Nat /\ Len(given) \in Nat /\ Len(sent) <= Len(given)
  BY <1>1, PrefixElements
<1>4. CASE phase = "command"
  BY <1>2, <1>3, <1>4, NoText DEF PhaseInv
<1>5. CASE phase = "taken"
  BY <1>2, <1>5 DEF PhaseInv
<1> QED
  BY <1>4, <1>5

-----------------------------------------------------------------------------
(* The first lines of a text and those of the whole: what reply_code finds *)
(* in a reply that is not complete is what the reply says.                 *)
LEMMA PartialReply ==
  ASSUME ReplyAssumption, ProgramTypeOK, NEW a \in message.answers \cup message.goodbyes,
         NEW s \in Text, NEW t \in Text, a.text = s \o t, LastLines(s) # {}
  PROVE  reply_code(s) = a.code
<1>1. NamesCode(a)
  BY DEF ReplyAssumption, ProgramTypeOK
<1>2. /\ Len(s) \in Nat /\ Len(t) \in Nat /\ Len(a.text) = Len(s) + Len(t)
      /\ \A i \in 1 .. Len(s) : a.text[i] = s[i]
  BY JoinElements
<1>3. LastLines(s) \subseteq Nat
  BY <1>2 DEF LastLines, Starts, Ends
<1> DEFINE b == CHOOSE b \in LastLines(s) : \A c \in LastLines(s) : b <= c
<1>4. b \in LastLines(s)
  BY <1>3, Smallest, Zenon
<1>5. reply_code(s) = (s[b] - 48) * 100 + (s[b + 1] - 48) * 10 + s[b + 2] - 48
  BY DEF reply_code
<1> HIDE DEF b
<1>6. /\ b \in Nat /\ b \in Starts(s) /\ \E e \in Ends(s) : e >= b + 3
  BY <1>3, <1>4 DEF LastLines, IsLast
<1>7. Ends(s) \subseteq Ends(a.text)
  BY <1>2 DEF Ends
<1>8. b \in Starts(a.text)
  BY <1>6, <1>7 DEF Starts
<1>9. b >= 1 /\ b + 2 <= Len(s)
  BY <1>2, <1>6 DEF Starts, Ends
<1>10. a.text[b] = s[b] /\ a.text[b + 1] = s[b + 1] /\ a.text[b + 2] = s[b + 2]
  BY <1>2, <1>6, <1>9
<1>11. b + 2 <= Len(a.text)
  BY <1>2, <1>6, <1>9
<1>12. a.code = (a.text[b] - 48) * 100 + (a.text[b + 1] - 48) * 10 + a.text[b + 2] - 48
  BY <1>1, <1>8, <1>11, Zenon DEF NamesCode
<1> QED
  BY <1>5, <1>10, <1>12

-----------------------------------------------------------------------------
(* A turn of a loop. *)
LEMMA RecordDotFree ==
  ASSUME WireTypeOK, DotFree(m_send_buffer), DotFree(unwritten)
  PROVE  DotFree(Rest) /\ DotFree(record)
<1>1. Len(m_send_buffer) \in Nat /\ idx \in 0 .. Len(m_send_buffer) /\ m_send_buffer \in Text
  BY WireTypes, LenText
<1>2. DotFree(Rest)
  BY <1>1, SubDotFree DEF Rest
<1> QED
  BY <1>2 DEF record

(* What it adds to what is out. *)
LEMMA SentGrows ==
  ASSUME WireTypeOK, WireStep
  PROVE  /\ \E chars \in Text :
              /\ sent' = sent \o chars
              /\ DotFree(m_send_buffer) /\ DotFree(unwritten) => DotFree(chars)
         /\ DotFree(m_send_buffer) /\ DotFree(unwritten) => DotFree(unwritten')
<1>0. sent \in Text /\ sent = sent \o <<>> /\ <<>> \in Text /\ DotFree(<<>>)
  BY WireTypes, JoinNothing, NoText, NothingDotFree
<1>1. CASE SendSome
  <2>1. PICK n \in 1 .. nLeft : Written(SubSeq(Rest, 1, n))
    BY <1>1 DEF SendSome
  <2>2. Rest \in Text /\ Len(Rest) = nLeft /\ nLeft \in Nat
    BY RestText
  <2>3. SubSeq(Rest, 1, n) \in Text
    BY <2>2, SubText
  <2>4. DotFree(m_send_buffer) /\ DotFree(unwritten) => DotFree(SubSeq(Rest, 1, n))
    BY <2>2, RecordDotFree, SubDotFree
  <2>5. sent' = sent \/ sent' = sent \o SubSeq(Rest, 1, n)
    BY <2>1 DEF Written
  <2>6. unwritten' = unwritten
    BY <1>1 DEF SendSome
  <2> QED
    BY <1>0, <2>3, <2>4, <2>5, <2>6
<1>2. CASE SSL_write
  <2>1. Written(record) /\ unwritten' = <<>>
    BY <1>2 DEF SSL_write
  <2>2. sent' = sent \/ sent' = sent \o record
    BY <2>1 DEF Written
  <2> QED
    BY <1>0, <2>1, <2>2, RestText, RecordDotFree
<1>3. CASE WantWrite
  <2>1. sent' = sent /\ unwritten' = record
    BY <1>3 DEF WantWrite
  <2> QED
    BY <1>0, <2>1, RecordDotFree
<1>4. CASE WantRead \/ Killed \/ ReadBlocked \/ ReadWantsWrite \/ Receive \/ SSL_read \/ Fails
  <2>1. sent' = sent /\ unwritten' = unwritten
    BY <1>4 DEF WantRead, Killed, ReadBlocked, ReadWantsWrite, Receive, SSL_read, Fails, Take, network
  <2> QED
    BY <1>0, <2>1
<1> QED
  BY <1>1, <1>2, <1>3, <1>4 DEF WireStep

LEMMA WireDots ==
  ASSUME WireAssumption, Inv, DotInv, PhaseInv, WireStep, UNCHANGED <<program, history, peer>>,
         SentInv'
  PROVE  DotInv' /\ PhaseInv'
<1>1. /\ pc' = pc /\ failed_at' = failed_at /\ phase' = phase /\ answers' = answers
  BY DEF program, history, peer
<1>2. UNCHANGED <<m_send_buffer, given, closed>> /\ WireTypeOK'
  BY WireSteps DEF Inv, WireInv
<1>3. PICK chars \in Text :
        /\ sent' = sent \o chars
        /\ DotFree(m_send_buffer) /\ DotFree(unwritten) => DotFree(chars)
  BY SentGrows DEF Inv, WireInv
<1>4. DotFree(m_send_buffer) /\ DotFree(unwritten) => DotFree(unwritten')
  BY SentGrows DEF Inv, WireInv
<1>5. sent \in Text /\ sent' \in Text /\ given' \in Text
  BY <1>2, WireTypes DEF Inv, WireInv, WireTypeOK
<1>6. DotSent' <=> DotSent
  BY <1>1 DEF DotSent
<1>7. DotInv'
  BY <1>1, <1>2, <1>3, <1>4, <1>5, <1>6, JoinDotFree DEF DotInv
<1>8. ASSUME failed_at = "nowhere", sent = given
      PROVE  sent' = given'
  <2>1. IsPrefix(sent', given')
    BY <1>1, <1>8 DEF SentInv
  <2>2. Len(sent') = Len(sent) + Len(chars) /\ Len(sent) \in Nat /\ Len(chars) \in Nat
    BY <1>3, <1>5, JoinElements
  <2>3. /\ Len(sent') <= Len(given')
        /\ Len(sent') = Len(given') => sent' = given'
    BY <1>5, <2>1, PrefixElements
  <2> QED
    BY <1>2, <1>8, <2>2, <2>3
<1>9. PhaseInv'
  <2>1. UNCHANGED <<pc, failed_at, phase, answers, given, closed>>
    BY <1>1, <1>2
  <2>2. ASSUME failed_at = "nowhere", phase = "taken"
        PROVE  /\ pc \in AfterDot /\ sent' = given
               /\ Len(given) >= 3 /\ given[Len(given) - 2] = 46
    BY <1>8, <2>1, <2>2 DEF PhaseInv
  <2> QED
    BY <2>1, <2>2 DEF PhaseInv
<1> QED
  BY <1>7, <1>9

(* What has been read, and what is left. *)
LEMMA TakenApart ==
  ASSUME NEW s \in Text, NEW n \in 1 .. Len(s)
  PROVE  /\ SubSeq(s, 1, n) \in Text
         /\ s = SubSeq(s, 1, n) \o SubSeq(s, n + 1, Len(s))
<1>1. Len(s) \in Nat /\ s \in Seq(Char)
  BY LenText DEF Text
<1>2. SubSeq(s, 1, n) \in Text
  BY <1>1, SubText
<1>3. SubSeq(s, 1, Len(s)) = s
  BY <1>1, SubSeqFull
<1>4. SubSeq(s, 1, n) \o SubSeq(s, n + 1, Len(s)) = SubSeq(s, 1, Len(s))
  <2>1. 1 \in 1 .. Len(s) + 1 /\ n \in 1 - 1 .. Len(s) /\ Len(s) \in n .. Len(s)
    BY <1>1
  <2> QED
    BY <1>1, <2>1, ConcatAdjacentSubSeq
<1> QED
  BY <1>2, <1>3, <1>4

(* More of the reply has come, or all of it. *)
LEMMA ReceivedHeard ==
  ASSUME ReplyAssumption, ProgramTypeOK, ProgramTypeOK', WireTypeOK, HeardInv, call = "receive", ~thrown,
         UNCHANGED <<message, pc, m_ssl, phase, answers, failed_at>>,
         NEW text \in Text, Received(text), incoming' \in Text,
         failed_at = "nowhere" => Said((line \o text) \o incoming')
  PROVE  HeardInv'
<1> SUFFICES ASSUME failed_at = "nowhere" PROVE HeardInv'
  BY DEF HeardInv
<1> DEFINE s == Parsed(text)
<1>1. s \in Text /\ line \in Text
  BY WireTypes, JoinText DEF Parsed
<1>2. PICK w \in Text : w = s \o incoming' /\ Said(w)
  BY <1>1, JoinText DEF Parsed
<1>3. pc = "answered" /\ entry = "DATAEND" /\ codes = <<>>
  BY DEF HeardInv
<1> HIDE DEF s
<1>4. CASE LastLines(s) = {}
  <2>1. /\ line' = s /\ m_receive_buffer' = <<>>
        /\ call' = call /\ entry' = entry /\ thrown' = thrown /\ codes' = codes
    BY <1>4 DEF Received, s, client
  <2>2. (line' \o m_receive_buffer') \o incoming' = w
    BY <1>1, <1>2, <2>1, JoinNothing
  <2>3. Said(w)'
    BY <1>2 DEF Said
  <2> QED
    BY <1>3, <2>1, <2>2, <2>3 DEF HeardInv
<1>5. CASE LastLines(s) # {}
  <2>1. /\ codes' = <<reply_code(s)>> /\ call' = "idle"
        /\ thrown' = (reply_code(s) # valid_reply_code["DATAEND"])
    BY <1>3, <1>5 DEF Received, s
  <2>2. w # <<>>
    <3>1. Len(s) > 0
      <4>1. Len(s) \in Nat
        BY <1>1, LenText
      <4> QED
        BY <1>5, <4>1 DEF LastLines, IsLast, Ends, Starts
    <3>2. Len(w) = Len(s) + Len(incoming') /\ Len(s) \in Nat /\ Len(incoming') \in Nat
      BY <1>1, <1>2, JoinElements
    <3> QED
      BY <3>1, <3>2, NoText
  <2>3. PICK a \in message.answers \cup message.goodbyes :
          /\ answers = <<a.code>> /\ w = a.text
          /\ phase # "taken" => a \in message.goodbyes
    BY <1>2, <2>2 DEF Said
  <2>4. reply_code(s) = a.code
    BY <1>1, <1>2, <1>5, <2>3, PartialReply
  <2> QED
    BY <1>2, <1>3, <2>1, <2>3, <2>4 DEF HeardInv, Said
<1> QED
  BY <1>4, <1>5

LEMMA WireHeard ==
  ASSUME WireAssumption, ReplyAssumption, Inv, Inv', HeardInv, WireStep,
         UNCHANGED <<program, history, peer>>
  PROVE  HeardInv'
<1>1. /\ UNCHANGED <<message, pc, phase, answers, failed_at>> /\ ~thrown /\ call # "idle"
      /\ UNCHANGED <<m_ssl, closed>>
  BY WireSteps DEF program, history, peer, Inv, WireInv
<1>2. /\ WireTypeOK /\ WireTypeOK' /\ ProgramTypeOK /\ ProgramTypeOK'
      /\ m_receive_buffer \in Text /\ line \in Text /\ incoming \in Text /\ incoming' \in Text
  BY WireTypes DEF Inv, WireInv, ProgramInv, WireTypeOK
<1>3. ASSUME NEW w PROVE Said(w)' <=> Said(w)
  BY <1>1 DEF Said
<1>4. CASE SendSome \/ SSL_write \/ WantWrite \/ WantRead \/ Killed
  <2>1. /\ call = "send" /\ call' # "receive" /\ thrown' = thrown
        /\ codes' = codes /\ incoming' = incoming
    BY <1>4 DEF SendSome, SSL_write, WantWrite, WantRead, Killed, Written, client, reader, network
  <2>2. failed_at = "nowhere" => Said(incoming) /\ codes = <<>> /\ pc # "answered" /\ pc # "sent"
    BY <1>1, <2>1 DEF HeardInv
  <2>3. failed_at = "nowhere" => Said(incoming)'
    BY <1>3, <2>1, <2>2
  <2> QED
    BY <1>1, <2>1, <2>2, <2>3 DEF HeardInv
<1>5. CASE ReadBlocked \/ ReadWantsWrite
  <2>1. UNCHANGED <<call, entry, thrown, line, m_receive_buffer, codes, incoming>>
    BY <1>5 DEF ReadBlocked, ReadWantsWrite, client, network
  <2> QED
    BY <1>1, <2>1 DEF HeardInv, Said
<1>6. CASE Fails
  <2>1. call' = "idle" /\ thrown' = TRUE /\ codes' = codes
    BY <1>6 DEF Fails, Throw
  <2> QED
    BY <1>1, <2>1 DEF HeardInv
<1>7. CASE Receive
  <2>1. PICK n \in 1 .. Len(incoming) : Received(SubSeq(incoming, 1, n)) /\ Take(n)
    BY <1>7 DEF Receive
  <2>2. call = "receive" /\ ~m_ssl
    BY <1>7 DEF Receive
  <2> DEFINE text == SubSeq(incoming, 1, n)
  <2>3. text \in Text /\ incoming = text \o incoming'
    BY <1>2, <2>1, TakenApart DEF Take
  <2> HIDE DEF text
  <2>4. ASSUME failed_at = "nowhere" PROVE Said((line \o text) \o incoming')
    <3>1. m_receive_buffer = <<>> /\ Said((line \o m_receive_buffer) \o incoming)
      BY <2>2, <2>4 DEF HeardInv
    <3>2. line \o m_receive_buffer = line
      BY <1>2, <3>1, JoinNothing
    <3>3. line \o (text \o incoming') = (line \o text) \o incoming'
      <4>1. line \in Text /\ text \in Text /\ incoming' \in Text
        BY <1>2, <2>3
      <4> QED
        BY <4>1, JoinAssoc
    <3> QED
      BY <2>3, <3>1, <3>2, <3>3
  <2>5. Received(text)
    BY <2>1 DEF text
  <2> QED
    BY <1>1, <1>2, <2>2, <2>3, <2>4, <2>5, ReceivedHeard
<1>8. CASE SSL_read
  <2> DEFINE piece(n) == SubSeq(incoming, 1, n)
  <2>1. PICK n \in 1 .. Len(incoming) :
          /\ Take(n)
          /\ \/ Throw
             \/ Received(m_receive_buffer \o piece(n))
             \/ /\ more' = TRUE /\ m_receive_buffer' = m_receive_buffer \o piece(n)
                /\ UNCHANGED <<client, budget, line, codes>>
    BY <1>8 DEF SSL_read
  <2>2. call = "receive" /\ m_ssl
    BY <1>8 DEF SSL_read
  <2>3. piece(n) \in Text /\ incoming = piece(n) \o incoming'
    BY <1>2, <2>1, TakenApart DEF Take
  <2> HIDE DEF piece
  <2>4. PICK text \in Text : text = m_receive_buffer \o piece(n)
    BY <1>2, <2>3, JoinText
  <2>5. (line \o m_receive_buffer) \o incoming = (line \o text) \o incoming'
    <3>1. /\ line \in Text /\ m_receive_buffer \in Text /\ piece(n) \in Text
          /\ incoming' \in Text
      BY <1>2, <2>3
    <3>2. (line \o m_receive_buffer) \o (piece(n) \o incoming')
            = (line \o (m_receive_buffer \o piece(n))) \o incoming'
      <4>1. Regrouped(line, m_receive_buffer, piece(n), incoming')
        BY <3>1, Reassociate
      <4> QED
        BY <4>1, Zenon DEF Regrouped
    <3> QED
      BY <2>3, <2>4, <3>2, Zenon
  <2>6. failed_at = "nowhere" => Said((line \o text) \o incoming')
    BY <2>2, <2>5 DEF HeardInv
  <2>7. CASE Throw
    <3>1. call' = "idle" /\ thrown' = TRUE /\ codes' = codes
      BY <2>7 DEF Throw
    <3> QED
      BY <1>1, <2>2, <3>1 DEF HeardInv
  <2>8. CASE Received(m_receive_buffer \o piece(n))
    <3>1. Received(text)
      BY <2>4, <2>8
    <3> QED
      BY <1>1, <1>2, <2>2, <2>6, <3>1, ReceivedHeard
  <2>9. CASE /\ m_receive_buffer' = m_receive_buffer \o piece(n)
             /\ UNCHANGED <<client, budget, line, codes>>
    <3>1. m_receive_buffer' = text /\ UNCHANGED <<call, entry, thrown, line, codes>>
      BY <2>4, <2>9 DEF client
    <3>2. failed_at = "nowhere" => Said((line \o m_receive_buffer) \o incoming)'
      BY <1>3, <2>6, <3>1
    <3> QED
      BY <1>1, <2>2, <3>1, <3>2 DEF HeardInv
  <2> QED
    BY <2>1, <2>7, <2>8, <2>9
<1> QED
  BY <1>4, <1>5, <1>6, <1>7, <1>8 DEF WireStep

-----------------------------------------------------------------------------
(* The steps of send_mail. *)
Composing == {"header", "lines", "part", "open", "fill", "close", "end"}

LEMMA NothingFailed ==
  ASSUME ProgramInv, FailedInv, pc \notin {"quit", "bye", "failed"}
  PROVE  failed_at = "nowhere" /\ m_bConnected
BY DEF ProgramInv, ProgramTypeOK, FileInv, FailedInv

(* Anything up to the final dot, but for the end of the check: what is put *)
(* into the buffer or passed to send_data holds no dot.                    *)
LEMMA ComposingStep ==
  ASSUME ProgramInv, ReplyInv, ProgramTypeOK',
         call = "idle", ~thrown, call' \in {"idle", "send"},
         \/ pc = "check" /\ pc' = "check" /\ given' = given
         \/ pc \in Composing /\ pc' \in Composing \cup {"answer"},
         UNCHANGED <<message, phase, answers, failed_at, m_bConnected, closed, codes, incoming,
                     sent, unwritten>>,
         pc' # "answer" /\ DotFree(m_send_buffer) /\ DotFree(given)
           => DotFree(m_send_buffer') /\ DotFree(given'),
         pc' = "answer" /\ DotFree(given)
           => \A i \in 1 .. Len(given') : given'[i] = 46 => i = Len(given') - 2
  PROVE  ReplyInv'
<1>1. failed_at = "nowhere" /\ m_bConnected
  BY NothingFailed DEF ReplyInv, Composing
<1>2. FailedInv'
  BY DEF ReplyInv, FailedInv
<1>3. ~DotSent /\ DotFree(sent) /\ DotFree(unwritten) /\ DotFree(m_send_buffer) /\ DotFree(given)
  BY <1>1 DEF ReplyInv, DotInv, DotSent, AfterDot, Composing
<1>4. DotInv'
  <2>1. CASE pc' = "answer"
    BY <1>1, <1>3, <2>1 DEF DotInv, DotSent, AfterDot
  <2>2. CASE pc' # "answer"
    <3>1. DotFree(sent') /\ DotFree(unwritten') /\ DotFree(m_send_buffer') /\ DotFree(given')
      BY <1>3, <2>2
    <3> QED
      BY <3>1 DEF DotInv, DotFree
  <2> QED
    BY <2>1, <2>2
<1>5. PhaseInv'
  BY <1>1 DEF ReplyInv, PhaseInv, Composing, AfterDot
<1>6. codes = <<>> /\ Said(incoming)
  BY <1>1 DEF ReplyInv, HeardInv, Composing
<1>7. Said(incoming)'
  BY <1>6 DEF Said
<1>8. HeardInv'
  BY <1>6, <1>7 DEF HeardInv, Composing
<1> QED
  BY <1>2, <1>4, <1>5, <1>8 DEF ReplyInv

(* A block without a dot. *)
LEMMA SendsReply ==
  ASSUME WireAssumption, Inv, Inv', ReplyInv, NEW row, NEW text \in Text, DotFree(text),
         pc \in Composing, NEW p \in Composing, call = "idle", ~thrown, Sends(row, text, p)
  PROVE  ReplyInv'
<1>1. /\ call' = "send" /\ m_send_buffer' = text /\ given' = given \o text /\ pc' = p
      /\ UNCHANGED <<message, phase, answers, failed_at, m_bConnected, closed, codes, incoming,
                     sent, unwritten>>
  BY DEF Sends, send_data, Goto, reader, network, history, peer
<1>2. given \in Text
  BY WireTypes DEF Inv, WireInv
<1>3. DotFree(given) => DotFree(given')
  BY <1>1, <1>2, JoinDotFree
<1>4. p # "answer"
  BY DEF Composing
<1>5. ProgramInv /\ ProgramTypeOK'
  BY DEF Inv, ProgramInv
<1> QED
  BY <1>1, <1>3, <1>4, <1>5, ComposingStep

(* A step that leaves the wire alone, or throws. *)
LEMMA LocalReply ==
  ASSUME ProgramInv, ProgramTypeOK', ReplyInv,
         \/ pc = "check" /\ pc' = "check"
         \/ pc \in Composing /\ pc' \in Composing,
         call = "idle", ~thrown,
         UNCHANGED wireVars \/ Raise, UNCHANGED <<message, phase, answers, failed_at, m_bConnected>>
  PROVE  ReplyInv'
<1>1. /\ call' = "idle"
      /\ UNCHANGED <<m_send_buffer, given, closed, codes, incoming, sent, unwritten>>
  BY DEF wireVars, client, sender, reader, network, Raise, Throw
<1>2. pc' # "answer"
  BY DEF Composing
<1> QED
  BY <1>1, <1>2, ComposingStep

LEMMA BlocksReply ==
  ASSUME WireAssumption, DataAssumption, Inv, Inv', ReplyInv,
         SendHeader \/ SendLines \/ SendPart \/ SendClosing
  PROVE  ReplyInv'
<1>1. CASE SendHeader
  BY <1>1, SendsReply, ShortTexts, BlocksDotFree DEF SendHeader, Ready, Composing
<1>2. CASE SendLines
  <2>1. call = "idle" /\ ~thrown /\ pc = "lines" /\ pc \in Composing
    BY <1>2 DEF SendLines, Ready, Composing
  <2>2. "part" \in Composing /\ "lines" \in Composing
    BY DEF Composing
  <2>3. CASE message.lines = 0
    <3>1. Sends("DATABLOCK", Blank, "part")
      BY <1>2, <2>3 DEF SendLines
    <3> QED
      BY <2>1, <2>2, <3>1, SendsReply, ShortTexts, BlocksDotFree
  <2>4. CASE message.lines # 0
    <3>1. PICK p \in Composing : Sends("DATABLOCK", TextLine, p)
      BY <1>2, <2>2, <2>4 DEF SendLines
    <3> QED
      BY <2>1, <3>1, SendsReply, ShortTexts, BlocksDotFree
  <2> QED
    BY <2>3, <2>4
<1>3. CASE SendPart
  BY <1>3, SendsReply, ShortTexts, BlocksDotFree DEF SendPart, Ready, Composing
<1>4. CASE SendClosing
  BY <1>4, SendsReply, ShortTexts, BlocksDotFree DEF SendClosing, Ready, Composing
<1> QED
  BY <1>1, <1>2, <1>3, <1>4

LEMMA FilesReply ==
  ASSUME WireAssumption, Inv, Inv', ReplyInv, CheckFile \/ OpenFile \/ CloseFile
  PROVE  ReplyInv'
<1>1. ProgramInv /\ ProgramTypeOK'
  BY DEF Inv, ProgramInv
<1>2. CASE CheckFile
  <2>1. /\ pc = "check" /\ pc' = "check" /\ call = "idle" /\ ~thrown
        /\ UNCHANGED wireVars \/ Raise
        /\ UNCHANGED <<message, phase, answers, failed_at, m_bConnected>>
    BY <1>2 DEF CheckFile, Ready, program, history, peer
  <2> QED
    BY <1>1, <2>1, LocalReply
<1>3. CASE OpenFile
  <2>1. /\ pc = "open" /\ pc' \in {"open", "fill"} /\ call = "idle" /\ ~thrown
        /\ UNCHANGED wireVars \/ Raise
        /\ UNCHANGED <<message, phase, answers, failed_at, m_bConnected>>
    BY <1>3 DEF OpenFile, Goto, Ready, program, history, peer
  <2> QED
    BY <1>1, <2>1, LocalReply DEF Composing
<1>4. CASE CloseFile
  <2>1. /\ pc = "close" /\ pc' = "part" /\ call = "idle" /\ ~thrown /\ UNCHANGED wireVars
        /\ UNCHANGED <<message, phase, answers, failed_at, m_bConnected>>
    BY <1>4 DEF CloseFile, Goto, Ready, peer
  <2> QED
    BY <1>1, <2>1, LocalReply DEF Composing
<1> QED
  BY <1>2, <1>3, <1>4

(* A line of base64 has no dot in it. *)
LEMMA FillReply ==
  ASSUME WireAssumption, DataAssumption, Inv, Inv', ReplyInv, FillLine
  PROVE  ReplyInv'
<1> DEFINE held  == IF msg_part = 0 THEN <<>> ELSE m_send_buffer
           block == held \o base64_encode(fread) \o CRLF
<1>1. /\ pc = "fill" /\ call = "idle" /\ ~thrown /\ j < LineCount /\ pc \in Composing
  BY DEF FillLine, Ready, Composing
<1>2. /\ ProgramInv /\ ProgramTypeOK' /\ j \in Nat /\ m_send_buffer \in Text
      /\ at \in Nat /\ at >= 1 /\ at <= Len(message.files)
  BY <1>1, WireTypes DEF Inv, WireInv, ProgramInv, ProgramTypeOK, PlaceInv
<1>3. file \in Seq(Bytes)
  BY <1>2, MessageFacts, ElementOfSeq DEF file, Inv, ProgramInv
<1>4. fread \in Seq(Bytes)
  BY <1>1, <1>2, <1>3, FreadFacts
<1>5. base64_encode(fread) \in Text /\ DotFree(base64_encode(fread))
  BY <1>4, EncodeText
<1>6. DotFree(m_send_buffer)
  <2>1. failed_at = "nowhere"
    BY <1>1, <1>2, NothingFailed DEF ReplyInv
  <2> QED
    BY <1>1, <2>1 DEF ReplyInv, DotInv, DotSent, AfterDot
<1>7. held \in Text /\ DotFree(held)
  BY <1>2, <1>6, NoText, NothingDotFree
<1>8. CRLF \in Text /\ DotFree(CRLF)
  BY BlocksDotFree DEF CRLF, CR, LF, Text, Char
<1> HIDE DEF held
<1>9. block \in Text /\ DotFree(block)
  <2>1. held \o base64_encode(fread) \in Text /\ DotFree(held \o base64_encode(fread))
    BY <1>5, <1>7, JoinText, JoinDotFree
  <2> QED
    BY <1>8, <2>1, JoinText, JoinDotFree
<1>10. \/ Sends("DATABLOCK", block, "fill")
       \/ /\ m_send_buffer' = block
          /\ UNCHANGED <<m_ssl, client, budget, write_blocked_on_read, given, reader, network>>
          /\ UNCHANGED <<message, pc, total_size, hFile, m_bConnected, history, peer>>
  BY DEF FillLine, held, block
<1> HIDE DEF block
<1>11. CASE Sends("DATABLOCK", block, "fill")
  BY <1>1, <1>9, <1>11, SendsReply
<1>12. CASE /\ m_send_buffer' = block
            /\ UNCHANGED <<m_ssl, client, budget, write_blocked_on_read, given, reader, network>>
            /\ UNCHANGED <<message, pc, total_size, hFile, m_bConnected, history, peer>>
  <2>1. /\ call' = "idle" /\ pc' = "fill" /\ given' = given
        /\ UNCHANGED <<message, phase, answers, failed_at, m_bConnected, closed, codes, incoming,
                       sent, unwritten>>
    BY <1>1, <1>12 DEF client, reader, network, history, peer
  <2>2. DotFree(m_send_buffer')
    BY <1>9, <1>12
  <2> QED
    BY <1>1, <1>2, <2>1, <2>2, ComposingStep
<1> QED
  BY <1>10, <1>11, <1>12

LEMMA FlushReply ==
  ASSUME WireAssumption, Inv, Inv', ReplyInv, FlushRest
  PROVE  ReplyInv'
<1>1. pc = "fill" /\ call = "idle" /\ ~thrown /\ pc \in Composing /\ "close" \in Composing
  BY DEF FlushRest, Ready, Composing
<1>2. ProgramInv /\ ProgramTypeOK' /\ m_send_buffer \in Text
  BY WireTypes DEF Inv, WireInv, ProgramInv
<1>3. DotFree(m_send_buffer)
  <2>1. failed_at = "nowhere"
    BY <1>1, <1>2, NothingFailed DEF ReplyInv
  <2> QED
    BY <1>1, <2>1 DEF ReplyInv, DotInv, DotSent, AfterDot
<1>4. CASE Sends("DATABLOCK", m_send_buffer, "close")
  BY <1>1, <1>2, <1>3, <1>4, SendsReply
<1>5. CASE /\ Goto("close")
           /\ UNCHANGED <<wireVars, total_size, hFile, m_bConnected, history, peer>>
  <2>1. pc' = "close" /\ UNCHANGED <<message, phase, answers, failed_at, m_bConnected>>
    BY <1>5 DEF Goto, history, peer
  <2> QED
    BY <1>1, <1>2, <1>5, <2>1, LocalReply
<1> QED
  BY <1>4, <1>5 DEF FlushRest

(* The final dot: the one dot, and the third character from the end. *)
LEMMA FinalDotReply ==
  ASSUME WireAssumption, Inv, Inv', ReplyInv, SendFinalDot
  PROVE  ReplyInv'
<1>1. pc \in Composing /\ call = "idle" /\ ~thrown /\ Sends("DATAEND", FinalDot, "answer")
  BY DEF SendFinalDot, Ready, Composing
<1>2. /\ call' = "send" /\ given' = given \o FinalDot /\ pc' = "answer"
      /\ UNCHANGED <<message, phase, answers, failed_at, m_bConnected, closed, codes, incoming,
                     sent, unwritten>>
  BY <1>1 DEF Sends, send_data, Goto, reader, network, history, peer
<1>3. given \in Text /\ ProgramInv /\ ProgramTypeOK'
  BY WireTypes DEF Inv, WireInv, ProgramInv
<1>4. ASSUME DotFree(given), NEW i \in 1 .. Len(given'), given'[i] = 46
      PROVE  i = Len(given') - 2
  <2>1. /\ Len(given) \in Nat /\ Len(given') = Len(given) + 5
        /\ \A k \in 1 .. Len(given) + 5 :
             given'[k] = IF k <= Len(given) THEN given[k] ELSE FinalDot[k - Len(given)]
    <3>1. FinalDot \in Text /\ Len(FinalDot) = 5
      BY DotPlace
    <3>2. /\ Len(given) \in Nat /\ Len(given \o FinalDot) = Len(given) + Len(FinalDot)
          /\ \A k \in 1 .. Len(given) + Len(FinalDot) :
               (given \o FinalDot)[k]
                 = IF k <= Len(given) THEN given[k] ELSE FinalDot[k - Len(given)]
      BY <1>3, <3>1, JoinElements
    <3> QED
      BY <1>2, <3>1, <3>2
  <2>2. i \in 1 .. Len(given) + 5
    BY <1>4, <2>1
  <2>3. CASE i <= Len(given)
    <3>1. i \in 1 .. Len(given) /\ given'[i] = given[i]
      BY <2>1, <2>2, <2>3
    <3> QED
      BY <1>4, <3>1 DEF DotFree
  <2>4. CASE ~(i <= Len(given))
    <3>1. i - Len(given) \in 1 .. 5 /\ given'[i] = FinalDot[i - Len(given)]
      BY <2>1, <2>2, <2>4
    <3>2. i - Len(given) = 3
      BY <1>4, <3>1, DotPlace
    <3> QED
      BY <2>1, <2>2, <3>2
  <2> QED
    BY <2>3, <2>4
<1> QED
  BY <1>1, <1>2, <1>3, <1>4, ComposingStep

LEMMA EnvelopeReply ==
  ASSUME Inv, ReplyInv, EnvelopeAccepted
  PROVE  ReplyInv'
<1>1. /\ pc = "check" /\ call = "idle" /\ ~thrown /\ pc' = "header" /\ phase' = "data"
      /\ UNCHANGED wireVars
      /\ UNCHANGED <<message, answers, failed_at, m_bConnected>>
  BY DEF EnvelopeAccepted, Ready, Goto, history
<1>2. UNCHANGED <<call, thrown, codes, m_send_buffer, given, sent, unwritten, incoming, closed>>
  BY <1>1 DEF wireVars, client, sender, reader, network
<1>3. failed_at = "nowhere"
  BY <1>1, NothingFailed DEF Inv, ReplyInv
<1>4. phase = "command" /\ answers = <<>>
  BY <1>1, <1>3 DEF ReplyInv, PhaseInv
<1>5. codes = <<>> /\ Said(incoming)
  BY <1>1, <1>3 DEF ReplyInv, HeardInv
<1>7. Said(incoming)'
  BY <1>1, <1>2, <1>4, <1>5 DEF Said
<1>8. FailedInv' /\ DotInv'
  BY <1>1, <1>2 DEF ReplyInv, FailedInv, DotInv, DotSent, AfterDot
<1>9. PhaseInv'
  BY <1>1, <1>2, <1>4 DEF PhaseInv
<1>10. HeardInv'
  BY <1>1, <1>2, <1>5, <1>7 DEF HeardInv
<1> QED
  BY <1>8, <1>9, <1>10 DEF ReplyInv

(* receive_response begins with empty buffers. *)
LEMMA AwaitReply ==
  ASSUME Inv, ReplyInv, AwaitAnswer
  PROVE  ReplyInv'
<1>1. PICK row \in {"DATAEND", "QUIT"} :
        /\ \/ row = "DATAEND" /\ pc = "answer" /\ pc' = "answered"
           \/ pc = "quit" /\ pc' = "bye"
        /\ call = "idle" /\ ~thrown /\ receive_response(row)
        /\ UNCHANGED <<message, m_bConnected, failed_at, phase, answers>>
  BY DEF AwaitAnswer, Awaits, Ready, Goto, history, peer
<1>2. /\ call' = "receive" /\ entry' = row /\ thrown' = thrown
      /\ m_receive_buffer' = <<>> /\ line' = <<>>
      /\ UNCHANGED <<codes, m_send_buffer, given, sent, unwritten, incoming, closed>>
  BY <1>1 DEF receive_response, sender, network
<1>3. FailedInv'
  BY <1>1 DEF ReplyInv, FailedInv
<1>4. failed_at = "nowhere" => pc = "answer" /\ pc' = "answered" /\ row = "DATAEND"
  BY <1>1 DEF Inv, ProgramInv, FileInv, ReplyInv, FailedInv
<1>5. DotSent' <=> DotSent
  BY <1>1, <1>4 DEF DotSent, AfterDot
<1>6. DotInv'
  BY <1>1, <1>2, <1>5 DEF ReplyInv, DotInv
<1>7. PhaseInv'
  BY <1>1, <1>2, <1>4 DEF ReplyInv, PhaseInv, AfterDot
<1>8. failed_at = "nowhere" => codes = <<>> /\ Said(incoming)
  BY <1>1, <1>4 DEF ReplyInv, HeardInv
<1>9. (<<>> \o <<>>) \o incoming = incoming
  <2>1. incoming \in Text
    BY WireTypes DEF Inv, WireInv
  <2>2. <<>> \o <<>> = <<>> /\ <<>> \o incoming = incoming
    BY <2>1, NoText, JoinNothing, ConcatEmptySeq DEF Text
  <2> QED
    BY <2>2
<1>10. failed_at = "nowhere" => Said((line \o m_receive_buffer) \o incoming)'
  BY <1>1, <1>2, <1>8, <1>9 DEF Said
<1>11. HeardInv'
  BY <1>1, <1>2, <1>4, <1>8, <1>10 DEF HeardInv
<1> QED
  BY <1>3, <1>6, <1>7, <1>11 DEF ReplyInv

LEMMA LeaveReply ==
  ASSUME Inv, ReplyInv, Leave \/ QuitFails
  PROVE  ReplyInv'
<1>1. /\ UNCHANGED wireVars /\ UNCHANGED <<message, m_bConnected, failed_at, phase, answers>>
      /\ \/ pc = "answered" /\ pc' = "sent" /\ call = "idle" /\ ~thrown
         \/ (pc = "bye" \/ ~m_bConnected) /\ pc' = "failed"
  BY DEF Leave, QuitFails, Ready, Goto, history, peer
<1>2. UNCHANGED <<m_ssl, call, entry, thrown, codes, line, m_receive_buffer, m_send_buffer, given,
                  sent, unwritten, incoming, closed>>
  BY <1>1 DEF wireVars, client, sender, reader, network
<1>3. FailedInv'
  BY <1>1 DEF ReplyInv, FailedInv
<1>4. failed_at = "nowhere" => pc = "answered" /\ pc' = "sent" /\ call = "idle" /\ ~thrown
  BY <1>1 DEF Inv, ProgramInv, FileInv, ReplyInv, FailedInv
<1>5. DotSent' <=> DotSent
  BY <1>1, <1>4 DEF DotSent, AfterDot
<1>6. DotInv'
  BY <1>1, <1>2, <1>5 DEF ReplyInv, DotInv
<1>7. PhaseInv'
  BY <1>1, <1>2, <1>4 DEF ReplyInv, PhaseInv, AfterDot
<1>8. ASSUME NEW w PROVE Said(w)' <=> Said(w)
  BY <1>1 DEF Said
<1>9. HeardInv'
  <2>1. CASE failed_at # "nowhere"
    BY <1>1, <2>1 DEF HeardInv
  <2>2. CASE failed_at = "nowhere"
    <3>1. /\ codes # <<>> /\ codes = answers /\ \E w \in Text : Said(w)
          /\ codes = <<valid_reply_code["DATAEND"]>>
      BY <1>4, <2>2 DEF ReplyInv, HeardInv
    <3>2. PICK w \in Text : Said(w)
      BY <3>1
    <3>3. Said(w)'
      BY <1>8, <3>2
    <3> QED
      BY <1>1, <1>2, <1>4, <2>2, <3>1, <3>3 DEF HeardInv
  <2> QED
    BY <2>1, <2>2
<1> QED
  BY <1>3, <1>6, <1>7, <1>9 DEF ReplyInv

LEMMA CatchReply ==
  ASSUME WireAssumption, DataAssumption, Inv, ReplyInv, Catch, ~Over
  PROVE  ReplyInv'
<1>1. /\ m_bConnected /\ thrown /\ failed_at' = pc /\ m_bConnected' = FALSE
      /\ m_send_buffer' = Quit /\ given' = given \o Quit /\ sent' = sent /\ unwritten' = unwritten
  BY DEF Catch, network
<1>2. failed_at' # "nowhere" /\ pc # "sent" /\ failed_at = "nowhere"
  BY <1>1 DEF Inv, ProgramInv, ProgramTypeOK, Points, Final, Over, ReplyInv, FailedInv
<1>3. DotInv'
  <2>1. given \in Text
    BY WireTypes DEF Inv, WireInv
  <2>2. DotFree(given) => DotFree(given \o Quit)
    BY <2>1, BlocksDotFree, ShortTexts, JoinDotFree
  <2>3. DotSent' <=> DotSent
    BY <1>1, <1>2 DEF DotSent, AfterDot
  <2>4. DotFree(Quit)
    BY BlocksDotFree
  <2> QED
    BY <1>1, <1>2, <2>2, <2>3, <2>4 DEF ReplyInv, DotInv
<1> QED
  BY <1>1, <1>2, <1>3 DEF ReplyInv, FailedInv, PhaseInv, HeardInv

LEMMA ProgramReply ==
  ASSUME WireAssumption, DataAssumption, Inv, Inv', ReplyInv, Program, ~Over
  PROVE  ReplyInv'
BY FilesReply, EnvelopeReply, BlocksReply, FillReply, FlushReply, FinalDotReply, AwaitReply,
   LeaveReply, CatchReply DEF Program

-----------------------------------------------------------------------------
(* The peer. *)
LEMMA PeerReply ==
  ASSUME WireAssumption, DataAssumption, ReplyAssumption, Inv, ReplyInv, Speaks
  PROVE  ReplyInv'
<1>0. /\ WireTypeOK /\ SentInv /\ ProgramTypeOK /\ given \in Text
      /\ m_receive_buffer \in Text /\ line \in Text /\ incoming \in Text
  BY WireTypes DEF Inv, WireInv, ProgramInv
<1>1. PICK text \in Text :
        /\ PeerWrites(text)
        /\ \/ /\ phase = "data" /\ ~closed /\ EndOfData(sent) /\ phase' = "taken" /\ closed' = closed
              /\ \E a \in message.answers : text = a.text /\ answers' = Append(answers, a.code)
           \/ phase \in {"command", "taken"} /\ IsSuffix(Quit, sent)
           \/ ~closed /\ closed' /\ phase' = phase /\ text = <<>> /\ answers' = answers
           \/ /\ phase = "data" /\ ~closed /\ closed' /\ phase' = phase
              /\ \E a \in message.goodbyes : text = a.text /\ answers' = Append(answers, a.code)
  <2>1. \A a \in message.answers \cup message.goodbyes : a.text \in Text
    BY <1>0, MessageFacts
  <2>2. CASE AnswerMessage
    BY <2>1, <2>2 DEF AnswerMessage
  <2>3. CASE AnswerQuit
    <3>1. <<50, 50, 49>> \o CRLF \in Text
      BY DEF CRLF, CR, LF, Text, Char
    <3> QED
      BY <2>3, <3>1 DEF AnswerQuit
  <2>4. CASE Hangup
    <3>1. \/ PeerWrites(<<>>) /\ answers' = answers
          \/ /\ phase = "data"
             /\ \E a \in message.goodbyes : PeerWrites(a.text) /\ answers' = Append(answers, a.code)
      BY <2>4 DEF Hangup
    <3>2. ~closed /\ closed' /\ phase' = phase
      BY <2>4 DEF Hangup
    <3> QED
      BY <2>1, <3>1, <3>2, NoText
  <2> QED
    BY <2>2, <2>3, <2>4 DEF Speaks
<1>2. /\ UNCHANGED <<message, pc, m_bConnected, failed_at>>
      /\ UNCHANGED <<m_ssl, call, entry, thrown, codes, line, m_receive_buffer, m_send_buffer,
                     given, sent, unwritten>>
      /\ incoming' = incoming \o text
  BY <1>1 DEF Speaks, AnswerMessage, AnswerQuit, Hangup, PeerWrites, client, sender, reader,
              program, history
<1>3. FailedInv' /\ DotInv'
  BY <1>2 DEF ReplyInv, FailedInv, DotInv, DotSent
<1>4. CASE failed_at # "nowhere"
  BY <1>2, <1>3, <1>4 DEF ReplyInv, PhaseInv, HeardInv
<1>5. CASE failed_at = "nowhere"
  <2>1. ~(phase \in {"command", "taken"} /\ IsSuffix(Quit, sent))
    BY <1>0, <1>5, NoQuitYet DEF ReplyInv
  <2>2. CASE text = <<>> /\ answers' = answers /\ phase' = phase /\ closed'
    <3>1. incoming' = incoming
      BY <1>0, <1>2, <2>2, JoinNothing
    <3>2. ASSUME NEW w PROVE Said(w)' <=> Said(w)
      BY <1>2, <2>2 DEF Said
    <3>3. PhaseInv'
      BY <1>2, <2>2 DEF ReplyInv, PhaseInv
    <3>4. HeardInv'
      BY <1>2, <2>2, <3>1, <3>2 DEF ReplyInv, HeardInv
    <3> QED
      BY <1>3, <3>3, <3>4 DEF ReplyInv
  <2>3. ASSUME phase = "data", ~closed, NEW a \in message.answers \cup message.goodbyes,
               text = a.text, answers' = Append(answers, a.code),
               \/ phase' = "taken" /\ EndOfData(sent) /\ closed' = closed
               \/ phase' = "data" /\ a \in message.goodbyes /\ closed'
        PROVE  ReplyInv'
    <3>1. answers = <<>>
      BY <1>5, <2>3 DEF ReplyInv, PhaseInv
    <3>2. answers' = <<a.code>>
      BY <2>3, <3>1
    <3>3. Said(text)'
      BY <1>2, <2>3, <3>2 DEF Said
    <3>4. ASSUME NEW w, Said(w) PROVE w = <<>>
      BY <3>1, <3>4 DEF Said
    <3>5. codes = <<>>
      BY <1>5, <3>1 DEF ReplyInv, HeardInv
    <3>6. phase' = "taken" => pc \in AfterDot /\ sent = given /\ Len(given) >= 3
                              /\ given[Len(given) - 2] = 46
      BY <1>0, <1>5, <2>3, EndSeen DEF ReplyInv
    <3>7. PhaseInv'
      BY <1>2, <1>5, <2>3, <3>6 DEF ReplyInv, PhaseInv
    <3>8. <<>> \o text = text
      BY ConcatEmptySeq DEF Text
    <3>9. call = "receive" => (line \o m_receive_buffer) \o incoming' = text
      <4>1. line \o m_receive_buffer \in Text
        BY <1>0, JoinText
      <4>2. (line \o m_receive_buffer) \o (incoming \o text)
              = ((line \o m_receive_buffer) \o incoming) \o text
        BY <1>0, <4>1, JoinAssoc
      <4>3. call = "receive" => (line \o m_receive_buffer) \o incoming = <<>>
        BY <1>5, <3>4 DEF ReplyInv, HeardInv
      <4> QED
        BY <1>2, <3>8, <4>2, <4>3
    <3>10. call # "receive" /\ ~thrown => incoming' = text
      <4>1. call # "receive" /\ ~thrown => incoming = <<>>
        BY <1>5, <3>4, <3>5 DEF ReplyInv, HeardInv
      <4> QED
        BY <1>2, <3>8, <4>1
    <3>11. /\ call = "receive" => Said((line \o m_receive_buffer) \o incoming)'
           /\ call # "receive" /\ ~thrown => Said(incoming)'
      <4>1. call = "receive" => Said((line \o m_receive_buffer) \o incoming)'
        BY <1>2, <3>3, <3>9
      <4> QED
        BY <3>3, <3>10, <4>1
    <3>12. HeardInv'
      BY <1>2, <1>5, <3>5, <3>11 DEF ReplyInv, HeardInv
    <3> QED
      BY <1>3, <3>7, <3>12 DEF ReplyInv
  <2> QED
    BY <1>1, <2>1, <2>2, <2>3
<1> QED
  BY <1>4, <1>5

LEMMA ReplyInit ==
  ASSUME Init
  PROVE  ReplyInv
<1>1. /\ failed_at = "nowhere" /\ m_bConnected /\ pc = "check" /\ phase = "command" /\ answers = <<>>
      /\ call = "idle" /\ thrown = FALSE /\ codes = <<>> /\ incoming = <<>>
      /\ sent = <<>> /\ unwritten = <<>> /\ m_send_buffer = <<>> /\ given = <<>>
  BY DEF Init, WireInit
<1>2. FailedInv /\ DotInv
  BY <1>1, NoText, NothingDotFree DEF FailedInv, DotInv, DotSent, AfterDot
<1>3. PhaseInv
  BY <1>1 DEF PhaseInv
<1>4. HeardInv
  BY <1>1 DEF HeardInv, Said
<1> QED
  BY <1>2, <1>3, <1>4 DEF ReplyInv

LEMMA ReplyNext ==
  ASSUME WireAssumption, DataAssumption, ReplyAssumption, Inv, Inv', ReplyInv, [Next]_vars
  PROVE  ReplyInv'
<1>1. CASE Program /\ ~Over
  BY <1>1, ProgramReply
<1>2. CASE WireStep /\ UNCHANGED <<program, history, peer>>
  <2>1. DotInv' /\ PhaseInv'
    BY <1>2, WireDots DEF Inv, WireInv, ReplyInv
  <2>2. HeardInv'
    BY <1>2, WireHeard DEF ReplyInv
  <2>3. FailedInv'
    BY <1>2 DEF program, history, ReplyInv, FailedInv
  <2> QED
    BY <2>1, <2>2, <2>3 DEF ReplyInv
<1>3. CASE Speaks
  BY <1>3, PeerReply
<1>5. CASE ContinuationLine
  BY <1>5, LineChanges DEF program, history, peer, ReplyInv, FailedInv, DotInv, DotSent, PhaseInv,
                           HeardInv, Said
<1>4. CASE UNCHANGED vars
  BY <1>4 DEF vars, wireVars, client, sender, reader, network, program, history, peer, ReplyInv,
              FailedInv, DotInv, DotSent, PhaseInv, HeardInv, Said
<1> QED
  BY <1>1, <1>2, <1>3, <1>4, <1>5 DEF Next, ClientStep, Peer, Speaks

(* The invariant behind the next two theorems: what the peer has said is   *)
(* one reply, no part of which is lost or read twice on its way through    *)
(* the buffers of receive_data to the code receive_response finds, and no  *)
(* dot of a file, a block or a QUIT reaches the peer before the final one. *)
THEOREM RepliesHeard == Spec => []ReplyInv
<1>1. Init => ReplyInv
  BY ReplyInit
<1>2. Inv /\ Inv' /\ ReplyInv /\ [Next]_vars => ReplyInv'
  BY ReplyNext, WireAssumption, DataAssumption, ReplyAssumption
<1> QED
  BY <1>1, <1>2, Invariance, PTL DEF Spec

(* Whatever a reply says and however it is cut, receive_response finds its *)
(* code, and send_mail returns true only for a message that the peer has   *)
(* taken: no code of a line, a goodbye or a QUIT passes for the answer to  *)
(* the final dot.                                                          *)
THEOREM CodesAreRight == Spec => []ReplyCodesRight
<1>1. Inv /\ ReplyInv => ReplyCodesRight
  <2> SUFFICES ASSUME Inv, ReplyInv PROVE ReplyCodesRight
    OBVIOUS
  <2>1. failed_at = "nowhere" => IsPrefix(codes, answers)
    <3>1. codes \in Seq(0 .. 999) /\ answers \in Seq(0 .. 999)
      BY WireTypes DEF Inv, WireInv, ProgramInv, ProgramTypeOK
    <3>2. failed_at = "nowhere" => codes = <<>> \/ codes = answers
      BY DEF ReplyInv, HeardInv
    <3>3. IsPrefix(answers, answers)
      BY <3>1, LenProperties DEF IsPrefix
    <3>4. IsPrefix(<<>>, answers)
      BY <3>1, LenProperties, EmptySeq, SubSeqEmpty DEF IsPrefix
    <3> QED
      BY <3>2, <3>3, <3>4
  <2>2. ASSUME pc = "sent"
        PROVE  phase = "taken" /\ answers[1] = valid_reply_code["DATAEND"]
    <3>1. failed_at = "nowhere"
      BY <2>2, NothingFailed DEF Inv, ReplyInv
    <3>2. /\ codes # <<>> /\ codes = answers /\ \E w \in Text : Said(w)
          /\ codes = <<valid_reply_code["DATAEND"]>>
      BY <2>2, <3>1 DEF ReplyInv, HeardInv
    <3>3. PICK a \in message.answers \cup message.goodbyes :
            answers = <<a.code>> /\ (phase # "taken" => a \in message.goodbyes)
      BY <3>2 DEF Said
    <3>4. a.code = valid_reply_code["DATAEND"]
      <4>1. answers[1] = a.code
        BY <3>3
      <4>2. codes[1] = valid_reply_code["DATAEND"]
        BY <3>2
      <4> QED
        BY <3>2, <4>1, <4>2, Zenon
    <3>5. a \notin message.goodbyes
      BY <3>4, ReplyAssumption DEF Inv, ProgramInv, ProgramTypeOK
    <3> QED
      BY <3>2, <3>3, <3>5
  <2> QED
    BY <2>1, <2>2 DEF ReplyCodesRight
<1> QED
  BY <1>1, Invariance, RepliesHeard, PTL

(* Part of WholeOrNothing: once the end of a message is out, nothing but   *)
(* the wait for the answer can still fail, although a file may hold any    *)
(* bytes and a QUIT may follow a message that broke off.                   *)
EndIsTheEnd == EndOfData(sent) => failed_at \in {"nowhere", "answer", "answered"}

THEOREM NothingFailsBehindTheEnd == Spec => []EndIsTheEnd
<1>1. Inv /\ ReplyInv => EndIsTheEnd
  <2> SUFFICES ASSUME Inv, ReplyInv, EndOfData(sent), failed_at # "nowhere"
               PROVE  DotSent
    BY DEF EndIsTheEnd, DotSent
  <2>1. sent \in Text /\ Len(sent) \in Nat
    BY WireTypes, LenText DEF Inv, WireInv
  <2>2. PICK i \in 1 .. Len(sent) - 4 : SubSeq(sent, i, i + 4) = FinalDot
    BY DEF EndOfData
  <2>3. i \in Nat \ {0} /\ i + 4 \in Int /\ i + 4 <= Len(sent)
    BY <2>1
  <2>4. ~DotFree(SubSeq(sent, i, i + 4))
    <3>1. ~DotFree(FinalDot)
      BY DotPlace DEF DotFree
    <3> QED
      BY <2>2, <3>1
  <2>5. ~DotFree(sent)
    BY <2>1, <2>3, <2>4, SubDotFree
  <2> QED
    BY <2>5 DEF ReplyInv, DotInv
<1> QED
  BY <1>1, Invariance, RepliesHeard, PTL
-----------------------------------------------------------------------------
(* WholeOrNothing.  A text of whole lines, and how it grows.               *)
Whole(s) == Len(s) = 0 \/ (Len(s) >= 2 /\ s[Len(s) - 1] = CR /\ s[Len(s)] = LF)

EndAt(s, k)  == IF k = 0 THEN -1 ELSE Nth(Ends(s), k)
LineAt(s, k) == SubSeq(s, EndAt(s, k - 1) + 2, EndAt(s, k) - 1)

Joins(u, s, n, t, m) ==
  /\ u \in Text /\ Len(u) = n + m
  /\ \A i \in 1 .. n : u[i] = s[i]
  /\ \A i \in 1 .. m : u[n + i] = t[i]

LEMMA Joined ==
  ASSUME NEW s \in Text, NEW t \in Text, NEW u, u = s \o t,
         NEW n \in Nat, n = Len(s), NEW m \in Nat, m = Len(t)
  PROVE  Joins(u, s, n, t, m)
<1>1. /\ s \o t \in Text /\ Len(s \o t) = Len(s) + Len(t)
      /\ \A i \in 1 .. Len(s) + Len(t) : (s \o t)[i] = IF i <= Len(s) THEN s[i] ELSE t[i - Len(s)]
  BY JoinElements
<1>2. /\ u \in Text /\ Len(u) = n + m
      /\ \A i \in 1 .. n + m : u[i] = IF i <= n THEN s[i] ELSE t[i - n]
  BY <1>1
<1>3. \A i \in 1 .. n : u[i] = s[i]
  <2>1. \A i \in 1 .. n : i \in 1 .. n + m /\ i <= n
    OBVIOUS
  <2> QED
    BY <1>2, <2>1
<1>4. ASSUME NEW i \in 1 .. m PROVE u[n + i] = t[i]
  <2>1. n + i \in 1 .. n + m /\ ~(n + i <= n) /\ (n + i) - n = i
    OBVIOUS
  <2> QED
    BY <1>2, <2>1
<1> QED
  BY <1>2, <1>3, <1>4 DEF Joins

LEMMA Behind ==
  ASSUME NEW n \in Nat, NEW m \in Nat, NEW i \in n + 1 .. n + m
  PROVE  \E k \in 1 .. m : i = n + k
<1>1. i - n \in 1 .. m /\ i = n + (i - n)
  OBVIOUS
<1> QED
  BY <1>1, Zenon

LEMMA EndsType ==
  ASSUME NEW s \in Text
  PROVE  /\ Ends(s) \in SUBSET (1 .. Len(s)) /\ Len(s) \in Nat
         /\ IsFiniteSet(Ends(s)) /\ Cardinality(Ends(s)) \in Nat
         /\ \A k \in 1 .. Cardinality(Ends(s)) :
              Nth(Ends(s), k) \in 1 .. Len(s) - 1 /\ Nth(Ends(s), k) \in Ends(s)
<1>1. Len(s) \in Nat
  BY LenText
<1>2. Ends(s) \in SUBSET (1 .. Len(s))
  BY <1>1 DEF Ends
<1>3. \A k \in 1 .. Cardinality(Ends(s)) : Nth(Ends(s), k) \in Ends(s)
  BY <1>1, <1>2, NthExists
<1>4. \A e \in Ends(s) : e \in 1 .. Len(s) - 1
  BY DEF Ends
<1> QED
  BY <1>1, <1>2, <1>3, <1>4, NthExists

LEMMA LinesAre ==
  ASSUME NEW s \in Text
  PROVE  /\ LinesOf(s) = [k \in 1 .. Cardinality(Ends(s)) |-> LineAt(s, k)]
         /\ \A k \in 1 .. Cardinality(Ends(s)) : LineAt(s, k) \in Text
         /\ LinesOf(s) \in Seq(Text) /\ Len(LinesOf(s)) = Cardinality(Ends(s))
<1> DEFINE n == Cardinality(Ends(s))
           f == [k \in 1 .. n |-> LineAt(s, k)]
<1>1. n \in Nat /\ Len(s) \in Nat
  BY EndsType
<1>2. ASSUME NEW k \in 1 .. n PROVE LineAt(s, k) \in Text
  <2>1. Nth(Ends(s), k) \in 1 .. Len(s) - 1
    BY EndsType
  <2>2. k - 1 # 0 => Nth(Ends(s), k - 1) \in 1 .. Len(s) - 1
    <3>1. k - 1 # 0 => k - 1 \in 1 .. n
      BY <1>1
    <3> HIDE DEF n
    <3> QED
      BY <3>1, EndsType DEF n
  <2>3. /\ EndAt(s, k) \in 1 .. Len(s) - 1
        /\ EndAt(s, k - 1) = -1 \/ EndAt(s, k - 1) \in 1 .. Len(s) - 1
    BY <2>1, <2>2 DEF EndAt
  <2>4. PICK a \in Nat \ {0}, b \in Int : a = EndAt(s, k - 1) + 2 /\ b = EndAt(s, k) - 1 /\ b <= Len(s)
    BY <1>1, <2>3
  <2> QED
    BY <2>4, SubText DEF LineAt
<1>3. f \in [1 .. n -> Text]
  BY <1>2
<1>4. f \in Seq(Text) /\ Len(f) = n
  <2> HIDE DEF f, n
  <2> QED
    BY <1>1, <1>3, FunctionIsSeq
<1>5. LinesOf(s) = <<>> \o f
  BY Zenon DEF LinesOf, LineAt, EndAt
<1>6. LinesOf(s) = f
  <2> HIDE DEF f
  <2> QED
    BY <1>4, <1>5, ConcatEmptySeq
<1> QED
  BY <1>2, <1>4, <1>6

(* The part of a text that is a given one. *)
LEMMA CutIs ==
  ASSUME NEW t \in Text, NEW n \in Nat, NEW m \in Nat, n + m <= Len(t), NEW l \in Text, m = Len(l),
         \A i \in 1 .. m : t[n + i] = l[i]
  PROVE  SubSeq(t, n + 1, n + m) = l
<1>1. Len(t) \in Nat
  BY LenText
<1>2. \A i \in n + 1 .. n + m : t[i] \in Char
  BY <1>1, ElementOfSeq DEF Text
<1>3. PICK a \in Int, b \in Int : a = n + 1 /\ b = n + m
  OBVIOUS
<1>4. PICK u : u = SubSeq(t, a, b)
  OBVIOUS
<1>5. /\ u \in Seq(Char) /\ Len(u) = IF a <= b THEN b - a + 1 ELSE 0
      /\ \A i \in 1 .. b - a + 1 : u[i] = t[a + i - 1]
  BY <1>2, <1>3, <1>4, SubSeqProperties
<1>6. Len(u) = m /\ \A i \in 1 .. m : u[i] = l[i]
  <2>1. b - a + 1 = m /\ \A i \in 1 .. m : a + i - 1 = n + i
    BY <1>3
  <2> QED
    BY <1>3, <1>5, <2>1
<1>7. u = l
  BY <1>5, <1>6, SeqEqual DEF Text
<1> QED
  BY <1>3, <1>4, <1>7

(* A part of a text is the same part of a longer one. *)
LEMMA PartOfFirst ==
  ASSUME NEW s \in Text, NEW t \in Text, NEW a \in Nat \ {0}, NEW b \in Int, b <= Len(s)
  PROVE  SubSeq(s \o t, a, b) = SubSeq(s, a, b)
<1>1. Len(s) \in Nat
  BY LenText
<1>2. CASE a > b
  BY <1>2, SubSeqEmpty
<1>3. CASE a <= b
  <2>1. a \in 1 .. Len(s) /\ b \in 1 .. Len(s)
    BY <1>1, <1>3
  <2> QED
    BY <2>1, SubSeqOfConcat1 DEF Text
<1> QED
  BY <1>2, <1>3

(* The lines of a text are those of a longer one with the same ends. *)
LEMMA LineKept ==
  ASSUME NEW s \in Text, NEW x \in Text, NEW k \in 1 .. Cardinality(Ends(s)),
         EndAt(s \o x, k) = EndAt(s, k), EndAt(s \o x, k - 1) = EndAt(s, k - 1)
  PROVE  LineAt(s \o x, k) = LineAt(s, k)
<1>1. Len(s) \in Nat /\ Cardinality(Ends(s)) \in Nat
  BY EndsType
<1>2. Nth(Ends(s), k) \in 1 .. Len(s) - 1
  BY EndsType
<1>3. k - 1 # 0 => Nth(Ends(s), k - 1) \in 1 .. Len(s) - 1
  <2>1. k - 1 # 0 => k - 1 \in 1 .. Cardinality(Ends(s))
    BY <1>1
  <2> QED
    BY <2>1, EndsType
<1>4. /\ EndAt(s, k) \in 1 .. Len(s) - 1
      /\ EndAt(s, k - 1) = -1 \/ EndAt(s, k - 1) \in 1 .. Len(s) - 1
  BY <1>2, <1>3 DEF EndAt
<1>5. PICK a \in Nat \ {0}, b \in Int : a = EndAt(s, k - 1) + 2 /\ b = EndAt(s, k) - 1 /\ b <= Len(s)
  BY <1>1, <1>4
<1>6. LineAt(s, k) = SubSeq(s, a, b) /\ LineAt(s \o x, k) = SubSeq(s \o x, a, b)
  BY <1>5 DEF LineAt
<1> QED
  BY <1>5, <1>6, PartOfFirst

(* What comes behind whole lines without a line end in it adds no line. *)
LEMMA LinesKept ==
  ASSUME NEW s \in Text, Whole(s), NEW x \in Text,
         \A i \in 1 .. Len(x) - 1 : ~(x[i] = CR /\ x[i + 1] = LF)
  PROVE  s \o x \in Text /\ LinesOf(s \o x) = LinesOf(s)
<1>0. PICK n \in Nat, m \in Nat : n = Len(s) /\ m = Len(x)
  BY LenText
<1>1. /\ s \o x \in Text /\ Len(s \o x) = n + m
      /\ \A i \in 1 .. n : (s \o x)[i] = s[i]
      /\ \A i \in 1 .. m : (s \o x)[n + i] = x[i]
  <2>1. Joins(s \o x, s, n, x, m)
    BY <1>0, Joined
  <2> QED
    BY <2>1 DEF Joins
<1>2. Ends(s \o x) = Ends(s)
  <2> DEFINE u == s \o x
  <2>1. ASSUME NEW i \in 1 .. n + m - 1
        PROVE  u[i] = CR /\ u[i + 1] = LF
                 <=> i \in 1 .. n - 1 /\ s[i] = CR /\ s[i + 1] = LF
    <3>1. CASE i < n
      <4>1. i \in 1 .. n - 1 /\ i \in 1 .. n /\ i + 1 \in 1 .. n
        BY <3>1
      <4> QED
        BY <1>1, <4>1
    <3>2. CASE i = n
      <4>1. s[n] = LF /\ n \in 1 .. n
        BY <1>0, <3>2 DEF Whole
      <4>2. u[i] = LF
        BY <1>1, <3>2, <4>1
      <4> QED
        BY <3>2, <4>2 DEF CR, LF
    <3>3. CASE i > n
      <4>1. PICK l \in 1 .. m : i = n + l
        BY <3>3, Behind
      <4>2. l \in 1 .. m - 1 /\ l + 1 \in 1 .. m /\ i + 1 = n + (l + 1)
        BY <4>1
      <4>3. u[i] = x[l] /\ u[i + 1] = x[l + 1]
        BY <1>1, <4>1, <4>2
      <4>4. ~(x[l] = CR /\ x[l + 1] = LF)
        BY <1>0, <4>2
      <4>5. i \notin 1 .. n - 1
        BY <3>3
      <4> QED
        BY <4>3, <4>4, <4>5, Zenon
    <3>4. i < n \/ i = n \/ i > n
      OBVIOUS
    <3> QED
      BY <3>1, <3>2, <3>3, <3>4, Zenon
  <2>2. Ends(u) = {i \in 1 .. n + m - 1 : u[i] = CR /\ u[i + 1] = LF}
    BY <1>1 DEF Ends
  <2>3. Ends(s) = {i \in 1 .. n - 1 : s[i] = CR /\ s[i + 1] = LF}
    BY <1>0 DEF Ends
  <2> HIDE DEF u
  <2>4. \A i \in 1 .. n - 1 : i \in 1 .. n + m - 1
    OBVIOUS
  <2>5. Ends(u) = Ends(s)
    BY <2>1, <2>2, <2>3, <2>4
  <2> QED
    BY <2>5 DEF u
<1>3. ASSUME NEW k PROVE EndAt(s \o x, k) = EndAt(s, k)
  BY <1>2 DEF EndAt
<1>4. \A k \in 1 .. Cardinality(Ends(s)) : LineAt(s \o x, k) = LineAt(s, k)
  BY <1>3, LineKept
<1>5. LinesOf(s \o x) = [k \in 1 .. Cardinality(Ends(s)) |-> LineAt(s \o x, k)]
  BY <1>1, <1>2, LinesAre
<1>6. LinesOf(s) = [k \in 1 .. Cardinality(Ends(s)) |-> LineAt(s, k)]
  BY LinesAre
<1>7. LinesOf(s \o x) = LinesOf(s)
  BY <1>4, <1>5, <1>6, Zenon
<1> QED
  BY <1>1, <1>7

(* One more line. *)
NoReturn(l) == \A i \in 1 .. Len(l) : l[i] # CR

LEMMA LineEnd == CRLF \in Text /\ Len(CRLF) = 2 /\ CRLF[1] = CR /\ CRLF[2] = LF /\ CR # LF
BY DEF CRLF, CR, LF, Text, Char

LEMMA LinesGrow ==
  ASSUME NEW s \in Text, Whole(s), NEW l \in Text, NoReturn(l), NEW t, t = s \o (l \o CRLF)
  PROVE  t \in Text /\ Whole(t) /\ LinesOf(t) = Append(LinesOf(s), l)
<1>1. PICK n \in Nat, m \in Nat : n = Len(s) /\ m = Len(l)
  BY LenText
<1>2. PICK x : x = l \o CRLF
  OBVIOUS
<1>3. x \in Text /\ Len(x) = m + 2 /\ (\A i \in 1 .. m : x[i] = l[i])
      /\ x[m + 1] = CR /\ x[m + 2] = LF
  <2>1. PICK two \in Nat : two = 2
    OBVIOUS
  <2>2. CRLF \in Text /\ Len(CRLF) = two
    BY <2>1, LineEnd
  <2>3. /\ x \in Text /\ Len(x) = m + two
        /\ \A i \in 1 .. m : x[i] = l[i]
        /\ \A i \in 1 .. two : x[m + i] = CRLF[i]
    <3>1. Joins(x, l, m, CRLF, two)
      BY <1>1, <1>2, <2>2, Joined
    <3> QED
      BY <3>1 DEF Joins
  <2>4. x[m + 1] = CRLF[1] /\ x[m + 2] = CRLF[2]
    BY <2>1, <2>3
  <2> QED
    BY <2>1, <2>3, <2>4, LineEnd
<1>4. /\ t \in Text /\ Len(t) = n + m + 2
      /\ \A i \in 1 .. n : t[i] = s[i]
      /\ \A i \in 1 .. m : t[n + i] = l[i]
      /\ t[n + m + 1] = CR /\ t[n + m + 2] = LF
  <2>1. PICK q \in Nat : q = m + 2
    OBVIOUS
  <2>2. /\ t \in Text /\ Len(t) = n + q
        /\ \A i \in 1 .. n : t[i] = s[i]
        /\ \A i \in 1 .. q : t[n + i] = x[i]
    <3>1. t = s \o x
      BY <1>2
    <3>2. Len(x) = q /\ x \in Text
      BY <1>3, <2>1
    <3>3. Joins(t, s, n, x, q)
      BY <1>1, <3>1, <3>2, Joined
    <3> QED
      BY <3>3 DEF Joins
  <2>3. \A i \in 1 .. m : t[n + i] = l[i]
    <3>1. \A i \in 1 .. m : i \in 1 .. q
      BY <2>1
    <3> QED
      BY <1>3, <2>2, <3>1
  <2>4. m + 1 \in 1 .. q /\ m + 2 \in 1 .. q
    BY <2>1
  <2>5. t[n + (m + 1)] = CR /\ t[n + (m + 2)] = LF
    BY <1>3, <2>2, <2>4
  <2>6. n + (m + 1) = n + m + 1 /\ n + (m + 2) = n + m + 2 /\ n + q = n + m + 2
    BY <2>1
  <2> QED
    BY <2>2, <2>3, <2>5, <2>6
<1>5. Whole(t)
  BY <1>4 DEF Whole
<1>6. Grown(Ends(s), n + m + 1, Ends(t))
  <2>1. ASSUME NEW i \in 1 .. n + m + 1
        PROVE  t[i] = CR /\ t[i + 1] = LF
                 <=> i = n + m + 1 \/ (i \in 1 .. n - 1 /\ s[i] = CR /\ s[i + 1] = LF)
    <3>1. CASE i < n
      <4>1. i \in 1 .. n - 1 /\ i \in 1 .. n /\ i + 1 \in 1 .. n /\ i # n + m + 1
        BY <3>1
      <4> QED
        BY <1>4, <4>1
    <3>2. CASE i = n
      <4>1. s[n] = LF /\ n \in 1 .. n
        BY <1>1, <3>2 DEF Whole
      <4>2. t[i] = LF
        BY <1>4, <3>2, <4>1
      <4>3. i # n + m + 1 /\ ~(i \in 1 .. n - 1)
        BY <3>2
      <4> QED
        BY <4>2, <4>3, LineEnd
    <3>3. CASE i \in n + 1 .. n + m
      <4>1. PICK k \in 1 .. m : i = n + k
        BY <3>3, Behind
      <4>2. t[i] = l[k] /\ l[k] # CR
        BY <1>1, <1>4, <4>1 DEF NoReturn
      <4>3. i # n + m + 1 /\ ~(i \in 1 .. n - 1)
        BY <3>3
      <4> QED
        BY <4>2, <4>3
    <3>4. CASE i = n + m + 1
      <4>1. i + 1 = n + m + 2
        BY <3>4
      <4> QED
        BY <1>4, <3>4, <4>1
    <3>5. i < n \/ i = n \/ i \in n + 1 .. n + m \/ i = n + m + 1
      OBVIOUS
    <3> QED
      BY <3>1, <3>2, <3>3, <3>4, <3>5, Zenon
  <2>2. \A e \in Ends(s) : e < n + m + 1
    BY <1>1 DEF Ends
  <2>3. Ends(t) = Ends(s) \cup {n + m + 1}
    <3>1. Ends(t) = {i \in 1 .. n + m + 1 : t[i] = CR /\ t[i + 1] = LF}
      <4>1. Len(t) - 1 = n + m + 1
        BY <1>4
      <4> QED
        BY <4>1 DEF Ends
    <3>2. Ends(s) = {i \in 1 .. n - 1 : s[i] = CR /\ s[i + 1] = LF}
      BY <1>1 DEF Ends
    <3>3. n + m + 1 \in 1 .. n + m + 1 /\ \A i \in 1 .. n - 1 : i \in 1 .. n + m + 1
      OBVIOUS
    <3> QED
      BY <2>1, <3>1, <3>2, <3>3
  <2> QED
    BY <2>2, <2>3 DEF Grown
<1>7. PICK c \in Nat : c = Cardinality(Ends(s))
  BY EndsType
<1>8. /\ Ends(s) \in SUBSET (1 .. n) /\ IsFiniteSet(Ends(s)) /\ Ends(s) \subseteq Int
  BY <1>1, EndsType
<1>9. Cardinality(Ends(t)) = c + 1 /\ Nth(Ends(t), c + 1) = n + m + 1
  BY <1>6, <1>7, <1>8, CountGrows
<1>10. ASSUME NEW k \in 1 .. c PROVE Nth(Ends(t), k) = Nth(Ends(s), k)
  <2>1. k \in 1 .. Cardinality(Ends(s))
    BY <1>7
  <2>2. Keeps(Ends(s), Ends(t))
    BY <1>6, <1>8, NthKept
  <2> QED
    BY <2>1, <2>2 DEF Keeps
<1>11. \A k \in 0 .. c : EndAt(t, k) = EndAt(s, k)
  BY <1>10 DEF EndAt
<1>12. EndAt(s, c) = n - 1
  <2>1. CASE n = 0
    <3>1. Ends(s) = {}
      BY <1>1, <2>1 DEF Ends
    <3>2. c = 0
      BY <1>7, <3>1, FS_EmptySet
    <3> QED
      BY <2>1, <3>2 DEF EndAt
  <2>2. CASE n # 0
    <3>1. PICK e : e = n - 1 /\ e \in Ends(s)
      BY <1>1, <2>2 DEF Whole, Ends
    <3>2. {i \in Ends(s) : i <= e} = Ends(s)
      <4>1. \A i \in Ends(s) : i <= e
        BY <1>1, <3>1 DEF Ends
      <4> QED
        BY <4>1, Zenon
    <3>3. CountTo(Ends(s), e) = c
      BY <1>7, <3>2 DEF CountTo
    <3>4. Nth(Ends(s), c) = e
      BY <1>8, <3>1, <3>3, NthIs
    <3>5. c # 0
      BY <1>7, <1>8, <3>1, FS_EmptySet
    <3> QED
      BY <3>1, <3>4, <3>5 DEF EndAt
  <2> QED
    BY <2>1, <2>2
<1>13. ASSUME NEW k \in 1 .. c PROVE LineAt(t, k) = LineAt(s, k)
  <2>1. EndAt(t, k) = EndAt(s, k) /\ EndAt(t, k - 1) = EndAt(s, k - 1)
    BY <1>11
  <2>2. t = s \o x
    BY <1>2
  <2> QED
    BY <1>3, <1>7, <2>1, <2>2, LineKept
<1>14. LineAt(t, c + 1) = l
  <2>1. EndAt(t, c + 1) = n + m + 1
    BY <1>9 DEF EndAt
  <2>2. EndAt(t, (c + 1) - 1) = n - 1
    BY <1>11, <1>12
  <2>3. LineAt(t, c + 1) = SubSeq(t, n + 1, n + m)
    <3>1. (n - 1) + 2 = n + 1 /\ (n + m + 1) - 1 = n + m
      OBVIOUS
    <3> QED
      BY <2>1, <2>2, <3>1, Zenon DEF LineAt
  <2>4. m \in Nat /\ n + m <= Len(t)
    BY <1>1, <1>4
  <2>5. SubSeq(t, n + 1, n + m) = l
    BY <1>1, <1>4, <2>4, CutIs, Zenon
  <2> QED
    BY <2>3, <2>5
<1>15. /\ LinesOf(s) \in [1 .. c -> Text] /\ \A k \in 1 .. c : LinesOf(s)[k] = LineAt(s, k)
  BY <1>7, LinesAre
<1>16. /\ LinesOf(t) \in [1 .. c + 1 -> Text] /\ \A k \in 1 .. c + 1 : LinesOf(t)[k] = LineAt(t, k)
  BY <1>4, <1>9, LinesAre
<1>17. ASSUME NEW k \in 1 .. c PROVE LinesOf(t)[k] = LinesOf(s)[k]
  <2>1. k \in 1 .. c + 1
    OBVIOUS
  <2> QED
    BY <1>13, <1>15, <1>16, <2>1
<1>18. LinesOf(t)[c + 1] = l
  BY <1>14, <1>16
<1>19. LinesOf(t) = Append(LinesOf(s), LinesOf(t)[c + 1])
  <2>1. PICK f, g : f = LinesOf(s) /\ g = LinesOf(t)
    OBVIOUS
  <2>2. f \in [1 .. c -> Text] /\ g \in [1 .. c + 1 -> Text] /\ \A k \in 1 .. c : g[k] = f[k]
    BY <1>15, <1>16, <1>17, <2>1
  <2>3. g = Append(f, g[c + 1])
    BY <1>7, <2>2, SeqGrows
  <2> QED
    BY <2>1, <2>3
<1> QED
  BY <1>4, <1>5, <1>18, <1>19, Zenon

-----------------------------------------------------------------------------
(* WholeOrNothing.  What one more line does to the files.                  *)
HeadLine == <<45, 45, 66>>
Dash(x)  == x # <<>> /\ x[1] = 45

Added(L, x, K, m) ==
  /\ L \in Seq(Text) /\ x \in Text /\ m \in Nat /\ Len(L) = m
  /\ K \in Seq(Text) /\ Len(K) = m + 1
  /\ \A i \in 1 .. m : K[i] = L[i]
  /\ K[m + 1] = x

LEMMA LineAdded ==
  ASSUME NEW L \in Seq(Text), NEW x \in Text
  PROVE  Added(L, x, Append(L, x), Len(L))
BY AppendProperties, LenProperties DEF Added

HeadsAfter(L, x, K, m)  == IF x = HeadLine THEN Grown(Heads(L), m + 1, Heads(K)) ELSE Heads(K) = Heads(L)
DashesAfter(L, x, K, m) == IF Dash(x) THEN Grown(Dashes(L), m + 1, Dashes(K)) ELSE Dashes(K) = Dashes(L)

LEMMA MarksOf ==
  ASSUME NEW L \in Seq(Text), NEW m \in Nat, Len(L) = m
  PROVE  /\ Heads(L) \in SUBSET (1 .. m) /\ Dashes(L) \in SUBSET (1 .. m)
         /\ Heads(L) \subseteq Dashes(L)
<1>1. HeadLine # <<>> /\ HeadLine[1] = 45
  BY DEF HeadLine
<1>2. Heads(L) = {k \in 1 .. m : L[k] = HeadLine}
  BY Zenon DEF Heads, HeadLine
<1>3. Dashes(L) = {k \in 1 .. m : L[k] # <<>> /\ L[k][1] = 45}
  BY Zenon DEF Dashes
<1> QED
  BY <1>1, <1>2, <1>3, Zenon

LEMMA MarksAfter ==
  ASSUME NEW L, NEW x, NEW K, NEW m, Added(L, x, K, m)
  PROVE  HeadsAfter(L, x, K, m) /\ DashesAfter(L, x, K, m)
<1>1. /\ m \in Nat /\ Len(L) = m /\ Len(K) = m + 1
      /\ (\A i \in 1 .. m : K[i] = L[i]) /\ K[m + 1] = x
  BY DEF Added
<1>2. PICK n \in Nat : n = m + 1
  BY <1>1
<1>3. /\ \A i \in 1 .. n : i \in 1 .. m \/ i = n
      /\ \A i \in 1 .. m : i \in 1 .. n /\ i < n
      /\ n \in 1 .. n /\ n \notin 1 .. m /\ n \in Int
  BY <1>1, <1>2
<1>4. HeadsAfter(L, x, K, m)
  <2>1. Heads(L) = {k \in 1 .. m : L[k] = HeadLine}
    BY <1>1, Zenon DEF Heads, HeadLine
  <2>2. Heads(K) = {k \in 1 .. n : K[k] = HeadLine}
    BY <1>1, <1>2, Zenon DEF Heads, HeadLine
  <2>3. x = HeadLine => Heads(K) = Heads(L) \cup {n}
    BY <1>1, <1>2, <1>3, <2>1, <2>2
  <2>4. x # HeadLine => Heads(K) = Heads(L)
    BY <1>1, <1>2, <1>3, <2>1, <2>2
  <2>5. \A i \in Heads(L) : i < n
    BY <1>3, <2>1
  <2> QED
    BY <1>2, <1>3, <2>3, <2>4, <2>5 DEF HeadsAfter, Grown
<1>5. DashesAfter(L, x, K, m)
  <2>1. Dashes(L) = {k \in 1 .. m : Dash(L[k])}
    BY <1>1, Zenon DEF Dashes, Dash
  <2>2. Dashes(K) = {k \in 1 .. n : Dash(K[k])}
    BY <1>1, <1>2, Zenon DEF Dashes, Dash
  <2>3. Dash(x) => Dashes(K) = Dashes(L) \cup {n}
    BY <1>1, <1>2, <1>3, <2>1, <2>2
  <2>4. ~Dash(x) => Dashes(K) = Dashes(L)
    BY <1>1, <1>2, <1>3, <2>1, <2>2
  <2>5. \A i \in Dashes(L) : i < n
    BY <1>3, <2>1
  <2> QED
    BY <1>2, <1>3, <2>3, <2>4, <2>5 DEF DashesAfter, Grown
<1> QED
  BY <1>4, <1>5

(* The lines between a head and what ends its part. *)
Body(L, h, e) == [n \in 1 .. e - h - 1 |-> base64_decode(L[h + n])]

LEMMA FileUpTo ==
  ASSUME NEW L, Dashes(L) \subseteq Int, NEW h \in Int, NEW e \in Dashes(L), e > h,
         \A i \in Dashes(L) : i > h => e <= i
  PROVE  FileAt(L, h) = FlattenSeq(Body(L, h, e))
<1>1. NextOf(Dashes(L), h, Len(L) + 1) = e
  BY NextIs
<1> QED
  BY <1>1, Zenon DEF FileAt, Body

LEMMA FileToEnd ==
  ASSUME NEW L, NEW h \in Int, \A i \in Dashes(L) : i <= h, NEW e, e = Len(L) + 1
  PROVE  FileAt(L, h) = FlattenSeq(Body(L, h, e))
<1>1. NextOf(Dashes(L), h, Len(L) + 1) = e
  BY Zenon DEF NextOf
<1> QED
  BY <1>1, Zenon DEF FileAt, Body

LEMMA BodyKept ==
  ASSUME NEW L, NEW x, NEW K, NEW m, Added(L, x, K, m), NEW h \in 1 .. m, NEW e \in h + 1 .. m + 1
  PROVE  Body(K, h, e) = Body(L, h, e)
<1>1. m \in Nat /\ \A i \in 1 .. m : K[i] = L[i]
  BY DEF Added
<1>2. ASSUME NEW n \in 1 .. e - h - 1 PROVE K[h + n] = L[h + n]
  <2>1. h + n \in 1 .. m
    BY <1>1
  <2> QED
    BY <1>1, <2>1
<1> QED
  BY <1>2, Zenon DEF Body

Decodes(x, b)           == b = base64_decode(x) /\ <<>> \o b = b
Longer(K, L, h, d, e, b) == FlattenSeq(Body(K, h, d)) = FlattenSeq(Body(L, h, e)) \o b

LEMMA BodyMore ==
  ASSUME NEW L, NEW x, NEW K, NEW m, Added(L, x, K, m), NEW h \in 1 .. m,
         NEW b, Decodes(x, b), NEW e, e = m + 1, NEW d, d = m + 2
  PROVE  Longer(K, L, h, d, e, b)
<1>0. b = base64_decode(x) /\ <<>> \o b = b
  BY DEF Decodes
<1>1. /\ m \in Nat /\ L \in Seq(Text) /\ K \in Seq(Text) /\ Len(L) = m /\ Len(K) = m + 1
      /\ (\A i \in 1 .. m : K[i] = L[i]) /\ K[m + 1] = x /\ x \in Text
  BY DEF Added
<1> DEFINE S == {base64_decode(y) : y \in Text}
           f == Body(L, h, e)
           g == Body(K, h, d)
<1>2. PICK n \in Nat : n = m - h
  BY <1>1
<1>3. e - h - 1 = n /\ d - h - 1 = n + 1
  BY <1>1, <1>2
<1>4. \A i \in 1 .. n : h + i \in 1 .. m
  BY <1>1, <1>2
<1>5. h + (n + 1) = m + 1 /\ \A i \in 1 .. n + 1 : i \in 1 .. n \/ i = n + 1
  BY <1>1, <1>2
<1>6. f = [i \in 1 .. n |-> base64_decode(L[h + i])]
  BY <1>3, Zenon DEF Body
<1>7. g = [i \in 1 .. n + 1 |-> base64_decode(K[h + i])]
  BY <1>3, Zenon DEF Body
<1>8. \A i \in 1 .. n : L[h + i] \in Text /\ K[h + i] = L[h + i]
  BY <1>1, <1>4, ElementOfSeq
<1>9. K[h + (n + 1)] = x
  BY <1>1, <1>5
<1>10. f \in [1 .. n -> S]
  BY <1>6, <1>8, Zenon
<1>11. \A i \in 1 .. n + 1 : K[h + i] \in Text
  BY <1>1, <1>5, <1>8, <1>9
<1>12. g \in [1 .. n + 1 -> S]
  BY <1>7, <1>11, Zenon
<1>13. ASSUME NEW i \in 1 .. n PROVE g[i] = f[i]
  <2>1. i \in 1 .. n + 1
    BY <1>2
  <2>2. f[i] = base64_decode(L[h + i])
    BY <1>6, Zenon
  <2>3. g[i] = base64_decode(K[h + i])
    BY <1>7, <2>1, Zenon
  <2> QED
    BY <1>8, <2>2, <2>3, Zenon
<1>14. g[n + 1] = b
  <2>1. n + 1 \in 1 .. n + 1
    BY <1>2
  <2> QED
    BY <1>0, <1>7, <1>9, <2>1, Zenon
<1>15. b \in S
  BY <1>0, <1>1, Zenon
<1> HIDE DEF S, f, g
<1>16. g = Append(f, g[n + 1])
  BY <1>2, <1>10, <1>12, <1>13, SeqGrows
<1>17. f \in Seq(S)
  BY <1>2, <1>10, FunctionIsSeq
<1>18. FlattenSeq(Append(f, b)) = FlattenSeq(f) \o b
  BY <1>0, <1>15, <1>17, FlattenAppend
<1>19. FlattenSeq(g) = FlattenSeq(f) \o b
  BY <1>14, <1>16, <1>18, Zenon
<1> QED
  BY <1>19, Zenon DEF f, g, Longer

(* A part that is closed, or closed by this line, keeps its file. *)
LEMMA FileKept ==
  ASSUME NEW L, NEW x, NEW K, NEW m, Added(L, x, K, m), NEW h \in 1 .. m,
         Dash(x) \/ \E i \in Dashes(L) : i > h
  PROVE  FileAt(K, h) = FileAt(L, h)
<1>1. m \in Nat /\ Len(L) = m /\ L \in Seq(Text) /\ Len(K) = m + 1 /\ K \in Seq(Text)
  BY DEF Added
<1>2. Dashes(L) \in SUBSET (1 .. m)
  BY <1>1, MarksOf
<1>3. DashesAfter(L, x, K, m)
  BY MarksAfter
<1>4. PICK n \in Nat : n = m + 1
  BY <1>1
<1>5. Dashes(L) \subseteq Int /\ Dashes(K) \subseteq Int
  <2>1. Dashes(L) \subseteq Int
    BY <1>2
  <2> QED
    BY <1>3, <2>1 DEF DashesAfter, Grown
<1>6. CASE \E i \in Dashes(L) : i > h
  <2> DEFINE T == {i \in Dashes(L) : i > h}
  <2>1. T \subseteq Nat /\ T # {}
    BY <1>2, <1>6
  <2>2. PICK e \in T : \A i \in T : e <= i
    BY <2>1, Smallest
  <2>3. e \in Dashes(L) /\ e > h /\ \A i \in Dashes(L) : i > h => e <= i
    BY <2>2
  <2> HIDE DEF T
  <2>4. e \in h + 1 .. m + 1 /\ e <= m
    BY <1>1, <1>2, <2>3
  <2>5. e \in Dashes(K) /\ \A i \in Dashes(K) : i > h => e <= i
    <3>1. \A i \in Dashes(K) : i \in Dashes(L) \/ i = m + 1
      BY <1>3 DEF DashesAfter, Grown
    <3>2. e \in Dashes(K)
      BY <1>3, <2>3 DEF DashesAfter, Grown
    <3>3. e <= m + 1
      BY <2>4
    <3> QED
      BY <2>3, <3>1, <3>2, <3>3
  <2>6. FileAt(L, h) = FlattenSeq(Body(L, h, e))
    BY <1>5, <2>3, FileUpTo
  <2>7. FileAt(K, h) = FlattenSeq(Body(K, h, e))
    BY <1>5, <2>3, <2>5, FileUpTo
  <2>8. Body(K, h, e) = Body(L, h, e)
    BY <2>4, BodyKept
  <2> QED
    BY <2>6, <2>7, <2>8
<1>7. CASE Dash(x) /\ ~\E i \in Dashes(L) : i > h
  <2>1. \A i \in Dashes(L) : i <= h
    BY <1>5, <1>7
  <2>2. Dashes(K) = Dashes(L) \cup {n}
    BY <1>3, <1>4, <1>7 DEF DashesAfter, Grown
  <2>3. n \in Dashes(K) /\ n > h /\ \A i \in Dashes(K) : i > h => n <= i
    BY <1>1, <1>4, <1>5, <2>1, <2>2
  <2>4. FileAt(L, h) = FlattenSeq(Body(L, h, n))
    BY <1>1, <1>4, <2>1, FileToEnd
  <2>5. FileAt(K, h) = FlattenSeq(Body(K, h, n))
    BY <1>5, <2>3, FileUpTo
  <2>6. n \in h + 1 .. m + 1
    BY <1>1, <1>4
  <2>7. Body(K, h, n) = Body(L, h, n)
    BY <2>6, BodyKept
  <2> QED
    BY <2>4, <2>5, <2>7
<1> QED
  BY <1>6, <1>7

(* The one that is open gets what the line decodes to. *)
LEMMA FileExtended ==
  ASSUME NEW L, NEW x, NEW K, NEW m, Added(L, x, K, m), NEW h \in 1 .. m,
         ~Dash(x), \A i \in Dashes(L) : i <= h,
         NEW b, Decodes(x, b)
  PROVE  FileAt(K, h) = FileAt(L, h) \o b
<1>1. m \in Nat /\ Len(L) = m /\ Len(K) = m + 1
  BY DEF Added
<1>2. PICK e \in Nat, d \in Nat : e = m + 1 /\ d = m + 2
  BY <1>1
<1>3. Dashes(K) = Dashes(L)
  BY MarksAfter DEF DashesAfter
<1>4. e = Len(L) + 1 /\ d = Len(K) + 1 /\ \A i \in Dashes(K) : i <= h
  BY <1>1, <1>2, <1>3
<1>5. FileAt(L, h) = FlattenSeq(Body(L, h, e))
  BY <1>4, FileToEnd
<1>6. FileAt(K, h) = FlattenSeq(Body(K, h, d))
  BY <1>4, FileToEnd
<1>7. Longer(K, L, h, d, e, b)
  BY <1>2, BodyMore
<1> QED
  BY <1>5, <1>6, <1>7, Zenon DEF Longer

-----------------------------------------------------------------------------
(* WholeOrNothing.  The files of the lines so far.                         *)
Gives(L, F) ==
  /\ L \in Seq(Text) /\ F \in Seq(Seq(Bytes)) /\ Len(F) = Cardinality(Heads(L))
  /\ \A f \in 1 .. Len(F) : FileAt(L, Nth(Heads(L), f)) = F[f]

(* The last part is still going on, or none is.                            *)
Open(L) == \E h \in Heads(L) : \A i \in Dashes(L) : i <= h
Shut(L) == \A h \in Heads(L) : \E i \in Dashes(L) : i > h

LEMMA FilesGiven ==
  ASSUME NEW L, NEW F, Gives(L, F)
  PROVE  FilesOf(L) = F
<1>1. PICK c \in Nat : c = Len(F)
  BY LenProperties DEF Gives
<1>2. FilesOf(L) = [f \in 1 .. c |-> FileAt(L, Nth(Heads(L), f))]
  BY <1>1, Zenon DEF Gives, FilesOf
<1>3. \A f \in 1 .. c : FileAt(L, Nth(Heads(L), f)) = F[f]
  BY <1>1, Zenon DEF Gives
<1>4. FilesOf(L) = [f \in 1 .. c |-> F[f]]
  BY <1>2, <1>3, Zenon
<1>5. F = [f \in 1 .. c |-> F[f]]
  BY <1>1, LenProperties DEF Gives
<1> QED
  BY <1>4, <1>5, Zenon

LEMMA HeadNumbers ==
  ASSUME NEW L \in Seq(Text)
  PROVE  /\ Len(L) \in Nat /\ IsFiniteSet(Heads(L)) /\ Cardinality(Heads(L)) \in Nat
         /\ Heads(L) \subseteq 1 .. Len(L) /\ Heads(L) \subseteq Int /\ Heads(L) \subseteq Dashes(L)
         /\ Dashes(L) \subseteq 1 .. Len(L) /\ Dashes(L) \subseteq Int
         /\ \A f \in 1 .. Cardinality(Heads(L)) :
              Nth(Heads(L), f) \in Heads(L) /\ CountTo(Heads(L), Nth(Heads(L), f)) = f
<1>1. Len(L) \in Nat
  BY LenProperties
<1>2. /\ Heads(L) \in SUBSET (1 .. Len(L)) /\ Dashes(L) \in SUBSET (1 .. Len(L))
      /\ Heads(L) \subseteq Dashes(L)
  BY <1>1, MarksOf
<1>3. /\ IsFiniteSet(Heads(L)) /\ Cardinality(Heads(L)) \in Nat
      /\ \A f \in 1 .. Cardinality(Heads(L)) :
           Nth(Heads(L), f) \in Heads(L) /\ CountTo(Heads(L), Nth(Heads(L), f)) = f
  BY <1>1, <1>2, NthExists
<1> QED
  BY <1>1, <1>2, <1>3

(* The part that is open is the last one. *)
LEMMA OpenHead ==
  ASSUME NEW L \in Seq(Text), Open(L), NEW c, c = Cardinality(Heads(L))
  PROVE  /\ c \in Nat \ {0} /\ Nth(Heads(L), c) \in Heads(L)
         /\ \A i \in Dashes(L) : i <= Nth(Heads(L), c)
         /\ \A f \in 1 .. c - 1 : Nth(Heads(L), f) \in Heads(L) /\ Nth(Heads(L), c) > Nth(Heads(L), f)
<1>1. PICK h \in Heads(L) : \A i \in Dashes(L) : i <= h
  BY DEF Open
<1>2. /\ IsFiniteSet(Heads(L)) /\ c \in Nat /\ Heads(L) \subseteq Int /\ Heads(L) \subseteq Dashes(L)
      /\ \A f \in 1 .. c : Nth(Heads(L), f) \in Heads(L) /\ CountTo(Heads(L), Nth(Heads(L), f)) = f
  BY HeadNumbers
<1>3. c # 0
  BY <1>1, <1>2, FS_EmptySet
<1>4. CountTo(Heads(L), h) = c
  <2>1. \A i \in Heads(L) : i <= h
    BY <1>1, <1>2
  <2>2. {i \in Heads(L) : i <= h} = Heads(L)
    BY <2>1, Zenon
  <2> QED
    BY <2>2, Zenon DEF CountTo
<1>5. Nth(Heads(L), c) = h
  BY <1>1, <1>2, <1>4, NthIs, Zenon
<1>6. ASSUME NEW f \in 1 .. c - 1
      PROVE  Nth(Heads(L), f) \in Heads(L) /\ h > Nth(Heads(L), f)
  <2>1. f \in 1 .. c /\ f # c
    BY <1>2
  <2>2. PICK g : g = Nth(Heads(L), f)
    OBVIOUS
  <2>3. g \in Heads(L) /\ CountTo(Heads(L), g) = f
    BY <1>2, <2>1, <2>2
  <2>4. g # h
    BY <1>4, <2>1, <2>3
  <2>5. g <= h /\ g \in Int /\ h \in Int
    BY <1>1, <1>2, <2>3
  <2> QED
    BY <2>2, <2>3, <2>4, <2>5
<1> QED
  BY <1>1, <1>2, <1>3, <1>5, <1>6

(* A line of another kind keeps the files when no part is open. *)
LEMMA ShutLine ==
  ASSUME NEW L, NEW x, NEW K, NEW m, Added(L, x, K, m), ~Dash(x), NEW F, Gives(L, F), Shut(L)
  PROVE  Gives(K, F) /\ Shut(K)
<1>1. m \in Nat /\ Len(L) = m /\ L \in Seq(Text) /\ K \in Seq(Text)
  BY DEF Added
<1>2. Heads(K) = Heads(L) /\ Dashes(K) = Dashes(L)
  <2>1. x # HeadLine
    <3>1. Dash(HeadLine)
      BY DEF Dash, HeadLine
    <3> QED
      BY <3>1
  <2> QED
    BY <2>1, MarksAfter DEF HeadsAfter, DashesAfter
<1>3. Shut(K)
  BY <1>2 DEF Shut
<1>4. ASSUME NEW h \in Heads(L) PROVE FileAt(K, h) = FileAt(L, h)
  <2>1. h \in 1 .. m
    BY <1>1, HeadNumbers
  <2>2. \E i \in Dashes(L) : i > h
    BY DEF Shut
  <2> QED
    BY <2>1, <2>2, FileKept
<1>5. ASSUME NEW f \in 1 .. Len(F) PROVE FileAt(K, Nth(Heads(K), f)) = F[f]
  <2>1. FileAt(L, Nth(Heads(L), f)) = F[f] /\ f \in 1 .. Cardinality(Heads(L))
    BY DEF Gives
  <2>2. Nth(Heads(L), f) \in Heads(L)
    BY <1>1, <2>1, HeadNumbers
  <2> QED
    BY <1>2, <1>4, <2>1, <2>2, Zenon
<1> QED
  BY <1>1, <1>2, <1>3, <1>5 DEF Gives

(* When one is, the line is decoded behind what it has. *)
LastGets(F, b, G) ==
  /\ G \in Seq(Seq(Bytes)) /\ Len(G) = Len(F)
  /\ \A f \in 1 .. Len(F) - 1 : G[f] = F[f]
  /\ Len(F) # 0 => G[Len(F)] = F[Len(F)] \o b

LEMMA OpenLine ==
  ASSUME NEW L, NEW x, NEW K, NEW m, Added(L, x, K, m), ~Dash(x), NEW F, Gives(L, F), Open(L),
         NEW b, Decodes(x, b), NEW G, LastGets(F, b, G)
  PROVE  Gives(K, G) /\ Open(K)
<1>1. m \in Nat /\ Len(L) = m /\ L \in Seq(Text) /\ K \in Seq(Text)
  BY DEF Added
<1>2. Heads(K) = Heads(L) /\ Dashes(K) = Dashes(L)
  <2>1. x # HeadLine
    <3>1. Dash(HeadLine)
      BY DEF Dash, HeadLine
    <3> QED
      BY <3>1
  <2> QED
    BY <2>1, MarksAfter DEF HeadsAfter, DashesAfter
<1>3. Open(K)
  BY <1>2 DEF Open
<1>4. PICK c : c = Cardinality(Heads(L))
  OBVIOUS
<1>5. /\ c \in Nat \ {0} /\ Nth(Heads(L), c) \in Heads(L)
      /\ \A i \in Dashes(L) : i <= Nth(Heads(L), c)
      /\ \A f \in 1 .. c - 1 : Nth(Heads(L), f) \in Heads(L) /\ Nth(Heads(L), c) > Nth(Heads(L), f)
  BY <1>1, <1>4, OpenHead
<1>6. c = Len(F) /\ c = Len(G)
  BY <1>4 DEF Gives, LastGets
<1>7. Heads(L) \subseteq 1 .. m /\ Heads(L) \subseteq Dashes(L)
  BY <1>1, HeadNumbers
<1>8. FileAt(K, Nth(Heads(L), c)) = FileAt(L, Nth(Heads(L), c)) \o b
  <2>1. PICK h \in 1 .. m : h = Nth(Heads(L), c)
    BY <1>5, <1>7
  <2>2. FileAt(K, h) = FileAt(L, h) \o b
    BY <1>5, <2>1, FileExtended
  <2> QED
    BY <2>1, <2>2, Zenon
<1>9. ASSUME NEW f \in 1 .. c - 1 PROVE FileAt(K, Nth(Heads(L), f)) = FileAt(L, Nth(Heads(L), f))
  <2>1. PICK h \in 1 .. m : h = Nth(Heads(L), f)
    BY <1>5, <1>7
  <2>2. \E i \in Dashes(L) : i > h
    BY <1>5, <1>7, <2>1
  <2>3. FileAt(K, h) = FileAt(L, h)
    BY <2>2, FileKept
  <2> QED
    BY <2>1, <2>3, Zenon
<1>10. ASSUME NEW f \in 1 .. c PROVE FileAt(K, Nth(Heads(L), f)) = G[f]
  <2>1. FileAt(L, Nth(Heads(L), f)) = F[f]
    BY <1>6 DEF Gives
  <2>2. CASE f = c
    <3>1. G[c] = F[c] \o b
      BY <1>5, <1>6, Zenon DEF LastGets
    <3> QED
      BY <1>8, <2>1, <2>2, <3>1, Zenon
  <2>3. CASE f # c
    <3>1. f \in 1 .. c - 1
      BY <1>5, <2>3
    <3>2. G[f] = F[f]
      BY <1>6, <3>1, Zenon DEF LastGets
    <3> QED
      BY <1>9, <2>1, <3>1, <3>2, Zenon
  <2> QED
    BY <2>2, <2>3
<1>11. /\ G \in Seq(Seq(Bytes)) /\ Len(G) = Cardinality(Heads(K))
       /\ \A f \in 1 .. Len(G) : FileAt(K, Nth(Heads(K), f)) = G[f]
  BY <1>2, <1>4, <1>6, <1>10, Zenon DEF LastGets
<1> QED
  BY <1>1, <1>3, <1>11, Zenon DEF Gives

(* A boundary that begins no part keeps the files and closes the last one. *)
LEMMA DashLine ==
  ASSUME NEW L, NEW x, NEW K, NEW m, Added(L, x, K, m), Dash(x), x # HeadLine, NEW F, Gives(L, F)
  PROVE  Gives(K, F) /\ Shut(K)
<1>1. m \in Nat /\ Len(L) = m /\ L \in Seq(Text) /\ K \in Seq(Text)
  BY DEF Added
<1>2. Heads(K) = Heads(L) /\ Grown(Dashes(L), m + 1, Dashes(K))
  BY MarksAfter DEF HeadsAfter, DashesAfter
<1>3. Heads(L) \subseteq 1 .. m
  BY <1>1, HeadNumbers
<1>4. Shut(K)
  <2>1. m + 1 \in Dashes(K) /\ \A h \in Heads(L) : m + 1 > h
    BY <1>1, <1>2, <1>3 DEF Grown
  <2> QED
    BY <1>2, <2>1 DEF Shut
<1>5. ASSUME NEW f \in 1 .. Len(F) PROVE FileAt(K, Nth(Heads(K), f)) = F[f]
  <2>1. FileAt(L, Nth(Heads(L), f)) = F[f] /\ f \in 1 .. Cardinality(Heads(L))
    BY DEF Gives
  <2>2. PICK h \in 1 .. m : h = Nth(Heads(L), f)
    BY <1>1, <1>3, <2>1, HeadNumbers
  <2>3. FileAt(K, h) = FileAt(L, h)
    BY FileKept
  <2> QED
    BY <1>2, <2>1, <2>2, <2>3, Zenon
<1> QED
  BY <1>1, <1>2, <1>4, <1>5 DEF Gives

(* The head of a part keeps the files and begins the next one. *)
LEMMA HeadAdded ==
  ASSUME NEW L, NEW K, NEW m, Added(L, HeadLine, K, m), NEW F, Gives(L, F)
  PROVE  Gives(K, Append(F, <<>>)) /\ Open(K)
<1>1. m \in Nat /\ Len(L) = m /\ L \in Seq(Text) /\ K \in Seq(Text) /\ Len(K) = m + 1
  BY DEF Added
<1>2. Dash(HeadLine)
  BY DEF Dash, HeadLine
<1>3. Grown(Heads(L), m + 1, Heads(K)) /\ Grown(Dashes(L), m + 1, Dashes(K))
  BY <1>2, MarksAfter DEF HeadsAfter, DashesAfter
<1>4. /\ Heads(L) \subseteq 1 .. m /\ Dashes(L) \subseteq Int /\ IsFiniteSet(Heads(L))
      /\ Heads(L) \subseteq Int /\ Cardinality(Heads(L)) \in Nat
      /\ \A f \in 1 .. Cardinality(Heads(L)) : Nth(Heads(L), f) \in Heads(L)
  BY <1>1, HeadNumbers
<1>5. PICK c \in Nat, n \in Nat : c = Cardinality(Heads(L)) /\ n = m + 1
  BY <1>1, <1>4
<1>6. n \in Heads(K) /\ n \in Dashes(K) /\ \A i \in Dashes(K) : i <= n
  BY <1>3, <1>4, <1>5 DEF Grown
<1>7. Open(K)
  BY <1>6 DEF Open
<1>8. Cardinality(Heads(K)) = c + 1 /\ Nth(Heads(K), c + 1) = n
  BY <1>3, <1>4, <1>5, CountGrows
<1>9. Keeps(Heads(L), Heads(K))
  <2>1. Heads(L) \in SUBSET (1 .. m)
    BY <1>4
  <2> QED
    BY <1>1, <1>3, <2>1, NthKept
<1>10. FileAt(K, n) = <<>>
  <2>1. PICK e \in Nat : e = n + 1
    OBVIOUS
  <2>2. e = Len(K) + 1
    BY <1>1, <1>5, <2>1
  <2>3. FileAt(K, n) = FlattenSeq(Body(K, n, e))
    BY <1>6, <2>2, FileToEnd
  <2>4. Body(K, n, e) = <<>>
    <3>1. 1 .. e - n - 1 = {}
      BY <2>1
    <3>2. Body(K, n, e) = [i \in {} |-> base64_decode(K[n + i])]
      BY <3>1, Zenon DEF Body
    <3> QED
      BY <3>2
  <2> QED
    BY <2>3, <2>4, FlattenNothing
<1>11. PICK G : G = Append(F, <<>>)
  OBVIOUS
<1>12. /\ G \in Seq(Seq(Bytes)) /\ Len(F) = c /\ Len(G) = c + 1
       /\ (\A f \in 1 .. c : G[f] = F[f]) /\ G[c + 1] = <<>>
  <2>1. <<>> \in Seq(Bytes)
    BY EmptySeq
  <2>2. F \in Seq(Seq(Bytes)) /\ Len(F) = c
    BY <1>5 DEF Gives
  <2> QED
    BY <1>11, <2>1, <2>2, AppendProperties
<1>13. ASSUME NEW f \in 1 .. c PROVE FileAt(K, Nth(Heads(K), f)) = F[f]
  <2>1. FileAt(L, Nth(Heads(L), f)) = F[f]
    BY <1>12 DEF Gives
  <2>2. Nth(Heads(K), f) = Nth(Heads(L), f)
    BY <1>5, <1>9 DEF Keeps
  <2>3. PICK h \in 1 .. m : h = Nth(Heads(L), f)
    BY <1>4, <1>5
  <2>4. FileAt(K, h) = FileAt(L, h)
    BY <1>2, FileKept
  <2> QED
    BY <2>1, <2>2, <2>3, <2>4, Zenon
<1>14. ASSUME NEW f \in 1 .. c + 1 PROVE FileAt(K, Nth(Heads(K), f)) = G[f]
  <2>1. CASE f = c + 1
    BY <1>8, <1>10, <1>12, <2>1, Zenon
  <2>2. CASE f # c + 1
    <3>1. f \in 1 .. c
      BY <2>2
    <3> QED
      BY <1>12, <1>13, <3>1, Zenon
  <2> QED
    BY <2>1, <2>2
<1>15. Gives(K, G)
  BY <1>1, <1>8, <1>12, <1>14, Zenon DEF Gives
<1> QED
  BY <1>7, <1>11, <1>15, Zenon

(* Without a head there is nothing to close. *)
LEMMA NoFileIsShut ==
  ASSUME NEW L, NEW F, Gives(L, F), F = <<>>
  PROVE  Shut(L)
<1>1. L \in Seq(Text) /\ Cardinality(Heads(L)) = 0
  BY EmptySeq DEF Gives
<1>2. Heads(L) = {}
  BY <1>1, HeadNumbers, FS_EmptySet
<1> QED
  BY <1>2 DEF Shut

LEMMA NoLines == Gives(<<>>, <<>>)
<1>1. <<>> \in Seq(Text) /\ <<>> \in Seq(Seq(Bytes)) /\ Len(<<>>) = 0
  BY EmptySeq
<1>2. Heads(<<>>) = {}
  BY <1>1 DEF Heads
<1>3. Cardinality(Heads(<<>>)) = 0
  BY <1>2, FS_EmptySet
<1>4. \A f \in 1 .. 0 : FALSE
  OBVIOUS
<1> QED
  BY <1>1, <1>3, <1>4, Zenon DEF Gives

-----------------------------------------------------------------------------
(* WholeOrNothing.  Texts of whole lines and the files in them.            *)
ShutText(s, F) == s \in Text /\ Whole(s) /\ Gives(LinesOf(s), F) /\ Shut(LinesOf(s))
OpenText(s, F) == s \in Text /\ Whole(s) /\ Gives(LinesOf(s), F) /\ Open(LinesOf(s))

LEMMA NothingYet == ShutText(<<>>, <<>>)
<1>1. <<>> \in Text /\ Whole(<<>>)
  BY NoText DEF Whole
<1>2. LinesOf(<<>>) = <<>>
  <2>1. Ends(<<>>) = {}
    BY NoText DEF Ends
  <2>2. Len(LinesOf(<<>>)) = 0 /\ LinesOf(<<>>) \in Seq(Text)
    BY <1>1, <2>1, LinesAre, FS_EmptySet
  <2> QED
    BY <2>2, EmptySeq
<1>3. Shut(<<>>)
  BY NoLines, NoFileIsShut
<1> QED
  BY <1>1, <1>2, <1>3, NoLines DEF ShutText

LEMMA OneMore ==
  ASSUME NEW s \in Text, Whole(s), NEW l \in Text, NoReturn(l), NEW t, t = s \o (l \o CRLF)
  PROVE  /\ t \in Text /\ Whole(t)
         /\ \E m : Added(LinesOf(s), l, LinesOf(t), m)
<1>1. t \in Text /\ Whole(t) /\ LinesOf(t) = Append(LinesOf(s), l)
  BY LinesGrow, Zenon
<1>2. LinesOf(s) \in Seq(Text)
  BY LinesAre
<1>3. Added(LinesOf(s), l, Append(LinesOf(s), l), Len(LinesOf(s)))
  BY <1>2, LineAdded
<1> QED
  BY <1>1, <1>3, Zenon

LEMMA PlainMore ==
  ASSUME NEW s, NEW F, ShutText(s, F), NEW l \in Text, NoReturn(l), ~Dash(l),
         NEW t, t = s \o (l \o CRLF)
  PROVE  ShutText(t, F)
<1>1. s \in Text /\ Whole(s) /\ Gives(LinesOf(s), F) /\ Shut(LinesOf(s))
  BY DEF ShutText
<1>2. PICK m : t \in Text /\ Whole(t) /\ Added(LinesOf(s), l, LinesOf(t), m)
  BY <1>1, OneMore, Zenon
<1>3. Gives(LinesOf(t), F) /\ Shut(LinesOf(t))
  BY <1>1, <1>2, ShutLine
<1> QED
  BY <1>2, <1>3 DEF ShutText

LEMMA DecodedMore ==
  ASSUME NEW s, NEW F, OpenText(s, F), NEW l \in Text, NoReturn(l), ~Dash(l),
         NEW t, t = s \o (l \o CRLF), NEW b, Decodes(l, b), NEW G, LastGets(F, b, G)
  PROVE  OpenText(t, G)
<1>1. s \in Text /\ Whole(s) /\ Gives(LinesOf(s), F) /\ Open(LinesOf(s))
  BY DEF OpenText
<1>2. PICK m : t \in Text /\ Whole(t) /\ Added(LinesOf(s), l, LinesOf(t), m)
  BY <1>1, OneMore, Zenon
<1>3. Gives(LinesOf(t), G) /\ Open(LinesOf(t))
  BY <1>1, <1>2, OpenLine
<1> QED
  BY <1>2, <1>3 DEF OpenText

LEMMA DashMore ==
  ASSUME NEW s, NEW F, OpenText(s, F) \/ ShutText(s, F), NEW l \in Text, NoReturn(l), Dash(l),
         l # HeadLine, NEW t, t = s \o (l \o CRLF)
  PROVE  ShutText(t, F)
<1>1. s \in Text /\ Whole(s) /\ Gives(LinesOf(s), F)
  BY DEF ShutText, OpenText
<1>2. PICK m : t \in Text /\ Whole(t) /\ Added(LinesOf(s), l, LinesOf(t), m)
  BY <1>1, OneMore, Zenon
<1>3. Gives(LinesOf(t), F) /\ Shut(LinesOf(t))
  BY <1>1, <1>2, DashLine
<1> QED
  BY <1>2, <1>3 DEF ShutText

LEMMA HeadMore ==
  ASSUME NEW s, NEW F, OpenText(s, F) \/ ShutText(s, F), NEW t, t = s \o (HeadLine \o CRLF)
  PROVE  OpenText(t, Append(F, <<>>))
<1>1. s \in Text /\ Whole(s) /\ Gives(LinesOf(s), F)
  BY DEF ShutText, OpenText
<1>2. HeadLine \in Text /\ NoReturn(HeadLine)
  BY DEF HeadLine, NoReturn, CR, Text, Char
<1>3. PICK m : t \in Text /\ Whole(t) /\ Added(LinesOf(s), HeadLine, LinesOf(t), m)
  BY <1>1, <1>2, OneMore, Zenon
<1>4. Gives(LinesOf(t), Append(F, <<>>)) /\ Open(LinesOf(t))
  BY <1>1, <1>3, HeadAdded
<1> QED
  BY <1>3, <1>4 DEF OpenText

(* What a line of base64 holds, an empty one too. *)
LEMMA LineHolds ==
  ASSUME NEW b \in Seq(Bytes)
  PROVE  /\ base64_encode(b) \in Text /\ NoReturn(base64_encode(b)) /\ ~Dash(base64_encode(b))
         /\ Decodes(base64_encode(b), b)
<1>1. PICK l : l = base64_encode(b)
  OBVIOUS
<1>2. l \in Text /\ MarkFree(l)
  BY <1>1, EncodeText
<1>3. NoReturn(l)
  BY <1>2 DEF MarkFree, NoReturn, CR
<1>4. ~Dash(l)
  <2>1. CASE l = <<>>
    BY <2>1 DEF Dash
  <2>2. CASE l # <<>>
    <3>1. 1 \in 1 .. Len(l)
      BY <1>2, <2>2, EmptySeq, LenText DEF Text
    <3> QED
      BY <1>2, <3>1 DEF MarkFree, Dash
  <2> QED
    BY <2>1, <2>2
<1>5. base64_decode(l) = b
  <2>1. l = Encoded(b)
    BY <1>1, EncodedIs
  <2>2. l \o <<>> = l
    BY <1>2, JoinNothing
  <2>3. <<>> \in {<<>>, <<13, 10>>}
    OBVIOUS
  <2>4. base64_decode(Encoded(b) \o <<>>) = b
    BY <2>3, DecodedIs
  <2> QED
    BY <2>1, <2>2, <2>4, Zenon
<1>6. <<>> \o b = b
  BY ConcatEmptySeq
<1>7. Decodes(l, b)
  BY <1>5, <1>6, Zenon DEF Decodes
<1> QED
  BY <1>1, <1>2, <1>3, <1>4, <1>7

LEMMA NoLineHolds == <<>> \in Text /\ NoReturn(<<>>) /\ ~Dash(<<>>) /\ Decodes(<<>>, <<>>)
<1>1. <<>> \in Seq(Bytes)
  BY EmptySeq
<1>2. PICK l : l = base64_encode(<<>>)
  OBVIOUS
<1>3. l \in Text /\ NoReturn(l) /\ ~Dash(l) /\ Decodes(l, <<>>)
  BY <1>1, <1>2, LineHolds
<1>4. Len(l) = 0
  <2>1. Len(l) = 4 * ((Len(<<>>) + 2) \div 3)
    BY <1>1, <1>2, EncodeText
  <2> QED
    BY <2>1, NoText
<1>5. l = <<>>
  BY <1>3, <1>4, EmptySeq DEF Text
<1> QED
  BY <1>3, <1>5

LEMMA EmptyMore ==
  ASSUME NEW s \in Text, NEW F
  PROVE  /\ ShutText(s, F) => ShutText(s \o CRLF, F)
         /\ OpenText(s, F) => OpenText(s \o CRLF, F)
<1>1. <<>> \o CRLF = CRLF
  BY LineEnd, ConcatEmptySeq DEF Text
<1>2. PICK t : t = s \o CRLF
  OBVIOUS
<1>3. t = s \o (<<>> \o CRLF)
  BY <1>1, <1>2, Zenon
<1>4. ShutText(s, F) => ShutText(t, F)
  BY <1>3, NoLineHolds, PlainMore, Zenon
<1>5. ASSUME OpenText(s, F) PROVE OpenText(t, F)
  <2>1. F \in Seq(Seq(Bytes))
    BY <1>5 DEF OpenText, Gives
  <2>2. PICK c \in Nat : c = Len(F)
    BY <2>1, LenProperties
  <2>3. c # 0 => F[c] = F[c] \o <<>>
    <3>1. c # 0 => F[c] \in Seq(Bytes)
      BY <2>1, <2>2, ElementOfSeq
    <3> QED
      BY <3>1, ConcatEmptySeq
  <2>4. LastGets(F, <<>>, F)
    BY <2>1, <2>2, <2>3, Zenon DEF LastGets
  <2> QED
    BY <1>3, <1>5, <2>4, NoLineHolds, DecodedMore, Zenon
<1> QED
  BY <1>2, <1>4, <1>5

(* What each block does. *)
LEMMA PlainBlocks ==
  ASSUME NEW s, NEW F, ShutText(s, F), NEW x \in {Header, TextLine, Blank}
  PROVE  ShutText(s \o x, F)
<1>1. PICK l : x = l \o CRLF /\ l \in {<<72>>, <<84, 84>>, <<32>>}
  BY DEF Header, TextLine, Blank
<1>2. l \in Text /\ NoReturn(l) /\ ~Dash(l)
  <2>1. CASE l = <<72>>
    BY <2>1 DEF Text, Char, NoReturn, CR, Dash
  <2>2. CASE l = <<84, 84>>
    BY <2>2 DEF Text, Char, NoReturn, CR, Dash
  <2>3. CASE l = <<32>>
    BY <2>3 DEF Text, Char, NoReturn, CR, Dash
  <2> QED
    BY <1>1, <2>1, <2>2, <2>3
<1>3. PICK t : t = s \o (l \o CRLF)
  OBVIOUS
<1>4. ShutText(t, F)
  BY <1>2, <1>3, PlainMore
<1> QED
  BY <1>1, <1>3, <1>4, Zenon

LEMMA PartBlock ==
  ASSUME NEW s, NEW F, OpenText(s, F) \/ ShutText(s, F)
  PROVE  OpenText(s \o Part, Append(F, <<>>))
<1>1. s \in Text /\ HeadLine \in Text /\ CRLF \in Text /\ HeadLine \o CRLF \in Text
  BY LineEnd, JoinText DEF OpenText, ShutText, HeadLine, Text, Char
<1>2. PICK t : t = s \o (HeadLine \o CRLF)
  OBVIOUS
<1>3. OpenText(t, Append(F, <<>>))
  BY <1>2, HeadMore
<1>4. t \in Text
  BY <1>3 DEF OpenText
<1>5. OpenText(t \o CRLF, Append(F, <<>>))
  BY <1>3, <1>4, EmptyMore
<1>6. t \o CRLF = s \o ((HeadLine \o CRLF) \o CRLF)
  BY <1>1, <1>2, JoinAssoc
<1>7. Part = (HeadLine \o CRLF) \o CRLF
  BY Zenon DEF Part, HeadLine
<1> QED
  BY <1>5, <1>6, <1>7, Zenon

LEMMA TwoLines ==
  ASSUME NEW s \in Text, NEW l \in Text
  PROVE  s \o ((CRLF \o l) \o CRLF) = (s \o CRLF) \o (l \o CRLF)
<1>1. CRLF \in Text /\ l \o CRLF \in Text
  BY LineEnd, JoinText
<1>2. (CRLF \o l) \o CRLF = CRLF \o (l \o CRLF)
  BY <1>1, JoinAssoc
<1>3. s \o (CRLF \o (l \o CRLF)) = (s \o CRLF) \o (l \o CRLF)
  BY <1>1, JoinAssoc
<1> QED
  BY <1>2, <1>3, Zenon

LEMMA ClosingBlock ==
  ASSUME NEW s, NEW F, OpenText(s, F) \/ ShutText(s, F)
  PROVE  ShutText(s \o Closing, F)
<1>1. PICK l : l = <<45, 45, 66, 45, 45>>
  OBVIOUS
<1>2. l \in Text /\ NoReturn(l) /\ Dash(l) /\ l # HeadLine
  BY <1>1 DEF HeadLine, NoReturn, Dash, CR, Text, Char
<1>3. s \in Text
  BY DEF OpenText, ShutText
<1>4. PICK u, t : u = s \o CRLF /\ t = u \o (l \o CRLF)
  OBVIOUS
<1>5. OpenText(u, F) \/ ShutText(u, F)
  BY <1>3, <1>4, EmptyMore
<1>6. ShutText(t, F)
  BY <1>2, <1>4, <1>5, DashMore
<1>7. Closing = (CRLF \o l) \o CRLF
  BY <1>1, Zenon DEF Closing
<1>8. s \o Closing = t
  BY <1>2, <1>3, <1>4, <1>7, TwoLines, Zenon
<1> QED
  BY <1>6, <1>8

LEMMA DotBlock ==
  ASSUME NEW s, NEW F, ShutText(s, F)
  PROVE  ShutText(s \o FinalDot, F)
<1>1. PICK l : l = <<46>>
  OBVIOUS
<1>2. l \in Text /\ NoReturn(l) /\ ~Dash(l)
  BY <1>1 DEF NoReturn, Dash, CR, Text, Char
<1>3. s \in Text
  BY DEF ShutText
<1>4. PICK u, t : u = s \o CRLF /\ t = u \o (l \o CRLF)
  OBVIOUS
<1>5. ShutText(u, F)
  BY <1>3, <1>4, EmptyMore
<1>6. ShutText(t, F)
  BY <1>2, <1>4, <1>5, PlainMore
<1>7. FinalDot = (CRLF \o l) \o CRLF
  BY <1>1, Zenon DEF FinalDot
<1>8. s \o FinalDot = t
  BY <1>2, <1>3, <1>4, <1>7, TwoLines, Zenon
<1> QED
  BY <1>6, <1>8

-----------------------------------------------------------------------------
(* WholeOrNothing.  Parts of texts and of files.                           *)
IsPart(u, s, a, b) ==
  /\ u \in Text /\ Len(u) = b + 1 - a
  /\ \A i \in 1 .. b + 1 - a : u[i] = s[a + i - 1]

LEMMA PartIs ==
  ASSUME NEW s \in Text, NEW a \in Nat \ {0}, NEW b \in Nat, b <= Len(s), a <= b + 1
  PROVE  IsPart(SubSeq(s, a, b), s, a, b)
<1>1. Len(s) \in Nat
  BY LenText
<1>2. \A i \in a .. b : s[i] \in Char
  BY <1>1, ElementOfSeq DEF Text
<1>3. PICK u : u = SubSeq(s, a, b)
  OBVIOUS
<1>4. /\ u \in Seq(Char) /\ Len(u) = IF a <= b THEN b - a + 1 ELSE 0
      /\ \A i \in 1 .. b - a + 1 : u[i] = s[a + i - 1]
  BY <1>2, <1>3, SubSeqProperties
<1>5. b - a + 1 = b + 1 - a /\ Len(u) = b + 1 - a
  BY <1>4
<1>6. IsPart(u, s, a, b)
  BY <1>4, <1>5 DEF IsPart, Text
<1> QED
  BY <1>3, <1>6

LEMMA PartsJoin ==
  ASSUME NEW s \in Text, NEW a \in Nat \ {0}, NEW m \in Nat, NEW b \in Nat, b <= Len(s),
         a <= m + 1, m <= b
  PROVE  SubSeq(s, a, m) \o SubSeq(s, m + 1, b) = SubSeq(s, a, b)
<1>1. PICK u, v, w : u = SubSeq(s, a, m) /\ v = SubSeq(s, m + 1, b) /\ w = SubSeq(s, a, b)
  OBVIOUS
<1>2. Len(s) \in Nat /\ m <= Len(s) /\ m + 1 \in Nat \ {0} /\ m + 1 <= b + 1 /\ a <= b + 1
  BY LenText
<1>3. IsPart(u, s, a, m)
  BY <1>1, <1>2, PartIs
<1>4. IsPart(v, s, m + 1, b)
  BY <1>1, <1>2, PartIs
<1>5. IsPart(w, s, a, b)
  BY <1>1, <1>2, PartIs
<1>6. PICK p \in Nat, q \in Nat : p = m + 1 - a /\ q = b - m
  <2>1. m + 1 - a \in Nat /\ b - m \in Nat
    OBVIOUS
  <2> QED
    BY <2>1
<1>7. u \in Text /\ Len(u) = p /\ \A i \in 1 .. p : u[i] = s[a + i - 1]
  BY <1>3, <1>6 DEF IsPart
<1>8. v \in Text /\ Len(v) = q /\ \A i \in 1 .. q : v[i] = s[m + i]
  <2>1. b + 1 - (m + 1) = q /\ \A i \in 1 .. q : (m + 1) + i - 1 = m + i
    BY <1>6
  <2> QED
    BY <1>4, <2>1 DEF IsPart
<1>9. w \in Text /\ Len(w) = p + q /\ \A i \in 1 .. p + q : w[i] = s[a + i - 1]
  <2>1. b + 1 - a = p + q
    BY <1>6
  <2> QED
    BY <1>5, <2>1 DEF IsPart
<1>10. PICK x : x = u \o v
  OBVIOUS
<1>11. Joins(x, u, p, v, q)
  BY <1>6, <1>7, <1>8, <1>10, Joined
<1>12. ASSUME NEW i \in 1 .. p + q PROVE x[i] = w[i]
  <2>1. CASE i \in 1 .. p
    BY <1>7, <1>9, <1>11, <2>1 DEF Joins
  <2>2. CASE i \in p + 1 .. p + q
    <3>1. PICK k \in 1 .. q : i = p + k
      BY <2>2, Behind
    <3>2. x[i] = v[k]
      BY <1>11, <3>1 DEF Joins
    <3>3. m + k = a + i - 1
      BY <1>6, <3>1
    <3> QED
      BY <1>8, <1>9, <3>2, <3>3
  <2>3. i \in 1 .. p \/ i \in p + 1 .. p + q
    OBVIOUS
  <2> QED
    BY <2>1, <2>2, <2>3
<1>13. x \in Text /\ Len(x) = p + q
  BY <1>11 DEF Joins
<1>14. x = w
  BY <1>9, <1>12, <1>13, SeqEqual DEF Text
<1> QED
  BY <1>1, <1>10, <1>14

Adjacent(s, a, m, b) == SubSeq(s, a, m) \o SubSeq(s, m + 1, b) = SubSeq(s, a, b)

LEMMA PartsAdjacent ==
  ASSUME NEW s \in Text, NEW a \in Nat \ {0}, NEW m \in Nat, NEW b \in Nat, b <= Len(s),
         a <= m + 1, m <= b
  PROVE  Adjacent(s, a, m, b)
BY PartsJoin DEF Adjacent

(* What the peer will have when all that is in the buffer is out, and what *)
(* has been read of the attachment send_mail is at.                        *)
Composed == IF pc = "fill" /\ msg_part > 0 THEN given \o m_send_buffer ELSE given
Done(n)  == [f \in 1 .. n |-> message.files[f]]
Taken    == IF pc = "open" THEN 0
            ELSE IF pc = "fill" /\ j * LineBytes < Len(file) THEN j * LineBytes
            ELSE Len(file)
Begun(n) == [f \in 1 .. at |-> IF f < at THEN message.files[f] ELSE SubSeq(file, 1, n)]

(* Up to the first failure the text is whole lines, and the files in them  *)
(* are those that have been sent and what has been read of the next one.   *)
TextInv ==
  failed_at = "nowhere" =>
    /\ pc \in {"check", "header", "lines"} => ShutText(Composed, <<>>)
    /\ pc = "part" =>
         /\ at - 1 <= Len(message.files)
         /\ OpenText(Composed, Done(at - 1)) \/ ShutText(Composed, Done(at - 1))
    /\ pc \in {"open", "fill", "close"} => OpenText(Composed, Begun(Taken))
    /\ pc \in {"end"} \cup AfterDot => ShutText(Composed, message.files)

LEMMA DoneIs ==
  ASSUME NEW F \in Seq(Seq(Bytes)), NEW n \in Nat, n <= Len(F), NEW G, G = [f \in 1 .. n |-> F[f]]
  PROVE  /\ G \in Seq(Seq(Bytes)) /\ Len(G) = n
         /\ n = Len(F) => G = F
         /\ n = 0 => G = <<>>
<1>1. Len(F) \in Nat /\ F \in [1 .. Len(F) -> Seq(Bytes)]
  BY LenProperties
<1>2. G \in [1 .. n -> Seq(Bytes)]
  BY <1>1
<1>3. G \in Seq(Seq(Bytes)) /\ Len(G) = n
  BY <1>2, FunctionIsSeq
<1>4. n = Len(F) => G = F
  BY <1>1
<1>5. n = 0 => G = <<>>
  BY <1>3, EmptySeq
<1> QED
  BY <1>3, <1>4, <1>5

LEMMA BegunIs ==
  ASSUME NEW F \in Seq(Seq(Bytes)), NEW k \in 1 .. Len(F), NEW x \in Seq(Bytes),
         NEW G, G = [f \in 1 .. k |-> IF f < k THEN F[f] ELSE x]
  PROVE  /\ G \in Seq(Seq(Bytes)) /\ Len(G) = k /\ G[k] = x /\ \A f \in 1 .. k - 1 : G[f] = F[f]
<1>1. Len(F) \in Nat /\ F \in [1 .. Len(F) -> Seq(Bytes)]
  BY LenProperties
<1>2. k \in Nat /\ \A f \in 1 .. k : f \in 1 .. Len(F)
  BY <1>1
<1>3. G \in [1 .. k -> Seq(Bytes)]
  BY <1>1, <1>2
<1>4. G \in Seq(Seq(Bytes)) /\ Len(G) = k
  BY <1>2, <1>3, FunctionIsSeq
<1>5. G[k] = x /\ \A f \in 1 .. k - 1 : G[f] = F[f]
  BY <1>2
<1> QED
  BY <1>4, <1>5

LEMMA BegunAppends ==
  ASSUME NEW F \in Seq(Seq(Bytes)), NEW k \in 1 .. Len(F), NEW x \in Seq(Bytes),
         NEW n, n = k - 1, NEW G, G = [f \in 1 .. n |-> F[f]]
  PROVE  [f \in 1 .. k |-> IF f < k THEN F[f] ELSE x] = Append(G, x)
<1>1. PICK H : H = [f \in 1 .. k |-> IF f < k THEN F[f] ELSE x]
  OBVIOUS
<1>2. Len(F) \in Nat /\ k \in Nat /\ n \in Nat /\ n <= Len(F) /\ k = n + 1
  BY LenProperties
<1>3. G \in Seq(Seq(Bytes)) /\ Len(G) = n
  BY <1>2, DoneIs
<1>4. H \in Seq(Seq(Bytes)) /\ Len(H) = n + 1 /\ H[n + 1] = x /\ \A f \in 1 .. n : H[f] = F[f]
  BY <1>1, <1>2, BegunIs
<1>5. G \in [1 .. n -> Seq(Bytes)] /\ H \in [1 .. n + 1 -> Seq(Bytes)]
  BY <1>3, <1>4, LenProperties
<1>6. \A f \in 1 .. n : H[f] = G[f]
  BY <1>4
<1>7. H = Append(G, H[n + 1])
  BY <1>2, <1>5, <1>6, SeqGrows
<1> QED
  BY <1>1, <1>4, <1>7, Zenon

-----------------------------------------------------------------------------
(* WholeOrNothing.  The steps of send_mail before anything has failed.     *)
LEMMA FileThere ==
  ASSUME DataAssumption, ProgramInv, pc \in {"open", "fill", "close"} \/ at <= Len(message.files)
  PROVE  /\ message.files \in Seq(Seq(Bytes)) /\ Len(message.files) \in Nat
         /\ at \in 1 .. Len(message.files) /\ file \in Seq(Bytes) /\ file \in Text
         /\ Len(file) \in Nat /\ j \in Nat
<1>1. message.files \in Seq(Seq(Bytes)) /\ Len(message.files) \in Nat
  BY MessageFacts DEF ProgramInv
<1>2. at \in 1 .. Len(message.files) /\ j \in Nat
  BY <1>1 DEF ProgramInv, ProgramTypeOK, PlaceInv
<1>3. file \in Seq(Bytes)
  BY <1>1, <1>2, ElementOfSeq DEF file
<1>4. file \in Text
  BY <1>3 DEF Text, Char, Bytes
<1> QED
  BY <1>1, <1>2, <1>3, <1>4, LenProperties

(* How far the file has been read before and after the j-th line. *)
LEMMA LinePlaces ==
  ASSUME WireAssumption, DataAssumption, NEW i \in Nat, NEW n \in Nat, NEW q, q = n \div LineBytes
  PROVE  /\ q \in Nat /\ i * LineBytes \in Nat /\ (i + 1) * LineBytes = i * LineBytes + LineBytes
         /\ LineBytes \in Nat \ {0}
         /\ i <= q => i * LineBytes <= n
         /\ i = q + 1 => n < i * LineBytes
<1>1. LineBytes \in Nat \ {0}
  BY SizeFacts
<1>2. q \in Nat /\ q * LineBytes <= n /\ n < q * LineBytes + LineBytes
  BY <1>1, Z3
<1>3. i * LineBytes \in Nat /\ (i + 1) * LineBytes = i * LineBytes + LineBytes
  BY <1>1, Z3
<1>4. i <= q => i * LineBytes <= n
  <2>1. i <= q => i * LineBytes <= q * LineBytes
    BY <1>1, <1>2, Z3
  <2> QED
    BY <1>2, <1>3, <2>1
<1>5. i = q + 1 => n < i * LineBytes
  <2>1. i = q + 1 => i * LineBytes = q * LineBytes + LineBytes
    BY <1>1, <1>2, Z3
  <2> QED
    BY <1>2, <2>1
<1> QED
  BY <1>1, <1>2, <1>3, <1>4, <1>5

(* What the next line reads of the file is what comes next in it. *)
LEMMA FreadNext ==
  ASSUME WireAssumption, DataAssumption, ProgramInv, pc = "fill", j < LineCount,
         NEW last, last = IF (j + 1) * LineBytes < Len(file) THEN (j + 1) * LineBytes ELSE Len(file)
  PROVE  /\ Taken \in Nat /\ last \in Nat /\ Taken <= Len(file) /\ last <= Len(file)
         /\ SubSeq(file, 1, Taken) \o fread = SubSeq(file, 1, last)
<1>1. file \in Text /\ Len(file) \in Nat /\ j \in Nat
  BY FileThere
<1>2. PICK n \in Nat : n = Len(file)
  BY <1>1
<1>3. PICK q : q = n \div LineBytes
  OBVIOUS
<1>4. /\ q \in Nat /\ j * LineBytes \in Nat /\ (j + 1) * LineBytes = j * LineBytes + LineBytes
      /\ LineBytes \in Nat \ {0} /\ (j <= q => j * LineBytes <= n)
  BY <1>1, <1>2, <1>3, LinePlaces
<1>5. j <= q
  BY <1>1, <1>2, <1>3, <1>4 DEF LineCount
<1>6. PICK p \in Nat, d \in Nat : p = j * LineBytes /\ d = (j + 1) * LineBytes
  BY <1>4
<1>7. p <= n /\ p < d
  BY <1>4, <1>5, <1>6
<1>8. Taken = p
  BY <1>2, <1>6, <1>7 DEF Taken
<1>9. last = (IF d < n THEN d ELSE n)
  BY <1>2, <1>6
<1>10. last \in Nat /\ last <= n /\ p <= last
  BY <1>7, <1>9
<1>11. fread = SubSeq(file, p + 1, last)
  BY <1>6, Zenon DEF fread
<1>12. SubSeq(file, 1, p) \o SubSeq(file, p + 1, last) = SubSeq(file, 1, last)
  <2>1. 1 \in Nat \ {0} /\ 1 <= p + 1 /\ last \in Nat /\ last <= Len(file) /\ p <= last /\ file \in Text
    BY <1>1, <1>2, <1>10
  <2>2. Adjacent(file, 1, p, last)
    BY <2>1, PartsAdjacent
  <2> QED
    BY <2>2, Zenon DEF Adjacent
<1> QED
  BY <1>2, <1>7, <1>8, <1>10, <1>11, <1>12, Zenon

LEMMA PartOfFile ==
  ASSUME NEW b \in Seq(Bytes), NEW n \in Nat, n <= Len(b)
  PROVE  /\ SubSeq(b, 1, n) \in Seq(Bytes)
         /\ n = Len(b) => SubSeq(b, 1, n) = b
         /\ n = 0 => SubSeq(b, 1, n) = <<>>
<1>1. Len(b) \in Nat
  BY LenProperties
<1>2. \A i \in 1 .. n : b[i] \in Bytes
  BY <1>1, ElementOfSeq
<1>3. SubSeq(b, 1, n) \in Seq(Bytes)
  BY <1>2, SubSeqProperties
<1>4. n = Len(b) => SubSeq(b, 1, n) = b
  BY SubSeqFull
<1>5. n = 0 => SubSeq(b, 1, n) = <<>>
  BY SubSeqEmpty
<1> QED
  BY <1>3, <1>4, <1>5

(* A step that leaves what is composed alone. *)
LEMMA SameText ==
  ASSUME TextInv, UNCHANGED <<message, pc, at, j, msg_part, failed_at, m_send_buffer, given>>
  PROVE  TextInv'
<1>1. Composed' = Composed
  BY DEF Composed
<1>2. ASSUME NEW n PROVE Done(n)' = Done(n)
  BY DEF Done
<1>3. Begun(Taken)' = Begun(Taken)
  BY DEF Begun, Taken, file
<1>4. Done(at - 1)' = Done(at - 1)
  BY DEF Done
<1> QED
  BY <1>1, <1>3, <1>4 DEF TextInv, AfterDot

LEMMA CheckText ==
  ASSUME TextInv, CheckFile \/ EnvelopeAccepted
  PROVE  TextInv'
<1>1. /\ pc = "check" /\ pc' \in {"check", "header"} /\ given' = given /\ failed_at' = failed_at
      /\ message' = message
  BY DEF CheckFile, EnvelopeAccepted, Ready, Goto, Raise, Throw, wireVars, sender, program, history
<1>2. Composed' = Composed
  BY <1>1 DEF Composed
<1> QED
  BY <1>1, <1>2 DEF TextInv, AfterDot

LEMMA SendsGiven ==
  ASSUME NEW row, NEW text, NEW p, Sends(row, text, p)
  PROVE  given' = given \o text /\ pc' = p /\ failed_at' = failed_at /\ message' = message
BY DEF Sends, send_data, Goto, history

LEMMA LinesText ==
  ASSUME DataAssumption, ProgramInv, TextInv, failed_at = "nowhere", SendHeader \/ SendLines
  PROVE  TextInv'
<1>1. PICK x \in {Header, TextLine, Blank}, p \in {"lines", "part"} :
        /\ Sends("DATABLOCK", x, p) /\ pc \in {"header", "lines"}
        /\ p = "part" => at' = 1
  <2>1. CASE SendHeader
    <3>1. Sends("DATABLOCK", Header, "lines") /\ pc = "header"
      BY <2>1 DEF SendHeader, Ready
    <3> QED
      BY <3>1
  <2>2. CASE SendLines
    <3>1. pc = "lines" /\ at' = IF at < message.lines THEN at + 1 ELSE 1
      BY <2>2 DEF SendLines, Ready
    <3>2. CASE message.lines = 0
      <4>1. Sends("DATABLOCK", Blank, "part")
        BY <2>2, <3>2 DEF SendLines
      <4>2. ~(at < message.lines)
        BY <3>2 DEF ProgramInv, ProgramTypeOK
      <4> QED
        BY <3>1, <4>1, <4>2
    <3>3. CASE message.lines # 0
      <4>1. Sends("DATABLOCK", TextLine, IF at < message.lines THEN "lines" ELSE "part")
        BY <2>2, <3>3 DEF SendLines
      <4>2. CASE at < message.lines
        <5>1. Sends("DATABLOCK", TextLine, "lines")
          BY <4>1, <4>2
        <5> QED
          BY <3>1, <5>1
      <4>3. CASE ~(at < message.lines)
        <5>1. Sends("DATABLOCK", TextLine, "part")
          BY <4>1, <4>3
        <5> QED
          BY <3>1, <4>3, <5>1
      <4> QED
        BY <4>2, <4>3
    <3> QED
      BY <3>2, <3>3
  <2> QED
    BY <2>1, <2>2
<1>2. given' = given \o x /\ pc' = p /\ failed_at' = failed_at /\ message' = message
  BY <1>1, SendsGiven
<1>3. Composed = given /\ Composed' = given'
  BY <1>1, <1>2 DEF Composed
<1>4. ShutText(given, <<>>)
  BY <1>1, <1>3 DEF TextInv
<1>5. ShutText(given', <<>>)
  BY <1>2, <1>4, PlainBlocks
<1>6. CASE p = "lines"
  BY <1>2, <1>3, <1>5, <1>6 DEF TextInv, AfterDot
<1>7. CASE p = "part"
  <2>1. at' = 1 /\ at' - 1 = 0
    BY <1>1, <1>7
  <2>2. PICK F : F = message'.files /\ F \in Seq(Seq(Bytes)) /\ Len(F) \in Nat
    BY <1>2, MessageFacts DEF ProgramInv
  <2>3. Done(at - 1)' = [f \in 1 .. 0 |-> F[f]]
    BY <2>1, <2>2, Zenon DEF Done
  <2>4. Done(at - 1)' = <<>>
    BY <2>2, <2>3, DoneIs
  <2>5. at' - 1 <= Len(message'.files)
    BY <2>1, <2>2
  <2> QED
    BY <1>2, <1>3, <1>5, <1>7, <2>4, <2>5 DEF TextInv, AfterDot
<1> QED
  BY <1>6, <1>7

LEMMA PartText ==
  ASSUME DataAssumption, ProgramInv, TextInv, failed_at = "nowhere", SendPart
  PROVE  TextInv'
<1>1. pc = "part" /\ at <= Len(message.files) /\ Sends("DATABLOCK", Part, "open") /\ at' = at
  BY DEF SendPart, Ready
<1>2. given' = given \o Part /\ pc' = "open" /\ failed_at' = failed_at /\ message' = message
  BY <1>1, SendsGiven
<1>3. Composed = given /\ Composed' = given'
  BY <1>1, <1>2 DEF Composed
<1>4. OpenText(given, Done(at - 1)) \/ ShutText(given, Done(at - 1))
  BY <1>1, <1>3 DEF TextInv
<1>5. OpenText(given', Append(Done(at - 1), <<>>))
  BY <1>2, <1>4, PartBlock
<1>6. message.files \in Seq(Seq(Bytes)) /\ at \in 1 .. Len(message.files) /\ file \in Seq(Bytes)
  BY <1>1, FileThere
<1>7. Begun(Taken)' = Append(Done(at - 1), <<>>)
  <2>1. Taken' = 0
    BY <1>2 DEF Taken
  <2>2. <<>> \in Seq(Bytes)
    BY EmptySeq
  <2>3. SubSeq(file, 1, 0) = <<>>
    <3>1. Len(file) \in Nat /\ 0 \in Nat /\ 0 <= Len(file)
      BY <1>6, LenProperties
    <3> QED
      BY <1>6, <3>1, PartOfFile
  <2>4. Begun(Taken)' = [f \in 1 .. at |-> IF f < at THEN message.files[f] ELSE <<>>]
    BY <1>1, <1>2, <2>1, <2>3, Zenon DEF Begun, file
  <2>5. PICK n : n = at - 1
    OBVIOUS
  <2>6. PICK G : G = [f \in 1 .. n |-> message.files[f]]
    OBVIOUS
  <2>7. Done(at - 1) = G
    BY <2>5, <2>6, Zenon DEF Done
  <2>8. [f \in 1 .. at |-> IF f < at THEN message.files[f] ELSE <<>>] = Append(G, <<>>)
    BY <1>6, <2>2, <2>5, <2>6, BegunAppends
  <2> QED
    BY <2>4, <2>7, <2>8, Zenon
<1> QED
  BY <1>2, <1>3, <1>5, <1>7 DEF TextInv, AfterDot

LEMMA OpenFileText ==
  ASSUME DataAssumption, ProgramInv, TextInv, failed_at = "nowhere", OpenFile
  PROVE  TextInv'
<1>1. CASE Raise /\ UNCHANGED <<program, history>>
  <2>1. UNCHANGED <<message, pc, at, j, msg_part, failed_at, m_send_buffer, given>>
    BY <1>1 DEF Raise, program, history, sender
  <2> QED
    BY <2>1, SameText
<1>2. CASE /\ pc = "open" /\ Goto("fill") /\ j' = 0 /\ msg_part' = 0
           /\ UNCHANGED <<wireVars, at, failed_at>>
  <2>1. pc' = "fill" /\ message' = message /\ given' = given /\ at' = at /\ failed_at' = failed_at
    BY <1>2 DEF Goto, wireVars, sender
  <2>2. file \in Seq(Bytes) /\ Len(file) \in Nat /\ file' = file
    BY <1>2, <2>1, FileThere DEF file
  <2>3. LineBytes \in Nat
    BY DEF DataAssumption
  <2>4. Taken = 0 /\ Taken' = 0
    <3>1. 0 * LineBytes = 0
      BY <2>3
    <3>2. Taken' = IF 0 * LineBytes < Len(file) THEN 0 * LineBytes ELSE Len(file)
      BY <1>2, <2>1, <2>2 DEF Taken
    <3> QED
      BY <1>2, <2>2, <3>1, <3>2 DEF Taken
  <2>5. Begun(Taken)' = Begun(Taken)
    BY <2>1, <2>2, <2>4 DEF Begun
  <2>6. Composed = given /\ Composed' = given'
    BY <1>2, <2>1 DEF Composed
  <2> QED
    BY <1>2, <2>1, <2>5, <2>6 DEF TextInv, AfterDot
<1> QED
  BY <1>1, <1>2 DEF OpenFile, Ready

LEMMA FillText ==
  ASSUME WireAssumption, DataAssumption, WireTypeOK, ProgramInv, TextInv, failed_at = "nowhere",
         FillLine
  PROVE  TextInv'
<1> DEFINE held == IF msg_part = 0 THEN <<>> ELSE m_send_buffer
           enc  == base64_encode(fread)
           block == (held \o enc) \o CRLF
<1>1. pc = "fill" /\ j < LineCount /\ j' = j + 1 /\ at' = at
  BY DEF FillLine, Ready
<1>2. /\ message.files \in Seq(Seq(Bytes)) /\ at \in 1 .. Len(message.files) /\ file \in Seq(Bytes)
      /\ j \in Nat /\ Len(file) \in Nat
  BY <1>1, FileThere
<1>3. fread \in Seq(Bytes) /\ Len(fread) \in Nat
  BY <1>1, <1>2, FreadFacts
<1>4. given \in Text /\ m_send_buffer \in Text /\ msg_part \in Nat
  BY WireTypes DEF ProgramInv, ProgramTypeOK
<1>5. held \in Text /\ Composed = given \o held
  <2>1. CASE msg_part = 0
    BY <1>4, <2>1, NoText, JoinNothing DEF Composed
  <2>2. CASE msg_part # 0
    <3>1. msg_part > 0
      BY <1>4, <2>2
    <3> QED
      BY <1>1, <1>4, <2>2, <3>1 DEF Composed
  <2> QED
    BY <2>1, <2>2
<1>6. /\ pc' = "fill" /\ failed_at' = failed_at /\ message' = message
      /\ \/ msg_part' = 0 /\ given' = given \o block
         \/ msg_part' = msg_part + Len(fread) + 2 /\ m_send_buffer' = block /\ given' = given
  <2>1. \/ msg_part' = 0 /\ Sends("DATABLOCK", block, "fill")
        \/ /\ msg_part' = msg_part + Len(fread) + 2 /\ m_send_buffer' = block
           /\ UNCHANGED <<given, message, pc, history>>
    BY DEF FillLine, held, enc, block
  <2> HIDE DEF block
  <2>2. CASE msg_part' = 0 /\ Sends("DATABLOCK", block, "fill")
    BY <2>2, SendsGiven
  <2>3. CASE /\ msg_part' = msg_part + Len(fread) + 2 /\ m_send_buffer' = block
             /\ UNCHANGED <<given, message, pc, history>>
    BY <1>1, <2>3 DEF history
  <2> QED
    BY <2>1, <2>2, <2>3
<1> HIDE DEF held
<1>7. enc \in Text /\ NoReturn(enc) /\ ~Dash(enc) /\ Decodes(enc, fread)
  BY <1>3, LineHolds
<1> HIDE DEF enc
<1>8. given \o block = Composed \o (enc \o CRLF)
  <2>0. given \in Text /\ held \in Text /\ enc \in Text
    BY <1>4, <1>5, <1>7
  <2>1. held \o enc \in Text /\ enc \o CRLF \in Text /\ CRLF \in Text
    BY <2>0, LineEnd, JoinText
  <2>2. Together(held, enc, CRLF)
    BY <2>0, <2>1, JoinTogether
  <2>3. Together(given, held, enc \o CRLF)
    BY <2>0, <2>1, JoinTogether
  <2> QED
    BY <1>5, <2>2, <2>3, Zenon DEF Together, block
<1> HIDE DEF block
<1>9. Composed' = Composed \o (enc \o CRLF)
  <2>1. CASE msg_part' = 0 /\ given' = given \o block
    <3>1. ~(msg_part' > 0)
      BY <2>1
    <3>2. Composed' = given'
      BY <3>1, Zenon DEF Composed
    <3> QED
      BY <1>8, <2>1, <3>2, Zenon
  <2>2. CASE msg_part' = msg_part + Len(fread) + 2 /\ m_send_buffer' = block /\ given' = given
    <3>1. msg_part' > 0
      BY <1>3, <1>4, <2>2
    <3>2. Composed' = given' \o m_send_buffer'
      BY <1>6, <3>1, Zenon DEF Composed
    <3> QED
      BY <1>8, <2>2, <3>2, Zenon
  <2> QED
    BY <1>6, <2>1, <2>2
<1>10. OpenText(Composed, Begun(Taken))
  BY <1>1 DEF TextInv
<1>11. PICK last : last = IF (j + 1) * LineBytes < Len(file) THEN (j + 1) * LineBytes ELSE Len(file)
  OBVIOUS
<1>12. /\ Taken \in Nat /\ last \in Nat /\ Taken <= Len(file) /\ last <= Len(file)
       /\ SubSeq(file, 1, Taken) \o fread = SubSeq(file, 1, last)
  BY <1>1, <1>11, FreadNext
<1>13. file' = file
  BY <1>1, <1>6 DEF file
<1>14. Taken' = last
  BY <1>1, <1>6, <1>11, <1>13 DEF Taken
<1>15. LastGets(Begun(Taken), fread, Begun(last))
  <2>1. SubSeq(file, 1, Taken) \in Seq(Bytes) /\ SubSeq(file, 1, last) \in Seq(Bytes)
    BY <1>2, <1>12, PartOfFile
  <2>2. PICK x \in Seq(Bytes), y \in Seq(Bytes) : x = SubSeq(file, 1, Taken) /\ y = SubSeq(file, 1, last)
    BY <2>1
  <2>3. PICK F, G : F = Begun(Taken) /\ G = Begun(last)
    OBVIOUS
  <2>4. F = [f \in 1 .. at |-> IF f < at THEN message.files[f] ELSE x]
    BY <2>2, <2>3, Zenon DEF Begun
  <2>5. G = [f \in 1 .. at |-> IF f < at THEN message.files[f] ELSE y]
    BY <2>2, <2>3, Zenon DEF Begun
  <2>6. Len(F) = at /\ F[at] = x /\ \A f \in 1 .. at - 1 : F[f] = message.files[f]
    BY <1>2, <2>4, BegunIs
  <2>7. /\ G \in Seq(Seq(Bytes)) /\ Len(G) = at /\ G[at] = y
        /\ \A f \in 1 .. at - 1 : G[f] = message.files[f]
    BY <1>2, <2>5, BegunIs
  <2>8. y = x \o fread
    BY <1>12, <2>2, Zenon
  <2>9. LastGets(F, fread, G)
    BY <2>6, <2>7, <2>8, Zenon DEF LastGets
  <2> QED
    BY <2>3, <2>9
<1>16. OpenText(Composed', Begun(last))
  BY <1>7, <1>9, <1>10, <1>15, DecodedMore, Zenon
<1>17. Begun(Taken)' = Begun(last)
  BY <1>1, <1>6, <1>13, <1>14, Zenon DEF Begun
<1> QED
  BY <1>6, <1>16, <1>17 DEF TextInv, AfterDot

LEMMA FlushText ==
  ASSUME WireAssumption, DataAssumption, WireTypeOK, ProgramInv, TextInv, failed_at = "nowhere",
         FlushRest
  PROVE  TextInv'
<1>1. pc = "fill" /\ j = LineCount /\ at' = at /\ j' = j
  BY DEF FlushRest, Ready
<1>2. /\ pc' = "close" /\ failed_at' = failed_at /\ message' = message
      /\ IF msg_part > 0 THEN given' = given \o m_send_buffer ELSE given' = given
  <2>1. CASE msg_part > 0 /\ Sends("DATABLOCK", m_send_buffer, "close")
    BY <2>1, SendsGiven
  <2>2. CASE ~(msg_part > 0) /\ Goto("close") /\ UNCHANGED <<wireVars, history>>
    BY <2>2 DEF Goto, wireVars, sender, history
  <2> QED
    BY <2>1, <2>2 DEF FlushRest
<1>3. Composed' = Composed
  BY <1>1, <1>2 DEF Composed
<1>4. /\ message.files \in Seq(Seq(Bytes)) /\ at \in 1 .. Len(message.files) /\ file \in Seq(Bytes)
      /\ j \in Nat /\ Len(file) \in Nat
  BY <1>1, FileThere
<1>5. Taken = Len(file)
  <2>1. PICK n \in Nat : n = Len(file)
    BY <1>4
  <2>2. PICK q : q = n \div LineBytes
    OBVIOUS
  <2>3. j * LineBytes \in Nat /\ (j = q + 1 => n < j * LineBytes)
    BY <1>4, <2>1, <2>2, LinePlaces
  <2>4. j = q + 1
    BY <1>1, <2>1, <2>2 DEF LineCount
  <2>5. ~(j * LineBytes < n)
    BY <2>3, <2>4
  <2> QED
    BY <1>1, <2>1, <2>5 DEF Taken
<1>6. file' = file
  BY <1>1, <1>2 DEF file
<1>7. Taken' = Len(file)
  BY <1>2, <1>6 DEF Taken
<1>8. Begun(Taken)' = Begun(Taken)
  BY <1>1, <1>2, <1>5, <1>6, <1>7, Zenon DEF Begun
<1> QED
  BY <1>1, <1>2, <1>3, <1>8 DEF TextInv, AfterDot

LEMMA CloseText ==
  ASSUME DataAssumption, ProgramInv, TextInv, failed_at = "nowhere", CloseFile
  PROVE  TextInv'
<1>1. /\ pc = "close" /\ pc' = "part" /\ at' = at + 1 /\ given' = given /\ failed_at' = failed_at
      /\ message' = message
  BY DEF CloseFile, Ready, Goto, wireVars, sender
<1>2. Composed = given /\ Composed' = given'
  BY <1>1 DEF Composed
<1>3. /\ message.files \in Seq(Seq(Bytes)) /\ at \in 1 .. Len(message.files) /\ file \in Seq(Bytes)
      /\ Len(message.files) \in Nat /\ Len(file) \in Nat
  BY <1>1, FileThere
<1>4. Taken = Len(file)
  BY <1>1 DEF Taken
<1>5. SubSeq(file, 1, Len(file)) = file
  BY <1>3, PartOfFile
<1>6. Begun(Taken) = Done(at)
  <2>1. \A f \in 1 .. at : ~(f < at) => f = at
    BY <1>3
  <2>2. \A f \in 1 .. at : (IF f < at THEN message.files[f] ELSE file) = message.files[f]
    BY <2>1 DEF file
  <2>3. Begun(Taken) = [f \in 1 .. at |-> IF f < at THEN message.files[f] ELSE file]
    BY <1>4, <1>5, Zenon DEF Begun
  <2> QED
    BY <2>2, <2>3, Zenon DEF Done
<1>7. at' - 1 = at
  BY <1>1, <1>3
<1>8. Done(at - 1)' = Done(at)
  BY <1>1, <1>7, Zenon DEF Done
<1>9. OpenText(given, Done(at))
  BY <1>1, <1>2, <1>6 DEF TextInv
<1>10. at' - 1 <= Len(message'.files)
  BY <1>1, <1>3, <1>7
<1> QED
  BY <1>1, <1>2, <1>8, <1>9, <1>10 DEF TextInv, AfterDot

(* Behind the last attachment all the files have been sent. *)
LEMMA AllDone ==
  ASSUME message.files \in Seq(Seq(Bytes)), at \in Nat, at > Len(message.files), at - 1 <= Len(message.files)
  PROVE  Done(at - 1) = message.files
<1>1. PICK F, n : F = message.files /\ n = at - 1
  OBVIOUS
<1>2. F \in Seq(Seq(Bytes)) /\ Len(F) \in Nat
  BY <1>1
<1>3. PICK m \in Nat : m = Len(F)
  BY <1>2
<1>4. at > m /\ at - 1 <= m
  BY <1>1, <1>3
<1>5. n = m /\ n \in Nat /\ n <= m
  BY <1>1, <1>4
<1>6. PICK G : G = [f \in 1 .. n |-> F[f]]
  OBVIOUS
<1>7. G = F
  <2>1. n <= Len(F) /\ n = Len(F)
    BY <1>3, <1>5
  <2> QED
    BY <1>2, <1>5, <1>6, <2>1, DoneIs
<1>8. Done(at - 1) = G
  BY <1>1, <1>6, Zenon DEF Done
<1> QED
  BY <1>1, <1>7, <1>8

LEMMA EndText ==
  ASSUME DataAssumption, ProgramInv, TextInv, failed_at = "nowhere", SendClosing \/ SendFinalDot
  PROVE  TextInv'
<1>1. pc \in {"part", "end"} /\ Composed = given
  BY DEF SendClosing, SendFinalDot, Ready, Composed
<1>2. /\ message.files \in Seq(Seq(Bytes)) /\ Len(message.files) \in Nat /\ at \in Nat /\ at >= 1
  BY MessageFacts DEF ProgramInv, ProgramTypeOK, PlaceInv
<1>3. CASE SendClosing
  <2>1. pc = "part" /\ at > Len(message.files) /\ Sends("DATABLOCK", Closing, "end")
    BY <1>3 DEF SendClosing, Ready
  <2>2. given' = given \o Closing /\ pc' = "end" /\ failed_at' = failed_at /\ message' = message
    BY <2>1, SendsGiven
  <2>3. at - 1 <= Len(message.files) /\ (OpenText(given, Done(at - 1)) \/ ShutText(given, Done(at - 1)))
    BY <1>1, <2>1 DEF TextInv
  <2>5. Done(at - 1) = message.files
    BY <1>2, <2>1, <2>3, AllDone
  <2>6. ShutText(given', message.files)
    BY <2>2, <2>3, <2>5, ClosingBlock
  <2>7. Composed' = given'
    BY <2>2 DEF Composed
  <2> QED
    BY <2>2, <2>6, <2>7 DEF TextInv, AfterDot
<1>4. CASE SendFinalDot
  <2>1. Sends("DATAEND", FinalDot, "answer") /\ (pc = "part" => message.files = <<>>)
    BY <1>4 DEF SendFinalDot, Ready
  <2>2. given' = given \o FinalDot /\ pc' = "answer" /\ failed_at' = failed_at /\ message' = message
    BY <2>1, SendsGiven
  <2>3. ShutText(given, message.files)
    <3>1. CASE pc = "end"
      BY <1>1, <3>1 DEF TextInv
    <3>2. CASE pc = "part"
      <4>1. at - 1 <= Len(message.files) /\ (OpenText(given, Done(at - 1)) \/ ShutText(given, Done(at - 1)))
        BY <1>1, <3>2 DEF TextInv
      <4>2. message.files = <<>> /\ Len(message.files) = 0
        BY <2>1, <3>2, EmptySeq
      <4>3. at > Len(message.files)
        BY <1>2, <4>2
      <4>4. Done(at - 1) = message.files
        BY <1>2, <4>1, <4>3, AllDone
      <4>5. PICK F : F = message.files
        OBVIOUS
      <4>6. (OpenText(given, F) \/ ShutText(given, F)) /\ F = <<>>
        BY <4>1, <4>2, <4>4, <4>5
      <4>7. Gives(LinesOf(given), F)
        BY <4>6 DEF OpenText, ShutText
      <4>8. Shut(LinesOf(given))
        BY <4>6, <4>7, NoFileIsShut
      <4>9. ShutText(given, F)
        BY <4>6, <4>8 DEF OpenText, ShutText
      <4> QED
        BY <4>5, <4>9
    <3> QED
      BY <1>1, <3>1, <3>2
  <2>4. ShutText(given', message.files)
    BY <2>2, <2>3, DotBlock
  <2>5. Composed' = given'
    BY <2>2 DEF Composed
  <2> QED
    BY <2>2, <2>4, <2>5 DEF TextInv, AfterDot
<1> QED
  BY <1>3, <1>4

LEMMA QuietText ==
  ASSUME ProgramInv, FailedInv, TextInv, AwaitAnswer \/ Leave \/ Catch \/ QuitFails, ~Over
  PROVE  TextInv'
<1>1. CASE Catch
  <2>1. failed_at' = pc /\ pc \in Points
    BY <1>1 DEF Catch, ProgramInv, ProgramTypeOK
  <2>2. failed_at' # "nowhere"
    BY <2>1 DEF Points, Final
  <2> QED
    BY <2>2 DEF TextInv
<1>2. CASE AwaitAnswer \/ Leave \/ QuitFails
  <2>1. /\ given' = given /\ failed_at' = failed_at /\ message' = message
        /\ \/ pc = "answer" /\ pc' = "answered"
           \/ pc = "answered" /\ pc' = "sent"
           \/ pc \in {"quit", "bye"}
           \/ ~m_bConnected
    BY <1>2 DEF AwaitAnswer, Awaits, Leave, QuitFails, Ready, Goto, receive_response, wireVars, sender,
                history
  <2>2. failed_at = "nowhere" => pc \in AfterDot /\ pc' \in AfterDot
    BY <2>1 DEF ProgramInv, FileInv, FailedInv, AfterDot
  <2>3. failed_at = "nowhere" => Composed = given /\ Composed' = given
    BY <2>1, <2>2 DEF Composed, AfterDot
  <2> QED
    BY <2>1, <2>2, <2>3 DEF TextInv, AfterDot
<1> QED
  BY <1>1, <1>2

LEMMA ProgramText ==
  ASSUME WireAssumption, DataAssumption, Inv, ReplyInv, TextInv, Program, ~Over
  PROVE  TextInv'
<1>1. WireTypeOK /\ ProgramInv /\ FailedInv
  BY DEF Inv, WireInv, ReplyInv
<1>2. CASE AwaitAnswer \/ Leave \/ Catch \/ QuitFails
  BY <1>1, <1>2, QuietText
<1>3. CASE CheckFile \/ EnvelopeAccepted
  BY <1>3, CheckText
<1>4. CASE ~(AwaitAnswer \/ Leave \/ Catch \/ QuitFails) /\ ~(CheckFile \/ EnvelopeAccepted)
  <2>1. \/ SendHeader \/ SendLines \/ SendPart \/ OpenFile \/ FillLine \/ FlushRest \/ CloseFile
        \/ SendClosing \/ SendFinalDot
    BY <1>4 DEF Program
  <2>2. pc \notin {"quit", "bye", "failed"}
    BY <2>1 DEF SendHeader, SendLines, SendPart, OpenFile, FillLine, FlushRest, CloseFile,
                SendClosing, SendFinalDot, Ready
  <2>3. failed_at = "nowhere"
    BY <1>1, <2>2, NothingFailed
  <2> QED
    BY <1>1, <2>1, <2>3, LinesText, PartText, OpenFileText, FillText, FlushText, CloseText, EndText
<1> QED
  BY <1>2, <1>3, <1>4

-----------------------------------------------------------------------------
(* WholeOrNothing.  An exception on its way to the catch clause leaves at  *)
(* most one record behind, the rest of what send_data was given.           *)
ThrownInv ==
  failed_at = "nowhere" /\ thrown /\ ~closed => unwritten = <<>> \/ given = sent \o unwritten

LEMMA ProgramThrown ==
  ASSUME Inv, FailedInv, Program
  PROVE  ThrownInv'
<1> SUFFICES ASSUME failed_at' = "nowhere", thrown', ~closed' PROVE unwritten' = <<>>
  BY DEF ThrownInv
<1>1. WireTypeOK /\ ProgramTypeOK
  BY DEF Inv, WireInv, ProgramInv
<1>2. ~Catch
  BY <1>1 DEF Catch, ProgramTypeOK, Points, Final
<1>3. failed_at' = failed_at
  BY <1>2 DEF Program, CheckFile, EnvelopeAccepted, SendHeader, SendLines, SendPart, OpenFile, FillLine,
              FlushRest, CloseFile, SendClosing, SendFinalDot, AwaitAnswer, Awaits, Leave, QuitFails,
              Sends, history
<1>4. ~QuitFails
  BY <1>3 DEF QuitFails, FailedInv
<1>5. call = "idle" /\ ~thrown /\ unwritten' = unwritten /\ closed' = closed
  <2>1. CASE CheckFile \/ OpenFile
    BY <2>1 DEF CheckFile, OpenFile, Ready, Raise, wireVars, network, client
  <2>2. CASE EnvelopeAccepted \/ CloseFile \/ Leave \/ AwaitAnswer
    BY <2>2 DEF EnvelopeAccepted, CloseFile, Leave, AwaitAnswer, Awaits, Ready, receive_response,
                wireVars, network, client
  <2>3. CASE SendHeader \/ SendLines \/ SendPart \/ SendClosing \/ SendFinalDot
    BY <2>3 DEF SendHeader, SendLines, SendPart, SendClosing, SendFinalDot, Ready, Sends, send_data,
                network
  <2>4. CASE FillLine \/ FlushRest
    BY <2>4 DEF FillLine, FlushRest, Ready, Sends, send_data, wireVars, network, client
  <2> QED
    BY <1>2, <1>4, <2>1, <2>2, <2>3, <2>4 DEF Program
<1> QED
  BY <1>3, <1>5 DEF Inv, WireInv, SentInv

LEMMA WireThrown ==
  ASSUME WireTypeOK, CallInv, SentInv, WireStep, UNCHANGED failed_at
  PROVE  ThrownInv'
<1> SUFFICES ASSUME failed_at = "nowhere", thrown', ~closed'
             PROVE  unwritten' = <<>> \/ given' = sent' \o unwritten'
  BY DEF ThrownInv
<1>1. ~thrown
  BY DEF WireStep, SendSome, SSL_write, WantWrite, WantRead, Killed, Receive, SSL_read, ReadBlocked,
         ReadWantsWrite, Fails, CallInv
<1>2. /\ ~(SendSome \/ SSL_write \/ WantWrite \/ WantRead \/ Killed)
      /\ ~(ReadBlocked \/ ReadWantsWrite)
  BY <1>1 DEF SendSome, SSL_write, WantWrite, WantRead, Killed, ReadBlocked, ReadWantsWrite,
              Written, client
<1>3. UNCHANGED <<sent, unwritten, given, closed>> /\ call \in {"send", "receive"}
  BY <1>2 DEF WireStep, Receive, SSL_read, Take, Fails, sender, network
<1>4. call = "send" => given = sent \o Rest /\ unwritten \in {<<>>, Rest}
  BY <1>1, <1>3 DEF SentInv
<1>5. call # "send" => unwritten = <<>>
  BY <1>1, <1>3 DEF SentInv
<1> QED
  BY <1>3, <1>4, <1>5

(* What is out when QUIT has begun behind w: some of w and nothing of QUIT, *)
(* or w and a part of QUIT.  After a write that was cut off the part may   *)
(* begin late, since what SSL_write says it has taken is the older record. *)
Follows(w, a, b) ==
  \E v \in Text : IsPrefix(v, w) /\ (a = 1 \/ v = w) /\ sent = v \o SubSeq(Quit, a, b)
SentSome(w) == \E a \in 1 .. 7, b \in 0 .. 6 : a <= b + 1 /\ Follows(w, a, b)
Writing(w) ==
  /\ m_send_buffer = Quit
  /\ \/ unwritten \in {<<>>, Rest} /\ \E a \in 1 .. 7 : a <= idx + 1 /\ Follows(w, a, idx)
     \/ idx = 0 /\ unwritten # <<>> /\ sent \o unwritten = w
Goodbye(w) == SentSome(w) /\ (call = "send" /\ ~closed => Writing(w))

LastDot(w) == \A i \in 1 .. Len(w) : w[i] = 46 => i = Len(w) - 2

(* A message that has failed behind its final dot is whole, and QUIT       *)
(* follows it.                                                             *)
AfterInv ==
  failed_at \in {"answer", "answered"} =>
    \E w \in Text : ShutText(w, message.files) /\ LastDot(w) /\ Goodbye(w)

(* The next characters of QUIT are out. *)
LEMMA QuitGoesOn ==
  ASSUME NEW w \in Text, sent \in Text, NEW a \in 1 .. 7, NEW k \in 0 .. 6, NEW n \in 0 .. 6 - k, a <= k + 1,
         Follows(w, a, k), sent' = sent \o SubSeq(Quit, k + 1, k + n)
  PROVE  Follows(w, a, k + n)' /\ k + n \in 0 .. 6 /\ a <= k + n + 1
<1>1. PICK v \in Text : IsPrefix(v, w) /\ (a = 1 \/ v = w) /\ sent = v \o SubSeq(Quit, a, k)
  BY DEF Follows
<1>2. PICK m \in Nat : m = k + n /\ m <= 6 /\ k <= m /\ a <= m + 1 /\ m \in 0 .. 6
  OBVIOUS
<1>3. Quit \in Text /\ Len(Quit) = 6
  BY QuitText
<1>4. a \in Nat \ {0} /\ k \in Nat /\ k + 1 \in Nat \ {0} /\ k <= Len(Quit) /\ m <= Len(Quit)
  BY <1>2, <1>3
<1>5. SubSeq(Quit, a, k) \in Text /\ SubSeq(Quit, k + 1, m) \in Text
  <2>1. k \in Int /\ m \in Int
    BY <1>2
  <2> QED
    BY <1>3, <1>4, <2>1, SubText
<1>6. Adjacent(Quit, a, k, m)
  BY <1>2, <1>3, <1>4, PartsAdjacent
<1>7. PICK p \in Text, q \in Text : p = SubSeq(Quit, a, k) /\ q = SubSeq(Quit, k + 1, m)
  BY <1>5, Zenon
<1>8. sent' = v \o SubSeq(Quit, a, m)
  <2>1. p \o q = SubSeq(Quit, a, m)
    BY <1>6, <1>7, Zenon DEF Adjacent
  <2>2. sent' = (v \o p) \o q
    BY <1>1, <1>2, <1>7, Zenon
  <2>3. Together(v, p, q)
    BY JoinTogether
  <2> QED
    BY <2>1, <2>2, <2>3, Zenon DEF Together
<1>9. Follows(w, a, m)'
  BY <1>1, <1>8 DEF Follows
<1> QED
  BY <1>2, <1>9

(* The turns of the loop that sends QUIT. *)
LEMMA QuitWritten ==
  ASSUME WireTypeOK, NEW w \in Text, m_send_buffer = Quit, ~closed, NEW chars, Written(chars),
         unwritten' = <<>>, NEW n \in 0 .. nLeft, chars = SubSeq(Quit, idx + 1, idx + n),
         NEW a \in 1 .. 7, a <= idx + 1, Follows(w, a, idx)
  PROVE  Goodbye(w)'
<1>1. sent' = sent \o chars /\ idx' = idx + Len(chars) /\ m_send_buffer' = Quit
  BY DEF Written
<1>2. idx \in 0 .. 6 /\ nLeft = 6 - idx /\ Quit \in Text /\ Len(Quit) = 6 /\ sent \in Text
  BY WireTypes, QuitText DEF nLeft
<1>3. PICK k \in 0 .. 6 : k = idx
  BY <1>2
<1>4. n \in 0 .. 6 - k /\ a <= k + 1
  BY <1>2, <1>3
<1>5. PICK m \in 0 .. 6 : m = k + n
  BY <1>4
<1>6. sent' = sent \o SubSeq(Quit, k + 1, k + n) /\ Follows(w, a, k)
  BY <1>1, <1>3
<1>7. Follows(w, a, m)' /\ a <= m + 1
  <2>1. Follows(w, a, k + n)' /\ a <= k + n + 1
    BY <1>2, <1>4, <1>6, QuitGoesOn
  <2>2. m = k + n
    BY <1>5
  <2> QED
    BY <2>1, <2>2, Zenon
<1>8. idx' = m
  <2>1. k + 1 \in Nat \ {0} /\ m \in Nat /\ m <= Len(Quit) /\ k + 1 <= m + 1 /\ m + 1 - (k + 1) = n
    BY <1>2, <1>4, <1>5
  <2>2. IsPart(SubSeq(Quit, k + 1, m), Quit, k + 1, m)
    BY <1>2, <2>1, PartIs
  <2>3. Len(SubSeq(Quit, k + 1, m)) = n
    BY <2>1, <2>2 DEF IsPart
  <2>4. chars = SubSeq(Quit, k + 1, m)
    BY <1>3, <1>5
  <2> QED
    BY <1>1, <1>3, <1>5, <2>3, <2>4
<1>9. SentSome(w)'
  BY <1>7 DEF SentSome
<1>10. Writing(w)'
  <2>1. Follows(w, a, idx)' /\ a <= idx' + 1
    BY <1>7, <1>8
  <2> QED
    BY <1>1, <2>1 DEF Writing
<1> QED
  BY <1>9, <1>10 DEF Goodbye

LEMMA RecordWritten ==
  ASSUME WireTypeOK, NEW w \in Text, m_send_buffer = Quit, ~closed, idx = 0,
         unwritten # <<>>, sent \o unwritten = w, Len(unwritten) <= nLeft,
         Written(unwritten), unwritten' = <<>>
  PROVE  Goodbye(w)'
<1>1. sent' = w /\ idx' = idx + Len(unwritten) /\ m_send_buffer' = Quit
  BY DEF Written
<1>2. nLeft = 6 /\ Len(unwritten) \in Nat /\ Quit \in Text /\ Len(Quit) = 6
  BY WireTypes, LenText, QuitText DEF nLeft
<1>3. PICK l \in 0 .. 6 : l = Len(unwritten)
  <2>1. PICK l : l = Len(unwritten)
    OBVIOUS
  <2>2. l \in Nat /\ l <= 6
    BY <1>2, <2>1
  <2>3. l \in 0 .. 6
    BY <2>2
  <2> QED
    BY <2>1, <2>3, Zenon
<1>4. l + 1 \in 1 .. 7 /\ l + 1 \in Int /\ l + 1 > l
  OBVIOUS
<1>5. SubSeq(Quit, l + 1, l) = <<>>
  BY <1>4, SubSeqEmpty
<1>6. Follows(w, l + 1, l)'
  <2>1. sent' = w \o SubSeq(Quit, l + 1, l)
    BY <1>1, <1>5, JoinNothing
  <2> QED
    BY <2>1, PrefixSelf DEF Follows
<1>7. idx' = l /\ l + 1 <= l + 1
  BY <1>1, <1>3
<1>8. SentSome(w)'
  BY <1>4, <1>6, <1>7 DEF SentSome
<1>9. Writing(w)'
  <2>1. Follows(w, l + 1, idx)' /\ l + 1 <= idx' + 1
    BY <1>6, <1>7
  <2> QED
    BY <1>1, <1>4, <2>1 DEF Writing
<1> QED
  BY <1>8, <1>9 DEF Goodbye

LEMMA WireGoodbye ==
  ASSUME WireTypeOK, CallInv, SentInv, NEW w \in Text, Goodbye(w), WireStep
  PROVE  Goodbye(w)'
<1>1. CASE SendSome
  <2>1. PICK n \in 1 .. nLeft : Written(SubSeq(Rest, 1, n))
    BY <1>1 DEF SendSome
  <2>2. call = "send" /\ unwritten = <<>> /\ unwritten' = <<>>
    BY <1>1 DEF SendSome, SentInv
  <2>3. CASE closed
    <3>1. sent' = sent /\ closed' = closed
      BY <2>1, <2>3 DEF Written
    <3> QED
      BY <2>3, <3>1 DEF Goodbye, SentSome, Follows
  <2>4. CASE ~closed
    <3>1. PICK a \in 1 .. 7 : a <= idx + 1 /\ Follows(w, a, idx)
      BY <2>2, <2>4 DEF Goodbye, Writing
    <3>2. m_send_buffer = Quit
      BY <2>2, <2>4 DEF Goodbye, Writing
    <3>3. idx \in 0 .. Len(m_send_buffer) /\ n \in 0 .. Len(m_send_buffer) - idx /\ m_send_buffer \in Text
      BY WireTypes, LenText DEF nLeft
    <3>4. SubSeq(Rest, 1, n) = SubSeq(Quit, idx + 1, idx + n)
      BY <3>2, <3>3, FirstOfRest, Zenon DEF Rest
    <3>5. n \in 0 .. nLeft
      BY RestText
    <3> QED
      BY <2>1, <2>2, <2>4, <3>1, <3>2, <3>4, <3>5, QuitWritten
  <2> QED
    BY <2>3, <2>4
<1>2. CASE SSL_write
  <2>1. call = "send" /\ Written(record) /\ unwritten' = <<>> /\ Len(record) <= nLeft
    BY <1>2 DEF SSL_write
  <2>2. CASE closed
    <3>1. sent' = sent /\ closed' = closed
      BY <2>1, <2>2 DEF Written
    <3> QED
      BY <2>2, <3>1 DEF Goodbye, SentSome, Follows
  <2>3. CASE ~closed
    <3>1. m_send_buffer = Quit
      BY <2>1, <2>3 DEF Goodbye, Writing
    <3>2. CASE unwritten \in {<<>>, Rest} /\ \E a \in 1 .. 7 : a <= idx + 1 /\ Follows(w, a, idx)
      <4>1. PICK a \in 1 .. 7 : a <= idx + 1 /\ Follows(w, a, idx)
        BY <3>2
      <4>2. idx \in 0 .. 6 /\ nLeft = 6 - idx /\ Len(Quit) = 6
        BY <3>1, WireTypes, QuitText DEF nLeft
      <4>3. PICK n \in 0 .. nLeft : idx + n = 6
        <5>1. 6 - idx \in 0 .. nLeft /\ idx + (6 - idx) = 6
          BY <4>2
        <5> QED
          BY <5>1
      <4>4. record = SubSeq(Quit, idx + 1, idx + n)
        BY <3>1, <3>2, <4>2, <4>3 DEF record, Rest
      <4> QED
        BY <2>1, <2>3, <3>1, <4>1, <4>4, QuitWritten
    <3>3. CASE idx = 0 /\ unwritten # <<>> /\ sent \o unwritten = w
      <4>1. record = unwritten
        BY <3>3 DEF record
      <4> QED
        BY <2>1, <2>3, <3>1, <3>3, <4>1, RecordWritten
    <3> QED
      BY <2>1, <2>3, <3>2, <3>3 DEF Goodbye, Writing
  <2> QED
    BY <2>2, <2>3
<1>3. CASE ~SendSome /\ ~SSL_write
  <2>1. sent' = sent /\ closed' = closed
    BY <1>3 DEF WireStep, WantWrite, WantRead, Killed, Receive, SSL_read, Take, ReadBlocked,
                    ReadWantsWrite, Fails, network
  <2>2. SentSome(w)'
    BY <2>1 DEF Goodbye, SentSome, Follows
  <2>3. ASSUME call' = "send" PROVE WantWrite \/ WantRead
    BY <1>3, <2>3 DEF WireStep, Killed, Receive, Received, SSL_read, Throw, ReadBlocked,
                          ReadWantsWrite, Fails, client
  <2>4. ASSUME call' = "send", ~closed PROVE Writing(w)'
    <3>1. call = "send" /\ Writing(w)
      BY <2>3, <2>4 DEF WantWrite, WantRead, Goodbye
    <3>2. UNCHANGED <<m_send_buffer, idx, sent>> /\ unwritten' \in {unwritten, record}
      BY <2>1, <2>3, <2>4 DEF WantWrite, WantRead, network
    <3>3. unwritten' = unwritten \/ (unwritten = <<>> /\ unwritten' = Rest)
      BY <3>2 DEF record
    <3> QED
      BY <3>1, <3>2, <3>3 DEF Writing, Follows, Rest
  <2> QED
    BY <2>1, <2>2, <2>4 DEF Goodbye
<1> QED
  BY <1>1, <1>2, <1>3

(* The steps of send_mail behind the failure, and the failure itself. *)
LEMMA CatchAfter ==
  ASSUME Inv, ReplyInv, TextInv, ThrownInv, Catch
  PROVE  AfterInv'
<1> SUFFICES ASSUME pc \in {"answer", "answered"}
             PROVE  \E w \in Text : (ShutText(w, message.files) /\ LastDot(w) /\ Goodbye(w))'
  BY DEF AfterInv, Catch
<1>1. /\ failed_at = "nowhere" /\ thrown /\ message' = message /\ sent' = sent /\ closed' = closed
      /\ unwritten' = unwritten /\ m_send_buffer' = Quit /\ idx' = 0
  BY NothingFailed DEF Catch, Goto, network, Inv, ReplyInv
<1>2. sent \in Text /\ given \in Text /\ IsPrefix(sent, given)
  BY <1>1, WireTypes DEF Inv, WireInv, SentInv
<1>3. ShutText(given, message.files)
  BY <1>1 DEF TextInv, Composed, AfterDot
<1>4. LastDot(given)
  BY <1>1 DEF ReplyInv, DotInv, LastDot
<1>5. PICK w \in Text : w = given
  BY <1>2
<1>6. Follows(w, 1, 0)'
  <2>1. SubSeq(Quit, 1, 0) = <<>>
    BY SubSeqEmpty
  <2>2. sent' = sent \o SubSeq(Quit, 1, 0)
    BY <1>1, <1>2, <2>1, JoinNothing
  <2> QED
    BY <1>2, <1>5, <2>2 DEF Follows
<1>7. ASSUME ~closed PROVE Writing(w)'
  <2>1. unwritten = <<>> \/ w = sent \o unwritten
    BY <1>1, <1>5, <1>7 DEF ThrownInv
  <2>2. CASE unwritten = <<>>
    <3>1. Follows(w, 1, idx)' /\ 1 <= idx' + 1
      BY <1>1, <1>6
    <3> QED
      BY <1>1, <2>2, <3>1 DEF Writing
  <2>3. CASE unwritten # <<>>
    BY <1>1, <2>1, <2>3 DEF Writing
  <2> QED
    BY <2>2, <2>3
<1>8. SentSome(w)'
  BY <1>6 DEF SentSome
<1>9. Goodbye(w)'
  BY <1>1, <1>7, <1>8 DEF Goodbye
<1>10. ShutText(w, message'.files) /\ LastDot(w)
  BY <1>1, <1>3, <1>4, <1>5
<1> QED
  BY <1>9, <1>10

LEMMA ProgramAfter ==
  ASSUME Inv, ReplyInv, AfterInv, Program, ~Catch
  PROVE  AfterInv'
<1>1. failed_at' = failed_at
  BY DEF Program, CheckFile, EnvelopeAccepted, SendHeader, SendLines, SendPart, OpenFile, FillLine,
         FlushRest, CloseFile, SendClosing, SendFinalDot, AwaitAnswer, Awaits, Leave, QuitFails, Sends,
         history
<1> SUFFICES ASSUME failed_at \in {"answer", "answered"}
             PROVE  \E w \in Text : (ShutText(w, message.files) /\ LastDot(w) /\ Goodbye(w))'
  BY <1>1 DEF AfterInv
<1>2. pc \in {"quit", "bye", "failed"}
  BY NothingFailed DEF Inv, ReplyInv
<1>3. AwaitAnswer \/ Leave \/ QuitFails
  BY <1>2 DEF Program, CheckFile, EnvelopeAccepted, SendHeader, SendLines, SendPart, OpenFile, FillLine,
              FlushRest, CloseFile, SendClosing, SendFinalDot, Ready
<1>4. message' = message /\ sent' = sent /\ call' # "send"
  BY <1>3 DEF AwaitAnswer, Awaits, Leave, QuitFails, Ready, Goto, receive_response, wireVars, network,
              client, Inv, WireInv, CallInv
<1>5. PICK w \in Text : ShutText(w, message.files) /\ LastDot(w) /\ SentSome(w)
  BY DEF AfterInv, Goodbye
<1>6. Goodbye(w)'
  BY <1>4, <1>5 DEF Goodbye, SentSome, Follows
<1>7. ShutText(w, message'.files) /\ LastDot(w)
  BY <1>4, <1>5
<1> QED
  BY <1>6, <1>7

(* The invariant. *)
WholeInv == TextInv /\ ThrownInv /\ AfterInv

LEMMA WholeInit == Init => WholeInv
<1> SUFFICES ASSUME Init PROVE WholeInv
  OBVIOUS
<1>1. pc = "check" /\ failed_at = "nowhere" /\ given = <<>> /\ thrown = FALSE
  BY DEF Init, WireInit
<1>2. ThrownInv /\ AfterInv
  BY <1>1 DEF ThrownInv, AfterInv
<1>3. Composed = <<>>
  BY <1>1 DEF Composed
<1>4. ShutText(Composed, <<>>)
  BY <1>3, NothingYet
<1> QED
  BY <1>1, <1>2, <1>4 DEF WholeInv, TextInv, AfterDot

(* A step that leaves alone what send_mail and the sender know. *)
LEMMA OtherWhole ==
  ASSUME WholeInv,
         UNCHANGED <<message, pc, at, j, msg_part, failed_at, m_send_buffer, given, idx, call, thrown,
                     sent, unwritten>>,
         ~closed' => ~closed
  PROVE  WholeInv'
<1>1. TextInv'
  BY SameText DEF WholeInv
<1>2. ThrownInv'
  BY DEF WholeInv, ThrownInv
<1>3. ASSUME failed_at \in {"answer", "answered"}
      PROVE  \E w \in Text : (ShutText(w, message.files) /\ LastDot(w) /\ Goodbye(w))'
  <2>1. PICK w \in Text : ShutText(w, message.files) /\ LastDot(w) /\ Goodbye(w)
    BY <1>3 DEF WholeInv, AfterInv
  <2>2. SentSome(w)'
    BY <2>1 DEF Goodbye, SentSome, Follows
  <2>3. Writing(w) => Writing(w)'
    BY DEF Writing, Follows, Rest
  <2>4. Goodbye(w)'
    BY <2>1, <2>2, <2>3 DEF Goodbye
  <2>5. ShutText(w, message'.files) /\ LastDot(w)
    BY <2>1
  <2> QED
    BY <2>4, <2>5
<1>4. AfterInv'
  BY <1>3 DEF AfterInv
<1> QED
  BY <1>1, <1>2, <1>4 DEF WholeInv

LEMMA WireWhole ==
  ASSUME WireAssumption, Inv, WholeInv, WireStep, UNCHANGED <<program, history, peer>>
  PROVE  WholeInv'
<1>1. UNCHANGED <<m_send_buffer, given, message, pc, at, j, msg_part, failed_at>>
  BY WireSteps DEF Inv, WireInv, program, history
<1>2. TextInv'
  BY <1>1, SameText DEF WholeInv
<1>3. ThrownInv'
  BY <1>1, WireThrown DEF Inv, WireInv
<1>4. ASSUME failed_at \in {"answer", "answered"}
      PROVE  \E w \in Text : (ShutText(w, message.files) /\ LastDot(w) /\ Goodbye(w))'
  <2>1. PICK w \in Text : ShutText(w, message.files) /\ LastDot(w) /\ Goodbye(w)
    BY <1>4 DEF WholeInv, AfterInv
  <2>2. Goodbye(w)'
    BY <2>1, WireGoodbye DEF Inv, WireInv
  <2>3. ShutText(w, message'.files) /\ LastDot(w)
    BY <1>1, <2>1
  <2> QED
    BY <2>2, <2>3
<1>5. AfterInv'
  BY <1>1, <1>4 DEF AfterInv
<1> QED
  BY <1>2, <1>3, <1>5 DEF WholeInv

LEMMA WholeNext ==
  ASSUME WireAssumption, DataAssumption, Inv, ReplyInv, WholeInv, [Next]_vars
  PROVE  WholeInv'
<1>1. CASE Program /\ ~Over
  <2>1. TextInv'
    BY <1>1, ProgramText DEF WholeInv
  <2>2. ThrownInv'
    BY <1>1, ProgramThrown DEF ReplyInv
  <2>3. AfterInv'
    BY <1>1, CatchAfter, ProgramAfter DEF WholeInv
  <2> QED
    BY <2>1, <2>2, <2>3 DEF WholeInv
<1>2. CASE WireStep /\ UNCHANGED <<program, history, peer>>
  BY <1>2, WireWhole
<1>3. CASE Peer
  <2>1. /\ UNCHANGED <<program, history>> /\ (closed' = closed \/ closed')
        /\ UNCHANGED <<client, sender, sent, unwritten>>
    BY <1>3 DEF Peer, AnswerMessage, AnswerQuit, Hangup, ContinuationLine, PeerWrites, network
  <2> QED
    BY <2>1, OtherWhole DEF program, history, client, sender
<1>4. CASE UNCHANGED vars
  BY <1>4, OtherWhole DEF vars, wireVars, program, history, client, sender, network
<1> QED
  BY <1>1, <1>2, <1>3, <1>4 DEF Next, ClientStep

(* What a mail program reads of w when nothing or some of QUIT is behind   *)
(* it: the last line of QUIT is no line of base64 and ends no part.        *)
LEMMA QuitParts ==
  /\ Quit[1] = 81
  /\ \A i \in 1 .. 6 : Quit[i] # 46
  /\ \A i \in 1 .. 4 : Quit[i] # CR
  /\ Quit[5] = CR /\ Quit[6] = LF
BY DEF Quit, CRLF, CR, LF

LEMMA QuitPart ==
  ASSUME NEW a \in 1 .. 7, NEW b \in 0 .. 6, a <= b + 1, NEW q, q = SubSeq(Quit, a, b)
  PROVE  IsPart(q, Quit, a, b)
<1>1. Quit \in Text /\ a \in Nat \ {0} /\ b \in Nat /\ b <= Len(Quit)
  BY QuitText
<1> QED
  BY <1>1, PartIs

LEMMA QuitBehind ==
  ASSUME NEW w, NEW F, ShutText(w, F), NEW a \in 1 .. 7, NEW b \in 0 .. 6, a <= b + 1
  PROVE  Gives(LinesOf(w \o SubSeq(Quit, a, b)), F)
<1>1. w \in Text /\ Whole(w) /\ Gives(LinesOf(w), F)
  BY DEF ShutText
<1>2. PICK q : q = SubSeq(Quit, a, b)
  OBVIOUS
<1>3. /\ q \in Text /\ Len(q) = b + 1 - a
      /\ \A i \in 1 .. b + 1 - a : q[i] = Quit[a + i - 1]
  <2>1. IsPart(q, Quit, a, b)
    BY <1>2, QuitPart
  <2> QED
    BY <2>1 DEF IsPart
<1>4. CASE b < 6 \/ a > 5
  <2>1. ASSUME NEW i \in 1 .. Len(q) - 1, q[i] = CR PROVE FALSE
    <3>1. i \in 1 .. b + 1 - a /\ a + i - 1 \in 1 .. 6 /\ a + i - 1 # 5
      BY <1>3, <1>4
    <3>2. PICK k \in 1 .. 6 : k = a + i - 1
      BY <3>1
    <3>3. k \in 1 .. 4 \/ k = 6
      BY <3>1, <3>2
    <3>4. Quit[k] = CR
      BY <1>3, <2>1, <3>1, <3>2
    <3> QED
      BY <3>3, <3>4, QuitParts DEF CR, LF
  <2>2. LinesOf(w \o q) = LinesOf(w)
    BY <1>1, <1>3, <2>1, LinesKept
  <2> QED
    BY <1>1, <1>2, <2>2
<1>5. CASE b = 6 /\ a <= 5
  <2>1. PICK l : l = SubSeq(Quit, a, 4)
    OBVIOUS
  <2>2. /\ l \in Text /\ Len(l) = 5 - a
        /\ \A i \in 1 .. 5 - a : l[i] = Quit[a + i - 1]
    <3>1. 4 \in 0 .. 6 /\ a <= 4 + 1 /\ 4 + 1 - a = 5 - a
      BY <1>5
    <3>2. IsPart(l, Quit, a, 4)
      BY <2>1, <3>1, QuitPart
    <3> QED
      BY <3>1, <3>2 DEF IsPart
  <2>3. NoReturn(l) /\ ~Dash(l)
    <3>1. \A i \in 1 .. 5 - a : a + i - 1 \in 1 .. 4
      OBVIOUS
    <3>2. \A i \in 1 .. 5 - a : l[i] # CR
      BY <2>2, <3>1, QuitParts
    <3>3. \A k \in 1 .. 4 : Quit[k] # 45
      BY DEF Quit, CRLF, CR, LF
    <3>4. ASSUME l # <<>> PROVE l[1] # 45
      <4>1. 1 \in 1 .. 5 - a
        <5>1. Len(l) # 0
          BY <2>2, <3>4, EmptySeq DEF Text
        <5> QED
          BY <2>2, <5>1
      <4> QED
        BY <2>2, <3>1, <3>3, <4>1
    <3> QED
      BY <2>2, <3>2, <3>4 DEF NoReturn, Dash
  <2>4. SubSeq(Quit, 5, 6) = CRLF
    <3>1. PICK x : x = SubSeq(Quit, 5, 6)
      OBVIOUS
    <3>2. x \in Text /\ Len(x) = 2 /\ \A i \in 1 .. 2 : x[i] = Quit[5 + i - 1]
      <4>1. IsPart(x, Quit, 5, 6)
        <5>1. 5 \in 1 .. 7 /\ 6 \in 0 .. 6 /\ 5 <= 6 + 1
          OBVIOUS
        <5> QED
          BY <3>1, <5>1, QuitPart
      <4>2. 6 + 1 - 5 = 2
        OBVIOUS
      <4> QED
        BY <4>1, <4>2 DEF IsPart
    <3>3. x[1] = CR /\ x[2] = LF
      BY <3>2, QuitParts
    <3> QED
      BY <3>1, <3>2, <3>3, SeqEqual, LineEnd DEF Text
  <2>5. q = l \o CRLF
    <3>1. Quit \in Text /\ a \in Nat \ {0} /\ 6 <= Len(Quit) /\ a <= 4 + 1
      BY <1>5, QuitText
    <3>2. SubSeq(Quit, a, 4) \o SubSeq(Quit, 4 + 1, 6) = SubSeq(Quit, a, 6)
      BY <3>1, PartsJoin
    <3>3. SubSeq(Quit, a, 4) \o SubSeq(Quit, 5, 6) = SubSeq(Quit, a, 6)
      BY <3>2
    <3>4. q = SubSeq(Quit, a, 6)
      BY <1>2, <1>5
    <3> QED
      BY <2>1, <2>4, <3>3, <3>4, Zenon
  <2>6. PICK t : t = w \o q
    OBVIOUS
  <2>7. ShutText(t, F)
    BY <2>2, <2>3, <2>5, <2>6, PlainMore, Zenon
  <2> QED
    BY <1>2, <2>6, <2>7 DEF ShutText
<1>6. (b < 6 \/ a > 5) \/ (b = 6 /\ a <= 5)
  OBVIOUS
<1> QED
  BY <1>4, <1>5, <1>6, Zenon

(* The peer has the end of a message only when it has all of w. *)
LEMMA EndBehind ==
  ASSUME NEW w \in Text, LastDot(w), NEW v \in Text, IsPrefix(v, w), NEW a \in 1 .. 7, NEW b \in 0 .. 6,
         a <= b + 1, a = 1 \/ v = w, EndOfData(v \o SubSeq(Quit, a, b))
  PROVE  v = w
<1>1. PICK q, s : q = SubSeq(Quit, a, b) /\ s = v \o q
  OBVIOUS
<1>2. PICK n \in Nat, m \in Nat : n = Len(v) /\ m = b + 1 - a
  <2>1. Len(v) \in Nat /\ b + 1 - a \in Nat
    BY LenText
  <2> QED
    BY <2>1
<1>3. q \in Text /\ Len(q) = m /\ \A i \in 1 .. m : q[i] = Quit[a + i - 1]
  <2>1. IsPart(q, Quit, a, b)
    BY <1>1, QuitPart
  <2> QED
    BY <1>2, <2>1 DEF IsPart
<1>4. s \in Text /\ Len(s) = n + m /\ (\A i \in 1 .. n : s[i] = v[i]) /\ \A i \in 1 .. m : s[n + i] = q[i]
  <2>1. Joins(s, v, n, q, m)
    BY <1>1, <1>2, <1>3, Joined
  <2> QED
    BY <2>1 DEF Joins
<1>5. PICK k \in Nat : n <= k /\ k = Len(w) /\ (\A i \in 1 .. n : v[i] = w[i]) /\ (n = k => v = w)
  BY <1>2, PrefixElements
<1>6. PICK i \in 1 .. n + m - 4 : SubSeq(s, i, i + 4) = FinalDot
  <2>1. EndOfData(s)
    BY <1>1
  <2>2. PICK h \in 1 .. Len(s) - 4 : SubSeq(s, h, h + 4) = FinalDot
    BY <2>1, Zenon DEF EndOfData
  <2>3. h \in 1 .. n + m - 4
    BY <1>4
  <2> QED
    BY <2>2, <2>3, Zenon
<1>7. s[i + 2] = 46 /\ s[i + 3] = CR /\ s[i + 4] = LF
  <2>1. i \in Nat \ {0} /\ i + 4 \in Nat /\ i + 4 <= Len(s) /\ i <= (i + 4) + 1
    BY <1>4
  <2>2. PICK c \in Nat : c = i + 4 /\ c <= Len(s) /\ i <= c + 1 /\ c + 1 - i = 5
    BY <2>1
  <2>3. \A l \in 1 .. 5 : FinalDot[l] = s[i + l - 1]
    <3>1. IsPart(SubSeq(s, i, c), s, i, c)
      BY <1>4, <2>1, <2>2, PartIs
    <3>2. IsPart(FinalDot, s, i, c)
      BY <1>6, <2>2, <3>1
    <3> QED
      BY <2>2, <3>2 DEF IsPart
  <2>4. FinalDot[3] = s[i + 3 - 1] /\ FinalDot[4] = s[i + 4 - 1] /\ FinalDot[5] = s[i + 5 - 1]
    BY <2>3
  <2>5. FinalDot[3] = 46 /\ FinalDot[4] = CR /\ FinalDot[5] = LF
    BY DEF FinalDot, CRLF, CR, LF
  <2>6. i + 3 - 1 = i + 2 /\ i + 4 - 1 = i + 3 /\ i + 5 - 1 = i + 4
    BY <2>1
  <2> QED
    BY <2>4, <2>5, <2>6, Zenon
<1>8. i + 2 \in 1 .. n
  <2> SUFFICES ASSUME i + 2 \notin 1 .. n PROVE FALSE
    OBVIOUS
  <2>1. PICK l \in 1 .. m : i + 2 = n + l
    <3>1. i + 2 \in n + 1 .. n + m
      OBVIOUS
    <3> QED
      BY <3>1, Behind
  <2>2. a + l - 1 \in 1 .. 6
    BY <1>2
  <2>3. Quit[a + l - 1] = 46
    <3>1. s[n + l] = 46 /\ s[n + l] = q[l]
      BY <1>4, <1>7, <2>1
    <3> QED
      BY <1>3, <3>1
  <2> QED
    BY <2>2, <2>3, QuitParts
<1>9. i + 2 = k - 2
  <2>1. i + 2 \in 1 .. Len(w) /\ w[i + 2] = 46
    BY <1>4, <1>5, <1>7, <1>8
  <2> QED
    BY <1>5, <2>1 DEF LastDot
<1>10. ASSUME n < k, a = 1 PROVE FALSE
  <2>1. i + 2 = k - 2 /\ i + 2 <= n /\ i + 4 <= n + m
    BY <1>8, <1>9
  <2>2. 1 \in 1 .. m /\ (n + 1 = i + 3 \/ n + 1 = i + 4)
    BY <1>10, <2>1
  <2>3. s[n + 1] = 81
    <3>1. s[n + 1] = q[1] /\ q[1] = Quit[a + 1 - 1]
      BY <1>3, <1>4, <2>2
    <3> QED
      BY <1>10, <3>1, QuitParts
  <2> QED
    BY <1>7, <2>2, <2>3 DEF CR, LF
<1>11. CASE n = k
  BY <1>5, <1>11
<1> QED
  BY <1>5, <1>10, <1>11

(* The inductive invariant behind the next theorem: what has been composed *)
(* is whole lines that decode to the files sent so far and what has been   *)
(* read of the one that is open; and what follows a failure behind the     *)
(* final dot is a message with all of them and some of QUIT.               *)
THEOREM TextsDecode == Spec => []WholeInv
<1>1. Init => WholeInv
  BY WholeInit
<1>2. Inv /\ ReplyInv /\ WholeInv /\ [Next]_vars => WholeInv'
  BY WholeNext, WireAssumption, DataAssumption
<1> QED
  BY <1>1, <1>2, Invariance, RepliesHeard, PTL DEF Spec

(* A peer that sees the end of a message has every attachment in it byte   *)
(* for byte: the lines of base64 behind the head of each part decode to    *)
(* the file, for every file, every length of line and of buffer, every way *)
(* in which the socket or TLS cuts the blocks, and every failure.  Only    *)
(* the wait for the answer can still go wrong.                             *)
THEOREM MailsArriveWhole == Spec => []WholeOrNothing
<1>1. Inv /\ ReplyInv /\ WholeInv /\ EndIsTheEnd => WholeOrNothing
  <2> SUFFICES ASSUME Inv, ReplyInv, WholeInv, EndOfData(sent),
                      failed_at \in {"nowhere", "answer", "answered"}
               PROVE  Gives(LinesOf(sent), message.files)
    BY FilesGiven DEF EndIsTheEnd, WholeOrNothing
  <2>1. CASE failed_at = "nowhere"
    <3>1. pc \in AfterDot /\ sent = given
      BY <2>1, EndSeen DEF Inv, WireInv, ReplyInv
    <3>2. ShutText(Composed, message.files)
      BY <2>1, <3>1 DEF WholeInv, TextInv
    <3>3. Composed = sent
      BY <3>1 DEF Composed, AfterDot
    <3> QED
      BY <3>2, <3>3 DEF ShutText
  <2>2. CASE failed_at \in {"answer", "answered"}
    <3>1. PICK w \in Text : ShutText(w, message.files) /\ LastDot(w) /\ SentSome(w)
      BY <2>2 DEF WholeInv, AfterInv, Goodbye
    <3>2. PICK a \in 1 .. 7, b \in 0 .. 6 : a <= b + 1 /\ Follows(w, a, b)
      BY <3>1 DEF SentSome
    <3>3. PICK v \in Text : IsPrefix(v, w) /\ (a = 1 \/ v = w) /\ sent = v \o SubSeq(Quit, a, b)
      BY <3>2 DEF Follows
    <3>4. EndOfData(v \o SubSeq(Quit, a, b))
      BY <3>3
    <3>5. v = w
      BY <3>1, <3>2, <3>3, <3>4, EndBehind
    <3>6. Gives(LinesOf(w \o SubSeq(Quit, a, b)), message.files)
      BY <3>1, <3>2, QuitBehind
    <3> QED
      BY <3>3, <3>5, <3>6
  <2> QED
    BY <2>1, <2>2
<1> QED
  BY <1>1, Invariance, RepliesHeard, TextsDecode, NothingFailsBehindTheEnd, PTL
===============================================================================
