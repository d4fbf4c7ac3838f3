------------------------- MODULE RemoteFileProofs -------------------------
(***************************************************************************)
(* Theorems about the files replaced on the bootstrap (RemoteFile) and the *)
(* logins of ssh.py that carry them (Login), for any contents of any       *)
(* length and any number of shells.                                        *)
(***************************************************************************)
EXTENDS RemoteFile, TLAPS, FiniteSetTheorems, SequenceTheorems

----------------------------------------------------------------------------
(* The login.                                                              *)

\* No ssh without a call or after its answer, nothing in a pty that is not
\* there, and only a login asks.
CallShape ==
  /\ call = "none" => answer = "none"
  /\ call = "none" \/ answer # "none" => ssh = "none"
  /\ ssh = "none" \/ call = "key" => typed = 0 /\ tty = <<>> /\ tail = <<>> /\ ~authed
  /\ ssh \in {"asks", "asks_again"} => call = "login"

PtyFits ==
  /\ ssh \in {"asks", "asks_again", "denied"} => Len(tty) <= 1
  /\ ssh = "runs" => Len(tty) <= 2
  /\ Len(tty) <= 3

\* ssh reports a refusal of the node only.
Refused == ssh = "denied" => IF call = "login" THEN ~right ELSE ~keyed

\* Unless it was seen, the sentinel is the first that is read, the piece that
\* was carried over included.
SentinelFirst ==
  \/ /\ tail = <<>>
     /\ \/ tty = <<>>
        \/ Len(tty) >= 1 /\ tty[1] = "mark"
        \/ Len(tty) >= 2 /\ tty[1] = "mark_1" /\ tty[2] = "mark_2"
  \/ tail = <<"mark_1">> /\ Len(tty) >= 1 /\ tty[1] = "mark_2"

\* How far the dialogue is: the prompt before the password, and after a
\* password that is right the sentinel before any output.
DialogueShape ==
  call = "login" =>
    /\ typed = 0 => /\ ssh \in {"none", "asks", "lost"} /\ tail = <<>> /\ ~authed
                    /\ tty # <<>> => Len(tty) = 1 /\ tty[1] = "prompt"
    /\ ssh = "asks" /\ typed = 1 => tty = <<>> /\ tail = <<>> /\ ~authed
    /\ ssh = "asks_again" => ~right
    /\ ssh = "runs" => right /\ typed = 1 /\ (~authed => tty # <<>>)
    /\ right /\ typed = 1 /\ ~authed => SentinelFirst

LoginInv ==
  /\ LoginTypeOK /\ CallShape /\ PtyFits /\ Refused /\ DialogueShape
  /\ DeniedIsDenied

\* The command of a call ends, with or without output.
CommandEnds ==
  /\ ssh = "runs" /\ ssh' \in {"zero", "nonzero", "lost"}
  /\ \/ tty' = tty
     \/ call = "login" /\ tty' \in {Append(tty, "text"), Append(tty, "password_key")}
  /\ UNCHANGED <<node, call, typed, tail, authed, late, answer>>

\* What a step may do to the login.
LoginMoves ==
  \/ (call = "none" \/ Settled) /\ RunWithKey
  \/ Settled /\ RunWithPassword
  \/ Settled /\ call' = "none" /\ answer' = "none" /\ UNCHANGED <<node, ssh, pty>>
  \/ LoginStep \/ CommandEnds \/ UNCHANGED login

\* A read of n pieces splits what the pty holds.
LEMMA Split ==
  ASSUME LoginTypeOK, NEW n \in 1..Len(tty)
  PROVE  /\ SubSeq(tty, 1, n) \in Seq(Piece)
         /\ Len(SubSeq(tty, 1, n)) = n
         /\ \A i \in 1..n : SubSeq(tty, 1, n)[i] = tty[i]
         /\ SubSeq(tty, n + 1, Len(tty)) \in Seq(Piece)
         /\ Len(SubSeq(tty, n + 1, Len(tty))) = Len(tty) - n
         /\ \A i \in 1..Len(tty) - n : SubSeq(tty, n + 1, Len(tty))[i] = tty[n + i]
<1>1. tty \in Seq(Piece) /\ Len(tty) \in Nat /\ n \in Int /\ n + 1 \in Int /\ Len(tty) \in Int
  BY LenProperties DEF LoginTypeOK
<1>2. \A i \in 1..n : tty[i] \in Piece
  BY <1>1, ElementOfSeq
<1>3. \A i \in (n + 1)..Len(tty) : tty[i] \in Piece
  BY <1>1, ElementOfSeq
<1>4. /\ SubSeq(tty, 1, n) \in Seq(Piece)
      /\ Len(SubSeq(tty, 1, n)) = IF 1 <= n THEN n - 1 + 1 ELSE 0
      /\ \A i \in 1 .. (n - 1 + 1) : SubSeq(tty, 1, n)[i] = tty[1 + i - 1]
  BY <1>1, <1>2, SubSeqProperties
<1>5. /\ SubSeq(tty, n + 1, Len(tty)) \in Seq(Piece)
      /\ Len(SubSeq(tty, n + 1, Len(tty)))
           = IF n + 1 <= Len(tty) THEN Len(tty) - (n + 1) + 1 ELSE 0
      /\ \A i \in 1 .. (Len(tty) - (n + 1) + 1) :
           SubSeq(tty, n + 1, Len(tty))[i] = tty[n + 1 + i - 1]
  BY <1>1, <1>3, SubSeqProperties
<1> QED
  BY <1>1, <1>4, <1>5

\* What _sentinel_seen says of a read when nothing was carried over,
LEMMA SeenInRead ==
  ASSUME NEW data \in Seq(Piece), tail = <<>>
  PROVE  SentinelSeen(data) <=> SentinelInRead(data)
<1>1. tail \o data = data
  BY ConcatEmptySeq
<1> QED
  BY <1>1 DEF SentinelSeen, SentinelInRead

\* and when the first half of the sentinel was.
LEMMA SeenAcrossReads ==
  ASSUME NEW data \in Seq(Piece), tail = <<"mark_1">>, Len(data) >= 1, data[1] = "mark_2"
  PROVE  SentinelSeen(data)
<1> DEFINE hay == tail \o data
<1>1. Len(hay) = 1 + Len(data) /\ hay[1] = "mark_1" /\ hay[2] = "mark_2" /\ DOMAIN hay = 1..Len(hay)
  OBVIOUS
<1>2. Len(data) \in Nat
  OBVIOUS
<1>3. 1 \in DOMAIN hay /\ 1 < Len(hay)
  BY <1>1, <1>2
<1>4. hay[1] = "mark_1" /\ 1 < Len(hay) /\ hay[1 + 1] = "mark_2"
  BY <1>1, <1>3
<1> HIDE DEF hay
<1>5. \E i \in DOMAIN hay : hay[i] = "mark_1" /\ i < Len(hay) /\ hay[i + 1] = "mark_2"
  BY <1>3, <1>4
<1> QED
  BY <1>5 DEF SentinelSeen, hay

\* One read: the second prompt before the sentinel is a refusal, and one that
\* is not goes on to a dialogue of the same shape.
LEMMA ReadPtyKeeps ==
  ASSUME LoginInv, ReadPty
  PROVE  \/ Answers("denied") /\ ~right /\ call = "login"
         \/ /\ UNCHANGED <<node, call, ssh, late, answer>>
            /\ tty' \in Seq(Piece) /\ Len(tty') < Len(tty)
            /\ tail' \in {<<>>, <<"mark_1">>} /\ typed' \in 0..1 /\ authed' \in BOOLEAN
            /\ DialogueShape' /\ call = "login" /\ ssh # "none" /\ answer = "none"
<1> USE DEF LoginInv
<1>1. PICK n \in 1..Len(tty) :
        LET data  == SubSeq(tty, 1, n)
            asked == \E i \in DOMAIN data : data[i] \in Prompts
            seen  == authed \/ SentinelSeen(data) IN
        IF asked /\ ~seen /\ ~late /\ typed = 1
        THEN Answers("denied")
        ELSE /\ authed' = seen
             /\ tail' = IF ~seen /\ Last(data) = "mark_1" THEN <<"mark_1">> ELSE <<>>
             /\ typed' = IF asked /\ ~seen /\ ~late THEN 1 ELSE typed
             /\ tty' = SubSeq(tty, n + 1, Len(tty))
             /\ UNCHANGED <<node, call, ssh, late, answer>>
  BY DEF ReadPty
<1>2. call = "login" /\ ssh # "none" /\ answer = "none"
  BY DEF ReadPty, Dialogue, CallShape
<1> DEFINE data  == SubSeq(tty, 1, n)
           asked == \E i \in DOMAIN data : data[i] \in Prompts
           seen  == authed \/ SentinelSeen(data)
           rest  == SubSeq(tty, n + 1, Len(tty))
<1>3. /\ data \in Seq(Piece) /\ Len(data) = n /\ rest \in Seq(Piece)
      /\ Len(rest) = Len(tty) - n /\ DOMAIN data = 1..n
      /\ \A i \in 1..n : data[i] = tty[i]
      /\ \A i \in 1..Len(tty) - n : rest[i] = tty[n + i]
  BY Split, LenProperties
<1>4. Len(tty) \in Nat /\ n \in Nat /\ n >= 1 /\ n <= Len(tty)
  BY LenProperties DEF LoginTypeOK
<1>5. Last(data) = tty[n]
  BY <1>3, <1>4 DEF Last
<1>6. Len(tty) <= 3
  BY DEF PtyFits
<1>7. IF asked /\ ~seen /\ ~late /\ typed = 1
      THEN Answers("denied")
      ELSE /\ authed' = seen
           /\ tail' = IF ~seen /\ Last(data) = "mark_1" THEN <<"mark_1">> ELSE <<>>
           /\ typed' = IF asked /\ ~seen /\ ~late THEN 1 ELSE typed
           /\ tty' = rest
           /\ UNCHANGED <<node, call, ssh, late, answer>>
  BY <1>1
<1>8. asked <=> \E i \in 1..n : tty[i] \in Prompts
  BY <1>3
\* With a right password the sentinel is in this read, or its half is the
\* whole of it and the other half is next.
<1>9. ASSUME right, typed = 1, ~authed
      PROVE  \/ seen
             \/ /\ n = 1 /\ tty[1] = "mark_1" /\ Len(tty) >= 2 /\ tty[2] = "mark_2"
  <2>1. SentinelFirst
    BY <1>2, <1>9 DEF DialogueShape
  <2>2. CASE tail = <<"mark_1">> /\ Len(tty) >= 1 /\ tty[1] = "mark_2"
    <3>1. Len(data) >= 1 /\ data[1] = "mark_2" /\ data \in Seq(Piece)
      BY <2>2, <1>3, <1>4
    <3> HIDE DEF data
    <3>2. SentinelSeen(data)
      BY <2>2, <3>1, SeenAcrossReads
    <3> QED
      BY <3>2
  <2>3. CASE tail = <<>> /\ Len(tty) >= 1 /\ tty[1] = "mark"
    <3>1. 1 \in DOMAIN data /\ data[1] = "mark"
      BY <2>3, <1>3, <1>4
    <3>2. SentinelInRead(data)
      BY <3>1 DEF SentinelInRead
    <3> QED
      BY <2>3, <3>2, <1>3, SeenInRead
  <2>4. CASE tail = <<>> /\ Len(tty) >= 2 /\ tty[1] = "mark_1" /\ tty[2] = "mark_2"
    <3>1. CASE n = 1
      BY <2>4, <3>1
    <3>2. CASE n >= 2
      <4>1. 1 \in DOMAIN data /\ data[1] = "mark_1" /\ 1 < Len(data) /\ data[1 + 1] = "mark_2"
        BY <2>4, <3>2, <1>3, <1>4
      <4>2. SentinelInRead(data)
        BY <4>1 DEF SentinelInRead
      <4> QED
        BY <2>4, <4>2, <1>3, SeenInRead
    <3> QED
      BY <3>1, <3>2, <1>4
  <2>5. CASE tty = <<>>
    BY <2>5, <1>4, EmptySeq
  <2> QED
    BY <2>1, <2>2, <2>3, <2>4, <2>5 DEF SentinelFirst
<1>10. seen \in BOOLEAN /\ asked \in BOOLEAN
  BY DEF LoginTypeOK, SentinelSeen
<1> HIDE DEF data, asked, seen, rest
<1>11. CASE asked /\ ~seen /\ ~late /\ typed = 1
  <2>1. Answers("denied")
    BY <1>7, <1>11
  <2>2. ~authed
    BY <1>11 DEF seen
  <2>3. ~right
    BY <1>8, <1>9, <1>11, <2>2 DEF Prompts, LoginTypeOK
  <2> QED
    BY <2>1, <2>3, <1>2
<1>12. CASE ~(asked /\ ~seen /\ ~late /\ typed = 1)
  <2>1. /\ authed' = seen
        /\ tail' = IF ~seen /\ Last(data) = "mark_1" THEN <<"mark_1">> ELSE <<>>
        /\ typed' = IF asked /\ ~seen /\ ~late THEN 1 ELSE typed
        /\ tty' = rest
        /\ UNCHANGED <<node, call, ssh, late, answer>>
    BY <1>7, <1>12
  <2>2. /\ tty' \in Seq(Piece) /\ Len(tty') < Len(tty) /\ Len(tty') \in Nat
        /\ tail' \in {<<>>, <<"mark_1">>} /\ typed' \in 0..1 /\ authed' \in BOOLEAN
    BY <2>1, <1>3, <1>4, <1>10, LenProperties DEF LoginTypeOK
  <2>3. DialogueShape'
    <3> USE DEF node
    <3>1. CASE typed = 0
      <4>1. /\ ssh \in {"none", "asks", "lost"} /\ tail = <<>> /\ ~authed
            /\ Len(tty) = 1 /\ tty[1] = "prompt" /\ n = 1
        <5>1. tty # <<>>
          BY <1>4, EmptySeq
        <5> QED
          BY <3>1, <1>2, <1>4, <5>1 DEF DialogueShape
      <4>2. Last(data) # "mark_1" /\ tail' = <<>>
        BY <4>1, <1>5, <2>1
      <4>3. ~SentinelInRead(data)
        BY <4>1, <1>3 DEF SentinelInRead
      <4>4. ~seen
        BY <4>1, <4>3, <1>3, SeenInRead DEF seen
      <4>5. tty' = <<>> /\ ~authed'
        BY <4>1, <4>4, <1>3, <2>1, EmptySeq
      <4> QED
        BY <4>1, <4>2, <4>5, <2>1, <2>2, <1>2 DEF DialogueShape, SentinelFirst
    <3>2. CASE typed = 1
      <4>1. typed' = 1 /\ ssh' = ssh /\ right' = right
        BY <3>2, <2>1
      <4>2. ssh # "asks"
        BY <3>2, <1>2, <1>4, EmptySeq DEF DialogueShape
      <4>3. ASSUME right, ~authed'
            PROVE  tty' # <<>> /\ SentinelFirst'
        <5>1. ~seen /\ ~authed
          BY <4>3, <2>1, <1>10 DEF seen
        <5>2. n = 1 /\ tty[1] = "mark_1" /\ Len(tty) >= 2 /\ tty[2] = "mark_2"
          BY <5>1, <4>3, <3>2, <1>9
        <5>3. tail' = <<"mark_1">>
          BY <5>1, <5>2, <2>1, <1>5
        <5>4. Len(tty') >= 1 /\ tty'[1] = "mark_2"
          BY <5>2, <2>1, <1>3, <1>4
        <5> QED
          BY <5>3, <5>4, EmptySeq DEF SentinelFirst
      <4> QED
        BY <4>1, <4>2, <4>3, <1>2 DEF DialogueShape
    <3> QED
      BY <3>1, <3>2 DEF LoginTypeOK
  <2> QED
    BY <2>1, <2>2, <2>3, <1>2
<1> QED
  BY <1>11, <1>12

\* An answer ends the call; a refusal is one of the node.
LEMMA AnswersKeeps ==
  ASSUME LoginInv, call # "none", NEW a \in {"ok", "failed", "denied"}, Answers(a),
         a = "denied" => IF call = "login" THEN ~right ELSE ~keyed
  PROVE  LoginInv'
<1>1. LoginTypeOK'
  <2>1. tty' \in Seq(Piece) /\ Len(tty') = 0
    BY EmptySeq DEF Answers
  <2>2. /\ UNCHANGED <<keyed, right, call>> /\ ssh' = "none" /\ typed' = 0
        /\ tail' = <<>> /\ authed' = FALSE /\ late' = FALSE /\ answer' = a
    BY DEF Answers, node
  <2>3. Len(tty') <= Unread
    BY <2>1, LoginAssumption
  <2>4. keyed \in BOOLEAN /\ right \in BOOLEAN /\ call \in {"none", "key", "login"}
    BY DEF LoginInv, LoginTypeOK
  <2>5. tail' \in {<<>>, <<"mark_1">>} /\ typed' \in 0..1
    BY <2>2
  <2>6. keyed' \in BOOLEAN /\ right' \in BOOLEAN /\ authed' \in BOOLEAN /\ late' \in BOOLEAN
    BY <2>2, <2>4, Zenon
  <2>7. /\ call' \in {"none", "key", "login"}
        /\ ssh' \in {"none", "asks", "asks_again", "runs", "zero", "nonzero", "denied", "lost"}
        /\ answer' \in {"none", "ok", "failed", "denied"}
    BY <2>2, <2>4
  <2> QED
    BY <2>1, <2>3, <2>5, <2>6, <2>7, Zenon DEF LoginTypeOK
<1>2. CallShape' /\ Refused' /\ DeniedIsDenied'
  BY DEF Answers, LoginInv, CallShape, Refused, DeniedIsDenied, node
<1>3. PtyFits'
  <2>1. Len(tty') = 0
    BY EmptySeq DEF Answers
  <2> QED
    BY <2>1 DEF PtyFits
<1>4. DialogueShape'
  BY DEF Answers, DialogueShape
<1> QED
  BY <1>1, <1>2, <1>3, <1>4 DEF LoginInv

\* What every step does to the login keeps its invariant.
LEMMA LoginInvNext ==
  ASSUME LoginInv, LoginMoves
  PROVE  LoginInv'
<1> USE DEF LoginInv
<1>0. Len(tty) \in Nat /\ Unread \in Nat /\ Unread >= 3
  BY LenProperties, LoginAssumption, RemoteFileAssumption DEF LoginTypeOK
<1>1. CASE (call = "none" \/ Settled) /\ RunWithKey
  <2>1. typed = 0 /\ tty = <<>> /\ tail = <<>> /\ ~authed
    BY <1>1 DEF CallShape, Settled
  <2>2. Len(tty) = 0
    BY <2>1, EmptySeq
  <2>3. LoginTypeOK'
    BY <1>1 DEF RunWithKey, LoginTypeOK, node, pty
  <2>4. CallShape' /\ Refused' /\ DialogueShape' /\ DeniedIsDenied'
    BY <1>1, <2>1 DEF RunWithKey, CallShape, Refused, DialogueShape,
       DeniedIsDenied, node, pty
  <2>5. PtyFits'
    BY <1>1, <2>2 DEF RunWithKey, PtyFits, pty
  <2> QED
    BY <2>3, <2>4, <2>5
<1>2. CASE Settled /\ RunWithPassword
  <2>1. tty' = <<"prompt">> /\ tty' \in Seq(Piece) /\ Len(tty') = 1 /\ tty'[1] = "prompt"
    BY <1>2 DEF RunWithPassword, Piece
  <2>3. LoginTypeOK'
    <3>1. /\ UNCHANGED <<keyed, right>> /\ call' = "login" /\ ssh' = "asks" /\ typed' = 0
          /\ tail' = <<>> /\ authed' = FALSE /\ late' = FALSE /\ answer' = "none"
      BY <1>2 DEF RunWithPassword, node
    <3>2. Len(tty') <= Unread
      BY <1>0, <2>1
    <3>3. keyed \in BOOLEAN /\ right \in BOOLEAN
      BY DEF LoginTypeOK
    <3>4. tail' \in {<<>>, <<"mark_1">>} /\ typed' \in 0..1
      BY <3>1
    <3>5. keyed' \in BOOLEAN /\ right' \in BOOLEAN /\ authed' \in BOOLEAN /\ late' \in BOOLEAN
      BY <3>1, <3>3, Zenon
    <3>6. /\ call' \in {"none", "key", "login"}
          /\ ssh' \in {"none", "asks", "asks_again", "runs", "zero", "nonzero", "denied", "lost"}
          /\ answer' \in {"none", "ok", "failed", "denied"}
      BY <3>1
    <3> QED
      BY <2>1, <3>2, <3>4, <3>5, <3>6, Zenon DEF LoginTypeOK
  <2>4. CallShape' /\ Refused' /\ DialogueShape' /\ DeniedIsDenied'
    BY <1>2, <2>1 DEF RunWithPassword, CallShape, Refused, DialogueShape,
       DeniedIsDenied, node
  <2>5. PtyFits'
    BY <1>2, <2>1 DEF RunWithPassword, PtyFits
  <2> QED
    BY <2>3, <2>4, <2>5
<1>3. CASE Settled /\ call' = "none" /\ answer' = "none" /\ UNCHANGED <<node, ssh, pty>>
  <2>1. ssh = "none" /\ typed = 0 /\ tty = <<>> /\ tail = <<>> /\ ~authed
    BY <1>3 DEF CallShape, Settled
  <2>2. Len(tty) = 0
    BY <2>1, EmptySeq
  <2>3. LoginTypeOK' /\ CallShape' /\ Refused' /\ DialogueShape' /\ DeniedIsDenied'
    BY <1>3, <2>1 DEF LoginTypeOK, CallShape, Refused, DialogueShape,
       DeniedIsDenied, node, pty
  <2>5. PtyFits'
    BY <1>3, <2>1, <2>2 DEF PtyFits, pty
  <2> QED
    BY <2>3, <2>5
<1>4. CASE KeyReturns
  <2>1. Status(ssh) \in {"ok", "failed", "denied"} /\ (Status(ssh) = "denied" => ~keyed)
    BY <1>4 DEF KeyReturns, Status, Refused, Over
  <2> QED
    BY <1>4, <2>1, AnswersKeeps DEF KeyReturns
<1>5. CASE KeyTimesOut
  BY <1>5, AnswersKeeps DEF KeyTimesOut
<1>6. CASE NodeChecks
  <2>1. /\ call = "login" /\ ssh = "asks" /\ typed = 1 /\ tty = <<>> /\ tail = <<>>
        /\ ~authed /\ answer = "none" /\ Len(tty) = 0
    BY <1>6, EmptySeq DEF NodeChecks, Dialogue, DialogueShape, CallShape
  <2>2. UNCHANGED <<node, call, typed, tail, authed, late, answer>>
    BY <1>6 DEF NodeChecks
  <2>3. CASE right /\ ssh' = "runs" /\ tty' = tty \o <<"mark">>
    <3>1. tty' = <<"mark">>
      BY <2>1, <2>3
    <3>2. tty' \in Seq(Piece) /\ Len(tty') = 1 /\ tty'[1] = "mark" /\ tty' # <<>>
      BY <3>1, EmptySeq DEF Piece
    <3> QED
      BY <1>0, <2>1, <2>2, <2>3, <3>2 DEF LoginTypeOK, CallShape, PtyFits,
         Refused, DialogueShape, SentinelFirst, DeniedIsDenied, node
  <2>4. CASE right /\ ssh' = "runs" /\ tty' = tty \o <<"mark_1", "mark_2">>
    <3>1. tty' = <<"mark_1", "mark_2">>
      BY <2>1, <2>4
    <3>2. tty' \in Seq(Piece) /\ Len(tty') = 2 /\ tty'[1] = "mark_1" /\ tty'[2] = "mark_2"
      BY <3>1 DEF Piece
    <3>3. tty' # <<>>
      BY <3>2, EmptySeq
    <3> QED
      BY <1>0, <2>1, <2>2, <2>4, <3>2, <3>3 DEF LoginTypeOK, CallShape,
         PtyFits, Refused, DialogueShape, SentinelFirst, DeniedIsDenied, node
  <2>5. CASE ~right /\ ssh' \in {"asks_again", "denied"}
             /\ tty' \in {Append(tty, "prompt"), Append(tty, "text")}
    <3>1. tty' \in {<<"prompt">>, <<"text">>}
      BY <2>1, <2>5
    <3>2. tty' \in Seq(Piece) /\ Len(tty') = 1
      <4>1. <<"prompt">> \in Seq(Piece) /\ Len(<<"prompt">>) = 1
        BY DEF Piece
      <4>2. <<"text">> \in Seq(Piece) /\ Len(<<"text">>) = 1
        BY DEF Piece
      <4> QED
        BY <3>1, <4>1, <4>2
    <3> QED
      BY <1>0, <2>1, <2>2, <2>5, <3>2 DEF LoginTypeOK, CallShape, PtyFits,
         Refused, DialogueShape, DeniedIsDenied, node
  <2> QED
    BY <1>6, <2>3, <2>4, <2>5 DEF NodeChecks
<1>7. CASE ReadPty
  <2>1. CASE Answers("denied") /\ ~right /\ call = "login"
    BY <2>1, AnswersKeeps
  <2>2. CASE /\ UNCHANGED <<node, call, ssh, late, answer>>
             /\ tty' \in Seq(Piece) /\ Len(tty') < Len(tty)
             /\ tail' \in {<<>>, <<"mark_1">>} /\ typed' \in 0..1 /\ authed' \in BOOLEAN
             /\ DialogueShape' /\ call = "login" /\ ssh # "none" /\ answer = "none"
    <3>1. Len(tty') \in Nat /\ Len(tty') < Len(tty)
      BY <2>2, LenProperties
    <3>2. LoginTypeOK'
      BY <1>0, <2>2, <3>1 DEF LoginTypeOK, node
    <3>3. PtyFits'
      BY <1>0, <2>2, <3>1 DEF PtyFits
    <3>4. CallShape' /\ Refused' /\ DeniedIsDenied'
      BY <2>2 DEF CallShape, Refused, DeniedIsDenied, node
    <3> QED
      BY <2>2, <3>2, <3>3, <3>4
  <2> QED
    BY <1>7, <2>1, <2>2, ReadPtyKeeps
<1>8. CASE WindowCloses
  <2>1. /\ late' = TRUE
        /\ UNCHANGED <<node, call, ssh, typed, tty, tail, authed, answer>>
    BY <1>8 DEF WindowCloses
  <2> QED
    BY <2>1 DEF LoginTypeOK, CallShape, PtyFits, Refused, DialogueShape,
       SentinelFirst, DeniedIsDenied, node
<1>9. CASE IdleTooLong
  BY <1>9, AnswersKeeps DEF IdleTooLong, Dialogue
<1>10. CASE ChildExits
  <2>1. Status(ssh) \in {"ok", "failed", "denied"} /\ (Status(ssh) = "denied" => ~right)
    BY <1>10 DEF ChildExits, Dialogue, Status, Refused, Over
  <2> QED
    BY <1>10, <2>1, AnswersKeeps DEF ChildExits, Dialogue
<1>11. CASE Drop
  <2>1. /\ call # "none" /\ ssh \in {"asks", "asks_again", "runs"} /\ ssh' = "lost"
        /\ UNCHANGED <<node, call, typed, tty, tail, authed, late, answer>>
    BY <1>11 DEF Drop, pty
  <2>2. LoginTypeOK' /\ CallShape' /\ Refused' /\ DeniedIsDenied'
    BY <2>1 DEF LoginTypeOK, CallShape, Refused, DeniedIsDenied, node
  <2>3. PtyFits'
    BY <2>1, <1>0 DEF PtyFits
  <2>4. DialogueShape'
    BY <2>1 DEF DialogueShape, SentinelFirst, CallShape, LoginTypeOK, node
  <2> QED
    BY <2>2, <2>3, <2>4
<1>12. CASE CommandEnds
  <2>1. /\ ssh = "runs" /\ ssh' \in {"zero", "nonzero", "lost"}
        /\ UNCHANGED <<node, call, typed, tail, authed, late, answer>>
    BY <1>12 DEF CommandEnds
  <2>2. CASE tty' = tty
    BY <1>0, <2>1, <2>2 DEF LoginTypeOK, CallShape, PtyFits, Refused,
       DialogueShape, SentinelFirst, DeniedIsDenied, node
  <2>3. ASSUME call = "login", NEW x \in {"text", "password_key"}, tty' = Append(tty, x)
        PROVE  LoginInv'
    <3>1. x \in Piece
      BY DEF Piece
    <3>2. /\ tty' \in Seq(Piece) /\ Len(tty') = Len(tty) + 1
          /\ \A i \in 1..Len(tty) : tty'[i] = tty[i]
      BY <2>3, <3>1, AppendProperties DEF LoginTypeOK
    <3>3. LoginTypeOK' /\ PtyFits'
      BY <1>0, <2>1, <3>2 DEF LoginTypeOK, PtyFits, node
    <3>4. CallShape' /\ Refused' /\ DeniedIsDenied'
      BY <2>1, <2>3 DEF CallShape, Refused, DeniedIsDenied, node
    <3>5. DialogueShape'
      <4>1. right /\ typed = 1 /\ (~authed => tty # <<>>) /\ (~authed => SentinelFirst)
        BY <2>1, <2>3 DEF DialogueShape
      <4>2. ~authed => SentinelFirst'
        BY <1>0, <2>1, <3>2, <4>1 DEF SentinelFirst
      <4> QED
        BY <2>1, <2>3, <4>1, <4>2 DEF DialogueShape, node
    <3> QED
      BY <3>3, <3>4, <3>5
  <2> QED
    BY <1>12, <2>2, <2>3 DEF CommandEnds
<1>13. CASE UNCHANGED login
  BY <1>13 DEF login, node, pty, LoginTypeOK, CallShape, PtyFits, Refused,
     DialogueShape, SentinelFirst, DeniedIsDenied
<1> QED
  BY <1>1, <1>2, <1>3, <1>4, <1>5, <1>6, <1>7, <1>8, <1>9, <1>10, <1>11,
     <1>12, <1>13 DEF LoginMoves, LoginStep

----------------------------------------------------------------------------
(* The operations and the shells, lingering ones included.                 *)

Writing == {"stdin", "argv"}

\* A call is made for an operation, and only a write has a content.
Calling ==
  /\ call = "none" <=> doing = "none"
  /\ IF doing \in Writing THEN todo \in Contents ELSE todo = NoContent

\* Only a write gets past its start, with the content it was given.
Shaped(sh) ==
  /\ sh.pc = "none" => sh = Idle
  /\ sh.pc = "start" => sh.off = 0
  /\ sh.pc \in {"write", "check", "move", "clean"} => sh.op \in Writing
  /\ sh.op \in Writing => sh.what \in Contents
  /\ sh.pc = "write" => sh.fd \in Inode

ShellsShaped == \A s \in Shell : Shaped(shell[s])

Inv == TypeOK /\ LoginInv /\ Calling /\ ShellsShaped

\* What a step of RemoteFile does to the login.
LEMMA NextMoves ==
  ASSUME Calling, Next
  PROVE  LoginMoves
<1>1. CASE BeginRead
  BY <1>1 DEF BeginRead, Calling, LoginMoves
<1>2. ASSUME NEW c \in Contents, BeginWrite(c) PROVE LoginMoves
  BY <1>2 DEF BeginWrite, Calling, LoginMoves
<1>3. CASE FallBack
  BY <1>3 DEF FallBack, LoginMoves
<1>4. CASE ToArgv
  BY <1>4 DEF ToArgv, LoginMoves
<1>5. CASE Return
  BY <1>5 DEF Return, Finishes, LoginMoves
<1>6. CASE Raise
  BY <1>6 DEF Raise, Finishes, LoginMoves
<1>7. CASE Transport
  BY <1>7 DEF Transport, LoginMoves
<1>8. ASSUME NEW s \in Shell, ShellStep(s) PROVE LoginMoves
  <2>1. CASE Cats(s)
    <3>1. ShellEnds(s, "zero")
      BY <2>1 DEF Cats
    <3>2. CASE Linked(s)
      <4>1. ssh = "runs" /\ ssh' = "zero"
        BY <3>1, <3>2 DEF ShellEnds, Linked
      <4>2. \/ tty' = tty
            \/ call = "login" /\ tty' \in {Append(tty, "text"), Append(tty, "password_key")}
        BY <2>1, <3>2 DEF Cats
      <4> QED
        BY <3>1, <4>1, <4>2 DEF ShellEnds, CommandEnds, LoginMoves
    <3>3. CASE ~Linked(s)
      BY <2>1, <3>1, <3>3 DEF Cats, ShellEnds, LoginMoves, login, pty
    <3> QED
      BY <3>2, <3>3
  <2>2. ASSUME NEW how \in {"zero", "nonzero", "lost"}, ShellEnds(s, how), UNCHANGED tty
        PROVE  LoginMoves
    <3>1. CASE Linked(s)
      BY <2>2, <3>1 DEF ShellEnds, Linked, CommandEnds, LoginMoves
    <3>2. CASE ~Linked(s)
      BY <2>2, <3>2 DEF ShellEnds, LoginMoves, login, pty
    <3> QED
      BY <3>1, <3>2
  <2>3. CASE Fails(s) \/ Cleans(s) \/ Dies(s)
    BY <2>2, <2>3 DEF Fails, Cleans, Dies
  <2>4. CASE Moves(s)
    BY <2>2, <2>4 DEF Moves, Goes, LoginMoves
  <2>5. CASE Opens(s) \/ Writes(s) \/ Closes(s) \/ WriteFails(s) \/ Checks(s)
    BY <2>5 DEF Opens, Writes, Closes, WriteFails, Checks, Goes, LoginMoves
  <2> QED
    BY <1>8, <2>1, <2>3, <2>4, <2>5 DEF ShellStep
<1> QED
  BY <1>1, <1>2, <1>3, <1>4, <1>5, <1>6, <1>7, <1>8 DEF Next

\* The operation, its call and its content go together.
LEMMA CallingNext ==
  ASSUME Calling, TypeOK, Next
  PROVE  /\ Calling'
         /\ doing' \in {"none", "read", "stdin", "argv"}
         /\ todo' \in Contents \cup {NoContent}
         /\ said' \in {"none", "ok", "raised"}
<1> USE DEF Writing
<1>1. CASE BeginRead
  BY <1>1 DEF BeginRead, RunWithKey, Calling, TypeOK
<1>2. ASSUME NEW c \in Contents, BeginWrite(c) PROVE Calling'
  BY <1>2 DEF BeginWrite, RunWithKey, Calling
<1>3. ASSUME NEW c \in Contents, BeginWrite(c)
      PROVE  doing' = "stdin" /\ todo' = c /\ said' = "none"
  BY <1>3 DEF BeginWrite
<1>4. CASE FallBack
  BY <1>4 DEF FallBack, RunWithPassword, Calling, TypeOK, caller, Settled
<1>5. CASE ToArgv
  BY <1>5 DEF ToArgv, RunWithKey, Calling, TypeOK
<1>6. CASE Return \/ Raise
  BY <1>6 DEF Return, Raise, Finishes, Calling, TypeOK
<1>7. CASE Transport
  <2>1. UNCHANGED <<doing, todo, said>>
    BY <1>7 DEF Transport, caller
  <2>2. UNCHANGED call
    BY <1>7 DEF Transport, LoginStep, KeyReturns, KeyTimesOut, NodeChecks,
       ReadPty, WindowCloses, IdleTooLong, ChildExits, Drop, Answers
  <2> QED
    BY <2>1, <2>2 DEF Calling, TypeOK
<1>8. ASSUME NEW s \in Shell, ShellStep(s) PROVE UNCHANGED <<call, doing, todo, said>>
  BY <1>8 DEF ShellStep, Cats, Fails, Opens, Writes, Closes, WriteFails,
     Checks, Moves, Cleans, Dies, Goes, ShellEnds, caller, login
<1>9. CASE \E s \in Shell : ShellStep(s)
  BY <1>8, <1>9 DEF Calling, TypeOK
<1> QED
  BY <1>1, <1>2, <1>3, <1>4, <1>5, <1>6, <1>7, <1>9 DEF Next

\* What cat prints is a content or a broken one.
LEMMA HeldTypes == Held \in Contents \cup {Broken}
  BY DEF Held

\* What is heard and returned is what a read printed, or nothing.
LEMMA HeardNext ==
  ASSUME TypeOK, Next
  PROVE  /\ heard' \in Contents \cup {NoContent, Broken}
         /\ got' \in Contents \cup {NoContent, Broken}
<1>1. heard' \in {heard, NoContent, Held}
  BY DEF Next, BeginRead, BeginWrite, FallBack, ToArgv, Return, Raise,
     Finishes, Transport, ShellStep, Cats, Fails, Opens, Writes, Closes,
     WriteFails, Checks, Moves, Cleans, Dies, Goes
<1>2. got' \in {got, heard}
  BY DEF Next, BeginRead, BeginWrite, FallBack, ToArgv, Return, Raise,
     Finishes, Transport, ShellStep, Cats, Fails, Opens, Writes, Closes,
     WriteFails, Checks, Moves, Cleans, Dies, Goes, ShellEnds, caller
<1> QED
  BY <1>1, <1>2, HeldTypes DEF TypeOK

\* A set of naturals with an element has a least one.
LEMMA LeastOfNaturals ==
  ASSUME NEW S \in SUBSET Nat, S # {}
  PROVE  Min(S) \in S
<1> DEFINE R == OpToRel(<, Nat)
<1>1. PICK x \in S : \A y \in S : ~(<<y, x>> \in R)
  BY NatLessThanWellFounded, WFMin
<1>2. ASSUME NEW y \in S, y < x PROVE FALSE
  <2>1. <<y, x>> \in Nat \X Nat /\ <<y, x>>[1] < <<y, x>>[2]
    BY <1>2
  <2>2. <<y, x>> \in R
    BY <2>1, Zenon DEF OpToRel
  <2> QED
    BY <1>1, <2>2
<1>3. \A y \in S : x <= y
  BY <1>2
<1> QED
  BY <1>3 DEF Min

\* The larger of two.
LEMMA MaxOfTwo ==
  ASSUME NEW m \in Nat, NEW n \in Nat
  PROVE  Max({m, n}) = IF m >= n THEN m ELSE n
<1>1. \E x \in {m, n} : \A y \in {m, n} : x >= y
  BY SMT
<1>2. Max({m, n}) \in {m, n} /\ \A y \in {m, n} : Max({m, n}) >= y
  BY <1>1 DEF Max
<1> QED
  BY <1>2

\* A shell that opens the temp file finds an inode for it: each shell holds at
\* most one.
LEMMA FreshInode ==
  ASSUME dest \in Inode, shell \in [Shell -> ShellType], tmp = NoInode
  PROVE  Min(Inode \ ({dest, tmp} \cup {shell[r].fd : r \in Shell})) \in Inode \ {dest}
<1> DEFINE used == {dest, tmp} \cup {shell[r].fd : r \in Shell}
<1>1. Shells \in Nat /\ Inode \subseteq Nat
  BY RemoteFileAssumption DEF Inode
<1>2. Inode \ used # {}
  <2> SUFFICES ASSUME Inode \subseteq used PROVE FALSE
    OBVIOUS
  <2> DEFINE holder == [i \in Inode |-> IF i = dest THEN 0 ELSE CHOOSE r \in Shell : shell[r].fd = i]
  <2>1. \A i \in Inode : i # dest => \E r \in Shell : shell[r].fd = i
    BY <1>1 DEF Inode, NoInode
  <2>2. \A i \in Inode : i # dest => holder[i] \in Shell /\ shell[holder[i]].fd = i
    BY <2>1
  <2>3. holder \in [Inode -> 0..Shells]
    BY <1>1, <2>2 DEF Shell
  <2>4. IsFiniteSet(Inode) /\ Cardinality(Inode) = Shells + 2
    BY <1>1, FS_Interval DEF Inode
  <2>5. IsFiniteSet(0..Shells) /\ Cardinality(0..Shells) = Shells + 1
    BY <1>1, FS_Interval
  <2> HIDE DEF holder
  <2>6. PICK x \in Inode, y \in Inode : x # y /\ holder[x] = holder[y]
    <3>1. Cardinality(0..Shells) < Cardinality(Inode)
      BY <1>1, <2>4, <2>5
    <3> QED
      BY <2>3, <2>4, <2>5, <3>1, FS_PigeonHole, Zenon
  <2>7. holder[dest] = 0
    BY DEF holder
  <2>8. 0 \notin Shell
    BY <1>1 DEF Shell
  <2> QED
    BY <2>2, <2>6, <2>7, <2>8
<1>3. Min(Inode \ used) \in Inode \ used
  BY <1>1, <1>2, LeastOfNaturals
<1> QED
  BY <1>3

\* A block written at an offset: the file stays a sequence.
LEMMA PutAtTypes ==
  ASSUME NEW S, "hole" \in S, NEW b \in Seq(S), NEW off \in Nat, NEW c \in S
  PROVE  PutAt(b, off, c) \in Seq(S)
<1> DEFINE n == Max({Len(b), off + 1})
<1>1. Len(b) \in Nat /\ n \in Nat
  BY LenProperties, MaxOfTwo
<1>2. \A i \in 1..n : (IF i = off + 1 THEN c ELSE IF i <= Len(b) THEN b[i] ELSE "hole") \in S
  <2> HIDE DEF n
  <2> QED
    BY <1>1, ElementOfSeq
<1> HIDE DEF n
<1>3. [i \in 1..n |-> IF i = off + 1 THEN c ELSE IF i <= Len(b) THEN b[i] ELSE "hole"]
        \in [1..n -> S]
  BY <1>2
<1>4. PutAt(b, off, c)
        = [i \in 1..n |-> IF i = off + 1 THEN c ELSE IF i <= Len(b) THEN b[i] ELSE "hole"]
  BY DEF PutAt, n
<1> QED
  BY <1>1, <1>3, <1>4, SeqDef

\* One shell changes and keeps its shape.
LEMMA OneShellChanges ==
  ASSUME shell \in [Shell -> ShellType], ShellsShaped,
         NEW s \in Shell, NEW sh \in ShellType, Shaped(sh), shell' = [shell EXCEPT ![s] = sh]
  PROVE  shell' \in [Shell -> ShellType] /\ ShellsShaped'
<1>1. shell' \in [Shell -> ShellType]
  OBVIOUS
<1>2. \A r \in Shell : shell'[r] = IF r = s THEN sh ELSE shell[r]
  OBVIOUS
<1>3. \A r \in Shell : Shaped(shell'[r])
  BY <1>2 DEF ShellsShaped
<1> QED
  BY <1>1, <1>3 DEF ShellsShaped, Shaped, Idle, Inode

\* A shell that is not there has the shape of one.
LEMMA IdleTypes == Idle \in ShellType /\ Shaped(Idle)
  BY DEF Idle, ShellType, Shaped, Writing

\* A shell that begins is one of its operation.
LEMMA SpawnsKeeps ==
  ASSUME TypeOK, ShellsShaped, NEW op \in {"none", "read", "stdin", "argv"},
         NEW c \in Contents \cup {NoContent}, op \in Writing => c \in Contents, Spawns(op, c)
  PROVE  shell' \in [Shell -> ShellType] /\ ShellsShaped' /\ mine' \in Shell \cup {0}
<1>1. CASE ssh' # "runs"
  BY <1>1 DEF Spawns, TypeOK, ShellsShaped, Shaped
<1>2. CASE ssh' = "runs"
  <2> DEFINE sh == [Idle EXCEPT !.pc = "start", !.op = op, !.what = c]
  <2>1. PICK s \in Shell : shell' = [shell EXCEPT ![s] = sh] /\ mine' = s
    BY <1>2 DEF Spawns
  <2>2. sh \in ShellType /\ Shaped(sh)
    BY DEF Idle, ShellType, Shaped
  <2> HIDE DEF sh
  <2> QED
    BY <2>1, <2>2, OneShellChanges DEF TypeOK
<1> QED
  BY <1>1, <1>2

\* Each shell keeps its shape.
LEMMA ShellsShapedNext ==
  ASSUME TypeOK, Calling, ShellsShaped, Next
  PROVE  shell' \in [Shell -> ShellType] /\ ShellsShaped' /\ mine' \in Shell \cup {0}
<1>0. shell \in [Shell -> ShellType] /\ mine \in Shell \cup {0}
  BY DEF TypeOK
<1>a. UNCHANGED shell => shell' \in [Shell -> ShellType] /\ ShellsShaped'
  BY <1>0 DEF ShellsShaped, Shaped
<1>1. CASE BeginRead
  BY <1>1, SpawnsKeeps DEF BeginRead, Writing
<1>2. ASSUME NEW c \in Contents, BeginWrite(c)
      PROVE  shell' \in [Shell -> ShellType] /\ ShellsShaped' /\ mine' \in Shell \cup {0}
  BY <1>2, SpawnsKeeps DEF BeginWrite
<1>3. CASE FallBack
  BY <1>3, <1>0, <1>a DEF FallBack
<1>4. CASE ToArgv
  BY <1>4, SpawnsKeeps DEF ToArgv, Calling, Writing
<1>5. CASE Return \/ Raise
  BY <1>5, <1>0, <1>a DEF Return, Raise, Finishes
<1>6. CASE Transport
  <2>1. CASE Spawns(doing, todo)
    BY <2>1, SpawnsKeeps DEF Calling, TypeOK
  <2>2. CASE UNCHANGED <<shell, mine>>
    BY <2>2, <1>0, <1>a
  <2> QED
    BY <1>6, <2>1, <2>2 DEF Transport
<1>7. ASSUME NEW s \in Shell, ShellStep(s)
      PROVE  shell' \in [Shell -> ShellType] /\ ShellsShaped' /\ mine' \in Shell \cup {0}
  <2>1. mine' = mine
    BY <1>7 DEF ShellStep, Cats, Fails, Opens, Writes, Closes, WriteFails,
       Checks, Moves, Cleans, Dies, Goes, ShellEnds
  <2>2. shell[s] \in ShellType /\ Shaped(shell[s])
    BY <1>0 DEF ShellsShaped
  <2>3. ASSUME NEW how, ShellEnds(s, how)
        PROVE  shell' \in [Shell -> ShellType] /\ ShellsShaped'
    BY <2>3, <1>0, IdleTypes, OneShellChanges DEF ShellEnds
  <2>4. ASSUME NEW where \in {"check", "move", "clean"}, Goes(s, where), shell[s].op \in Writing
        PROVE  shell' \in [Shell -> ShellType] /\ ShellsShaped'
    <3> DEFINE sh == [shell[s] EXCEPT !.pc = where]
    <3>1. sh \in ShellType /\ Shaped(sh)
      BY <2>2, <2>4 DEF ShellType, Shaped
    <3>2. shell' = [shell EXCEPT ![s] = sh]
      BY <2>4 DEF Goes
    <3> HIDE DEF sh
    <3> QED
      BY <1>0, <3>1, <3>2, OneShellChanges
  <2>5. shell[s].pc \in {"write", "check", "move", "clean"} => shell[s].op \in Writing
    BY <2>2 DEF Shaped
  <2>6. CASE Cats(s)
    BY <2>6, <1>0, <2>1, <2>3 DEF Cats
  <2>7. CASE Fails(s) \/ Cleans(s) \/ Dies(s)
    BY <2>7, <1>0, <2>1, <2>3 DEF Fails, Cleans, Dies
  <2>8. CASE Opens(s)
    <3> DEFINE i == IF tmp # NoInode THEN tmp
                    ELSE Min(Inode \ ({dest, tmp} \cup {shell[r].fd : r \in Shell}))
               sh == [shell[s] EXCEPT !.pc = "write", !.fd = i]
    <3>1. i \in Inode
      BY FreshInode DEF TypeOK
    <3>2. shell' = [shell EXCEPT ![s].pc = "write", ![s].fd = i] /\ shell[s].op \in Writing
      BY <2>8 DEF Opens, Writing
    <3> HIDE DEF i
    <3>3. sh \in ShellType /\ Shaped(sh)
      BY <2>2, <3>1, <3>2 DEF ShellType, Shaped
    <3>4. shell' = [shell EXCEPT ![s] = sh]
      BY <1>0, <3>2
    <3> HIDE DEF sh
    <3> QED
      BY <1>0, <2>1, <3>3, <3>4, OneShellChanges
  <2>9. CASE Writes(s)
    <3> DEFINE sh == [shell[s] EXCEPT !.off = @ + 1]
    <3>1. sh \in ShellType /\ Shaped(sh)
      BY <2>2, <2>9 DEF ShellType, Shaped, Writes
    <3>2. shell' = [shell EXCEPT ![s] = sh]
      BY <2>9 DEF Writes
    <3> HIDE DEF sh
    <3> QED
      BY <1>0, <2>1, <3>1, <3>2, OneShellChanges
  <2>10. CASE Closes(s)
    BY <2>10, <1>0, <2>1, <2>4, <2>5 DEF Closes
  <2>11. CASE WriteFails(s)
    BY <2>11, <1>0, <2>1, <2>4, <2>5 DEF WriteFails
  <2>12. CASE Checks(s)
    BY <2>12, <1>0, <2>1, <2>4, <2>5 DEF Checks
  <2>13. CASE Moves(s)
    BY <2>13, <1>0, <2>1, <2>3, <2>4, <2>5 DEF Moves
  <2> QED
    BY <1>7, <1>0, <2>1, <2>6, <2>7, <2>8, <2>9, <2>10, <2>11, <2>12, <2>13
       DEF ShellStep
<1> QED
  BY <1>1, <1>2, <1>3, <1>4, <1>5, <1>6, <1>7 DEF Next

\* The inodes keep what they are made of.
LEMMA FilesNext ==
  ASSUME TypeOK, ShellsShaped, Next
  PROVE  /\ dest' \in Inode /\ tmp' \in Inode \cup {NoInode}
         /\ body' \in [Inode -> Seq(Contents \cup {"hole"})]
<1>0. /\ dest \in Inode /\ tmp \in Inode \cup {NoInode}
      /\ body \in [Inode -> Seq(Contents \cup {"hole"})]
  BY DEF TypeOK
<1>1. CASE UNCHANGED files
  BY <1>0, <1>1 DEF files
<1>2. ASSUME NEW s \in Shell, Opens(s)
      PROVE  /\ dest' \in Inode /\ tmp' \in Inode \cup {NoInode}
             /\ body' \in [Inode -> Seq(Contents \cup {"hole"})]
  <2> DEFINE i == IF tmp # NoInode THEN tmp
                  ELSE Min(Inode \ ({dest, tmp} \cup {shell[r].fd : r \in Shell}))
  <2>1. i \in Inode
    BY FreshInode DEF TypeOK
  <2>2. dest' = dest /\ tmp' = i /\ body' = [body EXCEPT ![i] = <<>>]
    BY <1>2 DEF Opens
  <2>3. <<>> \in Seq(Contents \cup {"hole"})
    BY EmptySeq
  <2> HIDE DEF i
  <2> QED
    BY <1>0, <2>1, <2>2, <2>3
<1>3. ASSUME NEW s \in Shell, Writes(s)
      PROVE  /\ dest' \in Inode /\ tmp' \in Inode \cup {NoInode}
             /\ body' \in [Inode -> Seq(Contents \cup {"hole"})]
  <2>1. shell[s] \in ShellType /\ Shaped(shell[s]) /\ shell[s].pc = "write"
    BY <1>3 DEF Writes, TypeOK, ShellsShaped
  <2>2. shell[s].fd \in Inode /\ shell[s].off \in Nat /\ shell[s].what \in Contents
    BY <2>1 DEF ShellType, Shaped
  <2>3. /\ dest' = dest /\ tmp' = tmp
        /\ body' = [body EXCEPT ![shell[s].fd] =
                      PutAt(body[shell[s].fd], shell[s].off, shell[s].what)]
    BY <1>3 DEF Writes
  <2>4. PutAt(body[shell[s].fd], shell[s].off, shell[s].what) \in Seq(Contents \cup {"hole"})
    <3>1. body[shell[s].fd] \in Seq(Contents \cup {"hole"})
      BY <1>0, <2>2
    <3> QED
      BY <2>2, <3>1, PutAtTypes
  <2> QED
    BY <1>0, <2>2, <2>3, <2>4
<1>4. ASSUME NEW s \in Shell, Moves(s) \/ Cleans(s)
      PROVE  /\ dest' \in Inode /\ tmp' \in Inode \cup {NoInode}
             /\ body' \in [Inode -> Seq(Contents \cup {"hole"})]
  BY <1>0, <1>4 DEF Moves, Cleans, files
<1>5. ASSUME NEW s \in Shell, ShellStep(s), ~Opens(s), ~Writes(s), ~Moves(s), ~Cleans(s)
      PROVE  UNCHANGED files
  BY <1>5 DEF ShellStep, Cats, Fails, Closes, WriteFails, Checks, Dies
<1>6. CASE ~\E s \in Shell : ShellStep(s)
  BY <1>6, <1>1 DEF Next, BeginRead, BeginWrite, FallBack, ToArgv, Return,
     Raise, Finishes, Transport
<1> QED
  BY <1>1, <1>2, <1>3, <1>4, <1>5, <1>6

\* The inductive invariant, lingering shells included: an action keeps it,
LEMMA InvNext ==
  ASSUME Inv, Next
  PROVE  Inv'
<1> USE DEF Inv
<1>1. LoginInv'
  BY NextMoves, LoginInvNext
<1>2. /\ Calling' /\ doing' \in {"none", "read", "stdin", "argv"}
      /\ todo' \in Contents \cup {NoContent} /\ said' \in {"none", "ok", "raised"}
  BY CallingNext
<1>3. /\ heard' \in Contents \cup {NoContent, Broken}
      /\ got' \in Contents \cup {NoContent, Broken}
  BY HeardNext
<1>4. shell' \in [Shell -> ShellType] /\ ShellsShaped' /\ mine' \in Shell \cup {0}
  BY ShellsShapedNext
<1>5. /\ dest' \in Inode /\ tmp' \in Inode \cup {NoInode}
      /\ body' \in [Inode -> Seq(Contents \cup {"hole"})]
  BY FilesNext
<1>6. TypeOK'
  BY <1>1, <1>2, <1>3, <1>4, <1>5 DEF TypeOK, LoginInv
<1> QED
  BY <1>1, <1>2, <1>4, <1>6

\* a step that changes nothing keeps it,
LEMMA InvStutter ==
  ASSUME Inv, UNCHANGED vars
  PROVE  Inv'
<1> USE DEF Inv, vars, files, caller
<1>1. LoginInv'
  BY LoginInvNext DEF LoginMoves
<1>2. UNCHANGED <<call, dest, tmp, body, shell, mine, doing, todo, said, got, heard>>
  BY DEF login
<1>3. TypeOK'
  BY <1>1, <1>2 DEF TypeOK, LoginInv
<1>4. Calling' /\ ShellsShaped'
  BY <1>2 DEF Calling, ShellsShaped, Shaped
<1> QED
  BY <1>1, <1>3, <1>4

\* A content is a sequence of its blocks.
LEMMA FullTypes ==
  ASSUME NEW c \in Contents
  PROVE  Full(c) \in Seq(Contents \cup {"hole"}) /\ Len(Full(c)) = Length[c] /\ Length[c] \in Nat
<1>1. Length[c] \in Nat
  BY RemoteFileAssumption
<1>2. Full(c) \in [1..Length[c] -> Contents \cup {"hole"}]
  BY DEF Full
<1>3. Full(c) \in Seq(Contents \cup {"hole"})
  BY <1>1, <1>2, SeqDef
<1>4. DOMAIN Full(c) = 1..Length[c]
  BY DEF Full
<1> QED
  BY <1>1, <1>3, <1>4, LenProperties

\* and it holds before the first call.
LEMMA InvInit ==
  ASSUME Init
  PROVE  Inv
<1> USE DEF Init
<1>1. LoginTypeOK
  <2>1. tty = <<>> /\ tail = <<>> /\ tty \in Seq(Piece) /\ Len(tty) = 0
    BY EmptySeq DEF LoginInit
  <2>2. keyed \in BOOLEAN /\ right \in BOOLEAN
    BY LoginAssumption DEF LoginInit
  <2>3. Len(tty) <= Unread
    BY <2>1, LoginAssumption
  <2>4. tail \in {<<>>, <<"mark_1">>} /\ typed \in 0..1
    BY <2>1 DEF LoginInit
  <2>5. authed \in BOOLEAN /\ late \in BOOLEAN
    BY Zenon DEF LoginInit
  <2>6. /\ call \in {"none", "key", "login"}
        /\ ssh \in {"none", "asks", "asks_again", "runs", "zero", "nonzero", "denied", "lost"}
        /\ answer \in {"none", "ok", "failed", "denied"}
    BY DEF LoginInit
  <2> QED
    BY <2>1, <2>2, <2>3, <2>4, <2>5, <2>6, Zenon DEF LoginTypeOK
<1>2. LoginInv
  <2>1. Len(tty) = 0
    BY EmptySeq DEF LoginInit
  <2> QED
    BY <1>1, <2>1 DEF LoginInit, LoginInv, CallShape, PtyFits, Refused,
       DialogueShape, DeniedIsDenied
<1>3. Shells \in Nat /\ 1 \in Inode
  BY RemoteFileAssumption DEF Inode
<1>4. body \in [Inode -> Seq(Contents \cup {"hole"})]
  BY FullTypes, EmptySeq
<1>5. TypeOK
  BY <1>1, <1>3, <1>4, IdleTypes DEF TypeOK
<1>6. Calling /\ ShellsShaped
  BY IdleTypes DEF Calling, ShellsShaped, Writing, LoginInit
<1> QED
  BY <1>2, <1>5, <1>6 DEF Inv

\* The inductive invariant of the logins and the shells.
LEMMA Invariance == Spec => []Inv
<1>1. Init => Inv
  BY InvInit
<1>2. Inv /\ [Next]_vars => Inv'
  BY InvNext, InvStutter
<1> QED
  BY <1>1, <1>2, PTL DEF Spec

\* The types of the logins, the shells and the files, for any number of
\* shells, the ones that outlive their call included.
THEOREM TypesHold == Spec => []TypeOK
<1>1. Inv => TypeOK
  BY DEF Inv
<1> QED
  BY <1>1, Invariance, PTL

\* "Permission denied" is an answer of the node: neither output that looks like
\* a prompt nor a sentinel torn apart makes a login that was taken a refused
\* one (ssh.py, run_with_password).
THEOREM DeniedMeansRefused == Spec => []DeniedIsDenied
<1>1. Inv => DeniedIsDenied
  BY DEF Inv, LoginInv
<1> QED
  BY <1>1, Invariance, PTL
----------------------------------------------------------------------------
(* The file, when no shell outlives its call.                              *)

OneShell == \A r, s \in Shell : shell[r].pc # "none" /\ shell[s].pc # "none" => r = s

\* The file is whole, and the temp file is another one: as far as its shell
\* got with it, and whole when it is moved.
Whole == dest # tmp /\ \E c \in Contents : body[dest] = Full(c)

TempFile ==
  \A s \in Shell :
    LET sh == shell[s] IN
    /\ sh.pc = "write" => sh.fd = tmp
    /\ sh.pc \in {"write", "check"} =>
         /\ tmp # NoInode /\ sh.off <= Length[sh.what]
         /\ body[tmp] = [i \in 1..sh.off |-> sh.what]
    /\ sh.pc = "move" => tmp # NoInode /\ body[tmp] = Full(sh.what)

FileShape == OneShell /\ Whole /\ TempFile

\* The command that runs is the one of the operation.
Runs ==
  ssh = "runs" =>
    /\ mine \in Shell /\ shell[mine].pc # "none"
    /\ shell[mine].op = doing /\ shell[mine].what = todo

\* A command that ended well, or whose answer did, is over: what was to be
\* written is in the file, and what was read is what it holds.
Landed ==
  ssh = "zero" \/ answer = "ok" =>
    /\ \A s \in Shell : shell[s].pc = "none"
    /\ doing \in Writing => body[dest] = Full(todo)
    /\ doing = "read" => heard = Held

FileInv == Inv /\ FileShape /\ Runs /\ Landed

\* A block after the blocks that are there.
LEMMA PutAtAppends ==
  ASSUME NEW off \in Nat, NEW c, NEW b, b = [i \in 1..off |-> c]
  PROVE  PutAt(b, off, c) = [i \in 1..off + 1 |-> c]
<1>1. b \in [1..off -> {c}] /\ DOMAIN b = 1..off
  OBVIOUS
<1>2. b \in Seq({c})
  BY <1>1, SeqDef
<1>3. Len(b) = off
  BY <1>1, <1>2, LenProperties
<1>4. Max({Len(b), off + 1}) = off + 1
  BY <1>3, MaxOfTwo
<1>5. \A i \in 1..off + 1 :
        (IF i = off + 1 THEN c ELSE IF i <= Len(b) THEN b[i] ELSE "hole") = c
  BY <1>3
<1>6. PutAt(b, off, c)
        = [i \in 1..off + 1 |-> IF i = off + 1 THEN c ELSE IF i <= Len(b) THEN b[i] ELSE "hole"]
  BY <1>4 DEF PutAt
<1> QED
  BY <1>5, <1>6

\* Contents of some length are told apart by their blocks.
LEMMA FullInjective ==
  ASSUME NEW c \in Contents, NEW d \in Contents, Full(c) = Full(d)
  PROVE  c = d
<1>1. Length[c] \in Nat \ {0} /\ Length[d] \in Nat \ {0}
  BY RemoteFileAssumption
<1>2. 1 \in 1..Length[c] /\ 1 \in 1..Length[d]
  BY <1>1
<1>3. Full(c)[1] = c /\ Full(d)[1] = d
  BY <1>2 DEF Full
<1> QED
  BY <1>3

\* A shell that begins is alone.
LEMMA SpawnsAlone ==
  ASSUME ~Lingers, TypeOK, NEW op, NEW c, Spawns(op, c)
  PROVE  \/ UNCHANGED <<shell, mine>> /\ ssh' # "runs"
         \/ /\ ssh' = "runs" /\ mine' \in Shell
            /\ \A r \in Shell : shell[r] = Idle
            /\ shell'[mine'].pc = "start" /\ shell'[mine'].op = op /\ shell'[mine'].what = c
            /\ \A r \in Shell \ {mine'} : shell'[r] = Idle
<1>1. CASE ssh' # "runs"
  BY <1>1 DEF Spawns
<1>2. CASE ssh' = "runs"
  <2> DEFINE sh == [Idle EXCEPT !.pc = "start", !.op = op, !.what = c]
  <2>1. PICK s \in Shell :
          /\ \A r \in Shell : shell[r] = Idle
          /\ shell' = [shell EXCEPT ![s] = sh] /\ mine' = s
    BY <1>2 DEF Spawns
  <2>2. sh.pc = "start" /\ sh.op = op /\ sh.what = c
    BY DEF Idle
  <2> HIDE DEF sh
  <2>3. shell'[s] = sh /\ \A r \in Shell \ {s} : shell'[r] = Idle
    BY <2>1 DEF TypeOK
  <2> QED
    BY <1>2, <2>1, <2>2, <2>3
<1> QED
  BY <1>1, <1>2

\* A step of the tool host leaves the files alone, and its shells are the same
\* or one that begins.
LEMMA HostKeepsFileShape ==
  ASSUME ~Lingers, Inv, FileShape, UNCHANGED files,
         UNCHANGED shell \/ \E op, c : Spawns(op, c)
  PROVE  FileShape'
<1> USE DEF FileShape
<1>0. UNCHANGED <<dest, tmp, body>>
  BY DEF files
<1>1. Whole'
  BY <1>0 DEF Whole
<1>2. CASE UNCHANGED shell
  BY <1>0, <1>1, <1>2 DEF OneShell, TempFile
<1>3. ASSUME NEW op, NEW c, Spawns(op, c) PROVE FileShape'
  <2>1. CASE UNCHANGED <<shell, mine>>
    BY <2>1, <1>2
  <2>2. CASE /\ mine' \in Shell /\ shell'[mine'].pc = "start"
             /\ \A r \in Shell \ {mine'} : shell'[r] = Idle
    <3>1. \A r \in Shell : shell'[r].pc # "none" => r = mine' /\ shell'[r].pc = "start"
      BY <2>2 DEF Idle
    <3> QED
      BY <1>1, <3>1 DEF OneShell, TempFile
  <2> QED
    BY <1>3, <2>1, <2>2, SpawnsAlone DEF Inv
<1> QED
  BY <1>2, <1>3

\* The end of a shell, which is alone, leaves a file that is whole: the one
\* that was there, or the temp file that was moved.
LEMMA ShellEndsKeepsFileShape ==
  ASSUME Inv, FileShape, NEW s \in Shell, shell[s].pc # "none",
         Cats(s) \/ Fails(s) \/ Cleans(s) \/ Dies(s) \/ (Moves(s) /\ tmp # NoInode)
  PROVE  FileShape' /\ \A r \in Shell : shell'[r].pc = "none"
<1> USE DEF FileShape
<1>0. shell \in [Shell -> ShellType] /\ dest \in Inode /\ tmp \in Inode \cup {NoInode}
  BY DEF Inv, TypeOK
<1>1. shell' = [shell EXCEPT ![s] = Idle]
  BY DEF Cats, Fails, Cleans, Dies, Moves, ShellEnds
<1>2. \A r \in Shell \ {s} : shell'[r] = shell[r] /\ shell[r].pc = "none"
  BY <1>0, <1>1 DEF OneShell
<1>3. \A r \in Shell : shell'[r].pc = "none"
  BY <1>0, <1>1, <1>2 DEF Idle
<1>4. OneShell' /\ TempFile'
  BY <1>3 DEF OneShell, TempFile
<1>5. Whole'
  <2>1. CASE Moves(s) /\ tmp # NoInode
    <3>1. dest' = tmp /\ tmp' = NoInode /\ body' = body /\ shell[s].pc = "move"
      BY <2>1 DEF Moves
    <3>2. body[tmp] = Full(shell[s].what)
      BY <3>1 DEF TempFile
    <3>3. shell[s].what \in Contents
      BY <3>1 DEF Inv, ShellsShaped, Shaped
    <3>4. tmp # NoInode
      BY <2>1
    <3> QED
      BY <3>1, <3>2, <3>3, <3>4 DEF Whole
  <2>2. CASE Cleans(s)
    <3>1. dest' = dest /\ body' = body /\ tmp' = NoInode
      BY <2>2 DEF Cleans
    <3>2. dest # NoInode
      BY <1>0, RemoteFileAssumption DEF Inode, NoInode
    <3> QED
      BY <3>1, <3>2 DEF Whole
  <2>3. CASE Cats(s) \/ Fails(s) \/ Dies(s)
    BY <2>3 DEF Cats, Fails, Dies, files, Whole
  <2> QED
    BY <2>1, <2>2, <2>3
<1> QED
  BY <1>3, <1>4, <1>5

\* What a shell does before its end touches the temp file only, and keeps it as
\* far as the shell got.
LEMMA ShellKeepsFileShape ==
  ASSUME Inv, FileShape, NEW s \in Shell,
         Opens(s) \/ Writes(s) \/ Closes(s) \/ WriteFails(s) \/ Checks(s)
           \/ (Moves(s) /\ tmp = NoInode)
  PROVE  /\ FileShape' /\ dest' = dest /\ body'[dest] = body[dest]
         /\ shell'[s].op = shell[s].op /\ shell'[s].what = shell[s].what
         /\ shell[s].pc # "none" /\ shell'[s].pc # "none"
         /\ \A r \in Shell \ {s} : shell'[r] = shell[r]
<1> USE DEF FileShape
<1>0. /\ shell \in [Shell -> ShellType] /\ dest \in Inode /\ tmp \in Inode \cup {NoInode}
      /\ body \in [Inode -> Seq(Contents \cup {"hole"})] /\ shell[s] \in ShellType
  BY DEF Inv, TypeOK
<1>a. Shaped(shell[s])
  BY DEF Inv, ShellsShaped
<1>1. shell[s].pc # "none" /\ DOMAIN shell = Shell
  BY <1>0 DEF Opens, Writes, Closes, WriteFails, Checks, Moves
<1>2. \A r \in Shell \ {s} : shell[r].pc = "none"
  BY <1>1 DEF OneShell
<1>b. shell[s].pc \in {"write", "check", "move"} => shell[s].what \in Contents
  BY <1>a DEF Shaped
<1>c. shell[s].off \in Nat
  BY <1>0 DEF ShellType
<1> DEFINE sh == shell[s]
\* It is enough to say what becomes of this shell and of the two files.
<1>3. ASSUME NEW new, shell' = [shell EXCEPT ![s] = new],
             new.pc \in {"write", "check", "move", "clean"},
             new.op = sh.op, new.what = sh.what, dest' = dest, body'[dest] = body[dest],
             tmp' # dest,
             new.pc = "write" => new.fd = tmp',
             new.pc \in {"write", "check"} =>
               /\ tmp' # NoInode /\ new.off <= Length[new.what]
               /\ body'[tmp'] = [i \in 1..new.off |-> new.what],
             new.pc = "move" => tmp' # NoInode /\ body'[tmp'] = Full(new.what)
      PROVE  /\ FileShape' /\ dest' = dest /\ body'[dest] = body[dest]
             /\ shell'[s].op = shell[s].op /\ shell'[s].what = shell[s].what
             /\ shell[s].pc # "none" /\ shell'[s].pc # "none"
             /\ \A r \in Shell \ {s} : shell'[r] = shell[r]
  <2>1. shell'[s] = new /\ \A r \in Shell \ {s} : shell'[r] = shell[r]
    BY <1>1, <1>3
  <2>2. Whole'
    BY <1>3 DEF Whole
  <2>3. OneShell'
    BY <1>2, <2>1 DEF OneShell
  <2>4. TempFile'
    <3> SUFFICES ASSUME NEW r \in Shell
                 PROVE  /\ shell'[r].pc = "write" => shell'[r].fd = tmp'
                        /\ shell'[r].pc \in {"write", "check"} =>
                             /\ tmp' # NoInode /\ shell'[r].off <= Length[shell'[r].what]
                             /\ body'[tmp'] = [i \in 1..shell'[r].off |-> shell'[r].what]
                        /\ shell'[r].pc = "move" =>
                             tmp' # NoInode /\ body'[tmp'] = Full(shell'[r].what)
      BY Zenon DEF TempFile
    <3>1. CASE r # s
      BY <1>2, <2>1, <3>1
    <3>2. CASE r = s
      BY <1>3, <2>1, <3>2
    <3> QED
      BY <3>1, <3>2
  <2> QED
    BY <1>1, <1>3, <2>1, <2>2, <2>3, <2>4
<1>4. dest # tmp /\ dest # NoInode
  BY <1>0, RemoteFileAssumption DEF Whole, Inode, NoInode
<1>5. /\ sh.pc = "write" => sh.fd = tmp
      /\ sh.pc \in {"write", "check"} =>
           /\ tmp # NoInode /\ sh.off <= Length[sh.what]
           /\ body[tmp] = [i \in 1..sh.off |-> sh.what]
      /\ sh.pc = "move" => tmp # NoInode /\ body[tmp] = Full(sh.what)
  BY DEF TempFile
<1>d. sh \in ShellType
  BY <1>0
<1> HIDE DEF sh
<1> DEFINE Goal == /\ FileShape' /\ dest' = dest /\ body'[dest] = body[dest]
                   /\ shell'[s].op = shell[s].op /\ shell'[s].what = shell[s].what
                   /\ shell[s].pc # "none" /\ shell'[s].pc # "none"
                   /\ \A r \in Shell \ {s} : shell'[r] = shell[r]
\* The steps that open or write no file: from "move" on the temp file is whole.
<1>6. ASSUME NEW where \in {"check", "move", "clean"}, Goes(s, where), UNCHANGED files,
             where = "check" => sh.pc = "write",
             where = "move" => tmp # NoInode /\ body[tmp] = Full(sh.what)
      PROVE  Goal
  <2> DEFINE new == [sh EXCEPT !.pc = where]
  <2>1. new.pc = where /\ new.op = sh.op /\ new.what = sh.what /\ new.off = sh.off
    BY <1>d DEF ShellType
  <2>2. shell' = [shell EXCEPT ![s] = new]
    BY <1>6 DEF Goes, sh
  <2>3. dest' = dest /\ tmp' = tmp /\ body' = body
    BY <1>6 DEF files
  <2> HIDE DEF new
  <2>4. new.pc \in {"write", "check"} =>
          /\ tmp' # NoInode /\ new.off <= Length[new.what]
          /\ body'[tmp'] = [i \in 1..new.off |-> new.what]
    BY <1>5, <1>6, <2>1, <2>3
  <2>5. new.pc = "move" => tmp' # NoInode /\ body'[tmp'] = Full(new.what)
    BY <1>6, <2>1, <2>3
  <2> QED
    BY <1>3, <1>4, <1>6, <2>1, <2>2, <2>3, <2>4, <2>5
<1>7. CASE Opens(s)
  <2> DEFINE i == IF tmp # NoInode THEN tmp
                  ELSE Min(Inode \ ({dest, tmp} \cup {shell[r].fd : r \in Shell}))
             new == [sh EXCEPT !.pc = "write", !.fd = i]
  <2>1. i \in Inode \ {dest}
    BY <1>0, <1>4, FreshInode
  <2>2. /\ dest' = dest /\ tmp' = i /\ body' = [body EXCEPT ![i] = <<>>]
        /\ shell' = [shell EXCEPT ![s].pc = "write", ![s].fd = i]
        /\ sh.pc = "start" /\ sh.op \in Writing
    BY <1>7 DEF Opens, Writing, sh
  <2> HIDE DEF i
  <2>3. /\ new.pc = "write" /\ new.op = sh.op /\ new.what = sh.what /\ new.fd = i
        /\ new.off = sh.off
    BY <1>d DEF ShellType
  <2>4. shell' = [shell EXCEPT ![s] = new]
    BY <1>0, <2>2 DEF sh
  <2>5. sh.off = 0 /\ sh.what \in Contents
    BY <1>a, <2>2 DEF Shaped, sh
  <2>6. Length[sh.what] \in Nat
    BY <2>5, RemoteFileAssumption
  <2>7. body'[i] = <<>> /\ body'[dest] = body[dest] /\ i # NoInode
    BY <1>0, <2>1, <2>2, RemoteFileAssumption DEF Inode, NoInode
  <2>8. <<>> = [k \in 1..0 |-> sh.what]
    OBVIOUS
  <2> HIDE DEF new
  <2> QED
    <3>1. body'[tmp'] = [k \in 1..new.off |-> new.what]
      BY <2>2, <2>3, <2>5, <2>7, <2>8
    <3>2. tmp' # NoInode /\ tmp' # dest /\ new.off <= Length[new.what]
      BY <2>1, <2>2, <2>3, <2>5, <2>6, <2>7
    <3> QED
      BY <1>3, <2>2, <2>3, <2>4, <2>7, <3>1, <3>2
<1>8. CASE Writes(s)
  <2> DEFINE new == [sh EXCEPT !.off = @ + 1]
  <2>1. /\ sh.pc = "write" /\ sh.off < Length[sh.what] /\ dest' = dest /\ tmp' = tmp
        /\ body' = [body EXCEPT ![sh.fd] = PutAt(body[sh.fd], sh.off, sh.what)]
        /\ shell' = [shell EXCEPT ![s] = new]
    BY <1>8 DEF Writes, sh
  <2>2. /\ new.pc = sh.pc /\ new.op = sh.op /\ new.what = sh.what /\ new.fd = sh.fd
        /\ new.off = sh.off + 1
    BY <1>d DEF ShellType
  <2>3. sh.fd = tmp /\ tmp # NoInode /\ body[tmp] = [i \in 1..sh.off |-> sh.what]
    BY <1>5, <2>1
  <2>4. tmp \in Inode
    BY <1>0, <2>3
  <2>5. sh.off \in Nat /\ sh.what \in Contents
    BY <1>b, <1>c, <2>1 DEF sh
  <2>6. Length[sh.what] \in Nat /\ sh.off + 1 <= Length[sh.what]
    BY <2>1, <2>5, RemoteFileAssumption
  <2>7. PutAt(body[tmp], sh.off, sh.what) = [i \in 1..sh.off + 1 |-> sh.what]
    <3> DEFINE off == sh.off
               c   == sh.what
               b   == body[tmp]
    <3>1. off \in Nat /\ b = [i \in 1..off |-> c]
      BY <2>3, <2>5
    <3> HIDE DEF off, c, b
    <3>2. PutAt(b, off, c) = [i \in 1..off + 1 |-> c]
      BY <3>1, PutAtAppends
    <3> QED
      BY <3>2 DEF off, c, b
  <2>8. body'[tmp] = [i \in 1..sh.off + 1 |-> sh.what] /\ body'[dest] = body[dest]
    BY <1>0, <1>4, <2>1, <2>3, <2>4, <2>7
  <2> HIDE DEF new
  <2> QED
    BY <1>3, <1>4, <2>1, <2>2, <2>3, <2>6, <2>8
<1>9. CASE Closes(s)
  <2>1. /\ sh.pc = "write" /\ UNCHANGED files
        /\ Goes(s, IF sh.op = "stdin" THEN "check" ELSE "move")
        /\ sh.op # "stdin" => sh.off = Length[sh.what]
    BY <1>9 DEF Closes, sh
  <2>2. CASE sh.op = "stdin"
    BY <1>6, <2>1, <2>2
  <2>3. CASE sh.op # "stdin"
    <3>1. tmp # NoInode /\ body[tmp] = Full(sh.what)
      BY <1>5, <2>1, <2>3 DEF Full
    <3> QED
      BY <1>6, <2>1, <2>3, <3>1
  <2> QED
    BY <2>2, <2>3
<1>10. CASE WriteFails(s)
  BY <1>6, <1>10 DEF WriteFails
<1>11. CASE Checks(s)
  <2>1. /\ sh.pc = "check" /\ UNCHANGED files
        /\ \/ Goes(s, "move") /\ Len(body[tmp]) = Length[sh.what]
           \/ Goes(s, "clean")
    BY <1>11 DEF Checks, sh
  <2>2. CASE Goes(s, "move") /\ Len(body[tmp]) = Length[sh.what]
    <3>1. tmp # NoInode /\ body[tmp] = [i \in 1..sh.off |-> sh.what]
      BY <1>5, <2>1
    <3>2. sh.off \in Nat /\ body[tmp] \in Seq(Contents \cup {"hole"})
      BY <1>0, <1>c, <3>1 DEF sh
    <3>3. 1..Len(body[tmp]) = 1..sh.off /\ Len(body[tmp]) \in Nat
      BY <3>1, <3>2, LenProperties
    <3>4. Len(body[tmp]) = sh.off
      BY <3>2, <3>3
    <3>5. body[tmp] = Full(sh.what)
      BY <2>2, <3>1, <3>4 DEF Full
    <3> QED
      BY <1>6, <2>1, <2>2, <3>1, <3>5
  <2> QED
    BY <1>6, <2>1, <2>2
<1>12. CASE Moves(s) /\ tmp = NoInode
  BY <1>5, <1>12 DEF Moves, sh
<1> QED
  BY <1>7, <1>8, <1>9, <1>10, <1>11, <1>12

\* Only a shell that runs takes steps.
LEMMA StepsAreBusy ==
  ASSUME ShellsShaped, NEW s \in Shell, ShellStep(s)
  PROVE  shell[s].pc # "none"
<1>1. shell[s].pc = "none" => shell[s] = Idle
  BY DEF ShellsShaped, Shaped
<1> QED
  BY <1>1 DEF ShellStep, Cats, Fails, Opens, Writes, Closes, WriteFails,
     Checks, Moves, Cleans, Dies

\* The two kinds of step of a shell.
LEMMA ShellStepKinds ==
  ASSUME NEW s \in Shell, ShellStep(s)
  PROVE  \/ Cats(s) \/ Fails(s) \/ Cleans(s) \/ Dies(s) \/ (Moves(s) /\ tmp # NoInode)
         \/ Opens(s) \/ Writes(s) \/ Closes(s) \/ WriteFails(s) \/ Checks(s)
              \/ (Moves(s) /\ tmp = NoInode)
  BY DEF ShellStep

\* Every action keeps the file whole.
LEMMA FileShapeNext ==
  ASSUME ~Lingers, Inv, FileShape, Next
  PROVE  FileShape'
<1>1. CASE BeginRead
  BY <1>1, HostKeepsFileShape DEF BeginRead
<1>2. ASSUME NEW c \in Contents, BeginWrite(c) PROVE FileShape'
  BY <1>2, HostKeepsFileShape DEF BeginWrite
<1>3. CASE FallBack
  BY <1>3, HostKeepsFileShape DEF FallBack
<1>4. CASE ToArgv
  <2>1. Spawns("argv", todo) /\ UNCHANGED files
    BY <1>4 DEF ToArgv
  <2>2. \E op, c : Spawns(op, c)
    BY <2>1
  <2> QED
    BY <2>1, <2>2, HostKeepsFileShape
<1>5. CASE Return \/ Raise
  BY <1>5, HostKeepsFileShape DEF Return, Raise, Finishes
<1>6. CASE Transport
  <2>1. (Spawns(doing, todo) \/ UNCHANGED shell) /\ UNCHANGED files
    BY <1>6 DEF Transport
  <2>2. UNCHANGED shell \/ \E op, c : Spawns(op, c)
    BY <2>1
  <2> QED
    BY <2>1, <2>2, HostKeepsFileShape
<1>7. ASSUME NEW s \in Shell, ShellStep(s) PROVE FileShape'
  BY <1>7, StepsAreBusy, ShellStepKinds, ShellEndsKeepsFileShape,
     ShellKeepsFileShape DEF Inv
<1> QED
  BY <1>1, <1>2, <1>3, <1>4, <1>5, <1>6, <1>7 DEF Next

\* What runs is what the operation asked for.
LEMMA RunsNext ==
  ASSUME ~Lingers, FileInv, Next
  PROVE  Runs'
<1> USE DEF FileInv
<1>0. TypeOK /\ Calling /\ ShellsShaped /\ CallShape
  BY DEF Inv, LoginInv
<1>1. ASSUME NEW op, NEW c, Spawns(op, c), doing' = op, todo' = c PROVE Runs'
  BY <1>0, <1>1, SpawnsAlone DEF Runs
<1>2. CASE BeginRead
  <2>1. Spawns("read", NoContent) /\ doing' = "read" /\ todo' = NoContent
    BY <1>0, <1>2 DEF BeginRead, Calling, Writing
  <2> QED
    BY <2>1, <1>1
<1>3. ASSUME NEW c \in Contents, BeginWrite(c) PROVE Runs'
  BY <1>1, <1>3 DEF BeginWrite
<1>4. CASE FallBack
  BY <1>4 DEF FallBack, RunWithPassword, Runs
<1>5. CASE ToArgv
  <2>1. Spawns("argv", todo) /\ doing' = "argv" /\ todo' = todo
    BY <1>5 DEF ToArgv
  <2> QED
    BY <2>1, <1>0, SpawnsAlone DEF Runs
<1>6. CASE Return \/ Raise
  BY <1>0, <1>6 DEF Return, Raise, Finishes, Settled, CallShape, Runs
<1>7. CASE Transport
  <2>1. UNCHANGED <<doing, todo>>
    BY <1>7 DEF Transport, caller
  <2>2. CASE ssh = "runs" /\ UNCHANGED <<shell, mine>>
    BY <2>1, <2>2 DEF Runs
  <2>3. CASE Spawns(doing, todo)
    BY <2>1, <2>3, <1>0, SpawnsAlone DEF Runs
  <2> QED
    BY <1>7, <2>2, <2>3 DEF Transport
<1>8. ASSUME NEW s \in Shell, ShellStep(s) PROVE Runs'
  <2>1. UNCHANGED <<mine, doing, todo>>
    BY <1>8 DEF ShellStep, Cats, Fails, Opens, Writes, Closes, WriteFails,
       Checks, Moves, Cleans, Dies, Goes, ShellEnds, caller
  <2>2. shell[s].pc # "none"
    BY <1>0, <1>8, StepsAreBusy
  <2>3. ssh = "runs" => Linked(s)
    BY <2>2 DEF Runs, FileShape, OneShell, Linked
  <2>4. ASSUME NEW how \in {"zero", "nonzero", "lost"}, ShellEnds(s, how)
        PROVE  Runs'
    BY <2>3, <2>4 DEF ShellEnds, Runs
  <2>5. CASE Cats(s) \/ Fails(s) \/ Cleans(s) \/ Dies(s) \/ (Moves(s) /\ tmp # NoInode)
    BY <2>4, <2>5 DEF Cats, Fails, Cleans, Dies, Moves
  <2>6. CASE Opens(s) \/ Writes(s) \/ Closes(s) \/ WriteFails(s) \/ Checks(s)
               \/ (Moves(s) /\ tmp = NoInode)
    <3>1. ssh' = ssh
      BY <2>6 DEF Opens, Writes, Closes, WriteFails, Checks, Moves, Goes, login
    <3>2. shell'[s].op = shell[s].op /\ shell'[s].what = shell[s].what /\ shell'[s].pc # "none"
      BY <2>6, ShellKeepsFileShape
    <3> QED
      BY <2>1, <2>3, <3>1, <3>2 DEF Runs, Linked
  <2> QED
    BY <1>8, <2>5, <2>6, ShellStepKinds
<1> QED
  BY <1>2, <1>3, <1>4, <1>5, <1>6, <1>7, <1>8 DEF Next

\* An answer "ok" is one of a command that ended well before.
LEMMA OkFromZero ==
  ASSUME LoginInv, LoginStep, ssh' = "zero" \/ answer' = "ok"
  PROVE  (ssh = "zero" \/ answer = "ok") /\ ssh' # "runs"
<1> USE DEF LoginInv
<1>1. CASE KeyReturns \/ ChildExits
  BY <1>1 DEF KeyReturns, ChildExits, Answers, Status, Over
<1>2. CASE KeyTimesOut \/ IdleTooLong
  BY <1>2 DEF KeyTimesOut, IdleTooLong, Answers
<1>3. CASE NodeChecks
  BY <1>3 DEF NodeChecks, Dialogue, CallShape
<1>4. CASE ReadPty
  <2>1. ssh' = ssh /\ answer' = answer
    BY <1>4 DEF ReadPty, Answers
  <2> QED
    BY <2>1 DEF CallShape
<1>5. CASE WindowCloses
  BY <1>5 DEF WindowCloses, CallShape
<1>6. CASE Drop
  BY <1>6 DEF Drop, CallShape
<1> QED
  BY <1>1, <1>2, <1>3, <1>4, <1>5, <1>6 DEF LoginStep

\* What ended well stays in the file until the operation is over.
LEMMA LandedNext ==
  ASSUME ~Lingers, FileInv, Next
  PROVE  Landed'
<1> USE DEF FileInv
<1>0. TypeOK /\ Calling /\ ShellsShaped /\ CallShape /\ LoginInv
  BY DEF Inv, LoginInv
<1> SUFFICES ASSUME ssh' = "zero" \/ answer' = "ok"
             PROVE  /\ \A s \in Shell : shell'[s].pc = "none"
                    /\ doing' \in Writing => body'[dest'] = Full(todo')
                    /\ doing' = "read" => heard' = Held'
  BY DEF Landed, Full
<1>1. CASE BeginRead \/ (\E c \in Contents : BeginWrite(c)) \/ FallBack \/ ToArgv
  BY <1>1 DEF BeginRead, BeginWrite, FallBack, ToArgv, RunWithKey,
     RunWithPassword
<1>2. CASE Return \/ Raise
  BY <1>0, <1>2 DEF Return, Raise, Finishes, Settled, CallShape
<1>3. CASE Transport
  <2>1. UNCHANGED <<dest, body, doing, todo, heard>> /\ Held' = Held
    BY <1>3 DEF Transport, caller, files, Held
  <2>2. (ssh = "zero" \/ answer = "ok") /\ ssh' # "runs"
    BY <1>0, <1>3, OkFromZero DEF Transport
  <2>3. UNCHANGED shell
    BY <1>3, <2>2 DEF Transport, Spawns
  <2> QED
    BY <2>1, <2>2, <2>3 DEF Landed
<1>4. ASSUME NEW s \in Shell, ShellStep(s)
      PROVE  /\ \A r \in Shell : shell'[r].pc = "none"
             /\ doing' \in Writing => body'[dest'] = Full(todo')
             /\ doing' = "read" => heard' = Held'
  <2>1. UNCHANGED <<answer, mine, doing, todo>>
    BY <1>4 DEF ShellStep, Cats, Fails, Opens, Writes, Closes, WriteFails,
       Checks, Moves, Cleans, Dies, Goes, ShellEnds, caller, login
  <2>2. shell[s].pc # "none"
    BY <1>0, <1>4, StepsAreBusy
  <2>3. ssh # "zero" /\ answer # "ok" /\ ssh' = "zero"
    BY <2>1, <2>2 DEF Landed
  <2>4. Cats(s) \/ (Moves(s) /\ tmp # NoInode)
    BY <1>4, <2>3 DEF ShellStep, Fails, Opens, Writes, Closes, WriteFails,
       Checks, Moves, Cleans, Dies, Goes, ShellEnds, login
  <2>5. ShellEnds(s, "zero") /\ Linked(s)
    BY <2>3, <2>4 DEF Cats, Moves, ShellEnds
  <2>6. shell[s].op = doing /\ shell[s].what = todo
    BY <2>5 DEF Linked, Runs
  <2>7. \A r \in Shell : shell'[r].pc = "none"
    BY <2>2, <2>4, ShellEndsKeepsFileShape DEF Idle
  <2>8. CASE Cats(s)
    <3>1. doing = "read" /\ heard' = Held /\ Held' = Held
      BY <2>5, <2>6, <2>8 DEF Cats, files, Held
    <3> QED
      BY <2>1, <2>7, <3>1 DEF Writing
  <2>9. CASE Moves(s) /\ tmp # NoInode
    <3>1. shell[s].pc = "move" /\ dest' = tmp /\ body' = body
      BY <2>9 DEF Moves
    <3>2. doing \in Writing
      BY <1>0, <2>6, <3>1 DEF ShellsShaped, Shaped
    <3>3. body[tmp] = Full(todo)
      BY <2>6, <3>1 DEF FileShape, TempFile
    <3>4. body'[dest'] = Full(todo')
      BY <2>1, <3>1, <3>3 DEF Full
    <3> QED
      BY <2>1, <2>7, <3>2, <3>4 DEF Writing
  <2> QED
    BY <2>4, <2>8, <2>9
<1> QED
  BY <1>1, <1>2, <1>3, <1>4 DEF Next

\* The second inductive invariant holds before the first call,
LEMMA FileInvInit ==
  ASSUME Init
  PROVE  FileInv
<1>1. Inv
  BY InvInit
<1>2. Shells \in Nat \ {0}
  BY RemoteFileAssumption
<1>3. \A s \in Shell : shell[s].pc = "none" /\ shell[s].op = "none"
  BY DEF Init, Idle
<1>4. OneShell /\ TempFile
  BY <1>3 DEF OneShell, TempFile
<1>5. Whole
  BY <1>2 DEF Init, Whole, NoInode, Inode
<1>6. Runs /\ Landed
  BY DEF Init, LoginInit, Runs, Landed
<1> QED
  BY <1>1, <1>4, <1>5, <1>6 DEF FileInv, FileShape

\* a step that changes nothing keeps it,
LEMMA FileInvStutter ==
  ASSUME FileInv, UNCHANGED vars
  PROVE  FileInv'
<1> USE DEF FileInv
<1>1. UNCHANGED <<ssh, answer, dest, tmp, body, shell, mine, doing, todo, heard>>
  BY DEF vars, login, files, caller
<1>2. Inv'
  BY InvStutter
<1>3. FileShape'
  BY <1>1 DEF FileShape, OneShell, Whole, TempFile
<1>4. Runs'
  BY <1>1 DEF Runs
<1>5. Landed'
  BY <1>1 DEF Landed, Held
<1> QED
  BY <1>2, <1>3, <1>4, <1>5

\* and so does every action.
LEMMA FileInvariance ==
  ASSUME ~Lingers
  PROVE  Spec => []FileInv
<1>1. Init => FileInv
  BY FileInvInit
<1>2. FileInv /\ [Next]_vars => FileInv'
  <2>1. FileInv /\ Next => FileInv'
    BY InvNext, FileShapeNext, RunsNext, LandedNext DEF FileInv
  <2> QED
    BY <2>1, FileInvStutter
<1> QED
  BY <1>1, <1>2, PTL DEF Spec

----------------------------------------------------------------------------
(* The refinement of AtomicFile.                                           *)

\* A file that is whole holds its content.
LEMMA HeldIs ==
  \A c \in Contents : body[dest] = Full(c) => Held = c
  BY FullInjective DEF Held

\* The same after a step.
LEMMA HeldIsNext ==
  \A c \in Contents : body'[dest'] = Full(c) => Held' = c
  BY FullInjective DEF Held, Full

\* A content is pending in a shell or in the operation.
LEMMA PendingIs ==
  \A c : c \in Pending <=> \/ \E s \in Shell : shell[s].op \in Writing /\ shell[s].what = c
                           \/ doing \in Writing /\ c = todo
  BY DEF Pending, Writing

\* The same after a step.
LEMMA PendingIsNext ==
  \A c : c \in Pending' <=> \/ \E s \in Shell : shell'[s].op \in Writing /\ shell'[s].what = c
                            \/ doing' \in Writing /\ c = todo'
  BY DEF Pending, Writing

\* Starting a shell makes its content pending, if it writes one.
LEMMA SpawnsPends ==
  ASSUME ~Lingers, TypeOK, NEW op, NEW c, Spawns(op, c)
  PROVE  \A d : (\E s \in Shell : shell'[s].op \in Writing /\ shell'[s].what = d)
                  => \/ \E s \in Shell : shell[s].op \in Writing /\ shell[s].what = d
                     \/ op \in Writing /\ d = c
<1>1. CASE UNCHANGED shell
  BY <1>1
<1>2. CASE /\ mine' \in Shell /\ shell'[mine'].op = op /\ shell'[mine'].what = c
           /\ \A r \in Shell \ {mine'} : shell'[r] = Idle
  BY <1>2 DEF Idle, Writing
<1> QED
  BY <1>1, <1>2, SpawnsAlone

\* No shell writes when one begins.
LEMMA SpawnsFromIdle ==
  ASSUME ~Lingers, TypeOK, NEW op, NEW c, Spawns(op, c)
  PROVE  UNCHANGED shell \/ \A s \in Shell : shell[s].op \notin Writing
  BY SpawnsAlone DEF Idle, Writing

\* Before the first call AtomicFile is in its initial state.
LEMMA InitImplements ==
  ASSUME Init
  PROVE  Promise!Init
<1>1. FileInv
  BY FileInvInit
<1>2. PICK c \in Contents : body[dest] = Full(c)
  BY <1>1 DEF FileInv, FileShape, Whole
<1>3. Held \in Contents
  BY <1>2, HeldIs
<1>4. \A s \in Shell : shell[s].op = "none"
  BY DEF Init, Idle
<1>5. Pending = {}
  BY <1>4, PendingIs DEF Init, Writing
<1> QED
  BY <1>3, <1>5 DEF Init, Promise!Init

\* A step that leaves the files, the operation and what is pending alone.
LEMMA Stutters ==
  ASSUME Held' = Held, Pending' = Pending, UNCHANGED <<todo, said, got>>,
         doing' = doing \/ (doing \in Writing /\ doing' \in Writing)
  PROVE  UNCHANGED Promise!vars
BY DEF Promise!vars, Writing

\* A shell of the operation in progress pends nothing new.
LEMMA SpawnsForOperation ==
  ASSUME ~Lingers, TypeOK, Spawns(doing', todo), todo' = todo,
         doing' = doing \/ (doing \in Writing /\ doing' \in Writing)
  PROVE  Pending' = Pending
<1>1. \A d : d \in Pending' => d \in Pending
  BY SpawnsPends, PendingIs, PendingIsNext
<1>2. \A d : d \in Pending => d \in Pending'
  BY SpawnsFromIdle, PendingIs, PendingIsNext
<1> QED
  BY <1>1, <1>2

\* Each step of the tool host is one of AtomicFile, or changes nothing there.
LEMMA HostImplements ==
  ASSUME ~Lingers, FileInv,
         \/ BeginRead \/ (\E c \in Contents : BeginWrite(c)) \/ FallBack \/ ToArgv
         \/ Return \/ Raise \/ Transport
  PROVE  Promise!Next \/ UNCHANGED Promise!vars
<1>0. TypeOK /\ Calling /\ CallShape /\ LoginInv
  BY DEF FileInv, Inv, LoginInv
<1>a. UNCHANGED files => Held' = Held
  BY DEF files, Held
<1>b. UNCHANGED <<shell, doing, todo>> => Pending' = Pending
  BY DEF Pending
<1>1. CASE BeginRead
  <2>1. /\ doing = "none" /\ doing' = "read" /\ said' = "none" /\ UNCHANGED <<todo, got>>
        /\ Spawns("read", NoContent) /\ Held' = Held
    BY <1>1, <1>a DEF BeginRead
  <2>2. \A d : d \in Pending' => d \in Pending
    BY <2>1, <1>0, SpawnsPends, PendingIs, PendingIsNext DEF Writing
  <2>3. \A d : d \in Pending => d \in Pending'
    BY <2>1, <1>0, SpawnsFromIdle, PendingIs, PendingIsNext DEF Writing
  <2>4. Pending' = Pending
    BY <2>2, <2>3
  <2>5. Promise!Read
    BY <2>1, <2>4 DEF Promise!Read
  <2> QED
    BY <2>5 DEF Promise!Next
<1>2. ASSUME NEW c \in Contents, BeginWrite(c)
      PROVE  Promise!Next \/ UNCHANGED Promise!vars
  <2>1. /\ doing = "none" /\ doing' = "stdin" /\ todo' = c /\ said' = "none" /\ UNCHANGED got
        /\ Spawns("stdin", c) /\ Held' = Held
    BY <1>2, <1>a DEF BeginWrite
  <2>2. \A d : d \in Pending' => d \in Pending \cup {c}
    BY <2>1, <1>0, SpawnsPends, PendingIs, PendingIsNext DEF Writing
  <2>3. \A d : d \in Pending \cup {c} => d \in Pending'
    BY <2>1, <1>0, SpawnsFromIdle, PendingIs, PendingIsNext DEF Writing
  <2>4. Pending' = Pending \cup {c}
    BY <2>2, <2>3
  <2>5. Promise!Write(c)
    BY <2>1, <2>4 DEF Promise!Write
  <2> QED
    BY <2>5 DEF Promise!Next
<1>3. CASE FallBack
  <2>1. UNCHANGED <<shell, doing, todo, said, got>> /\ Held' = Held
    BY <1>3, <1>a DEF FallBack, caller
  <2> QED
    BY <2>1, <1>b, Stutters
<1>4. CASE ToArgv
  <2>1. /\ doing \in Writing /\ doing' \in Writing /\ doing' = "argv"
        /\ UNCHANGED <<todo, said, got>> /\ Spawns("argv", todo) /\ Held' = Held
    BY <1>4, <1>a DEF ToArgv, Writing
  <2>2. Spawns(doing', todo)
    BY <2>1
  <2>3. Pending' = Pending
    BY <2>1, <2>2, <1>0, SpawnsForOperation
  <2> QED
    BY <2>1, <2>3, Stutters
<1>5. ASSUME NEW how, Finishes(how)
      PROVE  /\ doing' = "none" /\ todo' = NoContent /\ said' = how /\ Held' = Held
             /\ Pending' \subseteq Pending
  <2>1. /\ doing' = "none" /\ todo' = NoContent /\ said' = how /\ Held' = Held
        /\ UNCHANGED shell
    BY <1>5, <1>a DEF Finishes
  <2>2. \A d : d \in Pending' => d \in Pending
    BY <2>1, PendingIs, PendingIsNext DEF Writing
  <2> QED
    BY <2>1, <2>2
<1>6. Settled => doing # "none"
  BY <1>0 DEF Calling, Settled
<1>7. CASE Return
  <2>1. /\ answer = "ok" /\ doing # "none" /\ Finishes("ok")
        /\ got' = IF doing = "read" THEN heard ELSE got
    BY <1>6, <1>7 DEF Return
  <2>2. /\ doing \in Writing => body[dest] = Full(todo)
        /\ doing = "read" => heard = Held
    BY <2>1 DEF FileInv, Landed
  <2>3. doing \in Writing => Held = todo
    BY <1>0, <2>2, HeldIs DEF Calling
  <2>4. doing \in {"read", "stdin", "argv"}
    BY <1>0, <2>1 DEF TypeOK
  <2>5. /\ doing' = "none" /\ todo' = NoContent /\ said' = "ok" /\ Held' = Held
        /\ Pending' \subseteq Pending
    BY <1>5, <2>1
  <2>6. Promise!Return
    BY <2>1, <2>2, <2>3, <2>4, <2>5 DEF Promise!Return, Promise!Ends, Writing
  <2> QED
    BY <2>6 DEF Promise!Next
<1>8. CASE Raise
  <2>1. doing # "none" /\ Finishes("raised") /\ UNCHANGED got
    BY <1>6, <1>8 DEF Raise
  <2>2. /\ doing' = "none" /\ todo' = NoContent /\ said' = "raised" /\ Held' = Held
        /\ Pending' \subseteq Pending
    BY <1>5, <2>1
  <2>3. Promise!Raise
    BY <2>1, <2>2 DEF Promise!Raise, Promise!Ends
  <2> QED
    BY <2>3 DEF Promise!Next
<1>9. CASE Transport
  <2>1. UNCHANGED <<doing, todo, said, got>> /\ Held' = Held
    BY <1>9, <1>a DEF Transport, caller
  <2>2. Pending' = Pending
    <3>1. CASE UNCHANGED shell
      BY <2>1, <3>1, <1>b
    <3>2. CASE Spawns(doing, todo)
      <4>1. Spawns(doing', todo)
        BY <2>1, <3>2
      <4> QED
        BY <2>1, <4>1, <1>0, SpawnsForOperation
    <3> QED
      BY <1>9, <3>1, <3>2 DEF Transport
  <2> QED
    BY <2>1, <2>2, Stutters
<1> QED
  BY <1>1, <1>2, <1>3, <1>4, <1>7, <1>8, <1>9

\* And each step of a shell: a move lands, an end is the death of a write.
LEMMA ShellImplements ==
  ASSUME FileInv, NEW s \in Shell, ShellStep(s)
  PROVE  Promise!Next \/ UNCHANGED Promise!vars
<1>0. /\ TypeOK /\ ShellsShaped /\ FileShape /\ Inv /\ shell \in [Shell -> ShellType]
  BY DEF FileInv, Inv, TypeOK
<1>1. UNCHANGED <<doing, todo, said, got>>
  BY DEF ShellStep, Cats, Fails, Opens, Writes, Closes, WriteFails, Checks,
     Moves, Cleans, Dies, Goes, ShellEnds, caller
<1>2. shell[s].pc # "none" /\ doing # "write"
  BY <1>0, StepsAreBusy DEF TypeOK
\* A shell that ends pends nothing any more, but the operation still does.
<1>3. ASSUME NEW how, ShellEnds(s, how)
      PROVE  /\ Pending' \subseteq Pending
             /\ doing \in Writing => todo \in Pending'
  <2>1. \A r \in Shell : shell'[r] = IF r = s THEN Idle ELSE shell[r]
    BY <1>0, <1>3 DEF ShellEnds
  <2>2. \A r \in Shell : shell'[r].op \in Writing => shell'[r] = shell[r]
    BY <2>1 DEF Idle, Writing
  <2>3. \A d : d \in Pending' => d \in Pending
    BY <1>1, <2>2, PendingIs, PendingIsNext
  <2> QED
    BY <1>1, <2>3, PendingIsNext
<1>4. CASE Cats(s) \/ Fails(s) \/ Cleans(s) \/ Dies(s)
  <2>1. PICK how \in {"zero", "nonzero", "lost"} : ShellEnds(s, how)
    BY <1>4 DEF Cats, Fails, Cleans, Dies
  <2>2. dest' = dest /\ body' = body
    BY <1>4 DEF Cats, Fails, Cleans, Dies, files
  <2>3. Held' = Held
    BY <2>2 DEF Held
  <2>4. Promise!Dies
    BY <1>1, <1>2, <1>3, <2>1, <2>3 DEF Promise!Dies, Writing
  <2> QED
    BY <2>4 DEF Promise!Next
<1>5. CASE Moves(s) /\ tmp # NoInode
  <2>1. shell[s].pc = "move" /\ dest' = tmp /\ body' = body /\ ShellEnds(s, "zero")
    BY <1>5 DEF Moves
  <2>2. body[tmp] = Full(shell[s].what)
    BY <1>0, <2>1 DEF FileShape, TempFile
  <2>3. shell[s].op \in Writing /\ shell[s].what \in Contents
    BY <1>0, <2>1 DEF ShellsShaped, Shaped
  <2>4. Held' = shell[s].what
    BY <2>1, <2>2, <2>3, HeldIsNext
  <2>5. shell[s].what \in Pending
    BY <2>3, PendingIs
  <2>6. Promise!LandsAndDies
    BY <1>1, <1>2, <1>3, <2>1, <2>4, <2>5 DEF Promise!LandsAndDies, Writing
  <2> QED
    BY <2>6 DEF Promise!Next
<1>6. CASE Opens(s) \/ Writes(s) \/ Closes(s) \/ WriteFails(s) \/ Checks(s)
             \/ (Moves(s) /\ tmp = NoInode)
  <2>1. /\ dest' = dest /\ body'[dest] = body[dest]
        /\ shell'[s].op = shell[s].op /\ shell'[s].what = shell[s].what
        /\ \A r \in Shell \ {s} : shell'[r] = shell[r]
    BY <1>0, <1>6, ShellKeepsFileShape
  <2>2. Held' = Held
    BY <2>1 DEF Held, Full
  <2>3. \A r \in Shell : shell'[r].op = shell[r].op /\ shell'[r].what = shell[r].what
    BY <2>1
  <2>4. \A d : d \in Pending' <=> d \in Pending
    BY <1>1, <2>3, PendingIs, PendingIsNext
  <2>5. Pending' = Pending
    BY <2>4
  <2> QED
    BY <1>1, <2>2, <2>5, Stutters
<1> QED
  BY <1>4, <1>5, <1>6, ShellStepKinds

\* As long as no shell outlives its call, write_file and cat implement
\* AtomicFile for any contents of any length: whatever connection drops, disk
\* fills or shell dies on the way, the file is the old content or the new one,
\* a write that returned is in it, and a read returns what it holds.
THEOREM FileIsAtomic ==
  ASSUME ~Lingers
  PROVE  Spec => IsAtomic
<1>1. Init => Promise!Init
  BY InitImplements
<1>2. FileInv /\ [Next]_vars => [Promise!Next]_(Promise!vars)
  <2>1. FileInv /\ Next => Promise!Next \/ UNCHANGED Promise!vars
    BY HostImplements, ShellImplements DEF Next
  <2>2. UNCHANGED vars => UNCHANGED Promise!vars
    BY DEF vars, files, caller, Promise!vars, Held, Pending
  <2> QED
    BY <2>1, <2>2
<1> QED
  BY <1>1, <1>2, FileInvariance, PTL DEF Spec, IsAtomic, Promise!Spec
=============================================================================
