-------------------------- MODULE RpcClientProofs --------------------------
(***************************************************************************)
(* The call, for every peer: whatever it sends, in pieces of any size, the *)
(* buffer keeps to the cap, and the caller gets the whole result the node  *)
(* has or an error; what is quoted of a body shows no key.                 *)
(***************************************************************************)
EXTENDS RpcClient, RedactionProofs

\* The body is the part of the text that has arrived, and the call is over once it has an outcome.
BodyInv ==
  /\ Len(body) <= Len(reply.text)
  /\ body = SubSeq(reply.text, 1, Len(body))
  /\ (pc = "done") <=> (outcome # "pending")

IInv == TypeOK /\ CapIsExact /\ BodyInv

\* A head of a text is made of its letters.
LEMMA HeadOfText ==
  ASSUME NEW r \in Replies, NEW n \in 0 .. Len(r.text)
  PROVE  /\ r.text \in Seq(Byte) /\ Len(r.text) \in Nat
         /\ SubSeq(r.text, 1, n) \in Seq(Byte)
         /\ Len(SubSeq(r.text, 1, n)) = n
<1>1. r.text \in Seq(Byte)
  BY ClientAssumption
<1>2. Len(r.text) \in Nat /\ \A i \in 1 .. Len(r.text) : r.text[i] \in Byte
  BY <1>1
<1>3. n \in Int /\ 1 \in Int /\ \A i \in 1 .. n : r.text[i] \in Byte
  BY <1>2
<1>4. /\ SubSeq(r.text, 1, n) \in Seq(Byte)
      /\ Len(SubSeq(r.text, 1, n)) = IF 1 <= n THEN n - 1 + 1 ELSE 0
  <2> DEFINE s == r.text
  <2>1. \A i \in 1 .. n : s[i] \in Byte
    BY <1>3
  <2> HIDE DEF s
  <2> SUFFICES /\ SubSeq(s, 1, n) \in Seq(Byte)
               /\ Len(SubSeq(s, 1, n)) = IF 1 <= n THEN n - 1 + 1 ELSE 0
    BY DEF s
  <2> QED
    BY <1>3, <2>1, SubSeqProperties
<1> QED
  BY <1>1, <1>2, <1>4

\* The transport sends no more than the text.
LEMMA SentIsHead ==
  ASSUME NEW r \in Replies
  PROVE  Len(Sent(r)) \in Nat /\ Len(Sent(r)) <= Len(r.text)
<1>1. r.length \in Nat \cup {None}
  BY ClientAssumption
<1>2. r.text \in Seq(Byte)
  BY ClientAssumption
<1>3. Len(r.text) \in Nat
  BY <1>2
<1>4. CASE r.length # None /\ r.length < Len(r.text)
  <2>1. r.length \in 0 .. Len(r.text)
    BY <1>1, <1>3, <1>4
  <2>2. Len(SubSeq(r.text, 1, r.length)) = r.length
    BY <2>1, HeadOfText
  <2>3. Len(Sent(r)) = r.length
    BY <1>4, <2>2 DEF Sent
  <2> QED
    BY <1>3, <2>1, <2>3
<1>5. CASE ~(r.length # None /\ r.length < Len(r.text))
  BY <1>3, <1>5 DEF Sent
<1> QED
  BY <1>4, <1>5

LEMMA InitIInv == Init => IInv
<1> SUFFICES ASSUME Init PROVE IInv
  OBVIOUS
<1> USE DEF Init
<1>1. reply \in Replies /\ reply.text \in Seq(Byte)
  BY ClientAssumption
<1>2. Len(reply.text) \in Nat
  BY <1>1
<1>3. TotalTimeout \in Nat /\ Horizon \in Nat /\ MaxBody \in Nat
  BY ClientAssumption
<1>4. TypeOK
  BY <1>1, <1>3 DEF TypeOK
<1>5. CapIsExact
  BY <1>3 DEF CapIsExact
<1>6. BodyInv
  <2>1. SubSeq(reply.text, 1, 0) = <<>>
    BY SubSeqEmpty
  <2> QED
    BY <1>2, <2>1 DEF BodyInv
<1> QED
  BY <1>4, <1>5, <1>6 DEF IInv

\* Only what is over the cap is refused for its length.
Justified(kind) == kind = "too large" => Oversized

\* A step that ends the call without a result, where nothing new has arrived.
LEMMA FailKeeps ==
  ASSUME IInv, NEW kind \in Failures, NEW quoted,
         Return(kind, None, quoted), UNCHANGED <<reply, body, now>>, quiet' = 0 \/ quiet' = quiet,
         Justified(kind)
  PROVE  IInv'
<1>1. kind \notin {"pending", "answer"}
  BY DEF Failures
<1>2. now \in 0 .. Horizon /\ quiet \in 0 .. now /\ Horizon \in Nat
  BY ClientAssumption DEF IInv, TypeOK
<1>3. quiet' \in 0 .. now
  BY <1>2
<1>4. TypeOK'
  <2>1. pc' = "done" /\ outcome' = kind /\ value' = None
    BY DEF Return
  <2>2. reply' \in Replies /\ body' \in Seq(Byte) /\ now' \in 0 .. Horizon /\ quiet' \in 0 .. now'
    BY <1>2, <1>3 DEF IInv, TypeOK
  <2> QED
    BY <1>1, <2>1, <2>2 DEF TypeOK
<1>5. CapIsExact'
  BY DEF IInv, CapIsExact, Justified, Oversized, Return, AdvertisesTooMuch
<1>6. BodyInv'
  BY <1>1 DEF IInv, BodyInv, Return
<1> QED
  BY <1>4, <1>5, <1>6 DEF IInv

\* A step that leaves what was received and decided as it is.
LEMMA QuietStepKeeps ==
  ASSUME IInv, UNCHANGED <<reply, body, outcome, value>>,
         pc' \in {"connecting", "waiting", "reading"}, pc # "done",
         now' \in 0 .. Horizon, quiet' \in 0 .. now'
  PROVE  IInv'
<1>1. TypeOK'
  BY DEF IInv, TypeOK
<1>2. CapIsExact'
  BY DEF IInv, CapIsExact, Oversized, AdvertisesTooMuch
<1>3. BodyInv'
  BY DEF IInv, BodyInv
<1> QED
  BY <1>1, <1>2, <1>3 DEF IInv

\* A text of which more than the cap has been sent is over the cap.
LEMMA LongTextIsOversized ==
  ASSUME reply \in Replies, NEW n \in 0 .. Len(reply.text), n > MaxBody
  PROVE  Oversized
<1>1. reply.text \in Seq(Byte) /\ MaxBody \in Nat
  BY ClientAssumption
<1>2. Len(reply.text) \in Nat
  BY <1>1
<1>3. Len(reply.text) > MaxBody
  BY <1>1, <1>2
<1> QED
  BY <1>3 DEF Oversized

\* A piece of the body is refused or appended.
LEMMA ChunkKeeps ==
  ASSUME IInv, NEW n \in 1 .. Len(reply.text), Chunk(n)
  PROVE  IInv'
<1> DEFINE text == reply.text
           longer == Len(body) + n
<1>1. reply \in Replies /\ body \in Seq(Byte)
  BY DEF IInv, TypeOK
<1>2. text \in Seq(Byte) /\ Len(text) \in Nat /\ Len(body) \in Nat
  BY <1>1, ClientAssumption
<1>3. longer <= Len(Sent(reply)) /\ pc = "reading"
  BY DEF Chunk
<1>4. longer \in 0 .. Len(text) /\ longer \in Nat
  <2>1. Len(Sent(reply)) \in Nat /\ Len(Sent(reply)) <= Len(text)
    BY <1>1, SentIsHead
  <2>2. n \in Nat
    BY <1>2
  <2> QED
    BY <1>2, <1>3, <2>1, <2>2
<1>5. CASE longer > MaxBody /\ Fail("too large") /\ UNCHANGED body
  <2>1. UNCHANGED <<reply, body, now>> /\ quiet' = 0
    BY <1>5 DEF Chunk
  <2>2. Oversized
    BY <1>1, <1>4, <1>5, LongTextIsOversized
  <2> HIDE DEF text, longer
  <2>3. "too large" \in Failures
    BY DEF Failures
  <2> QED
    BY <1>5, <2>1, <2>2, <2>3, FailKeeps DEF Fail, Justified
<1>6. CASE /\ longer <= MaxBody
           /\ body' = SubSeq(text, 1, longer)
           /\ UNCHANGED <<pc, outcome, value, quote>>
  <2>1. body' \in Seq(Byte) /\ Len(body') = longer
    BY <1>1, <1>4, <1>6, HeadOfText
  <2>2. reply' = reply /\ now' = now /\ quiet' = 0
    BY DEF Chunk
  <2>3. TypeOK'
    <3>1. now \in Nat
      BY ClientAssumption DEF IInv, TypeOK
    <3> QED
      BY <1>6, <2>1, <2>2, <3>1 DEF IInv, TypeOK
  <2>4. CapIsExact'
    <3>1. outcome = "too large" => Oversized
      BY DEF IInv, CapIsExact
    <3> QED
      BY <1>6, <2>1, <2>2, <3>1 DEF CapIsExact, Oversized, AdvertisesTooMuch
  <2>5. BodyInv'
    BY <1>4, <1>6, <2>1, <2>2 DEF IInv, BodyInv
  <2> QED
    BY <2>3, <2>4, <2>5 DEF IInv
<1> QED
  BY <1>5, <1>6 DEF Chunk

\* The end of the body decides the call.
LEMMA EndOfBodyKeeps ==
  ASSUME IInv, EndOfBody
  PROVE  IInv'
<1>1. UNCHANGED <<reply, body, now, quiet>> /\ Judge(body)
  BY DEF EndOfBody
<1>2. {"not text", "status", "decode", "error", "missing"} \subseteq Failures
  BY DEF Failures
<1>3. ASSUME NEW kind \in {"not text", "status", "decode", "error", "missing"}, NEW quoted,
             Return(kind, None, quoted)
      PROVE  IInv'
  BY <1>1, <1>2, <1>3, FailKeeps DEF Justified
<1>4. CASE /\ body \in DOMAIN Json /\ Json[body].result # None
           /\ Return("answer", Json[body].result, <<>>)
  <2>1. Json[body].result \in Results
    BY <1>4, ClientAssumption DEF RpcResponse
  <2>2. TypeOK'
    BY <1>1, <1>4, <2>1, ClientAssumption DEF IInv, TypeOK, Return
  <2>3. CapIsExact'
    BY <1>1, <1>4 DEF IInv, CapIsExact, Oversized, Return, AdvertisesTooMuch
  <2>4. BodyInv'
    BY <1>1, <1>4 DEF IInv, BodyInv, Return
  <2> QED
    BY <2>2, <2>3, <2>4 DEF IInv
<1> QED
  BY <1>1, <1>3, <1>4 DEF Judge, DecodeError, Fail

LEMMA NextIInv == IInv /\ [Next]_vars => IInv'
<1> SUFFICES ASSUME IInv, [Next]_vars PROVE IInv'
  OBVIOUS
<1>1. now \in 0 .. Horizon /\ quiet \in 0 .. now /\ Horizon \in Nat
  BY ClientAssumption DEF IInv, TypeOK
<1>2. CASE Connect
  BY <1>1, <1>2, QuietStepKeeps DEF Connect
<1>3. CASE Headers
  <2>1. UNCHANGED <<reply, body, now>> /\ quiet' = 0 /\ pc = "waiting"
    BY <1>3 DEF Headers
  <2>2. CASE AdvertisesTooMuch(reply) /\ Return("too large", None, <<>>)
    <3>1. "too large" \in Failures
      BY DEF Failures
    <3> QED
      BY <2>1, <2>2, <3>1, FailKeeps DEF Justified, Oversized
  <2>3. CASE pc' = "reading" /\ UNCHANGED <<outcome, value, quote>>
    BY <1>1, <2>1, <2>3, QuietStepKeeps
  <2> QED
    BY <1>3, <2>2, <2>3 DEF Headers, Fail
<1>4. CASE EndOfBody
  BY <1>4, EndOfBodyKeeps
<1>5. CASE Break \/ TimeOut
  <2>1. {"transport", "timeout"} \subseteq Failures
    BY DEF Failures
  <2> QED
    BY <1>5, <2>1, FailKeeps DEF Break, TimeOut, Fail, Justified
<1>6. CASE Tick
  <2>1. now < Horizon
    BY <1>6 DEF Tick
  <2>2. pc \in {"connecting", "waiting", "reading"}
    BY <1>6 DEF Tick, IInv, TypeOK
  <2> QED
    BY <1>1, <1>6, <2>1, <2>2, QuietStepKeeps DEF Tick
<1>7. ASSUME NEW n \in 1 .. Len(reply.text), Chunk(n) PROVE IInv'
  BY <1>7, ChunkKeeps
<1>8. CASE UNCHANGED vars
  BY <1>8 DEF vars, IInv, TypeOK, CapIsExact, BodyInv, Oversized, AdvertisesTooMuch
<1> QED
  BY <1>2, <1>3, <1>4, <1>5, <1>6, <1>7, <1>8 DEF Next, Returned

\* The variables stay within their types, and a result is there exactly when the call answers.
THEOREM TypeCorrect == Spec => []TypeOK
<1>1. IInv => TypeOK
  BY DEF IInv
<1> QED
  BY <1>1, InitIInv, NextIInv, PTL DEF Spec

\* For every peer and cap: no byte over the cap is buffered whatever the response advertises,
\* and no response within it is refused (read_body_bounded, rpc.rs:203-230).
THEOREM CapHolds == Spec => []CapIsExact
<1>1. IInv => CapIsExact
  BY DEF IInv
<1> QED
  BY <1>1, InitIInv, NextIInv, PTL DEF Spec

\* A body that decodes is the whole text.
LEMMA DecodedIsWhole ==
  ASSUME IInv, body \in DOMAIN Json
  PROVE  body = reply.text
<1>1. reply \in Replies /\ body \in Seq(Byte)
  BY DEF IInv, TypeOK
<1>2. reply.text \in Seq(Byte) /\ Len(reply.text) \in Nat /\ Len(body) \in Nat
  BY <1>1, ClientAssumption
<1>3. Len(body) <= Len(reply.text) /\ body = SubSeq(reply.text, 1, Len(body))
  BY DEF IInv, BodyInv
<1>4. CASE Len(body) < Len(reply.text)
  <2>1. Len(body) \in 0 .. Len(reply.text) - 1
    BY <1>2, <1>4
  <2> QED
    BY <1>1, <1>3, <2>1, WholeDocuments
<1>5. CASE Len(body) = Len(reply.text)
  <2>1. SubSeq(reply.text, 1, Len(reply.text)) = reply.text
    BY <1>2, SubSeqFull
  <2> QED
    BY <1>3, <1>5, <2>1
<1> QED
  BY <1>2, <1>3, <1>4, <1>5

LEMMA InitMaps == Init => Call!Init
<1> SUFFICES ASSUME Init PROVE Call!Init
  OBVIOUS
<1>1. Meaning(reply) \in Results \cup {None}
  BY ClientAssumption DEF RpcResponse, Meaning, Init
<1> QED
  BY <1>1 DEF Init, Call!Init

\* A step that ends the call with an error is a GiveUp.
LEMMA FailMaps ==
  ASSUME IInv, pc # "done", NEW kind \in Failures, NEW quoted,
         Return(kind, None, quoted), reply' = reply
  PROVE  Call!GiveUp
<1>1. outcome = "pending" /\ value = None
  BY DEF IInv, BodyInv, TypeOK
<1>2. kind \notin {"pending", "answer"}
  BY DEF Failures
<1>3. value' = value /\ outcome' = kind
  BY <1>1 DEF Return
<1>4. Meaning(reply)' = Meaning(reply)
  BY DEF Meaning
<1> QED
  BY <1>1, <1>2, <1>3, <1>4 DEF Call!GiveUp

\* A step that leaves the reply and the outcome as they are is a stutter.
LEMMA StutterMaps ==
  ASSUME UNCHANGED <<reply, outcome, value>>
  PROVE  UNCHANGED Call!vars
<1>1. Meaning(reply)' = Meaning(reply)
  BY DEF Meaning
<1> QED
  BY <1>1 DEF Call!vars

\* The end of the body is an Answer when it decodes to a result, and a GiveUp otherwise.
LEMMA EndOfBodyMaps ==
  ASSUME IInv, EndOfBody
  PROVE  Call!Next
<1>1. pc = "reading" /\ reply' = reply /\ Judge(body)
  BY DEF EndOfBody
<1>2. {"not text", "status", "decode", "error", "missing"} \subseteq Failures
  BY DEF Failures
<1>3. ASSUME NEW kind \in {"not text", "status", "decode", "error", "missing"}, NEW quoted,
             Return(kind, None, quoted)
      PROVE  Call!Next
  BY <1>1, <1>2, <1>3, FailMaps DEF Call!Next
<1>4. CASE /\ IsUtf8(body) /\ reply.ok /\ body \in DOMAIN Json /\ Json[body].error = None
           /\ Json[body].result # None
           /\ Return("answer", Json[body].result, <<>>)
  <2>1. body = reply.text
    BY <1>4, DecodedIsWhole
  <2>2. Meaning(reply) = Json[body].result
    BY <1>4, <2>1 DEF Meaning
  <2>3. Meaning(reply)' = Meaning(reply)
    BY <1>1 DEF Meaning
  <2>4. outcome = "pending" /\ outcome' = "answer" /\ value' = Meaning(reply)
    BY <1>1, <1>4, <2>2 DEF IInv, BodyInv, Return
  <2> QED
    BY <1>4, <2>2, <2>3, <2>4 DEF Call!Next, Call!Answer
<1> QED
  BY <1>1, <1>3, <1>4 DEF Judge, DecodeError, Fail

LEMMA StepMaps == IInv /\ [Next]_vars => [Call!Next]_(Call!vars)
<1> SUFFICES ASSUME IInv, [Next]_vars PROVE Call!Next \/ UNCHANGED Call!vars
  OBVIOUS
<1>1. CASE UNCHANGED <<reply, outcome, value>>
  BY <1>1, StutterMaps
<1>2. CASE EndOfBody
  BY <1>2, EndOfBodyMaps
<1>3. ASSUME NEW kind \in {"too large", "timeout", "transport"}, Fail(kind), pc # "done",
             reply' = reply
      PROVE  Call!Next
  <2>1. kind \in Failures
    BY DEF Failures
  <2> QED
    BY <1>3, <2>1, FailMaps DEF Fail, Call!Next
<1>4. CASE Headers
  BY <1>1, <1>3, <1>4 DEF Headers
<1>5. ASSUME NEW n \in 1 .. Len(reply.text), Chunk(n)
      PROVE  Call!Next \/ UNCHANGED Call!vars
  BY <1>1, <1>3, <1>5 DEF Chunk
<1>6. CASE Connect \/ Tick \/ UNCHANGED vars
  BY <1>1, <1>6 DEF Connect, Tick, vars
<1>7. CASE Break \/ TimeOut
  BY <1>3, <1>7 DEF Break, TimeOut
<1> QED
  BY <1>2, <1>4, <1>5, <1>6, <1>7 DEF Next, Returned

\* For every peer, the call is the one the pipeline assumes: decided once, by the whole result
\* the node has or by an error (rpc_call, rpc.rs:232-275).
THEOREM ImplementsCallSafety == Spec => Call!Safety
<1>1. Spec => []IInv
  BY InitIInv, NextIInv, PTL DEF Spec
<1> QED
  BY <1>1, InitMaps, StepMaps, PTL DEF Spec, Call!Safety

----------------------------------------------------------------------------
(* What is quoted *)

\* Nothing is quoted before the call is over, nor changed afterwards.
QuoteInv == (pc # "done" => quote = <<>>) /\ QuotesAreSanitized

LEMMA NothingIsFit == IsFitToShow(<<>>, MaxQuoted)
<1>1. IsUtf8(<<>>)
  BY PlainIsUtf8
<1> QED
  BY <1>1, RedactionAssumption DEF IsFitToShow, Truncated

LEMMA EndOfBodyQuotes ==
  ASSUME EchoesAreWhole, TypeOK, QuoteInv, EndOfBody
  PROVE  QuoteInv'
<1>1. reply \in Replies /\ reply.text \in Seq(Byte) /\ reply' = reply /\ body' = body /\ pc' = "done"
  BY ClientAssumption DEF TypeOK, EndOfBody, Judge, DecodeError, Fail, Return
<1>2. \/ outcome' \notin {"status", "error"}
      \/ quote' = <<>> \/ (IsUtf8(body) /\ quote' = SanitizeBody(body, Url))
      \/ body \in DOMAIN Json /\ Json[body].error # None /\ quote' = SanitizeBody(Json[body].error, Url)
  BY DEF EndOfBody, Judge, DecodeError, Fail, Return
<1>3. ASSUME body = reply.text, outcome' \in {"status", "error"} PROVE IsFitToShow(quote', MaxQuoted)
  <2>1. CASE quote' = <<>>
    BY <2>1, NothingIsFit
  <2>2. CASE IsUtf8(body) /\ quote' = SanitizeBody(body, Url)
    <3>1. body \in Seq(Byte) /\ IsRedactable(Url) /\ KeyOnlyInEchoes(body, Url)
      BY <1>1, <1>3, <2>2 DEF EchoesAreWhole
    <3> QED
      BY <2>2, <3>1, BodyIsFit, ClientAssumption
  <2>3. CASE body \in DOMAIN Json /\ Json[body].error # None /\ quote' = SanitizeBody(Json[body].error, Url)
    <3>1. PICK message : message = Json[body].error
      OBVIOUS
    <3>2. message \in Seq(Byte)
      <4>1. Json[body] \in RpcResponse
        BY <2>3, ClientAssumption
      <4>2. Json[body].error \in Seq(Byte) \cup {None}
        BY <4>1 DEF RpcResponse
      <4> QED
        BY <2>3, <3>1, <4>2
    <3>3. IsUtf8(message) /\ KeyOnlyInEchoes(message, Url) /\ IsRedactable(Url)
      BY <2>3, <3>1 DEF EchoesAreWhole
    <3> QED
      BY <2>3, <3>1, <3>2, <3>3, BodyIsFit, ClientAssumption
  <2> QED
    BY <1>2, <1>3, <2>1, <2>2, <2>3
<1> QED
  BY <1>1, <1>3 DEF QuoteInv, QuotesAreSanitized

LEMMA NextQuotes ==
  ASSUME EchoesAreWhole, TypeOK, QuoteInv, [Next]_vars
  PROVE  QuoteInv'
<1>1. ASSUME UNCHANGED vars PROVE QuoteInv'
  BY <1>1 DEF vars, QuoteInv, QuotesAreSanitized
<1>2. ASSUME quote' = <<>> PROVE QuoteInv'
  BY <1>2, NothingIsFit DEF QuoteInv, QuotesAreSanitized
<1>3. ASSUME pc # "done", UNCHANGED quote PROVE QuoteInv'
  BY <1>2, <1>3 DEF QuoteInv
<1>4. CASE Connect
  BY <1>3, <1>4 DEF Connect
<1>5. CASE Headers
  BY <1>2, <1>3, <1>5 DEF Headers, Fail, Return
<1>6. CASE EndOfBody
  BY <1>6, EndOfBodyQuotes
<1>7. CASE Break
  BY <1>2, <1>7 DEF Break, Fail, Return
<1>8. CASE TimeOut
  BY <1>2, <1>8 DEF TimeOut, Fail, Return
<1>9. CASE Tick
  BY <1>3, <1>9 DEF Tick
<1>10. CASE Returned
  BY <1>1, <1>10 DEF Returned
<1>11. ASSUME NEW n \in 1 .. Len(reply.text), Chunk(n) PROVE QuoteInv'
  BY <1>2, <1>3, <1>11 DEF Chunk, Fail, Return
<1> QED
  BY <1>1, <1>4, <1>5, <1>6, <1>7, <1>8, <1>9, <1>10, <1>11 DEF Next

\* For every peer: what the error of a failed status or of an error object quotes of a text that
\* arrived whole has no part of the key (sanitize_body, rpc.rs:147), if the texts have the key
\* in whole echoes only.  The error of a text that does not decode is not among these.
THEOREM QuotesShowNoKey == ASSUME EchoesAreWhole PROVE Spec => []QuotesAreSanitized
<1>1. Init => QuoteInv
  BY NothingIsFit DEF Init, QuoteInv, QuotesAreSanitized
<1>2. TypeOK /\ QuoteInv /\ [Next]_vars => QuoteInv'
  BY NextQuotes
<1>3. QuoteInv => QuotesAreSanitized
  BY DEF QuoteInv
<1> QED
  BY <1>1, <1>2, <1>3, TypeCorrect, PTL DEF Spec

\* What the report of a failed toolkit shows has no part of the key either (redact_child_stderr,
\* toolkit.rs:114), if the URL is short enough for what is captured and the toolkit writes the
\* key in whole echoes only.
THEOREM StderrShowsNoKey == ASSUME StderrEchoesAreWhole PROVE Spec => []StderrIsSanitized
<1>1. StderrIsSanitized
  <2>1. ASSUME NEW stderr \in Stderrs PROVE IsFitToShow(RedactChildStderr(stderr, Url), MaxStderr)
    <3>1. stderr \in Seq(Byte) /\ Url \in Seq(Byte)
      BY ClientAssumption
    <3>2. IsRedactable(Url) /\ IsAscii(Url) /\ CaptureSuffices(Url) /\ KeyOnlyInEchoes(stderr, Url)
      BY DEF StderrEchoesAreWhole
    <3> QED
      BY <3>1, <3>2, StderrHidesTheKey
  <2> QED
    BY <2>1 DEF StderrIsSanitized, Reports
<1> QED
  BY <1>1, PTL
=============================================================================
