----------------------------- MODULE RpcClient -----------------------------
(***************************************************************************)
(* One JSON-RPC call: rpc_call and read_body_bounded of script/src/rpc.rs, *)
(* over the reqwest client that build_http_client_with sets up.  The peer  *)
(* sends what it likes, in pieces of any size, as slowly as it likes, and  *)
(* may fall silent or break off at any point.                              *)
(***************************************************************************)
EXTENDS Redaction

CONSTANTS
  Byte,            \* the letters of the texts
  Url,             \* the RPC URL
  Replies,         \* the responses the peer may start to send
  Stderrs,         \* what the toolkit, which is handed the same URL, may write to stderr
  Json,            \* what serde_json makes of a whole text; the texts it rejects are not in it
  Misfit,          \* the rejected texts that hold a string where none is asked for, and that string
  Results, None,
  MaxBody,         \* MAX_RPC_BODY_BYTES
  ConnectTimeout, ReadTimeout, TotalTimeout,
  Horizon          \* where the clock of the model stops

\* RpcResponse, of which only the message of the error is ever shown.
RpcResponse == [error: Seq(Byte) \cup {None}, result: Results \cup {None}]

ASSUME ClientAssumption ==
  /\ Url \in Seq(Byte) /\ IsUtf8(Url)
  /\ None \notin Results
  /\ MaxBody \in Nat
  /\ ConnectTimeout \in Nat /\ ReadTimeout \in Nat /\ TotalTimeout \in Nat /\ Horizon \in Nat
  /\ TotalTimeout < Horizon
  /\ Replies \subseteq [ok: BOOLEAN, length: Nat \cup {None}, chunked: BOOLEAN, text: Seq(Byte)]
  /\ Json \in [DOMAIN Json -> RpcResponse]
  /\ Misfit \in [DOMAIN Misfit -> Seq(Byte)]
  /\ DOMAIN Misfit \cap DOMAIN Json = {}
  /\ Stderrs \subseteq Seq(Byte)

\* A response is one JSON object: what is missing its end is not one.
ASSUME WholeDocuments ==
  \A r \in Replies : \A n \in 0 .. Len(r.text) - 1 : SubSeq(r.text, 1, n) \notin DOMAIN Json

VARIABLES
  reply,     \* the response the peer has in mind
  pc,        \* "connecting", "waiting" for the headers, "reading" the body, "done"
  body,      \* the bytes read_body_bounded holds
  outcome,   \* "pending", "answer", or the kind of the error
  value,     \* the result returned, or None
  quote,     \* what the error quotes of the peer's text
  now,       \* ticks since the call began
  quiet      \* ticks since it began, or since the peer was last heard of

vars == <<reply, pc, body, outcome, value, quote, now, quiet>>

Failures == {"timeout", "transport", "too large", "not text", "status", "decode", "error", "missing"}

TypeOK ==
  /\ reply \in Replies
  /\ pc \in {"connecting", "waiting", "reading", "done"}
  /\ body \in Seq(Byte)
  /\ outcome \in {"pending", "answer"} \cup Failures
  /\ value \in Results \cup {None}
  /\ (outcome = "answer") <=> (value # None)
  /\ now \in 0 .. Horizon
  /\ quiet \in 0 .. now

Init ==
  /\ reply \in Replies
  /\ pc = "connecting"
  /\ body = <<>> /\ outcome = "pending" /\ value = None /\ quote = <<>>
  /\ now = 0 /\ quiet = 0

Return(kind, result, quoted) ==
  /\ pc' = "done"
  /\ outcome' = kind /\ value' = result /\ quote' = quoted

Fail(kind) == Return(kind, None, <<>>)

Connect ==
  /\ pc = "connecting"
  /\ pc' = "waiting"
  /\ UNCHANGED <<reply, body, outcome, value, quote, now, quiet>>

AdvertisesTooMuch(r) == r.length # None /\ r.length > MaxBody

\* A Content-Length over the cap is refused before a byte of the body is read.
Headers ==
  /\ pc = "waiting"
  /\ quiet' = 0
  /\ IF AdvertisesTooMuch(reply)
       THEN Fail("too large")
       ELSE pc' = "reading" /\ UNCHANGED <<outcome, value, quote>>
  /\ UNCHANGED <<reply, body, now>>

\* The transport hands over nothing beyond the advertised length.
Sent(r) ==
  IF r.length # None /\ r.length < Len(r.text) THEN SubSeq(r.text, 1, r.length) ELSE r.text

\* Mutation: the cap is looked at once the chunk is in.
BuffersFirst(n) ==
  /\ pc = "reading"
  /\ Len(body) + n <= Len(Sent(reply))
  /\ quiet' = 0
  /\ body' = SubSeq(reply.text, 1, Len(body) + n)
  /\ IF Len(body') > MaxBody THEN Fail("too large") ELSE UNCHANGED <<pc, outcome, value, quote>>
  /\ UNCHANGED <<reply, now>>

\* The next n bytes: refused before they are buffered when they would pass the cap.
Chunk(n) ==
  /\ pc = "reading"
  /\ Len(body) + n <= Len(Sent(reply))
  /\ quiet' = 0
  /\ \/ Len(body) + n > MaxBody /\ Fail("too large") /\ UNCHANGED body
     \/ Len(body) + n <= MaxBody
        /\ body' = SubSeq(reply.text, 1, Len(body) + n)
        /\ UNCHANGED <<pc, outcome, value, quote>>
  /\ UNCHANGED <<reply, now>>

\* Where the transport reports the end of the body: at the advertised length, at the last
\* chunk, or, with neither, wherever the peer closes the connection.
Ends ==
  \/ reply.length # None /\ Len(body) = reply.length
  \/ reply.length = None /\ (reply.chunked => Len(body) = Len(reply.text))

\* Mutation: the result is taken although there is an error beside it.
ResultFirst(text) ==
  IF text \in DOMAIN Json /\ Json[text].result # None
    THEN Return("answer", Json[text].result, <<>>)
    ELSE Fail("decode")

\* Mutation: a result that is missing is returned like any other.
NullIsAnAnswer(text) ==
  IF text \in DOMAIN Json THEN Return("answer", Json[text].result, <<>>) ELSE Fail("decode")

\* serde_json's error names the string it did not ask for, and its own words otherwise.
DecodeError(text) ==
  Return("decode", None, IF text \in DOMAIN Misfit THEN Misfit[text] ELSE <<>>)

\* The status comes after the text and before the JSON, and an error object before the result.
Judge(text) ==
  IF ~IsUtf8(text) THEN Fail("not text")
  ELSE IF ~reply.ok THEN Return("status", None, SanitizeBody(text, Url))
  ELSE IF text \notin DOMAIN Json THEN DecodeError(text)
  ELSE IF Json[text].error # None THEN Return("error", None, SanitizeBody(Json[text].error, Url))
  ELSE IF Json[text].result = None THEN Fail("missing")
  ELSE Return("answer", Json[text].result, <<>>)

EndOfBody ==
  /\ pc = "reading"
  /\ Ends
  /\ Judge(body)
  /\ UNCHANGED <<reply, body, now, quiet>>

\* No connection, a reset, or an end of the stream where none is due.
Break ==
  /\ pc # "done"
  /\ Fail("transport")
  /\ UNCHANGED <<reply, body, now, quiet>>

\* The timers of the client: the total one runs until the body has been read.
Due ==
  \/ pc = "connecting" /\ now >= ConnectTimeout
  \/ quiet >= ReadTimeout
  \/ now >= TotalTimeout

\* A timer that is due may lose against what the peer sends in the same instant.
TimeOut ==
  /\ pc # "done" /\ Due
  /\ Fail("timeout")
  /\ UNCHANGED <<reply, body, now, quiet>>

Tick ==
  /\ pc # "done" /\ ~Due /\ now < Horizon
  /\ now' = now + 1 /\ quiet' = quiet + 1
  /\ UNCHANGED <<reply, pc, body, outcome, value, quote>>

\* main.rs goes on with the result, or stops at the error.
Returned == pc = "done" /\ UNCHANGED vars

Next ==
  \/ Connect \/ Headers \/ EndOfBody \/ Break \/ TimeOut \/ Tick \/ Returned
  \/ \E n \in 1 .. Len(reply.text) : Chunk(n)

\* Nothing is asked of the peer: only the clock runs and timers go off.
Spec == Init /\ [][Next]_vars /\ WF_vars(Tick) /\ WF_vars(TimeOut)
-----------------------------------------------------------------------------
(* What the caller relies on. *)

Oversized == Len(reply.text) > MaxBody \/ AdvertisesTooMuch(reply)

\* The cap holds to the byte for what is buffered, whatever length is advertised, and refuses
\* no response that keeps to it (rpc.rs:213: the Content-Length is only a hint).
CapIsExact ==
  /\ Len(body) <= MaxBody
  /\ outcome = "too large" => Oversized

\* What the error of a failed status or of an error object quotes of a text that arrived whole
\* shows no part of the key of the URL, though the cut may fall within an echo of it
\* (sanitize_body, rpc.rs:147).  An echo that ends with the body, halfway, is beyond a
\* replacement of substrings, and is not claimed.
QuotesAreSanitized ==
  outcome \in {"status", "error"} /\ body = reply.text => IsFitToShow(quote, MaxQuoted)

\* "it gets the same scrub as any other remote-controlled string" (rpc.rs:264): so would what
\* any error quotes, the decoding error of line 259 among them.
RemoteTextIsScrubbed == body = reply.text => IsFitToShow(quote, MaxQuoted)

\* The texts of which that is claimed; what serde_json makes of a message is a String.
EchoesAreWhole ==
  /\ IsRedactable(Url)
  /\ \A r \in Replies : IsUtf8(r.text) => KeyOnlyInEchoes(r.text, Url)
  /\ \A text \in DOMAIN Json : Json[text].error # None =>
       IsUtf8(Json[text].error) /\ KeyOnlyInEchoes(Json[text].error, Url)

\* What the report of a failed toolkit may show of its stderr.
Reports == {RedactChildStderr(stderr, Url) : stderr \in Stderrs}

\* It hides the key as well, though the capture may end within an echo: redaction runs over
\* more than is shown (toolkit.rs:51-58).
StderrIsSanitized == \A report \in Reports : IsFitToShow(report, MaxStderr)

\* The texts of which that is claimed; no hypothesis is about where the capture ends.
StderrEchoesAreWhole ==
  /\ IsRedactable(Url) /\ IsAscii(Url) /\ CaptureSuffices(Url)
  /\ \A stderr \in Stderrs : KeyOnlyInEchoes(stderr, Url)

\* The result a reply stands for.
Meaning(r) ==
  IF r.ok /\ IsUtf8(r.text) /\ r.text \in DOMAIN Json /\ Json[r.text].error = None
    THEN Json[r.text].result
    ELSE None

Call == INSTANCE RpcCall WITH
  NoResult <- None,
  meant <- Meaning(reply),
  status <- IF outcome \in {"pending", "answer"}
              THEN IF outcome = "answer" THEN "answered" ELSE "pending"
              ELSE "failed",
  result <- value

\* The call implements what the pipeline takes it for: it returns the node's whole result or
\* fails, once, and it does not stay pending whatever the peer does.
ImplementsCall == Call!Spec
=============================================================================
