----------------------------- MODULE Redaction -----------------------------
(***************************************************************************)
(* What an error message may quote of a text that somebody else wrote: the *)
(* body of an HTTP response (sanitize_body of script/src/rpc.rs) or what   *)
(* the toolkit wrote to stderr (redact_child_stderr of toolkit.rs).  Both  *)
(* scrub the RPC URL and its path, which hold a key, and bound the length. *)
(*                                                                         *)
(* A text is a sequence of bytes.  "hi" and "lo" are the two bytes of one  *)
(* character, "^" is a control character; the separator "://" counts as    *)
(* one byte.                                                               *)
(***************************************************************************)
EXTENDS Integers, Sequences, FiniteSetsExt

CONSTANTS
  MaxQuoted,         \* MAX_QUOTED_BODY_BYTES
  MaxStderr,         \* MAX_TOOLKIT_STDERR_BYTES
  MinRedactablePath  \* MIN_REDACTABLE_PATH

ASSUME RedactionAssumption ==
  MaxQuoted \in Nat \ {0} /\ MaxStderr \in Nat \ {0} /\ MinRedactablePath \in Nat \ {0}

CaptureStderr == 4 * MaxStderr

\* String::from_utf8 succeeds.
IsUtf8(bytes) ==
  \A i \in 1 .. Len(bytes) + 1 :
    (i > 1 /\ bytes[i - 1] = "hi") <=> (i <= Len(bytes) /\ bytes[i] = "lo")

\* String::from_utf8_lossy: a replacement character for each half of one.
Lossy(bytes) ==
  LET Half(i) == \/ bytes[i] = "hi" /\ ~(i < Len(bytes) /\ bytes[i + 1] = "lo")
                 \/ bytes[i] = "lo" /\ ~(i > 1 /\ bytes[i - 1] = "hi")
      from[i \in 1 .. Len(bytes) + 1] ==
        IF i > Len(bytes) THEN <<>>
        ELSE (IF Half(i) THEN <<"hi", "lo">> ELSE <<bytes[i]>>) \o from[i + 1]
  IN from[1]

OccursAt(pattern, text, i) ==
  /\ i + Len(pattern) - 1 <= Len(text)
  /\ \A j \in DOMAIN pattern : text[i + j - 1] = pattern[j]

\* str::replace; the pattern is never empty here.
ReplaceIn(text, pattern, by) ==
  LET from[i \in 1 .. Len(text) + 1] ==
        IF i > Len(text) THEN <<>>
        ELSE IF OccursAt(pattern, text, i) THEN by \o from[i + Len(pattern)]
        ELSE <<text[i]>> \o from[i + 1]
  IN from[1]

\* The second part of split_url_origin: the path and the query, empty if there is none.
PathAndQuery(url) ==
  LET slashes == {i \in DOMAIN url : url[i] = "/" /\ \E j \in 1 .. i : url[j] = "://"} IN
  IF slashes = {} THEN <<>> ELSE SubSeq(url, Min(slashes), Len(url))

UrlMark == <<"<", ">">>    \* "<redacted-rpc-url>"
PathMark == <<"/", "<", ">">>

\* A path that is too short to hold a key is left alone: it would rewrite every slash.
Redact(text, url) ==
  LET path == PathAndQuery(url)
      scrubbed == ReplaceIn(text, url, UrlMark)
  IN IF Len(path) >= MinRedactablePath THEN ReplaceIn(scrubbed, path, PathMark) ELSE scrubbed

Printable(text) == [i \in DOMAIN text |-> IF text[i] = "^" THEN "?" ELSE text[i]]

\* is_char_boundary.
IsBoundary(text, cut) == cut \in {0, Len(text)} \/ (cut < Len(text) /\ text[cut + 1] # "lo")

Truncated == <<"...">>    \* "... <truncated>"

Bounded(text, cap) ==
  IF Len(text) <= cap THEN text
  ELSE SubSeq(text, 1, Max({cut \in 0 .. cap : IsBoundary(text, cut)})) \o Truncated

\* Mutation: the body is cut first.
CutThenScrub(body, url) == Printable(Redact(Bounded(body, MaxQuoted), url))

SanitizeBody(body, url) == Bounded(Printable(Redact(body, url)), MaxQuoted)

\* Mutation: what is captured is what is shown.
CaptureWhatIsShown(stderr, url) ==
  Bounded(Redact(Lossy(SubSeq(stderr, 1, Min({Len(stderr), MaxStderr}))), url), MaxStderr)

\* Of what the child writes, CAPTURE_TOOLKIT_STDERR_BYTES are kept.
RedactChildStderr(stderr, url) ==
  Bounded(Redact(Lossy(SubSeq(stderr, 1, Min({Len(stderr), CaptureStderr}))), url), MaxStderr)

Occurrences(pattern, text) == {i \in DOMAIN text : OccursAt(pattern, text, i)}

\* A text that has the key, here the letter "k", in whole echoes of the URL or of its path only.
\* No echo begins within another one: a substring that is replaced would take a part of both.
KeyOnlyInEchoes(text, url) ==
  LET path == PathAndQuery(url)
      echoes == Occurrences(path, text) IN
  /\ \A p \in DOMAIN text :
       text[p] = "k" => \E e \in echoes : e <= p /\ p < e + Len(path)
  /\ \A e \in echoes : \A o \in echoes \cup Occurrences(url, text) :
       e < o => e + Len(path) <= o

\* The path is long enough to be scrubbed on its own, and has none of the letters of the marks.
IsRedactable(url) ==
  LET path == PathAndQuery(url) IN
  /\ Len(path) >= MinRedactablePath
  /\ \A i \in DOMAIN path : path[i] \notin {"<", ">"}

\* The URL has the letters of ASCII only: from_utf8_lossy brings in none of them.
IsAscii(url) == \A i \in DOMAIN url : url[i] \notin {"hi", "lo"}

\* More is captured than is shown: what precedes an echo that the capture cuts is still all that
\* is shown, though it be nothing but echoes and each of them shrink to a mark.  With the code's
\* constants that is an URL of 71 bytes with a path of 43 of them, or less.
CaptureSuffices(url) ==
  LET path == PathAndQuery(url)
      uncut == CaptureStderr - Len(path) + 1 IN
  /\ MaxStderr * Len(url) <= uncut * Len(UrlMark)
  /\ MaxStderr * Len(path) <= uncut * Len(PathMark)

\* What a quotation owes its reader: no part of the key, here the letter "k", whole characters,
\* and no more than the cap and the mark of truncation.
IsFitToShow(quote, cap) ==
  /\ \A i \in DOMAIN quote : quote[i] # "k"
  /\ IsUtf8(quote)
  /\ Len(quote) <= cap + Len(Truncated)
=============================================================================
