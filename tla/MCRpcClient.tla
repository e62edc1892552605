---------------------------- MODULE MCRpcClient ----------------------------
(* One URL with a key in its path, and the replies that matter to a client. *)
EXTENDS RpcClient

CONSTANTS r1, r2

MCResults == {r1, r2}
MCByte == {"h", "://", "/", "k", "<", ">", "^", "?", "hi", "lo", "{", "}", "1", "2", "...", "'"}

\* The shortest path that is worth scrubbing, with the key in it.
MCUrl == <<"h", "://", "h", "/", "k", "k">>

Doc(letter) == <<"{", letter, "}">>
ErrorText == <<"^">> \o MCUrl \o <<"^", "hi", "lo">> \o PathAndQuery(MCUrl)
Refusal == <<"{">> \o MCUrl \o <<"}">>
Both == <<"{", "2", "1", "}">>
Neither == <<"{", "}">>

MCJson ==
  [text \in {Doc("1"), Doc("2"), Refusal, Both, Neither} |->
     CASE text = Doc("1") -> [error |-> None, result |-> r1]
       [] text = Doc("2") -> [error |-> None, result |-> r2]
       [] text = Refusal -> [error |-> ErrorText, result |-> None]
       [] text = Both -> [error |-> <<"1">>, result |-> r2]
       [] text = Neither -> [error |-> None, result |-> None]]

\* A string where an object is asked for.
Misplaced == <<"'">> \o MCUrl \o <<"'">>
MCMisfit == [text \in {Misplaced} |-> MCUrl]

Texts ==
  DOMAIN MCJson \cup
  {Misplaced} \cup
  {ErrorText,                                 \* longer than MaxBody
   MCUrl \o <<"hi", "lo">>,                   \* exactly MaxBody
   <<"hi">> \o MCUrl}                         \* not UTF-8

MCReplies ==
  {r \in [ok: BOOLEAN, length: {None, 2, 3, 8, 9}, chunked: BOOLEAN, text: Texts] :
     r.length # None => ~r.chunked}

\* The replies are among those of which QuotesAreSanitized is proved.
ASSUME EchoesAreWhole

\* What the toolkit may write: up to six of an echo of the URL, an echo of its path, a letter and
\* either half of a character.  The capture ends within an echo of either, and behind one.
MCStderrs ==
  LET pieces == {MCUrl, PathAndQuery(MCUrl), <<"h">>, <<"hi">>, <<"lo">>}
      texts[k \in 0 .. 6] ==
        IF k = 0 THEN {<<>>} ELSE {text \o piece : text \in texts[k - 1], piece \in pieces}
  IN UNION {texts[k] : k \in 0 .. 6}

\* They are among those of which StderrIsSanitized is proved.
ASSUME StderrEchoesAreWhole
=============================================================================
