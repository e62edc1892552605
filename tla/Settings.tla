------------------------------ MODULE Settings ------------------------------
(***************************************************************************)
(* How the host reads its settings: script/src/config.rs, the parsing and  *)
(* the URL of helpers.rs, the environment handed to the toolkit            *)
(* (toolkit.rs), and the .env file that main.rs loads first.               *)
(*                                                                         *)
(* An environment maps the names that are set to texts, or to NotUnicode.  *)
(* A text is a sequence of letters; a word that is only ever compared as a *)
(* whole counts as one letter.                                             *)
(***************************************************************************)
EXTENDS Integers, Sequences, FiniteSetsExt

CONSTANTS
  NotUnicode,   \* the value of a variable that is not text
  Default,      \* a setting left to its default
  Malformed,    \* a setting that stops the run
  Addresses,    \* the words that Address::from_str accepts
  MaxU64        \* the largest u64

ASSUME SettingsAssumption ==
  /\ MaxU64 \in Nat
  /\ {Default, Malformed} \cap Addresses = {} /\ Default # Malformed
  /\ Default \notin Nat

Digits == <<"0", "1", "2", "3", "4", "5", "6", "7", "8", "9", "a", "b", "c", "d", "e", "f">>
DigitValue(letter) == CHOOSE d \in 0 .. 15 : Digits[d + 1] = letter

\* u64::from_str_radix, which allows a plus sign.
FromStrRadix(text, radix) ==
  LET digits == IF text # <<>> /\ text[1] = "+" THEN Tail(text) ELSE text
      upTo[n \in 0 .. Len(digits)] ==
        IF n = 0 THEN 0 ELSE radix * upTo[n - 1] + DigitValue(digits[n])
  IN IF digits = <<>> \/ ~ \A i \in DOMAIN digits : \E d \in 1 .. radix : digits[i] = Digits[d]
       THEN Malformed
     ELSE IF upTo[Len(digits)] > MaxU64 THEN Malformed
     ELSE upTo[Len(digits)]

HasPrefix(text, prefix) == Len(text) >= Len(prefix) /\ SubSeq(text, 1, Len(prefix)) = prefix

\* parse_u64: hexadecimal after 0x, decimal otherwise.
ParseU64(text) ==
  IF HasPrefix(text, <<"0", "x">>)
    THEN FromStrRadix(SubSeq(text, 3, Len(text)), 16)
    ELSE FromStrRadix(text, 10)

Trim(text) ==
  LET inked == {i \in DOMAIN text : text[i] # " "} IN
  IF inked = {} THEN <<>> ELSE SubSeq(text, Min(inked), Max(inked))

\* parse_positive_u64_str: decimal only, and zero does not mean "no limit".
ParsePositive(text) ==
  LET n == FromStrRadix(Trim(text), 10) IN IF n = 0 THEN Malformed ELSE n

ParseAddress(text) == IF text \in {<<a>> : a \in Addresses} THEN text[1] ELSE Malformed
-----------------------------------------------------------------------------
Numbers == {"CHAIN_ID", "BLOCK_NUMBER", "EPOCH"}
Deadlines == {"RPC_REQUEST_TIMEOUT_SECS", "TOOLKIT_TIMEOUT_SECS"}
Overrides == Numbers \cup Deadlines \cup {"GAUGE_CONTROLLER"}

Parse(name, text) ==
  CASE name \in Numbers -> ParseU64(text)
    [] name \in Deadlines -> ParsePositive(text)
    [] OTHER -> ParseAddress(text)

\* Mutation: a value that does not parse is left out, as env::var(..).ok() would.
Lenient(env, name) ==
  IF name \notin DOMAIN env \/ env[name] = NotUnicode THEN Default
  ELSE IF Parse(name, env[name]) = Malformed THEN Default
  ELSE Parse(name, env[name])

\* parse_optional_u64_env, parse_optional_address_env, parse_positive_u64_env: what is not set is
\* the default, and so is what is set to nothing unless it is a deadline; the rest must parse.
Override(env, name) ==
  IF name \notin DOMAIN env THEN Default
  ELSE IF env[name] = NotUnicode THEN Malformed
  ELSE IF env[name] = <<>> /\ name \notin Deadlines THEN Default
  ELSE Parse(name, env[name])

\* require_env, parse_address_env.
Required(env, name) ==
  IF name \notin DOMAIN env THEN Malformed
  ELSE IF env[name] = NotUnicode THEN Malformed
  ELSE ParseAddress(env[name])

\* env::var(name).unwrap_or(otherwise).
VarOr(env, name, otherwise) ==
  IF name \in DOMAIN env THEN IF env[name] = NotUnicode THEN otherwise ELSE env[name]
  ELSE otherwise

\* to_lowercase, of the words that are looked for.
LowerCase ==
  [PROVE |-> "prove", Plonk |-> "plonk", GROTH16 |-> "groth16", RPC |-> "rpc", TRUE |-> "true"]
Lower(text) ==
  [i \in DOMAIN text |-> IF text[i] \in DOMAIN LowerCase THEN LowerCase[text[i]] ELSE text[i]]

\* A setting that takes one of a few words; any other word is the default.
OneOf(env, name, words, otherwise) ==
  LET text == Lower(VarOr(env, name, <<otherwise>>)) IN
  IF text \in {<<w>> : w \in words} THEN text[1] ELSE otherwise

RunMode(env) == OneOf(env, "RUN_MODE", {"prove"}, "execute")
ProofKind(env) == OneOf(env, "PROOF_KIND", {"compressed", "plonk", "groth16"}, "core")
ProofSource(env) == OneOf(env, "PROOF_SOURCE", {"rpc"}, "toolkit")

\* parse_optional_bool_env(name).unwrap_or(false).
Flag(env, name) == Lower(VarOr(env, name, <<>>)) \in {<<"1">>, <<"true">>, <<"yes">>}
-----------------------------------------------------------------------------
SupportedChains == {1, 10, 42161, 8453, 137, 56}

\* toolkit_rpc_env_name: a variable for each chain that is supported.
ToolkitRpcEnvName(chain) ==
  CASE chain = 1 -> "ETHEREUM_MAINNET_RPC_URL"
    [] chain = 10 -> "OPTIMISM_MAINNET_RPC_URL"
    [] chain = 42161 -> "ARBITRUM_MAINNET_RPC_URL"
    [] chain = 8453 -> "BASE_MAINNET_RPC_URL"
    [] chain = 137 -> "POLYGON_MAINNET_RPC_URL"
    [] chain = 56 -> "BSC_MAINNET_RPC_URL"
    [] OTHER -> "unsupported"

\* Mutation: RPC_URL, which the error of resolve_rpc_url names, comes first.
RpcUrlFirst(env, chain) ==
  IF chain \in SupportedChains
    THEN VarOr(env, "RPC_URL", VarOr(env, ToolkitRpcEnvName(chain), Malformed))
    ELSE Malformed

\* resolve_rpc_url: RPC_URL is not read.
ResolveRpcUrl(env, chain) ==
  IF chain \in SupportedChains THEN VarOr(env, ToolkitRpcEnvName(chain), Malformed) ELSE Malformed

Passthrough ==
  {"PATH", "HOME", "HTTPS_PROXY", "HTTP_PROXY", "NO_PROXY", "REQUESTS_CA_BUNDLE", "SSL_CERT_FILE"}

\* allowlisted_child_env: the URL, what Python needs to reach the network, and PYTHONPATH.
ChildEnv(env, chain) ==
  LET handed == {name \in Passthrough \cap DOMAIN env : env[name] # NotUnicode}
      path == IF VarOr(env, "TOOLKIT_ROOT", Malformed) = Malformed THEN {} ELSE {"PYTHONPATH"}
  IN [name \in {ToolkitRpcEnvName(chain)} \cup handed \cup path |->
        CASE name = ToolkitRpcEnvName(chain) -> ResolveRpcUrl(env, chain)
          [] name = "PYTHONPATH" -> env["TOOLKIT_ROOT"]
          [] OTHER -> env[name]]
-----------------------------------------------------------------------------
\* A line of .env sets what is not set yet, or not to a text.
AfterLine(env, line) ==
  [name \in DOMAIN env \cup {line.name} |->
     IF name = line.name THEN VarOr(env, name, line.text) ELSE env[name]]

\* dotenvy::dotenv().ok(), line by line; the first line that does not parse ends it, without a
\* word.  A line is [name, text], or has the name "" when malformed.
LoadDotenv(env, lines) ==
  LET after[i \in 0 .. Len(lines)] ==
        IF i = 0 THEN env
        ELSE IF \E j \in 1 .. i : lines[j].name = "" THEN after[i - 1]
        ELSE AfterLine(after[i - 1], lines[i])
  IN after[Len(lines)]
=============================================================================
