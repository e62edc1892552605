---------------------------- MODULE MCArtifacts ----------------------------
(* Two runs that share their files, over a handful of settings each. *)
EXTENDS Artifacts, TLC

CONSTANTS a, b, old, new, gauge, other

MCRuns == {a, b}
MCElfFiles == <<<<"program">>, <<"target">>>>

\* What each text means to who writes it; the others mean nothing.
Means ==
  (<<"7">> :> 7) @@ (<<"0", "x", "f">> :> 15) @@ (<<"1", "5">> :> 15) @@ (<<"+", "7">> :> 7)
    @@ (<<" ", "7", " ">> :> 7) @@ (<<"0">> :> 0) @@ (<<"1", "0">> :> 10) @@ (<<"0", "x", "1">> :> 1) @@ (<<gauge>> :> gauge)

Nonsense == {<<>>, <<"f">>, <<"0", "x">>, <<"-", "7">>, <<"typo">>}

Texts ==
  DOMAIN Means \cup {<<"1", "6">>} \cup Nonsense

\* Requests on two chains; one path holds none.
MCInputJson == (<<"mainnet">> :> 1) @@ (<<"optimism">> :> 10)

Point(epoch, bias) ==
  [gauge |-> gauge, epoch |-> epoch, bias |-> bias, protocol_id |-> 1, gauge_controller |-> other]

MCValues ==
  {[stateRoot |-> "root", epoch |-> 7, points |-> <<Point(7, 3), Point(7, 4)>>,
    accounts |->
      <<[account |-> other, gauge |-> gauge, epoch |-> 7, slope |-> 2, end |-> 9, last_vote |-> 5,
         protocol_id |-> 1, gauge_controller |-> other]>>],
   [stateRoot |-> "root", epoch |-> 7, points |-> <<>>, accounts |-> <<>>]}

\* What every run needs: the request and the node.
Base ==
  [GAUGE |-> <<gauge>>, ACCOUNT |-> <<other>>, ETHEREUM_MAINNET_RPC_URL |-> <<"url">>,
   NETWORK_PRIVATE_KEY |-> <<"key">>, PATH |-> <<"bin">>]

With(more) == [env |-> more @@ Base, file |-> <<>>]

\* One override at a time, in the environment or in the file.
Probes ==
  LET names == Overrides \cup {"CHAIN_ID"} IN
  {With(name :> text) : name \in names, text \in Texts \cup {NotUnicode}}
    \cup {[env |-> Base, file |-> <<[name |-> name, text |-> text]>>] : name \in names, text \in Texts}

\* Files with a line twice, with a line the environment has, and with one that does not parse;
\* names in the wrong place; a chain of its own.
Odd ==
  {[env |-> ("EPOCH" :> <<"7">>) @@ Base,
    file |-> <<[name |-> "EPOCH", text |-> <<"0">>], [name |-> "BLOCK_NUMBER", text |-> <<"7">>],
               [name |-> "BLOCK_NUMBER", text |-> <<"0">>]>>],
   [env |-> ("EPOCH" :> NotUnicode) @@ Base, file |-> <<[name |-> "EPOCH", text |-> <<"0">>]>>],
   [env |-> Base, file |-> <<[name |-> "", text |-> <<>>], [name |-> "EPOCH", text |-> <<"typo">>]>>],
   With("PROOF_SOURCE" :> <<"RPC">> @@ "TOOLKIT_TIMEOUT_SECS" :> <<"typo">>),
   With("CHAIN_ID" :> <<"1", "0">> @@ "OPTIMISM_MAINNET_RPC_URL" :> <<"other url">>),
   With("CHAIN_ID" :> <<"1", "0">>),
   With("RPC_URL" :> <<"third url">>),
   [env |-> "ETHEREUM_MAINNET_RPC_URL" :> NotUnicode @@ Base,
    file |-> <<[name |-> "ETHEREUM_MAINNET_RPC_URL", text |-> <<"other url">>]>>],
   [env |-> Base, file |-> <<[name |-> "CHAIN_ID", text |-> <<"1", "0">>],
                             [name |-> "OPTIMISM_MAINNET_RPC_URL", text |-> <<"other url">>]>>],
   With("TOOLKIT_ROOT" :> <<"toolkit">>),
   With("VKEY_ONLY" :> <<"TRUE">> @@ "EPOCH" :> <<"typo">>),
   With("RUN_MODE" :> <<"mock">>)}

\* A request in a file, by each kind of path, on a chain that CHAIN_ID contradicts or that has
\* no node, beside overrides that it replaces and a deadline that it does not.
Files ==
  LET two == "OPTIMISM_MAINNET_RPC_URL" :> <<"other url">> IN
  {With("INPUT_JSON" :> path @@ two) :
     path \in DOMAIN MCInputJson \cup {<<"missing">>, <<>>, NotUnicode}}
    \cup {With("INPUT_JSON" :> <<"optimism">>),
          With("INPUT_JSON" :> <<"optimism">> @@ two @@ "CHAIN_ID" :> <<"1">> @@ "EPOCH" :> <<"typo">>),
          With("INPUT_JSON" :> <<"mainnet">> @@ two @@ "CHAIN_ID" :> <<"1", "0">>),
          With("INPUT_JSON" :> <<"mainnet">> @@ "RPC_REQUEST_TIMEOUT_SECS" :> <<"typo">>),
          [env |-> two @@ Base, file |-> <<[name |-> "INPUT_JSON", text |-> <<"optimism">>]>>]}

Proving == "RUN_MODE" :> <<"PROVE">>

Core == With(Proving)
Verified == With(Proving @@ "PROOF_KIND" :> <<"Plonk">> @@ "VERIFY_PROOF" :> <<"true">>)
SameName == With(Proving @@ "SP1_ELF_PATH" :> <<"target">> @@ "PROOF_JSON" :> <<"proof.bin">>)
NoName == With(Proving @@ "PROOF_OUTPUT" :> <<>>)
Idle == With("SP1_ELF_PATH" :> <<"typo">>)

\* Nothing tells the two builds apart.
Symmetry == Permutations({old, new})

MCStarts ==
  {(a :> s) @@ (b :> Idle) : s \in Probes \cup Odd \cup Files \cup {NoName}}
    \cup {(a :> Core) @@ (b :> s) : s \in {Core, Verified, SameName}}
    \cup {(a :> Verified) @@ (b :> Verified)}

\* Reads agrees with who writes the texts.
ASSUME ReadAsMeant ==
  LET values == 0 .. 16 \cup Addresses IN
  /\ \A text \in DOMAIN Means : {v \in values : Reads(text, v)} = {Means[text]}
  /\ \A text \in Nonsense : \A v \in values : ~Reads(text, v)
=============================================================================
