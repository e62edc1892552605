----------------------------- MODULE Artifacts -----------------------------
(***************************************************************************)
(* What runs of the host leave behind: from the settings a run starts with *)
(* to the proof and the JSON artifact it writes (main.rs, persist_proof of *)
(* script/src/proof.rs).  Runs share the ELF files, which a build of the   *)
(* guest replaces under them, and may share the output directory; any of   *)
(* them may stop at any point.                                             *)
(***************************************************************************)
EXTENDS Settings, AbiEncoding

CONSTANTS
  Runs,        \* the runs of the host; those that come later are among them
  Starts,      \* what they may start with: for each run, [env, file], the file being .env
  InputJson,   \* the chain of the request in the file at each path that holds one
  Builds,      \* the guest programs an ELF file may hold
  ElfFiles,    \* the paths of DEFAULT_ELF_REL_PATHS, in order
  Values,      \* the public values a guest may commit
  MaxRebuilds, \* how often an ELF file is replaced
  None

ASSUME ValuesAssumption == Values \subseteq Output

ASSUME ElfFilesAssumption == ElfFiles \in Seq(Seq(STRING))

ASSUME RebuildsAssumption == MaxRebuilds \in Nat

\* No file has an empty path.
ASSUME InputAssumption == {<<>>, NotUnicode} \cap DOMAIN InputJson = {}

IsSequence(text) == text \in Seq({text[i] : i \in DOMAIN text})

\* A file is a sequence of lines, and a line is text.
ASSUME StartsAssumption ==
  \A s \in Starts, r \in Runs :
    LET lines == s[r].file IN
      /\ Len(lines) \in Nat /\ DOMAIN lines = 1 .. Len(lines)
      /\ \A i \in DOMAIN lines : lines[i].text # NotUnicode /\ IsSequence(lines[i].text)
      /\ \A name \in DOMAIN s[r].env : s[r].env[name] # NotUnicode => IsSequence(s[r].env[name])

VARIABLES
  start,       \* what each run starts with
  pc,          \* where each run is
  plan,        \* the settings it goes by, or None
  elf,         \* the program it has read, or None
  proof,       \* the proof it holds, or None
  images,      \* what the ELF files hold: a build, or None
  rebuilds,    \* how many have been replaced
  files,       \* the files written so far
  writers      \* history: the runs that may have written to each file since it was last truncated

vars == <<start, pc, plan, elf, proof, images, rebuilds, files, writers>>

world == <<start, images, rebuilds>>
disk == <<files, writers>>

Init ==
  /\ start \in Starts
  /\ pc = [r \in Runs |-> "start"]
  /\ plan = [r \in Runs |-> None]
  /\ elf = [r \in Runs |-> None]
  /\ proof = [r \in Runs |-> None]
  /\ images \in [ToSet(ElfFiles) -> Builds \cup {None}]
  /\ rebuilds = 0
  /\ files = <<>> /\ writers = <<>>

At(r, from, to) == pc[r] = from /\ pc' = [pc EXCEPT ![r] = to]
-----------------------------------------------------------------------------
(* The settings. *)

\* HostInput::load: the request is in a file when INPUT_JSON is set, to a text.
FromFile(env) == "INPUT_JSON" \in DOMAIN env /\ env["INPUT_JSON"] # NotUnicode

\* The chain of the request, or CHAIN_ID, which is that of Ethereum when not set.
Chain(env) ==
  IF FromFile(env) THEN InputJson[env["INPUT_JSON"]]
  ELSE IF Override(env, "CHAIN_ID") = Default THEN 1
  ELSE Override(env, "CHAIN_ID")

\* A request in a file leaves only the deadlines to the environment; the deadline of the toolkit
\* is not read when it does not run.
Read(env) ==
  (IF FromFile(env) THEN Deadlines ELSE Overrides)
    \ (IF ProofSource(env) = "rpc" THEN {"TOOLKIT_TIMEOUT_SECS"} ELSE {})

\* Everything that has to be there or to parse.
Usable(env) ==
  /\ \A name \in Read(env) : Override(env, name) # Malformed
  /\ IF FromFile(env)
       THEN env["INPUT_JSON"] \in DOMAIN InputJson
       ELSE \A name \in {"GAUGE", "ACCOUNT"} : Required(env, name) # Malformed
  /\ ResolveRpcUrl(env, Chain(env)) # Malformed

\* PathBuf::join, for a path that is relative.
Under(dir, path) == IF HasPrefix(path, <<"/">>) THEN path ELSE dir \o <<"/">> \o path

OutputPath(env, name, otherwise) ==
  Under(VarOr(env, "PROOF_OUTPUT_DIR", <<"/", "output">>), VarOr(env, name, <<otherwise>>))

ProofPath(env) == OutputPath(env, "PROOF_OUTPUT", "proof.bin")
JsonPath(env) == OutputPath(env, "PROOF_JSON", "proof.json")

Plan(env) ==
  [overrides |-> [name \in Read(env) |-> Override(env, name)],
   mode |-> RunMode(env), kind |-> ProofKind(env), source |-> ProofSource(env),
   verify |-> Flag(env, "VERIFY_PROOF"),
   url |-> ResolveRpcUrl(env, Chain(env)),
   prover |-> IF RunMode(env) = "prove" /\ ProofKind(env) \in {"plonk", "groth16"}
                THEN "network" ELSE "cpu",
   child |-> ChildEnv(env, Chain(env)),
   proofPath |-> ProofPath(env), jsonPath |-> JsonPath(env)]

Loaded(r) == LoadDotenv(start[r].env, start[r].file)

\* VKEY_ONLY comes before every other setting; the others are read before anything is done.
\* What fails on the way, here and in every other step, is in Stop.
Configure(r) ==
  /\ \/ Flag(Loaded(r), "VKEY_ONLY") /\ At(r, "start", "key only") /\ UNCHANGED plan
     \/ /\ ~Flag(Loaded(r), "VKEY_ONLY") /\ Usable(Loaded(r)) /\ At(r, "start", "configured")
        /\ plan' = [plan EXCEPT ![r] = Plan(Loaded(r))]
  /\ UNCHANGED <<elf, proof, world, disk>>
-----------------------------------------------------------------------------
(* The program and the proof. *)

\* load_elf: the custom path comes first, and is passed over when it cannot be read.
Candidates(env) ==
  (IF VarOr(env, "SP1_ELF_PATH", Malformed) = Malformed THEN <<>> ELSE <<env["SP1_ELF_PATH"]>>)
    \o ElfFiles

\* Mutation: the first path that is there is taken, without a look at what it holds.
Listed(env) == {i \in DOMAIN Candidates(env) : Candidates(env)[i] \in DOMAIN images}

Readable(env) ==
  {i \in DOMAIN Candidates(env) :
     Candidates(env)[i] \in DOMAIN images /\ images[Candidates(env)[i]] # None}

Found(env) == images[Candidates(env)[Min(Readable(env))]]

\* The key-only run prints the key of the program, the others go on to use it.
ReadElf(r) ==
  /\ \/ At(r, "key only", "done")
     \/ At(r, "configured", "loaded")
  /\ Readable(Loaded(r)) # {}
  /\ elf' = [elf EXCEPT ![r] = Found(Loaded(r))]
  /\ UNCHANGED <<plan, proof, world, disk>>

\* Execution writes nothing.
Execute(r) ==
  /\ At(r, "loaded", "done")
  /\ plan[r].mode = "execute"
  /\ UNCHANGED <<plan, elf, proof, world, disk>>

\* Mutation: the proof is taken as it comes from the network.
TrustTheProver(r) == proof'[r].by = r

\* client.verify, when it is asked for.
PassesVerification(r) == plan[r].verify => proof'[r].valid

\* The prover of the plan proves the program that was read; what the network returns may not
\* verify.
Prove(r) ==
  /\ At(r, "loaded", "proved")
  /\ plan[r].mode = "prove"
  /\ \E values \in Values, valid \in BOOLEAN :
       /\ valid \/ plan[r].prover = "network"
       /\ proof' = [proof EXCEPT ![r] =
            [by |-> r, program |-> elf[r], kind |-> plan[r].kind, values |-> values, valid |-> valid]]
  /\ PassesVerification(r)
  /\ Decode(Encode(proof'[r].values)).ok
  /\ UNCHANGED <<plan, elf, world, disk>>
-----------------------------------------------------------------------------
(* persist_proof. *)

Empty == [is |-> "empty"]
Torn == [is |-> "torn"]

HasOpen(r, path) ==
  \/ pc[r] = "saving" /\ plan[r].proofPath = path
  \/ pc[r] = "writing json" /\ plan[r].jsonPath = path

Put(f, path, value) == [p \in DOMAIN f \cup {path} |-> IF p = path THEN value ELSE f[p]]

Truncate(r, path) ==
  /\ files' = Put(files, path, Empty)
  /\ writers' = Put(writers, path, {r} \cup {q \in Runs : HasOpen(q, path)})

\* Another run that has written since the file was opened is overwritten from the start, and
\* the end of what it wrote may remain.
Write(path, content) ==
  /\ \/ files' = [files EXCEPT ![path] = content]
     \/ files[path] # Empty /\ files' = [files EXCEPT ![path] = Torn]
  /\ UNCHANGED writers

\* File::create in proof.save; a name that is empty leaves the path of a directory, and fails.
OpenProof(r) ==
  /\ At(r, "proved", "saving")
  /\ plan[r].proofPath[Len(plan[r].proofPath)] # "/"
  /\ Truncate(r, plan[r].proofPath)
  /\ UNCHANGED <<plan, elf, proof, world>>

WriteProof(r) ==
  /\ At(r, "saving", "saved")
  /\ Write(plan[r].proofPath, [is |-> "proof", proof |-> proof[r]])
  /\ UNCHANGED <<plan, elf, proof, world>>

\* Mutation: the key is that of the ELF file as it is now.
KeyOfTheFile(r) ==
  [is |-> "json",
   program_vkey |-> IF Readable(Loaded(r)) = {} THEN None ELSE Found(Loaded(r)),
   proof_kind |-> plan[r].kind,
   proof_bytes |-> IF plan[r].kind \in {"plonk", "groth16"} THEN proof[r] ELSE None,
   public_values_raw |-> Encode(proof[r].values),
   output |-> Decode(Encode(proof[r].values)).output,
   by |-> r]

\* The artifact; by is history.  A build stands for its verification key, and the bytes of a
\* proof, which are those of a SNARK, for the proof.
ProofArtifact(r) ==
  [is |-> "json",
   program_vkey |-> elf[r],
   proof_kind |-> plan[r].kind,
   proof_bytes |-> IF plan[r].kind \in {"plonk", "groth16"} THEN proof[r] ELSE None,
   public_values_raw |-> Encode(proof[r].values),
   output |-> Decode(Encode(proof[r].values)).output,
   by |-> r]

\* Mutation: the error of proof.save is dropped.
SaveErrorIsDropped(r) ==
  /\ At(r, "saved", "writing json") \/ At(r, "saving", "writing json")
  /\ Truncate(r, plan[r].jsonPath)
  /\ UNCHANGED <<plan, elf, proof, world>>

\* fs::write, which opens the file and fills it, once the proof has been saved.
OpenJson(r) ==
  /\ At(r, "saved", "writing json")
  /\ plan[r].jsonPath[Len(plan[r].jsonPath)] # "/"
  /\ Truncate(r, plan[r].jsonPath)
  /\ UNCHANGED <<plan, elf, proof, world>>

WriteJson(r) ==
  /\ At(r, "writing json", "done")
  /\ Write(plan[r].jsonPath, ProofArtifact(r))
  /\ UNCHANGED <<plan, elf, proof, world>>

\* An error that ends the run, or a crash: what it was writing may be left half written.
Stop(r) ==
  /\ pc[r] \notin {"done", "stopped"}
  /\ pc' = [pc EXCEPT ![r] = "stopped"]
  /\ \/ UNCHANGED disk
     \/ /\ pc[r] \in {"saving", "writing json"}
        /\ LET path == IF pc[r] = "saving" THEN plan[r].proofPath ELSE plan[r].jsonPath IN
             files' = [files EXCEPT ![path] = Torn]
        /\ UNCHANGED writers
  /\ UNCHANGED <<plan, elf, proof, world>>

\* A build of the guest removes or replaces an ELF file.
Rebuild(path, build) ==
  /\ rebuilds < MaxRebuilds
  /\ rebuilds' = rebuilds + 1
  /\ images' = [images EXCEPT ![path] = build]
  /\ UNCHANGED <<start, pc, plan, elf, proof, disk>>

Ended == (\A r \in Runs : pc[r] \in {"done", "stopped"}) /\ UNCHANGED vars

Next ==
  \/ \E r \in Runs :
       \/ Configure(r) \/ ReadElf(r) \/ Execute(r) \/ Prove(r) \/ OpenProof(r) \/ WriteProof(r)
       \/ OpenJson(r) \/ WriteJson(r) \/ Stop(r)
  \/ \E path \in ToSet(ElfFiles), build \in Builds \cup {None} : Rebuild(path, build)
  \/ Ended

Spec == Init /\ [][Next]_vars
-----------------------------------------------------------------------------
(* What an operator relies on. *)

TypeOK ==
  /\ start \in Starts
  /\ pc \in [Runs -> {"start", "key only", "configured", "loaded", "proved", "saving", "saved",
                      "writing json", "done", "stopped"}]
  /\ images \in [ToSet(ElfFiles) -> Builds \cup {None}]
  /\ rebuilds \in 0 .. MaxRebuilds
  /\ DOMAIN writers = DOMAIN files
  /\ \A path \in DOMAIN files :
       files[path].is \in {"empty", "torn", "proof", "json"} /\ writers[path] \subseteq Runs
  /\ \A r \in Runs :
       /\ elf[r] \in Builds \cup {None}
       /\ plan[r] = None \/ plan[r] = Plan(Loaded(r))
       /\ pc[r] \in {"configured", "loaded", "proved", "saving", "saved", "writing json"} =>
            plan[r] = Plan(Loaded(r))
       /\ pc[r] \in {"loaded", "proved", "saving", "saved", "writing json"} => elf[r] \in Builds
       /\ proof[r] # None => plan[r].mode = "prove"

\* What the operator has set a name to, by what a run starts with: in the environment, or else
\* in the first line of the file that has it.
Asked(begun, name) ==
  LET lines == {i \in DOMAIN begun.file : begun.file[i].name = name} IN
  IF name \in DOMAIN begun.env /\ begun.env[name] # NotUnicode THEN begun.env[name]
  ELSE IF lines # {} THEN begun.file[Min(lines)].text
  ELSE IF name \in DOMAIN begun.env THEN NotUnicode
  ELSE <<>>

\* What digits come to by their places, the last one being that of the units.
PlaceValue(digits, radix) ==
  LET power[k \in 0 .. Len(digits)] == IF k = 0 THEN 1 ELSE radix * power[k - 1]
      last[k \in 0 .. Len(digits)] ==
        IF k = 0 THEN 0
        ELSE DigitValue(digits[Len(digits) - k + 1]) * power[k - 1] + last[k - 1]
  IN last[Len(digits)]

IsNumeral(text, radix) == text # <<>> /\ \A i \in DOMAIN text : \E d \in 1 .. radix : text[i] = Digits[d]

\* What may stand before the digits.
Leads(radix) ==
  IF radix = 16 THEN {<<"0", "x">>, <<"0", "x", "+">>} ELSE {<<>>, <<"+">>}

\* A person reads the value in a text: the address that it is, or the number that its digits
\* come to, which begin after the letter j and end with the letter k, between blanks.
Reads(text, value) ==
  \/ value \in Addresses /\ text = <<value>>
  \/ \E radix \in {10, 16} : \E i, j, k \in 0 .. Len(text) :
       /\ \A n \in (1 .. i) \cup (k + 1 .. Len(text)) : text[n] = " "
       /\ SubSeq(text, i + 1, j) \in Leads(radix)
       /\ IsNumeral(SubSeq(text, j + 1, k), radix)
       /\ value = PlaceValue(SubSeq(text, j + 1, k), radix)

\* A run that goes on goes by every override the operator has set, at the value he reads in it:
\* one that is mistyped, out of range or not text stops the run, and is never taken for the
\* default (helpers.rs:97-106).  A .env file with a line that dotenvy cannot parse is left out:
\* main.rs drops that error, and every line after it.
NoOverrideIsDropped ==
  \A r \in Runs :
    plan[r] # None /\ (\A i \in DOMAIN start[r].file : start[r].file[i].name # "") =>
      \A name \in DOMAIN plan[r].overrides :
        Asked(start[r], name) # <<>> =>
          /\ Asked(start[r], name) # NotUnicode
          /\ Reads(Asked(start[r], name), plan[r].overrides[name])

\* The operator asks for this chain: by the file he names, or by the number he writes, Ethereum
\* being the one of who writes none.
ChainAsked(begun, chain) ==
  LET path == Asked(begun, "INPUT_JSON")
      text == Asked(begun, "CHAIN_ID")
  IN IF path \in DOMAIN InputJson THEN chain = InputJson[path]
     ELSE IF text = <<>> THEN chain = 1
     ELSE Reads(text, chain)

\* A run asks the node that the operator has named for the chain he asks for, never that of
\* another chain or of a variable of another name, and so does the toolkit
\* (helpers.rs:186-206).
NodeIsTheOneAskedFor ==
  \A r \in Runs :
    plan[r] # None /\ (\A i \in DOMAIN start[r].file : start[r].file[i].name # "") =>
      \E chain \in SupportedChains :
        LET name == ToolkitRpcEnvName(chain) IN
          /\ ChainAsked(start[r], chain)
          /\ plan[r].url = Asked(start[r], name)
          /\ name \in DOMAIN plan[r].child /\ plan[r].child[name] = Asked(start[r], name)

Saved == {path \in DOMAIN files : files[path].is = "json"}

\* The artifact of a run stands beside the whole proof of that run, wherever runs were cut off,
\* unless another run has had the file of the proof open since, or at the same time, or the
\* two files are one (proof.rs:32).
JsonFollowsItsProof ==
  \A path \in Saved :
    LET r == files[path].by
        beside == plan[r].proofPath
    IN beside # path /\ writers[beside] = {r} =>
         files[beside] = [is |-> "proof", proof |-> proof[r]]

\* The key, the kind and the bytes in an artifact are those of one proof, though the ELF files
\* are rebuilt while it is made: the key is of the program that was proved (main.rs:330-357).
ArtifactIsOfOneProof ==
  \A path \in Saved :
    LET json == files[path]
        its == proof[json.by]
    IN /\ json.program_vkey = its.program
       /\ json.proof_kind = its.kind
       /\ json.proof_bytes = IF its.kind \in {"plonk", "groth16"} THEN its ELSE None

\* The output in an artifact is what the guest committed, field by field, though guest and host
\* each declare the structs for themselves (helpers.rs:11-12).
OutputIsWhatWasCommitted ==
  \A path \in Saved : files[path].output = proof[files[path].by].values

\* With VERIFY_PROOF set, no run begins to save a proof that does not verify (main.rs:336).
VerifiedBeforeItIsSaved ==
  \A path \in DOMAIN files : \A r \in writers[path] :
    VarOr(Loaded(r), "VERIFY_PROOF", <<>>) = <<"true">> => proof[r].valid

\* The reference of the environment (justfile:170) has plonk as the default kind of proof.
ProofKindDefaultsToPlonk ==
  \A r \in Runs :
    proof[r] # None /\ "PROOF_KIND" \notin DOMAIN Loaded(r) => proof[r].kind = "plonk"
=============================================================================
