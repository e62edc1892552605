# A verification of votemarket-sp1

This directory holds TLA+ models of votemarket-sp1, the configurations that model-check them with
TLC, and proofs about them for TLAPS. The program proves, with the SP1 zkVM, what the gauge
controllers of six vote-escrow protocols (Curve, Balancer, Frax, Fxn, Yb, Pendle) held in their
storage at some Ethereum block. A **circuit** (the guest) verifies Merkle-Patricia proofs and commits
public values; a **host** fetches those proofs and hands them to the circuit; contracts outside this
repository check the proof and use the values.

`PROJECT.json` lists, for every definition that models code, the lines it models.

## 1. The system

| Component | Where | State | Operations |
|---|---|---|---|
| Guest circuit | `program/src/main.rs` | one run: input, results so far | read the input; per point: verify the account proof, verify the bias; per vote: account, slope, end, last vote, decode; commit, or panic |
| Slot derivation | `shared/src/protocol.rs`, `encoding.rs` | none | base slots and slot formulas per protocol, labels of a vote's slots, choice of the end slot |
| Host pipeline | `script/src/main.rs`, `input.rs`, `types.rs` | the request, block, root, epoch, the circuit's input | load, resolve the block, fetch the root, derive slots, fetch proofs, build the input, check its bounds, execute or prove |
| Toolkit bundle | `script/src/toolkit.rs`, `toolkit_adapter.py` | the input file, the bundle | write the request to a file, have the toolkit gather proofs, check the context of what comes back |
| Toolkit supervisor | `script/src/toolkit.rs` (`supervise_child`) | the child's process group, two pipes, two reader threads, a deadline, a global `SUPERVISED_PGID` | spawn, arm, read, poll, kill, reap, disarm, collect, decide; a signal handler |
| JSON-RPC client | `script/src/rpc.rs` | one HTTP call: the body so far, three timers | connect, headers, chunk after chunk under a cap, judge what has arrived, sanitize what an error quotes |
| Proof artifacts | `script/src/proof.rs`, `main.rs` | the program read, the proof, two files that other runs may share | read the ELF, prove, verify, save the proof, decode its public values, write its JSON |
| Configuration, helpers | `script/src/config.rs`, `helpers.rs`, `toolkit.rs` | the environment, `.env` | load `.env`, parse each setting, pick the node's URL, the child's environment; hex and RLP |
| Entrypoint | `docker/entrypoint.sh` | none | dispatch, compare verification keys |
| Verifier and oracle | not here; described in `SPEC.md` | anchored roots, whitelisted controllers | accept a proof, register its values |

**How they interact.** The host calls nodes over JSON-RPC, one call after the other, and any node of a
provider's pool may answer each one. With the toolkit as its source it passes the request to a Python
process *by a file*, and takes proofs back on a pipe. What it builds goes to the circuit; nothing comes
back but public values or a panic. Host and circuit share no state. What holds them together is that
both derive the slots of a request from the same code and choose the same label for the end of a vote.

**What is hard.** The circuit has no concurrency, but its input belongs to someone else: each label,
each proof and the root are free, and what matters is what *no* input can make it publish. The host is
sequential, but the world moves between its calls: the chain grows and reorganises, the pool's nodes
disagree, the toolkit's file changes. The supervisor is concurrent in earnest: two readers, a
signal handler that runs on any thread between any two steps, a tree of processes that fork, leave
their group and hold pipes open, a deadline, and process-group numbers the kernel reuses. A call over
HTTP is a race of a peer that may dribble, lie about its length or break off, with three timers and a
cap. What a run leaves on the disk is two files written one after the other, in a directory and from
ELF files that other processes share, by a process that may stop anywhere.

**What makes each one correct.**

- Guest: everything published is true of the root it names; two publications never contradict each
  other; a word proven for one label is never published under another; bad input panics.
- Slots: different things read have different slots; each label leads to the word it names.
- Host: what is paid for is provable and answers what was asked; a block picked is one that every node
  has and that stays; a run always ends.
- Supervisor: it returns; it parses only whole output; it kills its own group, all of it and nobody
  else's; a signal that comes once the child's pid is published leaves no orphan.
- RPC client: a body over the cap is never buffered; a call ends, once, with the whole result or an error;
  what is quoted of a failed status, of an error object or of the toolkit's stderr has no part of the key.
- Artifacts: the JSON a run leaves is of one proof, of the program whose key it names, says what the guest
  committed, and stands beside that proof unless another run opens its file.
- Settings: each override the operator sets is what the run goes by, at the node he set for the chain, or
  the run stops.

## 2. The modules

```
Protocols           slots, labels, ids                       shared/src/protocol.rs
  GaugeControllers  the chain, and the contracts' storage    (external)
    Attestation     what publications promise                (abstract)
    Verification    what one proof or request must pass      program/src/main.rs, as functions
      VerificationProofs
      Guest         the circuit, step by step                program/src/main.rs
        GuestProofs
      HostPipeline  one run of the host                      script/src/main.rs, input.rs, types.rs,
        HostPipelineProofs                                   toolkit.rs, toolkit_adapter.py
Supervisor          supervise_child                          script/src/toolkit.rs
  SupervisorProofs
Redaction           what a message may quote                 script/src/rpc.rs, toolkit.rs
  RedactionProofs
  RpcClient         one JSON-RPC call                        script/src/rpc.rs
    RpcCall         what the pipeline takes a call for       (abstract)
    RpcClientProofs
Settings            the environment and .env                 script/src/config.rs, helpers.rs, toolkit.rs
AbiEncoding         public values, out and back in           program/src/main.rs, script/src/helpers.rs
  Artifacts         runs, from settings to files             script/src/main.rs, proof.rs
    ArtifactsProofs                                          (of AbiEncoding, too)
FlatteningProofs    induction, Min and Max, FlattenSeq       lemmas for the other proofs
MCChain, MCGuest, MCHostPipeline, MCSupervisor,
MCRpcClient, MCArtifacts                                     small instances for TLC
```

**Protocols.** A slot is the term that is hashed, `Keccak(Keccak(Word(base), gauge), Word(epoch))`, so
that distinct inputs have distinct slots: keccak256 is taken to be collision free, as the code takes it
to be. An offset into a struct (`slope_slot + 1`) is the term `Plus(slot, n)`: hashes are taken to lie
further apart than the few words of a struct.
Every one of the six protocols has its own base slots, its formula (one more hash before Vyper 0.3, no
week for Yb, Pendle's struct) and its labels; Yb's `user_bias`, which comes before `user_end`, is there.

**GaugeControllers** is the world: state roots, what each state trie and storage trie holds, which
roots belong to real blocks, and the *ledger*, the numbers users of the contracts see. `StorageHolds`
says how a contract lays its ledger out in storage, following Solidity's and Vyper's rules
and not the circuit's formulas, so that a wrong formula shows. Pendle packs a bias and a slope into one
word of two half-words. `LedgerAssumption` requires the layout of the protocols' own contracts at real
blocks only; a forged root or a foreign contract may hold anything, undecodable words included.

**Verification.** A Merkle proof is the root it starts from and the keys it holds paths of:
`StorageProven` asks that the root fits and the key is there; a list that proves nothing panics; a
proven absence reads zero. `Accepted(in)` and `PublicValues(in)` state the result of a whole run; that
`Guest` gets to this result step by step is proved (`CircuitIsVerification`, `AcceptedInputRuns`).

**Guest.** One action per step of the two loops (`BeginPoint`, `ReadBias`, `BeginAccount`, `ReadSlope`,
`ReadEnd`, `ReadLastVote`), `EndPoints`, `Commit`, and a panic as the other outcome of each. The prover
chooses each part of the input at the step that first looks at it; as the circuit reads its input once,
that is the same as choosing it all at the start, and far cheaper to check. `published` collects the
public values of all runs: properties speak of pairs of proofs by different provers.

**Attestation** is the abstract specification: batches of which all is true come into existence, and
nothing else happens. `Guest!ImplementsAttestation` is the refinement (`published` maps to itself).

**HostPipeline** has an action for each step of `main()` that can be told apart from outside:
`Load`, `FetchLatest`, `FetchStateRoot` (with the epoch and `expand_requests`, which end in the same
step), `FetchProofs` with `BuildFromRpc`, or `TruncateInput`, `WriteInput`, `ReadRequest`,
`FetchToolkitProof` (one per call of the toolkit), `FinishToolkit` with `verify_bundle_context` and
`BuildFromToolkit`, then `Prove`. Around it: `Settle` (a block is out of reach of reorganisations),
`Overwrite` (someone else writes the toolkit's file), `GiveUp` (a call fails or times out). Each call is
answered by a node with a tip of its own (`Tips`) and, for blocks not yet settled, a branch of its own
(`RootsAt`). `Oddities` adds answers no conforming node gives, down to hex or RLP that does not decode
(`Decodes`). The circuit at the end is
`Verification!Accepted`, and so the host's own choices (which proof goes where, which end label) meet
the circuit's.

**Supervisor** interleaves the main thread (one label of `pc` per system call or atomic access), the two
readers, the handler, the process tree, the clock and the kernel (`Die` delivers a SIGKILL, `Recycle`
reuses the number of a group whose leader was reaped). Its phases are those of the code: read with a deadline
(`poll`, `check_size`, `check_deadline`), wait for the child (`gate` to `deadline2`), collect and reap
(`collect_out` to `wait`), decide (`resolve`). `Adversity` names what may go wrong in an instance. The read of
either pipe may fail (`ReadError`); stdout's reader reports it, stderr's lets it pass, as in the code.

**RpcClient** is what one of the pipeline's calls looks like from within: `Connect`, `Headers` (which
refuse a Content-Length over the cap), `Chunk(n)` for pieces of any size (refused *before* they are
buffered when they would pass the cap), `EndOfBody` with `Judge` (UTF-8, status, JSON, error object,
result, in that order), `Break` and `TimeOut`. The peer picks the reply, its claimed length, the pieces and
the silences. A timer that is due may still lose against a byte of the same instant. What a body decodes to
is the constant `Json`, and what the error of a body that does not decode quotes of it the constant `Misfit`
(`DecodeError`); that no proper head of a document is a document is `WholeDocuments`. What the
toolkit, which is handed the same URL, may write to stderr is the constant `Stderrs`, and `Reports` what the
host shows of it.

**RpcCall** is the abstract specification: decided once, by the result the node has or by giving up. It is
the step `HostPipeline` takes a call for; `RpcClient!ImplementsCall` is the refinement.

**Redaction** holds `SanitizeBody` and `RedactChildStderr` as functions of byte sequences. The *order* is
the point (scrub the URL, then its path, replace control characters, then cut at a character), so the
texts keep their halves of characters and the echoes of the URL. `KeyOnlyInEchoes` says of which texts the
code can hide the key: those that have it in whole echoes of the URL or its path. `CaptureSuffices` says for
which URLs more of stderr is captured than is shown.

**Settings** is each `parse_*` of `config.rs` and `helpers.rs` with its own idea of what is missing, empty, not
Unicode or malformed; `Override` is what a number, deadline or address comes to, `OneOf` a setting that takes a few
words, `LoadDotenv` the loop of dotenvy, `ResolveRpcUrl` the node, `ChildEnv` the environment of the toolkit.

**AbiEncoding** encodes public values as the guest's declaration of the structs says and decodes them as the
host's says, word by word, offsets included.

**Artifacts** lets any number of runs go from `Configure` over `ReadElf`, `Execute` or `Prove` to
`OpenProof`, `WriteProof`, `OpenJson`, `WriteJson`. Opening a file truncates it and writing it is a
step of its own, so two runs in one directory interleave, and a later writer may leave the tail of an earlier
one (`Torn`). `Stop` ends a run anywhere, in the middle of a write too: it is a crash as well as each error.
`Rebuild` replaces an ELF file. A request comes from the environment or, when `INPUT_JSON` is set, from a file
(`FromFile`), which then replaces every override but the deadlines; of that file this module knows the chain
(`InputJson`). The rest of it, and everything between the settings and the proof, is in `HostPipeline`. `writers` is
history: who may have written to a file since it was last truncated.

## 3. What the runs check

Every property is stated in its module with a comment; every property of a passing run has a mutant of
the code (a definition of the model changed as a plausible bug would) under which TLC finds it violated.

| Run | Configuration | Checks | Size |
|---|---|---|---|
| `guest` | `MCGuest.cfg` | `TypeOK`, `OneTruthPerLabel`, `RelabelMovesNoValue`, refinement `ImplementsAttestation` | 35,639 states |
| `guest_epoch` | `MCGuestEpoch.cfg` | `EpochIsInTheSlot`, **violated** (finding 2) | |
| `host` | `MCHostPipeline.cfg` | `TypeOK`, `HandedIsWorthProving`, `PickedBlockIsSafe`, liveness `Decides` | 17,850 states |
| `host_odd` | `MCHostPipelineOdd.cfg` | `ProvenAnswersTheRun` | 500,460 states |
| `supervisor` | `MCSupervisor.cfg` | `TypeOK`, `SupervisorKillsOnlyItsGroup`, `OkMeansWhole`, `SizeRefusalWins`, `SweptWhenRefused`, `CollectionGraceShared` | 1,249,372 states |
| `supervisor_returns` | `MCSupervisorReturns.cfg` | `NoOrphanOnceArmed`, liveness `Returns` | 526,817 states |
| `supervisor_polite` | `MCSupervisorPolite.cfg` | liveness `PoliteSucceeds` | 3,425 states |
| `supervisor_disarm` | `MCSupervisorDisarm.cfg` | `DisarmPrecedesReap`, **violated** (finding 1) | |
| `rpc` | `MCRpcClient.cfg` | `TypeOK`, `CapIsExact`, `QuotesAreSanitized`, `StderrIsSanitized`, refinement `ImplementsCall` | 28,420 states |
| `rpc_decode` | `MCRpcClientDecode.cfg` | `RemoteTextIsScrubbed`, **violated** (finding 4) | |
| `artifacts` | `MCArtifacts.cfg` | `TypeOK`, `NoOverrideIsDropped`, `NodeIsTheOneAskedFor`, `JsonFollowsItsProof`, `ArtifactIsOfOneProof`, `OutputIsWhatWasCommitted`, `VerifiedBeforeItIsSaved` | 177,226 states |
| `proof_kind_default` | `MCArtifactsDefault.cfg` | `ProofKindDefaultsToPlonk`, **violated** (finding 3) | |

A run of the circuit, of the host or of the supervisor stops when it is done, so the first eight do not
check deadlock. `RpcClient` and `Artifacts` say when they are done (`Returned`, `Ended`); anything else that
stops them is an error.

### Guest

- `ImplementsAttestation`: every batch that becomes public is true. For the protocol's own controller at
  a real block, bias, slope, end and last vote are those of the ledger, decoded: Pendle's `end` is the
  quotient of the packed half-words, Yb's is the word after the bias, a vote that was never cast is zero.
- `OneTruthPerLabel`: two proofs, made by anyone from any input, never give different values to the same
  labels at the same root. This one needs no honest chain: it holds for forged roots and foreign
  controllers. The mutant that reads a *missing* last-vote proof as zero breaks it.
- `RelabelMovesNoValue`: a slot determines the labels of what is read from it. Two exceptions are in the
  statement because they are in the code: votes and Yb's points have no week in their slot.

*Instance.* Two real roots, a forged one; the contracts of Curve (one more hash), Yb (no week) and
Pendle (packed), one for each way of decoding, a contract that copies Curve's layout, an address
without account; two gauges, one account, two weeks; batches of one request, two of them. Protocol
ids include 6, which is none. Gauges and weeks are two because relabelling takes two. Two batches,
because `OneTruthPerLabel` relates pairs. One request in each, because the requests of a batch
share nothing but the root and the epoch; the proofs hold for any number.

### Host

- `HandedIsWorthProving`: with conforming nodes, of whatever tip and branch, and whatever others write
  into the toolkit's file, the circuit accepts the input the host hands it. Proving is paid for. It fails
  when root and proofs come from two branches, when proofs are paired with the wrong slots, when host
  and circuit choose different end labels, or when a bundle made from someone else's request passes.
  Two cases are excluded, both up to the user: a run that *names* a block still being replaced, and one at
  a block where the controller does not exist yet. There nothing but the circuit's panic stops the run.
- `PickedBlockIsSafe`: the block a run picks by itself is known to every node of the pool, and the
  root it fetched is the one that stays. Without the margin, TLC finds the node that lacks the block.
- `ProvenAnswersTheRun`: with nodes and toolkits that answer *anything* (another block, a reversed, short,
  oversized or undecodable list), what is proven lists the run's own requests, in order, with the
  true values at the run's own root and for a week.
- `Decides`: see fairness.

*Instance.* The same chain; block 0 is settled, block 1 may become either root, three blocks at most;
`SafetyMargin`, `TipLag` and `ReorgDepth` are 1 (the code's margin is 3; what matters is how they compare,
and `MarginSuffices` proves it for all values). A run starts from a file or from one of five environments, with
both sources; eleven requests a file may hold, chosen so that each refusal occurs: no protocol, an
unknown one, no epoch, an epoch inside a week, a missing account, another chain, another controller, a gauge
asked for twice, too much for the bounds. A proof's size is 1 and the bounds are 2 and 9, where the code
has caps in nodes and bytes; the largest request crosses the aggregate, an odd answer the other.

### Supervisor

- `SupervisorKillsOnlyItsGroup`, `SweptWhenRefused`: a kill reaches the toolkit's group, all of it and no
  other, though the group's number may be reused the moment the leader is reaped.
- `OkMeansWhole`: what is parsed is everything that was written, from a toolkit that succeeded. Of stderr, which is
  only shown, this holds unless its read failed.
- `SizeRefusalWins`, `CollectionGraceShared`: which refusal is reported when several apply, and that the
  wait for the readers is one grace and not two.
- `NoOrphanOnceArmed`: a signal at any step, from the publication of the pid to the disarm. Before that the code
  has a window (`toolkit.rs:303-308`), and so has the model (`Spawn` and `Arm` are two steps); no property covers it.
- `Returns`, `PoliteSucceeds`: it ends, and does not block a toolkit that works.

*Instance.* A leader and one descendant (enough to fork, to leave the group, to outlive the leader), a cap
of one unit and pipes of one unit, three units written to stdout (cap, the flag one past it, one more that must
stay unread) and one to stderr, two ticks of deadline and of grace (so that a shared grace differs from two). With
signals and for `Returns`: one unit on stdout, one tick each. A polite toolkit writes three units to stderr, two
more than its pipe holds.

### RPC client

- `CapIsExact`: not a byte past the cap is ever held, whatever length is advertised, and what keeps to the
  cap is never refused as oversized. The mutant that looks at the cap once a chunk is in breaks it.
- `ImplementsCall`: see `RpcCall`; a body that is cut short, by the peer or by a lying length, never
  becomes an answer, nor does a result beside an error, nor a result that is missing. Nor does a call stay
  pending: a peer that sends a byte before each silence is too long never meets the read timeout, and without the
  total one TLC finds the call that does not end. That it ends *by* the total deadline is how the clock of the
  model is made (`Tick` waits for a timer that is due), and no property.
- `QuotesAreSanitized`, `StderrIsSanitized`: in what is quoted of a failed status, of an error object or of the
  toolkit's stderr, no letter of the key, although the cut may fall within an echo, and scrubbing
  one echo moves the next one towards the cut. Two limits are in the
  statements because they are in the code: an echo that *ends with* the text, halfway, is not replaced; and
  of stderr, the captured head is enough only while echoes that shrink to their marks still fill what is
  shown (`CaptureSuffices`). With the code's constants (four times as much is captured as is shown, marks of 18 and
  11 bytes) those are the URLs of at most 71 bytes whose path has at most 43. The mutant that captures no more than
  it shows breaks `StderrIsSanitized`.

*Instance.* A cap of 8, the deadlines 2, 3 and 6 in the proportions of the code's 10, 15 and 30 seconds, so that
two silences of almost a read timeout fit into the total; nine texts, among them one of exactly the cap and one over
it, a result beside an error, a document with neither, a string where none is asked for, a half character;
lengths short of, at and beyond the text and the cap, or none, chunked or until the connection closes. The URL is the shortest whose path is
long enough to be scrubbed; stderr is any row of up to six pieces (an echo of the URL, one of its path, a
letter, either half of a character), so that the capture ends before, within and behind an echo of each kind.

### Settings and artifacts

- `NoOverrideIsDropped`: a plan has each override at the value its author means by it; a mistyped one, one
  out of range and one that is not text end the run. The reference is not the code's parser but `Reads`, what a
  person reads in the text (an address, or digits by their places), which the instance checks against a table of
  texts and their meanings; and `Asked`, which of the environment and `.env` has the word.
- `NodeIsTheOneAskedFor`: host and toolkit ask the node that the environment or `.env` names for the chain of the
  request file or, without one, of `CHAIN_ID`, whose digits `Reads` reads; no default, no other chain's variable and no
  `RPC_URL` takes its place. The mutant that prefers `RPC_URL`, which the error message names, breaks it.
- `JsonFollowsItsProof`: wherever runs are cut off, an artifact stands beside the whole proof of its run,
  unless another run has had that file open, or both names are one. The mutant that drops the error
  of the save breaks it.
- `ArtifactIsOfOneProof`: key, kind and bytes are of one proof although the ELF is rebuilt during it; the mutant
  reads the key from the file again.
- `OutputIsWhatWasCommitted`: guest and host declare the structs twice; the decoded output is the committed
  one, field by field, arrays of different lengths included.
- `VerifiedBeforeItIsSaved`: with `VERIFY_PROOF`, no run begins to save what does not verify.

*Instance.* Two runs. With the second one idle, the first tries every override with every text, in the
environment or in `.env`: hexadecimal, decimal, signed, padded, empty, zero, the largest `u64` (here 15), one
more, a word, an address, not Unicode; files with a line twice, a line the environment has and a malformed one.
Then both prove, in one directory, with the same names or with the JSON of one over the proof of both, verified or
not, with a program of their own; one rebuild, two builds (which are symmetric), two batches of values. Requests
in files are on two chains, one of which may have no node, beside a `CHAIN_ID` that says the other and overrides that
do not parse; the path may be missing, empty or not text. One
rebuild is enough to be seen at either side of a step; runs one after the other are among the interleavings.

### Fairness

- *Host*, `FairSpec`: weak fairness of the steps the host takes alone (`Load`, `TruncateInput`,
  `WriteInput`) and of `GiveUp`. `build_http_client` puts a total timeout on each call
  and `supervise_child` a deadline on the toolkit, so a call that stays unanswered is given up. No node,
  no toolkit and no prover is assumed to answer; `Decides` ends where the prover begins, which has no limit
  of time in this code.
- *RPC client*, `Spec`: weak fairness of the clock and of a timer that is due. The peer may stop at
  any point; tokio's timers go off.
- *Artifacts*: none is stated, and no liveness is claimed: a run may stop anywhere.
- *Supervisor*, `FairSpec`: weak fairness of the main thread (`Advance`: the steps in which no call fails, so
  that the property does not rest on a failure), of each reader, of the kernel's delivery
  of a SIGKILL and of the clock. The operating system schedules threads. Nothing is assumed of the toolkit.
- *Supervisor*, `PoliteSpec`: the prover's threads, and a leader that writes and exits. The clock is not
  fair there: a slow toolkit may meet its deadline, a blocked one may not.

## 4. What is proved

`tlapm` proves every theorem below for all values of the constants, under the named assumptions of the
modules, each of which TLC evaluates on the instances it checks:

| Assumption | Says |
|---|---|
| `ChainAssumption`, `LedgerAssumption` | the tries are tries; the protocols' own contracts at real blocks hold words, and their ledger |
| `GuestAssumption` | proofs name roots |
| `HostAssumption` | the lag of the pool and the depth of reorganisations are within `SafetyMargin`, which is what the comment on `BLOCK_SAFETY_MARGIN` asks for |
| `RequestsAssumption`, `EpochsAssumption`, `OdditiesAssumption` | requests are what serde makes of a file; the ledgers reach over the weeks asked for; the kinds of odd answers |
| `SupervisorAssumption` | caps are numbers, the leader is not its own descendant |
| `ClientAssumption`, `WholeDocuments`, `RedactionAssumption` | the constants' types (the URL is a text), the total deadline within the horizon of the clock; no proper head of a reply is a document, which JSON objects have |
| `SettingsAssumption`, `ValuesAssumption`, `MaxEpochAssumption`, `ElfFilesAssumption`, `RebuildsAssumption`, `StartsAssumption` | types; `.env` files are lines of text |
| `InputAssumption` | no file has an empty path |

**FlatteningProofs.** The library's induction theorems take an operator, which the provers cannot instantiate.
Here induction is about a *set* of numbers (`Induction`, `InductionUpTo`, `InductionDown`), from the least
number outside it, and so a recursive function, or one that is defined from the end of a text, can be reasoned
about in a theorem. `FlattenSeq`, `Min` and `Max` follow from it.

**VerificationProofs** has what guest and host share: the slot that is derived *is* the slot Solidity or Vyper
gives the field, protocol by protocol; Pendle's division inverts its packing; so an accepted request for a
protocol's own controller at a real block commits the ledger's words (`PointCommitsTheLedger`,
`VoteCommitsTheLedger`).

**GuestProofs.** The invariant is `GInv`: the run's state is well-typed (`RunInv`, `RequestInv`); the words
proven so far are the words at the derived slots of the storage root the account proof led to (`WordsInv`);
the results collected are those of accepted requests (`ResultsInv`); so is everything published
(`PublishedInv`). Without `WordsInv` nothing links a result committed at the last step of a request with
proofs seen at earlier ones.

- `GuestImplementsAttestation`: each step publishes nothing or one true batch.
- `ProofsNeverDisagree` (`OneTruthPerLabel`): a published value is a function of root and labels.
- `RelabellingIsCaught` (`RelabelMovesNoValue`): the slot formulas of each protocol are injective in
  the labels they contain.
- `CircuitIsVerification`: whatever is published is `PublicValues(in)` of an input that is `Accepted`. `OfferInv`
  adds to `GInv` that a request which has come so far has shown the proofs that takes (`ProofsInv`).
- `AcceptedInputRuns`, the converse: a run on an accepted input (`NextOn(in)`) never panics and commits
  nothing but `PublicValues(in)`. `RunsOn(in)` says where in the input such a run is. These two are why
  `HostPipeline` may take `Verification` for the circuit.
- `GuestTypeCorrect`.

**HostPipelineProofs.** Three invariants, each on top of the one before.

- `PickInv`: once picked, the block number plus the margin is at most the latest block (`BelowMargin`), which
  later blocks cannot undo; hence every tip has it and it is settled. `MarginSuffices` (`PickedBlockIsSafe`),
  unless a node answers for another block (`"stale"`).
- `HostInv`: what the environment may do (`EnvironmentInv`), what a run has settled on and when
  (`ResolvedInv`), and what it has come to (`OutcomeInv`): an input that is handed over asks for the run's own
  requests in their order, at its root, whoever answered; a toolkit's bundle was checked against them.
  `HostTypeCorrect`, and `ProvenIsTheAnswer` (`ProvenAnswersTheRun`) for *every* set of odd answers: nothing but
  `Accepted` stands between a lying node and the public values, and by `VerificationProofs` that is enough.
- `WorthInv`: with conforming nodes the root of a settled block stays the run's (`RootStays`), and the bundle
  so far is what such nodes say of it (`BundleInv`). `WorthProving` (`HandedIsWorthProving`) assumes
  `Oddities = {}`: the property is about nodes that conform, as in the run `host`. Of the toolkit's file nothing
  is assumed: that someone else may write it is in the model.

**SupervisorProofs.** The invariant is `IInv`: `LifeInv` (who is alive and until when the group's number is
the toolkit's), `ReaderInv` (what a reader's state says of its pipe), `OutcomeInv` (the main thread leaves a
phase only with both buffers or a swept group), `SignalInv` (the handler kills whenever it starts while the
child is supervised), `GraceInv`. None of the properties is inductive: each rests on what the pipes, the
tree and the flags were when the main thread passed an earlier label.

- `TypeCorrect`, `KillsOnlyItsGroup`, `ParsedBundleIsWhole`, `SizeRefusalComesFirst`,
  `RefusalSweepsTheGroup`, `SignalLeavesNoOrphan`, `GraceIsShared`: all safety properties of the runs
  `supervisor` and `supervisor_returns`, for any number of descendants, any caps and any times.

**RpcClientProofs.** The invariant is `IInv`: the types, the cap, and `BodyInv`: the body is
the head of the reply's text, and there is an outcome exactly when the call is over. `BodyInv` is what makes
a decoded body the *whole* one.

- `TypeCorrect`, `CapHolds` (`CapIsExact`), for every peer and all limits.
- `ImplementsCallSafety`: the initial states map to `RpcCall`'s, `Headers`, `Chunk`, `Break` and `TimeOut` to
  `GiveUp` or a stutter, `EndOfBody` to `Answer` or `GiveUp`. The fairness in `ImplementsCall` is TLC's.
- `QuotesShowNoKey` (`QuotesAreSanitized`), from `RedactionProofs`. Its hypothesis `EchoesAreWhole` is what the code
  itself needs: the path is long enough to be scrubbed and has none of the letters of the marks, and what the
  peer sends has the key in whole echoes only, no one of which begins within another. A peer that quotes half
  a URL shows half a key, and no scrubbing of substrings can help it. TLC evaluates the hypothesis
  on the instance of the run `rpc`.
- `StderrShowsNoKey` (`StderrIsSanitized`), from `StderrHidesTheKey`. Its hypothesis `StderrEchoesAreWhole` is of the
  same kind, about the text the child *wrote*: nothing in it says where the capture cuts. TLC evaluates it too.

**RedactionProofs.** For every URL, text and bound. What is shown is UTF-8 and within the cap for *any* text:
a replacement of one UTF-8 text in another by a third never splits a character (`ReplacedIsUtf8`), a lossy decoding
leaves no half (`LossyIsUtf8`), and the cut falls between two characters (`BoundedIsText`). That no key is left takes an
argument about two replacements one after the other. The first one, of the whole URL, might break an echo of
the path that it should leave to the second, or make one up across its own mark. It does neither: the letters of
a mark are not in the path, so what has none of them was copied in one piece (`CopiedInOnePiece`), and an
echo of the path that no echo of the URL covers is copied as it is (`EchoIsKept`). So the echoes are still whole
when the second replacement comes (`EchoesStayWhole`), which leaves none (`NoKeyIsLeft`).

The capture of stderr takes more, for it may itself cut an echo, which is then no echo any more and stays.

- It cuts one at most (`CapturedIsCut`), and a lossy decoding, which makes two bytes of a half character, only moves
  it further from the head (`Places`, `CutIsDecoded`).
- A place that no echo spans splits the redaction in two: what is before it is redacted as if the text ended
  there (`RedactedInTwoParts`). So the head, up to the echo that is cut, has lost its echoes.
- What is left of the cut echo must therefore lie beyond what is shown. The letters of a mark are given so much
  more weight than others that a mark weighs no less than the echo it replaces (`Weighs`, `Outweighs`); a replacement
  then never makes the head lighter, and its length stays enough (`RedactedIsLong`) to fill all that is shown
  (`CutIsNotShown`, `BoundedShowsTheHead`). This is where `CaptureSuffices` is needed.

- `StderrHidesTheKey` puts these together. `StderrIsFitToShow`, which needs neither `CaptureSuffices` nor an URL in
  ASCII, has what was *captured* in whole echoes instead.

**ArtifactsProofs.** First the encoding: `DecodeInvertsEncode`, for any number of points and accounts. Then two
invariants. `IInv`: a plan is what its run's settings
say (`PlanInv`); who has a file open is among its writers (`OpenInv`); what has been proved or written is of
the program read and verified as asked (`ProofInv`); a file that only one run has been in is what this run made
of it (`SavingInv`, `SavedInv`); an artifact and what is beside it (`JsonInv`). The properties speak of files at rest; the
invariant has to say what a run finds between the two writes, and `Undisturbed` that a step of another run either
leaves a file alone or is seen in `writers`. `HoldInv` adds what a run holds at each point: a plan that is its
settings', a program that is a build, a proof only if it is to prove.

- `ArtifactStandsBesideItsProof` (`JsonFollowsItsProof`), `ArtifactIsConsistent` (`ArtifactIsOfOneProof`),
  `OutputIsDecodedAsCommitted` (`OutputIsWhatWasCommitted`), `NothingUnverifiedIsSaved`
  (`VerifiedBeforeItIsSaved`), `ArtifactsTypeCorrect`: for
  any number of runs, any settings, any files and any rebuilds.
- `NothingThatIsSetIsDropped` (`NoOverrideIsDropped`): for every environment and every `.env`, a run that goes on
  goes by each override, of the environment or of the first line of the file that has it, at the value that is
  read in its text (`ParsedAsRead`). The parser goes through the digits from the left, a reader counts them by
  their places; what is parsed so far times the place of the digits that are left, plus these, stays the same
  (`ReadByPlaces`).
- `NodeIsTheOneSet` (`NodeIsTheOneAskedFor`): the chain a run goes by is the one that is asked for (`ChainAsAsked`): a
  `CHAIN_ID` that is set and parses is a number, and so never the default; the variable of that chain is loaded as it
  was set (`LoadedAsAsked`), and is what host and child are given.

**Only model-checked.** The liveness properties `Decides`, `Returns`, `PoliteSucceeds` and the fairness of
`ImplementsCall`, which this prover cannot reach. Every safety invariant of a passing run has a theorem. What
remains to TLC there are two hypotheses about given texts, which it evaluates on the instance: `EchoesAreWhole` and
`StderrEchoesAreWhole`.

## 5. Findings

1. *Run `supervisor_disarm`.* In phase 2 `try_wait` reaps the child, and the handler is disarmed afterwards
   (`toolkit.rs:410-416`). The comments say the disarm must come before the reap, "never after"
   (`toolkit.rs:518`), and the handler relies on it (`toolkit.rs:534-535`). Between the two steps the handler
   holds a number that may be reused. The supervisor's own kills are not concerned
   (`SupervisorKillsOnlyItsGroup`).
2. *Run `guest_epoch`.* `SPEC.md:436` and `:532` say the epoch label of a value is bound to its storage key.
   The slots of votes, and of Yb's points, contain no epoch: one proven word can be committed under any
   epoch. What ties a value to a week there is the consumer's root per epoch, and only that.
3. *Run `proof_kind_default`.* Without `PROOF_KIND` the code makes a core proof (`config.rs:41`), which no
   contract takes. `justfile:170` documents `plonk` as the default, and `SPEC.md:261` calls PLONK the production
   default. (The line above, `justfile:169`, gives `RUN_MODE` the default `mock`, a word the code does not
   know and takes for `execute`.)
4. *Run `rpc_decode`.* The error of a text that does not decode is `RPC decode failed: {err}` (`rpc.rs:258-259`), and
   serde_json's message names the string it met where it wanted something else: as the peer sent it, of any
   length. Three lines on, the message of an error object "gets the same scrub as any other remote-controlled
   string" (`rpc.rs:264`; `rpc.rs:135-141`). `QuotesAreSanitized` is about what does pass through `sanitize_body`.

Noted while modelling, no finding:

- A request file without `epoch` works with the RPC source and always fails with the toolkit, whose adapter
  requires the field and reads the user's own file, to which the host does not add the epoch it resolved.
- The error of dotenv is dropped (`main.rs:99`): a malformed line of `.env` hides all lines after it.
- An `SP1_ELF_PATH` that cannot be read is passed over, and the built ELF is proved instead
  (`main.rs:64-90`).
- The deadline settings (`RPC_REQUEST_TIMEOUT_SECS`, `TOOLKIT_TIMEOUT_SECS`) reject an empty value; all other
  overrides take it for the default.
- `PROOF_OUTPUT` set to nothing is the output directory itself: the save fails once the proof has been
  made and paid for (`proof.rs:22-34`).
- Two runs that share the output directory, one of which is cut off between its two writes, leave the JSON of the
  other beside its proof; `JsonFollowsItsProof` is about files no other run has opened.
- An `INPUT_JSON` that is not text is passed over for the environment (`types.rs:162`), where other settings that are
  not text stop the run.
- `resolve_rpc_url`'s error names `RPC_URL`, which is never read.

## 6. What is not modelled

- Merkle-Patricia tries, keccak, and the bytes of RLP and hex: taken as what they guarantee, with "does not
  decode" as an outcome. The circuit relies on libraries for them. ABI words are modelled, not their 32
  bytes.
- Which Python interpreter runs the toolkit (`resolve_python_bin`): a choice without state.
- The printing of results, `VKEY_ONLY`'s printing, the hashes of public values that are printed.
- The SP1 prover and its network: `Prove` yields the public values or a rejection, or, from the network, a
  proof that may not verify.
- The entrypoint script: it dispatches commands, and compares the key the host prints with one from the
  environment. The non-Unix fallbacks of the supervisor.
- Power failures: what a finished write has put on the disk stays there.
- The contracts. Their role is named where a property depends on it (`Attestation!Authentic`).

## 7. Plan

The order is that of what matters to users of the values; the first six are done.

1. Guest, slots, contracts, and the refinement of Attestation. *Done, proved; proved equal to Verification.*
2. Supervisor. *Done; its safety proved.*
3. Host pipeline with both sources, composed with the circuit by `Verification`. *Done; its safety proved.*
4. The margin. *Done, proved.*
5. RPC client, its abstract call and the refinement; what messages quote. *Done; safety and refinement proved,
   and that neither a quotation nor a report of stderr shows the key.*
6. Settings, encoding and artifacts, with stops and several runs. *Done; its safety proved.*
7. `Registry`: the consumer of `SPEC.md` as external (one root per epoch, whitelist, replay), composed
   with `Attestation`: the epoch of a vote is the root's.
8. Two requests per batch for the guest, two runs of the host at once on the shared toolkit file.
