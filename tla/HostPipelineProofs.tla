------------------------- MODULE HostPipelineProofs -------------------------
(***************************************************************************)
(* What is proved of a run of the host, for every chain, protocol, request *)
(* and margin:                                                             *)
(*                                                                         *)
(*   MarginSuffices      a block that a run picks is known to every node   *)
(*                       it asks and settled, with nodes that are behind   *)
(*                       and disagree by no more than the margin;          *)
(*   HostTypeCorrect     the types, and which field is set when;           *)
(*   ProvenIsTheAnswer   whatever nodes, toolkit and file do, a proof      *)
(*                       answers the requests of its run with the words of *)
(*                       the ledger at the run's root;                     *)
(*   WorthProving        with nodes that conform, the circuit accepts what *)
(*                       it is handed.                                     *)
(***************************************************************************)
EXTENDS HostPipeline, VerificationProofs, FlatteningProofs

----------------------------------------------------------------------------
(* The margin *)

\* n is 0 or the margin below the latest block.
BelowMargin(n) == n \in Nat /\ (n = 0 \/ n + SafetyMargin <= Latest)

\* What PickedBlockIsSafe rests on: before the block is picked there is no root, once it is
\* picked it stays below the margin, and its root is the settled one.
PickInv ==
  /\ settled \in Seq(ChainRoots) /\ Len(settled) > 0
  /\ pc = "load" => hostInput = None
  /\ pc \in {"load", "latest"} => root = None
  /\ PickedBlock =>
       /\ pc = "latest" => "block" \in DOMAIN hostInput
       /\ pc \notin {"load", "latest", "failed"} => BelowMargin(hostInput.block)
       /\ reason # "no block"
       /\ (hostInput # None /\ root # None) =>
            /\ hostInput.block \in 0 .. Len(settled) - 1
            /\ root = settled[hostInput.block + 1]

\* A block below the margin is known to every node of the pool.
LEMMA EveryTipHasIt ==
  ASSUME settled \in Seq(ChainRoots), Len(settled) > 0,
         NEW n, BelowMargin(n), NEW tip \in Tips
  PROVE  n \in Nat /\ tip \in Nat /\ n <= tip
<1>1. Len(settled) \in Nat /\ ReorgDepth \in Nat /\ SafetyMargin \in Nat /\ TipLag \in Nat
  BY HostAssumption
<1>2. tip \in 0 .. Latest /\ Latest <= tip + TipLag /\ TipLag <= SafetyMargin
  BY HostAssumption DEF Tips
<1>3. Latest \in Int
  BY <1>1 DEF Latest
<1> QED
  BY <1>1, <1>2, <1>3 DEF BelowMargin

\* A block below the margin is settled.
LEMMA BelowMarginIsSettled ==
  ASSUME settled \in Seq(ChainRoots), Len(settled) > 0, NEW n, BelowMargin(n)
  PROVE  n \in 0 .. Len(settled) - 1
<1>1. Len(settled) \in Nat /\ ReorgDepth \in Nat /\ SafetyMargin \in Nat
      /\ ReorgDepth <= SafetyMargin
  BY HostAssumption
<1> QED
  BY <1>1 DEF BelowMargin, Latest

\* What the host picks is below the margin.
LEMMA PickIsBelowMargin ==
  ASSUME settled \in Seq(ChainRoots), Len(settled) > 0, NEW tip \in Tips
  PROVE  BelowMargin(SafeBlock(tip))
<1>1. SafetyMargin \in Nat /\ tip \in Nat /\ tip <= Latest
  BY HostAssumption DEF Tips
<1>2. Latest \in Int
  BY HostAssumption DEF Latest
<1> QED
  BY <1>1, <1>2 DEF BelowMargin, SafeBlock

\* Once the block is picked, no node of the pool lacks it.
LEMMA PickIsKnown ==
  ASSUME PickInv, pc \notin {"load", "latest", "failed"}, NEW tip \in Tips
  PROVE  PickedBlock => ~(hostInput.block > tip)
<1> SUFFICES ASSUME PickedBlock PROVE ~(hostInput.block > tip)
  OBVIOUS
<1>1. settled \in Seq(ChainRoots) /\ Len(settled) > 0
  BY DEF PickInv
<1>2. BelowMargin(hostInput.block)
  BY DEF PickInv
<1>3. hostInput.block \in Nat /\ tip \in Nat /\ hostInput.block <= tip
  BY <1>1, <1>2, EveryTipHasIt
<1> QED
  BY <1>3

\* A failure for another reason keeps the invariant, and so does one of a run that named its
\* block.
LEMMA FailKeeps ==
  ASSUME PickInv, NEW why, Fail(why), why # "no block" \/ ~PickedBlock
  PROVE  PickInv'
BY DEF PickInv, Fail, environment, resolved, PickedBlock, BelowMargin, Latest

\* What leads from the proofs to the prover leaves the block and the root alone.
LEMMA HandKeeps ==
  ASSUME PickInv, pc \notin {"load", "latest", "failed"}, NEW in, Hand(in)
  PROVE  PickInv'
<1>1. CASE WithinBounds(in)
  <2>1. /\ pc' = "handed"
        /\ UNCHANGED <<settled, job, hostInput, root, reason>>
    BY <1>1 DEF Hand, environment, resolved
  <2> QED
    BY <2>1 DEF PickInv, PickedBlock, BelowMargin, Latest
<1>2. CASE ~WithinBounds(in)
  BY <1>2, FailKeeps DEF Hand
<1> QED
  BY <1>1, <1>2

\* So does everything else that happens once the block is picked.
LEMMA QuietStepKeeps ==
  ASSUME PickInv, pc \notin {"load", "latest", "failed"},
         pc' \notin {"load", "latest", "failed"},
         UNCHANGED <<settled, job, hostInput, root, reason>>
  PROVE  PickInv'
BY DEF PickInv, PickedBlock, BelowMargin, Latest

LEMMA InitPicks == Init => PickInv
<1> SUFFICES ASSUME Init PROVE PickInv
  OBVIOUS
<1>1. settled \in [1 .. FirstSettled -> ChainRoots]
  BY DEF Init
<1>2. settled \in Seq(ChainRoots) /\ Len(settled) = FirstSettled
  BY <1>1, HostAssumption
<1> QED
  BY <1>2, HostAssumption DEF Init, PickInv

LEMMA LoadPicks == PickInv /\ Load => PickInv'
<1> SUFFICES ASSUME PickInv, Load PROVE PickInv'
  OBVIOUS
<1> DEFINE request == IF job.json THEN file ELSE EnvRequest(job.env)
<1>1. hostInput = None /\ root = None /\ pc = "load"
  BY DEF Load, PickInv
<1>2. CASE Fail("input")
  BY <1>2, FailKeeps
<1>3. CASE ~Fail("input")
  <2>1. /\ hostInput' = FromRequest(request)
        /\ pc' = IF request.block = None THEN "latest" ELSE "root"
        /\ UNCHANGED <<settled, job, root, reason>>
    BY <1>3 DEF Load, environment, outcome
  <2>2. CASE job.json
    BY <1>1, <2>1, <2>2 DEF PickInv, PickedBlock
  <2>3. CASE ~job.json /\ PickedBlock
    <3>1. request = EnvRequest(job.env) /\ job.env.block = None
      BY <2>3 DEF PickedBlock
    <3>2. request.block = None
      BY <3>1 DEF EnvRequest
    <3>3. pc' = "latest"
      BY <2>1, <3>2
    <3>4. "block" \in DOMAIN hostInput'
      BY <2>1, <3>1 DEF FromRequest, EnvRequest
    <3> QED
      BY <1>1, <2>1, <3>3, <3>4 DEF PickInv, PickedBlock
  <2>4. CASE ~job.json /\ ~PickedBlock
    BY <1>1, <2>1, <2>4 DEF PickInv, PickedBlock
  <2> QED
    BY <2>2, <2>3, <2>4
<1> QED
  BY <1>2, <1>3

LEMMA FetchLatestPicks ==
  ASSUME PickInv, NEW tip, FetchLatest(tip)
  PROVE  PickInv'
<1>1. /\ pc = "latest" /\ tip \in Tips
      /\ hostInput' = [hostInput EXCEPT !.block = SafeBlock(tip)]
      /\ pc' = "root"
      /\ UNCHANGED <<settled, job, root, reason>>
  BY DEF FetchLatest, environment, outcome
<1>2. BelowMargin(SafeBlock(tip))
  BY <1>1, PickIsBelowMargin DEF PickInv
<1>3. PickedBlock => hostInput'.block = SafeBlock(tip)
  BY <1>1 DEF PickInv
<1> QED
  BY <1>1, <1>2, <1>3 DEF PickInv, PickedBlock, BelowMargin, Latest

LEMMA FetchStateRootPicks ==
  ASSUME "stale" \notin Oddities, PickInv, NEW tip, FetchStateRoot(tip)
  PROVE  PickInv'
<1>1. pc = "root" /\ tip \in Tips
  BY DEF FetchStateRoot
<1>2. PickedBlock => ~(hostInput.block > tip)
  BY <1>1, PickIsKnown
<1>3. CASE hostInput.block > tip
  BY <1>2, <1>3, FailKeeps DEF FetchStateRoot
<1>4. CASE ~(hostInput.block > tip)
  <2>1. PICK r \in RootsAt(hostInput.block) :
          IF Malformed(hostInput.requests, EpochOf(r)) THEN Fail("request")
          ELSE /\ root' = r /\ epoch' = EpochOf(r)
               /\ pc' = IF job.source = "rpc" THEN "proofs"
                        ELSE IF job.json THEN "adapter" ELSE "truncate"
               /\ UNCHANGED <<environment, job, hostInput, toolkit, outcome>>
    BY <1>4 DEF FetchStateRoot
  <2>2. CASE Fail("request")
    BY <2>2, FailKeeps
  <2>3. CASE ~Fail("request")
    <3>1. /\ root' = r /\ pc' \in {"proofs", "adapter", "truncate"}
          /\ UNCHANGED <<settled, job, hostInput, reason>>
      BY <2>1, <2>3 DEF environment, outcome
    <3>2. CASE PickedBlock
      <4>1. hostInput.block \in 0 .. Len(settled) - 1
        BY <1>1, <3>2, BelowMarginIsSettled DEF PickInv
      <4>2. settled \in Seq(ChainRoots) /\ hostInput.block < Len(settled)
        <5>1. settled \in Seq(ChainRoots)
          BY DEF PickInv
        <5>2. Len(settled) \in Nat
          BY <5>1
        <5> QED
          BY <4>1, <5>1, <5>2
      <4>3. RootsAt(hostInput.block) = {settled[hostInput.block + 1]}
        BY <4>2 DEF RootsAt
      <4>4. r = settled[hostInput.block + 1]
        BY <2>1, <4>3
      <4> QED
        BY <1>1, <3>1, <3>2, <4>1, <4>4 DEF PickInv, PickedBlock, BelowMargin, Latest
    <3>3. CASE ~PickedBlock
      BY <3>1, <3>3 DEF PickInv, PickedBlock
    <3> QED
      BY <3>2, <3>3
  <2> QED
    BY <2>2, <2>3
<1> QED
  BY <1>3, <1>4

LEMMA FetchProofsPicks ==
  ASSUME PickInv, NEW tip, FetchProofs(tip)
  PROVE  PickInv'
<1>1. pc = "proofs" /\ tip \in Tips
  BY DEF FetchProofs
<1>2. PickedBlock => ~(hostInput.block > tip)
  BY <1>1, PickIsKnown
<1>3. CASE hostInput.block > tip
  BY <1>2, <1>3, FailKeeps DEF FetchProofs
<1>4. CASE ~(hostInput.block > tip)
  <2>1. PICK answer : BuildFromRpc(answer)
    BY <1>4 DEF FetchProofs
  <2>2. \/ Fail("controller") \/ Fail("proofs")
        \/ Hand(InputFrom(answer.account, FoundByRpc(answer)))
    BY <2>1 DEF BuildFromRpc
  <2> QED
    BY <1>1, <2>2, FailKeeps, HandKeeps
<1> QED
  BY <1>3, <1>4

LEMMA FetchToolkitProofPicks ==
  ASSUME PickInv, NEW tip, FetchToolkitProof(tip)
  PROVE  PickInv'
<1>1. CASE Fail("toolkit")
  BY <1>1, FailKeeps
<1>2. CASE ~Fail("toolkit")
  <2>1. pc = "toolkit" /\ pc' = pc /\ UNCHANGED <<settled, job, hostInput, root, reason>>
    BY <1>2 DEF FetchToolkitProof, environment, resolved, outcome
  <2> QED
    BY <2>1, QuietStepKeeps
<1> QED
  BY <1>1, <1>2

LEMMA FinishToolkitPicks == PickInv /\ FinishToolkit => PickInv'
<1> SUFFICES ASSUME PickInv, FinishToolkit PROVE PickInv'
  OBVIOUS
<1>1. pc = "toolkit"
  BY DEF FinishToolkit
<1>2. \/ Fail("context") \/ Fail("controller") \/ Fail("proofs")
      \/ \E pf : Hand(InputFrom(pf, FoundByToolkit))
  BY DEF FinishToolkit, BuildFromToolkit
<1> QED
  BY <1>1, <1>2, FailKeeps, HandKeeps

LEMMA ReadRequestPicks == PickInv /\ ReadRequest => PickInv'
<1> SUFFICES ASSUME PickInv, ReadRequest PROVE PickInv'
  OBVIOUS
<1>1. CASE Fail("toolkit")
  BY <1>1, FailKeeps
<1>2. CASE ~Fail("toolkit")
  <2>1. /\ pc = "adapter" /\ pc' = "toolkit"
        /\ UNCHANGED <<settled, job, hostInput, root, reason>>
    BY <1>2 DEF ReadRequest, environment, resolved, outcome
  <2> QED
    BY <2>1, QuietStepKeeps
<1> QED
  BY <1>1, <1>2

\* One more settled block moves nothing that was settled.
LEMMA SettleKeeps ==
  ASSUME PickInv, NEW r \in ChainRoots, Settle(r)
  PROVE  PickInv'
<1>1. /\ settled' = Append(settled, r)
      /\ UNCHANGED <<job, pc, hostInput, root, reason>>
  BY DEF Settle, resolved, outcome
<1>2. settled \in Seq(ChainRoots)
  BY DEF PickInv
<1>3. /\ settled' \in Seq(ChainRoots) /\ Len(settled') = Len(settled) + 1
      /\ \A i \in 1 .. Len(settled) : settled'[i] = settled[i]
  BY <1>1, <1>2
<1>4. \A n : BelowMargin(n) => BelowMargin(n)'
  <2> SUFFICES ASSUME NEW n, BelowMargin(n) PROVE BelowMargin(n)'
    OBVIOUS
  <2> QED
    BY <1>2, <1>3, HostAssumption DEF BelowMargin, Latest
<1>5. Len(settled) \in Nat /\ Len(settled') > 0
  BY <1>2, <1>3
<1>6. \A n \in 0 .. Len(settled) - 1 :
        n \in 0 .. Len(settled') - 1 /\ settled'[n + 1] = settled[n + 1]
  BY <1>3, <1>5
<1>7. PickedBlock' <=> PickedBlock
  BY <1>1 DEF PickedBlock
<1>8. ASSUME PickedBlock, hostInput # None, root # None
      PROVE  hostInput.block \in 0 .. Len(settled') - 1 /\ root = settled'[hostInput.block + 1]
  BY <1>6, <1>8 DEF PickInv
<1>9. ASSUME PickedBlock, pc \notin {"load", "latest", "failed"}
      PROVE  BelowMargin(hostInput.block)'
  BY <1>1, <1>4, <1>9 DEF PickInv, BelowMargin, Latest
<1> QED
  BY <1>1, <1>3, <1>5, <1>7, <1>8, <1>9 DEF PickInv

LEMMA StepPicks ==
  ASSUME "stale" \notin Oddities, PickInv, [Next]_vars
  PROVE  PickInv'
<1>1. CASE Load
  BY <1>1, LoadPicks
<1>2. CASE TruncateInput \/ WriteInput
  <2>1. /\ pc \in {"truncate", "write"} /\ pc' \in {"write", "adapter"}
        /\ UNCHANGED <<settled, job, hostInput, root, reason>>
    BY <1>2 DEF TruncateInput, WriteInput, resolved, outcome
  <2> QED
    BY <2>1, QuietStepKeeps
<1>3. ASSUME NEW tip, Answered(tip) PROVE PickInv'
  BY <1>3, FetchLatestPicks, FetchStateRootPicks, FetchProofsPicks, FetchToolkitProofPicks
     DEF Answered
<1>4. CASE ReadRequest
  BY <1>4, ReadRequestPicks
<1>5. CASE FinishToolkit
  BY <1>5, FinishToolkitPicks
<1>6. CASE GiveUp
  BY <1>6, FailKeeps DEF GiveUp
<1>7. CASE Prove
  <2>1. /\ pc = "handed" /\ pc' \in {"proven", "rejected"}
        /\ UNCHANGED <<settled, job, hostInput, root, reason>>
    BY <1>7 DEF Prove, environment, resolved
  <2> QED
    BY <2>1, QuietStepKeeps
<1>8. ASSUME NEW r \in ChainRoots, Settle(r) PROVE PickInv'
  BY <1>8, SettleKeeps
<1>9. ASSUME NEW contents, Overwrite(contents) PROVE PickInv'
  <2>1. UNCHANGED <<settled, job, pc, hostInput, root, reason>>
    BY <1>9 DEF Overwrite, resolved, outcome
  <2> QED
    BY <2>1 DEF PickInv, PickedBlock, BelowMargin, Latest
<1>10. CASE UNCHANGED vars
  <2>1. UNCHANGED <<settled, job, pc, hostInput, root, reason>>
    BY <1>10 DEF vars, environment, resolved, outcome
  <2> QED
    BY <2>1 DEF PickInv, PickedBlock, BelowMargin, Latest
<1> QED
  BY <1>1, <1>2, <1>3, <1>4, <1>5, <1>6, <1>7, <1>8, <1>9, <1>10 DEF Next, Alone

\* For every chain, margin and pool of nodes within it, however the chain grows during the run:
\* the block a run picks is known to every node it asks, and its root is the one that stays
\* (main.rs, BLOCK_SAFETY_MARGIN).
THEOREM MarginSuffices ==
  ASSUME "stale" \notin Oddities
  PROVE  Spec => []PickedBlockIsSafe
<1>1. Init => PickInv
  BY InitPicks
<1>2. PickInv /\ [Next]_vars => PickInv'
  BY StepPicks
<1>3. PickInv => PickedBlockIsSafe
  <2> SUFFICES ASSUME PickInv, hostInput # None, PickedBlock
               PROVE  /\ reason # "no block"
                      /\ root # None => /\ hostInput.block < Len(settled)
                                        /\ root = settled[hostInput.block + 1]
    BY DEF PickedBlockIsSafe
  <2>1. settled \in Seq(ChainRoots)
    BY DEF PickInv
  <2>2. root # None => /\ hostInput.block \in 0 .. Len(settled) - 1
                       /\ root = settled[hostInput.block + 1]
    BY DEF PickInv
  <2>3. Len(settled) \in Nat
    BY <2>1
  <2>4. root # None => hostInput.block < Len(settled)
    BY <2>2, <2>3
  <2>5. reason # "no block"
    BY DEF PickInv
  <2> QED
    BY <2>2, <2>4, <2>5
<1> QED
  BY <1>1, <1>2, <1>3, PTL DEF Spec

----------------------------------------------------------------------------
(* Types, and which field is set when *)

\* HostInput, its block_number resolved or not.
ResolvedInput ==
  [chain: Nat, block: Nat \cup {None}, epoch: Nat \cup {None}, protocol: Protocols,
   controller: Addresses, requests: Seq(RequestItem)]

\* Before the host knows its block and the block's root.
Choosing == {"load", "latest", "root"}

\* The input asks for what this run is asked for, one by one and in their order.
AsksForTheRun(in) ==
  LET points == Indices("point_data")
      votes == Indices("account_data")
      id == AsU8[hostInput.protocol]
  IN
  /\ in.stateRoot = root /\ in.epoch = epoch
  /\ DOMAIN in.points = DOMAIN points /\ DOMAIN in.accounts = DOMAIN votes
  /\ \A j \in DOMAIN points :
       /\ in.points[j].protocol_id = id
       /\ in.points[j].gauge = hostInput.requests[points[j]].gauge
       /\ in.points[j].gauge_controller = hostInput.controller
  /\ \A j \in DOMAIN votes :
       /\ in.accounts[j].protocol_id = id
       /\ in.accounts[j].account = hostInput.requests[votes[j]].account
       /\ in.accounts[j].gauge = hostInput.requests[votes[j]].gauge
       /\ in.accounts[j].gauge_controller = hostInput.controller

\* What the environment does to a run.
EnvironmentInv ==
  /\ settled \in Seq(ChainRoots) /\ Len(settled) \in FirstSettled .. MaxSettled
  /\ \/ file \in FileContents \cup {Torn}
     \/ pc \notin Choosing /\ file = [hostInput EXCEPT !.epoch = epoch]

\* What the run has settled on so far.
ResolvedInv ==
  /\ job \in Jobs
  /\ pc \in {"load", "latest", "root", "proofs", "truncate", "write", "adapter", "toolkit",
             "handed"} \cup Ended
  /\ pc = "load" => hostInput = None
  /\ hostInput = None \/ hostInput \in ResolvedInput
  /\ pc \notin {"load", "failed"} =>
       /\ hostInput \in ResolvedInput
       /\ pc # "latest" => hostInput.block \in Nat
       /\ hostInput.epoch # None /\ hostInput.epoch % Week = 0 => hostInput.epoch \in Epochs
  /\ root \in ChainRoots \cup {None} /\ epoch \in Epochs \cup {None}
  /\ pc \in Choosing => root = None /\ epoch = None
  /\ pc \notin Choosing \cup {"failed"} =>
       root \in ChainRoots /\ epoch \in Epochs /\ ~Malformed(hostInput.requests, epoch)

\* What it has come to.
OutcomeInv ==
  /\ handed # None => WithinBounds(handed)
  /\ pc \notin {"handed", "proven", "rejected"} => handed = None
  /\ pc \in {"handed", "proven", "rejected"} => Canonical /\ AsksForTheRun(handed)
  /\ pc = "proven" => Accepted(handed)
  /\ proven = IF pc = "proven" THEN PublicValues(handed) ELSE None
  /\ (reason # "none") <=> (pc = "failed")

HostInv == EnvironmentInv /\ ResolvedInv /\ OutcomeInv

\* No other part of HostInv than OutcomeInv speaks of the input, and that only until it changes.
LEMMA AsksOfTheSame ==
  ASSUME UNCHANGED <<hostInput, root, epoch>>, NEW in
  PROVE  AsksForTheRun(in)' <=> AsksForTheRun(in)
  BY DEF AsksForTheRun, Indices

LEMMA InputAsks ==
  ASSUME NEW pf, NEW found
  PROVE  AsksForTheRun(InputFrom(pf, found))
  BY DEF AsksForTheRun, InputFrom

\* A run on its way to the prover.
Underway == pc \notin {"handed"} \cup Ended

LEMMA FailKeepsHost ==
  ASSUME HostInv, Underway, NEW why, why # "none", Fail(why)
  PROVE  HostInv'
<1>1. /\ pc' = "failed" /\ reason' = why
      /\ UNCHANGED <<settled, file, job, hostInput, root, epoch, handed, proven>>
  BY DEF Fail, environment, resolved
<1>2. EnvironmentInv'
  BY <1>1 DEF HostInv, EnvironmentInv, Choosing
<1>3. ResolvedInv'
  BY <1>1 DEF HostInv, ResolvedInv, Choosing, Ended
<1>4. OutcomeInv'
  BY <1>1 DEF HostInv, OutcomeInv, Underway, Ended
<1> QED
  BY <1>2, <1>3, <1>4 DEF HostInv

\* A step between the root and the prover that leaves the run's own data alone.
LEMMA QuietStepKeepsHost ==
  ASSUME HostInv, Underway, pc \notin Choosing, Underway', pc' \notin Choosing,
         pc' \in {"proofs", "truncate", "write", "adapter", "toolkit"},
         UNCHANGED <<settled, job, hostInput, root, epoch, handed, proven, reason>>,
         file' = file \/ file' \in FileContents \cup {Torn}
           \/ file' = [hostInput EXCEPT !.epoch = epoch]
  PROVE  HostInv'
<1>1. EnvironmentInv'
  BY DEF HostInv, EnvironmentInv
<1>2. ResolvedInv'
  BY DEF HostInv, ResolvedInv, Choosing, Ended, Underway
<1>3. OutcomeInv'
  BY DEF HostInv, OutcomeInv, Underway, Ended
<1> QED
  BY <1>1, <1>2, <1>3 DEF HostInv

LEMMA HandKeepsHost ==
  ASSUME HostInv, Underway, pc \notin Choosing, NEW in, Hand(in), Canonical, AsksForTheRun(in)
  PROVE  HostInv'
<1>1. CASE WithinBounds(in)
  <2>1. /\ pc' = "handed" /\ handed' = in
        /\ UNCHANGED <<settled, file, job, hostInput, root, epoch, proven, reason>>
    BY <1>1 DEF Hand, environment, resolved
  <2>2. EnvironmentInv'
    BY <2>1 DEF HostInv, EnvironmentInv, Choosing
  <2>3. ResolvedInv'
    BY <2>1 DEF HostInv, ResolvedInv, Choosing, Ended, Underway
  <2>4. Canonical' /\ AsksForTheRun(handed)'
    <3>1. AsksForTheRun(in)'
      BY <2>1, AsksOfTheSame
    <3>2. AsksForTheRun(handed)'
      BY <2>1, <3>1 DEF AsksForTheRun
    <3> QED
      BY <2>1, <3>2 DEF Canonical
  <2>5. OutcomeInv'
    BY <1>1, <2>1, <2>4 DEF HostInv, OutcomeInv, Underway, Ended
  <2> QED
    BY <2>2, <2>3, <2>5 DEF HostInv
<1>2. CASE ~WithinBounds(in)
  BY <1>2, FailKeepsHost DEF Hand
<1> QED
  BY <1>1, <1>2

LEMMA InitHost == Init => HostInv
<1> SUFFICES ASSUME Init PROVE HostInv
  OBVIOUS
<1>1. settled \in [1 .. FirstSettled -> ChainRoots]
  BY DEF Init
<1>2. settled \in Seq(ChainRoots) /\ Len(settled) = FirstSettled
  BY <1>1, HostAssumption
<1>3. EnvironmentInv
  BY <1>2, HostAssumption DEF Init, EnvironmentInv
<1>4. ResolvedInv
  BY DEF Init, ResolvedInv, Choosing
<1>5. OutcomeInv
  BY DEF Init, OutcomeInv
<1> QED
  BY <1>3, <1>4, <1>5 DEF HostInv

\* A request as the file or the environment holds it.
Requested ==
  [chain: Nat, block: Nat \cup {None}, epoch: Nat \cup {None}, protocol: STRING \cup {None},
   controller: Addresses \cup {None}, requests: Seq(RequestItem)]

LEMMA FromRequestResolves ==
  ASSUME NEW r \in Requested, Named(r.protocol) \in Protocols
  PROVE  /\ FromRequest(r) \in ResolvedInput
         /\ FromRequest(r).block = r.block /\ FromRequest(r).epoch = r.epoch
<1>1. /\ r.chain \in Nat /\ r.block \in Nat \cup {None} /\ r.epoch \in Nat \cup {None}
      /\ r.controller \in Addresses \cup {None} /\ r.requests \in Seq(RequestItem)
  BY DEF Requested
<1>2. Controller[Named(r.protocol)] \in Addresses
  BY ChainAssumption DEF ChainAssumption
<1> DEFINE p == Named(r.protocol)
           c == IF r.controller = None THEN Controller[p] ELSE r.controller
<1>3. c \in Addresses /\ p \in Protocols
  BY <1>1, <1>2
<1>4. FromRequest(r) = [[r EXCEPT !.protocol = p] EXCEPT !.controller = c]
  BY Zenon DEF FromRequest
<1> HIDE DEF c, p
<1>5. PICK q : q = [r EXCEPT !.protocol = p]
  OBVIOUS
<1>6. /\ q \in [chain: Nat, block: Nat \cup {None}, epoch: Nat \cup {None},
                protocol: Protocols, controller: Addresses \cup {None},
                requests: Seq(RequestItem)]
      /\ q.block = r.block /\ q.epoch = r.epoch
  BY <1>3, <1>5 DEF Requested
<1> QED
  BY <1>3, <1>4, <1>5, <1>6 DEF ResolvedInput

LEMMA LoadKeepsHost == HostInv /\ Load => HostInv'
<1> SUFFICES ASSUME HostInv, Load PROVE HostInv'
  OBVIOUS
<1> DEFINE request == IF job.json THEN file ELSE EnvRequest(job.env)
<1>1. pc = "load" /\ Underway
  BY DEF Load, Underway, Ended
<1>2. CASE Fail("input")
  BY <1>1, <1>2, FailKeepsHost
<1>3. CASE ~Fail("input")
  <2>1. /\ request # Torn
        /\ ~job.json => None \notin {job.env.account, job.env.gauge}
        /\ Named(request.protocol) \in Protocols
        /\ hostInput' = FromRequest(request)
        /\ pc' = IF request.block = None THEN "latest" ELSE "root"
        /\ UNCHANGED <<settled, file, job, root, epoch, handed, proven, reason>>
    BY <1>3 DEF Load, environment, outcome
  <2>2. job \in Jobs /\ job.json \in BOOLEAN /\ file \in FileContents \cup {Torn}
    BY <1>1, RequestsAssumption
       DEF HostInv, ResolvedInv, EnvironmentInv, Choosing, RequestsAssumption
  <2>3. /\ request \in Requested
        /\ request.epoch # None /\ request.epoch % Week = 0 => request.epoch \in Epochs
    <3>1. CASE job.json
      <4>1. file \in FileContents
        BY <2>1, <2>2, <3>1
      <4>2. file \in HostRequest /\ request = file
        BY <3>1, <4>1, RequestsAssumption DEF RequestsAssumption
      <4> QED
        BY <4>1, <4>2, EpochsAssumption DEF EpochsAssumption, HostRequest, Requested
    <3>2. CASE ~job.json
      <4>1. job.env \in EnvSettings /\ request = EnvRequest(job.env)
        BY <2>2, <3>2, RequestsAssumption DEF RequestsAssumption
      <4>2. PICK env \in EnvSettings : env = job.env
        BY <4>1
      <4>3. env.account \in Accounts /\ env.gauge \in Gauges
        BY <2>1, <3>2, <4>2 DEF EnvSettings
      <4>4. EnvRequest(env).requests \in Seq(RequestItem)
        BY <4>3 DEF EnvRequest, RequestItem
      <4>5. EnvRequest(env) \in Requested
        BY <4>4 DEF EnvRequest, EnvSettings, Requested
      <4>6. EnvRequest(env).epoch = env.epoch
        BY DEF EnvRequest
      <4>7. env.epoch # None /\ env.epoch % Week = 0 => env.epoch \in Epochs
        BY <2>2, <3>2, <4>2, EpochsAssumption DEF EpochsAssumption
      <4> QED
        BY <4>1, <4>2, <4>5, <4>6, <4>7
    <3> QED
      BY <3>1, <3>2
  <2> HIDE DEF request
  <2>4. /\ hostInput' \in ResolvedInput
        /\ hostInput'.block = request.block /\ hostInput'.epoch = request.epoch
    BY <2>1, <2>3, FromRequestResolves
  <2>5. hostInput'.block \in Nat \cup {None}
    BY <2>4 DEF ResolvedInput
  <2>6. EnvironmentInv'
    BY <1>1, <2>1 DEF HostInv, EnvironmentInv, Choosing
  <2>7. ResolvedInv'
    BY <1>1, <2>1, <2>3, <2>4, <2>5 DEF HostInv, ResolvedInv, Choosing, Ended
  <2>8. OutcomeInv'
    BY <1>1, <2>1 DEF HostInv, OutcomeInv
  <2> QED
    BY <2>6, <2>7, <2>8 DEF HostInv
<1> QED
  BY <1>2, <1>3

\* What the host picks is a block number.
LEMMA PickIsANumber ==
  ASSUME settled \in Seq(ChainRoots), NEW tip \in Tips
  PROVE  SafeBlock(tip) \in Nat
  BY HostAssumption DEF HostAssumption, Tips, SafeBlock

LEMMA FetchLatestKeepsHost ==
  ASSUME HostInv, NEW tip, FetchLatest(tip)
  PROVE  HostInv'
<1>1. /\ pc = "latest" /\ tip \in Tips
      /\ hostInput' = [hostInput EXCEPT !.block = SafeBlock(tip)]
      /\ pc' = "root"
      /\ UNCHANGED <<settled, file, job, root, epoch, handed, proven, reason>>
  BY DEF FetchLatest, environment, outcome
<1>2. SafeBlock(tip) \in Nat
  BY <1>1, PickIsANumber DEF HostInv, EnvironmentInv
<1>3. hostInput \in ResolvedInput
  BY <1>1 DEF HostInv, ResolvedInv
<1>4. /\ hostInput' \in ResolvedInput /\ hostInput'.block \in Nat
      /\ hostInput'.epoch = hostInput.epoch
  BY <1>1, <1>2, <1>3 DEF ResolvedInput
<1>5. EnvironmentInv'
  BY <1>1 DEF HostInv, EnvironmentInv, Choosing
<1>6. ResolvedInv'
  BY <1>1, <1>4 DEF HostInv, ResolvedInv, Choosing, Ended
<1>7. OutcomeInv'
  BY <1>1 DEF HostInv, OutcomeInv
<1> QED
  BY <1>5, <1>6, <1>7 DEF HostInv

\* A node answers with the root of some block that the chain may have.
LEMMA RootsAreOfTheChain ==
  ASSUME settled \in Seq(ChainRoots), Len(settled) \in FirstSettled .. MaxSettled,
         NEW n \in Nat, NEW tip \in Tips, ~(n > tip), NEW r \in RootsAt(n)
  PROVE  r \in ChainRoots
<1>1. CASE "stale" \in Oddities
  BY <1>1 DEF RootsAt
<1>2. CASE "stale" \notin Oddities /\ n < Len(settled)
  <2>1. n + 1 \in 1 .. Len(settled)
    BY <1>2, HostAssumption DEF HostAssumption
  <2> QED
    BY <1>2, <2>1 DEF RootsAt
<1>3. CASE "stale" \notin Oddities /\ ~(n < Len(settled))
  <2>1. n \in 0 .. MaxSettled + ReorgDepth
    BY HostAssumption DEF HostAssumption, Tips, Latest
  <2> QED
    BY <1>3, <2>1, HostAssumption DEF HostAssumption, RootsAt
<1> QED
  BY <1>1, <1>2, <1>3

LEMMA FetchStateRootKeepsHost ==
  ASSUME HostInv, NEW tip, FetchStateRoot(tip)
  PROVE  HostInv'
<1>1. pc = "root" /\ tip \in Tips /\ Underway
  BY DEF FetchStateRoot, Underway, Ended
<1>2. CASE \E why \in {"no block", "request"} : Fail(why)
  BY <1>1, <1>2, FailKeepsHost
<1>3. CASE ~\E why \in {"no block", "request"} : Fail(why)
  <2>1. ~(hostInput.block > tip)
    BY <1>3 DEF FetchStateRoot
  <2>2. PICK r \in RootsAt(hostInput.block) :
          /\ ~Malformed(hostInput.requests, EpochOf(r))
          /\ root' = r /\ epoch' = EpochOf(r)
          /\ pc' = IF job.source = "rpc" THEN "proofs"
                   ELSE IF job.json THEN "adapter" ELSE "truncate"
          /\ UNCHANGED <<settled, file, job, hostInput, handed, proven, reason>>
    BY <1>3, <2>1 DEF FetchStateRoot, environment, outcome
  <2>3. hostInput \in ResolvedInput /\ hostInput.block \in Nat
    BY <1>1 DEF HostInv, ResolvedInv
  <2>4. r \in ChainRoots
    BY <1>1, <2>1, <2>3, RootsAreOfTheChain DEF HostInv, EnvironmentInv
  <2>5. EpochOf(r) \in Epochs
    <3>1. hostInput.epoch # None => EpochOf(r) = hostInput.epoch
      BY DEF EpochOf
    <3>2. EpochOf(r) % Week = 0
      BY <2>2 DEF Malformed
    <3>3. hostInput.epoch # None /\ hostInput.epoch % Week = 0 => hostInput.epoch \in Epochs
      BY <1>1 DEF HostInv, ResolvedInv
    <3>4. hostInput.epoch = None => EpochOf(r) \in Epochs
      BY <2>4, EpochsAssumption DEF EpochsAssumption, EpochOf
    <3> QED
      BY <3>1, <3>2, <3>3, <3>4
  <2>6. EnvironmentInv'
    BY <1>1, <2>2 DEF HostInv, EnvironmentInv, Choosing
  <2>7. ResolvedInv'
    BY <1>1, <2>2, <2>3, <2>4, <2>5 DEF HostInv, ResolvedInv, Choosing, Ended
  <2>8. OutcomeInv'
    BY <1>1, <2>2 DEF HostInv, OutcomeInv
  <2> QED
    BY <2>6, <2>7, <2>8 DEF HostInv
<1> QED
  BY <1>2, <1>3

LEMMA FetchProofsKeepsHost ==
  ASSUME HostInv, NEW tip, FetchProofs(tip)
  PROVE  HostInv'
<1>1. pc = "proofs" /\ Underway /\ pc \notin Choosing
  BY DEF FetchProofs, Underway, Ended, Choosing
<1>2. CASE \E why \in {"no block", "controller", "proofs"} : Fail(why)
  BY <1>1, <1>2, FailKeepsHost
<1>3. CASE ~\E why \in {"no block", "controller", "proofs"} : Fail(why)
  <2>1. PICK answer : Canonical /\ Hand(InputFrom(answer.account, FoundByRpc(answer)))
    BY <1>3 DEF FetchProofs, BuildFromRpc
  <2>2. AsksForTheRun(InputFrom(answer.account, FoundByRpc(answer)))
    BY InputAsks
  <2> QED
    BY <1>1, <2>1, <2>2, HandKeepsHost
<1> QED
  BY <1>2, <1>3

LEMMA WriteKeepsHost == HostInv /\ (TruncateInput \/ WriteInput) => HostInv'
<1> SUFFICES ASSUME HostInv, TruncateInput \/ WriteInput PROVE HostInv'
  OBVIOUS
<1>1. /\ pc \in {"truncate", "write"} /\ pc' \in {"write", "adapter"}
      /\ file' = Torn \/ file' = [hostInput EXCEPT !.epoch = epoch]
      /\ UNCHANGED <<settled, job, hostInput, root, epoch, handed, proven, reason>>
  BY DEF TruncateInput, WriteInput, resolved, outcome
<1>2. /\ Underway /\ pc \notin Choosing /\ Underway' /\ pc' \notin Choosing
      /\ pc' \in {"proofs", "truncate", "write", "adapter", "toolkit"}
  BY <1>1 DEF Underway, Ended, Choosing
<1> QED
  BY <1>1, <1>2, QuietStepKeepsHost

LEMMA ToolkitKeepsHost ==
  ASSUME HostInv, NEW tip, ReadRequest \/ FetchToolkitProof(tip)
  PROVE  HostInv'
<1>1. pc \in {"adapter", "toolkit"} /\ Underway /\ pc \notin Choosing
  BY DEF ReadRequest, FetchToolkitProof, Underway, Ended, Choosing
<1>2. CASE Fail("toolkit")
  BY <1>1, <1>2, FailKeepsHost
<1>3. CASE ~Fail("toolkit")
  <2>1. /\ pc' = "toolkit"
        /\ UNCHANGED <<settled, file, job, hostInput, root, epoch, handed, proven, reason>>
    BY <1>3 DEF ReadRequest, FetchToolkitProof, environment, resolved, outcome
  <2>2. /\ Underway' /\ pc' \notin Choosing
        /\ pc' \in {"proofs", "truncate", "write", "adapter", "toolkit"}
    BY <2>1 DEF Underway, Ended, Choosing
  <2> QED
    BY <1>1, <2>1, <2>2, QuietStepKeepsHost
<1> QED
  BY <1>2, <1>3

LEMMA FinishToolkitKeepsHost == HostInv /\ FinishToolkit => HostInv'
<1> SUFFICES ASSUME HostInv, FinishToolkit PROVE HostInv'
  OBVIOUS
<1>1. pc = "toolkit" /\ Underway /\ pc \notin Choosing
  BY DEF FinishToolkit, Underway, Ended, Choosing
<1>2. CASE \E why \in {"context", "controller", "proofs"} : Fail(why)
  BY <1>1, <1>2, FailKeepsHost
<1>3. CASE ~\E why \in {"context", "controller", "proofs"} : Fail(why)
  <2>1. PICK pf : Canonical /\ Hand(InputFrom(pf, FoundByToolkit))
    BY <1>3 DEF FinishToolkit, BuildFromToolkit
  <2>2. AsksForTheRun(InputFrom(pf, FoundByToolkit))
    BY InputAsks
  <2> QED
    BY <1>1, <2>1, <2>2, HandKeepsHost
<1> QED
  BY <1>2, <1>3

LEMMA ProveKeepsHost == HostInv /\ Prove => HostInv'
<1> SUFFICES ASSUME HostInv, Prove PROVE HostInv'
  OBVIOUS
<1>1. /\ pc = "handed"
      /\ IF Accepted(handed)
         THEN pc' = "proven" /\ proven' = PublicValues(handed)
         ELSE pc' = "rejected" /\ UNCHANGED proven
      /\ UNCHANGED <<settled, file, job, hostInput, root, epoch, handed, reason>>
  BY DEF Prove, environment, resolved
<1>2. pc' \in {"proven", "rejected"}
  BY <1>1
<1>3. EnvironmentInv'
  BY <1>1, <1>2 DEF HostInv, EnvironmentInv, Choosing
<1>4. ResolvedInv'
  BY <1>1, <1>2 DEF HostInv, ResolvedInv, Choosing, Ended
<1>5. Canonical' /\ AsksForTheRun(handed)'
  <2>1. PICK in : in = handed
    OBVIOUS
  <2>2. Canonical /\ AsksForTheRun(in)
    BY <1>1, <2>1 DEF HostInv, OutcomeInv
  <2>3. AsksForTheRun(in)'
    BY <1>1, <2>2, AsksOfTheSame
  <2>4. AsksForTheRun(handed)'
    BY <1>1, <2>1, <2>3 DEF AsksForTheRun
  <2> QED
    BY <1>1, <2>2, <2>4 DEF Canonical
<1>6. OutcomeInv'
  BY <1>1, <1>2, <1>5 DEF HostInv, OutcomeInv
<1> QED
  BY <1>3, <1>4, <1>6 DEF HostInv

\* What goes on around a run touches neither its data nor its outcome.
LEMMA AroundKeepsHost ==
  ASSUME HostInv, UNCHANGED <<job, pc, hostInput, root, epoch, handed, proven, reason>>,
         EnvironmentInv'
  PROVE  HostInv'
<1>1. ResolvedInv'
  BY DEF HostInv, ResolvedInv
<1>2. pc \in {"handed", "proven", "rejected"} => Canonical' /\ AsksForTheRun(handed)'
  <2> SUFFICES ASSUME pc \in {"handed", "proven", "rejected"}
               PROVE  Canonical' /\ AsksForTheRun(handed)'
    OBVIOUS
  <2>1. PICK in : in = handed
    OBVIOUS
  <2>2. Canonical /\ AsksForTheRun(in)
    BY <2>1 DEF HostInv, OutcomeInv
  <2>3. AsksForTheRun(in)'
    BY <2>2, AsksOfTheSame
  <2>4. AsksForTheRun(handed)'
    BY <2>1, <2>3 DEF AsksForTheRun
  <2> QED
    BY <2>2, <2>4 DEF Canonical
<1>3. OutcomeInv'
  BY <1>2 DEF HostInv, OutcomeInv
<1> QED
  BY <1>1, <1>3 DEF HostInv

LEMMA SettleKeepsHost ==
  ASSUME HostInv, NEW r \in ChainRoots, Settle(r)
  PROVE  HostInv'
<1>1. /\ settled' = Append(settled, r) /\ Len(settled) < MaxSettled
      /\ UNCHANGED <<file, job, pc, hostInput, root, epoch, handed, proven, reason>>
  BY DEF Settle, resolved, outcome
<1>2. settled \in Seq(ChainRoots) /\ Len(settled) \in FirstSettled .. MaxSettled
  BY DEF HostInv, EnvironmentInv
<1>3. settled' \in Seq(ChainRoots) /\ Len(settled') = Len(settled) + 1
  BY <1>1, <1>2
<1>4. Len(settled') \in FirstSettled .. MaxSettled
  BY <1>1, <1>2, <1>3, HostAssumption DEF HostAssumption
<1>5. EnvironmentInv'
  BY <1>1, <1>3, <1>4 DEF HostInv, EnvironmentInv
<1> QED
  BY <1>1, <1>5, AroundKeepsHost

LEMMA OverwriteKeepsHost ==
  ASSUME HostInv, NEW contents \in FileContents \cup {Torn}, Overwrite(contents)
  PROVE  HostInv'
<1>1. /\ file' = contents
      /\ UNCHANGED <<settled, job, pc, hostInput, root, epoch, handed, proven, reason>>
  BY DEF Overwrite, resolved, outcome
<1>2. EnvironmentInv'
  BY <1>1 DEF HostInv, EnvironmentInv
<1> QED
  BY <1>1, <1>2, AroundKeepsHost

LEMMA StepKeepsHost == HostInv /\ [Next]_vars => HostInv'
<1> SUFFICES ASSUME HostInv, [Next]_vars PROVE HostInv'
  OBVIOUS
<1>1. CASE Load
  BY <1>1, LoadKeepsHost
<1>2. CASE TruncateInput \/ WriteInput
  BY <1>2, WriteKeepsHost
<1>3. ASSUME NEW tip, Answered(tip) PROVE HostInv'
  BY <1>3, FetchLatestKeepsHost, FetchStateRootKeepsHost, FetchProofsKeepsHost, ToolkitKeepsHost
     DEF Answered
<1>4. CASE ReadRequest
  BY <1>4, ToolkitKeepsHost
<1>5. CASE FinishToolkit
  BY <1>5, FinishToolkitKeepsHost
<1>6. CASE GiveUp
  <2>1. Underway /\ Fail("no answer")
    BY <1>6 DEF GiveUp, Waiting, Underway, Ended
  <2> QED
    BY <2>1, FailKeepsHost
<1>7. CASE Prove
  BY <1>7, ProveKeepsHost
<1>8. ASSUME NEW r \in ChainRoots, Settle(r) PROVE HostInv'
  BY <1>8, SettleKeepsHost
<1>9. ASSUME NEW contents \in FileContents \cup {Torn}, Overwrite(contents) PROVE HostInv'
  BY <1>9, OverwriteKeepsHost
<1>10. CASE UNCHANGED vars
  <2>1. UNCHANGED <<settled, file, job, pc, hostInput, root, epoch, handed, proven, reason>>
    BY <1>10 DEF vars, environment, resolved, outcome
  <2>2. EnvironmentInv'
    BY <2>1 DEF HostInv, EnvironmentInv
  <2> QED
    BY <2>1, <2>2, AroundKeepsHost
<1> QED
  BY <1>1, <1>2, <1>3, <1>4, <1>5, <1>6, <1>7, <1>8, <1>9, <1>10 DEF Next, Alone

LEMMA HostInvHolds == Spec => []HostInv
  BY InitHost, StepKeepsHost, PTL DEF Spec

\* For every chain, pool, job and file: the types of the run's data, and that it has an input
\* within the limits, public values and a reason exactly when it has come so far (main.rs).
THEOREM HostTypeCorrect == Spec => []TypeOK
<1>1. HostInv => TypeOK
  <2> SUFFICES ASSUME HostInv PROVE TypeOK
    OBVIOUS
  <2>1. hostInput # None => hostInput.block \in Nat \cup {None} /\ hostInput.protocol \in Protocols
    BY DEF HostInv, ResolvedInv, ResolvedInput
  <2>2. /\ settled \in Seq(ChainRoots)
        /\ file \in FileContents \cup {Torn} \/ file = [hostInput EXCEPT !.epoch = epoch]
    BY DEF HostInv, EnvironmentInv
  <2>3. /\ job \in Jobs /\ root \in ChainRoots \cup {None} /\ epoch \in Epochs \cup {None}
        /\ pc \in {"load", "latest", "root", "proofs", "truncate", "write", "adapter",
                   "toolkit", "handed"} \cup Ended
    BY DEF HostInv, ResolvedInv
  <2> QED
    BY <2>1, <2>2, <2>3 DEF HostInv, OutcomeInv, TypeOK
<1> QED
  BY <1>1, HostInvHolds, PTL

----------------------------------------------------------------------------
(* A proof answers its run *)

LEMMA IndicesOfAKind ==
  ASSUME hostInput \in ResolvedInput, NEW kind, NEW j \in DOMAIN Indices(kind)
  PROVE  LET r == hostInput.requests[Indices(kind)[j]] IN
         /\ Indices(kind)[j] \in DOMAIN hostInput.requests
         /\ r \in RequestItem /\ r.kind = kind
<1> DEFINE rs == hostInput.requests
           S == {i \in DOMAIN rs : rs[i].kind = kind}
           seqs == [i \in DOMAIN rs |-> IF rs[i].kind = kind THEN <<i>> ELSE <<>>]
<1>1. rs \in Seq(RequestItem)
  BY DEF ResolvedInput
<1>2. Len(rs) \in Nat /\ DOMAIN rs = 1 .. Len(rs)
  BY <1>1
<1>3. ASSUME NEW i \in DOMAIN rs PROVE seqs[i] \in Seq(S)
  <2>1. CASE rs[i].kind = kind
    <3>1. i \in S
      BY <2>1
    <3> HIDE DEF S
    <3>2. <<i>> \in Seq(S)
      BY <3>1
    <3> QED
      BY <2>1, <3>2
  <2>2. CASE rs[i].kind # kind
    BY <2>2
  <2> QED
    BY <2>1, <2>2
<1> HIDE DEF S
<1>4. seqs \in Seq(Seq(S))
  <2>1. PICK T : T = Seq(S)
    OBVIOUS
  <2>2. seqs \in [1 .. Len(rs) -> T]
    BY <1>2, <1>3, <2>1
  <2> HIDE DEF seqs, rs
  <2> QED
    BY <1>2, <2>1, <2>2
<1>5. Indices(kind) = FlattenSeq(seqs)
  BY DEF Indices
<1> HIDE DEF seqs, rs
<1>6. FlattenSeq(seqs) \in Seq(S)
  BY <1>4, FlattenElements
<1>7. Indices(kind)[j] \in S
  BY <1>5, <1>6
<1> QED
  BY <1>1, <1>7 DEF S, rs

\* expand_requests has seen to it that a request names what it is about.
LEMMA RequestsAreWhole ==
  ASSUME ~Malformed(hostInput.requests, epoch), NEW i \in DOMAIN hostInput.requests,
         hostInput.requests[i] \in RequestItem
  PROVE  LET r == hostInput.requests[i] IN
         /\ r.gauge \in Gauges
         /\ r.kind = "account_data" => r.account \in Accounts
  BY DEF Malformed, RequestItem

LEMMA ProvenAnswers == HostInv => ProvenAnswersTheRun
<1> SUFFICES ASSUME HostInv, proven # None PROVE ProvenAnswersTheRun
  BY DEF ProvenAnswersTheRun
<1> DEFINE p == hostInput.protocol
           points == OfKind("point_data")
           votes == OfKind("account_data")
           Point(i) ==
             [protocol_id |-> AsU8[p], gauge |-> points[i].gauge, epoch |-> epoch,
              gauge_controller |-> Controller[p],
              bias |-> LedgerAt(root).bias[<<points[i].gauge, epoch>>]]
           Account(i) ==
             LET vote == LedgerAt(root).vote[<<votes[i].account, votes[i].gauge>>] IN
             [protocol_id |-> AsU8[p], account |-> votes[i].account,
              gauge |-> votes[i].gauge, epoch |-> epoch,
              gauge_controller |-> Controller[p],
              slope |-> vote.slope, end |-> vote.end, last_vote |-> vote.last_vote]
<1>1. pc = "proven" /\ proven = PublicValues(handed) /\ Accepted(handed)
  BY DEF HostInv, OutcomeInv
<1>2. Canonical /\ AsksForTheRun(handed)
  BY <1>1 DEF HostInv, OutcomeInv
<1>3. /\ hostInput \in ResolvedInput /\ root \in ChainRoots /\ epoch \in Epochs
      /\ ~Malformed(hostInput.requests, epoch)
  BY <1>1 DEF HostInv, ResolvedInv, Choosing
<1>4. p \in Protocols /\ epoch % Week = 0
  BY <1>3 DEF ResolvedInput, Malformed
<1>5. handed.stateRoot = root /\ handed.epoch = epoch
  BY <1>2 DEF AsksForTheRun
<1>6. DOMAIN handed.points = DOMAIN points /\ DOMAIN handed.accounts = DOMAIN votes
  BY <1>2 DEF AsksForTheRun, OfKind
<1>7. ASSUME NEW i \in DOMAIN points
      PROVE  PointResult(root, epoch, handed.points[i]) = Point(i)
  <2> DEFINE r == handed.points[i]
  <2>1. i \in DOMAIN Indices("point_data")
        /\ points[i] = hostInput.requests[Indices("point_data")[i]]
    BY DEF OfKind
  <2>2. points[i].gauge \in Gauges
    BY <1>3, <2>1, IndicesOfAKind, RequestsAreWhole
  <2>3. /\ r.protocol_id = AsU8[p] /\ r.gauge = points[i].gauge
        /\ r.gauge_controller = Controller[p]
    BY <1>2, <2>1 DEF AsksForTheRun, Canonical
  <2>4. PointAccepted(root, epoch, r)
    BY <1>1, <1>5, <1>6 DEF Accepted
  <2> HIDE DEF r, p, points
  <2>5. PointResult(root, epoch, r) =
          [protocol_id |-> AsU8[p], gauge |-> r.gauge, epoch |-> epoch,
           gauge_controller |-> Controller[p],
           bias |-> Ledger[root][p].bias[<<r.gauge, epoch>>]]
    BY <1>3, <1>4, <2>2, <2>3, <2>4, PointCommitsTheLedger
  <2> QED
    BY <2>3, <2>5 DEF LedgerAt, p, r
<1>8. ASSUME NEW i \in DOMAIN votes
      PROVE  AccountResult(root, epoch, handed.accounts[i]) = Account(i)
  <2> DEFINE r == handed.accounts[i]
  <2>1. i \in DOMAIN Indices("account_data")
        /\ votes[i] = hostInput.requests[Indices("account_data")[i]]
    BY DEF OfKind
  <2>2. votes[i].gauge \in Gauges /\ votes[i].account \in Accounts
    BY <1>3, <2>1, IndicesOfAKind, RequestsAreWhole
  <2>3. /\ r.protocol_id = AsU8[p] /\ r.gauge = votes[i].gauge
        /\ r.account = votes[i].account /\ r.gauge_controller = Controller[p]
    BY <1>2, <2>1 DEF AsksForTheRun, Canonical
  <2>4. VoteAccepted(root, r)
    BY <1>1, <1>5, <1>6 DEF Accepted
  <2> HIDE DEF r, p, votes
  <2>5. LET v == Ledger[root][p].vote[<<r.account, r.gauge>>] IN
        AccountResult(root, epoch, r) =
          [protocol_id |-> AsU8[p], account |-> r.account, gauge |-> r.gauge, epoch |-> epoch,
           gauge_controller |-> Controller[p], slope |-> v.slope, end |-> v.end,
           last_vote |-> v.last_vote]
    BY <1>3, <1>4, <2>2, <2>3, <2>4, VoteCommitsTheLedger
  <2> QED
    BY <2>3, <2>5 DEF LedgerAt, p, r
<1>9. /\ proven.stateRoot = root /\ proven.epoch = epoch
      /\ proven.points = [i \in DOMAIN points |-> PointResult(root, epoch, handed.points[i])]
      /\ proven.accounts = [i \in DOMAIN votes |-> AccountResult(root, epoch, handed.accounts[i])]
  BY <1>1, <1>5, <1>6 DEF PublicValues
<1> HIDE DEF points, votes
<1>10. proven.points = [i \in DOMAIN points |-> Point(i)]
  BY <1>7, <1>9
<1>11. proven.accounts = [i \in DOMAIN votes |-> Account(i)]
  BY <1>8, <1>9
<1> QED
  BY <1>4, <1>9, <1>10, <1>11 DEF ProvenAnswersTheRun, points, votes, p

\* For every chain, every answer of its nodes or of the toolkit, odd ones included, and everything
\* that may be written into the toolkit's file: what is proven answers the requests of the run, in
\* their order, with the words that the ledger of the protocol has at the root of the run
\* (input.rs, program/src/main.rs).
THEOREM ProvenIsTheAnswer == Spec => []ProvenAnswersTheRun
  BY HostInvHolds, ProvenAnswers, PTL

----------------------------------------------------------------------------
(* With nodes that conform *)

\* What a node answers at a root about the controller of a protocol.
Truly(r, p, slots) == Answer("none", r, Controller[p], slots)
TrueAccount(r, p) == [root |-> r, keys |-> {Controller[p]}, size |-> 1]

\* Every proof in the bundle b is of the root r.
Truthful(b, r) ==
  /\ \A key \in DOMAIN b.gauge_proofs : b.gauge_proofs[key].account = TrueAccount(r, b.protocol)
  /\ \A key \in DOMAIN b.user_proofs : b.user_proofs[key].account = TrueAccount(r, b.protocol)
  /\ \A q \in RequestItem :
       LET slots == SlotsOf(RequestSlots(b.protocol, b.epoch, q)) IN
       /\ q.kind = "point_data" /\ q.gauge \in DOMAIN b.gauge_proofs =>
            b.gauge_proofs[q.gauge].storage = Truly(r, b.protocol, slots).storage
       /\ q.kind = "account_data" /\ <<q.account, q.gauge>> \in DOMAIN b.user_proofs =>
            b.user_proofs[<<q.account, q.gauge>>].storage = Truly(r, b.protocol, slots).storage

\* If the bundle is of the run's block, it is of the run's root.
BundleInv ==
  /\ DOMAIN bundle = {"protocol", "chain", "block", "epoch", "gauge_proofs", "user_proofs"}
  /\ bundle.block = hostInput.block /\ AtSettledBlock => Truthful(bundle, root)

\* The root of a block that was settled when it was asked for is the one that stays.
RootStays ==
  pc \notin Choosing \cup {"failed"} /\ AtSettledBlock =>
    hostInput.block < Len(settled) /\ root = settled[hostInput.block + 1]

WorthInv ==
  /\ RootStays
  /\ pc = "toolkit" => BundleInv
  /\ HandedIsWorthProving

LEMMA TrueAnswer ==
  ASSUME NEW r, NEW c, NEW slots
  PROVE  Answer("none", r, c, slots) =
           [account |-> [root |-> r, keys |-> {c}, size |-> 1],
            storage |-> [i \in DOMAIN slots |-> StorageProofOf(r, c, slots[i])]]
  BY Zenon DEF Answer

LEMMA TrueAnswerHasTheAccount ==
  ASSUME NEW r, NEW p, NEW slots, NEW answer, answer = Truly(r, p, slots)
  PROVE  answer.account = TrueAccount(r, p)
<1>1. Answer("none", r, Controller[p], slots).account =
        [root |-> r, keys |-> {Controller[p]}, size |-> 1]
  BY TrueAnswer
<1> QED
  BY <1>1 DEF Truly, TrueAccount

\* A node that conforms answers at the run's root when asked about the run's settled block.
LEMMA ConformingAnswer ==
  ASSUME Oddities = {}, NEW n, n < Len(settled), root = settled[n + 1],
         NEW p, NEW slots, NEW answer \in Answers(n, Controller[p], slots)
  PROVE  answer = Truly(root, p, slots)
  BY DEF Answers, RootsAt, Truly

----------------------------------------------------------------------------
(* What the circuit accepts *)

LEMMA TruthIsProven ==
  ASSUME NEW p \in Protocols, NEW r \in ChainRoots, Controller[p] \in DOMAIN StateTrie[r]
  PROVE  /\ AccountProven(r, Controller[p], [root |-> r, keys |-> {Controller[p]}, size |-> 1])
         /\ \A slot : StorageProven(AccountAt(r, Controller[p]), slot,
                                    StorageProofOf(r, Controller[p], slot))
<1>1. /\ StateTrie[r][Controller[p]] \in StorageRoots
      /\ \A slot \in DOMAIN StorageTrie[StateTrie[r][Controller[p]]] :
           StorageTrie[StateTrie[r][Controller[p]]][slot] \in Words
  BY LedgerAssumption DEF LedgerAssumption
<1>2. StateTrie[r][Controller[p]] # Garbage /\ Garbage \notin Words
  BY <1>1, ChainAssumption DEF ChainAssumption
<1>3. \A slot : WordAt(StateTrie[r][Controller[p]], slot) # Garbage
  BY <1>1, <1>2, ZeroIsAWord DEF WordAt
<1> QED
  BY <1>2, <1>3 DEF AccountProven, StorageProven, StorageProofOf, AccountAt

LEMMA PointLabels ==
  ASSUME NEW r, r.kind = "point_data"
  PROVE  /\ DOMAIN SlotsFor(r) = {1} /\ Labels(SlotsFor(r)) = {"weight_bias"}
         /\ SlotsFor(r)[Position(SlotsFor(r), "weight_bias")].slot =
              DerivePointSlot(hostInput.protocol, r.gauge, epoch)
<1> DEFINE slots == SlotsFor(r)
<1>1. slots = <<[label |-> "weight_bias",
                 slot |-> DerivePointSlot(hostInput.protocol, r.gauge, epoch)]>>
  BY DEF SlotsFor, RequestSlots
<1> HIDE DEF slots
<1>2. DOMAIN slots = {1} /\ slots[1].label = "weight_bias"
      /\ slots[1].slot = DerivePointSlot(hostInput.protocol, r.gauge, epoch)
  BY <1>1
<1>3. Position(slots, "weight_bias") = 1
  BY <1>2 DEF Position
<1> QED
  BY <1>2, <1>3 DEF Labels, slots

LEMMA VoteLabels ==
  ASSUME hostInput.protocol \in Protocols, NEW r, r.kind = "account_data"
  PROVE  LET p == hostInput.protocol
             slots == SlotsFor(r)
         IN  /\ DOMAIN slots = DOMAIN UserVoteLabels[p]
             /\ \A label \in Labels(slots) :
                  slots[Position(slots, label)].slot = AccountSlot(p, label, r.account, r.gauge)
             /\ "user_slope" \in Labels(slots)
             /\ HostEndLabel(slots) = EndLabel(p) /\ EndLabel(p) \in Labels(slots)
             /\ Labelled(slots, "last_vote") <=> HasLabel(p, "last_vote")
<1> DEFINE p == hostInput.protocol
           slots == SlotsFor(r)
<1>1. slots = [i \in DOMAIN UserVoteLabels[p] |->
                 [label |-> UserVoteLabels[p][i],
                  slot |-> AccountSlot(p, UserVoteLabels[p][i], r.account, r.gauge)]]
  BY DEF SlotsFor, RequestSlots
<1> HIDE DEF slots, p
<1>2. DOMAIN slots = DOMAIN UserVoteLabels[p]
      /\ \A i \in DOMAIN slots :
           /\ slots[i].label = UserVoteLabels[p][i]
           /\ slots[i].slot = AccountSlot(p, slots[i].label, r.account, r.gauge)
  BY <1>1
<1>3. \A label : label \in Labels(slots) <=> HasLabel(p, label)
  BY <1>2 DEF Labels, HasLabel
<1>4. HasLabel(p, "user_slope") /\ HasLabel(p, EndLabel(p))
  BY DEF p, Protocols, HasLabel, EndLabel, UserVoteLabels
<1>5. HostEndLabel(slots) = EndLabel(p)
  BY <1>3 DEF HostEndLabel, EndLabel, Labelled
<1>6. ASSUME NEW label \in Labels(slots)
      PROVE  slots[Position(slots, label)].slot = AccountSlot(p, label, r.account, r.gauge)
  <2>1. \E i \in DOMAIN slots : slots[i].label = label
    BY DEF Labels
  <2>2. Position(slots, label) \in DOMAIN slots /\ slots[Position(slots, label)].label = label
    BY <2>1 DEF Position
  <2> QED
    BY <1>2, <2>2
<1>7. Labelled(slots, "last_vote") <=> HasLabel(p, "last_vote")
  BY <1>3 DEF Labelled
<1> QED
  BY <1>2, <1>3, <1>4, <1>5, <1>6, <1>7 DEF slots, p

\* For every label of every request, what was found is a proof of the labelled slot.
FoundTruly(found) ==
  \A i \in DOMAIN hostInput.requests :
    LET slots == SlotsFor(hostInput.requests[i]) IN
    \A label \in Labels(slots) :
      found[i][label] = StorageProofOf(root, Controller[hostInput.protocol],
                                       slots[Position(slots, label)].slot)

LEMMA TruthIsAccepted ==
  ASSUME hostInput \in ResolvedInput, root \in ChainRoots, Canonical,
         hostInput.controller \in DOMAIN StateTrie[root],
         NEW pf, pf = [root |-> root, keys |-> {hostInput.controller}, size |-> 1],
         NEW found, FoundTruly(found)
  PROVE  Accepted(InputFrom(pf, found))
<1> DEFINE p == hostInput.protocol
           in == InputFrom(pf, found)
           points == Indices("point_data")
           votes == Indices("account_data")
<1>1. p \in Protocols /\ hostInput.controller = Controller[p]
  BY DEF ResolvedInput, Canonical
<1>2. TryFromU8(AsU8[p]) = p /\ IsProtocolId(AsU8[p])
  BY <1>1, IdOfAProtocol
<1>3. /\ AccountProven(root, Controller[p], pf)
      /\ \A slot : StorageProven(AccountAt(root, Controller[p]), slot,
                                 StorageProofOf(root, Controller[p], slot))
  BY <1>1, TruthIsProven
<1>4. ASSUME NEW j \in DOMAIN points
      PROVE  PointAccepted(root, epoch, in.points[j])
  <2> DEFINE i == points[j]
             r == hostInput.requests[i]
             rec == in.points[j]
  <2>1. i \in DOMAIN hostInput.requests /\ r.kind = "point_data"
    BY IndicesOfAKind
  <2>2. rec = [protocol_id |-> AsU8[p], gauge |-> r.gauge,
               gauge_controller |-> hostInput.controller, account_proof |-> pf, bias_proof |-> found[i]["weight_bias"]]
    BY DEF InputFrom
  <2>3. found[i]["weight_bias"] =
          StorageProofOf(root, Controller[p], DerivePointSlot(p, r.gauge, epoch))
    BY <2>1, PointLabels DEF FoundTruly
  <2> HIDE DEF i, r, rec, in, p
  <2>4. /\ rec.protocol_id = AsU8[p] /\ rec.gauge = r.gauge
        /\ rec.gauge_controller = Controller[p] /\ rec.account_proof = pf
        /\ rec.bias_proof = StorageProofOf(root, Controller[p], DerivePointSlot(p, r.gauge, epoch))
    BY <1>1, <2>2, <2>3
  <2>5. PointAccepted(root, epoch, rec)
    BY <1>2, <1>3, <2>4 DEF PointAccepted
  <2> QED
    BY <2>5 DEF rec
<1>5. ASSUME NEW j \in DOMAIN votes
      PROVE  VoteAccepted(root, in.accounts[j])
  <2> DEFINE i == votes[j]
             r == hostInput.requests[i]
             slots == SlotsFor(r)
             rec == in.accounts[j]
             TrueProof(label) == StorageProofOf(root, Controller[p],
                                   AccountSlot(p, label, r.account, r.gauge))
  <2>1. i \in DOMAIN hostInput.requests /\ r.kind = "account_data"
    BY IndicesOfAKind
  <2>2. rec = [protocol_id |-> AsU8[p], account |-> r.account, gauge |-> r.gauge,
               gauge_controller |-> hostInput.controller, account_proof |-> pf,
               slope_proof |-> found[i]["user_slope"],
               end_proof |-> found[i][HostEndLabel(slots)],
               last_vote_proof |-> IF Labelled(slots, "last_vote")
                                   THEN {found[i]["last_vote"]} ELSE {}]
    BY DEF InputFrom
  <2>3. /\ \A label \in Labels(slots) :
             slots[Position(slots, label)].slot = AccountSlot(p, label, r.account, r.gauge)
        /\ "user_slope" \in Labels(slots)
        /\ HostEndLabel(slots) = EndLabel(p) /\ EndLabel(p) \in Labels(slots)
        /\ Labelled(slots, "last_vote") <=> HasLabel(p, "last_vote")
    BY <1>1, <2>1, VoteLabels
  <2>4. \A label \in Labels(slots) : found[i][label] = TrueProof(label)
    BY <2>1, <2>3 DEF FoundTruly
  <2> HIDE DEF i, slots, rec, in
  <2>5. /\ rec.protocol_id = AsU8[p] /\ rec.account = r.account /\ rec.gauge = r.gauge
        /\ rec.gauge_controller = Controller[p] /\ rec.account_proof = pf
        /\ rec.slope_proof = TrueProof("user_slope")
        /\ rec.end_proof = TrueProof(EndLabel(p))
        /\ rec.last_vote_proof = IF HasLabel(p, "last_vote") THEN {TrueProof("last_vote")} ELSE {}
    <3> HIDE DEF TrueProof, r, p
    <3>1. HasLabel(p, "last_vote") => found[i]["last_vote"] = TrueProof("last_vote")
      BY <2>3, <2>4 DEF Labelled
    <3> QED
      BY <1>1, <2>2, <2>3, <2>4, <3>1
  <2>6. VoteAccepted(root, rec)
    <3> HIDE DEF r, p
    <3> QED
      BY <1>2, <1>3, <2>5 DEF VoteAccepted, DeriveSlopeSlot, DeriveEndSlot, DeriveLastVoteSlot,
                              LastVoteProven
  <2> QED
    BY <2>6 DEF rec
<1>6. /\ in.stateRoot = root /\ in.epoch = epoch
      /\ DOMAIN in.points = DOMAIN points /\ DOMAIN in.accounts = DOMAIN votes
  BY DEF InputFrom
<1> HIDE DEF in
<1>7. Accepted(in)
  BY <1>4, <1>5, <1>6 DEF Accepted
<1> QED
  BY <1>7 DEF in

----------------------------------------------------------------------------
(* What the host finds is the truth, if it is told the truth *)

LEMMA PositionIsAPlace ==
  ASSUME NEW slots, NEW label \in Labels(slots)
  PROVE  Position(slots, label) \in DOMAIN slots
<1>1. \E i \in DOMAIN slots : slots[i].label = label
  BY DEF Labels
<1> QED
  BY <1>1 DEF Position

LEMMA SlotsAreNumbered ==
  ASSUME hostInput.protocol \in Protocols, NEW r \in RequestItem
  PROVE  \E n \in Nat : DOMAIN SlotsFor(r) = 1 .. n
<1>1. CASE r.kind = "point_data"
  <2>1. DOMAIN SlotsFor(r) = 1 .. 1
    BY <1>1, PointLabels
  <2> QED
    BY <2>1
<1>2. CASE r.kind = "account_data"
  <2>1. DOMAIN SlotsFor(r) = DOMAIN UserVoteLabels[hostInput.protocol]
    BY <1>2, VoteLabels
  <2>2. \A p \in Protocols : \E n \in Nat : DOMAIN UserVoteLabels[p] = 1 .. n
    <3>1. /\ \A p \in Protocols \ {"Yb", "Pendle"} : DOMAIN UserVoteLabels[p] = 1 .. 3
          /\ DOMAIN UserVoteLabels["Yb"] = 1 .. 4 /\ DOMAIN UserVoteLabels["Pendle"] = 1 .. 2
      BY DEF Protocols, UserVoteLabels
    <3> QED
      BY <3>1
  <2> QED
    BY <2>1, <2>2
<1> QED
  BY <1>1, <1>2 DEF RequestItem

\* A slot stands somewhere in the one list that goes out.
LEMMA SlotIsAsked ==
  ASSUME hostInput \in ResolvedInput, NEW i \in DOMAIN hostInput.requests,
         NEW j \in DOMAIN SlotsFor(hostInput.requests[i])
  PROVE  LET slot == SlotsFor(hostInput.requests[i])[j].slot
             k == Max({n \in DOMAIN AllSlots : AllSlots[n] = slot})
         IN  k \in DOMAIN AllSlots /\ AllSlots[k] = slot
<1> DEFINE rs == hostInput.requests
           slotsOf(n) == SlotsOf(SlotsFor(rs[n]))
           seqs == [n \in DOMAIN rs |-> slotsOf(n)]
           S == UNION {{seqs[n][m] : m \in DOMAIN seqs[n]} : n \in DOMAIN rs}
           slot == SlotsFor(rs[i])[j].slot
           T == {n \in DOMAIN AllSlots : AllSlots[n] = slot}
<1>1. rs \in Seq(RequestItem) /\ hostInput.protocol \in Protocols
  BY DEF ResolvedInput
<1>2. Len(rs) \in Nat /\ DOMAIN rs = 1 .. Len(rs)
  BY <1>1
<1>3. ASSUME NEW n \in DOMAIN rs
      PROVE  seqs[n] \in Seq(S) /\ DOMAIN seqs[n] = DOMAIN SlotsFor(rs[n])
  <2>1. PICK l \in Nat : DOMAIN SlotsFor(rs[n]) = 1 .. l
    BY <1>1, SlotsAreNumbered
  <2>2. seqs[n] = [m \in 1 .. l |-> SlotsFor(rs[n])[m].slot]
    BY <2>1 DEF SlotsOf
  <2> HIDE DEF seqs, rs
  <2>3. DOMAIN seqs[n] = 1 .. l /\ seqs[n] = [m \in 1 .. l |-> seqs[n][m]]
    BY <2>2
  <2>4. ASSUME NEW m \in 1 .. l PROVE seqs[n][m] \in S
    BY <2>3
  <2> HIDE DEF S
  <2>5. seqs[n] \in Seq(S)
    BY <2>3, <2>4
  <2> QED
    BY <2>1, <2>3, <2>5
<1>4. AllSlots = FlattenSeq(seqs)
  BY DEF AllSlots
<1>5. seqs[i][j] = slot
  BY DEF SlotsOf
<1> HIDE DEF S
<1>6. seqs \in Seq(Seq(S))
  <2>1. PICK Q : Q = Seq(S)
    OBVIOUS
  <2>2. seqs \in [1 .. Len(rs) -> Q]
    BY <1>2, <1>3, <2>1
  <2> HIDE DEF seqs, rs
  <2> QED
    BY <1>2, <2>1, <2>2
<1>7. i \in DOMAIN seqs /\ j \in DOMAIN seqs[i]
  BY <1>3
<1> HIDE DEF seqs, slot
<1>8. /\ AllSlots \in Seq(S)
      /\ \E k \in DOMAIN AllSlots : AllSlots[k] = slot
  BY <1>4, <1>5, <1>6, <1>7, FlattenElements
<1>9. Len(AllSlots) \in Nat /\ T \in SUBSET (1 .. Len(AllSlots)) /\ T # {}
  BY <1>8
<1> HIDE DEF T
<1>10. Max(T) \in T
  BY <1>9, GreatestNatural
<1> QED
  BY <1>10 DEF T, slot

LEMMA RpcFindsTheTruth ==
  ASSUME hostInput \in ResolvedInput,
         NEW answer, answer = Truly(root, hostInput.protocol, AllSlots)
  PROVE  FoundTruly(FoundByRpc(answer))
<1> SUFFICES ASSUME NEW i \in DOMAIN hostInput.requests,
                    NEW label \in Labels(SlotsFor(hostInput.requests[i]))
             PROVE  FoundByRpc(answer)[i][label] =
                      StorageProofOf(root, Controller[hostInput.protocol],
                        SlotsFor(hostInput.requests[i])
                          [Position(SlotsFor(hostInput.requests[i]), label)].slot)
  BY DEF FoundTruly
<1> DEFINE slots == SlotsFor(hostInput.requests[i])
           j == Position(slots, label)
           k == Max({n \in DOMAIN AllSlots : AllSlots[n] = slots[j].slot})
<1>1. j \in DOMAIN slots
  BY PositionIsAPlace
<1>2. k \in DOMAIN AllSlots /\ AllSlots[k] = slots[j].slot
  BY <1>1, SlotIsAsked
<1>3. FoundByRpc(answer)[i][label] = answer.storage[k]
  BY DEF FoundByRpc
<1>4. answer.storage = [n \in DOMAIN AllSlots |->
                          StorageProofOf(root, Controller[hostInput.protocol], AllSlots[n])]
  BY TrueAnswer DEF Truly
<1> HIDE DEF k, j, slots
<1>5. answer.storage[k] =
        StorageProofOf(root, Controller[hostInput.protocol], slots[j].slot)
  BY <1>2, <1>4
<1> QED
  BY <1>3, <1>5 DEF j, slots

LEMMA ToolkitFindsTheTruth ==
  ASSUME hostInput \in ResolvedInput, BundleInv, BundleFits, AtSettledBlock,
         \A i \in DOMAIN hostInput.requests : ~Unusable(hostInput.requests[i])
  PROVE  /\ FoundTruly(FoundByToolkit)
         /\ \A pf \in ControllerProofs :
              pf = [root |-> root, keys |-> {Controller[hostInput.protocol]}, size |-> 1]
<1> DEFINE p == hostInput.protocol
<1>1. bundle.protocol = p /\ bundle.block = hostInput.block /\ bundle.epoch = epoch
  BY DEF BundleFits
<1>2. hostInput.requests \in Seq(RequestItem)
  BY DEF ResolvedInput
<1>3. ASSUME NEW i \in DOMAIN hostInput.requests,
             NEW label \in Labels(SlotsFor(hostInput.requests[i]))
      PROVE  FoundByToolkit[i][label] =
               StorageProofOf(root, Controller[p],
                 SlotsFor(hostInput.requests[i])
                   [Position(SlotsFor(hostInput.requests[i]), label)].slot)
  <2> DEFINE r == hostInput.requests[i]
             slots == SlotsFor(r)
             j == Position(slots, label)
  <2>1. r \in RequestItem /\ (r.kind = "point_data" \/ r.kind = "account_data")
    <3>1. r \in RequestItem
      BY <1>2
    <3> HIDE DEF r
    <3> QED
      BY <3>1 DEF RequestItem
  <2>2. SlotsOf(RequestSlots(bundle.protocol, bundle.epoch, r)) = SlotsOf(slots)
    BY <1>1 DEF SlotsFor
  <2>3. Gathered(r) = Truly(root, p, SlotsOf(slots)).storage
    <3>1. CASE r.kind = "point_data"
      <4>1. r.gauge \in DOMAIN bundle.gauge_proofs
        BY <3>1 DEF Unusable
      <4>2. bundle.gauge_proofs[r.gauge].storage =
              Truly(root, bundle.protocol,
                    SlotsOf(RequestSlots(bundle.protocol, bundle.epoch, r))).storage
        BY <1>1, <2>1, <3>1, <4>1 DEF BundleInv, Truthful
      <4> HIDE DEF r, slots
      <4> QED
        BY <1>1, <2>2, <3>1, <4>2 DEF Gathered
    <3>2. CASE r.kind = "account_data"
      <4>1. <<r.account, r.gauge>> \in DOMAIN bundle.user_proofs
        BY <3>2 DEF Unusable
      <4>2. bundle.user_proofs[<<r.account, r.gauge>>].storage =
              Truly(root, bundle.protocol,
                    SlotsOf(RequestSlots(bundle.protocol, bundle.epoch, r))).storage
        BY <1>1, <2>1, <3>2, <4>1 DEF BundleInv, Truthful
      <4> HIDE DEF r, slots
      <4> QED
        BY <1>1, <2>2, <3>2, <4>2 DEF Gathered
    <3> QED
      BY <2>1, <3>1, <3>2
  <2>4. FoundByToolkit[i][label] = Gathered(r)[j]
    BY DEF FoundByToolkit
  <2>5. j \in DOMAIN slots
    BY PositionIsAPlace
  <2> HIDE DEF r, slots, j
  <2>6. Truly(root, p, SlotsOf(slots)).storage =
          [n \in DOMAIN SlotsOf(slots) |-> StorageProofOf(root, Controller[p], SlotsOf(slots)[n])]
    BY TrueAnswer DEF Truly
  <2>7. Gathered(r)[j] = StorageProofOf(root, Controller[p], slots[j].slot)
    BY <2>3, <2>5, <2>6 DEF SlotsOf
  <2> QED
    BY <2>4, <2>7 DEF r, slots, j
<1>4. ASSUME NEW pf \in ControllerProofs
      PROVE  pf = [root |-> root, keys |-> {Controller[p]}, size |-> 1]
  <2>1. \/ \E key \in DOMAIN bundle.gauge_proofs : pf = bundle.gauge_proofs[key].account
        \/ \E key \in DOMAIN bundle.user_proofs : pf = bundle.user_proofs[key].account
    BY DEF ControllerProofs
  <2>2. pf = TrueAccount(root, bundle.protocol)
    BY <1>1, <2>1 DEF BundleInv, Truthful
  <2> QED
    BY <1>1, <2>2 DEF TrueAccount
<1> QED
  BY <1>3, <1>4 DEF FoundTruly

----------------------------------------------------------------------------
(* No proof is paid for in vain *)

LEMMA EarlyStepKeepsWorth ==
  ASSUME HostInv, Underway, handed' = handed, pc' \in Choosing \cup {"failed"}
  PROVE  WorthInv'
<1>1. handed' = None
  BY DEF HostInv, OutcomeInv, Underway, Ended
<1>2. RootStays'
  BY DEF RootStays
<1>3. HandedIsWorthProving'
  BY <1>1 DEF HandedIsWorthProving
<1> QED
  BY <1>2, <1>3 DEF WorthInv, Choosing

LEMMA FailKeepsWorth ==
  ASSUME HostInv, Underway, NEW why, Fail(why)
  PROVE  WorthInv'
  BY EarlyStepKeepsWorth DEF Fail

LEMMA RootOfTheSame ==
  ASSUME RootStays, pc \notin Choosing \cup {"failed"},
         UNCHANGED <<settled, job, hostInput, root>>
  PROVE  RootStays'
  BY DEF RootStays, AtSettledBlock, PickedBlock, NamedSettledBlock

LEMMA HandKeepsWorth ==
  ASSUME HostInv, WorthInv, Underway, pc \notin Choosing, NEW in, Hand(in), Canonical,
         AtSettledBlock /\ hostInput.controller \in DOMAIN StateTrie[root] => Accepted(in)
  PROVE  WorthInv'
<1>1. CASE WithinBounds(in)
  <2>1. /\ pc' = "handed" /\ handed' = in
        /\ UNCHANGED <<settled, job, hostInput, root>>
    BY <1>1 DEF Hand, environment, resolved
  <2>2. RootStays'
    BY <2>1, RootOfTheSame DEF WorthInv, Underway, Ended
  <2>3. HandedIsWorthProving'
    BY <2>1 DEF HandedIsWorthProving, Canonical, AtSettledBlock, PickedBlock, NamedSettledBlock
  <2> QED
    BY <2>1, <2>2, <2>3 DEF WorthInv
<1>2. CASE ~WithinBounds(in)
  BY <1>2, FailKeepsWorth DEF Hand
<1> QED
  BY <1>1, <1>2

LEMMA FetchStateRootKeepsWorth ==
  ASSUME "stale" \notin Oddities, HostInv, PickInv, NEW tip, FetchStateRoot(tip)
  PROVE  WorthInv'
<1>1. pc = "root" /\ Underway
  BY DEF FetchStateRoot, Underway, Ended
<1>2. CASE \E why \in {"no block", "request"} : Fail(why)
  BY <1>1, <1>2, FailKeepsWorth
<1>3. CASE ~\E why \in {"no block", "request"} : Fail(why)
  <2>1. PICK r \in RootsAt(hostInput.block) :
          /\ root' = r /\ pc' \in {"proofs", "adapter", "truncate"}
          /\ UNCHANGED <<settled, job, hostInput, handed>>
    BY <1>3 DEF FetchStateRoot, environment, outcome
  <2>2. /\ settled \in Seq(ChainRoots) /\ Len(settled) \in FirstSettled .. MaxSettled
        /\ hostInput.block \in Nat /\ handed = None
    BY <1>1 DEF HostInv, EnvironmentInv, ResolvedInv, OutcomeInv, Ended
  <2>3. Len(settled) \in Nat /\ FirstSettled <= Len(settled) /\ Len(settled) > 0
    BY <2>2, HostAssumption DEF HostAssumption
  <2>4. AtSettledBlock => hostInput.block < Len(settled)
    <3>1. CASE PickedBlock
      <4>1. BelowMargin(hostInput.block)
        BY <1>1, <3>1 DEF PickInv
      <4>2. hostInput.block \in 0 .. Len(settled) - 1
        BY <2>2, <2>3, <4>1, BelowMarginIsSettled
      <4> QED
        BY <2>3, <4>2
    <3>2. CASE NamedSettledBlock
      <4>1. hostInput.block < FirstSettled /\ FirstSettled \in Nat /\ hostInput.block \in Nat
        BY <2>2, <3>2, HostAssumption DEF HostAssumption, NamedSettledBlock
      <4> QED
        BY <2>3, <4>1
    <3> QED
      BY <3>1, <3>2 DEF AtSettledBlock
  <2>5. AtSettledBlock => r = settled[hostInput.block + 1]
    BY <2>1, <2>4 DEF RootsAt
  <2>6. RootStays'
    BY <2>1, <2>4, <2>5 DEF RootStays, AtSettledBlock, PickedBlock, NamedSettledBlock
  <2>7. HandedIsWorthProving'
    BY <2>1, <2>2 DEF HandedIsWorthProving
  <2> QED
    BY <2>1, <2>6, <2>7 DEF WorthInv
<1> QED
  BY <1>2, <1>3

LEMMA FetchProofsKeepsWorth ==
  ASSUME Oddities = {}, HostInv, WorthInv, NEW tip, FetchProofs(tip)
  PROVE  WorthInv'
<1>1. pc = "proofs" /\ Underway /\ pc \notin Choosing
  BY DEF FetchProofs, Underway, Ended, Choosing
<1>2. CASE \E why \in {"no block", "controller", "proofs"} : Fail(why)
  BY <1>1, <1>2, FailKeepsWorth
<1>3. CASE ~\E why \in {"no block", "controller", "proofs"} : Fail(why)
  <2>1. PICK answer \in Answers(hostInput.block, hostInput.controller, AllSlots) :
          Canonical /\ Hand(InputFrom(answer.account, FoundByRpc(answer)))
    BY <1>3 DEF FetchProofs, BuildFromRpc
  <2>2. hostInput \in ResolvedInput /\ root \in ChainRoots
    BY <1>1 DEF HostInv, ResolvedInv, Choosing
  <2>3. hostInput.controller = Controller[hostInput.protocol]
    BY <2>1 DEF Canonical
  <2>4. ASSUME AtSettledBlock, hostInput.controller \in DOMAIN StateTrie[root]
        PROVE  Accepted(InputFrom(answer.account, FoundByRpc(answer)))
    <3>1. hostInput.block < Len(settled) /\ root = settled[hostInput.block + 1]
      BY <1>1, <2>4 DEF WorthInv, RootStays
    <3>2. answer \in Answers(hostInput.block, Controller[hostInput.protocol], AllSlots)
      BY <2>1, <2>3
    <3>3. answer = Truly(root, hostInput.protocol, AllSlots)
      BY <3>1, <3>2, ConformingAnswer
    <3>4. FoundTruly(FoundByRpc(answer))
      BY <2>2, <3>3, RpcFindsTheTruth
    <3>5. answer.account = [root |-> root, keys |-> {hostInput.controller}, size |-> 1]
      BY <2>3, <3>3, TrueAnswerHasTheAccount DEF TrueAccount
    <3> QED
      BY <2>1, <2>2, <2>4, <3>4, <3>5, TruthIsAccepted
  <2> QED
    BY <1>1, <2>1, <2>4, HandKeepsWorth
<1> QED
  BY <1>2, <1>3

LEMMA FinishToolkitKeepsWorth ==
  ASSUME HostInv, WorthInv, FinishToolkit
  PROVE  WorthInv'
<1>1. pc = "toolkit" /\ Underway /\ pc \notin Choosing
  BY DEF FinishToolkit, Underway, Ended, Choosing
<1>2. CASE \E why \in {"context", "controller", "proofs"} : Fail(why)
  BY <1>1, <1>2, FailKeepsWorth
<1>3. CASE ~\E why \in {"context", "controller", "proofs"} : Fail(why)
  <2>1. /\ BundleFits /\ Canonical
        /\ \A i \in DOMAIN hostInput.requests : ~Unusable(hostInput.requests[i])
    BY <1>3 DEF FinishToolkit, BuildFromToolkit
  <2>2. PICK pf \in ControllerProofs : Hand(InputFrom(pf, FoundByToolkit))
    BY <1>3 DEF FinishToolkit, BuildFromToolkit
  <2>3. hostInput \in ResolvedInput /\ root \in ChainRoots
    BY <1>1 DEF HostInv, ResolvedInv, Choosing
  <2>4. ASSUME AtSettledBlock, hostInput.controller \in DOMAIN StateTrie[root]
        PROVE  Accepted(InputFrom(pf, FoundByToolkit))
    <3>1. BundleInv
      BY <1>1 DEF WorthInv
    <3>2. /\ FoundTruly(FoundByToolkit)
          /\ pf = [root |-> root, keys |-> {Controller[hostInput.protocol]}, size |-> 1]
      BY <2>1, <2>2, <2>3, <2>4, <3>1, ToolkitFindsTheTruth
    <3>3. pf = [root |-> root, keys |-> {hostInput.controller}, size |-> 1]
      BY <2>1, <3>2 DEF Canonical
    <3> QED
      BY <2>1, <2>3, <2>4, <3>2, <3>3, TruthIsAccepted
  <2> QED
    BY <1>1, <2>1, <2>2, <2>4, HandKeepsWorth
<1> QED
  BY <1>2, <1>3

LEMMA WriteKeepsWorth ==
  ASSUME HostInv, WorthInv, TruncateInput \/ WriteInput
  PROVE  WorthInv'
<1>1. /\ pc \in {"truncate", "write"} /\ pc' \in {"write", "adapter"}
      /\ UNCHANGED <<settled, job, hostInput, root, handed>>
  BY DEF TruncateInput, WriteInput, resolved, outcome
<1>2. RootStays'
  BY <1>1, RootOfTheSame DEF WorthInv, Choosing
<1>3. HandedIsWorthProving'
  BY <1>1 DEF HostInv, OutcomeInv, HandedIsWorthProving, Ended
<1> QED
  BY <1>1, <1>2, <1>3 DEF WorthInv

LEMMA ReadRequestKeepsWorth ==
  ASSUME HostInv, WorthInv, ReadRequest
  PROVE  WorthInv'
<1>1. pc = "adapter" /\ Underway
  BY DEF ReadRequest, Underway, Ended
<1>2. CASE Fail("toolkit")
  BY <1>1, <1>2, FailKeepsWorth
<1>3. CASE ~Fail("toolkit")
  <2>1. /\ bundle' = [protocol |-> Named(file.protocol), chain |-> file.chain,
                      block |-> file.block, epoch |-> (file.epoch \div Week) * Week,
                      gauge_proofs |-> <<>>, user_proofs |-> <<>>]
        /\ pc' = "toolkit"
        /\ UNCHANGED <<settled, job, hostInput, root, handed>>
    BY <1>3 DEF ReadRequest, environment, resolved, outcome
  <2>2. /\ DOMAIN bundle' = {"protocol", "chain", "block", "epoch", "gauge_proofs", "user_proofs"}
        /\ DOMAIN bundle'.gauge_proofs = {} /\ DOMAIN bundle'.user_proofs = {}
    BY <2>1
  <2>3. BundleInv'
    BY <2>2 DEF BundleInv, Truthful
  <2>4. RootStays'
    BY <1>1, <2>1, RootOfTheSame DEF WorthInv, Choosing
  <2>5. HandedIsWorthProving'
    BY <1>1, <2>1 DEF HostInv, OutcomeInv, HandedIsWorthProving, Ended
  <2> QED
    BY <2>3, <2>4, <2>5 DEF WorthInv
<1> QED
  BY <1>2, <1>3

\* What goes on around a run, and its end.
LEMMA AroundKeepsWorth ==
  ASSUME HostInv, WorthInv, UNCHANGED <<job, hostInput, root, epoch, bundle, handed>>, RootStays',
         pc' = "toolkit" => pc = "toolkit"
  PROVE  WorthInv'
<1>1. HandedIsWorthProving'
  BY DEF WorthInv, HandedIsWorthProving, Canonical, AtSettledBlock, PickedBlock,
         NamedSettledBlock
<1>2. pc' = "toolkit" => BundleInv'
  BY DEF WorthInv, BundleInv, AtSettledBlock, PickedBlock, NamedSettledBlock
<1> QED
  BY <1>1, <1>2 DEF WorthInv

LEMMA SettleKeepsWorth ==
  ASSUME HostInv, WorthInv, NEW r \in ChainRoots, Settle(r)
  PROVE  WorthInv'
<1>1. /\ settled' = Append(settled, r)
      /\ UNCHANGED <<job, pc, hostInput, root, epoch, bundle, handed>>
  BY DEF Settle, resolved, toolkit, outcome
<1>2. settled \in Seq(ChainRoots)
  BY DEF HostInv, EnvironmentInv
<1>3. Len(settled) \in Nat /\ Len(settled') = Len(settled) + 1
      /\ \A i \in 1 .. Len(settled) : settled'[i] = settled[i]
  BY <1>1, <1>2
<1>4. ASSUME pc \notin Choosing \cup {"failed"}, AtSettledBlock
      PROVE  hostInput.block < Len(settled') /\ root = settled'[hostInput.block + 1]
  <2>1. hostInput.block < Len(settled) /\ root = settled[hostInput.block + 1]
    BY <1>4 DEF WorthInv, RootStays
  <2>2. hostInput.block \in Nat
    BY <1>4 DEF HostInv, ResolvedInv, Choosing
  <2>3. hostInput.block + 1 \in 1 .. Len(settled) /\ hostInput.block < Len(settled')
    BY <1>3, <2>1, <2>2
  <2> QED
    BY <1>3, <2>1, <2>3
<1>5. RootStays'
  BY <1>1, <1>4 DEF RootStays, AtSettledBlock, PickedBlock, NamedSettledBlock
<1> QED
  BY <1>1, <1>5, AroundKeepsWorth

\* One more true answer, for one more request.
LEMMA PutKeepsTruth ==
  ASSUME NEW rt, NEW b, Truthful(b, rt),
         NEW c, c.protocol = b.protocol, c.epoch = b.epoch,
         NEW r, NEW answer,
         answer = Truly(rt, b.protocol, SlotsOf(RequestSlots(b.protocol, b.epoch, r))),
         r.kind = "point_data" =>
           /\ c.gauge_proofs = Put(b.gauge_proofs, r.gauge, answer)
           /\ c.user_proofs = b.user_proofs,
         r.kind # "point_data" =>
           /\ c.gauge_proofs = b.gauge_proofs
           /\ c.user_proofs = Put(b.user_proofs, <<r.account, r.gauge>>, answer)
  PROVE  Truthful(c, rt)
<1> DEFINE slots(q) == SlotsOf(RequestSlots(b.protocol, b.epoch, q))
<1>1. answer.account = TrueAccount(rt, b.protocol)
  BY TrueAnswerHasTheAccount
<1>2. /\ \A q : q.kind = "point_data" /\ r.kind = "point_data" /\ q.gauge = r.gauge =>
             slots(q) = slots(r)
      /\ \A q : q.kind = "account_data" /\ r.kind # "point_data"
                /\ q.account = r.account /\ q.gauge = r.gauge => slots(q) = slots(r)
  BY DEF RequestSlots
<1> HIDE DEF slots
<1>3. answer.storage = Truly(rt, b.protocol, slots(r)).storage
  BY DEF slots
<1>4. ASSUME NEW key \in DOMAIN c.gauge_proofs
      PROVE  c.gauge_proofs[key].account = TrueAccount(rt, b.protocol)
  BY <1>1 DEF Truthful, Put
<1>5. ASSUME NEW key \in DOMAIN c.user_proofs
      PROVE  c.user_proofs[key].account = TrueAccount(rt, b.protocol)
  BY <1>1 DEF Truthful, Put
<1>6. ASSUME NEW q \in RequestItem, q.kind = "point_data", q.gauge \in DOMAIN c.gauge_proofs
      PROVE  c.gauge_proofs[q.gauge].storage = Truly(rt, b.protocol, slots(q)).storage
  <2>1. q.gauge \in DOMAIN b.gauge_proofs =>
          b.gauge_proofs[q.gauge].storage = Truly(rt, b.protocol, slots(q)).storage
    BY <1>6 DEF Truthful, slots
  <2>2. r.kind = "point_data" /\ q.gauge = r.gauge => slots(q) = slots(r)
    BY <1>2, <1>6
  <2> QED
    BY <1>3, <1>6, <2>1, <2>2 DEF Put
<1>7. ASSUME NEW q \in RequestItem, q.kind = "account_data",
             <<q.account, q.gauge>> \in DOMAIN c.user_proofs
      PROVE  c.user_proofs[<<q.account, q.gauge>>].storage =
               Truly(rt, b.protocol, slots(q)).storage
  <2>1. <<q.account, q.gauge>> \in DOMAIN b.user_proofs =>
          b.user_proofs[<<q.account, q.gauge>>].storage =
            Truly(rt, b.protocol, slots(q)).storage
    BY <1>7 DEF Truthful, slots
  <2>2. r.kind # "point_data" /\ <<q.account, q.gauge>> = <<r.account, r.gauge>> =>
          slots(q) = slots(r)
    BY <1>2, <1>7
  <2> QED
    BY <1>3, <1>7, <2>1, <2>2 DEF Put
<1> QED
  BY <1>4, <1>5, <1>6, <1>7 DEF Truthful, slots

LEMMA FetchToolkitProofKeepsWorth ==
  ASSUME Oddities = {}, HostInv, WorthInv, NEW tip, FetchToolkitProof(tip)
  PROVE  WorthInv'
<1>1. pc = "toolkit" /\ Underway /\ pc \notin Choosing
  BY DEF FetchToolkitProof, Underway, Ended, Choosing
<1>2. CASE Fail("toolkit")
  BY <1>1, <1>2, FailKeepsWorth
<1>3. CASE ~Fail("toolkit")
  <2> DEFINE r == Head(adapter)
             p == bundle.protocol
             slots == SlotsOf(RequestSlots(p, bundle.epoch, r))
             key == IF r.kind = "point_data" THEN r.gauge ELSE <<r.account, r.gauge>>
             field == IF r.kind = "point_data" THEN "gauge_proofs" ELSE "user_proofs"
  <2>1. /\ pc' = pc
        /\ UNCHANGED <<settled, job, hostInput, root, epoch, handed>>
        /\ \/ bundle' = bundle
           \/ \E answer \in Answers(bundle.block, Controller[p], slots) :
                bundle' = [bundle EXCEPT ![field] = Put(@, key, answer)]
    BY <1>3 DEF FetchToolkitProof, environment, resolved, outcome
  <2>2. RootStays'
    BY <1>1, <2>1, RootOfTheSame DEF WorthInv, Choosing
  <2>3. CASE bundle' = bundle
    BY <2>1, <2>2, <2>3, AroundKeepsWorth
  <2>4. CASE bundle' # bundle
    <3>1. PICK answer \in Answers(bundle.block, Controller[p], slots) :
            bundle' = [bundle EXCEPT ![field] = Put(@, key, answer)]
      BY <2>1, <2>4
    <3>2. BundleInv
      BY <1>1 DEF WorthInv
    <3>3. DOMAIN bundle' = DOMAIN bundle
      BY <3>1
    <3>4. /\ bundle'.protocol = p /\ bundle'.block = bundle.block /\ bundle'.epoch = bundle.epoch
          /\ r.kind = "point_data" =>
               /\ bundle'.gauge_proofs = Put(bundle.gauge_proofs, r.gauge, answer)
               /\ bundle'.user_proofs = bundle.user_proofs
          /\ r.kind # "point_data" =>
               /\ bundle'.gauge_proofs = bundle.gauge_proofs
               /\ bundle'.user_proofs = Put(bundle.user_proofs, <<r.account, r.gauge>>, answer)
      BY <3>1, <3>2 DEF BundleInv
    <3>5. ASSUME bundle.block = hostInput.block, AtSettledBlock
          PROVE  Truthful(bundle', root)
      <4>1. bundle.block < Len(settled) /\ root = settled[bundle.block + 1]
        BY <1>1, <3>5 DEF WorthInv, RootStays, Choosing
      <4>2. PICK b, c, q : b = bundle /\ c = bundle' /\ q = r
        OBVIOUS
      <4>3. answer = Truly(root, b.protocol, SlotsOf(RequestSlots(b.protocol, b.epoch, q)))
        BY <3>1, <4>1, <4>2, ConformingAnswer
      <4>4. Truthful(b, root)
        BY <3>2, <3>5, <4>2 DEF BundleInv
      <4>5. /\ c.protocol = b.protocol /\ c.epoch = b.epoch
            /\ q.kind = "point_data" =>
                 /\ c.gauge_proofs = Put(b.gauge_proofs, q.gauge, answer)
                 /\ c.user_proofs = b.user_proofs
            /\ q.kind # "point_data" =>
                 /\ c.gauge_proofs = b.gauge_proofs
                 /\ c.user_proofs = Put(b.user_proofs, <<q.account, q.gauge>>, answer)
        BY <3>4, <4>2
      <4>6. Truthful(c, root)
        BY <4>3, <4>4, <4>5, PutKeepsTruth
      <4> QED
        BY <4>2, <4>6
    <3>6. BundleInv'
      <4>1. DOMAIN bundle' = {"protocol", "chain", "block", "epoch", "gauge_proofs", "user_proofs"}
        BY <3>2, <3>3 DEF BundleInv
      <4>2. AtSettledBlock' => AtSettledBlock
        BY <2>1 DEF AtSettledBlock, PickedBlock, NamedSettledBlock
      <4>3. bundle'.block = hostInput'.block /\ AtSettledBlock' => Truthful(bundle', root')
        BY <2>1, <3>4, <3>5, <4>2
      <4>4. PICK c : c = bundle'
        OBVIOUS
      <4> QED
        BY <4>1, <4>3 DEF BundleInv
    <3>7. HandedIsWorthProving'
      BY <1>1, <2>1 DEF HostInv, OutcomeInv, HandedIsWorthProving, Ended
    <3> QED
      BY <2>2, <3>6, <3>7 DEF WorthInv
  <2> QED
    BY <2>3, <2>4
<1> QED
  BY <1>2, <1>3

LEMMA StepKeepsWorth ==
  ASSUME Oddities = {}, HostInv, PickInv, WorthInv, [Next]_vars
  PROVE  WorthInv'
<1>1. CASE Load
  <2>1. /\ Underway /\ handed' = handed /\ pc' \in {"latest", "root", "failed"}
    BY <1>1 DEF Load, Fail, outcome, Underway, Ended
  <2> QED
    BY <2>1, EarlyStepKeepsWorth DEF Choosing
<1>2. CASE TruncateInput \/ WriteInput
  BY <1>2, WriteKeepsWorth
<1>3. ASSUME NEW tip, Answered(tip) PROVE WorthInv'
  <2>1. CASE FetchLatest(tip)
    <3>1. Underway /\ handed' = handed /\ pc' = "root"
      BY <2>1 DEF FetchLatest, outcome, Underway, Ended
    <3> QED
      BY <3>1, EarlyStepKeepsWorth DEF Choosing
  <2>2. CASE FetchStateRoot(tip)
    BY <2>2, FetchStateRootKeepsWorth
  <2>3. CASE FetchProofs(tip)
    BY <2>3, FetchProofsKeepsWorth
  <2>4. CASE FetchToolkitProof(tip)
    BY <2>4, FetchToolkitProofKeepsWorth
  <2> QED
    BY <1>3, <2>1, <2>2, <2>3, <2>4 DEF Answered
<1>4. CASE ReadRequest
  BY <1>4, ReadRequestKeepsWorth
<1>5. CASE FinishToolkit
  BY <1>5, FinishToolkitKeepsWorth
<1>6. CASE GiveUp
  <2>1. Underway /\ Fail("no answer")
    BY <1>6 DEF GiveUp, Waiting, Underway, Ended
  <2> QED
    BY <2>1, FailKeepsWorth
<1>7. CASE Prove
  <2>1. /\ pc = "handed" /\ pc' \in {"proven", "rejected"}
        /\ UNCHANGED <<settled, job, hostInput, root, epoch, bundle, handed>>
    BY <1>7 DEF Prove, environment, resolved, toolkit
  <2>2. RootStays'
    BY <2>1, RootOfTheSame DEF WorthInv, Choosing
  <2> QED
    BY <2>1, <2>2, AroundKeepsWorth
<1>8. ASSUME NEW r \in ChainRoots, Settle(r) PROVE WorthInv'
  BY <1>8, SettleKeepsWorth
<1>9. CASE (\E contents \in FileContents \cup {Torn} : Overwrite(contents)) \/ UNCHANGED vars
  <2>1. UNCHANGED <<settled, job, pc, hostInput, root, epoch, bundle, handed>>
    BY <1>9 DEF Overwrite, vars, environment, resolved, toolkit, outcome
  <2>2. RootStays'
    BY <2>1 DEF WorthInv, RootStays, AtSettledBlock, PickedBlock, NamedSettledBlock
  <2> QED
    BY <2>1, <2>2, AroundKeepsWorth
<1> QED
  BY <1>1, <1>2, <1>3, <1>4, <1>5, <1>6, <1>7, <1>8, <1>9 DEF Next, Alone

\* For every chain and pool within the margin, with nodes that conform, whatever their tips and
\* whatever others write into the toolkit's file: the circuit accepts what it is handed, under the
\* protocol's own controller, unless the run names a block that is not settled or that is older
\* than the controller (input.rs, toolkit.rs, program/src/main.rs).
THEOREM WorthProving ==
  ASSUME Oddities = {}
  PROVE  Spec => []HandedIsWorthProving
<1>1. Init => PickInv /\ HostInv /\ WorthInv
  <2> SUFFICES ASSUME Init PROVE PickInv /\ HostInv /\ WorthInv
    OBVIOUS
  <2>1. PickInv /\ HostInv
    BY InitPicks, InitHost
  <2>2. pc = "load" /\ handed = None
    BY DEF Init
  <2> QED
    BY <2>1, <2>2 DEF WorthInv, RootStays, HandedIsWorthProving, Choosing
<1>2. PickInv /\ HostInv /\ WorthInv /\ [Next]_vars => (PickInv /\ HostInv /\ WorthInv)'
  BY StepPicks, StepKeepsHost, StepKeepsWorth
<1>3. WorthInv => HandedIsWorthProving
  BY DEF WorthInv
<1> QED
  BY <1>1, <1>2, <1>3, PTL DEF Spec
=============================================================================
