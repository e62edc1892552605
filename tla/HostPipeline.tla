---------------------------- MODULE HostPipeline ----------------------------
(***************************************************************************)
(* One run of the host (script/src/main.rs), from its settings to a proof: *)
(* it picks a block, fetches the block's state root, derives the slots of  *)
(* what it is asked for, has the proofs fetched by eth_getProof or by the  *)
(* Python toolkit, builds the circuit's input and hands it to the prover.  *)
(*                                                                         *)
(* Around it the chain grows; each call is answered by some node of a      *)
(* load-balanced pool, some of which are behind or follow a branch that    *)
(* will not last; and the file the toolkit reads its request from is one   *)
(* that other runs and the user write, too.                                *)
(***************************************************************************)
EXTENDS Verification, FiniteSetsExt, SequencesExt

CONSTANTS
  Week,             \* ONE_WEEK_SECONDS
  SafetyMargin,     \* BLOCK_SAFETY_MARGIN
  MaxProofSize,     \* MAX_PROOF_NODES and MAX_PROOF_BYTES, as one measure
  MaxInputSize,     \* MAX_INPUT_BYTES
  Jobs,             \* the settings a run may be started with
  FileContents,     \* the requests anyone may put into the toolkit's input file
  Chain,            \* the chain id whose nodes answer
  Candidates,       \* Candidates[n]: the state roots a block with number n may have
  TimeOf,           \* the timestamp of a block, by its state root
  TipLag,           \* how many blocks a node of the pool may be behind
  ReorgDepth,       \* how many of the latest blocks may still be replaced
  FirstSettled,     \* bound: the settled blocks at the start
  MaxSettled,       \* bound: the settled blocks ever
  Oddities,         \* what nodes and the toolkit may answer wrongly; {} if they conform
  None, Torn        \* an absent value; a file that is not a whole JSON text

\* The comment on BLOCK_SAFETY_MARGIN asks for nodes with slightly different tips.
ASSUME HostAssumption ==
  /\ Week \in Nat \ {0} /\ SafetyMargin \in Nat
  /\ TipLag \in 0 .. SafetyMargin /\ ReorgDepth \in 0 .. SafetyMargin
  /\ FirstSettled \in Nat \ {0} /\ MaxSettled \in Nat /\ FirstSettled <= MaxSettled
  /\ DOMAIN Candidates = 0 .. MaxSettled + ReorgDepth
  /\ \A n \in DOMAIN Candidates : Candidates[n] # {} /\ Candidates[n] \subseteq ChainRoots
  /\ TimeOf \in [ChainRoots -> Nat]
  /\ Torn \notin FileContents

\* What serde makes of a request file; None stands for what the file leaves out.
RequestItem ==
  [kind: {"account_data", "point_data"}, account: Accounts \cup {None}, gauge: Gauges \cup {None}]
HostRequest ==
  [chain: Nat, block: Nat, epoch: Nat \cup {None}, protocol: STRING \cup {None},
   controller: Addresses \cup {None}, requests: Seq(RequestItem)]

\* What HostInput::from_env finds in the environment.
EnvSettings ==
  [chain: Nat, block: Nat \cup {None}, epoch: Nat \cup {None}, protocol: STRING \cup {None},
   controller: Addresses \cup {None}, account: Accounts \cup {None}, gauge: Gauges \cup {None}]

ASSUME RequestsAssumption ==
  /\ FileContents \subseteq HostRequest
  /\ Jobs \subseteq
       [source: {"rpc", "toolkit"}, json: BOOLEAN, env: EnvSettings \cup {None}]
  /\ \A j \in Jobs : ~j.json => j.env \in EnvSettings

\* The ledgers reach over every week that a run may be about.
ASSUME EpochsAssumption ==
  /\ \A r \in ChainRoots : (TimeOf[r] \div Week) * Week \in Epochs
  /\ \A e \in {r.epoch : r \in FileContents} \cup {j.env.epoch : j \in {i \in Jobs : ~i.json}} :
       e # None /\ e % Week = 0 => e \in Epochs

ASSUME OdditiesAssumption ==
  Oddities \subseteq
    {"stale", "reordered", "short", "oversized", "undecodable", "undecodable account"}

VARIABLES
  settled,   \* the state roots of the blocks all nodes agree on, block 0 first
  file,      \* INPUT_JSON, or output/host_input.json when there is none
  job,       \* how this run was started
  pc,        \* what main() does next
  hostInput, \* HostInput, its block_number resolved
  root, epoch,
  adapter,   \* the request the toolkit has read, and the calls it has yet to make
  bundle,    \* the proofs it has gathered
  handed,    \* the input written to the prover
  proven,    \* the public values of the proof
  reason     \* why the run failed

environment == <<settled, file>>
resolved == <<hostInput, root, epoch>>
toolkit == <<adapter, bundle>>
outcome == <<handed, proven, reason>>
vars == <<environment, job, pc, resolved, toolkit, outcome>>

----------------------------------------------------------------------------
(* The nodes *)

Latest == Len(settled) - 1 + ReorgDepth
Tips == {tip \in 0 .. Latest : Latest <= tip + TipLag}

\* What fetch_block_state_root may yield for block n: nodes may disagree where nothing is settled,
\* and an odd one may answer for another block.
RootsAt(n) ==
  IF "stale" \in Oddities THEN ChainRoots
  ELSE IF n < Len(settled) THEN {settled[n + 1]} ELSE Candidates[n]

NoProof == [root |-> Garbage, keys |-> {}, size |-> 0]
Undecodable == [root |-> Garbage, keys |-> {}, size |-> None]

StorageProofOf(r, controller, slot) ==
  IF controller \in DOMAIN StateTrie[r]
  THEN [root |-> StateTrie[r][controller], keys |-> {slot}, size |-> 1]
  ELSE NoProof

\* What eth_getProof answers about the state r, or what an odd node makes of it.
Answer(odd, r, controller, slots) ==
  LET proofs == [i \in DOMAIN slots |-> StorageProofOf(r, controller, slots[i])] IN
  [account |-> IF odd = "undecodable account" THEN Undecodable
               ELSE [root |-> r, keys |-> {controller}, size |-> 1],
   storage |-> CASE odd = "reordered"   -> Reverse(proofs)
                 [] odd = "short"       -> SubSeq(proofs, 1, Len(proofs) - 1)
                 [] odd = "oversized"   -> [i \in DOMAIN proofs |->
                                              [proofs[i] EXCEPT !.size = MaxProofSize + 1]]
                 [] odd = "undecodable" -> [i \in DOMAIN proofs |-> Undecodable]
                 [] OTHER               -> proofs]

\* What fetch_proofs may yield at block n; there is nothing from a node that lacks the block.
Answers(n, controller, slots) ==
  {Answer(odd, r, controller, slots) : odd \in Oddities \cup {"none"}, r \in RootsAt(n)}

----------------------------------------------------------------------------
(* Requests *)

Named(protocol) == IF protocol = None THEN "Curve" ELSE protocol

\* HostInput::from_request; its `slots` are always those of the protocol.
FromRequest(r) ==
  [r EXCEPT !.protocol = Named(r.protocol),
            !.controller = IF r.controller = None THEN Controller[Named(r.protocol)]
                           ELSE r.controller]

\* HostInput::from_env asks for the vote of one account and for the gauge it is for.
EnvRequest(env) ==
  [chain |-> env.chain, block |-> env.block, epoch |-> env.epoch, protocol |-> env.protocol,
   controller |-> env.controller,
   requests |-> <<[kind |-> "account_data", account |-> env.account, gauge |-> env.gauge],
                  [kind |-> "point_data", account |-> None, gauge |-> env.gauge]>>]

\* expand_requests fails.
Malformed(requests, e) ==
  \/ e % Week # 0
  \/ \E i \in DOMAIN requests :
       \/ requests[i].gauge = None
       \/ requests[i].kind = "account_data" /\ requests[i].account = None

\* The labelled slots expand_requests computes for one request.
RequestSlots(p, e, request) ==
  IF request.kind = "point_data"
  THEN <<[label |-> "weight_bias", slot |-> DerivePointSlot(p, request.gauge, e)]>>
  ELSE [i \in DOMAIN UserVoteLabels[p] |->
          [label |-> UserVoteLabels[p][i],
           slot |-> AccountSlot(p, UserVoteLabels[p][i], request.account, request.gauge)]]

SlotsOf(labelled) == [i \in DOMAIN labelled |-> labelled[i].slot]

\* find and position of a label; labels are unique.
Labels(slots) == {slots[i].label : i \in DOMAIN slots}
Labelled(slots, label) == label \in Labels(slots)
Position(slots, label) == CHOOSE i \in DOMAIN slots : slots[i].label = label

\* The label the host takes for the end, chosen as in derive_account_slots of the guest.
HostEndLabel(slots) ==
  IF Labelled(slots, "user_end") THEN "user_end" ELSE "user_bias"

\* Where the requests of a kind stand, in their order, and what they are.
Indices(kind) ==
  FlattenSeq([i \in DOMAIN hostInput.requests |->
                IF hostInput.requests[i].kind = kind THEN <<i>> ELSE <<>>])
OfKind(kind) ==
  LET at == Indices(kind) IN [j \in DOMAIN at |-> hostInput.requests[at[j]]]

SlotsFor(request) == RequestSlots(hostInput.protocol, epoch, request)

----------------------------------------------------------------------------
(* Building the circuit's input *)

\* The nodes of one proof: hex from a node (decode_proof_nodes), hex of an RLP list from the
\* toolkit (decode_rlp_node_list).
Decodes(proof) == proof # Undecodable

\* A list of such lists, decode_rlp_proof_list: one that does not decode spoils them all.
DecodesList(proofs) == \A i \in DOMAIN proofs : Decodes(proofs[i])

\* Mutation: only one of the two builders checks.
CanonicalForToolkit ==
  job.source = "toolkit" => hostInput.controller = Controller[hostInput.protocol]

\* check_canonical_controller.
Canonical == hostInput.controller = Controller[hostInput.protocol]

\* found[i][label] is the proof found for the slot that the i-th request labels so.
InputFrom(accountProof, found) ==
  LET id == AsU8[hostInput.protocol]
      points == Indices("point_data")
      votes == Indices("account_data")
  IN [stateRoot |-> root, epoch |-> epoch,
      points |-> [j \in DOMAIN points |->
        [protocol_id |-> id, gauge |-> hostInput.requests[points[j]].gauge,
         gauge_controller |-> hostInput.controller, account_proof |-> accountProof,
         bias_proof |-> found[points[j]]["weight_bias"]]],
      accounts |-> [j \in DOMAIN votes |->
        LET r == hostInput.requests[votes[j]]
            proofs == found[votes[j]]
        IN [protocol_id |-> id, account |-> r.account, gauge |-> r.gauge,
            gauge_controller |-> hostInput.controller, account_proof |-> accountProof,
            slope_proof |-> proofs["user_slope"],
            end_proof |-> proofs[HostEndLabel(SlotsFor(r))],
            last_vote_proof |-> IF Labelled(SlotsFor(r), "last_vote")
                                THEN {proofs["last_vote"]} ELSE {}]]]

\* The sizes of all proofs of an input, each copy of the account proof counted.
ProofSizes(in) ==
  FlattenSeq([i \in DOMAIN in.points |->
                <<in.points[i].account_proof.size, in.points[i].bias_proof.size>>]) \o
  FlattenSeq([i \in DOMAIN in.accounts |->
                LET r == in.accounts[i] IN
                <<r.account_proof.size, r.slope_proof.size, r.end_proof.size>> \o
                SetToSeq({pf.size : pf \in r.last_vote_proof})])

\* enforce_input_bounds.
WithinBounds(in) ==
  LET sizes == ProofSizes(in) IN
  /\ \A i \in DOMAIN sizes : sizes[i] <= MaxProofSize
  /\ FoldLeft(LAMBDA sum, size : sum + size, 0, sizes) <= MaxInputSize

----------------------------------------------------------------------------
(* The run *)

Fail(why) ==
  /\ pc' = "failed" /\ reason' = why
  /\ adapter' = None /\ bundle' = None
  /\ UNCHANGED <<environment, job, resolved, handed, proven>>

\* The bounds are checked by the builder and once more before the input is written.
Hand(in) ==
  IF WithinBounds(in)
  THEN /\ pc' = "handed" /\ handed' = in
       /\ adapter' = None /\ bundle' = None
       /\ UNCHANGED <<environment, job, resolved, proven, reason>>
  ELSE Fail("limits")

\* HostInput::load and resolve_rpc_url.
Load ==
  LET request == IF job.json THEN file ELSE EnvRequest(job.env) IN
  /\ pc = "load"
  /\ IF \/ request = Torn
        \/ ~job.json /\ None \in {job.env.account, job.env.gauge}
     THEN Fail("input")
     ELSE IF Named(request.protocol) \notin Protocols \/ request.chain # Chain
     THEN Fail("input")
     ELSE /\ hostInput' = FromRequest(request)
          /\ pc' = IF request.block = None THEN "latest" ELSE "root"
          /\ UNCHANGED <<environment, job, root, epoch, toolkit, outcome>>

\* Mutations: no margin, and a margin that does not stop at block 0.
NoMargin(latest) == latest
MarginBelowZero(latest) == latest - SafetyMargin

\* latest.saturating_sub(BLOCK_SAFETY_MARGIN)
SafeBlock(latest) == IF latest < SafetyMargin THEN 0 ELSE latest - SafetyMargin

\* fetch_latest_block_number.
FetchLatest(tip) ==
  /\ pc = "latest" /\ tip \in Tips
  /\ hostInput' = [hostInput EXCEPT !.block = SafeBlock(tip)]
  /\ pc' = "root"
  /\ UNCHANGED <<environment, job, root, epoch, toolkit, outcome>>

EpochOf(r) ==
  IF hostInput.epoch = None THEN (TimeOf[r] \div Week) * Week ELSE hostInput.epoch

\* fetch_block_state_root, the epoch, expand_requests.  The proof source decides what is next.
FetchStateRoot(tip) ==
  /\ pc = "root" /\ tip \in Tips
  /\ IF hostInput.block > tip THEN Fail("no block")
     ELSE \E r \in RootsAt(hostInput.block) :
       IF Malformed(hostInput.requests, EpochOf(r)) THEN Fail("request")
       ELSE /\ root' = r /\ epoch' = EpochOf(r)
            /\ pc' = IF job.source = "rpc" THEN "proofs"
                     ELSE IF job.json THEN "adapter" ELSE "truncate"
            /\ UNCHANGED <<environment, job, hostInput, toolkit, outcome>>

AllSlots ==
  FlattenSeq([i \in DOMAIN hostInput.requests |-> SlotsOf(SlotsFor(hostInput.requests[i]))])

\* The proofs are paired with the slots by position; the last one of the same slot wins.
FoundByRpc(answer) ==
  LET ProofOf(slot) == answer.storage[Max({i \in DOMAIN AllSlots : AllSlots[i] = slot})] IN
  [i \in DOMAIN hostInput.requests |->
     LET slots == SlotsFor(hostInput.requests[i]) IN
     [label \in Labels(slots) |-> ProofOf(slots[Position(slots, label)].slot)]]

\* build_input_from_rpc.
BuildFromRpc(answer) ==
  IF ~Canonical THEN Fail("controller")
  ELSE IF \/ ~Decodes(answer.account)
          \/ Len(answer.storage) < Len(AllSlots)
          \/ \E i \in DOMAIN AllSlots : ~Decodes(answer.storage[i])
  THEN Fail("proofs")
  ELSE Hand(InputFrom(answer.account, FoundByRpc(answer)))

\* fetch_proofs, one call for all slots.
FetchProofs(tip) ==
  /\ pc = "proofs" /\ tip \in Tips
  /\ IF hostInput.block > tip THEN Fail("no block")
     ELSE \E answer \in Answers(hostInput.block, hostInput.controller, AllSlots) :
            BuildFromRpc(answer)

----------------------------------------------------------------------------
(* The toolkit *)

\* ensure_input_json opens the shared file, which empties it, and then writes the request into
\* it.  Where somebody else has written in between, theirs may stick out behind it.
TruncateInput ==
  /\ pc = "truncate"
  /\ file' = Torn
  /\ pc' = "write"
  /\ UNCHANGED <<settled, job, resolved, toolkit, outcome>>

WriteInput ==
  LET own == [hostInput EXCEPT !.epoch = epoch] IN
  /\ pc = "write"
  /\ \/ file' = own
     \/ file \notin {own, Torn} /\ file' = Torn
  /\ pc' = "adapter"
  /\ UNCHANGED <<settled, job, resolved, toolkit, outcome>>

\* The calls a request makes the adapter consider: those for gauges, then those for votes.
Calls(requests) ==
  LET Points(r) == r.kind = "point_data" /\ r.gauge # None
      Votes(r) == r.kind = "account_data" /\ r.gauge # None /\ r.account # None
  IN SelectSeq(requests, Points) \o SelectSeq(requests, Votes)

\* toolkit_adapter.py up to its first call: it has the file, not the host's settings, to go by.
ReadRequest ==
  /\ pc = "adapter"
  /\ IF file = Torn THEN Fail("toolkit")
     ELSE IF file.epoch = None \/ Named(file.protocol) \notin Protocols THEN Fail("toolkit")
     ELSE /\ adapter' = Calls(file.requests)
          /\ bundle' = [protocol |-> Named(file.protocol), chain |-> file.chain,
                        block |-> file.block, epoch |-> (file.epoch \div Week) * Week,
                        gauge_proofs |-> <<>>, user_proofs |-> <<>>]
          /\ pc' = "toolkit"
          /\ UNCHANGED <<environment, job, resolved, outcome>>

Put(map, key, value) == [k \in DOMAIN map \cup {key} |-> IF k = key THEN value ELSE map[k]]

\* get_gauge_proof or get_user_proof for the next request, unless it was asked before.  The
\* toolkit knows the controller and the slots of a protocol by itself, and has the node of the
\* host's chain only.
FetchToolkitProof(tip) ==
  /\ pc = "toolkit" /\ adapter # <<>> /\ tip \in Tips
  /\ LET r == Head(adapter)
         p == bundle.protocol
         key == IF r.kind = "point_data" THEN r.gauge ELSE <<r.account, r.gauge>>
         field == IF r.kind = "point_data" THEN "gauge_proofs" ELSE "user_proofs"
     IN  IF key \in DOMAIN bundle[field]
         THEN /\ adapter' = Tail(adapter)
              /\ UNCHANGED <<environment, job, pc, resolved, bundle, outcome>>
         ELSE IF bundle.chain # Chain \/ bundle.block > tip THEN Fail("toolkit")
         ELSE \E answer \in Answers(bundle.block, Controller[p],
                                    SlotsOf(RequestSlots(p, bundle.epoch, r))) :
                /\ adapter' = Tail(adapter)
                /\ bundle' = [bundle EXCEPT ![field] = Put(@, key, answer)]
                /\ UNCHANGED <<environment, job, pc, resolved, outcome>>

\* Mutation: a bundle of another block passes.
BundleFitsButForBlock ==
  /\ bundle.protocol = hostInput.protocol
  /\ bundle.chain = hostInput.chain
  /\ bundle.epoch = epoch

\* verify_bundle_context.
BundleFits ==
  /\ bundle.protocol = hostInput.protocol
  /\ bundle.chain = hostInput.chain
  /\ bundle.block = hostInput.block
  /\ bundle.epoch = epoch

\* The proofs of the controller's account a hash map may yield first.
ControllerProofs ==
  LET From(proofs) == {proofs[key].account : key \in DOMAIN proofs} IN
  IF DOMAIN bundle.gauge_proofs # {} THEN From(bundle.gauge_proofs) ELSE From(bundle.user_proofs)

\* The storage proofs the toolkit has for a request.
Gathered(r) ==
  IF r.kind = "point_data" THEN bundle.gauge_proofs[r.gauge].storage
  ELSE bundle.user_proofs[<<r.account, r.gauge>>].storage

\* build_input_from_toolkit finds something missing, or something it cannot decode.
Unusable(r) ==
  \/ IF r.kind = "point_data" THEN r.gauge \notin DOMAIN bundle.gauge_proofs
     ELSE <<r.account, r.gauge>> \notin DOMAIN bundle.user_proofs
  \/ Len(Gathered(r)) < Len(SlotsFor(r))
  \/ ~DecodesList(Gathered(r))

\* The labels come from the host's own requests, the proofs by the position of their label.
FoundByToolkit ==
  [i \in DOMAIN hostInput.requests |->
     LET r == hostInput.requests[i]
         slots == SlotsFor(r)
     IN [label \in Labels(slots) |-> Gathered(r)[Position(slots, label)]]]

\* build_input_from_toolkit.
BuildFromToolkit ==
  IF ~Canonical THEN Fail("controller")
  ELSE IF \/ ControllerProofs = {}
          \/ \E i \in DOMAIN hostInput.requests : Unusable(hostInput.requests[i])
  THEN Fail("proofs")
  ELSE \E pf \in ControllerProofs :
         IF Decodes(pf) THEN Hand(InputFrom(pf, FoundByToolkit)) ELSE Fail("proofs")

\* run_toolkit returns.
FinishToolkit ==
  /\ pc = "toolkit" /\ adapter = <<>>
  /\ IF BundleFits THEN BuildFromToolkit ELSE Fail("context")

----------------------------------------------------------------------------
(* Failure and proof *)

\* Mutation: eth_blockNumber goes out on a client without a timeout.
WaitingButForLatest == pc \in {"root", "proofs", "adapter", "toolkit"}

\* Where the host waits for somebody else: a node, or the toolkit.
Waiting == pc \in {"latest", "root", "proofs", "adapter", "toolkit"}

\* The call times out or fails: build_http_client sets a limit on every call, supervise_child
\* one on the toolkit.
GiveUp == Waiting /\ Fail("no answer")

\* client.execute or client.prove: the circuit runs on the input, or panics on it.
Prove ==
  /\ pc = "handed"
  /\ IF Accepted(handed)
     THEN pc' = "proven" /\ proven' = PublicValues(handed)
     ELSE pc' = "rejected" /\ UNCHANGED proven
  /\ UNCHANGED <<environment, job, resolved, toolkit, handed, reason>>

Ended == {"failed", "proven", "rejected"}

----------------------------------------------------------------------------
(* What goes on around a run *)

\* One more block is out of reach of a reorganisation.
Settle(r) ==
  /\ pc \notin Ended
  /\ Len(settled) < MaxSettled
  /\ r \in Candidates[Len(settled)]
  /\ settled' = Append(settled, r)
  /\ UNCHANGED <<file, job, pc, resolved, toolkit, outcome>>

\* Another run, or the user, changes the file.
Overwrite(contents) ==
  /\ pc \in {"load", "latest", "root", "truncate", "write", "adapter"}
  /\ file' = contents
  /\ UNCHANGED <<settled, job, pc, resolved, toolkit, outcome>>

Init ==
  /\ settled \in {s \in [1 .. FirstSettled -> ChainRoots] :
                    \A i \in DOMAIN s : s[i] \in Candidates[i - 1]}
  /\ file \in FileContents \cup {Torn}
  /\ job \in Jobs
  /\ pc = "load"
  /\ hostInput = None /\ root = None /\ epoch = None
  /\ adapter = None /\ bundle = None
  /\ handed = None /\ proven = None /\ reason = "none"

Alone == Load \/ TruncateInput \/ WriteInput
Answered(tip) ==
  FetchLatest(tip) \/ FetchStateRoot(tip) \/ FetchProofs(tip) \/ FetchToolkitProof(tip)

Next ==
  \/ Alone
  \/ \E tip \in 0 .. MaxSettled + ReorgDepth : Answered(tip)
  \/ ReadRequest \/ FinishToolkit
  \/ GiveUp
  \/ Prove
  \/ \E r \in ChainRoots : Settle(r)
  \/ \E contents \in FileContents \cup {Torn} : Overwrite(contents)

Spec == Init /\ [][Next]_vars

\* The host runs its own steps and its timeouts fire; no node and no toolkit need ever answer.
FairSpec == Spec /\ WF_vars(Alone) /\ WF_vars(GiveUp)
----------------------------------------------------------------------------
(* Properties *)

TypeOK ==
  /\ settled \in Seq(ChainRoots)
  /\ file \in FileContents \cup {Torn} \/ file = [hostInput EXCEPT !.epoch = epoch]
  /\ job \in Jobs
  /\ pc \in {"load", "latest", "root", "proofs", "truncate", "write", "adapter", "toolkit",
             "handed"} \cup Ended
  /\ hostInput # None => hostInput.block \in Nat \cup {None} /\ hostInput.protocol \in Protocols
  /\ root \in ChainRoots \cup {None}
  /\ epoch \in Epochs \cup {None}
  /\ handed # None => WithinBounds(handed)
  /\ proven = IF pc = "proven" THEN PublicValues(handed) ELSE None
  /\ (reason # "none") <=> (pc = "failed")

\* The block the host works at was beyond doubt when the run began.
NamedSettledBlock == hostInput.block < FirstSettled
PickedBlock == IF job.json THEN FALSE ELSE job.env.block = None
AtSettledBlock == PickedBlock \/ NamedSettledBlock

\* No proof is paid for that the circuit will refuse or the chain would not take: with nodes
\* that conform, whatever tips they have, and whatever others write into the toolkit's file,
\* the circuit accepts what it is handed, under the protocol's own controller, unless the run
\* names a block that is still being replaced or at which the controller did not exist.
HandedIsWorthProving ==
  handed # None =>
    /\ Canonical
    /\ (/\ AtSettledBlock
        /\ hostInput.controller \in DOMAIN StateTrie[root]) => Accepted(handed)

\* The ledger a proof speaks of.
LedgerAt(r) == Ledger[r][hostInput.protocol]

\* Whatever nodes and toolkit answer and whatever is written into the toolkit's file, a proof
\* that comes out of a run answers the requests of that run, one by one and in their order, with
\* the values at the state root the run began with, for a week.
ProvenAnswersTheRun ==
  proven # None =>
    LET points == OfKind("point_data")
        votes == OfKind("account_data")
    IN
    /\ proven.stateRoot = root /\ proven.epoch = epoch /\ epoch % Week = 0
    /\ proven.points = [i \in DOMAIN points |->
         [protocol_id |-> AsU8[hostInput.protocol], gauge |-> points[i].gauge, epoch |-> epoch,
          gauge_controller |-> Controller[hostInput.protocol],
          bias |-> LedgerAt(root).bias[<<points[i].gauge, epoch>>]]]
    /\ proven.accounts = [i \in DOMAIN votes |->
         LET vote == LedgerAt(root).vote[<<votes[i].account, votes[i].gauge>>] IN
         [protocol_id |-> AsU8[hostInput.protocol], account |-> votes[i].account,
          gauge |-> votes[i].gauge, epoch |-> epoch,
          gauge_controller |-> Controller[hostInput.protocol],
          slope |-> vote.slope, end |-> vote.end, last_vote |-> vote.last_vote]]

\* BLOCK_SAFETY_MARGIN does what its comment asks of it: the block a run picks by itself is
\* known to every node of the pool, and the root it is proven under is the one that stays.
PickedBlockIsSafe ==
  (hostInput # None /\ PickedBlock) =>
    /\ reason # "no block"
    /\ root # None => /\ hostInput.block < Len(settled)
                      /\ root = settled[hostInput.block + 1]

\* A run comes to the prover or gives up, even if no node and no toolkit ever answers.
Decides == <>(pc \in {"handed"} \cup Ended)
=============================================================================
