------------------------------- MODULE Guest --------------------------------
(***************************************************************************)
(* The circuit (program/src/main.rs), run any number of times by a prover  *)
(* who is free to choose its whole input: the state root, the epoch, the   *)
(* labels of every request and every Merkle proof.                         *)
(*                                                                         *)
(* A run reads its input once and never changes it, so the model lets the  *)
(* prover choose each part of the input at the step that first looks at    *)
(* it.  A panic leaves nothing behind: no public values, no proof.         *)
(***************************************************************************)
EXTENDS Verification, FiniteSets

CONSTANTS
  ProtocolIds,      \* the u8 values a request may carry, known or not
  AccountProofs,    \* node lists offered as proofs in a state trie
  StorageProofs,    \* node lists offered as proofs in a storage trie
  NoAccount,        \* the account of a point request
  MaxRequests,      \* bound: requests in one batch
  MaxBatches        \* bound: batches ever proven

ASSUME GuestAssumption ==
  /\ \A pf \in AccountProofs : pf.root \in StateRoots
  /\ \A pf \in StorageProofs : pf.root \in StorageRoots
  /\ NoAccount \notin Accounts

VARIABLES
  phase,           \* where main() is: "idle" (no run), "points", "accounts", "panicked"
  proving,         \* the proof the current request looks at next; "none" between requests
  stateRoot, epoch,
  request,         \* the labels of the current request
  storage,         \* the storage root its account proof led to
  words,           \* the words proven for it so far
  points, accounts,\* the results collected
  published        \* the public values of every batch committed so far

input == <<stateRoot, epoch>>
current == <<request, storage, words>>
results == <<points, accounts>>
vars == <<phase, proving, input, current, results, published>>

NoRequest == [protocol_id |-> 0, account |-> NoAccount, gauge |-> 0, gauge_controller |-> 0]
NoStorage == Garbage
NoWords == [slope |-> 0, end |-> 0]

----------------------------------------------------------------------------
(* A run of the circuit *)

Protocol == TryFromU8(request.protocol_id)

NothingCollected ==
  /\ request' = NoRequest /\ storage' = NoStorage /\ words' = NoWords
  /\ points' = <<>> /\ accounts' = <<>>

\* A panic ends the run; nothing of it can be proven.
Panic ==
  /\ phase' = "panicked" /\ proving' = "none"
  /\ NothingCollected
  /\ UNCHANGED <<input, published>>

\* io::read: a prover starts the program on a new input.
ReadInput(root, e) ==
  /\ phase \in {"idle", "panicked"}
  /\ Cardinality(published) < MaxBatches
  /\ phase' = "points"
  /\ stateRoot' = root /\ epoch' = e
  /\ UNCHANGED <<proving, current, results, published>>

\* The head of both loops: reject an unknown id, then prove the account.
BeginRequest(labels, pf, first) ==
  /\ proving = "none"
  /\ Len(points) + Len(accounts) < MaxRequests
  /\ IF /\ IsProtocolId(labels.protocol_id)
        /\ AccountProven(stateRoot, labels.gauge_controller, pf)
     THEN /\ request' = labels
          /\ storage' = AccountAt(stateRoot, labels.gauge_controller)
          /\ words' = NoWords
          /\ proving' = first
          /\ UNCHANGED <<phase, input, results, published>>
     ELSE Panic

BeginPoint(id, g, c, pf) ==
  /\ phase = "points"
  /\ BeginRequest([protocol_id |-> id, account |-> NoAccount, gauge |-> g,
                   gauge_controller |-> c], pf, "bias")

BeginAccount(id, a, g, c, pf) ==
  /\ phase = "accounts"
  /\ BeginRequest([protocol_id |-> id, account |-> a, gauge |-> g,
                   gauge_controller |-> c], pf, "slope")

\* The request is done: back to the head of its loop.
NextRequest ==
  /\ proving' = "none"
  /\ request' = NoRequest /\ storage' = NoStorage /\ words' = NoWords
  /\ UNCHANGED <<phase, input, published>>

ReadBias(pf) ==
  LET slot == DerivePointSlot(Protocol, request.gauge, epoch) IN
  /\ proving = "bias"
  /\ IF StorageProven(storage, slot, pf)
     THEN /\ points' = Append(points,
               [protocol_id |-> request.protocol_id, gauge |-> request.gauge, epoch |-> epoch,
                gauge_controller |-> request.gauge_controller, bias |-> WordAt(storage, slot)])
          /\ UNCHANGED accounts
          /\ NextRequest
     ELSE Panic

\* Both words of a vote are proven whatever is committed of them.
ReadSlope(pf) ==
  LET slot == DeriveSlopeSlot(Protocol, request.account, request.gauge) IN
  /\ proving = "slope"
  /\ IF StorageProven(storage, slot, pf)
     THEN /\ words' = [words EXCEPT !.slope = WordAt(storage, slot)]
          /\ proving' = "end"
          /\ UNCHANGED <<phase, input, request, storage, results, published>>
     ELSE Panic

ReadEnd(pf) ==
  LET slot == DeriveEndSlot(Protocol, request.account, request.gauge) IN
  /\ proving = "end"
  /\ IF StorageProven(storage, slot, pf)
     THEN /\ words' = [words EXCEPT !.end = WordAt(storage, slot)]
          /\ proving' = "last_vote"
          /\ UNCHANGED <<phase, input, request, storage, results, published>>
     ELSE Panic

ReadLastVote(proof) ==
  LET vote == DecodeVote(Protocol, words.slope, words.end)
      last == LastVote(Protocol, storage, request.account, request.gauge, proof)
  IN
  /\ proving = "last_vote"
  /\ IF LastVoteProven(Protocol, storage, request.account, request.gauge, proof)
     THEN /\ accounts' = Append(accounts,
               [protocol_id |-> request.protocol_id, account |-> request.account,
                gauge |-> request.gauge, epoch |-> epoch,
                gauge_controller |-> request.gauge_controller,
                slope |-> vote.slope, end |-> vote.end, last_vote |-> last])
          /\ UNCHANGED points
          /\ NextRequest
     ELSE Panic

\* process_point_requests returns.
EndPoints ==
  /\ phase = "points" /\ proving = "none"
  /\ phase' = "accounts"
  /\ UNCHANGED <<proving, input, current, results, published>>

\* commit_slice: the only output of a run, written once, after the last request.
Commit ==
  /\ phase = "accounts" /\ proving = "none"
  /\ published' = published \cup {[stateRoot |-> stateRoot, epoch |-> epoch,
                                   points |-> points, accounts |-> accounts]}
  /\ phase' = "idle"
  /\ NothingCollected
  /\ UNCHANGED <<proving, input>>

----------------------------------------------------------------------------

Init ==
  /\ phase = "idle" /\ proving = "none"
  /\ stateRoot \in StateRoots /\ epoch \in Epochs
  /\ request = NoRequest /\ storage = NoStorage /\ words = NoWords
  /\ points = <<>> /\ accounts = <<>>
  /\ published = {}

Next ==
  \/ \E root \in StateRoots, e \in Epochs : ReadInput(root, e)
  \/ \E id \in ProtocolIds, g \in Gauges, c \in Addresses, pf \in AccountProofs :
       \/ BeginPoint(id, g, c, pf)
       \/ \E a \in Accounts : BeginAccount(id, a, g, c, pf)
  \/ \E pf \in StorageProofs : ReadBias(pf) \/ ReadSlope(pf) \/ ReadEnd(pf)
  \/ \E proof \in {{}} \cup {{pf} : pf \in StorageProofs} : ReadLastVote(proof)
  \/ EndPoints
  \/ Commit

Spec == Init /\ [][Next]_vars
----------------------------------------------------------------------------
(* Properties *)

PointResults ==
  [protocol_id : ProtocolIds, gauge : Gauges, epoch : Epochs, gauge_controller : Addresses,
   bias : Words]
AccountResults ==
  [protocol_id : ProtocolIds, account : Accounts, gauge : Gauges, epoch : Epochs,
   gauge_controller : Addresses, slope : Words, end : Words, last_vote : Words]
Requests ==
  [protocol_id : ProtocolIds, account : Accounts \cup {NoAccount}, gauge : Gauges,
   gauge_controller : Addresses]
Batches ==
  [stateRoot : StateRoots, epoch : Epochs, points : Seq(PointResults),
   accounts : Seq(AccountResults)]

TypeOK ==
  /\ phase \in {"idle", "points", "accounts", "panicked"}
  /\ proving \in {"none", "bias", "slope", "end", "last_vote"}
  /\ stateRoot \in StateRoots /\ epoch \in Epochs
  /\ request \in Requests \cup {NoRequest}
  /\ storage \in StorageRoots \cup {NoStorage}
  /\ words \in [slope : Words, end : Words]
  /\ points \in Seq(PointResults)
  /\ accounts \in Seq(AccountResults)
  /\ published \subseteq Batches

\* Everything a run makes public is true of the state root it names: for a canonical controller
\* at a real block, each committed number is the one its users see, decoded and not copied
\* (SPEC.md "Semantic means decoded"), however the prover chose labels, proofs and batches.
A == INSTANCE Attestation
ImplementsAttestation == A!Spec

\* Two proofs, whoever made them and from whatever input, never attest different values for
\* the same labels under the same state root; on chain that would be a VALUE_DIVERGENCE.
\* It holds for forged roots and for controllers nobody whitelisted, too.
OneTruthPerLabel ==
  \A b1, b2 \in published : b1.stateRoot = b2.stateRoot =>
    /\ \A i \in DOMAIN b1.points, j \in DOMAIN b2.points :
         LET r1 == b1.points[i]
             r2 == b2.points[j]
         IN  [r1 EXCEPT !.bias = r2.bias] = r2 => r1 = r2
    /\ \A i \in DOMAIN b1.accounts, j \in DOMAIN b2.accounts :
         LET r1 == b1.accounts[i]
             r2 == b2.accounts[j]
         IN  [r1 EXCEPT !.slope = r2.slope, !.end = r2.end, !.last_vote = r2.last_vote] = r2
               => r1 = r2

\* The words a batch was allowed to read, each with the labels it was read for.
PointRead(b, r) ==
  [protocol_id |-> r.protocol_id, field |-> "bias", account |-> NoAccount, gauge |-> r.gauge,
   epoch |-> r.epoch, storage |-> AccountAt(b.stateRoot, r.gauge_controller),
   slot |-> DerivePointSlot(TryFromU8(r.protocol_id), r.gauge, r.epoch)]
AccountRead(b, r, field, slot) ==
  [protocol_id |-> r.protocol_id, field |-> field, account |-> r.account, gauge |-> r.gauge,
   epoch |-> r.epoch, storage |-> AccountAt(b.stateRoot, r.gauge_controller), slot |-> slot]
Reads(b) ==
  {PointRead(b, b.points[i]) : i \in DOMAIN b.points} \cup
  UNION {LET r == b.accounts[i]
             p == TryFromU8(r.protocol_id)
         IN  {AccountRead(b, r, "slope", DeriveSlopeSlot(p, r.account, r.gauge)),
              AccountRead(b, r, "end", DeriveEndSlot(p, r.account, r.gauge))} \cup
             (IF HasLabel(p, "last_vote")
              THEN {AccountRead(b, r, "last_vote", DeriveLastVoteSlot(p, r.account, r.gauge))}
              ELSE {}) : i \in DOMAIN b.accounts}
AllReads == UNION {Reads(b) : b \in published}

\* A word proven at one storage slot is never committed under other labels of its protocol:
\* not for another gauge, account or field, and a point not for another week (SPEC.md
\* "Storage-slot binding").  What has no week in its slot, the votes of every protocol and
\* the points of Yb, is bound to a week by nothing but the state root.
RelabelMovesNoValue ==
  \A r1, r2 \in AllReads :
    (r1.protocol_id = r2.protocol_id /\ r1.storage = r2.storage /\ r1.slot = r2.slot) =>
      /\ <<r1.field, r1.account, r1.gauge>> = <<r2.field, r2.account, r2.gauge>>
      /\ (r1.field = "bias" /\ r1.protocol_id # AsU8["Yb"]) => r1.epoch = r2.epoch

\* SPEC.md:436 says the epoch label, too, is bound to the storage key of every read and that a
\* value under a mismatched label reads zero.  The code derives no epoch into the slots of
\* votes and of Yb's points, so this does not hold of it.
EpochIsInTheSlot ==
  \A r1, r2 \in AllReads :
    (/\ r1.protocol_id = r2.protocol_id /\ r1.storage = r2.storage /\ r1.slot = r2.slot
     /\ WordAt(r1.storage, r1.slot) # 0) => r1.epoch = r2.epoch
=============================================================================
