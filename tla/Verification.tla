---------------------------- MODULE Verification ----------------------------
(***************************************************************************)
(* What the circuit accepts and what it makes of it, as pure functions of  *)
(* its input (program/src/main.rs).  Guest takes the steps one by one,     *)
(* HostPipeline asks what becomes of the input it hands over.              *)
(*                                                                         *)
(* A proof is a list of trie nodes.  It proves something under one root    *)
(* only, and only about the keys whose whole path it holds; a malformed    *)
(* list holds none.                                                        *)
(***************************************************************************)
EXTENDS GaugeControllers, Sequences

\* verify_account_proof succeeds: the nodes hash to the root, the account is there and its
\* RLP decodes.  Its value is AccountAt.
AccountProven(root, address, pf) ==
  /\ pf.root = root
  /\ address \in pf.keys
  /\ address \in DOMAIN StateTrie[root]
  /\ StateTrie[root][address] # Garbage

AccountAt(root, address) == StateTrie[root][address]

\* Mutation: an unreadable list of nodes passes for a proof of exclusion.
StorageProvenOrEmpty(root, slot, pf) == pf.root = root

\* verify_storage_proof succeeds: an exclusion proof is as good as an inclusion proof and
\* reads zero (WordAt), a word that is not a number panics.
StorageProven(root, slot, pf) ==
  /\ pf.root = root
  /\ slot \in pf.keys
  /\ WordAt(root, slot) # Garbage

\* Mutation: a missing proof of the last vote is read as "never voted".
LastVoteOptional(p, root, account, gauge, proof) ==
  \/ proof = {}
  \/ \E pf \in proof : StorageProven(root, DeriveLastVoteSlot(p, account, gauge), pf)

\* The proof of the last vote is a set of at most one node list (Option): mandatory where the
\* protocol has the slot, forbidden where it has none.
LastVoteProven(p, root, account, gauge, proof) ==
  IF HasLabel(p, "last_vote")
  THEN \E pf \in proof : StorageProven(root, DeriveLastVoteSlot(p, account, gauge), pf)
  ELSE proof = {}

LastVote(p, root, account, gauge, proof) ==
  IF proof = {} THEN 0 ELSE WordAt(root, DeriveLastVoteSlot(p, account, gauge))

----------------------------------------------------------------------------
(* Decoding a vote *)

\* decode_pendle_vote.
DecodePendleVote(packed) ==
  LET slope == packed \div HalfWord
      bias == packed % HalfWord
  IN [slope |-> slope, end |-> IF slope = 0 THEN 0 ELSE bias \div slope]

\* The slope and end committed for the two words a request proved.
DecodeVote(p, slopeWord, endWord) ==
  IF p = "Pendle" THEN DecodePendleVote(endWord) ELSE [slope |-> slopeWord, end |-> endWord]

----------------------------------------------------------------------------
(* A whole input: [stateRoot, epoch, points, accounts] *)

PointAccepted(root, epoch, r) ==
  LET p == TryFromU8(r.protocol_id) IN
  /\ IsProtocolId(r.protocol_id)
  /\ AccountProven(root, r.gauge_controller, r.account_proof)
  /\ StorageProven(AccountAt(root, r.gauge_controller), DerivePointSlot(p, r.gauge, epoch),
                   r.bias_proof)

VoteAccepted(root, r) ==
  LET p == TryFromU8(r.protocol_id)
      storage == AccountAt(root, r.gauge_controller)
  IN
  /\ IsProtocolId(r.protocol_id)
  /\ AccountProven(root, r.gauge_controller, r.account_proof)
  /\ StorageProven(storage, DeriveSlopeSlot(p, r.account, r.gauge), r.slope_proof)
  /\ StorageProven(storage, DeriveEndSlot(p, r.account, r.gauge), r.end_proof)
  /\ LastVoteProven(p, storage, r.account, r.gauge, r.last_vote_proof)

\* The circuit runs to its end without a panic.
Accepted(in) ==
  /\ \A i \in DOMAIN in.points : PointAccepted(in.stateRoot, in.epoch, in.points[i])
  /\ \A i \in DOMAIN in.accounts : VoteAccepted(in.stateRoot, in.accounts[i])

PointResult(root, epoch, r) ==
  [protocol_id |-> r.protocol_id, gauge |-> r.gauge, epoch |-> epoch,
   gauge_controller |-> r.gauge_controller,
   bias |-> WordAt(AccountAt(root, r.gauge_controller),
                   DerivePointSlot(TryFromU8(r.protocol_id), r.gauge, epoch))]

AccountResult(root, epoch, r) ==
  LET p == TryFromU8(r.protocol_id)
      storage == AccountAt(root, r.gauge_controller)
      vote == DecodeVote(p, WordAt(storage, DeriveSlopeSlot(p, r.account, r.gauge)),
                            WordAt(storage, DeriveEndSlot(p, r.account, r.gauge)))
  IN [protocol_id |-> r.protocol_id, account |-> r.account, gauge |-> r.gauge,
      epoch |-> epoch, gauge_controller |-> r.gauge_controller, slope |-> vote.slope,
      end |-> vote.end,
      last_vote |-> LastVote(p, storage, r.account, r.gauge, r.last_vote_proof)]

\* The public values of an accepted input.
PublicValues(in) ==
  [stateRoot |-> in.stateRoot, epoch |-> in.epoch,
   points |-> [i \in DOMAIN in.points |-> PointResult(in.stateRoot, in.epoch, in.points[i])],
   accounts |-> [i \in DOMAIN in.accounts |->
                   AccountResult(in.stateRoot, in.epoch, in.accounts[i])]]
=============================================================================
