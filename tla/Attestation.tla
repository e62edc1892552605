---------------------------- MODULE Attestation -----------------------------
(***************************************************************************)
(* What the circuit promises to those who read its public values: every    *)
(* batch ever published is, as a whole, true of the state root it names.   *)
(* How a batch comes about, which proofs were shown and how often a run    *)
(* failed does not appear here.  Guest implements this specification.      *)
(***************************************************************************)
EXTENDS GaugeControllers, Sequences

VARIABLE published   \* the public values of every proof that exists

\* The result speaks of the protocol's own controller, at a real block: what the on-chain
\* anchor (STATE_ROOT_MISMATCH) and whitelist (BAD_CONTROLLER) let through.
Authentic(root, r) ==
  root \in ChainRoots /\ r.gauge_controller = Controller[TryFromU8(r.protocol_id)]

\* Some account of the state is named, under a known protocol.
Sourced(root, r) ==
  IsProtocolId(r.protocol_id) /\ r.gauge_controller \in DOMAIN StateTrie[root]

LedgerOf(root, r) == Ledger[root][TryFromU8(r.protocol_id)]

TruePoint(root, epoch, r) ==
  /\ r.epoch = epoch
  /\ Sourced(root, r)
  /\ Authentic(root, r) => r.bias = LedgerOf(root, r).bias[<<r.gauge, epoch>>]

TrueVote(root, epoch, r) ==
  /\ r.epoch = epoch
  /\ Sourced(root, r)
  /\ Authentic(root, r) =>
       [slope |-> r.slope, end |-> r.end, last_vote |-> r.last_vote]
         = LedgerOf(root, r).vote[<<r.account, r.gauge>>]

TrueBatch(batch) ==
  /\ \A i \in DOMAIN batch.points : TruePoint(batch.stateRoot, batch.epoch, batch.points[i])
  /\ \A i \in DOMAIN batch.accounts : TrueVote(batch.stateRoot, batch.epoch, batch.accounts[i])

Init == published = {}

\* A proof of a batch comes into existence.
Publish(batch) == TrueBatch(batch) /\ published' = published \cup {batch}

Next == \E batch \in published' : Publish(batch)

Spec == Init /\ [][Next]_published
=============================================================================
