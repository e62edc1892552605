---------------------------- MODULE GuestProofs -----------------------------
(***************************************************************************)
(* What is proved of Guest for every chain, every set of labels and every  *)
(* set of Merkle proofs a prover may offer: the circuit implements         *)
(* Attestation, and step by step it is what Verification says of an input  *)
(* as a whole.  The argument for the first: the slot the circuit derives   *)
(* for a label is the slot the contract uses for it (PointSlotIsTheField   *)
(* and its siblings), a Merkle proof under the named root fixes the word   *)
(* behind it, and the decoding of a vote inverts the contract's packing.   *)
(***************************************************************************)
EXTENDS Guest, VerificationProofs

----------------------------------------------------------------------------
(* What a result is: a function of the root and of its labels *)

\* The word a request of these labels reads behind a slot.
Read(root, r, slot) == WordAt(StateTrie[root][r.gauge_controller], slot)

\* The labels name an account of the state that has a storage.
Labelled(root, r) ==
  /\ IsProtocolId(r.protocol_id)
  /\ r.gauge_controller \in DOMAIN StateTrie[root]
  /\ StateTrie[root][r.gauge_controller] \in StorageRoots

PointIsRead(root, r) ==
  LET p == TryFromU8(r.protocol_id) IN
  /\ Labelled(root, r)
  /\ r.bias = Read(root, r, DerivePointSlot(p, r.gauge, r.epoch))

VoteIsRead(root, r) ==
  LET p == TryFromU8(r.protocol_id)
      vote == DecodeVote(p, Read(root, r, DeriveSlopeSlot(p, r.account, r.gauge)),
                            Read(root, r, DeriveEndSlot(p, r.account, r.gauge)))
  IN  /\ Labelled(root, r)
      /\ r.slope = vote.slope /\ r.end = vote.end
      /\ r.last_vote = IF HasLabel(p, "last_vote")
                       THEN Read(root, r, DeriveLastVoteSlot(p, r.account, r.gauge)) ELSE 0

BatchIsRead(root, e, ps, as) ==
  /\ \A i \in DOMAIN ps : ps[i].epoch = e /\ PointIsRead(root, ps[i])
  /\ \A i \in DOMAIN as : as[i].epoch = e /\ VoteIsRead(root, as[i])

----------------------------------------------------------------------------
(* The inductive invariant *)

\* Between runs nothing is left of one.
RunInv ==
  phase \in {"idle", "panicked"} => proving = "none" /\ points = <<>> /\ accounts = <<>>

\* A request in progress has passed the head of its loop.
RequestInv ==
  proving # "none" =>
    /\ request \in Requests
    /\ Labelled(stateRoot, request)
    /\ storage = StateTrie[stateRoot][request.gauge_controller]
    /\ proving # "bias" => request.account \in Accounts

\* The words proven so far are the ones behind the slots of the request.
WordsInv ==
  /\ proving \in {"end", "last_vote"} =>
       words.slope = WordAt(storage, DeriveSlopeSlot(Protocol, request.account, request.gauge))
  /\ proving = "last_vote" =>
       words.end = WordAt(storage, DeriveEndSlot(Protocol, request.account, request.gauge))

ResultsInv == BatchIsRead(stateRoot, epoch, points, accounts)
PublishedInv ==
  \A b \in published : BatchIsRead(b.stateRoot, b.epoch, b.points, b.accounts)

GInv == RunInv /\ RequestInv /\ WordsInv /\ ResultsInv /\ PublishedInv

----------------------------------------------------------------------------
(* Facts about a request *)

LEMMA AppendOneOf ==
  ASSUME NEW S, NEW s \in Seq(S), NEW x \in S, NEW i \in DOMAIN Append(s, x)
  PROVE  Append(s, x)[i] = x \/ (i \in DOMAIN s /\ Append(s, x)[i] = s[i])
  OBVIOUS

----------------------------------------------------------------------------
(* Every step keeps the invariant *)

LEMMA InitHolds == Init => TypeOK /\ GInv
<1> SUFFICES ASSUME Init PROVE TypeOK /\ GInv
  OBVIOUS
<1>1. TypeOK
  BY ZeroIsAWord DEF Init, TypeOK, NoRequest, NoStorage, NoWords
<1>2. RunInv /\ RequestInv /\ WordsInv /\ PublishedInv
  BY DEF Init, RunInv, RequestInv, WordsInv, PublishedInv
<1>3. ResultsInv
  BY DEF Init, ResultsInv, BatchIsRead
<1> QED
  BY <1>1, <1>2, <1>3 DEF GInv

LEMMA PanicHolds ==
  ASSUME TypeOK, GInv, Panic
  PROVE  TypeOK' /\ GInv'
<1> USE DEF Panic, NothingCollected, input
<1>1. TypeOK'
  BY ZeroIsAWord DEF TypeOK, NoRequest, NoStorage, NoWords
<1>2. RunInv' /\ RequestInv' /\ WordsInv'
  BY DEF RunInv, RequestInv, WordsInv
<1>3. ResultsInv'
  BY DEF ResultsInv, BatchIsRead
<1>4. PublishedInv'
  BY DEF GInv, PublishedInv
<1> QED
  BY <1>1, <1>2, <1>3, <1>4 DEF GInv

LEMMA ReadInputHolds ==
  ASSUME TypeOK, GInv, NEW root \in StateRoots, NEW e \in Epochs, ReadInput(root, e)
  PROVE  TypeOK' /\ GInv'
<1> USE DEF ReadInput, current, results
<1>1. TypeOK'
  BY DEF TypeOK
<1>2. proving' = "none" /\ points' = <<>> /\ accounts' = <<>>
  BY DEF GInv, RunInv
<1>3. RunInv' /\ RequestInv' /\ WordsInv'
  BY <1>2 DEF RunInv, RequestInv, WordsInv
<1>4. ResultsInv'
  BY <1>2 DEF ResultsInv, BatchIsRead
<1>5. PublishedInv'
  BY DEF GInv, PublishedInv
<1> QED
  BY <1>1, <1>3, <1>4, <1>5 DEF GInv

LEMMA BeginHolds ==
  ASSUME TypeOK, GInv, phase \in {"points", "accounts"},
         NEW labels \in Requests, NEW pf, NEW first \in {"bias", "slope"},
         first # "bias" => labels.account \in Accounts,
         BeginRequest(labels, pf, first)
  PROVE  TypeOK' /\ GInv'
<1>1. CASE Panic
  BY <1>1, PanicHolds
<1>2. CASE ~Panic
  <2>1. /\ IsProtocolId(labels.protocol_id)
        /\ AccountProven(stateRoot, labels.gauge_controller, pf)
        /\ request' = labels
        /\ storage' = AccountAt(stateRoot, labels.gauge_controller)
        /\ words' = NoWords /\ proving' = first
        /\ UNCHANGED <<phase, stateRoot, epoch, points, accounts, published>>
    BY <1>2 DEF BeginRequest, input, results
  <2>2. stateRoot \in StateRoots
    BY DEF TypeOK
  <2>3. /\ labels.gauge_controller \in DOMAIN StateTrie[stateRoot]
        /\ StateTrie[stateRoot][labels.gauge_controller] \in StorageRoots
    BY <2>1, <2>2, ProvenHasStorage
  <2>4. TypeOK'
    BY <2>1, <2>3, ZeroIsAWord DEF TypeOK, NoWords, AccountAt
  <2>5. RunInv' /\ WordsInv'
    BY <2>1 DEF RunInv, WordsInv
  <2>6. RequestInv'
    BY <2>1, <2>3 DEF RequestInv, Labelled, AccountAt
  <2>7. ResultsInv' /\ PublishedInv'
    BY <2>1 DEF GInv, ResultsInv, PublishedInv
  <2> QED
    BY <2>4, <2>5, <2>6, <2>7 DEF GInv
<1> QED
  BY <1>1, <1>2

LEMMA BeginPointHolds ==
  ASSUME TypeOK, GInv, NEW id \in ProtocolIds, NEW g \in Gauges, NEW c \in Addresses, NEW pf,
         BeginPoint(id, g, c, pf)
  PROVE  TypeOK' /\ GInv'
<1> DEFINE labels == [protocol_id |-> id, account |-> NoAccount, gauge |-> g,
                      gauge_controller |-> c]
<1>1. labels \in Requests
  BY DEF Requests
<1>2. phase \in {"points", "accounts"} /\ BeginRequest(labels, pf, "bias")
  BY DEF BeginPoint
<1> QED
  BY <1>1, <1>2, BeginHolds

LEMMA BeginAccountHolds ==
  ASSUME TypeOK, GInv, NEW id \in ProtocolIds, NEW a \in Accounts, NEW g \in Gauges,
         NEW c \in Addresses, NEW pf, BeginAccount(id, a, g, c, pf)
  PROVE  TypeOK' /\ GInv'
<1> DEFINE labels == [protocol_id |-> id, account |-> a, gauge |-> g, gauge_controller |-> c]
<1>1. labels \in Requests /\ labels.account \in Accounts
  BY DEF Requests
<1>2. phase \in {"points", "accounts"} /\ BeginRequest(labels, pf, "slope")
  BY DEF BeginAccount
<1> QED
  BY <1>1, <1>2, BeginHolds

\* Between two requests the invariant says nothing about the request.
LEMMA NextRequestHolds ==
  ASSUME TypeOK, GInv, proving # "none", NextRequest,
         points' \in Seq(PointResults), accounts' \in Seq(AccountResults),
         BatchIsRead(stateRoot, epoch, points', accounts')
  PROVE  TypeOK' /\ GInv'
<1> USE DEF NextRequest, input
<1>1. TypeOK'
  BY ZeroIsAWord DEF TypeOK, NoRequest, NoStorage, NoWords
<1>2. RunInv' /\ RequestInv' /\ WordsInv'
  BY DEF GInv, RunInv, RequestInv, WordsInv
<1>3. ResultsInv'
  BY DEF ResultsInv
<1>4. PublishedInv'
  BY DEF GInv, PublishedInv
<1> QED
  BY <1>1, <1>2, <1>3, <1>4 DEF GInv

LEMMA ReadBiasHolds ==
  ASSUME TypeOK, GInv, NEW pf, ReadBias(pf)
  PROVE  TypeOK' /\ GInv'
<1> DEFINE slot == DerivePointSlot(Protocol, request.gauge, epoch)
           r == [protocol_id |-> request.protocol_id, gauge |-> request.gauge, epoch |-> epoch,
                 gauge_controller |-> request.gauge_controller, bias |-> WordAt(storage, slot)]
<1>1. CASE Panic
  BY <1>1, PanicHolds
<1>2. CASE ~Panic
  <2>1. /\ proving = "bias" /\ StorageProven(storage, slot, pf)
        /\ points' = Append(points, r) /\ accounts' = accounts /\ NextRequest
    BY <1>2 DEF ReadBias
  <2>2. /\ request \in Requests /\ Labelled(stateRoot, request)
        /\ storage = StateTrie[stateRoot][request.gauge_controller]
    BY <2>1 DEF GInv, RequestInv
  <2>3. WordAt(storage, slot) \in Words
    BY <2>1, <2>2, ProvenIsAWord DEF Labelled
  <2>4. r \in PointResults
    BY <2>2, <2>3 DEF PointResults, Requests, TypeOK
  <2>5. PointIsRead(stateRoot, r)
    BY <2>2 DEF PointIsRead, Labelled, Read, Protocol
  <2> HIDE DEF r
  <2>6. r.epoch = epoch
    BY DEF r
  <2>7. points' \in Seq(PointResults) /\ accounts' \in Seq(AccountResults)
    BY <2>1, <2>4 DEF TypeOK
  <2>8. \A i \in DOMAIN points' : points'[i].epoch = epoch /\ PointIsRead(stateRoot, points'[i])
    <3> TAKE i \in DOMAIN points'
    <3>1. points'[i] = r \/ (i \in DOMAIN points /\ points'[i] = points[i])
      BY <2>1, <2>4, AppendOneOf DEF TypeOK
    <3> QED
      BY <3>1, <2>5, <2>6 DEF GInv, ResultsInv, BatchIsRead
  <2>9. BatchIsRead(stateRoot, epoch, points', accounts')
    BY <2>1, <2>8 DEF GInv, ResultsInv, BatchIsRead
  <2> QED
    BY <2>1, <2>7, <2>9, NextRequestHolds
<1> QED
  BY <1>1, <1>2

LEMMA ReadSlopeHolds ==
  ASSUME TypeOK, GInv, NEW pf, ReadSlope(pf)
  PROVE  TypeOK' /\ GInv'
<1> DEFINE slot == DeriveSlopeSlot(Protocol, request.account, request.gauge)
<1>1. CASE Panic
  BY <1>1, PanicHolds
<1>2. CASE ~Panic
  <2>1. /\ proving = "slope" /\ StorageProven(storage, slot, pf)
        /\ words' = [words EXCEPT !.slope = WordAt(storage, slot)]
        /\ proving' = "end"
        /\ UNCHANGED <<phase, stateRoot, epoch, request, storage, points, accounts, published>>
    BY <1>2 DEF ReadSlope, input, results
  <2>2. storage \in StorageRoots
    BY <2>1 DEF GInv, RequestInv, Labelled
  <2>3. WordAt(storage, slot) \in Words
    BY <2>1, <2>2, ProvenIsAWord
  <2>4. TypeOK'
    BY <2>1, <2>3 DEF TypeOK
  <2>5. words'.slope = WordAt(storage, slot)
    BY <2>1 DEF TypeOK
  <2>6. WordsInv'
    BY <2>1, <2>5 DEF WordsInv, Protocol
  <2>7. RunInv' /\ RequestInv'
    BY <2>1 DEF GInv, RunInv, RequestInv
  <2>8. ResultsInv' /\ PublishedInv'
    BY <2>1 DEF GInv, ResultsInv, PublishedInv
  <2> QED
    BY <2>4, <2>6, <2>7, <2>8 DEF GInv
<1> QED
  BY <1>1, <1>2

LEMMA ReadEndHolds ==
  ASSUME TypeOK, GInv, NEW pf, ReadEnd(pf)
  PROVE  TypeOK' /\ GInv'
<1> DEFINE slot == DeriveEndSlot(Protocol, request.account, request.gauge)
<1>1. CASE Panic
  BY <1>1, PanicHolds
<1>2. CASE ~Panic
  <2>1. /\ proving = "end" /\ StorageProven(storage, slot, pf)
        /\ words' = [words EXCEPT !.end = WordAt(storage, slot)]
        /\ proving' = "last_vote"
        /\ UNCHANGED <<phase, stateRoot, epoch, request, storage, points, accounts, published>>
    BY <1>2 DEF ReadEnd, input, results
  <2>2. storage \in StorageRoots
    BY <2>1 DEF GInv, RequestInv, Labelled
  <2>3. WordAt(storage, slot) \in Words
    BY <2>1, <2>2, ProvenIsAWord
  <2>4. TypeOK'
    BY <2>1, <2>3 DEF TypeOK
  <2>5. words'.end = WordAt(storage, slot) /\ words'.slope = words.slope
    BY <2>1 DEF TypeOK
  <2>6. WordsInv'
    BY <2>1, <2>5 DEF GInv, WordsInv, Protocol
  <2>7. RunInv' /\ RequestInv'
    BY <2>1 DEF GInv, RunInv, RequestInv
  <2>8. ResultsInv' /\ PublishedInv'
    BY <2>1 DEF GInv, ResultsInv, PublishedInv
  <2> QED
    BY <2>4, <2>6, <2>7, <2>8 DEF GInv
<1> QED
  BY <1>1, <1>2

LEMMA ReadLastVoteHolds ==
  ASSUME TypeOK, GInv, NEW proof, ReadLastVote(proof)
  PROVE  TypeOK' /\ GInv'
<1> DEFINE vote == DecodeVote(Protocol, words.slope, words.end)
           slot == DeriveLastVoteSlot(Protocol, request.account, request.gauge)
           last == LastVote(Protocol, storage, request.account, request.gauge, proof)
           r == [protocol_id |-> request.protocol_id, account |-> request.account,
                 gauge |-> request.gauge, epoch |-> epoch,
                 gauge_controller |-> request.gauge_controller,
                 slope |-> vote.slope, end |-> vote.end, last_vote |-> last]
<1>1. CASE Panic
  BY <1>1, PanicHolds
<1>2. CASE ~Panic
  <2>1. /\ proving = "last_vote" /\ LastVoteProven(Protocol, storage, request.account, request.gauge, proof)
        /\ accounts' = Append(accounts, r) /\ points' = points /\ NextRequest
    BY <1>2 DEF ReadLastVote
  <2>2. /\ request \in Requests /\ Labelled(stateRoot, request)
        /\ storage = StateTrie[stateRoot][request.gauge_controller]
        /\ request.account \in Accounts
    BY <2>1 DEF GInv, RequestInv
  <2>3. vote.slope \in Words /\ vote.end \in Words
    BY DecodedAreWords DEF TypeOK
  <2>4. /\ last \in Words
        /\ last = IF HasLabel(Protocol, "last_vote") THEN WordAt(storage, slot) ELSE 0
    <3>1. CASE HasLabel(Protocol, "last_vote")
      <4>1. PICK pf \in proof : StorageProven(storage, slot, pf)
        BY <2>1, <3>1 DEF LastVoteProven
      <4>2. last = WordAt(storage, slot)
        BY <4>1 DEF LastVote
      <4> QED
        BY <2>2, <3>1, <4>1, <4>2, ProvenIsAWord DEF Labelled
    <3>2. CASE ~HasLabel(Protocol, "last_vote")
      BY <2>1, <3>2, ZeroIsAWord DEF LastVoteProven, LastVote
    <3> QED
      BY <3>1, <3>2
  <2>5. r \in AccountResults
    BY <2>2, <2>3, <2>4 DEF AccountResults, Requests, TypeOK
  <2>6. VoteIsRead(stateRoot, r)
    <3>1. /\ words.slope = Read(stateRoot, request,
                                DeriveSlopeSlot(Protocol, request.account, request.gauge))
          /\ words.end = Read(stateRoot, request,
                              DeriveEndSlot(Protocol, request.account, request.gauge))
      BY <2>1, <2>2 DEF GInv, WordsInv, Read
    <3> HIDE DEF vote
    <3>2. /\ r.slope = vote.slope /\ r.end = vote.end /\ r.last_vote = last
          /\ r.protocol_id = request.protocol_id /\ r.account = request.account
          /\ r.gauge = request.gauge /\ r.gauge_controller = request.gauge_controller
      OBVIOUS
    <3> HIDE DEF r
    <3> QED
      BY <2>2, <2>4, <3>1, <3>2 DEF VoteIsRead, Labelled, Read, Protocol, vote
  <2>7. r.epoch = epoch
    OBVIOUS
  <2> HIDE DEF r
  <2>8. points' \in Seq(PointResults) /\ accounts' \in Seq(AccountResults)
    BY <2>1, <2>5 DEF TypeOK
  <2>9. \A i \in DOMAIN accounts' :
          accounts'[i].epoch = epoch /\ VoteIsRead(stateRoot, accounts'[i])
    <3> TAKE i \in DOMAIN accounts'
    <3>1. accounts'[i] = r \/ (i \in DOMAIN accounts /\ accounts'[i] = accounts[i])
      BY <2>1, <2>5, AppendOneOf DEF TypeOK
    <3> QED
      BY <3>1, <2>6, <2>7 DEF GInv, ResultsInv, BatchIsRead
  <2>10. BatchIsRead(stateRoot, epoch, points', accounts')
    BY <2>1, <2>9 DEF GInv, ResultsInv, BatchIsRead
  <2> QED
    BY <2>1, <2>8, <2>10, NextRequestHolds
<1> QED
  BY <1>1, <1>2

LEMMA EndPointsHolds ==
  ASSUME TypeOK, GInv, EndPoints
  PROVE  TypeOK' /\ GInv'
<1> USE DEF EndPoints, input, current, results
<1>1. TypeOK'
  BY DEF TypeOK
<1>2. RunInv' /\ RequestInv' /\ WordsInv'
  BY DEF RunInv, RequestInv, WordsInv
<1>3. ResultsInv' /\ PublishedInv'
  BY DEF GInv, ResultsInv, PublishedInv
<1> QED
  BY <1>1, <1>2, <1>3 DEF GInv

LEMMA CommitHolds ==
  ASSUME TypeOK, GInv, Commit
  PROVE  TypeOK' /\ GInv'
<1> DEFINE batch == [stateRoot |-> stateRoot, epoch |-> epoch,
                     points |-> points, accounts |-> accounts]
<1>1. published' = published \cup {batch}
  BY DEF Commit
<1>2. batch \in Batches
  BY DEF TypeOK, Batches
<1>3. TypeOK'
  BY <1>1, <1>2, ZeroIsAWord
     DEF Commit, NothingCollected, input, TypeOK, NoRequest, NoStorage, NoWords
<1>4. RunInv' /\ RequestInv' /\ WordsInv'
  BY DEF Commit, NothingCollected, RunInv, RequestInv, WordsInv
<1>5. ResultsInv'
  BY DEF Commit, NothingCollected, ResultsInv, BatchIsRead
<1>6. PublishedInv'
  BY <1>1 DEF GInv, ResultsInv, PublishedInv
<1> QED
  BY <1>3, <1>4, <1>5, <1>6 DEF GInv

LEMMA NextHolds ==
  ASSUME TypeOK, GInv, [Next]_vars
  PROVE  TypeOK' /\ GInv'
<1>1. ASSUME NEW root \in StateRoots, NEW e \in Epochs, ReadInput(root, e)
      PROVE  TypeOK' /\ GInv'
  BY <1>1, ReadInputHolds
<1>2. ASSUME NEW id \in ProtocolIds, NEW g \in Gauges, NEW c \in Addresses,
             NEW pf \in AccountProofs, BeginPoint(id, g, c, pf)
      PROVE  TypeOK' /\ GInv'
  BY <1>2, BeginPointHolds
<1>3. ASSUME NEW id \in ProtocolIds, NEW a \in Accounts, NEW g \in Gauges, NEW c \in Addresses,
             NEW pf \in AccountProofs, BeginAccount(id, a, g, c, pf)
      PROVE  TypeOK' /\ GInv'
  BY <1>3, BeginAccountHolds
<1>4. ASSUME NEW pf \in StorageProofs, ReadBias(pf) \/ ReadSlope(pf) \/ ReadEnd(pf)
      PROVE  TypeOK' /\ GInv'
  BY <1>4, ReadBiasHolds, ReadSlopeHolds, ReadEndHolds
<1>5. ASSUME NEW proof, ReadLastVote(proof)
      PROVE  TypeOK' /\ GInv'
  BY <1>5, ReadLastVoteHolds
<1>6. CASE EndPoints
  BY <1>6, EndPointsHolds
<1>7. CASE Commit
  BY <1>7, CommitHolds
<1>8. CASE UNCHANGED vars
  <2> USE <1>8 DEF vars, input, current, results
  <2>1. TypeOK'
    BY DEF TypeOK
  <2>2. RunInv' /\ RequestInv'
    BY DEF GInv, RunInv, RequestInv
  <2>3. WordsInv'
    BY DEF GInv, WordsInv, Protocol
  <2>4. ResultsInv' /\ PublishedInv'
    BY DEF GInv, ResultsInv, PublishedInv
  <2> QED
    BY <2>1, <2>2, <2>3, <2>4 DEF GInv
<1> QED
  BY <1>1, <1>2, <1>3, <1>4, <1>5, <1>6, <1>7, <1>8 DEF Next

LEMMA Invariance == Spec => [](TypeOK /\ GInv)
<1>1. TypeOK /\ GInv /\ [Next]_vars => (TypeOK /\ GInv)'
  BY NextHolds
<1> QED
  BY InitHolds, <1>1, PTL DEF Spec

\* Every run of the circuit keeps its variables and everything it ever published in their
\* types; in particular a committed number is always a 256-bit word, decoded votes included.
THEOREM GuestTypeCorrect == Spec => []TypeOK
  BY Invariance, PTL

----------------------------------------------------------------------------
(* The circuit implements Attestation *)

\* A point read at a canonical controller is what the contract's users see.
LEMMA ReadPointIsTrue ==
  ASSUME NEW root, NEW r \in PointResults, PointIsRead(root, r)
  PROVE  A!TruePoint(root, r.epoch, r)
<1> DEFINE p == TryFromU8(r.protocol_id)
<1>1. IsProtocolId(r.protocol_id) /\ r.gauge_controller \in DOMAIN StateTrie[root]
  BY DEF PointIsRead, Labelled
<1>2. ASSUME root \in ChainRoots, r.gauge_controller = Controller[p]
      PROVE  r.bias = Ledger[root][p].bias[<<r.gauge, r.epoch>>]
  <2>1. p \in Protocols
    BY <1>1, KnownProtocol
  <2>2. r.gauge \in Gauges /\ r.epoch \in Epochs
    BY DEF PointResults
  <2>3. r.bias = WordAt(StateTrie[root][Controller[p]], DerivePointSlot(p, r.gauge, r.epoch))
    BY <1>2 DEF PointIsRead, Read
  <2> QED
    BY <1>1, <1>2, <2>1, <2>2, <2>3, PointReadsTheLedger
<1> QED
  BY <1>1, <1>2 DEF A!TruePoint, A!Sourced, A!Authentic, A!LedgerOf, A!IsProtocolId,
     A!TryFromU8, A!Protocols, A!AsU8, IsProtocolId, TryFromU8, Protocols, AsU8

\* A vote read at a canonical controller is what the contract's users see, once decoded.
LEMMA ReadVoteIsTrue ==
  ASSUME NEW root, NEW r \in AccountResults, VoteIsRead(root, r)
  PROVE  A!TrueVote(root, r.epoch, r)
<1> DEFINE p == TryFromU8(r.protocol_id)
           v == Ledger[root][p].vote[<<r.account, r.gauge>>]
<1>1. IsProtocolId(r.protocol_id) /\ r.gauge_controller \in DOMAIN StateTrie[root]
  BY DEF VoteIsRead, Labelled
<1>2. ASSUME root \in ChainRoots, r.gauge_controller = Controller[p]
      PROVE  [slope |-> r.slope, end |-> r.end, last_vote |-> r.last_vote] = v
  <2> DEFINE s == StateTrie[root][Controller[p]]
             decoded == DecodeVote(p, WordAt(s, DeriveSlopeSlot(p, r.account, r.gauge)),
                                      WordAt(s, DeriveEndSlot(p, r.account, r.gauge)))
             last == IF HasLabel(p, "last_vote")
                     THEN WordAt(s, DeriveLastVoteSlot(p, r.account, r.gauge)) ELSE 0
  <2>1. p \in Protocols
    BY <1>1, KnownProtocol
  <2>2. r.account \in Accounts /\ r.gauge \in Gauges
    BY DEF AccountResults
  <2>3. /\ v = [slope |-> v.slope, end |-> v.end, last_vote |-> v.last_vote]
        /\ decoded.slope = v.slope /\ decoded.end = v.end /\ v.last_vote = last
    <3> HIDE DEF p
    <3> QED
      BY <1>1, <1>2, <2>1, <2>2, VoteReadsTheLedger
  <2>4. r.slope = decoded.slope /\ r.end = decoded.end /\ r.last_vote = last
    BY <1>2 DEF VoteIsRead, Read
  <2> HIDE DEF v, decoded, last
  <2> QED
    BY <2>3, <2>4
<1> QED
  BY <1>1, <1>2 DEF A!TrueVote, A!Sourced, A!Authentic, A!LedgerOf, A!IsProtocolId,
     A!TryFromU8, A!Protocols, A!AsU8, IsProtocolId, TryFromU8, Protocols, AsU8

\* The batches a run reads are the batches Attestation allows.
LEMMA ReadBatchIsTrue ==
  ASSUME NEW batch \in Batches,
         BatchIsRead(batch.stateRoot, batch.epoch, batch.points, batch.accounts)
  PROVE  A!TrueBatch(batch)
<1>1. ASSUME NEW i \in DOMAIN batch.points
      PROVE  A!TruePoint(batch.stateRoot, batch.epoch, batch.points[i])
  <2>1. batch.points[i] \in PointResults
    BY <1>1 DEF Batches
  <2>2. batch.points[i].epoch = batch.epoch /\ PointIsRead(batch.stateRoot, batch.points[i])
    BY <1>1 DEF BatchIsRead
  <2> QED
    BY <2>1, <2>2, ReadPointIsTrue
<1>2. ASSUME NEW i \in DOMAIN batch.accounts
      PROVE  A!TrueVote(batch.stateRoot, batch.epoch, batch.accounts[i])
  <2>1. batch.accounts[i] \in AccountResults
    BY <1>2 DEF Batches
  <2>2. batch.accounts[i].epoch = batch.epoch /\ VoteIsRead(batch.stateRoot, batch.accounts[i])
    BY <1>2 DEF BatchIsRead
  <2> QED
    BY <2>1, <2>2, ReadVoteIsTrue
<1> QED
  BY <1>1, <1>2 DEF A!TrueBatch

\* Only a commit publishes, and what it publishes was read as the labels say.
LEMMA StepRefines ==
  ASSUME TypeOK, GInv, [Next]_vars
  PROVE  [A!Next]_published
<1>1. CASE Commit
  <2> DEFINE batch == [stateRoot |-> stateRoot, epoch |-> epoch,
                       points |-> points, accounts |-> accounts]
  <2>1. batch \in Batches
    BY DEF TypeOK, Batches
  <2>2. BatchIsRead(batch.stateRoot, batch.epoch, batch.points, batch.accounts)
    BY DEF GInv, ResultsInv
  <2>3. published' = published \cup {batch}
    BY <1>1 DEF Commit
  <2> HIDE DEF batch
  <2>4. A!TrueBatch(batch)
    BY <2>1, <2>2, ReadBatchIsTrue
  <2> QED
    BY <2>3, <2>4 DEF A!Next, A!Publish
<1>2. CASE ~Commit
  <2>1. Panic \/ NextRequest => published' = published
    BY DEF Panic, NextRequest
  <2>2. ASSUME NEW labels, NEW pf, NEW first, BeginRequest(labels, pf, first)
        PROVE  published' = published
    BY <2>1, <2>2 DEF BeginRequest
  <2>3. ASSUME NEW pf, ReadBias(pf) \/ ReadSlope(pf) \/ ReadEnd(pf) \/ ReadLastVote(pf)
        PROVE  published' = published
    BY <2>1, <2>3 DEF ReadBias, ReadSlope, ReadEnd, ReadLastVote
  <2>4. ASSUME NEW id, NEW a, NEW g, NEW c, NEW pf,
               BeginPoint(id, g, c, pf) \/ BeginAccount(id, a, g, c, pf)
        PROVE  published' = published
    BY <2>2, <2>4 DEF BeginPoint, BeginAccount
  <2>5. ASSUME NEW root, NEW e, ReadInput(root, e)
        PROVE  published' = published
    BY <2>5 DEF ReadInput
  <2>6. EndPoints \/ UNCHANGED vars => published' = published
    BY DEF EndPoints, vars
  <2>7. published' = published
    BY <1>2, <2>3, <2>4, <2>5, <2>6 DEF Next
  <2> QED
    BY <2>7
<1> QED
  BY <1>1, <1>2

\* Whatever labels, Merkle proofs and batches a prover chooses, and however often it retries,
\* every batch the circuit commits is true of the state root it names: at a canonical
\* controller under a real block each number is the one the contract's users see.
THEOREM GuestImplementsAttestation == Spec => ImplementsAttestation
<1>1. Init => A!Init
  BY DEF Init, A!Init
<1>2. TypeOK /\ GInv /\ [Next]_vars => [A!Next]_published
  BY StepRefines
<1> QED
  BY <1>1, <1>2, Invariance, PTL DEF Spec, ImplementsAttestation, A!Spec

----------------------------------------------------------------------------
(* No two proofs disagree *)

\* The values of a result are a function of the root and the labels, so that two proofs of
\* the same labels under one root, forged or not, never attest different values.
THEOREM ProofsNeverDisagree == Spec => []OneTruthPerLabel
<1>1. TypeOK /\ GInv => OneTruthPerLabel
  <2> SUFFICES ASSUME TypeOK, GInv, NEW b1 \in published, NEW b2 \in published,
                      b1.stateRoot = b2.stateRoot
               PROVE  /\ \A i \in DOMAIN b1.points, j \in DOMAIN b2.points :
                           LET r1 == b1.points[i]
                               r2 == b2.points[j]
                           IN  [r1 EXCEPT !.bias = r2.bias] = r2 => r1 = r2
                      /\ \A i \in DOMAIN b1.accounts, j \in DOMAIN b2.accounts :
                           LET r1 == b1.accounts[i]
                               r2 == b2.accounts[j]
                           IN  [r1 EXCEPT !.slope = r2.slope, !.end = r2.end,
                                          !.last_vote = r2.last_vote] = r2 => r1 = r2
    BY DEF OneTruthPerLabel
  <2>1. b1 \in Batches /\ b2 \in Batches
    BY DEF TypeOK
  <2>2. /\ BatchIsRead(b1.stateRoot, b1.epoch, b1.points, b1.accounts)
        /\ BatchIsRead(b1.stateRoot, b2.epoch, b2.points, b2.accounts)
    BY DEF GInv, PublishedInv
  <2>3. ASSUME NEW i \in DOMAIN b1.points, NEW j \in DOMAIN b2.points,
               [b1.points[i] EXCEPT !.bias = b2.points[j].bias] = b2.points[j]
        PROVE  b1.points[i] = b2.points[j]
    <3> DEFINE r1 == b1.points[i]
               r2 == b2.points[j]
    <3>1. r1 \in PointResults /\ r2 \in PointResults
      BY <2>1, <2>3 DEF Batches
    <3>2. PointIsRead(b1.stateRoot, r1) /\ PointIsRead(b1.stateRoot, r2)
      BY <2>2, <2>3 DEF BatchIsRead
    <3>3. [r1 EXCEPT !.bias = r2.bias] = r2
      BY <2>3
    <3> HIDE DEF r1, r2
    <3>4. /\ r1.protocol_id = r2.protocol_id /\ r1.gauge = r2.gauge /\ r1.epoch = r2.epoch
          /\ r1.gauge_controller = r2.gauge_controller
      BY <3>1, <3>3 DEF PointResults
    <3>5. r1.bias = r2.bias
      BY <3>2, <3>4 DEF PointIsRead, Read
    <3>6. r1 = r2
      BY <3>1, <3>4, <3>5 DEF PointResults
    <3> QED
      BY <3>6 DEF r1, r2
  <2>4. ASSUME NEW i \in DOMAIN b1.accounts, NEW j \in DOMAIN b2.accounts,
               [b1.accounts[i] EXCEPT !.slope = b2.accounts[j].slope,
                                      !.end = b2.accounts[j].end,
                                      !.last_vote = b2.accounts[j].last_vote]
                 = b2.accounts[j]
        PROVE  b1.accounts[i] = b2.accounts[j]
    <3> DEFINE r1 == b1.accounts[i]
               r2 == b2.accounts[j]
    <3>1. r1 \in AccountResults /\ r2 \in AccountResults
      BY <2>1, <2>4 DEF Batches
    <3>2. VoteIsRead(b1.stateRoot, r1) /\ VoteIsRead(b1.stateRoot, r2)
      BY <2>2, <2>4 DEF BatchIsRead
    <3>3. [r1 EXCEPT !.slope = r2.slope, !.end = r2.end, !.last_vote = r2.last_vote] = r2
      BY <2>4
    <3> HIDE DEF r1, r2
    <3>4. /\ r1.protocol_id = r2.protocol_id /\ r1.account = r2.account
          /\ r1.gauge = r2.gauge /\ r1.epoch = r2.epoch
          /\ r1.gauge_controller = r2.gauge_controller
      BY <3>1, <3>3 DEF AccountResults
    <3>5. r1.slope = r2.slope /\ r1.end = r2.end /\ r1.last_vote = r2.last_vote
      BY <3>2, <3>4 DEF VoteIsRead, Read
    <3>6. r1 = r2
      BY <3>1, <3>4, <3>5 DEF AccountResults
    <3> QED
      BY <3>6 DEF r1, r2
  <2> QED
    BY <2>3, <2>4
<1> QED
  BY <1>1, Invariance, PTL

----------------------------------------------------------------------------
(* No slot serves two labels of a protocol *)

\* Equal terms were built alike.
LEMMA Terms ==
  /\ \A m, n : Word(m) = Word(n) => m = n
  /\ \A a, b, c, d : Keccak(a, b) = Keccak(c, d) => a = c /\ b = d
  /\ \A a, b : Rehash(a) = Rehash(b) => a = b
  /\ \A a, m, b, n : Plus(a, m) = Plus(b, n) => a = b /\ m = n
  /\ \A a, b, c : Keccak(a, b) # Rehash(c)
  /\ \A a, b, c, n : Keccak(a, b) # Plus(c, n)
  /\ \A a, b, n : Keccak(a, b) # Word(n)
  /\ \A a, b, n : Rehash(a) # Plus(b, n)
<1>1. "word" # "keccak" /\ "keccak" # "rehash" /\ "keccak" # "plus" /\ "rehash" # "plus"
  OBVIOUS
<1> QED
  BY <1>1 DEF Word, Keccak, Rehash, Plus

\* The words of a result, and the slot each is read from.
Fields(p) == {"bias", "slope", "end"} \cup (IF p = "Pendle" THEN {} ELSE {"last_vote"})
FieldSlot(p, field, a, g, e) ==
  CASE field = "bias"  -> DerivePointSlot(p, g, e)
    [] field = "slope" -> DeriveSlopeSlot(p, a, g)
    [] field = "end"   -> DeriveEndSlot(p, a, g)
    [] OTHER           -> DeriveLastVoteSlot(p, a, g)

\* The slots spelled out: the protocols differ in their bases and in what they hash.
LEMMA FieldSlots ==
  ASSUME NEW a, NEW g, NEW e
  PROVE  /\ FieldSlot("Curve", "bias", a, g, e) = Rehash(Keccak(Keccak(Word(12), g), Word(e)))
         /\ FieldSlot("Curve", "slope", a, g, e) = Rehash(Keccak(Keccak(Word(9), a), g))
         /\ FieldSlot("Curve", "end", a, g, e) = Plus(Rehash(Keccak(Keccak(Word(9), a), g)), 2)
         /\ FieldSlot("Curve", "last_vote", a, g, e) = Keccak(Keccak(Word(11), a), g)
         /\ \A p \in {"Balancer", "Frax", "Fxn"} :
              /\ FieldSlot(p, "bias", a, g, e) =
                   Keccak(Keccak(Word(BaseSlots[p].weight), g), Word(e))
              /\ FieldSlot(p, "slope", a, g, e) = Keccak(Keccak(Word(BaseSlots[p].user_slope), a), g)
              /\ FieldSlot(p, "end", a, g, e) =
                   Plus(Keccak(Keccak(Word(BaseSlots[p].user_slope), a), g), 2)
              /\ FieldSlot(p, "last_vote", a, g, e) =
                   Keccak(Keccak(Word(BaseSlots[p].last_vote), a), g)
         /\ FieldSlot("Yb", "bias", a, g, e) = Keccak(Word(1000000006), g)
         /\ FieldSlot("Yb", "slope", a, g, e) = Keccak(Keccak(Word(1000000003), a), g)
         /\ FieldSlot("Yb", "end", a, g, e) = Plus(Keccak(Keccak(Word(1000000003), a), g), 3)
         /\ FieldSlot("Yb", "last_vote", a, g, e) = Keccak(Keccak(Word(1000000005), a), g)
         /\ FieldSlot("Pendle", "bias", a, g, e) =
              Keccak(g, Plus(Keccak(Word(e), Word(161)), 1))
         /\ FieldSlot("Pendle", "slope", a, g, e) = Keccak(g, Plus(Keccak(a, Word(162)), 1))
         /\ FieldSlot("Pendle", "end", a, g, e) = Plus(Keccak(g, Plus(Keccak(a, Word(162)), 1)), 1)
  BY LabelsOfAProtocol DEF Protocols, FieldSlot, DerivePointSlot, DeriveSlopeSlot, DeriveEndSlot,
     DeriveLastVoteSlot, AccountSlot, UserVoteSlot, LabelOffset, GaugeTimeSlot,
     GaugeTimeSlotDefault, GaugeTimeSlotPreVyper03, GaugeTimeSlotYb, GaugeTimeSlotPendle,
     UserSlopeSlot, UserGaugeSlotDefault, UserGaugeSlotPreVyper03, UserGaugeSlotPendle, BaseSlots

\* A slot determines the field, the gauge, the account of a vote and, but for Yb, the week of
\* a point.
LEMMA SlotsAreInjective ==
  ASSUME NEW p \in Protocols, NEW f1 \in Fields(p), NEW f2 \in Fields(p),
         NEW a1, NEW a2, NEW g1, NEW g2, NEW e1, NEW e2,
         FieldSlot(p, f1, a1, g1, e1) = FieldSlot(p, f2, a2, g2, e2)
  PROVE  /\ f1 = f2 /\ g1 = g2
         /\ f1 # "bias" => a1 = a2
         /\ f1 = "bias" /\ p # "Yb" => e1 = e2
<1>1. CASE p = "Curve"
  BY <1>1, FieldSlots, Terms DEF Fields
<1>2. CASE p \in {"Balancer", "Frax", "Fxn"}
  BY <1>2, FieldSlots, Terms DEF Fields, BaseSlots
<1>3. CASE p = "Yb"
  BY <1>3, FieldSlots, Terms DEF Fields
<1>4. CASE p = "Pendle"
  BY <1>4, FieldSlots, Terms DEF Fields
<1> QED
  BY <1>1, <1>2, <1>3, <1>4 DEF Protocols

\* What a published batch was allowed to read, in terms of FieldSlot.
LEMMA ReadsAreFields ==
  ASSUME TypeOK, GInv, NEW x \in AllReads
  PROVE  LET p == TryFromU8(x.protocol_id)
         IN  /\ p \in Protocols /\ AsU8[p] = x.protocol_id
             /\ x.field \in Fields(p)
             /\ x.slot = FieldSlot(p, x.field, x.account, x.gauge, x.epoch)
             /\ x.field = "bias" => x.account = NoAccount
<1> DEFINE p == TryFromU8(x.protocol_id)
<1>1. PICK b \in published : x \in Reads(b)
  BY DEF AllReads
<1>2. BatchIsRead(b.stateRoot, b.epoch, b.points, b.accounts)
  BY <1>1 DEF GInv, PublishedInv
<1>3. CASE \E i \in DOMAIN b.points : x = PointRead(b, b.points[i])
  <2>1. PICK i \in DOMAIN b.points : x = PointRead(b, b.points[i])
    BY <1>3
  <2>2. IsProtocolId(b.points[i].protocol_id)
    BY <1>2, <2>1 DEF BatchIsRead, PointIsRead, Labelled
  <2>3. x.protocol_id = b.points[i].protocol_id
    BY <2>1 DEF PointRead
  <2>4. p \in Protocols /\ AsU8[p] = x.protocol_id
    BY <2>2, <2>3, KnownProtocol
  <2> QED
    BY <2>1, <2>4 DEF PointRead, Fields, FieldSlot
<1>4. ASSUME NEW i \in DOMAIN b.accounts,
             LET r == b.accounts[i]
                 q == TryFromU8(r.protocol_id)
             IN  \/ x = AccountRead(b, r, "slope", DeriveSlopeSlot(q, r.account, r.gauge))
                 \/ x = AccountRead(b, r, "end", DeriveEndSlot(q, r.account, r.gauge))
                 \/ /\ HasLabel(q, "last_vote")
                    /\ x = AccountRead(b, r, "last_vote",
                                       DeriveLastVoteSlot(q, r.account, r.gauge))
      PROVE  /\ p \in Protocols /\ AsU8[p] = x.protocol_id
             /\ x.field \in Fields(p)
             /\ x.slot = FieldSlot(p, x.field, x.account, x.gauge, x.epoch)
             /\ x.field = "bias" => x.account = NoAccount
  <2> DEFINE r == b.accounts[i]
  <2>1. IsProtocolId(r.protocol_id)
    BY <1>2, <1>4 DEF BatchIsRead, VoteIsRead, Labelled
  <2>2. x.protocol_id = r.protocol_id
    BY <1>4 DEF AccountRead
  <2>3. p \in Protocols /\ AsU8[p] = x.protocol_id
    BY <2>1, <2>2, KnownProtocol
  <2>4. HasLabel(p, "last_vote") <=> p # "Pendle"
    BY <2>3, LabelsOfAProtocol
  <2>5. CASE x = AccountRead(b, r, "slope", DeriveSlopeSlot(p, r.account, r.gauge))
    BY <2>3, <2>5 DEF AccountRead, Fields, FieldSlot
  <2>6. CASE x = AccountRead(b, r, "end", DeriveEndSlot(p, r.account, r.gauge))
    BY <2>3, <2>6 DEF AccountRead, Fields, FieldSlot
  <2>7. CASE /\ HasLabel(p, "last_vote")
             /\ x = AccountRead(b, r, "last_vote", DeriveLastVoteSlot(p, r.account, r.gauge))
    BY <2>3, <2>4, <2>7 DEF AccountRead, Fields, FieldSlot
  <2> QED
    BY <1>4, <2>2, <2>5, <2>6, <2>7
<1>5. \/ \E i \in DOMAIN b.points : x = PointRead(b, b.points[i])
      \/ \E i \in DOMAIN b.accounts :
           LET r == b.accounts[i]
               q == TryFromU8(r.protocol_id)
           IN  \/ x = AccountRead(b, r, "slope", DeriveSlopeSlot(q, r.account, r.gauge))
               \/ x = AccountRead(b, r, "end", DeriveEndSlot(q, r.account, r.gauge))
               \/ /\ HasLabel(q, "last_vote")
                  /\ x = AccountRead(b, r, "last_vote",
                                     DeriveLastVoteSlot(q, r.account, r.gauge))
  BY <1>1 DEF Reads
<1> QED
  BY <1>3, <1>4, <1>5

\* A word proven at a storage slot is never committed under other labels of its protocol: for
\* no other gauge, account or field, and for a point of no other week but for Yb.
THEOREM RelabellingIsCaught == Spec => []RelabelMovesNoValue
<1>1. TypeOK /\ GInv => RelabelMovesNoValue
  <2> SUFFICES ASSUME TypeOK, GInv, NEW x \in AllReads, NEW y \in AllReads,
                      x.protocol_id = y.protocol_id, x.slot = y.slot
               PROVE  /\ <<x.field, x.account, x.gauge>> = <<y.field, y.account, y.gauge>>
                      /\ x.field = "bias" /\ x.protocol_id # AsU8["Yb"] => x.epoch = y.epoch
    BY DEF RelabelMovesNoValue
  <2> DEFINE p == TryFromU8(x.protocol_id)
  <2>1. /\ p \in Protocols /\ AsU8[p] = x.protocol_id
        /\ x.field \in Fields(p)
        /\ x.slot = FieldSlot(p, x.field, x.account, x.gauge, x.epoch)
        /\ x.field = "bias" => x.account = NoAccount
    BY ReadsAreFields
  <2>2. /\ y.field \in Fields(p)
        /\ y.slot = FieldSlot(p, y.field, y.account, y.gauge, y.epoch)
        /\ y.field = "bias" => y.account = NoAccount
    BY ReadsAreFields
  <2>3. /\ x.field = y.field /\ x.gauge = y.gauge
        /\ x.field # "bias" => x.account = y.account
        /\ x.field = "bias" /\ p # "Yb" => x.epoch = y.epoch
    <3>1. FieldSlot(p, x.field, x.account, x.gauge, x.epoch) =
            FieldSlot(p, y.field, y.account, y.gauge, y.epoch)
      BY <2>1, <2>2
    <3> HIDE DEF p
    <3> QED
      BY <2>1, <2>2, <3>1, SlotsAreInjective
  <2> QED
    BY <2>1, <2>2, <2>3
<1> QED
  BY <1>1, Invariance, PTL

----------------------------------------------------------------------------
(* The circuit, step by step, is Verification, which the host's model takes it for *)

\* The requests and inputs a prover can give the circuit.
PointRequests ==
  [protocol_id : ProtocolIds, gauge : Gauges, gauge_controller : Addresses,
   account_proof : AccountProofs, bias_proof : StorageProofs]
VoteRequests ==
  [protocol_id : ProtocolIds, account : Accounts, gauge : Gauges, gauge_controller : Addresses,
   account_proof : AccountProofs, slope_proof : StorageProofs, end_proof : StorageProofs,
   last_vote_proof : {{}} \cup {{pf} : pf \in StorageProofs}]
Inputs ==
  [stateRoot : StateRoots, epoch : Epochs, points : Seq(PointRequests),
   accounts : Seq(VoteRequests)]

\* Nothing is published but the public values of an input that is accepted as a whole.
OnlyAcceptedIsPublished ==
  \A b \in published : \E in \in Inputs : Accepted(in) /\ b = PublicValues(in)

PointOffered(root, e, r) ==
  \E q \in PointRequests : PointAccepted(root, e, q) /\ r = PointResult(root, e, q)
VoteOffered(root, e, r) ==
  \E q \in VoteRequests : VoteAccepted(root, q) /\ r = AccountResult(root, e, q)
BatchIsOffered(root, e, ps, as) ==
  /\ \A i \in DOMAIN ps : PointOffered(root, e, ps[i])
  /\ \A i \in DOMAIN as : VoteOffered(root, e, as[i])

SlotProven(slot) == \E pf \in StorageProofs : StorageProven(storage, slot, pf)

\* A request that has come so far has shown the proofs that it takes to come so far.
ProofsInv ==
  /\ proving # "none" => \E pf \in AccountProofs :
                           AccountProven(stateRoot, request.gauge_controller, pf)
  /\ proving \in {"end", "last_vote"} =>
       SlotProven(DeriveSlopeSlot(Protocol, request.account, request.gauge))
  /\ proving = "last_vote" =>
       SlotProven(DeriveEndSlot(Protocol, request.account, request.gauge))

OfferInv ==
  /\ ProofsInv
  /\ BatchIsOffered(stateRoot, epoch, points, accounts)
  /\ \A b \in published : BatchIsOffered(b.stateRoot, b.epoch, b.points, b.accounts)

LEMMA PanicOffers ==
  ASSUME OfferInv, Panic
  PROVE  OfferInv'
<1>1. ProofsInv'
  BY DEF Panic, ProofsInv
<1>2. BatchIsOffered(stateRoot', epoch', points', accounts')
  BY DEF Panic, NothingCollected, BatchIsOffered
<1> QED
  BY <1>1, <1>2 DEF OfferInv, Panic

LEMMA BeginOffers ==
  ASSUME OfferInv, NEW labels, NEW pf \in AccountProofs, NEW first \in {"bias", "slope"},
         BeginRequest(labels, pf, first)
  PROVE  OfferInv'
<1>1. CASE Panic
  BY <1>1, PanicOffers
<1>2. CASE ~Panic
  <2>1. /\ AccountProven(stateRoot, labels.gauge_controller, pf)
        /\ request' = labels /\ proving' = first
        /\ UNCHANGED <<stateRoot, epoch, points, accounts, published>>
    BY <1>2 DEF BeginRequest, input, results
  <2>2. ProofsInv'
    BY <2>1 DEF ProofsInv
  <2> QED
    BY <2>1, <2>2 DEF OfferInv
<1> QED
  BY <1>1, <1>2

LEMMA ReadBiasOffers ==
  ASSUME TypeOK, GInv, OfferInv, NEW pf \in StorageProofs, ReadBias(pf)
  PROVE  OfferInv'
<1> DEFINE slot == DerivePointSlot(Protocol, request.gauge, epoch)
           r == [protocol_id |-> request.protocol_id, gauge |-> request.gauge, epoch |-> epoch,
                 gauge_controller |-> request.gauge_controller, bias |-> WordAt(storage, slot)]
<1>1. CASE Panic
  BY <1>1, PanicOffers
<1>2. CASE ~Panic
  <2>1. /\ proving = "bias" /\ StorageProven(storage, slot, pf)
        /\ points' = Append(points, r) /\ accounts' = accounts /\ NextRequest
    BY <1>2 DEF ReadBias
  <2>2. /\ request \in Requests /\ IsProtocolId(request.protocol_id)
        /\ storage = AccountAt(stateRoot, request.gauge_controller)
    BY <2>1 DEF GInv, RequestInv, Labelled, AccountAt
  <2>3. PICK acc \in AccountProofs : AccountProven(stateRoot, request.gauge_controller, acc)
    BY <2>1 DEF OfferInv, ProofsInv
  <2> DEFINE q == [protocol_id |-> request.protocol_id, gauge |-> request.gauge,
                   gauge_controller |-> request.gauge_controller,
                   account_proof |-> acc, bias_proof |-> pf]
  <2>4. q \in PointRequests
    BY <2>2 DEF PointRequests, Requests
  <2>5. PointAccepted(stateRoot, epoch, q) /\ r = PointResult(stateRoot, epoch, q)
    BY <2>1, <2>2, <2>3 DEF PointAccepted, PointResult, Protocol
  <2>6. PointOffered(stateRoot, epoch, r)
    BY <2>4, <2>5 DEF PointOffered
  <2> HIDE DEF r, q
  <2>7. ASSUME NEW i \in DOMAIN points' PROVE PointOffered(stateRoot, epoch, points'[i])
    <3>1. points'[i] = r \/ (i \in DOMAIN points /\ points'[i] = points[i])
      BY <2>1 DEF TypeOK
    <3> QED
      BY <2>6, <3>1 DEF OfferInv, BatchIsOffered
  <2>8. UNCHANGED <<stateRoot, epoch, published>> /\ proving' = "none"
    BY <2>1 DEF NextRequest, input
  <2>9. BatchIsOffered(stateRoot', epoch', points', accounts')
    BY <2>1, <2>7, <2>8 DEF OfferInv, BatchIsOffered
  <2>10. ProofsInv'
    BY <2>8 DEF ProofsInv
  <2> QED
    BY <2>8, <2>9, <2>10 DEF OfferInv
<1> QED
  BY <1>1, <1>2

LEMMA ReadSlopeOffers ==
  ASSUME OfferInv, NEW pf \in StorageProofs, ReadSlope(pf)
  PROVE  OfferInv'
<1> DEFINE slot == DeriveSlopeSlot(Protocol, request.account, request.gauge)
<1>1. CASE Panic
  BY <1>1, PanicOffers
<1>2. CASE ~Panic
  <2>1. /\ proving = "slope" /\ StorageProven(storage, slot, pf) /\ proving' = "end"
        /\ UNCHANGED <<stateRoot, epoch, request, storage, points, accounts, published>>
    BY <1>2 DEF ReadSlope, input, results
  <2>2. ProofsInv'
    BY <2>1 DEF OfferInv, ProofsInv, SlotProven, Protocol
  <2> QED
    BY <2>1, <2>2 DEF OfferInv
<1> QED
  BY <1>1, <1>2

LEMMA ReadEndOffers ==
  ASSUME OfferInv, NEW pf \in StorageProofs, ReadEnd(pf)
  PROVE  OfferInv'
<1> DEFINE slot == DeriveEndSlot(Protocol, request.account, request.gauge)
<1>1. CASE Panic
  BY <1>1, PanicOffers
<1>2. CASE ~Panic
  <2>1. /\ proving = "end" /\ StorageProven(storage, slot, pf) /\ proving' = "last_vote"
        /\ UNCHANGED <<stateRoot, epoch, request, storage, points, accounts, published>>
    BY <1>2 DEF ReadEnd, input, results
  <2>2. ProofsInv'
    BY <2>1 DEF OfferInv, ProofsInv, SlotProven, Protocol
  <2> QED
    BY <2>1, <2>2 DEF OfferInv
<1> QED
  BY <1>1, <1>2

LEMMA ReadLastVoteOffers ==
  ASSUME TypeOK, GInv, OfferInv,
         NEW proof \in {{}} \cup {{pf} : pf \in StorageProofs}, ReadLastVote(proof)
  PROVE  OfferInv'
<1> DEFINE vote == DecodeVote(Protocol, words.slope, words.end)
           last == LastVote(Protocol, storage, request.account, request.gauge, proof)
           slope == DeriveSlopeSlot(Protocol, request.account, request.gauge)
           end == DeriveEndSlot(Protocol, request.account, request.gauge)
           r == [protocol_id |-> request.protocol_id, account |-> request.account,
                 gauge |-> request.gauge, epoch |-> epoch,
                 gauge_controller |-> request.gauge_controller,
                 slope |-> vote.slope, end |-> vote.end, last_vote |-> last]
<1>1. CASE Panic
  BY <1>1, PanicOffers
<1>2. CASE ~Panic
  <2>1. /\ proving = "last_vote" /\ LastVoteProven(Protocol, storage, request.account, request.gauge, proof)
        /\ accounts' = Append(accounts, r) /\ points' = points /\ NextRequest
    BY <1>2 DEF ReadLastVote
  <2>2. /\ request \in Requests /\ IsProtocolId(request.protocol_id)
        /\ storage = AccountAt(stateRoot, request.gauge_controller)
        /\ request.account \in Accounts
        /\ words.slope = WordAt(storage, slope) /\ words.end = WordAt(storage, end)
    BY <2>1 DEF GInv, RequestInv, WordsInv, Labelled, AccountAt
  <2>3. PICK acc \in AccountProofs : AccountProven(stateRoot, request.gauge_controller, acc)
    BY <2>1 DEF OfferInv, ProofsInv
  <2>4. PICK first \in StorageProofs, second \in StorageProofs :
          StorageProven(storage, slope, first) /\ StorageProven(storage, end, second)
    BY <2>1 DEF OfferInv, ProofsInv, SlotProven
  <2> DEFINE q == [protocol_id |-> request.protocol_id, account |-> request.account,
                   gauge |-> request.gauge, gauge_controller |-> request.gauge_controller,
                   account_proof |-> acc, slope_proof |-> first, end_proof |-> second,
                   last_vote_proof |-> proof]
  <2>5. q \in VoteRequests
    BY <2>2 DEF VoteRequests, Requests
  <2>6. VoteAccepted(stateRoot, q)
    BY <2>1, <2>2, <2>3, <2>4 DEF VoteAccepted, Protocol
  <2>7. r = AccountResult(stateRoot, epoch, q)
    BY <2>2 DEF AccountResult, Protocol
  <2>8. VoteOffered(stateRoot, epoch, r)
    BY <2>5, <2>6, <2>7 DEF VoteOffered
  <2> HIDE DEF r, q
  <2>9. ASSUME NEW i \in DOMAIN accounts' PROVE VoteOffered(stateRoot, epoch, accounts'[i])
    <3>1. accounts'[i] = r \/ (i \in DOMAIN accounts /\ accounts'[i] = accounts[i])
      BY <2>1 DEF TypeOK
    <3> QED
      BY <2>8, <3>1 DEF OfferInv, BatchIsOffered
  <2>10. UNCHANGED <<stateRoot, epoch, published>> /\ proving' = "none"
    BY <2>1 DEF NextRequest, input
  <2>11. BatchIsOffered(stateRoot', epoch', points', accounts')
    BY <2>1, <2>9, <2>10 DEF OfferInv, BatchIsOffered
  <2>12. ProofsInv'
    BY <2>10 DEF ProofsInv
  <2> QED
    BY <2>10, <2>11, <2>12 DEF OfferInv
<1> QED
  BY <1>1, <1>2

LEMMA CommitOffers ==
  ASSUME OfferInv, Commit
  PROVE  OfferInv'
<1> DEFINE batch == [stateRoot |-> stateRoot, epoch |-> epoch,
                     points |-> points, accounts |-> accounts]
<1>1. published' = published \cup {batch} /\ proving' = "none" /\ points' = <<>> /\ accounts' = <<>>
  BY DEF Commit, NothingCollected
<1>2. ProofsInv' /\ BatchIsOffered(stateRoot', epoch', points', accounts')
  BY <1>1 DEF ProofsInv, BatchIsOffered
<1>3. BatchIsOffered(batch.stateRoot, batch.epoch, batch.points, batch.accounts)
  BY DEF OfferInv
<1> QED
  BY <1>1, <1>2, <1>3 DEF OfferInv

LEMMA NextOffers ==
  ASSUME TypeOK, GInv, OfferInv, [Next]_vars
  PROVE  OfferInv'
<1>1. ASSUME NEW root \in StateRoots, NEW e \in Epochs, ReadInput(root, e) PROVE OfferInv'
  <2>1. proving' = "none" /\ points' = <<>> /\ accounts' = <<>> /\ published' = published
    BY <1>1 DEF ReadInput, results, GInv, RunInv
  <2> QED
    BY <2>1 DEF OfferInv, ProofsInv, BatchIsOffered
<1>2. ASSUME NEW id \in ProtocolIds, NEW g \in Gauges, NEW c \in Addresses,
             NEW pf \in AccountProofs, BeginPoint(id, g, c, pf)
      PROVE  OfferInv'
  BY <1>2, BeginOffers DEF BeginPoint
<1>3. ASSUME NEW id \in ProtocolIds, NEW a \in Accounts, NEW g \in Gauges, NEW c \in Addresses,
             NEW pf \in AccountProofs, BeginAccount(id, a, g, c, pf)
      PROVE  OfferInv'
  BY <1>3, BeginOffers DEF BeginAccount
<1>4. ASSUME NEW pf \in StorageProofs, ReadBias(pf) \/ ReadSlope(pf) \/ ReadEnd(pf)
      PROVE  OfferInv'
  BY <1>4, ReadBiasOffers, ReadSlopeOffers, ReadEndOffers
<1>5. ASSUME NEW proof \in {{}} \cup {{pf} : pf \in StorageProofs}, ReadLastVote(proof)
      PROVE  OfferInv'
  BY <1>5, ReadLastVoteOffers
<1>6. CASE EndPoints
  BY <1>6 DEF EndPoints, input, current, results, OfferInv, ProofsInv
<1>7. CASE Commit
  BY <1>7, CommitOffers
<1>8. CASE UNCHANGED vars
  BY <1>8 DEF vars, input, current, results, OfferInv, ProofsInv, SlotProven, Protocol
<1> QED
  BY <1>1, <1>2, <1>3, <1>4, <1>5, <1>6, <1>7, <1>8 DEF Next

\* Request by request is as good as an input as a whole.
LEMMA OfferedIsAccepted ==
  ASSUME NEW b \in Batches, BatchIsOffered(b.stateRoot, b.epoch, b.points, b.accounts)
  PROVE  \E in \in Inputs : Accepted(in) /\ b = PublicValues(in)
<1> DEFINE root == b.stateRoot
           e == b.epoch
           ps == [i \in DOMAIN b.points |->
                    CHOOSE q \in PointRequests :
                      PointAccepted(root, e, q) /\ b.points[i] = PointResult(root, e, q)]
           vs == [i \in DOMAIN b.accounts |->
                    CHOOSE q \in VoteRequests :
                      VoteAccepted(root, q) /\ b.accounts[i] = AccountResult(root, e, q)]
           in == [stateRoot |-> root, epoch |-> e, points |-> ps, accounts |-> vs]
<1>1. /\ root \in StateRoots /\ e \in Epochs
      /\ b.points \in Seq(PointResults) /\ b.accounts \in Seq(AccountResults)
      /\ b = [stateRoot |-> root, epoch |-> e, points |-> b.points, accounts |-> b.accounts]
  BY DEF Batches
<1>2. ASSUME NEW i \in DOMAIN b.points
      PROVE  /\ ps[i] \in PointRequests /\ PointAccepted(root, e, ps[i])
             /\ b.points[i] = PointResult(root, e, ps[i])
  BY DEF BatchIsOffered, PointOffered
<1>3. ASSUME NEW i \in DOMAIN b.accounts
      PROVE  /\ vs[i] \in VoteRequests /\ VoteAccepted(root, vs[i])
             /\ b.accounts[i] = AccountResult(root, e, vs[i])
  BY DEF BatchIsOffered, VoteOffered
<1>4. /\ DOMAIN ps = 1 .. Len(b.points) /\ ps = [i \in DOMAIN ps |-> ps[i]]
      /\ DOMAIN vs = 1 .. Len(b.accounts) /\ vs = [i \in DOMAIN vs |-> vs[i]]
  BY <1>1
<1> HIDE DEF ps, vs
<1>5. ps \in Seq(PointRequests) /\ vs \in Seq(VoteRequests)
  <2>1. ASSUME NEW S, NEW s, NEW n \in Nat, s = [i \in 1 .. n |-> s[i]], \A i \in 1 .. n : s[i] \in S
        PROVE  s \in Seq(S)
    BY <2>1
  <2>2. Len(b.points) \in Nat /\ Len(b.accounts) \in Nat
    BY <1>1
  <2>3. /\ \A i \in 1 .. Len(b.points) : ps[i] \in PointRequests
        /\ \A i \in 1 .. Len(b.accounts) : vs[i] \in VoteRequests
    BY <1>1, <1>2, <1>3
  <2> QED
    BY <1>4, <2>1, <2>2, <2>3
<1>6. in \in Inputs
  BY <1>1, <1>5 DEF Inputs
<1>7. Accepted(in)
  BY <1>2, <1>3, <1>4 DEF Accepted
<1>8. b.points = [i \in DOMAIN ps |-> PointResult(root, e, ps[i])]
  BY <1>1, <1>2, <1>4
<1>9. b.accounts = [i \in DOMAIN vs |-> AccountResult(root, e, vs[i])]
  <2>1. /\ DOMAIN b.accounts = DOMAIN vs /\ b.accounts = [i \in DOMAIN b.accounts |-> b.accounts[i]]
    BY <1>1, <1>4
  <2>2. \A i \in DOMAIN b.accounts : b.accounts[i] = AccountResult(root, e, vs[i])
    BY <1>3
  <2> QED
    BY <2>1, <2>2
<1>10. b = PublicValues(in)
  BY <1>1, <1>8, <1>9 DEF PublicValues
<1> QED
  BY <1>6, <1>7, <1>10

\* The circuit works through its input one request and one word at a time; what it commits at the
\* end is what Verification, by which the host judges its input, says of the input as a whole.
THEOREM CircuitIsVerification == Spec => []OnlyAcceptedIsPublished
<1>1. Init => OfferInv
  BY DEF Init, OfferInv, ProofsInv, BatchIsOffered
<1>2. TypeOK /\ GInv /\ OfferInv /\ [Next]_vars => OfferInv'
  BY NextOffers
<1>3. TypeOK /\ OfferInv => OnlyAcceptedIsPublished
  BY OfferedIsAccepted DEF TypeOK, OfferInv, OnlyAcceptedIsPublished
<1> QED
  BY <1>1, <1>2, <1>3, Invariance, PTL DEF Spec

\* A run on a given input: what the circuit looks at next is what the input has there.
NextOn(in) ==
  \/ ReadInput(in.stateRoot, in.epoch)
  \/ \E q \in {in.points[i] : i \in DOMAIN in.points \cap {Len(points) + 1}} :
       \/ BeginPoint(q.protocol_id, q.gauge, q.gauge_controller, q.account_proof)
       \/ ReadBias(q.bias_proof)
  \/ Len(points) = Len(in.points) /\ EndPoints
  \/ \E q \in {in.accounts[i] : i \in DOMAIN in.accounts \cap {Len(accounts) + 1}} :
       \/ BeginAccount(q.protocol_id, q.account, q.gauge, q.gauge_controller, q.account_proof)
       \/ ReadSlope(q.slope_proof) \/ ReadEnd(q.end_proof) \/ ReadLastVote(q.last_vote_proof)
  \/ Len(accounts) = Len(in.accounts) /\ Commit

\* The labels of the request in progress are those of the next one of the input.
AtPoint(in) ==
  LET n == Len(points) + 1 IN
  /\ proving \in {"none", "bias"}
  /\ proving # "none" => /\ n \in DOMAIN in.points
                         /\ request = [protocol_id |-> in.points[n].protocol_id, account |-> NoAccount,
                                       gauge |-> in.points[n].gauge,
                                       gauge_controller |-> in.points[n].gauge_controller]
AtAccount(in) ==
  LET n == Len(accounts) + 1 IN
  /\ proving \in {"none", "slope", "end", "last_vote"}
  /\ proving # "none" => /\ n \in DOMAIN in.accounts
                         /\ request = [protocol_id |-> in.accounts[n].protocol_id,
                                       account |-> in.accounts[n].account,
                                       gauge |-> in.accounts[n].gauge,
                                       gauge_controller |-> in.accounts[n].gauge_controller]

\* The results are those of the requests so far.
HeadOf(in) ==
  /\ \A i \in DOMAIN points :
       i \in DOMAIN in.points /\ points[i] = PointResult(in.stateRoot, in.epoch, in.points[i])
  /\ \A i \in DOMAIN accounts :
       i \in DOMAIN in.accounts /\ accounts[i] = AccountResult(in.stateRoot, in.epoch, in.accounts[i])

RunsOn(in) ==
  /\ phase \in {"idle", "points", "accounts"}
  /\ phase # "idle" => stateRoot = in.stateRoot /\ epoch = in.epoch
  /\ phase = "points" => AtPoint(in) /\ accounts = <<>>
  /\ phase = "accounts" => AtAccount(in) /\ Len(points) = Len(in.points)
  /\ HeadOf(in)
  /\ published \subseteq {PublicValues(in)}

LEMMA RunStepIsAStep ==
  ASSUME NEW in \in Inputs, NextOn(in)
  PROVE  Next
<1>1. in.stateRoot \in StateRoots /\ in.epoch \in Epochs
  BY DEF Inputs
<1>2. ASSUME NEW i \in DOMAIN in.points PROVE in.points[i] \in PointRequests
  <2>1. in.points \in Seq(PointRequests)
    BY DEF Inputs
  <2> QED
    BY <2>1
<1>3. ASSUME NEW i \in DOMAIN in.accounts PROVE in.accounts[i] \in VoteRequests
  <2>1. in.accounts \in Seq(VoteRequests)
    BY DEF Inputs
  <2> QED
    BY <2>1
<1>4. ASSUME NEW q \in PointRequests,
             \/ BeginPoint(q.protocol_id, q.gauge, q.gauge_controller, q.account_proof)
             \/ ReadBias(q.bias_proof)
      PROVE  Next
  <2>1. /\ q.protocol_id \in ProtocolIds /\ q.gauge \in Gauges /\ q.gauge_controller \in Addresses
        /\ q.account_proof \in AccountProofs /\ q.bias_proof \in StorageProofs
    BY DEF PointRequests
  <2> QED
    BY <1>4, <2>1, Zenon DEF Next
<1>5. ASSUME NEW q \in VoteRequests,
             \/ BeginAccount(q.protocol_id, q.account, q.gauge, q.gauge_controller, q.account_proof)
             \/ ReadSlope(q.slope_proof) \/ ReadEnd(q.end_proof) \/ ReadLastVote(q.last_vote_proof)
      PROVE  Next
  <2>1. /\ q.protocol_id \in ProtocolIds /\ q.account \in Accounts /\ q.gauge \in Gauges
        /\ q.gauge_controller \in Addresses /\ q.account_proof \in AccountProofs
        /\ q.slope_proof \in StorageProofs /\ q.end_proof \in StorageProofs
        /\ q.last_vote_proof \in {{}} \cup {{pf} : pf \in StorageProofs}
    BY DEF VoteRequests
  <2> QED
    BY <1>5, <2>1, Zenon DEF Next
<1> QED
  BY <1>1, <1>2, <1>3, <1>4, <1>5, Zenon DEF NextOn, Next

LEMMA BeginPointRunsOn ==
  ASSUME NEW in, RunsOn(in), Len(points) + 1 \in DOMAIN in.points, NEW q, q = in.points[Len(points) + 1],
         PointAccepted(in.stateRoot, in.epoch, q),
         BeginPoint(q.protocol_id, q.gauge, q.gauge_controller, q.account_proof)
  PROVE  RunsOn(in)'
<1>1. phase = "points" /\ stateRoot = in.stateRoot
  BY DEF BeginPoint, RunsOn
<1>2. IsProtocolId(q.protocol_id) /\ AccountProven(stateRoot, q.gauge_controller, q.account_proof)
  BY <1>1 DEF PointAccepted
<1>3. /\ request' = [protocol_id |-> q.protocol_id, account |-> NoAccount, gauge |-> q.gauge,
                     gauge_controller |-> q.gauge_controller]
      /\ proving' = "bias" /\ UNCHANGED <<phase, stateRoot, epoch, points, accounts, published>>
  BY <1>2 DEF BeginPoint, BeginRequest, input, results
<1>4. AtPoint(in)'
  BY <1>3 DEF AtPoint
<1>5. HeadOf(in)'
  BY <1>3 DEF RunsOn, HeadOf
<1> QED
  BY <1>1, <1>3, <1>4, <1>5 DEF RunsOn

LEMMA ReadBiasRunsOn ==
  ASSUME TypeOK, GInv, NEW in, RunsOn(in), Len(points) + 1 \in DOMAIN in.points,
         NEW q, q = in.points[Len(points) + 1],
         PointAccepted(in.stateRoot, in.epoch, q), ReadBias(q.bias_proof)
  PROVE  RunsOn(in)'
<1> DEFINE slot == DerivePointSlot(Protocol, request.gauge, epoch)
           r == [protocol_id |-> request.protocol_id, gauge |-> request.gauge, epoch |-> epoch,
                 gauge_controller |-> request.gauge_controller, bias |-> WordAt(storage, slot)]
<1>1. proving = "bias" /\ phase \in {"points", "accounts"}
  BY DEF ReadBias, RunsOn, GInv, RunInv
<1>2. phase = "points"
  BY <1>1 DEF RunsOn, AtAccount
<1>3. /\ stateRoot = in.stateRoot /\ epoch = in.epoch /\ accounts = <<>>
      /\ request.protocol_id = q.protocol_id /\ request.gauge = q.gauge
      /\ request.gauge_controller = q.gauge_controller
      /\ storage = AccountAt(stateRoot, request.gauge_controller)
  BY <1>1, <1>2 DEF RunsOn, AtPoint, GInv, RequestInv, AccountAt
<1>4. StorageProven(storage, slot, q.bias_proof)
  BY <1>3 DEF PointAccepted, Protocol
<1>5. points' = Append(points, r) /\ accounts' = accounts /\ NextRequest
  BY <1>4 DEF ReadBias
<1>6. r = PointResult(in.stateRoot, in.epoch, q)
  BY <1>3 DEF PointResult, Protocol
<1> HIDE DEF r
<1>7. ASSUME NEW i \in DOMAIN points'
      PROVE  i \in DOMAIN in.points /\ points'[i] = PointResult(in.stateRoot, in.epoch, in.points[i])
  <2>1. (i = Len(points) + 1 /\ points'[i] = r) \/ (i \in DOMAIN points /\ points'[i] = points[i])
    BY <1>5 DEF TypeOK
  <2> QED
    BY <1>6, <2>1 DEF RunsOn, HeadOf
<1>8. UNCHANGED <<phase, stateRoot, epoch, published>> /\ proving' = "none"
  BY <1>5 DEF NextRequest, input
<1>9. HeadOf(in)' /\ AtPoint(in)'
  BY <1>5, <1>7, <1>8 DEF RunsOn, HeadOf, AtPoint
<1> QED
  BY <1>2, <1>3, <1>5, <1>8, <1>9 DEF RunsOn

LEMMA BeginAccountRunsOn ==
  ASSUME NEW in, RunsOn(in), Len(accounts) + 1 \in DOMAIN in.accounts,
         NEW q, q = in.accounts[Len(accounts) + 1], VoteAccepted(in.stateRoot, q),
         BeginAccount(q.protocol_id, q.account, q.gauge, q.gauge_controller, q.account_proof)
  PROVE  RunsOn(in)'
<1>1. phase = "accounts" /\ stateRoot = in.stateRoot
  BY DEF BeginAccount, RunsOn
<1>2. IsProtocolId(q.protocol_id) /\ AccountProven(stateRoot, q.gauge_controller, q.account_proof)
  BY <1>1 DEF VoteAccepted
<1>3. /\ request' = [protocol_id |-> q.protocol_id, account |-> q.account, gauge |-> q.gauge,
                     gauge_controller |-> q.gauge_controller]
      /\ proving' = "slope" /\ UNCHANGED <<phase, stateRoot, epoch, points, accounts, published>>
  BY <1>2 DEF BeginAccount, BeginRequest, input, results
<1>4. AtAccount(in)'
  BY <1>3 DEF AtAccount
<1>5. HeadOf(in)'
  BY <1>3 DEF RunsOn, HeadOf
<1> QED
  BY <1>1, <1>3, <1>4, <1>5 DEF RunsOn

\* A vote in progress is the next one of the input.
LEMMA VoteInProgress ==
  ASSUME GInv, NEW in, RunsOn(in), proving \in {"slope", "end", "last_vote"},
         NEW q, q = in.accounts[Len(accounts) + 1]
  PROVE  /\ phase = "accounts" /\ stateRoot = in.stateRoot /\ epoch = in.epoch
         /\ request.protocol_id = q.protocol_id /\ request.account = q.account
         /\ request.gauge = q.gauge /\ request.gauge_controller = q.gauge_controller
         /\ storage = AccountAt(stateRoot, request.gauge_controller)
<1>1. phase = "accounts"
  BY DEF RunsOn, AtPoint, GInv, RunInv
<1> QED
  BY <1>1 DEF RunsOn, AtAccount, GInv, RequestInv, AccountAt

LEMMA ReadWordRunsOn ==
  ASSUME GInv, NEW in, RunsOn(in), Len(accounts) + 1 \in DOMAIN in.accounts,
         NEW q, q = in.accounts[Len(accounts) + 1], VoteAccepted(in.stateRoot, q),
         ReadSlope(q.slope_proof) \/ ReadEnd(q.end_proof)
  PROVE  RunsOn(in)'
<1>1. proving \in {"slope", "end"}
  BY DEF ReadSlope, ReadEnd
<1>2. /\ phase = "accounts" /\ stateRoot = in.stateRoot
      /\ request.protocol_id = q.protocol_id /\ request.account = q.account
      /\ request.gauge = q.gauge /\ request.gauge_controller = q.gauge_controller
      /\ storage = AccountAt(stateRoot, request.gauge_controller)
  BY <1>1, VoteInProgress
<1>3. /\ StorageProven(storage, DeriveSlopeSlot(Protocol, request.account, request.gauge), q.slope_proof)
      /\ StorageProven(storage, DeriveEndSlot(Protocol, request.account, request.gauge), q.end_proof)
  BY <1>2 DEF VoteAccepted, Protocol
<1>4. /\ proving' \in {"end", "last_vote"}
      /\ UNCHANGED <<phase, stateRoot, epoch, request, points, accounts, published>>
  BY <1>3 DEF ReadSlope, ReadEnd, input, results
<1>5. AtAccount(in)' /\ HeadOf(in)'
  BY <1>1, <1>2, <1>4 DEF RunsOn, AtAccount, HeadOf
<1> QED
  BY <1>2, <1>4, <1>5 DEF RunsOn

LEMMA ReadLastVoteRunsOn ==
  ASSUME TypeOK, GInv, NEW in, RunsOn(in), Len(accounts) + 1 \in DOMAIN in.accounts,
         NEW q, q = in.accounts[Len(accounts) + 1], VoteAccepted(in.stateRoot, q),
         ReadLastVote(q.last_vote_proof)
  PROVE  RunsOn(in)'
<1> DEFINE vote == DecodeVote(Protocol, words.slope, words.end)
           last == LastVote(Protocol, storage, request.account, request.gauge, q.last_vote_proof)
           r == [protocol_id |-> request.protocol_id, account |-> request.account,
                 gauge |-> request.gauge, epoch |-> epoch,
                 gauge_controller |-> request.gauge_controller,
                 slope |-> vote.slope, end |-> vote.end, last_vote |-> last]
<1>1. proving = "last_vote"
  BY DEF ReadLastVote
<1>2. /\ phase = "accounts" /\ stateRoot = in.stateRoot /\ epoch = in.epoch
      /\ request.protocol_id = q.protocol_id /\ request.account = q.account
      /\ request.gauge = q.gauge /\ request.gauge_controller = q.gauge_controller
      /\ storage = AccountAt(stateRoot, request.gauge_controller)
  BY <1>1, VoteInProgress
<1>3. LastVoteProven(Protocol, storage, request.account, request.gauge, q.last_vote_proof)
  BY <1>2 DEF VoteAccepted, Protocol
<1>4. accounts' = Append(accounts, r) /\ points' = points /\ NextRequest
  BY <1>3 DEF ReadLastVote
<1>5. r = AccountResult(in.stateRoot, in.epoch, q)
  <2>1. /\ words.slope = WordAt(storage, DeriveSlopeSlot(Protocol, request.account, request.gauge))
        /\ words.end = WordAt(storage, DeriveEndSlot(Protocol, request.account, request.gauge))
    BY <1>1 DEF GInv, WordsInv
  <2> QED
    BY <1>2, <2>1 DEF AccountResult, Protocol
<1> HIDE DEF r
<1>6. ASSUME NEW i \in DOMAIN accounts'
      PROVE  /\ i \in DOMAIN in.accounts
             /\ accounts'[i] = AccountResult(in.stateRoot, in.epoch, in.accounts[i])
  <2>1. (i = Len(accounts) + 1 /\ accounts'[i] = r) \/ (i \in DOMAIN accounts /\ accounts'[i] = accounts[i])
    BY <1>4 DEF TypeOK
  <2> QED
    BY <1>5, <2>1 DEF RunsOn, HeadOf
<1>7. UNCHANGED <<phase, stateRoot, epoch, published>> /\ proving' = "none"
  BY <1>4 DEF NextRequest, input
<1>8. HeadOf(in)' /\ AtAccount(in)'
  BY <1>4, <1>6, <1>7 DEF RunsOn, HeadOf, AtAccount
<1> QED
  BY <1>2, <1>4, <1>7, <1>8 DEF RunsOn

LEMMA CommitRunsOn ==
  ASSUME TypeOK, GInv, NEW in \in Inputs, RunsOn(in), Len(accounts) = Len(in.accounts), Commit
  PROVE  RunsOn(in)'
<1>1. /\ phase = "accounts" /\ stateRoot = in.stateRoot /\ epoch = in.epoch
      /\ Len(points) = Len(in.points)
      /\ published' = published \cup {[stateRoot |-> in.stateRoot, epoch |-> in.epoch,
                                       points |-> points, accounts |-> accounts]}
      /\ phase' = "idle" /\ points' = <<>> /\ accounts' = <<>>
  BY DEF Commit, RunsOn, NothingCollected
<1>2. /\ in.points \in Seq(PointRequests) /\ in.accounts \in Seq(VoteRequests)
      /\ points \in Seq(PointResults) /\ accounts \in Seq(AccountResults)
  BY DEF Inputs, TypeOK
<1>3. DOMAIN points = DOMAIN in.points /\ DOMAIN accounts = DOMAIN in.accounts
  BY <1>1, <1>2
<1>4. points = [i \in DOMAIN in.points |-> PointResult(in.stateRoot, in.epoch, in.points[i])]
  BY <1>2, <1>3 DEF RunsOn, HeadOf
<1>5. accounts = [i \in DOMAIN in.accounts |-> AccountResult(in.stateRoot, in.epoch, in.accounts[i])]
  BY <1>2, <1>3 DEF RunsOn, HeadOf
<1>6. published' \subseteq {PublicValues(in)}
  BY <1>1, <1>4, <1>5 DEF RunsOn, PublicValues
<1>7. HeadOf(in)'
  BY <1>1 DEF HeadOf
<1> QED
  BY <1>1, <1>6, <1>7 DEF RunsOn

LEMMA NextRunsOn ==
  ASSUME TypeOK, GInv, NEW in \in Inputs, Accepted(in), RunsOn(in), [NextOn(in)]_vars
  PROVE  RunsOn(in)'
<1>1. CASE ReadInput(in.stateRoot, in.epoch)
  <2>1. /\ phase' = "points" /\ stateRoot' = in.stateRoot /\ epoch' = in.epoch
        /\ proving' = "none" /\ points' = <<>> /\ accounts' = <<>> /\ published' = published
    BY <1>1 DEF ReadInput, results, GInv, RunInv
  <2> QED
    BY <2>1 DEF RunsOn, AtPoint, HeadOf
<1>2. ASSUME NEW q \in {in.points[i] : i \in DOMAIN in.points \cap {Len(points) + 1}},
             \/ BeginPoint(q.protocol_id, q.gauge, q.gauge_controller, q.account_proof)
             \/ ReadBias(q.bias_proof)
      PROVE  RunsOn(in)'
  <2>1. Len(points) + 1 \in DOMAIN in.points /\ q = in.points[Len(points) + 1]
    OBVIOUS
  <2>2. PointAccepted(in.stateRoot, in.epoch, q)
    BY <2>1 DEF Accepted
  <2> QED
    BY <1>2, <2>1, <2>2, BeginPointRunsOn, ReadBiasRunsOn
<1>3. ASSUME Len(points) = Len(in.points), EndPoints PROVE RunsOn(in)'
  <2>1. /\ phase = "points" /\ phase' = "accounts" /\ proving' = "none"
        /\ UNCHANGED <<stateRoot, epoch, points, accounts, published>>
    BY <1>3 DEF EndPoints, input, results
  <2> QED
    BY <1>3, <2>1 DEF RunsOn, AtAccount, HeadOf
<1>4. ASSUME NEW q \in {in.accounts[i] : i \in DOMAIN in.accounts \cap {Len(accounts) + 1}},
             \/ BeginAccount(q.protocol_id, q.account, q.gauge, q.gauge_controller, q.account_proof)
             \/ ReadSlope(q.slope_proof) \/ ReadEnd(q.end_proof) \/ ReadLastVote(q.last_vote_proof)
      PROVE  RunsOn(in)'
  <2>1. Len(accounts) + 1 \in DOMAIN in.accounts /\ q = in.accounts[Len(accounts) + 1]
    OBVIOUS
  <2>2. VoteAccepted(in.stateRoot, q)
    BY <2>1 DEF Accepted
  <2> QED
    BY <1>4, <2>1, <2>2, BeginAccountRunsOn, ReadWordRunsOn, ReadLastVoteRunsOn
<1>5. ASSUME Len(accounts) = Len(in.accounts), Commit PROVE RunsOn(in)'
  BY <1>5, CommitRunsOn
<1>6. CASE UNCHANGED vars
  BY <1>6 DEF vars, input, current, results, RunsOn, AtPoint, AtAccount, HeadOf
<1> QED
  BY <1>1, <1>2, <1>3, <1>4, <1>5, <1>6, Zenon DEF NextOn

\* On an input that Verification accepts the circuit never panics, and it commits the public values
\* that Verification says and no others; this is what the host's model takes for the circuit, and
\* what HandedIsWorthProving means by an input that is worth proving.
THEOREM AcceptedInputRuns ==
  ASSUME NEW in \in Inputs, Accepted(in)
  PROVE  Init /\ [][NextOn(in)]_vars => [](phase # "panicked" /\ published \subseteq {PublicValues(in)})
<1>1. Init => RunsOn(in)
  BY DEF Init, RunsOn, HeadOf
<1>2. [NextOn(in)]_vars => [Next]_vars
  BY RunStepIsAStep
<1>3. TypeOK /\ GInv /\ RunsOn(in) /\ [NextOn(in)]_vars => RunsOn(in)'
  BY NextRunsOn
<1>4. RunsOn(in) => phase # "panicked" /\ published \subseteq {PublicValues(in)}
  BY DEF RunsOn
<1> QED
  BY <1>1, <1>2, <1>3, <1>4, Invariance, PTL DEF Spec
=============================================================================
