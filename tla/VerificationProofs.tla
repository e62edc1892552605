------------------------- MODULE VerificationProofs -------------------------
(***************************************************************************)
(* What is proved of Verification, for every chain: the slots the code     *)
(* derives are those of the contracts (PointSlotIsTheField and its         *)
(* siblings), decoding inverts their packing, and so what the circuit      *)
(* reads of a canonical controller at a real block is what the contract's  *)
(* users see.  GuestProofs and HostPipelineProofs both rest on it.         *)
(***************************************************************************)
EXTENDS Verification, TLAPS

----------------------------------------------------------------------------
(* Arithmetic of packed words *)

LEMMA DivMod ==
  ASSUME NEW h \in Nat \ {0}, NEW q \in Nat, NEW r \in Nat, r < h
  PROVE  (q * h + r) \div h = q /\ (q * h + r) % h = r
  BY SMTT(30)

LEMMA DivExact ==
  ASSUME NEW h \in Nat \ {0}, NEW q \in Nat
  PROVE  (h * q) \div h = q
  BY SMTT(30)

LEMMA DivBounds ==
  ASSUME NEW h \in Nat \ {0}, NEW n \in Nat
  PROVE  n \div h \in 0..n /\ n % h \in 0..n
  BY SMTT(30)

\* A word holds two half words, so it holds zero.
LEMMA ZeroIsAWord == 0 \in Words
  BY ChainAssumption, SMTT(30) DEF ChainAssumption, Words

LEMMA WordsAreNaturals ==
  ASSUME NEW w \in Words
  PROVE  w \in Nat /\ \A n \in 0..w : n \in Words
  BY ChainAssumption DEF ChainAssumption, Words

\* Decoding keeps to words.
LEMMA DecodedAreWords ==
  ASSUME NEW p, NEW s \in Words, NEW e \in Words
  PROVE  /\ DecodeVote(p, s, e).slope \in Words
         /\ DecodeVote(p, s, e).end \in Words
<1>1. CASE p # "Pendle"
  BY <1>1 DEF DecodeVote
<1>2. CASE p = "Pendle"
  <2> DEFINE slope == e \div HalfWord
             bias == e % HalfWord
  <2>1. HalfWord \in Nat \ {0}
    BY ChainAssumption DEF ChainAssumption
  <2>2. e \in Nat /\ slope \in 0..e /\ bias \in 0..e
    BY <2>1, WordsAreNaturals, DivBounds
  <2>3. slope \in Words /\ bias \in Words
    BY <2>2, WordsAreNaturals
  <2>4. slope # 0 => bias \div slope \in Words
    <3> SUFFICES ASSUME slope # 0 PROVE bias \div slope \in Words
      OBVIOUS
    <3>1. slope \in Nat \ {0} /\ bias \in Nat
      BY <2>2
    <3>2. bias \div slope \in 0..bias
      BY <3>1, DivBounds
    <3> QED
      BY <2>3, <3>2, WordsAreNaturals
  <2>5. DecodeVote(p, s, e) =
          [slope |-> slope, end |-> IF slope = 0 THEN 0 ELSE bias \div slope]
    BY <1>2 DEF DecodeVote, DecodePendleVote
  <2> QED
    BY <2>3, <2>4, <2>5, ZeroIsAWord
<1> QED
  BY <1>1, <1>2

\* decode_pendle_vote inverts the contract's packing of a vote.
LEMMA DecodeInvertsPacking ==
  ASSUME NEW vote, IsVote("Pendle", vote)
  PROVE  DecodePendleVote(PackVeBalance(vote)) = [slope |-> vote.slope, end |-> vote.end]
<1> DEFINE r == vote.slope * vote.end
<1>1. /\ vote.slope \in Nat /\ vote.end \in Nat /\ (vote.slope = 0 => vote.end = 0)
      /\ HalfWord \in Nat \ {0} /\ r < HalfWord
  BY ChainAssumption DEF ChainAssumption, IsVote
<1>2. r \in Nat
  BY <1>1, SMTT(30)
<1>3. /\ PackVeBalance(vote) \div HalfWord = vote.slope
      /\ PackVeBalance(vote) % HalfWord = r
  <2> HIDE DEF r
  <2>1. PackVeBalance(vote) = vote.slope * HalfWord + r
    BY DEF PackVeBalance, r
  <2> QED
    BY <1>1, <1>2, <2>1, DivMod
<1>4. vote.slope # 0 => r \div vote.slope = vote.end
  <2> SUFFICES ASSUME vote.slope # 0 PROVE r \div vote.slope = vote.end
    OBVIOUS
  <2>1. vote.slope \in Nat \ {0}
    BY <1>1
  <2> QED
    BY <1>1, <2>1, DivExact
<1> HIDE DEF r
<1>5. DecodePendleVote(PackVeBalance(vote)) =
        [slope |-> vote.slope, end |-> IF vote.slope = 0 THEN 0 ELSE r \div vote.slope]
  BY <1>3 DEF DecodePendleVote
<1> QED
  BY <1>1, <1>4, <1>5

----------------------------------------------------------------------------
(* The slots are the contract's *)

LEMMA PointSlotIsTheField ==
  ASSUME NEW p \in Protocols, NEW g, NEW e
  PROVE  DerivePointSlot(p, g, e) = PointField(p, g, e)
  BY DEF Protocols, DerivePointSlot, PointField, BaseSlots, GaugeTimeSlot,
         GaugeTimeSlotPreVyper03, GaugeTimeSlotYb, GaugeTimeSlotPendle, GaugeTimeSlotDefault,
         MappingOfStructs, Mapping, Member

LEMMA LastVoteSlotIsTheField ==
  ASSUME NEW p \in Protocols \ {"Pendle"}, NEW a, NEW g
  PROVE  DeriveLastVoteSlot(p, a, g) = LastVoteField(p, a, g)
  BY DEF Protocols, DeriveLastVoteSlot, AccountSlot, UserVoteSlot, LastVoteField, BaseSlots,
         UserGaugeSlotDefault, Mapping

\* Only Pendle keeps no last vote, and only there the second word is labelled user_bias.
LEMMA LabelsOfAProtocol ==
  ASSUME NEW p \in Protocols
  PROVE  /\ HasLabel(p, "last_vote") <=> p # "Pendle"
         /\ EndLabel(p) = IF p = "Pendle" THEN "user_bias" ELSE "user_end"
  BY DEF Protocols, HasLabel, EndLabel, UserVoteLabels

LEMMA MemberSlots ==
  ASSUME NEW s
  PROVE  /\ \A p \in Protocols \ {"Pendle"} : MemberSlot(p, s, "slope") = s
         /\ \A p \in Protocols \ {"Pendle", "Yb"} : MemberSlot(p, s, "end") = Plus(s, 2)
         /\ MemberSlot("Yb", s, "end") = Plus(s, 3)
         /\ MemberSlot("Pendle", s, "vote") = Plus(s, 1)
  BY DEF MemberSlot, Member, VoteStruct, Protocols

LEMMA SlopeSlotIsTheStruct ==
  ASSUME NEW p \in Protocols, NEW a, NEW g
  PROVE  UserSlopeSlot(p, a, g, BaseSlots[p].user_slope) = VoteField(p, a, g)
  BY DEF Protocols, UserSlopeSlot, VoteField, BaseSlots, UserGaugeSlotDefault,
         UserGaugeSlotPreVyper03, UserGaugeSlotPendle, MappingOfStructs, Mapping, Member

LEMMA VoteSlotsAreTheFields ==
  ASSUME NEW p \in Protocols, NEW a, NEW g
  PROVE  /\ p # "Pendle" =>
              /\ DeriveSlopeSlot(p, a, g) = MemberSlot(p, VoteField(p, a, g), "slope")
              /\ DeriveEndSlot(p, a, g) = MemberSlot(p, VoteField(p, a, g), "end")
         /\ p = "Pendle" =>
              DeriveEndSlot(p, a, g) = MemberSlot(p, VoteField(p, a, g), "vote")
<1>1. DeriveSlopeSlot(p, a, g) = VoteField(p, a, g)
  BY SlopeSlotIsTheStruct DEF DeriveSlopeSlot, AccountSlot, UserVoteSlot
<1>2. DeriveEndSlot(p, a, g) = Plus(VoteField(p, a, g), LabelOffset(p, EndLabel(p)))
  BY SlopeSlotIsTheStruct, LabelsOfAProtocol DEF DeriveEndSlot, AccountSlot, UserVoteSlot
<1> QED
  BY <1>1, <1>2, LabelsOfAProtocol, MemberSlots DEF LabelOffset

----------------------------------------------------------------------------
(* What a verified proof yields *)

\* Everything a verified storage proof yields is a word.
LEMMA ProvenIsAWord ==
  ASSUME NEW root \in StorageRoots, NEW slot, NEW pf, StorageProven(root, slot, pf)
  PROVE  WordAt(root, slot) \in Words
  BY ChainAssumption, ZeroIsAWord DEF ChainAssumption, StorageProven, WordAt

\* An account a verified proof yields has a storage.
LEMMA ProvenHasStorage ==
  ASSUME NEW root \in StateRoots, NEW a, NEW pf, AccountProven(root, a, pf)
  PROVE  a \in DOMAIN StateTrie[root] /\ StateTrie[root][a] \in StorageRoots
  BY ChainAssumption DEF ChainAssumption, AccountProven

LEMMA KnownProtocol ==
  ASSUME NEW id, IsProtocolId(id)
  PROVE  TryFromU8(id) \in Protocols /\ AsU8[TryFromU8(id)] = id
  BY DEF IsProtocolId, TryFromU8

LEMMA IdOfAProtocol ==
  ASSUME NEW p \in Protocols
  PROVE  IsProtocolId(AsU8[p]) /\ TryFromU8(AsU8[p]) = p
<1>1. \A q \in Protocols : AsU8[q] = AsU8[p] => q = p
  BY DEF Protocols, AsU8
<1> QED
  BY <1>1 DEF IsProtocolId, TryFromU8

----------------------------------------------------------------------------
(* A canonical controller at a real block *)

LEMMA PointReadsTheLedger ==
  ASSUME NEW p \in Protocols, NEW root \in ChainRoots, Controller[p] \in DOMAIN StateTrie[root],
         NEW g \in Gauges, NEW e \in Epochs
  PROVE  WordAt(StateTrie[root][Controller[p]], DerivePointSlot(p, g, e)) =
           Ledger[root][p].bias[<<g, e>>]
<1>1. StorageHolds(p, StateTrie[root][Controller[p]], Ledger[root][p])
  BY LedgerAssumption DEF LedgerAssumption
<1> QED
  BY <1>1, PointSlotIsTheField DEF StorageHolds

LEMMA VoteReadsTheLedger ==
  ASSUME NEW p \in Protocols, NEW root \in ChainRoots, Controller[p] \in DOMAIN StateTrie[root],
         NEW a \in Accounts, NEW g \in Gauges
  PROVE  LET s == StateTrie[root][Controller[p]]
             v == Ledger[root][p].vote[<<a, g>>]
             decoded == DecodeVote(p, WordAt(s, DeriveSlopeSlot(p, a, g)),
                                      WordAt(s, DeriveEndSlot(p, a, g)))
         IN  /\ v = [slope |-> v.slope, end |-> v.end, last_vote |-> v.last_vote]
             /\ decoded.slope = v.slope /\ decoded.end = v.end
             /\ v.last_vote = IF HasLabel(p, "last_vote")
                              THEN WordAt(s, DeriveLastVoteSlot(p, a, g)) ELSE 0
<1> DEFINE s == StateTrie[root][Controller[p]]
           v == Ledger[root][p].vote[<<a, g>>]
<1>1. StorageHolds(p, s, Ledger[root][p])
  BY LedgerAssumption DEF LedgerAssumption
<1>2. IsVote(p, v)
  BY <1>1 DEF StorageHolds
<1>3. v = [slope |-> v.slope, end |-> v.end, last_vote |-> v.last_vote]
  <2> HIDE DEF v
  <2> QED
    BY <1>2 DEF IsVote
<1>4. CASE p = "Pendle"
  <2>1. WordAt(s, DeriveEndSlot(p, a, g)) = PackVeBalance(v)
    BY <1>1, <1>4, VoteSlotsAreTheFields DEF StorageHolds
  <2>2. DecodePendleVote(PackVeBalance(v)) = [slope |-> v.slope, end |-> v.end]
    BY <1>2, <1>4, DecodeInvertsPacking
  <2>3. v.last_vote = 0 /\ ~HasLabel(p, "last_vote")
    BY <1>2, <1>4, LabelsOfAProtocol DEF IsVote
  <2> QED
    BY <1>3, <1>4, <2>1, <2>2, <2>3 DEF DecodeVote
<1>5. CASE p # "Pendle"
  <2>1. /\ WordAt(s, DeriveSlopeSlot(p, a, g)) = v.slope
        /\ WordAt(s, DeriveEndSlot(p, a, g)) = v.end
    BY <1>1, <1>5, VoteSlotsAreTheFields DEF StorageHolds
  <2>2. WordAt(s, DeriveLastVoteSlot(p, a, g)) = v.last_vote
    BY <1>1, <1>5, LastVoteSlotIsTheField DEF StorageHolds
  <2> QED
    BY <1>3, <1>5, <2>1, <2>2, LabelsOfAProtocol DEF DecodeVote
<1> QED
  BY <1>4, <1>5

\* What the circuit commits for an accepted request under a protocol's own controller.
LEMMA PointCommitsTheLedger ==
  ASSUME NEW p \in Protocols, NEW root \in ChainRoots, NEW e \in Epochs, NEW r,
         r.protocol_id = AsU8[p], r.gauge \in Gauges, r.gauge_controller = Controller[p],
         PointAccepted(root, e, r)
  PROVE  PointResult(root, e, r) =
           [protocol_id |-> AsU8[p], gauge |-> r.gauge, epoch |-> e,
            gauge_controller |-> Controller[p],
            bias |-> Ledger[root][p].bias[<<r.gauge, e>>]]
<1>1. TryFromU8(r.protocol_id) = p
  BY IdOfAProtocol
<1>2. Controller[p] \in DOMAIN StateTrie[root]
  BY DEF PointAccepted, AccountProven
<1>3. WordAt(StateTrie[root][Controller[p]], DerivePointSlot(p, r.gauge, e)) =
        Ledger[root][p].bias[<<r.gauge, e>>]
  BY <1>2, PointReadsTheLedger
<1> QED
  BY <1>1, <1>3 DEF PointResult, AccountAt

LEMMA VoteCommitsTheLedger ==
  ASSUME NEW p \in Protocols, NEW root \in ChainRoots, NEW e, NEW r,
         r.protocol_id = AsU8[p], r.account \in Accounts, r.gauge \in Gauges,
         r.gauge_controller = Controller[p], VoteAccepted(root, r)
  PROVE  LET v == Ledger[root][p].vote[<<r.account, r.gauge>>] IN
         AccountResult(root, e, r) =
           [protocol_id |-> AsU8[p], account |-> r.account, gauge |-> r.gauge, epoch |-> e,
            gauge_controller |-> Controller[p], slope |-> v.slope, end |-> v.end,
            last_vote |-> v.last_vote]
<1> DEFINE s == StateTrie[root][Controller[p]]
           v == Ledger[root][p].vote[<<r.account, r.gauge>>]
           decoded == DecodeVote(p, WordAt(s, DeriveSlopeSlot(p, r.account, r.gauge)),
                                    WordAt(s, DeriveEndSlot(p, r.account, r.gauge)))
<1>1. TryFromU8(r.protocol_id) = p
  BY IdOfAProtocol
<1>2. Controller[p] \in DOMAIN StateTrie[root]
  BY DEF VoteAccepted, AccountProven
<1>3. /\ decoded.slope = v.slope /\ decoded.end = v.end
      /\ v.last_vote = IF HasLabel(p, "last_vote")
                       THEN WordAt(s, DeriveLastVoteSlot(p, r.account, r.gauge)) ELSE 0
  BY <1>2, VoteReadsTheLedger
<1>4. LastVote(p, s, r.account, r.gauge, r.last_vote_proof) = v.last_vote
  <2>1. LastVoteProven(p, s, r.account, r.gauge, r.last_vote_proof)
    BY <1>1 DEF VoteAccepted, AccountAt
  <2>2. r.last_vote_proof = {} <=> ~HasLabel(p, "last_vote")
    BY <2>1 DEF LastVoteProven
  <2> QED
    BY <1>3, <2>2 DEF LastVote
<1>5. AccountResult(root, e, r) =
        [protocol_id |-> AsU8[p], account |-> r.account, gauge |-> r.gauge, epoch |-> e,
         gauge_controller |-> Controller[p], slope |-> decoded.slope, end |-> decoded.end,
         last_vote |-> LastVote(p, s, r.account, r.gauge, r.last_vote_proof)]
  BY <1>1 DEF AccountResult, AccountAt
<1> HIDE DEF decoded, s, v
<1>6. AccountResult(root, e, r) =
        [protocol_id |-> AsU8[p], account |-> r.account, gauge |-> r.gauge, epoch |-> e,
         gauge_controller |-> Controller[p], slope |-> v.slope, end |-> v.end,
         last_vote |-> v.last_vote]
  BY <1>3, <1>4, <1>5
<1> QED
  BY <1>6 DEF v
=============================================================================
