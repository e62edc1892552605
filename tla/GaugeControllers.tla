-------------------------- MODULE GaugeControllers --------------------------
(***************************************************************************)
(* The gauge controllers and the chain state they live in.  The contracts  *)
(* are not part of the repository; what is here is how its code relies on  *)
(* them: where each field of a vote is stored, as the contract's compiler  *)
(* lays it out, and which value of it a consumer means.                    *)
(*                                                                         *)
(* A root names a Merkle-Patricia trie.  Hashing is taken to be collision  *)
(* free, so a root determines its trie: StateTrie[root] maps an address to *)
(* the storage root of its account, StorageTrie[root] maps a slot to its   *)
(* word, and what is not in the trie is not in the function's domain.      *)
(***************************************************************************)
EXTENDS Protocols

CONSTANTS
  Gauges, Accounts, Epochs,
  Addresses,     \* every account a host may name as a gauge controller
  Controller,    \* the canonical gauge controller of each protocol
  StateRoots,    \* the roots a host may present, forged tries included
  ChainRoots,    \* those that are state roots of real blocks
  StateTrie,
  StorageTrie,
  Ledger,        \* Ledger[root][p]: what the users of p's controller see at that block
  HalfWord,      \* 2^128 on the EVM: a word holds two of them
  Garbage        \* trie content that is not the RLP of an account or of a number

Words == 0 .. HalfWord * HalfWord - 1
StorageRoots == DOMAIN StorageTrie

ASSUME ChainAssumption ==
  /\ HalfWord \in Nat \ {0}
  /\ Garbage \notin Words
  /\ Garbage \notin StorageRoots
  /\ Controller \in [Protocols -> Addresses]
  /\ ChainRoots \subseteq StateRoots
  /\ DOMAIN StateTrie = StateRoots
  /\ \A root \in StateRoots : \A a \in DOMAIN StateTrie[root] :
       StateTrie[root][a] \in StorageRoots \cup {Garbage}
  /\ \A root \in StorageRoots : \A slot \in DOMAIN StorageTrie[root] :
       StorageTrie[root][slot] \in Words \cup {Garbage}

\* The word behind a slot: a slot that was never written reads zero.
WordAt(storageRoot, slot) ==
  IF slot \in DOMAIN StorageTrie[storageRoot] THEN StorageTrie[storageRoot][slot] ELSE 0

----------------------------------------------------------------------------
(* Where the contracts keep a field *)

\* The members of the struct behind vote_user_slopes[account][gauge].
VoteStruct(p) ==
  CASE p = "Yb"     -> <<"slope", "bias", "power", "end">>
    [] p = "Pendle" -> <<"weight", "vote">>
    [] OTHER        -> <<"slope", "power", "end">>

Member(slot, n) == IF n = 0 THEN slot ELSE Plus(slot, n)

MemberSlot(p, struct, member) ==
  Member(struct, (CHOOSE i \in DOMAIN VoteStruct(p) : VoteStruct(p)[i] = member) - 1)

\* A two-level mapping of a Vyper contract, and the extra hash that compilers before 0.3
\* put on a mapping's value when it is a struct (Curve).
Mapping(base, k1, k2) == Keccak(Keccak(Word(base), k1), k2)
MappingOfStructs(p, base, k1, k2) ==
  IF p = "Curve" THEN Rehash(Mapping(base, k1, k2)) ELSE Mapping(base, k1, k2)

\* points_weight[gauge][epoch].bias; Yb keeps one point per gauge, Pendle keeps poolVotes
\* in the second slot of weekData[epoch].
PointField(p, gauge, epoch) ==
  CASE p = "Pendle" -> Keccak(gauge, Member(Keccak(Word(epoch), Word(161)), 1))
    [] p = "Yb"     -> Keccak(Word(1000000006), gauge)
    [] OTHER -> MappingOfStructs(p, CASE p = "Curve"    -> 12
                                      [] p = "Balancer" -> 1000000008
                                      [] OTHER          -> 1000000011, gauge, Word(epoch))

\* The struct behind vote_user_slopes[account][gauge], for Pendle the UserPoolData of
\* voteForPools, which lies in the second slot of userData[account].
VoteField(p, account, gauge) ==
  CASE p = "Pendle" -> Keccak(gauge, Member(Keccak(account, Word(162)), 1))
    [] OTHER -> MappingOfStructs(p, CASE p = "Curve"    -> 9
                                      [] p = "Balancer" -> 1000000005
                                      [] p = "Yb"       -> 1000000003
                                      [] OTHER          -> 1000000008, account, gauge)

\* last_user_vote[account][gauge], a mapping to a number; Pendle has none.
LastVoteField(p, account, gauge) ==
  Mapping(CASE p = "Curve"    -> 11
            [] p = "Balancer" -> 1000000007
            [] p = "Yb"       -> 1000000005
            [] OTHER          -> 1000000010, account, gauge)

----------------------------------------------------------------------------
(* What the words mean *)

\* VeBalance { uint128 bias; uint128 slope; } of a vote: bias low, slope high.
\* convertToVeBalance derives the bias from the expiry: bias = slope * expiry.
PackVeBalance(vote) == vote.slope * HalfWord + vote.slope * vote.end

IsVote(p, vote) ==
  /\ vote \in [slope : Nat, end : Nat, last_vote : Nat]
  /\ p = "Pendle" => /\ vote.slope < HalfWord /\ vote.slope * vote.end < HalfWord
                     /\ vote.slope = 0 => vote.end = 0
                     /\ vote.last_vote = 0

\* The storage behind storageRoot holds what the ledger of p says.
StorageHolds(p, storageRoot, ledger) ==
  /\ \A g \in Gauges, e \in Epochs :
       WordAt(storageRoot, PointField(p, g, e)) = ledger.bias[<<g, e>>]
  /\ \A a \in Accounts, g \in Gauges :
       LET vote == ledger.vote[<<a, g>>]
           struct == VoteField(p, a, g)
       IN  /\ IsVote(p, vote)
           /\ IF p = "Pendle"
              THEN WordAt(storageRoot, MemberSlot(p, struct, "vote")) = PackVeBalance(vote)
              ELSE /\ WordAt(storageRoot, MemberSlot(p, struct, "slope")) = vote.slope
                   /\ WordAt(storageRoot, MemberSlot(p, struct, "end")) = vote.end
                   /\ WordAt(storageRoot, LastVoteField(p, a, g)) = vote.last_vote

\* At a real block the canonical controller, once deployed, is the contract it is known as, and
\* has the storage of a contract: words.
ASSUME LedgerAssumption ==
  \A root \in ChainRoots : \A p \in Protocols :
    Controller[p] \in DOMAIN StateTrie[root] =>
      LET storageRoot == StateTrie[root][Controller[p]] IN
      /\ storageRoot \in StorageRoots
      /\ \A slot \in DOMAIN StorageTrie[storageRoot] : StorageTrie[storageRoot][slot] \in Words
      /\ StorageHolds(p, storageRoot, Ledger[root][p])
=============================================================================
