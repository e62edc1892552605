----------------------------- MODULE Protocols ------------------------------
(***************************************************************************)
(* The storage slots of a protocol's gauge controller, as the host and the *)
(* guest both derive them (shared/src/protocol.rs).                        *)
(*                                                                         *)
(* A storage key is a 256-bit number the code obtains by hashing words and *)
(* adding small offsets.  Here it is the term that is hashed: keccak is    *)
(* taken to be collision free and its results to be further apart than any *)
(* struct offset, so that two keys are equal only when their terms are.    *)
(***************************************************************************)
EXTENDS Naturals

Protocols == {"Curve", "Balancer", "Frax", "Fxn", "Yb", "Pendle"}

\* Protocol::as_u8: the wire id, a private input of the circuit and a committed label.
AsU8 == [Curve |-> 0, Balancer |-> 1, Frax |-> 2, Fxn |-> 3, Yb |-> 4, Pendle |-> 5]

\* <Protocol as TryFrom<u8>>::try_from is Ok exactly for these ids; the guest panics on the others.
IsProtocolId(id) == \E p \in Protocols : AsU8[p] = id
TryFromU8(id) == CHOOSE p \in Protocols : AsU8[p] = id

----------------------------------------------------------------------------
(* Words and keys *)

\* encode_u256 and encode_uint128; an address is a word of its own (encode_address).
Word(n) == <<"word", n>>

\* keccak_abi_encode of two words, in the order they are concatenated, and of one word.
Keccak(first, second) == <<"keccak", first, second>>
Rehash(word) == <<"rehash", word>>

\* A word n storage slots after another.
Plus(slot, n) == <<"plus", slot, n>>

----------------------------------------------------------------------------
(* The circuit constants *)

\* Protocol::base_slots.
BaseSlots ==
  [Curve    |-> [weight |-> 12,         last_vote |-> 11,         user_slope |-> 9],
   Balancer |-> [weight |-> 1000000008, last_vote |-> 1000000007, user_slope |-> 1000000005],
   Frax     |-> [weight |-> 1000000011, last_vote |-> 1000000010, user_slope |-> 1000000008],
   Fxn      |-> [weight |-> 1000000011, last_vote |-> 1000000010, user_slope |-> 1000000008],
   Yb       |-> [weight |-> 1000000006, last_vote |-> 1000000005, user_slope |-> 1000000003],
   Pendle   |-> [weight |-> 161,        last_vote |-> 0,          user_slope |-> 162]]

----------------------------------------------------------------------------
(* Slots of a gauge: the total weight behind it in a week *)

\* Mutation: the points of a gauge looked up without the week.
GaugeTimeSlotNoEpoch(gauge, epoch, base) == Keccak(Word(base), gauge)

\* gauge_time_slot_default, _pre_vyper03, _yb and _pendle.
GaugeTimeSlotDefault(gauge, epoch, base) == Keccak(Keccak(Word(base), gauge), Word(epoch))

GaugeTimeSlotPreVyper03(gauge, epoch, base) == Rehash(GaugeTimeSlotDefault(gauge, epoch, base))

GaugeTimeSlotYb(gauge, base) == Keccak(Word(base), gauge)

GaugeTimeSlotPendle(gauge, epoch, base) ==
  Keccak(gauge, Plus(Keccak(Word(epoch), Word(base)), 1))

\* gauge_time_slot; OTHER stands for Balancer, Frax and Fxn.
GaugeTimeSlot(p, gauge, epoch, base) ==
  CASE p = "Curve"  -> GaugeTimeSlotPreVyper03(gauge, epoch, base)
    [] p = "Yb"     -> GaugeTimeSlotYb(gauge, base)
    [] p = "Pendle" -> GaugeTimeSlotPendle(gauge, epoch, base)
    [] OTHER        -> GaugeTimeSlotDefault(gauge, epoch, base)

----------------------------------------------------------------------------
(* Slots of a user's vote for a gauge *)

\* user_gauge_slot_default, _pre_vyper03 and _pendle.
UserGaugeSlotDefault(account, gauge, base) == Keccak(Keccak(Word(base), account), gauge)

UserGaugeSlotPreVyper03(account, gauge, base) == Rehash(UserGaugeSlotDefault(account, gauge, base))

UserGaugeSlotPendle(account, gauge, base) ==
  Keccak(gauge, Plus(Keccak(account, Word(base)), 1))

\* The slot of the slope; OTHER stands for Balancer, Frax, Fxn and Yb.
UserSlopeSlot(p, account, gauge, base) ==
  CASE p = "Curve"  -> UserGaugeSlotPreVyper03(account, gauge, base)
    [] p = "Pendle" -> UserGaugeSlotPendle(account, gauge, base)
    [] OTHER        -> UserGaugeSlotDefault(account, gauge, base)

\* The slots user_vote_slots labels, in the order it pushes them.
UserVoteLabels ==
  [Curve    |-> <<"last_vote", "user_slope", "user_end">>,
   Balancer |-> <<"last_vote", "user_slope", "user_end">>,
   Frax     |-> <<"last_vote", "user_slope", "user_end">>,
   Fxn      |-> <<"last_vote", "user_slope", "user_end">>,
   Yb       |-> <<"last_vote", "user_slope", "user_bias", "user_end">>,
   Pendle   |-> <<"user_slope", "user_bias">>]

HasLabel(p, label) == \E i \in DOMAIN UserVoteLabels[p] : UserVoteLabels[p][i] = label

\* additional_offsets: how far behind the slope the other words of the vote lie.
LabelOffset(p, label) == IF label = "user_bias" THEN 1 ELSE IF p = "Yb" THEN 3 ELSE 2

\* user_vote_slots: the slot behind one of the protocol's labels; OTHER stands for user_bias and
\* user_end.
UserVoteSlot(p, label, account, gauge, lastVoteBase, userSlopeBase) ==
  CASE label = "last_vote"  -> UserGaugeSlotDefault(account, gauge, lastVoteBase)
    [] label = "user_slope" -> UserSlopeSlot(p, account, gauge, userSlopeBase)
    [] OTHER -> Plus(UserSlopeSlot(p, account, gauge, userSlopeBase), LabelOffset(p, label))

\* Mutation: the first label after the slope is taken for the end, which is `user_bias` for Yb.
FirstExtraLabel(p) == IF HasLabel(p, "user_bias") THEN "user_bias" ELSE "user_end"

\* The label whose word is read as the vote's end: user_end, else user_bias.
EndLabel(p) == IF HasLabel(p, "user_end") THEN "user_end" ELSE "user_bias"

----------------------------------------------------------------------------
(* The guest's entry points *)

\* derive_point_slot.
DerivePointSlot(p, gauge, epoch) == GaugeTimeSlot(p, gauge, epoch, BaseSlots[p].weight)

\* derive_account_slots, by label; last_vote is None when the protocol has no such label.
AccountSlot(p, label, account, gauge) ==
  UserVoteSlot(p, label, account, gauge, BaseSlots[p].last_vote, BaseSlots[p].user_slope)

DeriveSlopeSlot(p, account, gauge) == AccountSlot(p, "user_slope", account, gauge)
DeriveEndSlot(p, account, gauge) == AccountSlot(p, EndLabel(p), account, gauge)
DeriveLastVoteSlot(p, account, gauge) == AccountSlot(p, "last_vote", account, gauge)
=============================================================================
