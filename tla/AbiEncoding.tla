---------------------------- MODULE AbiEncoding ----------------------------
(***************************************************************************)
(* The public values on their way out: the guest encodes them             *)
(* (program/src/main.rs), the host decodes them for the artifact           *)
(* (decode_abi_public_values of helpers.rs).  Each side declares the       *)
(* structs of Solidity for itself; an encoding is a sequence of words, and *)
(* an offset counts words.                                                 *)
(***************************************************************************)
EXTENDS Integers, Sequences, SequencesExt

CONSTANTS
  MaxEpoch,    \* the largest u64
  Roots,       \* state roots
  Contracts    \* addresses of gauges, of their controllers and of voters

ASSUME MaxEpochAssumption == MaxEpoch \in Nat

\* What the guest commits, Output of the crate that guest and host share.
PointResult ==
  [gauge: Contracts, epoch: 0 .. MaxEpoch, bias: Nat, protocol_id: 0 .. 255,
   gauge_controller: Contracts]
AccountResult ==
  [account: Contracts, gauge: Contracts, epoch: 0 .. MaxEpoch, slope: Nat, end: Nat,
   last_vote: Nat, protocol_id: 0 .. 255, gauge_controller: Contracts]
Output ==
  [stateRoot: Roots, epoch: 0 .. MaxEpoch, points: Seq(PointResult), accounts: Seq(AccountResult)]

EncodePoint(p) == <<p.gauge, p.epoch, p.bias, p.protocol_id, p.gauge_controller>>

\* Mutation: the two declarations of the struct disagree on an order.
SwapSlopeAndEnd(a) ==
  <<a.account, a.gauge, a.epoch, a.end, a.slope, a.last_vote, a.protocol_id, a.gauge_controller>>

EncodeAccount(a) ==
  <<a.account, a.gauge, a.epoch, a.slope, a.end, a.last_vote, a.protocol_id, a.gauge_controller>>

\* The length, and the items one after the other.
EncodeArray(items) == <<Len(items)>> \o FlattenSeq(items)

\* PublicValues::abi_encode: the offset of the struct, its head, and its two arrays, the
\* offsets of which count from the head.
Encode(values) ==
  LET points == EncodeArray([i \in DOMAIN values.points |-> EncodePoint(values.points[i])])
      accounts == EncodeArray([i \in DOMAIN values.accounts |-> EncodeAccount(values.accounts[i])])
  IN <<1, values.stateRoot, values.epoch, 4, 4 + Len(points)>> \o points \o accounts

\* The items of the array at an offset, of so many words each.
DecodeArray(words, at, width) ==
  [i \in 1 .. words[at] |-> SubSeq(words, at + 1 + width * (i - 1), at + width * i)]

DecodePoint(w) ==
  [gauge |-> w[1], epoch |-> w[2], bias |-> w[3], protocol_id |-> w[4], gauge_controller |-> w[5]]

DecodeAccount(w) ==
  [account |-> w[1], gauge |-> w[2], epoch |-> w[3], slope |-> w[4], end |-> w[5],
   last_vote |-> w[6], protocol_id |-> w[7], gauge_controller |-> w[8]]

\* abi_decode, which follows the offsets.
DecodeStruct(words) ==
  LET head == words[1] + 1
      points == DecodeArray(words, head + words[head + 2], 5)
      accounts == DecodeArray(words, head + words[head + 3], 8)
  IN [stateRoot |-> words[head], epoch |-> words[head + 1],
      points |-> [i \in DOMAIN points |-> DecodePoint(points[i])],
      accounts |-> [i \in DOMAIN accounts |-> DecodeAccount(accounts[i])]]

Epochs(output) ==
  {output.epoch} \cup {output.points[i].epoch : i \in DOMAIN output.points}
    \cup {output.accounts[i].epoch : i \in DOMAIN output.accounts}

\* An epoch that is wider than a u64 stops the host, in the head or in an item.
Decode(words) ==
  [ok |-> \A e \in Epochs(DecodeStruct(words)) : e <= MaxEpoch, output |-> DecodeStruct(words)]
=============================================================================
