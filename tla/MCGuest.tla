------------------------------ MODULE MCGuest -------------------------------
(***************************************************************************)
(* Guest on the small chain, and the proofs its provers may show.          *)
(***************************************************************************)
EXTENDS Guest, MCChain

\* One proof per root and key, one that holds many paths, and lists that prove nothing.
MCAccountProofs ==
  {[root |-> root, keys |-> keys] :
     root \in StateRoots, keys \in {{}} \cup {{c} : c \in {cCurve, cYb, cPendle, fake}}}
UsedSlots(p) ==
  {DerivePointSlot(p, x[1], x[2]) : x \in Gauges \X Epochs} \cup
  UNION {{AccountSlot(p, UserVoteLabels[p][i], x[1], x[2]) : i \in DOMAIN UserVoteLabels[p]}
         : x \in Accounts \X Gauges}
LayoutOf(s) ==
  CASE s = "yb" -> "Yb" [] s \in {"pendle1", "pendle2"} -> "Pendle" [] OTHER -> "Curve"
MCStorageProofs ==
  {[root |-> s, keys |-> {}] : s \in DOMAIN MCStorageTrie} \cup
  UNION {{[root |-> s, keys |-> {slot}] : slot \in UsedSlots(LayoutOf(s))}
         : s \in DOMAIN MCStorageTrie} \cup
  {[root |-> "curve1", keys |-> UsedSlots("Curve") \cup UsedSlots("Yb")]}
=============================================================================
