------------------------------ MODULE MCChain -------------------------------
(***************************************************************************)
(* A small chain for the model checker: two state roots blk1 and blk2 of   *)
(* blocks a week (here 2) apart, a forged root f, and the controllers of a *)
(* protocol of each decoding: Curve (extra hash), Yb (no week, a bias      *)
(* before the end), Pendle (packed).  `fake` is a contract that copies     *)
(* Curve's layout with other numbers; the controllers of the other         *)
(* protocols are not deployed (`absent`).  The storage of Yb is the same   *)
(* at both blocks, so its root is, too.                                    *)
(***************************************************************************)
EXTENDS GaugeControllers, TLC

CONSTANTS g1, g2, a1, cCurve, cYb, cPendle, fake, absent, blk1, blk2, f

MCController ==
  [p \in Protocols |-> CASE p = "Curve"  -> cCurve
                         [] p = "Yb"     -> cYb
                         [] p = "Pendle" -> cPendle
                         [] OTHER        -> absent]
MCAddresses == {cCurve, cYb, cPendle, fake, absent}

\* Ledgers: bias by gauge and week, one vote by gauge.
Book(b10, b11, b2, v1, v2) ==
  [bias |-> [x \in Gauges \X Epochs |->
               CASE x = <<g1, 0>> -> b10 [] x = <<g1, 2>> -> b11 [] OTHER -> b2],
   vote |-> [x \in Accounts \X Gauges |-> IF x[2] = g1 THEN v1 ELSE v2]]
Vote(slope, end, last) == [slope |-> slope, end |-> end, last_vote |-> last]
NoVote == Vote(0, 0, 0)

MCLedger ==
  blk1 :> [p \in Protocols |->
           CASE p = "Curve"  -> Book(1, 2, 3, Vote(5, 6, 7), NoVote)
             [] p = "Yb"     -> Book(4, 4, 0, Vote(2, 3, 1), Vote(8, 9, 2))
             [] p = "Pendle" -> Book(6, 7, 0, Vote(1, 3, 0), NoVote)
             [] OTHER        -> Book(0, 0, 0, NoVote, NoVote)] @@
  blk2 :> [p \in Protocols |->
           CASE p = "Curve"  -> Book(1, 8, 3, Vote(9, 10, 11), Vote(1, 2, 12))
             [] p = "Yb"     -> Book(4, 4, 0, Vote(2, 3, 1), Vote(8, 9, 2))
             [] p = "Pendle" -> Book(6, 9, 5, Vote(2, 1, 0), Vote(3, 1, 0))
             [] OTHER        -> Book(0, 0, 0, NoVote, NoVote)]

\* The storage of p's contract for a ledger: the slots that hold something other than zero.
Entries(p, ledger) ==
  {<<PointField(p, x[1], x[2]), ledger.bias[x]>> : x \in Gauges \X Epochs} \cup
  UNION {LET struct == VoteField(p, x[1], x[2])
             vote == ledger.vote[x]
         IN  IF p = "Pendle"
             THEN {<<MemberSlot(p, struct, "weight"), 13>>,
                   <<MemberSlot(p, struct, "vote"), PackVeBalance(vote)>>}
             ELSE {<<MemberSlot(p, struct, "slope"), vote.slope>>,
                   <<MemberSlot(p, struct, "end"), vote.end>>,
                   <<MemberSlot(p, struct, "power"), 14>>,
                   <<LastVoteField(p, x[1], x[2]), vote.last_vote>>} \cup
                  (IF p = "Yb" THEN {<<MemberSlot(p, struct, "bias"), 15>>} ELSE {})
         : x \in Accounts \X Gauges}
StorageOf(entries) ==
  LET written == {x \in entries : x[2] # 0}
  IN  [slot \in {x[1] : x \in written} |-> (CHOOSE x \in written : x[1] = slot)[2]]

MCStorageTrie ==
  [s \in {"curve1", "curve2", "yb", "pendle1", "pendle2", "fake", "forged"} |->
     StorageOf(CASE s = "curve1"  -> Entries("Curve", MCLedger[blk1]["Curve"])
                 [] s = "curve2"  -> Entries("Curve", MCLedger[blk2]["Curve"])
                 [] s = "yb"      -> Entries("Yb", MCLedger[blk1]["Yb"])
                 [] s = "pendle1" -> Entries("Pendle", MCLedger[blk1]["Pendle"])
                 [] s = "pendle2" -> Entries("Pendle", MCLedger[blk2]["Pendle"])
                 [] s = "fake"    -> Entries("Curve", Book(9, 9, 9, Vote(9, 9, 9), NoVote))
                 [] s = "forged"  -> {<<PointField("Curve", g1, 0), Garbage>>,
                                      <<PointField("Curve", g2, 0), 11>>})]

MCStateTrie ==
  blk1 :> (cCurve :> "curve1" @@ cYb :> "yb" @@ cPendle :> "pendle1") @@
  blk2 :> (cCurve :> "curve2" @@ cYb :> "yb" @@ cPendle :> "pendle2" @@ fake :> "fake") @@
  f :> (cCurve :> "forged" @@ cYb :> Garbage)
=============================================================================
