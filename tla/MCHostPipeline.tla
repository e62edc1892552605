--------------------------- MODULE MCHostPipeline ---------------------------
(***************************************************************************)
(* HostPipeline on the small chain: block 0 is settled, block 1 may turn   *)
(* out either way.  Runs are started from the environment or from a file,  *)
(* with either source of proofs; what the file may hold is chosen so that  *)
(* every check of the host and of the toolkit has something to refuse.     *)
(***************************************************************************)
EXTENDS HostPipeline, MCChain

MCCandidates == (0 :> {blk1}) @@ (1 :> {blk1, blk2}) @@ (2 :> {blk2}) @@
                (3 :> {blk2}) @@ (4 :> {blk2})
MCTimeOf == blk1 :> 1 @@ blk2 :> 3

PointOf(gauge) == [kind |-> "point_data", account |-> None, gauge |-> gauge]
VoteOf(account, gauge) == [kind |-> "account_data", account |-> account, gauge |-> gauge]

Request(protocol, block, e, requests) ==
  [chain |-> 1, block |-> block, epoch |-> e, protocol |-> protocol, controller |-> None,
   requests |-> requests]
Curve0 == Request("Curve", 0, 0, <<PointOf(g1), VoteOf(a1, g1)>>)

MCFileContents ==
  {Curve0,
   Request(None, 1, 0, <<VoteOf(a1, g1), PointOf(g1), PointOf(g2)>>),
   Request("Curve", 0, None, <<VoteOf(a1, g1)>>),
   Request("Yb", 0, 2, <<VoteOf(a1, g2), PointOf(g2), PointOf(g2)>>),
   Request("Pendle", 0, 1, <<VoteOf(a1, g1)>>),
   Request("Pendle", 0, 0, <<VoteOf(a1, g1), VoteOf(None, g1)>>),
   Request("Curve", 0, 0, <<PointOf(g1), PointOf(g2), PointOf(g1), VoteOf(a1, g1)>>),
   [Curve0 EXCEPT !.controller = fake],
   [Curve0 EXCEPT !.chain = 2, !.requests = <<>>],
   Request("Balancer", 0, 0, <<PointOf(g1)>>),
   Request("aura", 0, 0, <<PointOf(g1)>>)}

Env(protocol, block, e) ==
  [chain |-> 1, block |-> block, epoch |-> e, protocol |-> protocol, controller |-> None,
   account |-> a1, gauge |-> g1]

MCJobs ==
  {[source |-> source, json |-> TRUE, env |-> None] : source \in {"rpc", "toolkit"}} \cup
  {[source |-> source, json |-> FALSE, env |-> env] :
     source \in {"rpc", "toolkit"},
     env \in {Env(None, None, None), Env("Yb", None, 2), Env("Pendle", 1, None),
              Env("Balancer", None, None), [Env("Curve", 0, 0) EXCEPT !.gauge = None]}}
=============================================================================
