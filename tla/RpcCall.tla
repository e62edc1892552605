------------------------------ MODULE RpcCall ------------------------------
(***************************************************************************)
(* What HostPipeline takes a JSON-RPC call for: it is decided once, either *)
(* by the result the node has for it, whole, or by giving up.  A node that *)
(* has none is given up; so may be one that has.                           *)
(***************************************************************************)
CONSTANTS Results, NoResult    \* NoResult is not one of Results

VARIABLES
  meant,    \* the result the node has for the call, or NoResult
  status,   \* "pending", "answered" or "failed"
  result    \* what the host goes on with, or NoResult

vars == <<meant, status, result>>

Init ==
  /\ meant \in Results \cup {NoResult}
  /\ status = "pending"
  /\ result = NoResult

Answer ==
  /\ status = "pending" /\ meant # NoResult
  /\ status' = "answered"
  /\ result' = meant
  /\ UNCHANGED meant

GiveUp ==
  /\ status = "pending"
  /\ status' = "failed"
  /\ UNCHANGED <<meant, result>>

Next == Answer \/ GiveUp

Safety == Init /\ [][Next]_vars

\* It is decided, whatever the node does.
Spec == Safety /\ WF_vars(Next)
=============================================================================
