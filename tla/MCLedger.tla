------------------------------ MODULE MCLedger ------------------------------
EXTENDS Ledger, TLC

CONSTANTS j1, j2, j3, n1, n2

\* A worker, and a correction of it whose phase is recorded twice, the second time
\* with another outcome and the default edge type of ledger_bridge.py.
TheNode   == (j1 :> n1) @@ (j2 :> n2) @@ (j3 :> n2)
TheParent == (j1 :> None) @@ (j2 :> n1) @@ (j3 :> n1)
TheEdge   == (j1 :> None) @@ (j2 :> "known") @@ (j3 :> "unknown")
TheStatus == (j1 :> "returned") @@ (j2 :> "failed") @@ (j3 :> "returned")
=============================================================================
