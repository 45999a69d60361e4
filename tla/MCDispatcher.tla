------------------------------ MODULE MCDispatcher ------------------------------
(***************************************************************************)
(* The instance of Dispatcher for TLC.  Two calls of a batch share one     *)
(* concurrency slot, each with two attempts, and an audit trail of one     *)
(* record: they meet at the gate, at the slot and in the trail.            *)
(***************************************************************************)
EXTENDS Dispatcher

CONSTANTS c1, c2, many, wide, narrow

OneBatch  == (c1 :> many) @@ (c2 :> many)
RetryBoth == (c1 :> 2) @@ (c2 :> 2)
\* The narrow scope leaves c1 out.
TwoScopes == (wide :> Calls) @@ (narrow :> Calls \ {c1})
=============================================================================
