------------------------------ MODULE WorkSlot ------------------------------
(***************************************************************************)
(* What an enforcing gateway promises its workspace (docs/DECISIONS.md,    *)
(* T11, and docs/governance/OPERATING-GOVERNANCE.md, replay): at most one  *)
(* worker call is in progress, and no message is given to a worker twice.  *)
(* A worker that dies in the slot loses it: nobody takes it again.         *)
(***************************************************************************)

CONSTANTS Workers, Items

VARIABLES
  slot,    \* the worker in the slot, "free" or "lost"
  served   \* which worker was called for which item

Init == slot = "free" /\ served = {}

Take(w) ==
  /\ slot = "free"
  /\ slot' = w
  /\ UNCHANGED served

Serve(w, i) ==
  /\ slot = w
  /\ \A other \in Workers : <<other, i>> \notin served
  /\ served' = served \cup {<<w, i>>}
  /\ UNCHANGED slot

Leave(w) ==
  /\ slot = w
  /\ slot' \in {"free", "lost"}
  /\ UNCHANGED served

Next ==
  \E w \in Workers :
    \/ Take(w)
    \/ \E i \in Items : Serve(w, i)
    \/ Leave(w)

Spec == Init /\ [][Next]_<<slot, served>>

=============================================================================
