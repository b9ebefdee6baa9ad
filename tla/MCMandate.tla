----------------------------- MODULE MCMandate -----------------------------
(***************************************************************************)
(* Instances of Mandate.tla for TLC.                                       *)
(***************************************************************************)
EXTENDS Mandate, TLC

CONSTANTS exec, review, sol, astra

Ask(role, model, codex, fresh, force, retries) ==
  [role |-> role, model |-> model, codex |-> codex, fresh |-> fresh,
   force |-> force, retries |-> retries]

\* The ways through engage on one role, and another role.
EveryEngagement ==
  { Ask(exec, sol, TRUE, FALSE, FALSE, 1),       \* resumes when it can
    Ask(exec, astra, TRUE, FALSE, FALSE, 0),     \* another model
    Ask(exec, astra, TRUE, TRUE, TRUE, 0),       \* another model, --fresh --force
    Ask(exec, None, FALSE, FALSE, FALSE, 0),     \* another backend
    Ask(review, None, TRUE, FALSE, FALSE, 0) }   \* another role

\* A role taken twice, with --force or without.
Contended == { Ask(exec, None, TRUE, FALSE, FALSE, 0), Ask(exec, None, TRUE, FALSE, TRUE, 0) }

\* A job that may retry: a second one is let in between its attempts.
PlainCommand == { Ask(exec, None, TRUE, FALSE, FALSE, 1) }

\* The same, and a job without a mandate.
RetriedOrBare == PlainCommand \cup { Ask(None, None, TRUE, FALSE, FALSE, 1) }

\* Jobs are told apart by nothing but their names, and so are operators.
Names == Permutations(Jobs) \cup Permutations(Operators)

=============================================================================
