------------------------------ MODULE Control ------------------------------
(***************************************************************************)
(* The workspace-local control state kept in control.sqlite                *)
(* (workerbees/control.py).  Every operator below is one SQLite            *)
(* transaction (`with self._conn() as c`), so it is atomic towards the     *)
(* other processes that open the same file; Gateway.tla puts them in the   *)
(* order in which a dispatch performs them.                                *)
(*                                                                         *)
(* A node stands for one dispatch: the node_id and the decision_id that    *)
(* gateway.dispatch draws with uuid4 are unique to it.                     *)
(***************************************************************************)
EXTENDS Integers, FiniteSets, FiniteSetsExt

CONSTANTS
  Nodes,      \* dispatches, by node_id
  Runs,       \* run_id values
  Messages,   \* message_id values
  Hashes,     \* canonical envelope hashes
  Limits,     \* values a max_calls or max_seconds limit may take
  Elapsed,    \* seconds a worker call may take, rounded to the model's clock
  None        \* no row, no value, no limit

ASSUME ControlAssumption ==
  /\ Limits \subseteq Nat
  /\ Elapsed \subseteq Nat
  /\ IsFiniteSet(Nodes)
  /\ None \notin Nat \cup Nodes \cup Runs \cup Messages \cup Hashes

Limit  == Limits \cup {None}
Budget == [calls : Limit, seconds : Limit]

\* The reason codes a decision row carries; only ALLOWED has allowed=1.
Denials == { "SENDER_MISMATCH", "ENVELOPE_INVALID", "REPLAY_CONFLICT",
             "POLICY_DENIED", "NO_REGISTRY", "BUDGET_EXCEEDED", "ROUTE_DENIED",
             "EXPIRED", "INVALID_DEADLINE" }
Codes   == Denials \cup {"ALLOWED"}

VARIABLES
  lease,        \* run_lease: the run holding workspace_key 'default', or None
  reservations, \* reservations: per node its row, run = None when there is none
  runBudget,    \* run_budgets: per run the first declared budget, or None
  replay,       \* replay_keys: per message its row, hash = None when there is none
  cancelled,    \* cancellations: the runs with a row
  decisions,    \* decisions: per node the code of the row with its decision_id
  busy,         \* decisions: the nodes with a run_busy row of their own
  mirror        \* the decision row of the node in the normalized store

controlVars == <<lease, reservations, runBudget, replay, cancelled, decisions, busy, mirror>>

NoReservation == [run |-> None, live |-> FALSE, seconds |-> 0]
NoReplay      == [hash |-> None, artifact |-> None]

ControlTypeOK ==
  /\ lease \in Runs \cup {None}
  /\ reservations \in [Nodes -> [run : Runs \cup {None}, live : BOOLEAN, seconds : Nat]]
  /\ runBudget \in [Runs -> Budget \cup {None}]
  /\ replay \in [Messages -> [hash : Hashes \cup {None}, artifact : Nodes \cup {None}]]
  /\ cancelled \subseteq Runs
  /\ decisions \in [Nodes -> Codes \cup {None}]
  /\ busy \subseteq Nodes
  /\ mirror \in [Nodes -> Codes \cup {None}]

ControlInit ==
  /\ lease = None
  /\ reservations = [n \in Nodes |-> NoReservation]
  /\ runBudget = [r \in Runs |-> None]
  /\ replay = [m \in Messages |-> NoReplay]
  /\ cancelled = {}
  /\ decisions = [n \in Nodes |-> None]
  /\ busy = {}
  /\ mirror = [n \in Nodes |-> None]

----------------------------------------------------------------------------
(* Decisions.  The row is inserted or replaced by decision_id; the store   *)
(* mirror inserts and swallows the IntegrityError of a second insert, so   *)
(* it keeps the first code written for the decision.                       *)

\* A decision written twice stays what it was first.
KeepFirstDecision(n, code) == [decisions EXCEPT ![n] = IF @ = None THEN code ELSE @]
ReplaceDecision(n, code) == [decisions EXCEPT ![n] = code]
MirrorDecision(n, code) == [mirror EXCEPT ![n] = IF @ = None THEN code ELSE @]

RecordDecision(n, code, mirrored) ==
  /\ decisions' = ReplaceDecision(n, code)
  /\ mirror' = IF mirrored THEN MirrorDecision(n, code) ELSE mirror
  /\ UNCHANGED <<lease, reservations, runBudget, replay, cancelled, busy>>

----------------------------------------------------------------------------
(* Replay keys.                                                            *)

ReplayState(m, h) ==
  CASE replay[m].hash = None -> "new"
    [] replay[m].hash = h    -> "duplicate"
    [] OTHER                 -> "conflict"

\* claim_replay as a read alone, the insert left for later.
PeekMessage(m, h) == UNCHANGED controlVars

\* claim_replay when the message has no row yet.
ClaimMessage(m, h) ==
  /\ replay' = [replay EXCEPT ![m] = [hash |-> h, artifact |-> None]]
  /\ UNCHANGED <<lease, reservations, runBudget, cancelled, decisions, busy, mirror>>

\* The upsert without its WHERE clause.
OverwriteArtifact(m, h, n) == [replay EXCEPT ![m].artifact = n]

\* The hash and the reference swapped in the call of store_artifact.
UpsertSwapped(m, h, n) == [replay EXCEPT ![m] = [hash |-> n, artifact |-> h]]

\* The upsert of store_artifact changes a row only where the hashes agree.
UpsertArtifact(m, h, n) ==
  IF replay[m].hash \in {None, h}
  THEN [replay EXCEPT ![m] = [hash |-> h, artifact |-> n]]
  ELSE replay

StoreArtifact(m, h, n) ==
  /\ replay' = UpsertArtifact(m, h, n)
  /\ UNCHANGED <<lease, reservations, runBudget, cancelled, decisions, busy, mirror>>

----------------------------------------------------------------------------
(* Budgets and reservations.                                               *)

Live(r) == {n \in Nodes : reservations[n].run = r /\ reservations[n].live}

\* The rows that SELECT SUM(calls), SUM(seconds) ... released=0 adds up.
Row                == [node : Nodes, seconds : Nat]
LiveRows(r)        == {[node |-> n, seconds |-> reservations[n].seconds] : n \in Live(r)}
TotalSeconds(rows) == MapThenSumSet(LAMBDA row : row.seconds, rows)

UsedCalls(r)   == Cardinality(LiveRows(r))
UsedSeconds(r) == TotalSeconds(LiveRows(r))

\* INSERT OR IGNORE: the first declared budget of a run is the durable one.
FirstBudget(r, b) == IF runBudget[r] = None THEN b ELSE runBudget[r]

RecordRunBudget(r, b) ==
  /\ runBudget' = [runBudget EXCEPT ![r] = FirstBudget(r, b)]
  /\ UNCHANGED <<lease, reservations, replay, cancelled, decisions, busy, mirror>>

\* The comparison without the call that is about to be made.
FitsBudgetOffByOne(r, b) ==
  /\ b.calls # None => UsedCalls(r) <= b.calls
  /\ b.seconds # None => UsedSeconds(r) <= b.seconds

\* reserve_bounded adds one call and no seconds to what is committed.
FitsBudget(r, b) ==
  /\ b.calls # None => UsedCalls(r) + 1 <= b.calls
  /\ b.seconds # None => UsedSeconds(r) <= b.seconds

\* A reentrant lease, as acquire_lease is for the run that already holds it.
SlotFreeForRun(r) == lease \in {None, r}

\* WHERE NOT EXISTS (SELECT 1 FROM run_lease WHERE workspace_key='default')
SlotFree(r) == lease = None

\* The three ends of reserve_bounded: admitted, over budget, workspace busy.
\* Over budget, the lease inserted a moment earlier is deleted in the same
\* transaction, so the control state is what it was.
Admit(n, r, b) ==
  /\ SlotFree(r)
  /\ FitsBudget(r, b)
  /\ lease' = r
  /\ reservations' = [reservations EXCEPT ![n] = [run |-> r, live |-> TRUE, seconds |-> 0]]
  /\ UNCHANGED <<runBudget, replay, cancelled, decisions, busy, mirror>>

\* The two deletes of reserve_bounded forgotten: the lease is committed.
RefuseKeepsLease(r, b) ==
  /\ SlotFree(r)
  /\ ~FitsBudget(r, b)
  /\ lease' = r
  /\ UNCHANGED <<reservations, runBudget, replay, cancelled, decisions, busy, mirror>>

RefuseOverBudget(r, b) ==
  /\ SlotFree(r)
  /\ ~FitsBudget(r, b)
  /\ UNCHANGED controlVars

RefuseBusy(n, r) ==
  /\ ~SlotFree(r)
  /\ busy' = busy \cup {n}
  /\ UNCHANGED <<lease, reservations, runBudget, replay, cancelled, decisions, mirror>>

\* The delete of the lease forgotten.
LeaseKept(r) == lease

\* DELETE FROM run_lease WHERE run_id=?
WithoutLeaseOf(r) == IF lease = r THEN None ELSE lease

\* The update of the reservation forgotten.
ReleaseKeepsCall(n, r) ==
  /\ lease' = WithoutLeaseOf(r)
  /\ UNCHANGED <<reservations, runBudget, replay, cancelled, decisions, busy, mirror>>

\* release: the reservation is given back and the lease deleted, atomically.
Release(n, r) ==
  /\ reservations' = [reservations EXCEPT ![n].live = IF @ THEN FALSE ELSE @]
  /\ lease' = WithoutLeaseOf(r)
  /\ UNCHANGED <<runBudget, replay, cancelled, decisions, busy, mirror>>

\* release_lease: the slot is free again, the call stays counted.
ReleaseLease(r) ==
  /\ lease' = WithoutLeaseOf(r)
  /\ UNCHANGED <<reservations, runBudget, replay, cancelled, decisions, busy, mirror>>

\* commit_usage: the observed seconds go to a reservation that is still live.
CommitUsage(n, s) ==
  /\ reservations' = [reservations EXCEPT ![n].seconds =
                        IF reservations[n].live THEN s ELSE @]
  /\ UNCHANGED <<lease, runBudget, replay, cancelled, decisions, busy, mirror>>

----------------------------------------------------------------------------
(* Cancellation, called by an operator's process.                          *)

CancelRun(r) ==
  /\ cancelled' = cancelled \cup {r}
  /\ UNCHANGED <<lease, reservations, runBudget, replay, decisions, busy, mirror>>

=============================================================================
