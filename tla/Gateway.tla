------------------------------ MODULE Gateway ------------------------------
(***************************************************************************)
(* The dispatch pipeline of workerbees/gateway.py.  Each node is one call  *)
(* of Gateway.dispatch, made by a process or thread of its own on a shared *)
(* workspace.  One action is one access to shared state together with the  *)
(* local computation up to the next access; pc names the access that comes *)
(* next.  The numbered steps are those of the comments in the source.      *)
(*                                                                         *)
(* Faults, chosen by the constant of that name:                            *)
(*   control    an access to control.sqlite raises sqlite3.Error           *)
(*   store      the mirror write fails; where the code does not swallow    *)
(*              the error it leaves dispatch after the main commit         *)
(*   ledger     an append to the ledger fails and returns False            *)
(*   interrupt  an exception nothing catches unwinds: KeyboardInterrupt,   *)
(*              or canonical_hash on a payload that cannot be serialised,  *)
(*              raised between the validation and the replay claim         *)
(*   kill       the process dies                                           *)
(***************************************************************************)
EXTENDS Control

CONSTANTS
  Requests,  \* the dispatch calls that may be made
  Faults     \* the faults that may happen

Modes == {"off", "shadow", "enforce"}

\* What the validation, the policy and the route make of the envelope:
\*   plain        nothing is wrong with it
\*   spoofed      authenticated sender is not the envelope's sender
\*   malformed    envelope.validate, protocol, schema or payload check fails
\*   unauthorized a rule of policy.evaluate before the budget rule denies it
\*   unregistered the gateway was built without a registry, which the
\*                constructor refuses in enforce mode only
\*   misrouted    provider, catalog or frontier gate check refuses the route
\*   dated        carries a deadline, which may pass before the call is made
\*   untimed      carries a deadline and a max_seconds of null, which the
\*                timeout cannot be computed from
Kinds == {"plain", "spoofed", "malformed", "unauthorized", "unregistered", "misrouted",
          "dated", "untimed"}

Request == [mode : Modes, run : Runs, msg : Messages, hash : Hashes,
            budget : Budget, kind : Kinds]

ASSUME GatewayAssumption ==
  /\ Requests \subseteq Request
  /\ \A q \in Requests : q.kind = "unregistered" => q.mode # "enforce"
  /\ Faults \subseteq {"control", "store", "ledger", "interrupt", "kill"}
  /\ None \notin Request /\ None \notin Codes

VARIABLES
  pc,        \* the step each dispatch takes next
  req,       \* the envelope, context and route of the call, None before it
  seen,      \* the run's live reservations and limits, read for the policy
  verdict,   \* reason code of the in-memory Decision object
  status,    \* status of the GatewayResult
  ledger,    \* the lines the ledger holds for the node
  launched,  \* nodes whose runner was called
  output,    \* nodes whose worker returned something to keep
  faulted    \* nodes that met a failed control access before any launch

gatewayVars == <<pc, req, seen, verdict, status, ledger, launched, output, faulted>>
vars == <<controlVars, gatewayVars>>

Ended   == {"done", "raised", "killed"}
Holding == {"cancel2", "deadline", "rollback", "unlease", "launch",
            "running", "commit", "publish", "unlock"}
Steps   == {"idle", "reject", "replay", "usage", "budget", "decide", "route",
            "cancel1", "reserve", "annul"} \cup Holding \cup Ended

Statuses == {"none", "allowed", "denied", "blocked", "duplicate", "conflict",
             "cancelled", "envelope_invalid"}

NoLimits    == [calls |-> None, seconds |-> None]
NothingSeen == [used |-> {}, limits |-> NoLimits]

Mode(n)     == req[n].mode
Governed(n) == Mode(n) \in {"shadow", "enforce"}
Strict(n)   == Mode(n) = "enforce"
Run(n)      == req[n].run

TypeOK ==
  /\ ControlTypeOK
  /\ pc \in [Nodes -> Steps]
  /\ req \in [Nodes -> Requests \cup {None}]
  /\ seen \in [Nodes -> [used : SUBSET Row, limits : Budget]]
  /\ verdict \in [Nodes -> Codes \cup {None}]
  /\ status \in [Nodes -> Statuses]
  /\ ledger \in [Nodes -> SUBSET {"dispatch", "return"}]
  /\ launched \subseteq Nodes
  /\ output \subseteq Nodes
  /\ faulted \subseteq Nodes

Init ==
  /\ ControlInit
  /\ pc = [n \in Nodes |-> "idle"]
  /\ req = [n \in Nodes |-> None]
  /\ seen = [n \in Nodes |-> NothingSeen]
  /\ verdict = [n \in Nodes |-> None]
  /\ status = [n \in Nodes |-> "none"]
  /\ ledger = [n \in Nodes |-> {}]
  /\ launched = {}
  /\ output = {}
  /\ faulted = {}

----------------------------------------------------------------------------
(* Moving a dispatch on, ending it, and what each leaves alone.            *)

Go(n, from, to) ==
  /\ pc[n] = from
  /\ pc' = [pc EXCEPT ![n] = to]

Return(n, from, result) ==
  /\ Go(n, from, "done")
  /\ status' = [status EXCEPT ![n] = result]

Judge(n, code) == verdict' = [verdict EXCEPT ![n] = code]

Meets(n) == faulted' = faulted \cup {n}

Fault(kind) == kind \in Faults

\* The mirror may miss a row only when the store fails.
Mirrored == IF Fault("store") THEN BOOLEAN ELSE {TRUE}

CallUnchanged == UNCHANGED <<req, seen, ledger, launched, output>>

----------------------------------------------------------------------------
(* The call arrives.  Steps 1 and 2 are pure checks; off mode has no       *)
(* replay check, no policy and no reservation.                             *)

FirstStep(q) ==
  IF q.kind \in {"spoofed", "malformed"} THEN "reject"
  ELSE IF q.mode = "off" THEN "route" ELSE "replay"

Arrive(n) ==
  \E q \in Requests :
    /\ Go(n, "idle", FirstStep(q))
    /\ req' = [req EXCEPT ![n] = q]
    /\ verdict' = [verdict EXCEPT ![n] = IF FirstStep(q) = "route" THEN "ALLOWED" ELSE None]
    /\ UNCHANGED <<controlVars, seen, status, ledger, launched, output, faulted>>

\* Steps 1 and 2: the denial is recorded in the governed modes, and returned
\* whether or not it could be.
RejectCode(n) == IF req[n].kind = "spoofed" THEN "SENDER_MISMATCH" ELSE "ENVELOPE_INVALID"

Reject(n) ==
  /\ Return(n, "reject", IF req[n].kind = "spoofed" THEN "denied" ELSE "envelope_invalid")
  /\ Judge(n, RejectCode(n))
  /\ \/ /\ Governed(n)
        /\ \E mirrored \in Mirrored : RecordDecision(n, RejectCode(n), mirrored)
        /\ UNCHANGED faulted
     \/ /\ ~Governed(n)
        /\ UNCHANGED <<controlVars, faulted>>
     \/ /\ Governed(n) /\ Fault("control")
        /\ UNCHANGED controlVars
        /\ Meets(n)
  /\ CallUnchanged

----------------------------------------------------------------------------
(* Step 3: the message is claimed before anything is decided about it.     *)

\* The replay key read here and written only when output is stored.
PeekNew(n) ==
  /\ Go(n, "replay", "usage")
  /\ ReplayState(req[n].msg, req[n].hash) = "new"
  /\ PeekMessage(req[n].msg, req[n].hash)
  /\ UNCHANGED <<verdict, status, faulted>>
  /\ CallUnchanged

ClaimNew(n) ==
  /\ Go(n, "replay", "usage")
  /\ ReplayState(req[n].msg, req[n].hash) = "new"
  /\ ClaimMessage(req[n].msg, req[n].hash)
  /\ UNCHANGED <<verdict, status, faulted>>
  /\ CallUnchanged

AnswerDuplicate(n) ==
  /\ Return(n, "replay", "duplicate")
  /\ ReplayState(req[n].msg, req[n].hash) = "duplicate"
  /\ UNCHANGED <<controlVars, verdict, faulted>>
  /\ CallUnchanged

DenyConflict(n) ==
  /\ Return(n, "replay", "conflict")
  /\ ReplayState(req[n].msg, req[n].hash) = "conflict"
  /\ \/ /\ \E mirrored \in Mirrored : RecordDecision(n, "REPLAY_CONFLICT", mirrored)
        /\ UNCHANGED faulted
     \/ /\ Fault("control")             \* read-only database: recorded = False
        /\ UNCHANGED controlVars
        /\ Meets(n)
  /\ Judge(n, "REPLAY_CONFLICT")
  /\ CallUnchanged

\* claim_replay fails, or records of a conflict raise: the one handler of
\* step 3 blocks in enforce and lets shadow go on.
ReplayUnavailable(n) ==
  /\ pc[n] = "replay"
  /\ Fault("control")
  /\ \/ Strict(n)  /\ Return(n, "replay", "blocked")
     \/ ~Strict(n) /\ Go(n, "replay", "usage") /\ UNCHANGED status
  /\ Meets(n)
  /\ UNCHANGED <<controlVars, verdict>>
  /\ CallUnchanged

----------------------------------------------------------------------------
(* Step 4: the usage is read, then the run's durable budget, and the       *)
(* policy is evaluated on what was read.  control.used answers zero when   *)
(* the database fails, as if no reservation were live.                     *)

\* Without a registry nothing is read: the decision is NO_REGISTRY, which
\* shadow records and goes on from.
NoRegistry(n) ==
  /\ Go(n, "usage", "decide")
  /\ req[n].kind = "unregistered"
  /\ UNCHANGED <<controlVars, verdict, status, faulted>>
  /\ CallUnchanged

ReadUsage(n) ==
  /\ Go(n, "usage", "budget")
  /\ req[n].kind # "unregistered"
  /\ \/ /\ seen' = [seen EXCEPT ![n].used = LiveRows(Run(n))]
        /\ UNCHANGED faulted
     \/ /\ Fault("control")
        /\ UNCHANGED seen
        /\ Meets(n)
  /\ UNCHANGED <<controlVars, req, verdict, status, ledger, launched, output>>

ReadBudget(n) ==
  /\ Go(n, "budget", "decide")
  /\ RecordRunBudget(Run(n), req[n].budget)
  /\ seen' = [seen EXCEPT ![n].limits = FirstBudget(Run(n), req[n].budget)]
  /\ UNCHANGED <<req, verdict, status, ledger, launched, output, faulted>>

\* A sqlite3.Error of the table or of its mirror becomes a ControlError,
\* the latter after the row was committed; the RuntimeError of a mirror with
\* another schema version leaves dispatch.
BudgetUnavailable(n) ==
  /\ pc[n] = "budget"
  /\ \/ Strict(n) /\ Return(n, "budget", "blocked") /\ UNCHANGED seen
     \/ /\ ~Strict(n)
        /\ Go(n, "budget", "decide")
        /\ seen' = [seen EXCEPT ![n].limits = req[n].budget]
        /\ UNCHANGED status
     \/ /\ Fault("store")
        /\ Go(n, "budget", "raised")
        /\ UNCHANGED <<seen, status>>
  /\ \/ Fault("control") /\ pc'[n] # "raised" /\ UNCHANGED controlVars
     \/ Fault("store") /\ RecordRunBudget(Run(n), req[n].budget)
  /\ Meets(n)
  /\ UNCHANGED <<req, verdict, ledger, launched, output>>

Exceeded(used, limit) == limit # None /\ used >= limit

\* The last rule of the policy.
BudgetCode(n) ==
  IF \/ Exceeded(Cardinality(seen[n].used), seen[n].limits.calls)
     \/ Exceeded(TotalSeconds(seen[n].used), seen[n].limits.seconds)
  THEN "BUDGET_EXCEEDED" ELSE "ALLOWED"

PolicyCode(n) ==
  CASE req[n].kind = "unauthorized" -> "POLICY_DENIED"
    [] req[n].kind = "unregistered" -> "NO_REGISTRY"
    [] OTHER -> BudgetCode(n)

\* Steps 4 to 6: evaluate, record, and stop a denied call in enforce.
Decided(n) == IF Strict(n) /\ PolicyCode(n) # "ALLOWED" THEN "done" ELSE "route"

Decide(n) ==
  /\ pc[n] = "decide"
  /\ Judge(n, PolicyCode(n))
  /\ \E mirrored \in Mirrored : RecordDecision(n, PolicyCode(n), mirrored)
  /\ Go(n, "decide", Decided(n))
  /\ status' = [status EXCEPT ![n] = IF Decided(n) = "done" THEN "denied" ELSE @]
  /\ UNCHANGED faulted
  /\ CallUnchanged

\* The result of record_decision looked at by nobody.
UnrecordedGoesOn(n) ==
  /\ Go(n, "decide", "route")
  /\ Fault("control")
  /\ Judge(n, PolicyCode(n))
  /\ Meets(n)
  /\ UNCHANGED <<controlVars, status>>
  /\ CallUnchanged

\* record_decision returns False or raises: enforce blocks, shadow goes on.
DecisionNotRecorded(n) ==
  /\ pc[n] = "decide"
  /\ Fault("control")
  /\ Judge(n, PolicyCode(n))
  /\ \/ Strict(n)  /\ Return(n, "decide", "blocked")
     \/ ~Strict(n) /\ Go(n, "decide", "route") /\ UNCHANGED status
  /\ Meets(n)
  /\ UNCHANGED controlVars
  /\ CallUnchanged

\* approval_binds raises a ControlError that dispatch does not catch.
ApprovalLookupRaises(n) ==
  /\ Fault("control")
  /\ Go(n, "decide", "raised")
  /\ req[n].kind # "unregistered"
  /\ Meets(n)
  /\ UNCHANGED <<controlVars, verdict, status>>
  /\ CallUnchanged

----------------------------------------------------------------------------
(* Steps 7 and 8: the route.  The Decision object is overwritten and       *)
(* recorded again under the same decision_id.                              *)

RouteAccepted(n) ==
  /\ pc[n] = "route"
  /\ req[n].kind # "misrouted"
  /\ Go(n, "route", IF Governed(n) THEN "cancel1" ELSE "deadline")
  /\ UNCHANGED <<controlVars, verdict, status, faulted>>
  /\ CallUnchanged

RouteDenied(n) ==
  /\ pc[n] = "route"
  /\ req[n].kind = "misrouted"
  /\ Judge(n, "ROUTE_DENIED")
  /\ \/ /\ Governed(n)
        /\ \E mirrored \in Mirrored : RecordDecision(n, "ROUTE_DENIED", mirrored)
        /\ Return(n, "route", "denied")
        /\ UNCHANGED faulted
     \/ /\ ~Governed(n)
        /\ Return(n, "route", "denied")
        /\ UNCHANGED <<controlVars, faulted>>
     \/ /\ Governed(n) /\ Fault("control")     \* False is returned, or ControlError raised
        /\ \/ Return(n, "route", "denied")
           \/ Go(n, "route", "raised") /\ UNCHANGED status
        /\ Meets(n)
        /\ UNCHANGED controlVars
  /\ CallUnchanged

----------------------------------------------------------------------------
(* Steps 9 to 11: cancellation, reservation, cancellation again.           *)
(* is_cancelled answers TRUE when the database fails.                      *)

\* A cancellation looked up under another key than the one it was filed under.
CancelNeverSeen(n) == FALSE

CancelSeen(n) == Run(n) \in cancelled

NotCancelledEarly(n) ==
  /\ Go(n, "cancel1", "reserve")
  /\ ~CancelSeen(n)
  /\ UNCHANGED <<controlVars, verdict, status, faulted>>
  /\ CallUnchanged

CancelledEarly(n) ==
  /\ Return(n, "cancel1", "cancelled")
  /\ CancelSeen(n) \/ Fault("control")
  /\ faulted' = IF CancelSeen(n) THEN faulted ELSE faulted \cup {n}
  /\ UNCHANGED <<controlVars, verdict>>
  /\ CallUnchanged

\* Enforce checks the budget of this envelope; shadow passes no limits.
AdmissionLimits(n) == IF Strict(n) THEN req[n].budget ELSE NoLimits

Reserve(n) ==
  /\ Go(n, "reserve", "cancel2")
  /\ Admit(n, Run(n), AdmissionLimits(n))
  /\ UNCHANGED <<verdict, status, faulted>>
  /\ CallUnchanged

\* A dispatch that asks again until it is admitted.
AskAgain(n) ==
  /\ Go(n, "reserve", "reserve")
  /\ \/ RefuseOverBudget(Run(n), AdmissionLimits(n))
     \/ RefuseBusy(n, Run(n))
  /\ UNCHANGED <<verdict, status, faulted>>
  /\ CallUnchanged

ReserveRefused(n) ==
  /\ Return(n, "reserve", "blocked")
  /\ \/ RefuseOverBudget(Run(n), AdmissionLimits(n))
     \/ RefuseBusy(n, Run(n))
  /\ UNCHANGED <<verdict, faulted>>
  /\ CallUnchanged

\* The transaction rolls back; shadow continues without a lease.
ReserveUnavailable(n) ==
  /\ pc[n] = "reserve"
  /\ Fault("control")
  /\ \/ Strict(n)  /\ Return(n, "reserve", "blocked")
     \/ ~Strict(n) /\ Go(n, "reserve", "cancel2") /\ UNCHANGED status
  /\ Meets(n)
  /\ UNCHANGED <<controlVars, verdict>>
  /\ CallUnchanged

NotCancelledLate(n) ==
  /\ Go(n, "cancel2", "deadline")
  /\ ~CancelSeen(n)
  /\ UNCHANGED <<controlVars, verdict, status, faulted>>
  /\ CallUnchanged

CancelledLate(n) ==
  /\ Go(n, "cancel2", "rollback")
  /\ CancelSeen(n) \/ Fault("control")
  /\ faulted' = IF CancelSeen(n) THEN faulted ELSE faulted \cup {n}
  /\ UNCHANGED <<controlVars, verdict, status>>
  /\ CallUnchanged

----------------------------------------------------------------------------
(* Step 12: the deadline.  An expired call gives its reservation back and  *)
(* is recorded again; one whose timeout cannot be computed (TypeError of   *)
(* min) frees the slot only, so its call stays counted.                    *)

DeadlineOpen(n) ==
  /\ pc[n] = "deadline"
  /\ req[n].kind # "untimed"
  /\ Go(n, "deadline", "launch")
  /\ UNCHANGED <<controlVars, verdict, status, faulted>>
  /\ CallUnchanged

DeadlinePassed(n) ==
  /\ pc[n] = "deadline"
  /\ req[n].kind \in {"dated", "untimed"}
  /\ Judge(n, "EXPIRED")
  /\ \/ Governed(n)  /\ Go(n, "deadline", "rollback") /\ UNCHANGED status
     \/ ~Governed(n) /\ Return(n, "deadline", "denied")
  /\ UNCHANGED <<controlVars, faulted>>
  /\ CallUnchanged

DeadlineInvalid(n) ==
  /\ pc[n] = "deadline"
  /\ req[n].kind = "untimed"
  /\ Judge(n, "INVALID_DEADLINE")
  /\ \/ Governed(n)  /\ Go(n, "deadline", "unlease") /\ UNCHANGED status
     \/ ~Governed(n) /\ Return(n, "deadline", "denied")
  /\ UNCHANGED <<controlVars, faulted>>
  /\ CallUnchanged

\* release, after a late cancellation or an expired deadline.  Its own
\* sqlite3.Error is swallowed, an error of the mirror is not.
GivenBack(n) ==
  \/ verdict[n] = "EXPIRED" /\ Go(n, "rollback", "annul") /\ UNCHANGED status
  \/ verdict[n] # "EXPIRED" /\ Return(n, "rollback", "cancelled")

Rollback(n) ==
  /\ pc[n] = "rollback"
  /\ Release(n, Run(n))
  /\ \/ GivenBack(n)
     \/ Fault("store") /\ Go(n, "rollback", "raised") /\ UNCHANGED status
  /\ UNCHANGED <<verdict, faulted>>
  /\ CallUnchanged

Unlease(n) ==
  /\ pc[n] = "unlease"
  /\ ReleaseLease(Run(n))
  /\ \/ Go(n, "unlease", "annul")
     \/ Fault("store") /\ Go(n, "unlease", "raised")
  /\ UNCHANGED <<verdict, status, faulted>>
  /\ CallUnchanged

GiveBackFails(n) ==
  /\ Fault("control")
  /\ \/ GivenBack(n)
     \/ Go(n, "unlease", "annul") /\ UNCHANGED status
  /\ Meets(n)
  /\ UNCHANGED <<controlVars, verdict>>
  /\ CallUnchanged

\* The EXPIRED or INVALID_DEADLINE decision replaces the one recorded before.
Annul(n) ==
  /\ pc[n] = "annul"
  /\ \/ /\ \E mirrored \in Mirrored : RecordDecision(n, verdict[n], mirrored)
        /\ Return(n, "annul", "denied")
        /\ UNCHANGED faulted
     \/ /\ Fault("control")             \* False is returned, or ControlError raised
        /\ \/ Return(n, "annul", "denied")
           \/ Go(n, "annul", "raised") /\ UNCHANGED status
        /\ UNCHANGED controlVars
        /\ Meets(n)
  /\ UNCHANGED verdict
  /\ CallUnchanged

----------------------------------------------------------------------------
(* Steps 13 to 16: the ledger node is opened, the runner called, the usage *)
(* committed, the node closed and the output kept, the slot given back.    *)

Appended(n, line) ==
  \/ ledger' = [ledger EXCEPT ![n] = @ \cup {line}]
  \/ Fault("ledger") /\ UNCHANGED ledger

Launch(n) ==
  /\ Go(n, "launch", "running")
  /\ Appended(n, "dispatch")
  /\ launched' = launched \cup {n}
  /\ UNCHANGED <<controlVars, req, seen, verdict, status, output, faulted>>

WorkerEnds(n) ==
  /\ Go(n, "running", IF Governed(n) THEN "commit" ELSE "publish")
  /\ \/ output' = output \cup {n}
     \/ UNCHANGED output
  /\ UNCHANGED <<controlVars, req, seen, verdict, status, ledger, launched, faulted>>

Commit(n) ==
  /\ pc[n] = "commit"
  /\ \/ /\ \E s \in Elapsed : CommitUsage(n, s)
        /\ \/ Go(n, "commit", "publish")
           \/ Fault("store") /\ Go(n, "commit", "raised")
     \/ /\ Fault("control")
        /\ Go(n, "commit", "publish")
        /\ UNCHANGED controlVars
  /\ UNCHANGED <<verdict, status, faulted>>
  /\ CallUnchanged

\* The node is closed in every mode; the replay row gets the output's hash
\* in every mode too, when there is output.
Publish(n) ==
  /\ pc[n] = "publish"
  /\ Appended(n, "return")
  /\ \/ n \in output /\ StoreArtifact(req[n].msg, req[n].hash, n)
     \/ n \notin output /\ UNCHANGED controlVars
     \/ Fault("control") /\ UNCHANGED controlVars
  /\ \/ Governed(n)  /\ Go(n, "publish", "unlock") /\ UNCHANGED status
     \/ ~Governed(n) /\ Return(n, "publish", "allowed")
  /\ UNCHANGED <<req, seen, verdict, launched, output, faulted>>

Unlock(n) ==
  /\ pc[n] = "unlock"
  /\ \/ /\ ReleaseLease(Run(n))
        /\ \/ Return(n, "unlock", "allowed")
           \/ Fault("store") /\ Go(n, "unlock", "raised") /\ UNCHANGED status
     \/ /\ Fault("control")
        /\ Return(n, "unlock", "allowed")
        /\ UNCHANGED controlVars
  /\ UNCHANGED <<verdict, faulted>>
  /\ CallUnchanged

----------------------------------------------------------------------------
(* What ends a dispatch from outside its code, and the operator.           *)

Abort(n) ==
  /\ pc[n] \notin Ended \cup {"idle"}
  /\ \/ Fault("interrupt") /\ pc' = [pc EXCEPT ![n] = "raised"]
     \/ Fault("kill") /\ pc' = [pc EXCEPT ![n] = "killed"]
  /\ UNCHANGED <<controlVars, verdict, status, faulted>>
  /\ CallUnchanged

Cancel(r) ==
  /\ r \notin cancelled
  /\ CancelRun(r)
  /\ UNCHANGED gatewayVars

Decline(n) ==
  \/ Reject(n) \/ AnswerDuplicate(n) \/ DenyConflict(n) \/ RouteDenied(n)
  \/ CancelledEarly(n) \/ ReserveRefused(n) \/ CancelledLate(n)
  \/ DeadlinePassed(n) \/ DeadlineInvalid(n)
  \/ Rollback(n) \/ Unlease(n) \/ Annul(n)

Proceed(n) ==
  \/ ClaimNew(n) \/ NoRegistry(n) \/ ReadUsage(n) \/ ReadBudget(n) \/ Decide(n)
  \/ RouteAccepted(n) \/ NotCancelledEarly(n) \/ Reserve(n) \/ NotCancelledLate(n)
  \/ DeadlineOpen(n) \/ Launch(n) \/ WorkerEnds(n) \/ Commit(n)
  \/ Publish(n) \/ Unlock(n)

Misfire(n) ==
  \/ ReplayUnavailable(n) \/ BudgetUnavailable(n) \/ DecisionNotRecorded(n)
  \/ ApprovalLookupRaises(n) \/ ReserveUnavailable(n) \/ GiveBackFails(n)

Dispatch(n) == Decline(n) \/ Proceed(n) \/ Misfire(n)

AllEnded == (\A n \in Nodes : pc[n] \in Ended) /\ UNCHANGED vars

Next ==
  \/ \E n \in Nodes : Arrive(n) \/ Dispatch(n) \/ Abort(n)
  \/ \E r \in Runs : Cancel(r)
  \/ AllEnded

\* A dispatch that was called runs on: the code has no wait but the worker
\* call, which adapters/base.py bounds with a timeout.  Nobody has to call,
\* cancel or fail.
Fairness == \A n \in Nodes : WF_vars(Dispatch(n))

Spec == Init /\ [][Next]_vars
FairSpec == Spec /\ Fairness

----------------------------------------------------------------------------
(* Safety.                                                                 *)

\* CONTEXT.md, Decision: "Persisted before dispatch".  The runner of an
\* enforced call is never called unless the decision row that allows it is
\* stored, and the row still says so whatever is recorded later.
AllowOnRecord == \A n \in launched : Strict(n) => decisions[n] = "ALLOWED"

\* A governed call that is answered "denied" has a row with the very code it
\* was denied with, also when an allowing row was recorded earlier under the
\* same decision_id, unless the control database failed it.
DenialOnRecord ==
  \A n \in Nodes :
    pc[n] = "done" /\ status[n] = "denied" /\ Governed(n) /\ n \notin faulted
      => decisions[n] = verdict[n] /\ verdict[n] \in Denials /\ n \notin launched

\* No message is worked on by two enforced calls, however the calls
\* interleave, die or are repeated (claim_replay before invocation).
OneCallPerMessage ==
  \A a, b \in launched : a # b /\ Strict(a) /\ Strict(b) => req[a].msg # req[b].msg

\* No two enforced calls have their worker running at the same time, unless a
\* shadow call that went on without a lease gave the lease of its run away.
OneCallAtATime ==
  \A a, b \in Nodes :
    a # b /\ pc[a] = "running" /\ pc[b] = "running" /\ Strict(a) /\ Strict(b)
      => \E c \in faulted : Mode(c) = "shadow"

\* The artifact a replay row points to came out of a call of that message with
\* the hash of that row, and not of a conflicting envelope.
ArtifactOfClaim ==
  \A m \in Messages :
    LET a == replay[m].artifact
    IN  a # None => /\ a \in launched \cap output
                    /\ req[a].msg = m
                    /\ req[a].hash = replay[m].hash

\* The calls counted against a run never exceed the budget its enforced calls
\* declare, when they all declare the same one.
DeclaredBudgetHeld ==
  \A n \in Nodes :
    /\ pc[n] # "idle"
    /\ \A k \in Nodes : pc[k] # "idle" /\ Run(k) = Run(n)
                         => Strict(k) /\ req[k].budget = req[n].budget
    /\ req[n].budget.calls # None
    => UsedCalls(Run(n)) <= req[n].budget.calls

\* Without faults a call that ended is counted exactly when its worker was
\* called; the one exception is INVALID_DEADLINE, whose path frees the slot
\* but not the reservation.
CountedIffCalled ==
  \A n \in Nodes :
    pc[n] = "done" /\ req[n].mode # "off"
      => (reservations[n].live <=> n \in launched \/ verdict[n] = "INVALID_DEADLINE")

\* Without faults the slot is held only by a call that will give it back.
SlotHasHolder ==
  lease # None => \E n \in Nodes : pc[n] \in Holding /\ Run(n) = lease

----------------------------------------------------------------------------
(* Liveness and cancellation.                                              *)

\* Every call that was made comes to an end.
CallsEnd == \A n \in Nodes : (pc[n] # "idle") ~> (pc[n] \in Ended)

\* In the end the workspace slot is free for the next run.
SlotFreed == <>[](lease = None)

\* A call whose run is cancelled before it reads the cancellation for the last
\* time never launches its worker.
CancelStops ==
  \A n \in Nodes :
    [](/\ pc[n] \in {"replay", "usage", "budget", "decide", "route",
                      "cancel1", "reserve", "cancel2"}
       /\ Run(n) \in cancelled
       => [](n \notin launched))

----------------------------------------------------------------------------
(* What the documentation says and the code does not do.                   *)

\* docs/DECISIONS.md:238: "Later envelopes cannot raise the run limit."  The
\* calls counted against a run stay within its durable budget.
DurableBudgetHeld ==
  \A r \in Runs :
    runBudget[r] # None /\ runBudget[r].calls # None
      => UsedCalls(r) <= runBudget[r].calls

\* CONTEXT.md:53, Gateway: "releases in `finally`".  However a dispatch left,
\* by its return or by an exception, the slot it took is not left behind.
ReleasedInFinally ==
  lease # None => \E n \in Nodes : pc[n] \notin {"idle", "done", "raised"} /\ Run(n) = lease

----------------------------------------------------------------------------
(* The promise of the gateway, see WorkSlot.tla.  Its slot is taken by the *)
(* node that holds the lease, and lost when that node died holding it.     *)

Holder == {n \in Nodes : pc[n] \in Holding}

SlotView ==
  IF Holder # {} THEN CHOOSE n \in Holder : TRUE
  ELSE IF lease = None THEN "free" ELSE "lost"

Served == {<<n, req[n].msg>> : n \in launched}

Slot == INSTANCE WorkSlot WITH Workers <- Nodes, Items <- Messages,
                               slot <- SlotView, served <- Served

ImplementsWorkSlot == Slot!Spec

=============================================================================
