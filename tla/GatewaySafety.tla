--------------------------- MODULE GatewaySafety ---------------------------
(***************************************************************************)
(* The safety theorems of Gateway.tla, for every set of dispatches, every  *)
(* set of requests and every set of faults.  Each rests on an inductive    *)
(* invariant over the path of a dispatch; each invariant is kept because a *)
(* step of one dispatch leaves the others where they are.                  *)
(***************************************************************************)
EXTENDS GatewayProofs

----------------------------------------------------------------------------
(* The path of a dispatch.  Off mode visits neither the control tables'    *)
(* steps nor the reservation; a dispatch launches its worker once; enforce  *)
(* reaches the route only with its allowing row stored; a denial is        *)
(* returned with the code that was recorded last.                          *)

OffSteps      == {"reject", "route", "deadline", "launch", "running", "publish"} \cup Ended
LaunchedSteps == {"running", "commit", "publish", "unlock"} \cup Ended
AllowedSteps  == {"route", "cancel1", "reserve", "cancel2", "deadline", "launch",
                  "running", "commit", "publish", "unlock"}

PathAt(n) ==
  /\ pc[n] # "idle" /\ ~Governed(n) => pc[n] \in OffSteps
  /\ n \in launched => pc[n] \in LaunchedSteps
  /\ pc[n] # "idle" /\ Strict(n) /\ (pc[n] \in AllowedSteps \/ n \in launched)
       => decisions[n] = "ALLOWED"
  /\ n \in faulted => pc[n] # "idle"
  /\ pc[n] = "unlease" => verdict[n] = "INVALID_DEADLINE"
  /\ pc[n] = "annul" => verdict[n] \in {"EXPIRED", "INVALID_DEADLINE"}
  /\ pc[n] = "done" /\ status[n] = "denied" /\ Governed(n) /\ n \notin faulted
       => decisions[n] = verdict[n] /\ verdict[n] \in Denials /\ n \notin launched

PathInv == \A n \in Nodes : PathAt(n)

\* A dispatch leaves the path of the others alone.
LEMMA OthersStay ==
  ASSUME TypeInv, NEW n \in Nodes, Dispatch(n)
  PROVE  /\ req' = req
         /\ pc[n] # "idle"
         /\ launched' \in {launched, launched \cup {n}}
         /\ faulted' \in {faulted, faulted \cup {n}}
         /\ \A k \in Nodes \ {n} : /\ pc'[k] = pc[k] /\ status'[k] = status[k]
                                   /\ decisions'[k] = decisions[k] /\ verdict'[k] = verdict[k]
<1> USE DEF TypeInv, TypeOK, ControlTypeOK
<1>1. CASE Reject(n)
  BY GatewayAssumption, <1>1
     DEF Reject, Go, Return, Meets, CallUnchanged, controlVars, RecordDecision,
         ReplaceDecision, Judge
<1>2. CASE ClaimNew(n)
  BY GatewayAssumption, <1>2
     DEF ClaimNew, Go, Return, Meets, CallUnchanged, controlVars, ClaimMessage
<1>3. CASE AnswerDuplicate(n)
  BY GatewayAssumption, <1>3
     DEF AnswerDuplicate, Go, Return, Meets, CallUnchanged, controlVars
<1>4. CASE DenyConflict(n)
  BY GatewayAssumption, <1>4
     DEF DenyConflict, Go, Return, Meets, CallUnchanged, controlVars, RecordDecision,
         ReplaceDecision, Judge
<1>5. CASE ReplayUnavailable(n)
  BY GatewayAssumption, <1>5
     DEF ReplayUnavailable, Go, Return, Meets, CallUnchanged, controlVars
<1>6. CASE ReadUsage(n)
  BY GatewayAssumption, <1>6
     DEF ReadUsage, Go, Return, Meets, CallUnchanged, controlVars
<1>7. CASE ReadBudget(n)
  BY GatewayAssumption, <1>7
     DEF ReadBudget, Go, Return, Meets, CallUnchanged, controlVars, RecordRunBudget
<1>8. CASE BudgetUnavailable(n)
  BY GatewayAssumption, <1>8
     DEF BudgetUnavailable, Go, Return, Meets, CallUnchanged, controlVars,
         RecordRunBudget
<1>9. CASE Decide(n)
  BY GatewayAssumption, <1>9
     DEF Decide, Go, Return, Meets, CallUnchanged, controlVars, RecordDecision,
         ReplaceDecision, Decided, Judge
<1>10. CASE DecisionNotRecorded(n)
  BY GatewayAssumption, <1>10
     DEF DecisionNotRecorded, Go, Return, Meets, CallUnchanged, controlVars, Judge
<1>11. CASE ApprovalLookupRaises(n)
  BY GatewayAssumption, <1>11
     DEF ApprovalLookupRaises, Go, Return, Meets, CallUnchanged, controlVars
<1>12. CASE RouteAccepted(n)
  BY GatewayAssumption, <1>12
     DEF RouteAccepted, Go, Return, Meets, CallUnchanged, controlVars
<1>13. CASE RouteDenied(n)
  BY GatewayAssumption, <1>13
     DEF RouteDenied, Go, Return, Meets, CallUnchanged, controlVars, RecordDecision,
         ReplaceDecision, Judge
<1>14. CASE NotCancelledEarly(n)
  BY GatewayAssumption, <1>14
     DEF NotCancelledEarly, Go, Return, Meets, CallUnchanged, controlVars
<1>15. CASE CancelledEarly(n)
  BY GatewayAssumption, <1>15
     DEF CancelledEarly, Go, Return, Meets, CallUnchanged, controlVars
<1>16. CASE Reserve(n)
  BY GatewayAssumption, <1>16
     DEF Reserve, Go, Return, Meets, CallUnchanged, controlVars, Admit, SlotFree
<1>17. CASE ReserveRefused(n)
  BY GatewayAssumption, <1>17
     DEF ReserveRefused, Go, Return, Meets, CallUnchanged, controlVars,
         RefuseOverBudget, RefuseBusy
<1>18. CASE ReserveUnavailable(n)
  BY GatewayAssumption, <1>18
     DEF ReserveUnavailable, Go, Return, Meets, CallUnchanged, controlVars
<1>19. CASE NotCancelledLate(n)
  BY GatewayAssumption, <1>19
     DEF NotCancelledLate, Go, Return, Meets, CallUnchanged, controlVars
<1>20. CASE CancelledLate(n)
  BY GatewayAssumption, <1>20
     DEF CancelledLate, Go, Return, Meets, CallUnchanged, controlVars
<1>21. CASE DeadlineOpen(n)
  BY GatewayAssumption, <1>21
     DEF DeadlineOpen, Go, Return, Meets, CallUnchanged, controlVars
<1>22. CASE DeadlinePassed(n)
  BY GatewayAssumption, <1>22
     DEF DeadlinePassed, Go, Return, Meets, CallUnchanged, controlVars, Judge
<1>23. CASE DeadlineInvalid(n)
  BY GatewayAssumption, <1>23
     DEF DeadlineInvalid, Go, Return, Meets, CallUnchanged, controlVars, Judge
<1>24. CASE Rollback(n)
  BY GatewayAssumption, <1>24
     DEF Rollback, Go, Return, Meets, CallUnchanged, controlVars, Release,
         WithoutLeaseOf, GivenBack
<1>25. CASE Unlease(n)
  BY GatewayAssumption, <1>25
     DEF Unlease, Go, Return, Meets, CallUnchanged, controlVars, ReleaseLease,
         WithoutLeaseOf
<1>26. CASE GiveBackFails(n)
  BY GatewayAssumption, <1>26
     DEF GiveBackFails, Go, Return, Meets, CallUnchanged, controlVars, GivenBack
<1>27. CASE Annul(n)
  BY GatewayAssumption, <1>27
     DEF Annul, Go, Return, Meets, CallUnchanged, controlVars, RecordDecision,
         ReplaceDecision
<1>28. CASE Launch(n)
  BY GatewayAssumption, <1>28
     DEF Launch, Go, Return, Meets, CallUnchanged, controlVars, Appended
<1>29. CASE WorkerEnds(n)
  BY GatewayAssumption, <1>29
     DEF WorkerEnds, Go, Return, Meets, CallUnchanged, controlVars
<1>30. CASE Commit(n)
  BY GatewayAssumption, <1>30
     DEF Commit, Go, Return, Meets, CallUnchanged, controlVars, CommitUsage
<1>31. CASE Publish(n)
  BY GatewayAssumption, <1>31
     DEF Publish, Go, Return, Meets, CallUnchanged, controlVars, StoreArtifact,
         UpsertArtifact, Appended
<1>32. CASE Unlock(n)
  BY GatewayAssumption, <1>32
     DEF Unlock, Go, Return, Meets, CallUnchanged, controlVars, ReleaseLease,
         WithoutLeaseOf
<1>33. CASE NoRegistry(n)
  BY GatewayAssumption, <1>33
     DEF NoRegistry, Go, Return, Meets, CallUnchanged, controlVars
<1> QED
  BY <1>1, <1>2, <1>3, <1>4, <1>5, <1>6, <1>7, <1>8, <1>9, <1>10, <1>11, <1>12, <1>13,
     <1>14, <1>15, <1>16, <1>17, <1>18, <1>19, <1>20, <1>21, <1>22, <1>23, <1>24,
     <1>25, <1>26, <1>27, <1>28, <1>29, <1>30, <1>31, <1>32, <1>33
     DEF Dispatch, Decline, Proceed, Misfire

\* A step of a dispatch keeps its own path invariant, action by action.
LEMMA PathStepOfDispatch ==
  ASSUME TypeInv, PathInv, NEW n \in Nodes, Dispatch(n)
  PROVE  PathAt(n)'
<1>0. /\ PathAt(n)
      /\ decisions \in [Nodes -> Codes \cup {None}]
      /\ verdict \in [Nodes -> Codes \cup {None}]
      /\ status \in [Nodes -> Statuses]
      /\ pc \in [Nodes -> Steps]
  BY DEF PathInv, TypeInv, TypeOK, ControlTypeOK
<1>1. CASE Reject(n)
  BY <1>0, <1>1
     DEF Reject, Go, Return, Meets, CallUnchanged, controlVars, RecordDecision,
         ReplaceDecision, Judge, Denials, RejectCode, PathAt, Governed, Strict, Mode,
         OffSteps, LaunchedSteps, AllowedSteps, Ended
<1>2. CASE ClaimNew(n)
  BY <1>0, <1>2
     DEF ClaimNew, Go, Return, Meets, CallUnchanged, controlVars, ClaimMessage, PathAt,
         Governed, Strict, Mode, OffSteps, LaunchedSteps, AllowedSteps, Ended
<1>3. CASE AnswerDuplicate(n)
  BY <1>0, <1>3
     DEF AnswerDuplicate, Go, Return, Meets, CallUnchanged, controlVars, PathAt,
         Governed, Strict, Mode, OffSteps, LaunchedSteps, AllowedSteps, Ended
<1>4. CASE DenyConflict(n)
  BY <1>0, <1>4
     DEF DenyConflict, Go, Return, Meets, CallUnchanged, controlVars, RecordDecision,
         ReplaceDecision, Judge, Denials, PathAt, Governed, Strict, Mode, OffSteps,
         LaunchedSteps, AllowedSteps, Ended
<1>5. CASE ReplayUnavailable(n)
  BY <1>0, <1>5
     DEF ReplayUnavailable, Go, Return, Meets, CallUnchanged, controlVars, PathAt,
         Governed, Strict, Mode, OffSteps, LaunchedSteps, AllowedSteps, Ended
<1>6. CASE ReadUsage(n)
  BY <1>0, <1>6
     DEF ReadUsage, Go, Return, Meets, CallUnchanged, controlVars, PathAt, Governed,
         Strict, Mode, OffSteps, LaunchedSteps, AllowedSteps, Ended
<1>7. CASE ReadBudget(n)
  BY <1>0, <1>7
     DEF ReadBudget, Go, Return, Meets, CallUnchanged, controlVars, RecordRunBudget,
         PathAt, Governed, Strict, Mode, OffSteps, LaunchedSteps, AllowedSteps, Ended
<1>8. CASE BudgetUnavailable(n)
  BY <1>0, <1>8
     DEF BudgetUnavailable, Go, Return, Meets, CallUnchanged, controlVars,
         RecordRunBudget, PathAt, Governed, Strict, Mode, OffSteps, LaunchedSteps,
         AllowedSteps, Ended
<1>9. CASE Decide(n)
  BY <1>0, <1>9
     DEF Decide, Go, Return, Meets, CallUnchanged, controlVars, RecordDecision,
         ReplaceDecision, Decided, Judge, Denials, PolicyCode, BudgetCode, PathAt,
         Governed, Strict, Mode, OffSteps, LaunchedSteps, AllowedSteps, Ended
<1>10. CASE DecisionNotRecorded(n)
  BY <1>0, <1>10
     DEF DecisionNotRecorded, Go, Return, Meets, CallUnchanged, controlVars, Judge,
         Denials, PolicyCode, BudgetCode, PathAt, Governed, Strict, Mode, OffSteps,
         LaunchedSteps, AllowedSteps, Ended
<1>11. CASE ApprovalLookupRaises(n)
  BY <1>0, <1>11
     DEF ApprovalLookupRaises, Go, Return, Meets, CallUnchanged, controlVars, PathAt,
         Governed, Strict, Mode, OffSteps, LaunchedSteps, AllowedSteps, Ended
<1>12. CASE RouteAccepted(n)
  BY <1>0, <1>12
     DEF RouteAccepted, Go, Return, Meets, CallUnchanged, controlVars, PathAt,
         Governed, Strict, Mode, OffSteps, LaunchedSteps, AllowedSteps, Ended
<1>13. CASE RouteDenied(n)
  BY <1>0, <1>13
     DEF RouteDenied, Go, Return, Meets, CallUnchanged, controlVars, RecordDecision,
         ReplaceDecision, Judge, Denials, PathAt, Governed, Strict, Mode, OffSteps,
         LaunchedSteps, AllowedSteps, Ended
<1>14. CASE NotCancelledEarly(n)
  BY <1>0, <1>14
     DEF NotCancelledEarly, Go, Return, Meets, CallUnchanged, controlVars, PathAt,
         Governed, Strict, Mode, OffSteps, LaunchedSteps, AllowedSteps, Ended
<1>15. CASE CancelledEarly(n)
  BY <1>0, <1>15
     DEF CancelledEarly, Go, Return, Meets, CallUnchanged, controlVars, PathAt,
         Governed, Strict, Mode, OffSteps, LaunchedSteps, AllowedSteps, Ended
<1>16. CASE Reserve(n)
  BY <1>0, <1>16
     DEF Reserve, Go, Return, Meets, CallUnchanged, controlVars, Admit, SlotFree,
         PathAt, Governed, Strict, Mode, OffSteps, LaunchedSteps, AllowedSteps, Ended
<1>17. CASE ReserveRefused(n)
  BY <1>0, <1>17
     DEF ReserveRefused, Go, Return, Meets, CallUnchanged, controlVars,
         RefuseOverBudget, RefuseBusy, PathAt, Governed, Strict, Mode, OffSteps,
         LaunchedSteps, AllowedSteps, Ended
<1>18. CASE ReserveUnavailable(n)
  BY <1>0, <1>18
     DEF ReserveUnavailable, Go, Return, Meets, CallUnchanged, controlVars, PathAt,
         Governed, Strict, Mode, OffSteps, LaunchedSteps, AllowedSteps, Ended
<1>19. CASE NotCancelledLate(n)
  BY <1>0, <1>19
     DEF NotCancelledLate, Go, Return, Meets, CallUnchanged, controlVars, PathAt,
         Governed, Strict, Mode, OffSteps, LaunchedSteps, AllowedSteps, Ended
<1>20. CASE CancelledLate(n)
  BY <1>0, <1>20
     DEF CancelledLate, Go, Return, Meets, CallUnchanged, controlVars, PathAt,
         Governed, Strict, Mode, OffSteps, LaunchedSteps, AllowedSteps, Ended
<1>21. CASE DeadlineOpen(n)
  BY <1>0, <1>21
     DEF DeadlineOpen, Go, Return, Meets, CallUnchanged, controlVars, PathAt, Governed,
         Strict, Mode, OffSteps, LaunchedSteps, AllowedSteps, Ended
<1>22. CASE DeadlinePassed(n)
  BY <1>0, <1>22
     DEF DeadlinePassed, Go, Return, Meets, CallUnchanged, controlVars, Judge, Denials,
         PathAt, Governed, Strict, Mode, OffSteps, LaunchedSteps, AllowedSteps, Ended
<1>23. CASE DeadlineInvalid(n)
  BY <1>0, <1>23
     DEF DeadlineInvalid, Go, Return, Meets, CallUnchanged, controlVars, Judge,
         Denials, PathAt, Governed, Strict, Mode, OffSteps, LaunchedSteps,
         AllowedSteps, Ended
<1>24. CASE Rollback(n)
  BY <1>0, <1>24
     DEF Rollback, Go, Return, Meets, CallUnchanged, controlVars, Release,
         WithoutLeaseOf, GivenBack, PathAt, Governed, Strict, Mode, OffSteps,
         LaunchedSteps, AllowedSteps, Ended
<1>25. CASE Unlease(n)
  BY <1>0, <1>25
     DEF Unlease, Go, Return, Meets, CallUnchanged, controlVars, ReleaseLease,
         WithoutLeaseOf, PathAt, Governed, Strict, Mode, OffSteps, LaunchedSteps,
         AllowedSteps, Ended
<1>26. CASE GiveBackFails(n)
  BY <1>0, <1>26
     DEF GiveBackFails, Go, Return, Meets, CallUnchanged, controlVars, GivenBack,
         PathAt, Governed, Strict, Mode, OffSteps, LaunchedSteps, AllowedSteps, Ended
<1>27. CASE Annul(n)
  BY <1>0, <1>27
     DEF Annul, Go, Return, Meets, CallUnchanged, controlVars, RecordDecision,
         ReplaceDecision, Denials, PathAt, Governed, Strict, Mode, OffSteps,
         LaunchedSteps, AllowedSteps, Ended
<1>28. CASE Launch(n)
  BY <1>0, <1>28
     DEF Launch, Go, Return, Meets, CallUnchanged, controlVars, Appended, PathAt,
         Governed, Strict, Mode, OffSteps, LaunchedSteps, AllowedSteps, Ended
<1>29. CASE WorkerEnds(n)
  BY <1>0, <1>29
     DEF WorkerEnds, Go, Return, Meets, CallUnchanged, controlVars, PathAt, Governed,
         Strict, Mode, OffSteps, LaunchedSteps, AllowedSteps, Ended
<1>30. CASE Commit(n)
  BY <1>0, <1>30
     DEF Commit, Go, Return, Meets, CallUnchanged, controlVars, CommitUsage, PathAt,
         Governed, Strict, Mode, OffSteps, LaunchedSteps, AllowedSteps, Ended
<1>31. CASE Publish(n)
  BY <1>0, <1>31
     DEF Publish, Go, Return, Meets, CallUnchanged, controlVars, StoreArtifact,
         UpsertArtifact, Appended, PathAt, Governed, Strict, Mode, OffSteps,
         LaunchedSteps, AllowedSteps, Ended
<1>32. CASE Unlock(n)
  BY <1>0, <1>32
     DEF Unlock, Go, Return, Meets, CallUnchanged, controlVars, ReleaseLease,
         WithoutLeaseOf, PathAt, Governed, Strict, Mode, OffSteps, LaunchedSteps,
         AllowedSteps, Ended
<1>33. CASE NoRegistry(n)
  BY <1>0, <1>33
     DEF NoRegistry, Go, Return, Meets, CallUnchanged, controlVars, PathAt, Governed,
         Strict, Mode, OffSteps, LaunchedSteps, AllowedSteps, Ended
<1> QED
  BY <1>1, <1>2, <1>3, <1>4, <1>5, <1>6, <1>7, <1>8, <1>9, <1>10, <1>11, <1>12, <1>13,
     <1>14, <1>15, <1>16, <1>17, <1>18, <1>19, <1>20, <1>21, <1>22, <1>23, <1>24,
     <1>25, <1>26, <1>27, <1>28, <1>29, <1>30, <1>31, <1>32, <1>33
     DEF Dispatch, Decline, Proceed, Misfire

\* Every step keeps the path invariant of every dispatch.
LEMMA PathStep == TypeInv /\ PathInv /\ [Next]_vars => PathInv'
<1> SUFFICES ASSUME TypeInv, PathInv, [Next]_vars, NEW k \in Nodes PROVE PathAt(k)'
  BY DEF PathInv
<1>0. PathAt(k)
  BY DEF PathInv
<1> USE DEF Governed, Strict, Mode
<1>1. ASSUME NEW n \in Nodes, Dispatch(n) PROVE PathAt(k)'
  <2>1. CASE k = n
    BY <1>1, <2>1, PathStepOfDispatch
  <2>2. CASE k # n
    BY <1>0, <1>1, <2>2, OthersStay DEF PathAt
  <2> QED
    BY <2>1, <2>2
<1>2. ASSUME NEW n \in Nodes, Arrive(n) PROVE PathAt(k)'
  <2>1. n \notin launched
    BY <1>2 DEF PathInv, PathAt, LaunchedSteps, Ended, Arrive, Go
  <2>2. PICK q \in Requests : Go(n, "idle", FirstStep(q)) /\ req' = [req EXCEPT ![n] = q]
    BY <1>2 DEF Arrive
  <2>3. /\ UNCHANGED <<controlVars, status, launched, faulted>>
        /\ \A i \in Nodes \ {n} : verdict'[i] = verdict[i]
    BY <1>2 DEF Arrive, TypeInv, TypeOK
  <2>4. \/ FirstStep(q) = "reject"
        \/ FirstStep(q) = "replay" /\ q.mode # "off"
        \/ FirstStep(q) = "route" /\ q.mode = "off"
    BY DEF FirstStep
  <2>5. CASE k = n
    <3>1. pc'[n] = FirstStep(q) /\ req'[n] = q
      BY <2>2 DEF Go, TypeInv, TypeOK
    <3>2. q.mode \in Modes
      BY GatewayAssumption DEF Request
    <3> QED
      BY <2>1, <2>3, <2>4, <2>5, <3>1, <3>2
         DEF PathAt, OffSteps, LaunchedSteps, AllowedSteps, Ended, Modes
  <2>6. CASE k # n
    BY <1>0, <2>2, <2>3, <2>6 DEF PathAt, Go, TypeInv, TypeOK, controlVars
  <2> QED
    BY <2>5, <2>6
<1>3. ASSUME NEW n \in Nodes, Abort(n) PROVE PathAt(k)'
  BY <1>0, <1>3 DEF PathAt, Abort, CallUnchanged, controlVars, TypeInv, TypeOK,
                    OffSteps, LaunchedSteps, AllowedSteps, Ended
<1>4. ASSUME NEW r \in Runs, Cancel(r) PROVE PathAt(k)'
  BY <1>0, <1>4 DEF PathAt, Cancel, CancelRun, gatewayVars
<1>5. CASE UNCHANGED vars
  BY <1>0, <1>5 DEF PathAt, vars, gatewayVars, controlVars
<1> QED
  BY <1>1, <1>2, <1>3, <1>4, <1>5 DEF Next, AllEnded

\* No dispatch has begun.
LEMMA PathInit == Init => PathInv
BY DEF Init, PathInv, PathAt, OffSteps, LaunchedSteps, AllowedSteps

\* Types and paths together are inductive.
LEMMA PathInvariant == Spec => [](TypeInv /\ PathInv)
<1>1. Init => TypeInv /\ PathInv
  BY TypeInit, PathInit
<1>2. TypeInv /\ PathInv /\ [Next]_vars => (TypeInv /\ PathInv)'
  BY TypeStep, PathStep
<1> QED
  BY <1>1, <1>2, PTL DEF Spec

\* Persisted before dispatch: whatever fails, the worker of an enforced call
\* is called only with the allowing row stored, and no later step of this or
\* another dispatch changes that row.
THEOREM AllowIsOnRecord == Spec => []AllowOnRecord
<1>1. TypeInv /\ PathInv => AllowOnRecord
  BY DEF TypeInv, TypeOK, PathInv, PathAt, AllowOnRecord, LaunchedSteps, Ended
<1> QED
  BY <1>1, PathInvariant, PTL

\* A governed call answered "denied" left a row with the code it was denied
\* with, although the same decision_id may have been recorded as allowed first.
THEOREM DenialIsOnRecord == Spec => []DenialOnRecord
<1>1. PathInv => DenialOnRecord
  BY DEF PathInv, PathAt, DenialOnRecord
<1> QED
  BY <1>1, PathInvariant, PTL

----------------------------------------------------------------------------
(* The claim of a message.  An enforced call passes step 3 only by the     *)
(* insert of its message's row, and no step deletes a row or its hash.     *)

ClaimedSteps == {"usage", "budget", "decide", "route", "cancel1", "reserve", "annul"}
                  \cup Holding

\* Whose claim cannot be passed over: a shadow call goes on when claim_replay
\* fails.
Claimant(n) == Strict(n) \/ (Governed(n) /\ ~Fault("control"))

Claimed(n) == pc[n] # "idle" /\ Claimant(n) /\ (pc[n] \in ClaimedSteps \/ n \in launched)

ClaimInv ==
  \A a \in Nodes :
    Claimed(a) => /\ replay[req[a].msg].hash # None
                  /\ \A b \in Nodes \ {a} : Claimed(b) => req[a].msg # req[b].msg

\* A dispatch becomes a claimant only through a row that was not there.
LEMMA ClaimStepOfDispatch ==
  ASSUME TypeInv, NEW n \in Nodes, Dispatch(n)
  PROVE  /\ \A m \in Messages : replay[m].hash # None => replay'[m].hash # None
         /\ \/ Claimed(n)' => Claimed(n)
            \/ replay[req[n].msg].hash = None /\ replay'[req[n].msg].hash # None
<1>0. /\ pc[n] # "idle" => req[n].msg \in Messages /\ req[n].hash \in Hashes
      /\ None \notin Hashes
      /\ replay \in [Messages -> [hash : Hashes \cup {None}, artifact : Nodes \cup {None}]]
      /\ pc \in [Nodes -> Steps]
  BY GatewayAssumption, ControlAssumption
     DEF TypeInv, TypeOK, ControlTypeOK, Started, Request
<1>1. CASE Reject(n)
  BY <1>0, <1>1
     DEF Reject, Go, Return, Meets, CallUnchanged, controlVars, RecordDecision,
         ReplaceDecision, Claimed, ClaimedSteps, Holding, Claimant, Strict, Governed,
         Mode
<1>2. CASE ClaimNew(n)
  BY <1>0, <1>2
     DEF ClaimNew, Go, Return, Meets, CallUnchanged, controlVars, ClaimMessage,
         ReplayState, Claimed, ClaimedSteps, Holding, Claimant, Strict, Governed, Mode
<1>3. CASE AnswerDuplicate(n)
  BY <1>0, <1>3
     DEF AnswerDuplicate, Go, Return, Meets, CallUnchanged, controlVars, Claimed,
         ClaimedSteps, Holding, Claimant, Strict, Governed, Mode
<1>4. CASE DenyConflict(n)
  BY <1>0, <1>4
     DEF DenyConflict, Go, Return, Meets, CallUnchanged, controlVars, RecordDecision,
         ReplaceDecision, Claimed, ClaimedSteps, Holding, Claimant, Strict, Governed,
         Mode
<1>5. CASE ReplayUnavailable(n)
  BY <1>0, <1>5
     DEF ReplayUnavailable, Go, Return, Meets, CallUnchanged, controlVars, Claimed,
         ClaimedSteps, Holding, Claimant, Strict, Governed, Mode
<1>6. CASE ReadUsage(n)
  BY <1>0, <1>6
     DEF ReadUsage, Go, Return, Meets, CallUnchanged, controlVars, Claimed,
         ClaimedSteps, Holding, Claimant, Strict, Governed, Mode
<1>7. CASE ReadBudget(n)
  BY <1>0, <1>7
     DEF ReadBudget, Go, Return, Meets, CallUnchanged, controlVars, RecordRunBudget,
         Claimed, ClaimedSteps, Holding, Claimant, Strict, Governed, Mode
<1>8. CASE BudgetUnavailable(n)
  BY <1>0, <1>8
     DEF BudgetUnavailable, Go, Return, Meets, CallUnchanged, controlVars,
         RecordRunBudget, Claimed, ClaimedSteps, Holding, Claimant, Strict, Governed,
         Mode
<1>9. CASE Decide(n)
  BY <1>0, <1>9
     DEF Decide, Go, Return, Meets, CallUnchanged, controlVars, RecordDecision,
         ReplaceDecision, Decided, Claimed, ClaimedSteps, Holding, Claimant, Strict,
         Governed, Mode
<1>10. CASE DecisionNotRecorded(n)
  BY <1>0, <1>10
     DEF DecisionNotRecorded, Go, Return, Meets, CallUnchanged, controlVars, Claimed,
         ClaimedSteps, Holding, Claimant, Strict, Governed, Mode
<1>11. CASE ApprovalLookupRaises(n)
  BY <1>0, <1>11
     DEF ApprovalLookupRaises, Go, Return, Meets, CallUnchanged, controlVars, Claimed,
         ClaimedSteps, Holding, Claimant, Strict, Governed, Mode
<1>12. CASE RouteAccepted(n)
  BY <1>0, <1>12
     DEF RouteAccepted, Go, Return, Meets, CallUnchanged, controlVars, Claimed,
         ClaimedSteps, Holding, Claimant, Strict, Governed, Mode
<1>13. CASE RouteDenied(n)
  BY <1>0, <1>13
     DEF RouteDenied, Go, Return, Meets, CallUnchanged, controlVars, RecordDecision,
         ReplaceDecision, Claimed, ClaimedSteps, Holding, Claimant, Strict, Governed,
         Mode
<1>14. CASE NotCancelledEarly(n)
  BY <1>0, <1>14
     DEF NotCancelledEarly, Go, Return, Meets, CallUnchanged, controlVars, Claimed,
         ClaimedSteps, Holding, Claimant, Strict, Governed, Mode
<1>15. CASE CancelledEarly(n)
  BY <1>0, <1>15
     DEF CancelledEarly, Go, Return, Meets, CallUnchanged, controlVars, Claimed,
         ClaimedSteps, Holding, Claimant, Strict, Governed, Mode
<1>16. CASE Reserve(n)
  BY <1>0, <1>16
     DEF Reserve, Go, Return, Meets, CallUnchanged, controlVars, Admit, SlotFree,
         Claimed, ClaimedSteps, Holding, Claimant, Strict, Governed, Mode
<1>17. CASE ReserveRefused(n)
  BY <1>0, <1>17
     DEF ReserveRefused, Go, Return, Meets, CallUnchanged, controlVars,
         RefuseOverBudget, RefuseBusy, Claimed, ClaimedSteps, Holding, Claimant,
         Strict, Governed, Mode
<1>18. CASE ReserveUnavailable(n)
  BY <1>0, <1>18
     DEF ReserveUnavailable, Go, Return, Meets, CallUnchanged, controlVars, Claimed,
         ClaimedSteps, Holding, Claimant, Strict, Governed, Mode
<1>19. CASE NotCancelledLate(n)
  BY <1>0, <1>19
     DEF NotCancelledLate, Go, Return, Meets, CallUnchanged, controlVars, Claimed,
         ClaimedSteps, Holding, Claimant, Strict, Governed, Mode
<1>20. CASE CancelledLate(n)
  BY <1>0, <1>20
     DEF CancelledLate, Go, Return, Meets, CallUnchanged, controlVars, Claimed,
         ClaimedSteps, Holding, Claimant, Strict, Governed, Mode
<1>21. CASE DeadlineOpen(n)
  BY <1>0, <1>21
     DEF DeadlineOpen, Go, Return, Meets, CallUnchanged, controlVars, Claimed,
         ClaimedSteps, Holding, Claimant, Strict, Governed, Mode
<1>22. CASE DeadlinePassed(n)
  BY <1>0, <1>22
     DEF DeadlinePassed, Go, Return, Meets, CallUnchanged, controlVars, Claimed,
         ClaimedSteps, Holding, Claimant, Strict, Governed, Mode
<1>23. CASE DeadlineInvalid(n)
  BY <1>0, <1>23
     DEF DeadlineInvalid, Go, Return, Meets, CallUnchanged, controlVars, Claimed,
         ClaimedSteps, Holding, Claimant, Strict, Governed, Mode
<1>24. CASE Rollback(n)
  BY <1>0, <1>24
     DEF Rollback, Go, Return, Meets, CallUnchanged, controlVars, Release,
         WithoutLeaseOf, GivenBack, Claimed, ClaimedSteps, Holding, Claimant, Strict,
         Governed, Mode
<1>25. CASE Unlease(n)
  BY <1>0, <1>25
     DEF Unlease, Go, Return, Meets, CallUnchanged, controlVars, ReleaseLease,
         WithoutLeaseOf, Claimed, ClaimedSteps, Holding, Claimant, Strict, Governed,
         Mode
<1>26. CASE GiveBackFails(n)
  BY <1>0, <1>26
     DEF GiveBackFails, Go, Return, Meets, CallUnchanged, controlVars, GivenBack,
         Claimed, ClaimedSteps, Holding, Claimant, Strict, Governed, Mode
<1>27. CASE Annul(n)
  BY <1>0, <1>27
     DEF Annul, Go, Return, Meets, CallUnchanged, controlVars, RecordDecision,
         ReplaceDecision, Claimed, ClaimedSteps, Holding, Claimant, Strict, Governed,
         Mode
<1>28. CASE Launch(n)
  BY <1>0, <1>28
     DEF Launch, Go, Return, Meets, CallUnchanged, controlVars, Appended, Claimed,
         ClaimedSteps, Holding, Claimant, Strict, Governed, Mode
<1>29. CASE WorkerEnds(n)
  BY <1>0, <1>29
     DEF WorkerEnds, Go, Return, Meets, CallUnchanged, controlVars, Claimed,
         ClaimedSteps, Holding, Claimant, Strict, Governed, Mode
<1>30. CASE Commit(n)
  BY <1>0, <1>30
     DEF Commit, Go, Return, Meets, CallUnchanged, controlVars, CommitUsage, Claimed,
         ClaimedSteps, Holding, Claimant, Strict, Governed, Mode
<1>31. CASE Publish(n)
  BY <1>0, <1>31
     DEF Publish, Go, Return, Meets, CallUnchanged, controlVars, StoreArtifact,
         UpsertArtifact, Appended, Claimed, ClaimedSteps, Holding, Claimant, Strict,
         Governed, Mode
<1>32. CASE Unlock(n)
  BY <1>0, <1>32
     DEF Unlock, Go, Return, Meets, CallUnchanged, controlVars, ReleaseLease,
         WithoutLeaseOf, Claimed, ClaimedSteps, Holding, Claimant, Strict, Governed,
         Mode
<1>33. CASE NoRegistry(n)
  BY <1>0, <1>33
     DEF NoRegistry, Go, Return, Meets, CallUnchanged, controlVars, Claimed,
         ClaimedSteps, Holding, Claimant, Strict, Governed, Mode
<1> QED
  BY <1>1, <1>2, <1>3, <1>4, <1>5, <1>6, <1>7, <1>8, <1>9, <1>10, <1>11, <1>12, <1>13,
     <1>14, <1>15, <1>16, <1>17, <1>18, <1>19, <1>20, <1>21, <1>22, <1>23, <1>24,
     <1>25, <1>26, <1>27, <1>28, <1>29, <1>30, <1>31, <1>32, <1>33
     DEF Dispatch, Decline, Proceed, Misfire

\* Every step keeps the claims apart.
LEMMA ClaimStep == TypeInv /\ PathInv /\ ClaimInv /\ [Next]_vars => ClaimInv'
<1> SUFFICES ASSUME TypeInv, PathInv, ClaimInv, [Next]_vars PROVE ClaimInv'
  OBVIOUS
<1>0. \A k \in Nodes : pc[k] # "idle" => req[k].msg \in Messages
  BY GatewayAssumption DEF TypeInv, Started, Request
<1>1. ASSUME NEW n \in Nodes, Dispatch(n) PROVE ClaimInv'
  <2>1. /\ req' = req
        /\ \A k \in Nodes \ {n} : Claimed(k)' <=> Claimed(k)
    BY <1>1, OthersStay DEF Claimed, Claimant, Strict, Governed, Mode
  <2>2. /\ \A m \in Messages : replay[m].hash # None => replay'[m].hash # None
        /\ \/ Claimed(n)' => Claimed(n)
           \/ replay[req[n].msg].hash = None /\ replay'[req[n].msg].hash # None
    BY <1>1, ClaimStepOfDispatch
  <2>3. \A k \in Nodes : Claimed(k) => req[k].msg \in Messages
    BY <1>0 DEF Claimed
  <2>4. CASE Claimed(n)' => Claimed(n)
    BY <2>1, <2>2, <2>3, <2>4 DEF ClaimInv
  <2>5. CASE replay[req[n].msg].hash = None /\ replay'[req[n].msg].hash # None
    BY <2>1, <2>2, <2>3, <2>5 DEF ClaimInv
  <2> QED
    BY <2>2, <2>4, <2>5
<1>2. ASSUME NEW n \in Nodes, Arrive(n) PROVE ClaimInv'
  <2>1. replay' = replay /\ ~Claimed(n)'
    <3>1. n \notin launched /\ launched' = launched /\ replay' = replay
      BY <1>2 DEF PathInv, PathAt, LaunchedSteps, Ended, Arrive, Go, controlVars
    <3>2. PICK q \in Requests : pc'[n] = FirstStep(q) /\ req'[n] = q
      BY <1>2 DEF Arrive, Go, TypeInv, TypeOK
    <3>3. FirstStep(q) \in {"reject", "replay"} \/ q.mode = "off"
      BY DEF FirstStep
    <3> QED
      BY <3>1, <3>2, <3>3
         DEF Claimed, ClaimedSteps, Holding, Claimant, Strict, Governed, Mode
  <2>2. \A k \in Nodes \ {n} : req'[k] = req[k] /\ (Claimed(k)' <=> Claimed(k))
    BY <1>2 DEF Arrive, Go, Claimed, Claimant, Strict, Governed, Mode, TypeInv, TypeOK
  <2> QED
    BY <2>1, <2>2 DEF ClaimInv
<1>3. ASSUME NEW n \in Nodes, Abort(n) PROVE ClaimInv'
  <2>1. req' = req /\ replay' = replay /\ launched' = launched
    BY <1>3 DEF Abort, CallUnchanged, controlVars
  <2>2. \A k \in Nodes : Claimed(k)' => Claimed(k)
    BY <1>3, <2>1
       DEF Abort, Claimed, ClaimedSteps, Holding, Claimant, Strict, Governed, Mode,
           TypeInv, TypeOK
  <2> QED
    BY <2>1, <2>2 DEF ClaimInv
<1>4. ASSUME NEW r \in Runs, Cancel(r) PROVE ClaimInv'
  BY <1>4 DEF ClaimInv, Claimed, Claimant, Strict, Governed, Mode, Cancel, CancelRun,
              gatewayVars
<1>5. CASE UNCHANGED vars
  BY <1>5 DEF ClaimInv, Claimed, Claimant, Strict, Governed, Mode, vars, gatewayVars,
              controlVars
<1> QED
  BY <1>1, <1>2, <1>3, <1>4, <1>5 DEF Next, AllEnded

\* No message is worked on by two enforced calls, whatever fails, dies or is
\* repeated, and whatever calls of the other modes come between.
THEOREM MessageCalledOnce == Spec => []OneCallPerMessage
<1>1. Init => ClaimInv
  BY DEF Init, ClaimInv, Claimed
<1>2. TypeInv /\ PathInv /\ ClaimInv /\ [Next]_vars => ClaimInv'
  BY ClaimStep
<1>3. TypeInv /\ PathInv /\ ClaimInv => OneCallPerMessage
  <2>1. ASSUME TypeInv, PathInv, NEW k \in launched, Strict(k)
        PROVE  k \in Nodes /\ Claimed(k)
    <3>1. k \in Nodes /\ pc[k] # "idle"
      BY <2>1 DEF PathInv, PathAt, LaunchedSteps, Ended, TypeInv, TypeOK
    <3> QED
      BY <2>1, <3>1 DEF Claimed, Claimant
  <2> QED
    BY <2>1 DEF ClaimInv, OneCallPerMessage
<1> QED
  BY <1>1, <1>2, <1>3, PathInvariant, PTL DEF Spec

----------------------------------------------------------------------------
(* The lease.  As long as no shadow call went on after a failed access, a  *)
(* governed call between its reservation and its release owns the lease    *)
(* of its run and is alone there: the row is inserted only into an empty   *)
(* table, and deleted only by its owner.                                   *)

Bypassed     == Fault("control") /\ \E c \in faulted : Mode(c) = "shadow"
GovHolder(n) == pc[n] \in Holding /\ Governed(n)

LeaseInv ==
  ~Bypassed => \A a \in Nodes :
    GovHolder(a) => lease = Run(a) /\ \A b \in Nodes \ {a} : ~GovHolder(b)

\* A dispatch takes the lease when it is free, keeps it, or leaves.
LEMMA LeaseStepOfDispatch ==
  ASSUME TypeInv, PathInv, NEW n \in Nodes, Dispatch(n)
  PROVE  \/ lease = None /\ lease' = Run(n)
         \/ lease' = lease /\ (GovHolder(n)' => GovHolder(n))
         \/ GovHolder(n) /\ ~GovHolder(n)'
         \/ Fault("control") /\ n \in faulted' /\ Mode(n) = "shadow"
<1>0. pc \in [Nodes -> Steps] /\ req \in [Nodes -> Requests \cup {None}] /\ PathAt(n)
  BY DEF PathInv, TypeInv, TypeOK
<1>00. pc[n] # "idle" => Mode(n) \in Modes
  BY GatewayAssumption DEF TypeInv, Started, Request, Mode
<1>1. CASE Reject(n)
  BY <1>0, <1>00, <1>1
     DEF Reject, Go, Return, Meets, CallUnchanged, controlVars, RecordDecision,
         ReplaceDecision, PathAt, OffSteps, Ended, GovHolder, Holding, Governed,
         Strict, Mode, Modes, Run
<1>2. CASE ClaimNew(n)
  BY <1>0, <1>00, <1>2
     DEF ClaimNew, Go, Return, Meets, CallUnchanged, controlVars, ClaimMessage, PathAt,
         OffSteps, Ended, GovHolder, Holding, Governed, Strict, Mode, Modes, Run
<1>3. CASE AnswerDuplicate(n)
  BY <1>0, <1>00, <1>3
     DEF AnswerDuplicate, Go, Return, Meets, CallUnchanged, controlVars, PathAt,
         OffSteps, Ended, GovHolder, Holding, Governed, Strict, Mode, Modes, Run
<1>4. CASE DenyConflict(n)
  BY <1>0, <1>00, <1>4
     DEF DenyConflict, Go, Return, Meets, CallUnchanged, controlVars, RecordDecision,
         ReplaceDecision, PathAt, OffSteps, Ended, GovHolder, Holding, Governed,
         Strict, Mode, Modes, Run
<1>5. CASE ReplayUnavailable(n)
  BY <1>0, <1>00, <1>5
     DEF ReplayUnavailable, Go, Return, Meets, CallUnchanged, controlVars, PathAt,
         OffSteps, Ended, GovHolder, Holding, Governed, Strict, Mode, Modes, Run
<1>6. CASE ReadUsage(n)
  BY <1>0, <1>00, <1>6
     DEF ReadUsage, Go, Return, Meets, CallUnchanged, controlVars, PathAt, OffSteps,
         Ended, GovHolder, Holding, Governed, Strict, Mode, Modes, Run
<1>7. CASE ReadBudget(n)
  BY <1>0, <1>00, <1>7
     DEF ReadBudget, Go, Return, Meets, CallUnchanged, controlVars, RecordRunBudget,
         PathAt, OffSteps, Ended, GovHolder, Holding, Governed, Strict, Mode, Modes, Run
<1>8. CASE BudgetUnavailable(n)
  BY <1>0, <1>00, <1>8
     DEF BudgetUnavailable, Go, Return, Meets, CallUnchanged, controlVars,
         RecordRunBudget, PathAt, OffSteps, Ended, GovHolder, Holding, Governed,
         Strict, Mode, Modes, Run
<1>9. CASE Decide(n)
  BY <1>0, <1>00, <1>9
     DEF Decide, Go, Return, Meets, CallUnchanged, controlVars, RecordDecision,
         ReplaceDecision, Decided, PathAt, OffSteps, Ended, GovHolder, Holding,
         Governed, Strict, Mode, Modes, Run
<1>10. CASE DecisionNotRecorded(n)
  BY <1>0, <1>00, <1>10
     DEF DecisionNotRecorded, Go, Return, Meets, CallUnchanged, controlVars, PathAt,
         OffSteps, Ended, GovHolder, Holding, Governed, Strict, Mode, Modes, Run
<1>11. CASE ApprovalLookupRaises(n)
  BY <1>0, <1>00, <1>11
     DEF ApprovalLookupRaises, Go, Return, Meets, CallUnchanged, controlVars, PathAt,
         OffSteps, Ended, GovHolder, Holding, Governed, Strict, Mode, Modes, Run
<1>12. CASE RouteAccepted(n)
  BY <1>0, <1>00, <1>12
     DEF RouteAccepted, Go, Return, Meets, CallUnchanged, controlVars, PathAt,
         OffSteps, Ended, GovHolder, Holding, Governed, Strict, Mode, Modes, Run
<1>13. CASE RouteDenied(n)
  BY <1>0, <1>00, <1>13
     DEF RouteDenied, Go, Return, Meets, CallUnchanged, controlVars, RecordDecision,
         ReplaceDecision, PathAt, OffSteps, Ended, GovHolder, Holding, Governed,
         Strict, Mode, Modes, Run
<1>14. CASE NotCancelledEarly(n)
  BY <1>0, <1>00, <1>14
     DEF NotCancelledEarly, Go, Return, Meets, CallUnchanged, controlVars, PathAt,
         OffSteps, Ended, GovHolder, Holding, Governed, Strict, Mode, Modes, Run
<1>15. CASE CancelledEarly(n)
  BY <1>0, <1>00, <1>15
     DEF CancelledEarly, Go, Return, Meets, CallUnchanged, controlVars, PathAt,
         OffSteps, Ended, GovHolder, Holding, Governed, Strict, Mode, Modes, Run
<1>16. CASE Reserve(n)
  BY <1>0, <1>00, <1>16
     DEF Reserve, Go, Return, Meets, CallUnchanged, controlVars, Admit, SlotFree,
         PathAt, OffSteps, Ended, GovHolder, Holding, Governed, Strict, Mode, Modes, Run
<1>17. CASE ReserveRefused(n)
  BY <1>0, <1>00, <1>17
     DEF ReserveRefused, Go, Return, Meets, CallUnchanged, controlVars,
         RefuseOverBudget, RefuseBusy, PathAt, OffSteps, Ended, GovHolder, Holding,
         Governed, Strict, Mode, Modes, Run
<1>18. CASE ReserveUnavailable(n)
  BY <1>0, <1>00, <1>18
     DEF ReserveUnavailable, Go, Return, Meets, CallUnchanged, controlVars, PathAt,
         OffSteps, Ended, GovHolder, Holding, Governed, Strict, Mode, Modes, Run
<1>19. CASE NotCancelledLate(n)
  BY <1>0, <1>00, <1>19
     DEF NotCancelledLate, Go, Return, Meets, CallUnchanged, controlVars, PathAt,
         OffSteps, Ended, GovHolder, Holding, Governed, Strict, Mode, Modes, Run
<1>20. CASE CancelledLate(n)
  BY <1>0, <1>00, <1>20
     DEF CancelledLate, Go, Return, Meets, CallUnchanged, controlVars, PathAt,
         OffSteps, Ended, GovHolder, Holding, Governed, Strict, Mode, Modes, Run
<1>21. CASE DeadlineOpen(n)
  BY <1>0, <1>00, <1>21
     DEF DeadlineOpen, Go, Return, Meets, CallUnchanged, controlVars, PathAt, OffSteps,
         Ended, GovHolder, Holding, Governed, Strict, Mode, Modes, Run
<1>22. CASE DeadlinePassed(n)
  BY <1>0, <1>00, <1>22
     DEF DeadlinePassed, Go, Return, Meets, CallUnchanged, controlVars, PathAt,
         OffSteps, Ended, GovHolder, Holding, Governed, Strict, Mode, Modes, Run
<1>23. CASE DeadlineInvalid(n)
  BY <1>0, <1>00, <1>23
     DEF DeadlineInvalid, Go, Return, Meets, CallUnchanged, controlVars, PathAt,
         OffSteps, Ended, GovHolder, Holding, Governed, Strict, Mode, Modes, Run
<1>24. CASE Rollback(n)
  BY <1>0, <1>00, <1>24
     DEF Rollback, Go, Return, Meets, CallUnchanged, controlVars, Release,
         WithoutLeaseOf, GivenBack, PathAt, OffSteps, Ended, GovHolder, Holding,
         Governed, Strict, Mode, Modes, Run
<1>25. CASE Unlease(n)
  BY <1>0, <1>00, <1>25
     DEF Unlease, Go, Return, Meets, CallUnchanged, controlVars, ReleaseLease,
         WithoutLeaseOf, PathAt, OffSteps, Ended, GovHolder, Holding, Governed, Strict,
         Mode, Modes, Run
<1>26. CASE GiveBackFails(n)
  BY <1>0, <1>00, <1>26
     DEF GiveBackFails, Go, Return, Meets, CallUnchanged, controlVars, GivenBack,
         PathAt, OffSteps, Ended, GovHolder, Holding, Governed, Strict, Mode, Modes, Run
<1>27. CASE Annul(n)
  BY <1>0, <1>00, <1>27
     DEF Annul, Go, Return, Meets, CallUnchanged, controlVars, RecordDecision,
         ReplaceDecision, PathAt, OffSteps, Ended, GovHolder, Holding, Governed,
         Strict, Mode, Modes, Run
<1>28. CASE Launch(n)
  BY <1>0, <1>00, <1>28
     DEF Launch, Go, Return, Meets, CallUnchanged, controlVars, Appended, PathAt,
         OffSteps, Ended, GovHolder, Holding, Governed, Strict, Mode, Modes, Run
<1>29. CASE WorkerEnds(n)
  BY <1>0, <1>00, <1>29
     DEF WorkerEnds, Go, Return, Meets, CallUnchanged, controlVars, PathAt, OffSteps,
         Ended, GovHolder, Holding, Governed, Strict, Mode, Modes, Run
<1>30. CASE Commit(n)
  BY <1>0, <1>00, <1>30
     DEF Commit, Go, Return, Meets, CallUnchanged, controlVars, CommitUsage, PathAt,
         OffSteps, Ended, GovHolder, Holding, Governed, Strict, Mode, Modes, Run
<1>31. CASE Publish(n)
  BY <1>0, <1>00, <1>31
     DEF Publish, Go, Return, Meets, CallUnchanged, controlVars, StoreArtifact,
         UpsertArtifact, Appended, PathAt, OffSteps, Ended, GovHolder, Holding,
         Governed, Strict, Mode, Modes, Run
<1>32. CASE Unlock(n)
  BY <1>0, <1>00, <1>32
     DEF Unlock, Go, Return, Meets, CallUnchanged, controlVars, ReleaseLease,
         WithoutLeaseOf, PathAt, OffSteps, Ended, GovHolder, Holding, Governed, Strict,
         Mode, Modes, Run
<1>33. CASE NoRegistry(n)
  BY <1>0, <1>00, <1>33
     DEF NoRegistry, Go, Return, Meets, CallUnchanged, controlVars, PathAt, OffSteps,
         Ended, GovHolder, Holding, Governed, Strict, Mode, Modes, Run
<1> QED
  BY <1>1, <1>2, <1>3, <1>4, <1>5, <1>6, <1>7, <1>8, <1>9, <1>10, <1>11, <1>12, <1>13,
     <1>14, <1>15, <1>16, <1>17, <1>18, <1>19, <1>20, <1>21, <1>22, <1>23, <1>24,
     <1>25, <1>26, <1>27, <1>28, <1>29, <1>30, <1>31, <1>32, <1>33
     DEF Dispatch, Decline, Proceed, Misfire

\* Every step keeps the lease with its one holder.
LEMMA LeaseStep == TypeInv /\ PathInv /\ LeaseInv /\ [Next]_vars => LeaseInv'
<1> SUFFICES ASSUME TypeInv, PathInv, LeaseInv, [Next]_vars PROVE LeaseInv'
  OBVIOUS
<1>0. \A k \in Nodes : pc[k] # "idle" => Run(k) # None
  BY GatewayAssumption, ControlAssumption DEF TypeInv, Started, Request, Run
<1>1. ASSUME NEW n \in Nodes, Dispatch(n) PROVE LeaseInv'
  <2> SUFFICES ASSUME ~Bypassed' PROVE LeaseInv'
    BY DEF LeaseInv
  <2>1. /\ req' = req
        /\ \A k \in Nodes \ {n} : GovHolder(k)' <=> GovHolder(k)
        /\ \A k \in Nodes : Run(k)' = Run(k)
        /\ ~Bypassed
    BY <1>1, OthersStay DEF GovHolder, Governed, Mode, Run, Bypassed
  <2>2. \A k \in Nodes : GovHolder(k) => Run(k) # None
    BY <1>0 DEF GovHolder, Holding
  <2>3. ~(Fault("control") /\ n \in faulted' /\ Mode(n) = "shadow")
    BY <2>1 DEF Bypassed, Mode
  <2>4. CASE lease = None /\ lease' = Run(n)
    BY <2>1, <2>2, <2>4 DEF LeaseInv
  <2>5. CASE lease' = lease /\ (GovHolder(n)' => GovHolder(n))
    BY <2>1, <2>5 DEF LeaseInv
  <2>6. CASE GovHolder(n) /\ ~GovHolder(n)'
    BY <2>1, <2>6 DEF LeaseInv
  <2> QED
    BY <1>1, <2>3, <2>4, <2>5, <2>6, LeaseStepOfDispatch
<1>2. ASSUME NEW n \in Nodes, Arrive(n) PROVE LeaseInv'
  <2>1. lease' = lease /\ faulted' = faulted
    BY <1>2 DEF Arrive, controlVars
  <2>2. ~GovHolder(n)'
    BY <1>2 DEF Arrive, Go, FirstStep, GovHolder, Holding, TypeInv, TypeOK
  <2>3. \A k \in Nodes \ {n} : Run(k)' = Run(k) /\ Mode(k)' = Mode(k)
                                /\ (GovHolder(k)' <=> GovHolder(k))
    BY <1>2 DEF Arrive, Go, GovHolder, Governed, Mode, Run, TypeInv, TypeOK
  <2>4. n \notin faulted
    BY <1>2 DEF Arrive, Go, PathInv, PathAt
  <2> QED
    BY <2>1, <2>2, <2>3, <2>4 DEF LeaseInv, Bypassed, TypeInv, TypeOK
<1>3. ASSUME NEW n \in Nodes, Abort(n) PROVE LeaseInv'
  <2>1. lease' = lease /\ req' = req /\ faulted' = faulted
    BY <1>3 DEF Abort, CallUnchanged, controlVars
  <2>2. \A k \in Nodes : GovHolder(k)' => GovHolder(k)
    BY <1>3, <2>1 DEF Abort, GovHolder, Holding, Governed, Mode, TypeInv, TypeOK
  <2> QED
    BY <2>1, <2>2 DEF LeaseInv, Bypassed, Mode, Run
<1>4. ASSUME NEW r \in Runs, Cancel(r) PROVE LeaseInv'
  BY <1>4
     DEF LeaseInv, Bypassed, GovHolder, Governed, Mode, Run, Cancel, CancelRun,
         gatewayVars
<1>5. CASE UNCHANGED vars
  BY <1>5
     DEF LeaseInv, Bypassed, GovHolder, Governed, Mode, Run, vars, gatewayVars,
         controlVars
<1> QED
  BY <1>1, <1>2, <1>3, <1>4, <1>5 DEF Next, AllEnded

\* Two workers of enforced calls never run at once, whatever fails or dies,
\* unless a shadow call met a failed access to the control database.
THEOREM WorkersExclude == Spec => []OneCallAtATime
<1>1. Init => LeaseInv
  BY DEF Init, LeaseInv, GovHolder, Holding
<1>2. TypeInv /\ PathInv /\ LeaseInv /\ [Next]_vars => LeaseInv'
  BY LeaseStep
<1>3. LeaseInv => OneCallAtATime
  BY DEF LeaseInv, OneCallAtATime, Bypassed, GovHolder, Holding, Governed, Strict
<1> QED
  BY <1>1, <1>2, <1>3, PathInvariant, PTL DEF Spec

=============================================================================
