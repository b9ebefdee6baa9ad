--------------------------- MODULE GatewayProofs ---------------------------
(***************************************************************************)
(* Theorems about Gateway.tla, for every set of dispatches, runs and       *)
(* messages, every set of requests and every set of faults.                *)
(***************************************************************************)
EXTENDS Gateway, TLAPS

----------------------------------------------------------------------------
(* The transactions of Control.tla keep its types.                         *)

\* A step that leaves the tables alone.
LEMMA ControlSame ==
  ASSUME ControlTypeOK, UNCHANGED controlVars
  PROVE  ControlTypeOK'
BY DEF ControlTypeOK, controlVars

\* record_decision writes a code to a decision row.
LEMMA RecordDecisionType ==
  ASSUME ControlTypeOK, NEW n \in Nodes, NEW code \in Codes \cup {None},
         NEW mirrored \in BOOLEAN, RecordDecision(n, code, mirrored)
  PROVE  ControlTypeOK'
BY DEF ControlTypeOK, RecordDecision, ReplaceDecision, MirrorDecision

\* A decision that was recorded, or could not be.
LEMMA RecordOrNotType ==
  ASSUME ControlTypeOK, NEW n \in Nodes, NEW code \in Codes \cup {None},
         \/ \E mirrored \in Mirrored : RecordDecision(n, code, mirrored)
         \/ UNCHANGED controlVars
  PROVE  ControlTypeOK'
<1>1. CASE UNCHANGED controlVars
  BY <1>1, ControlSame
<1>2. CASE \E mirrored \in Mirrored : RecordDecision(n, code, mirrored)
  BY <1>2, RecordDecisionType DEF Mirrored
<1> QED
  BY <1>1, <1>2

\* What control.used adds up are reservation rows.
LEMMA LiveRowsType ==
  ASSUME ControlTypeOK, NEW r
  PROVE  LiveRows(r) \in SUBSET Row
BY DEF ControlTypeOK, LiveRows, Live, Row

\* claim_replay inserts a well-formed row.
LEMMA ClaimType ==
  ASSUME ControlTypeOK, NEW m \in Messages, NEW h \in Hashes, ClaimMessage(m, h)
  PROVE  ControlTypeOK'
BY DEF ControlTypeOK, ClaimMessage

\* store_artifact keeps the replay rows well-formed.
LEMMA StoreArtifactType ==
  ASSUME ControlTypeOK, NEW m \in Messages, NEW h \in Hashes, NEW n \in Nodes,
         StoreArtifact(m, h, n)
  PROVE  ControlTypeOK'
BY DEF ControlTypeOK, StoreArtifact, UpsertArtifact

\* record_run_budget stores, and returns, a budget.
LEMMA RunBudgetType ==
  ASSUME ControlTypeOK, NEW r \in Runs, NEW b \in Budget, RecordRunBudget(r, b)
  PROVE  ControlTypeOK' /\ FirstBudget(r, b) \in Budget
BY DEF ControlTypeOK, RecordRunBudget, FirstBudget

\* An admission writes the lease and a reservation of its run.
LEMMA AdmitType ==
  ASSUME ControlTypeOK, NEW n \in Nodes, NEW r \in Runs, NEW b, Admit(n, r, b)
  PROVE  ControlTypeOK'
<1> DEFINE Reservation == [run : Runs \cup {None}, live : BOOLEAN, seconds : Nat]
           new == [run |-> r, live |-> TRUE, seconds |-> 0]
<1>1. /\ reservations \in [Nodes -> Reservation]
      /\ lease' = r /\ reservations' = [reservations EXCEPT ![n] = new]
      /\ UNCHANGED <<runBudget, replay, cancelled, decisions, busy, mirror>>
  BY DEF ControlTypeOK, Admit
<1>2. new \in Reservation
  OBVIOUS
<1> HIDE DEF new, Reservation
<1>3. reservations' \in [Nodes -> Reservation]
  BY <1>1, <1>2
<1> QED
  BY <1>1, <1>3 DEF ControlTypeOK, Reservation

\* A refusal writes at most an audit row.
LEMMA RefuseType ==
  ASSUME ControlTypeOK, NEW n \in Nodes, NEW r, NEW b,
         RefuseOverBudget(r, b) \/ RefuseBusy(n, r)
  PROVE  ControlTypeOK'
BY ControlSame DEF ControlTypeOK, RefuseOverBudget, RefuseBusy, controlVars

\* release and release_lease can only empty the lease.
LEMMA ReleaseType ==
  ASSUME ControlTypeOK, NEW n \in Nodes, NEW r, Release(n, r) \/ ReleaseLease(r)
  PROVE  ControlTypeOK'
<1> DEFINE Reservation == [run : Runs \cup {None}, live : BOOLEAN, seconds : Nat]
<1>1. /\ lease' \in Runs \cup {None}
      /\ UNCHANGED <<runBudget, replay, cancelled, decisions, busy, mirror>>
  BY DEF ControlTypeOK, Release, ReleaseLease, WithoutLeaseOf
<1>2. /\ reservations \in [Nodes -> Reservation]
      /\ \/ UNCHANGED reservations
         \/ reservations' = [reservations EXCEPT ![n].live = IF @ THEN FALSE ELSE @]
  BY DEF ControlTypeOK, Release, ReleaseLease
<1>3. [reservations[n] EXCEPT !.live = IF reservations[n].live THEN FALSE ELSE reservations[n].live]
        \in Reservation
  <2>1. reservations[n] \in Reservation
    BY <1>2
  <2>2. (IF reservations[n].live THEN FALSE ELSE reservations[n].live) \in BOOLEAN
    BY <2>1
  <2>3. ASSUME NEW was \in Reservation, NEW b \in BOOLEAN PROVE [was EXCEPT !.live = b] \in Reservation
    OBVIOUS
  <2> HIDE DEF Reservation
  <2> QED
    BY <2>1, <2>2, <2>3
<1>4. reservations' \in [Nodes -> Reservation]
  <2> HIDE DEF Reservation
  <2>1. CASE UNCHANGED reservations
    BY <1>2, <2>1
  <2>2. CASE reservations' = [reservations EXCEPT ![n].live = IF @ THEN FALSE ELSE @]
    BY <1>2, <1>3, <2>2
  <2> QED
    BY <1>2, <2>1, <2>2
<1> QED
  BY <1>1, <1>4 DEF ControlTypeOK

\* commit_usage writes an elapsed time.
LEMMA CommitType ==
  ASSUME ControlTypeOK, NEW n \in Nodes, NEW s \in Elapsed, CommitUsage(n, s)
  PROVE  ControlTypeOK'
BY ControlAssumption DEF ControlTypeOK, CommitUsage

\* cancel adds a run.
LEMMA CancelType ==
  ASSUME ControlTypeOK, NEW r \in Runs, CancelRun(r)
  PROVE  ControlTypeOK'
BY DEF ControlTypeOK, CancelRun

----------------------------------------------------------------------------
(* Types.  A dispatch that was called keeps the request it was called      *)
(* with; that makes TypeOK inductive.                                      *)

Started == \A n \in Nodes : pc[n] # "idle" => req[n] \in Requests

TypeInv == TypeOK /\ Started

\* The empty workspace is well-typed.
LEMMA TypeInit == Init => TypeInv
BY GatewayAssumption, ControlAssumption
   DEF Init, TypeInv, TypeOK, Started, ControlInit, ControlTypeOK, NoReservation,
       NoReplay, NothingSeen, NoLimits, Budget, Limit, Steps, Statuses

\* What every step of a dispatch does to the variables of the gateway that
\* only few steps change otherwise.
Moves(n) ==
  /\ pc[n] # "idle"
  /\ \E to \in Steps \ {"idle"} : pc' = [pc EXCEPT ![n] = to]
  /\ \/ UNCHANGED status
     \/ \E s \in Statuses : status' = [status EXCEPT ![n] = s]
  /\ faulted' \in {faulted, faulted \cup {n}}
  /\ UNCHANGED req

\* A step that moves a dispatch on keeps the types it does not assign.
LEMMA MovesType ==
  ASSUME TypeInv, NEW n \in Nodes, Moves(n), ControlTypeOK',
         seen' \in [Nodes -> [used : SUBSET Row, limits : Budget]],
         verdict' \in [Nodes -> Codes \cup {None}],
         ledger' \in [Nodes -> SUBSET {"dispatch", "return"}],
         launched' \subseteq Nodes, output' \subseteq Nodes
  PROVE  TypeInv'
<1> PICK to \in Steps \ {"idle"} : pc' = [pc EXCEPT ![n] = to]
  BY DEF Moves
<1>1. pc' \in [Nodes -> Steps]
  BY DEF TypeInv, TypeOK
<1>2. status' \in [Nodes -> Statuses]
  <2>1. CASE UNCHANGED status
    BY <2>1 DEF TypeInv, TypeOK
  <2>2. CASE \E s \in Statuses : status' = [status EXCEPT ![n] = s]
    BY <2>2 DEF TypeInv, TypeOK
  <2> QED
    BY <2>1, <2>2 DEF Moves
<1>3. Started' /\ req' \in [Nodes -> Requests \cup {None}] /\ faulted' \subseteq Nodes
  BY DEF TypeInv, TypeOK, Started, Moves
<1> QED
  BY <1>1, <1>2, <1>3 DEF TypeInv, TypeOK

\* Every step of dispatch keeps the types, action by action.
LEMMA DispatchType ==
  ASSUME TypeInv, NEW n \in Nodes, Dispatch(n)
  PROVE  TypeInv'
<1> USE GatewayAssumption
<1>0. /\ ControlTypeOK
      /\ seen \in [Nodes -> [used : SUBSET Row, limits : Budget]]
      /\ verdict \in [Nodes -> Codes \cup {None}]
      /\ status \in [Nodes -> Statuses]
      /\ ledger \in [Nodes -> SUBSET {"dispatch", "return"}]
      /\ launched \subseteq Nodes
      /\ output \subseteq Nodes
      /\ pc[n] # "idle" => /\ req[n] \in Requests
                           /\ Run(n) \in Runs
                           /\ req[n].msg \in Messages
                           /\ req[n].hash \in Hashes
                           /\ req[n].budget \in Budget
  BY DEF TypeInv, TypeOK, Started, Request, Run
<1>1. CASE Reject(n)
  <2>1. ControlTypeOK'
    BY <1>0, <1>1, RecordOrNotType DEF Go, Return, Reject, RejectCode, Codes, Denials
  <2>2. Moves(n)
    BY <1>1
       DEF Reject, Moves, Go, Return, Meets, CallUnchanged, Steps, Holding, Ended,
           Statuses
  <2>3. verdict' \in [Nodes -> Codes \cup {None}]
    BY <1>0, <1>1 DEF Reject, RejectCode, Judge, Codes, Denials
  <2> QED
    BY <1>0, <1>1, <2>1, <2>2, <2>3, MovesType DEF Reject, CallUnchanged
<1>2. CASE ClaimNew(n)
  <2>1. ControlTypeOK'
    BY <1>0, <1>2, ClaimType DEF Go, Return, ClaimNew
  <2>2. Moves(n)
    BY <1>2
       DEF ClaimNew, Moves, Go, Return, Meets, CallUnchanged, Steps, Holding, Ended,
           Statuses
  <2>3. verdict' \in [Nodes -> Codes \cup {None}]
    BY <1>0, <1>2 DEF ClaimNew
  <2> QED
    BY <1>0, <1>2, <2>1, <2>2, <2>3, MovesType DEF ClaimNew, CallUnchanged
<1>3. CASE AnswerDuplicate(n)
  <2>1. ControlTypeOK'
    BY <1>0, <1>3, ControlSame DEF Go, Return, AnswerDuplicate
  <2>2. Moves(n)
    BY <1>3
       DEF AnswerDuplicate, Moves, Go, Return, Meets, CallUnchanged, Steps, Holding,
           Ended, Statuses
  <2>3. verdict' \in [Nodes -> Codes \cup {None}]
    BY <1>0, <1>3 DEF AnswerDuplicate
  <2> QED
    BY <1>0, <1>3, <2>1, <2>2, <2>3, MovesType DEF AnswerDuplicate, CallUnchanged
<1>4. CASE DenyConflict(n)
  <2>1. ControlTypeOK'
    BY <1>0, <1>4, RecordOrNotType DEF Go, Return, DenyConflict, Codes, Denials
  <2>2. Moves(n)
    BY <1>4
       DEF DenyConflict, Moves, Go, Return, Meets, CallUnchanged, Steps, Holding,
           Ended, Statuses
  <2>3. verdict' \in [Nodes -> Codes \cup {None}]
    BY <1>0, <1>4 DEF DenyConflict, Judge, Codes, Denials
  <2> QED
    BY <1>0, <1>4, <2>1, <2>2, <2>3, MovesType DEF DenyConflict, CallUnchanged
<1>5. CASE ReplayUnavailable(n)
  <2>1. ControlTypeOK'
    BY <1>0, <1>5, ControlSame DEF Go, Return, ReplayUnavailable
  <2>2. Moves(n)
    BY <1>5
       DEF ReplayUnavailable, Moves, Go, Return, Meets, CallUnchanged, Steps, Holding,
           Ended, Statuses
  <2>3. verdict' \in [Nodes -> Codes \cup {None}]
    BY <1>0, <1>5 DEF ReplayUnavailable
  <2> QED
    BY <1>0, <1>5, <2>1, <2>2, <2>3, MovesType DEF ReplayUnavailable, CallUnchanged
<1>6. CASE ReadUsage(n)
  <2>1. ControlTypeOK'
    BY <1>0, <1>6, ControlSame DEF Go, Return, ReadUsage
  <2>2. Moves(n)
    BY <1>6
       DEF ReadUsage, Moves, Go, Return, Meets, CallUnchanged, Steps, Holding, Ended,
           Statuses
  <2>3. verdict' \in [Nodes -> Codes \cup {None}]
    BY <1>0, <1>6 DEF ReadUsage
  <2>4. seen' \in [Nodes -> [used : SUBSET Row, limits : Budget]]
    BY <1>0, <1>6, LiveRowsType DEF ReadUsage
  <2> QED
    BY <1>0, <1>6, <2>1, <2>2, <2>3, <2>4, MovesType DEF ReadUsage
<1>7. CASE ReadBudget(n)
  <2>1. ControlTypeOK'
    BY <1>0, <1>7, RunBudgetType, ControlSame DEF Go, Return, ReadBudget
  <2>2. Moves(n)
    BY <1>7
       DEF ReadBudget, Moves, Go, Return, Meets, CallUnchanged, Steps, Holding, Ended,
           Statuses
  <2>3. verdict' \in [Nodes -> Codes \cup {None}]
    BY <1>0, <1>7 DEF ReadBudget
  <2>4. seen' \in [Nodes -> [used : SUBSET Row, limits : Budget]]
    BY <1>0, <1>7, RunBudgetType DEF ReadBudget, Go
  <2> QED
    BY <1>0, <1>7, <2>1, <2>2, <2>3, <2>4, MovesType DEF ReadBudget
<1>8. CASE BudgetUnavailable(n)
  <2>1. ControlTypeOK'
    BY <1>0, <1>8, RunBudgetType, ControlSame DEF Go, Return, BudgetUnavailable
  <2>2. Moves(n)
    BY <1>8
       DEF BudgetUnavailable, Moves, Go, Return, Meets, CallUnchanged, Steps, Holding,
           Ended, Statuses
  <2>3. verdict' \in [Nodes -> Codes \cup {None}]
    BY <1>0, <1>8 DEF BudgetUnavailable
  <2>4. req[n].budget \in Budget
    BY <1>0, <1>8, RunBudgetType DEF BudgetUnavailable, Go, Return
  <2>5. seen' \in [Nodes -> [used : SUBSET Row, limits : Budget]]
    <3>1. CASE UNCHANGED seen
      BY <1>0, <3>1
    <3>2. CASE seen' = [seen EXCEPT ![n].limits = req[n].budget]
      <4>1. seen[n] \in [used : SUBSET Row, limits : Budget]
        BY <1>0
      <4>2. seen' = [seen EXCEPT ![n] = [seen[n] EXCEPT !.limits = req[n].budget]]
        BY <1>0, <3>2
      <4> QED
        BY <1>0, <2>4, <4>1, <4>2
    <3> QED
      BY <1>8, <3>1, <3>2 DEF BudgetUnavailable
  <2> QED
    BY <1>0, <1>8, <2>1, <2>2, <2>3, <2>5, MovesType DEF BudgetUnavailable
<1>9. CASE Decide(n)
  <2>1. ControlTypeOK'
    BY <1>0, <1>9, RecordOrNotType
       DEF Go, Return, Decide, PolicyCode, BudgetCode, Codes, Denials
  <2>2. Moves(n)
    <3>1. \E s \in Statuses : status' = [status EXCEPT ![n] = s]
      BY <1>9, <1>0 DEF Decide, Statuses
    <3> QED
      BY <1>9, <3>1 DEF Decide, Moves, Go, Decided, CallUnchanged, Steps, Holding, Ended
  <2>3. verdict' \in [Nodes -> Codes \cup {None}]
    BY <1>0, <1>9 DEF Decide, PolicyCode, BudgetCode, Judge, Codes, Denials
  <2> QED
    BY <1>0, <1>9, <2>1, <2>2, <2>3, MovesType DEF Decide, CallUnchanged
<1>10. CASE DecisionNotRecorded(n)
  <2>1. ControlTypeOK'
    BY <1>0, <1>10, ControlSame
       DEF Go, Return, DecisionNotRecorded, PolicyCode, BudgetCode
  <2>2. Moves(n)
    BY <1>10
       DEF DecisionNotRecorded, Moves, Go, Return, Meets, CallUnchanged, Steps,
           Holding, Ended, Statuses
  <2>3. verdict' \in [Nodes -> Codes \cup {None}]
    BY <1>0, <1>10
       DEF DecisionNotRecorded, PolicyCode, BudgetCode, Judge, Codes, Denials
  <2> QED
    BY <1>0, <1>10, <2>1, <2>2, <2>3, MovesType DEF DecisionNotRecorded, CallUnchanged
<1>11. CASE ApprovalLookupRaises(n)
  <2>1. ControlTypeOK'
    BY <1>0, <1>11, ControlSame DEF Go, Return, ApprovalLookupRaises
  <2>2. Moves(n)
    BY <1>11
       DEF ApprovalLookupRaises, Moves, Go, Return, Meets, CallUnchanged, Steps,
           Holding, Ended, Statuses
  <2>3. verdict' \in [Nodes -> Codes \cup {None}]
    BY <1>0, <1>11 DEF ApprovalLookupRaises
  <2> QED
    BY <1>0, <1>11, <2>1, <2>2, <2>3, MovesType DEF ApprovalLookupRaises, CallUnchanged
<1>12. CASE RouteAccepted(n)
  <2>1. ControlTypeOK'
    BY <1>0, <1>12, ControlSame DEF Go, Return, RouteAccepted
  <2>2. Moves(n)
    BY <1>12
       DEF RouteAccepted, Moves, Go, Return, Meets, CallUnchanged, Steps, Holding,
           Ended, Statuses
  <2>3. verdict' \in [Nodes -> Codes \cup {None}]
    BY <1>0, <1>12 DEF RouteAccepted
  <2> QED
    BY <1>0, <1>12, <2>1, <2>2, <2>3, MovesType DEF RouteAccepted, CallUnchanged
<1>13. CASE RouteDenied(n)
  <2>1. ControlTypeOK'
    BY <1>0, <1>13, RecordOrNotType DEF Go, Return, RouteDenied, Codes, Denials
  <2>2. Moves(n)
    BY <1>13
       DEF RouteDenied, Moves, Go, Return, Meets, CallUnchanged, Steps, Holding, Ended,
           Statuses
  <2>3. verdict' \in [Nodes -> Codes \cup {None}]
    BY <1>0, <1>13 DEF RouteDenied, Judge, Codes, Denials
  <2> QED
    BY <1>0, <1>13, <2>1, <2>2, <2>3, MovesType DEF RouteDenied, CallUnchanged
<1>14. CASE NotCancelledEarly(n)
  <2>1. ControlTypeOK'
    BY <1>0, <1>14, ControlSame DEF Go, Return, NotCancelledEarly
  <2>2. Moves(n)
    BY <1>14
       DEF NotCancelledEarly, Moves, Go, Return, Meets, CallUnchanged, Steps, Holding,
           Ended, Statuses
  <2>3. verdict' \in [Nodes -> Codes \cup {None}]
    BY <1>0, <1>14 DEF NotCancelledEarly
  <2> QED
    BY <1>0, <1>14, <2>1, <2>2, <2>3, MovesType DEF NotCancelledEarly, CallUnchanged
<1>15. CASE CancelledEarly(n)
  <2>1. ControlTypeOK'
    BY <1>0, <1>15, ControlSame DEF Go, Return, CancelledEarly
  <2>2. Moves(n)
    BY <1>15
       DEF CancelledEarly, Moves, Go, Return, Meets, CallUnchanged, Steps, Holding,
           Ended, Statuses
  <2>3. verdict' \in [Nodes -> Codes \cup {None}]
    BY <1>0, <1>15 DEF CancelledEarly
  <2> QED
    BY <1>0, <1>15, <2>1, <2>2, <2>3, MovesType DEF CancelledEarly, CallUnchanged
<1>16. CASE Reserve(n)
  <2>1. ControlTypeOK'
    BY <1>0, <1>16, AdmitType DEF Go, Return, Reserve
  <2>2. Moves(n)
    BY <1>16
       DEF Reserve, Moves, Go, Return, Meets, CallUnchanged, Steps, Holding, Ended,
           Statuses
  <2>3. verdict' \in [Nodes -> Codes \cup {None}]
    BY <1>0, <1>16 DEF Reserve
  <2> QED
    BY <1>0, <1>16, <2>1, <2>2, <2>3, MovesType DEF Reserve, CallUnchanged
<1>17. CASE ReserveRefused(n)
  <2>1. ControlTypeOK'
    BY <1>0, <1>17, RefuseType DEF Go, Return, ReserveRefused
  <2>2. Moves(n)
    BY <1>17
       DEF ReserveRefused, Moves, Go, Return, Meets, CallUnchanged, Steps, Holding,
           Ended, Statuses
  <2>3. verdict' \in [Nodes -> Codes \cup {None}]
    BY <1>0, <1>17 DEF ReserveRefused
  <2> QED
    BY <1>0, <1>17, <2>1, <2>2, <2>3, MovesType DEF ReserveRefused, CallUnchanged
<1>18. CASE ReserveUnavailable(n)
  <2>1. ControlTypeOK'
    BY <1>0, <1>18, ControlSame DEF Go, Return, ReserveUnavailable
  <2>2. Moves(n)
    BY <1>18
       DEF ReserveUnavailable, Moves, Go, Return, Meets, CallUnchanged, Steps, Holding,
           Ended, Statuses
  <2>3. verdict' \in [Nodes -> Codes \cup {None}]
    BY <1>0, <1>18 DEF ReserveUnavailable
  <2> QED
    BY <1>0, <1>18, <2>1, <2>2, <2>3, MovesType DEF ReserveUnavailable, CallUnchanged
<1>19. CASE NotCancelledLate(n)
  <2>1. ControlTypeOK'
    BY <1>0, <1>19, ControlSame DEF Go, Return, NotCancelledLate
  <2>2. Moves(n)
    BY <1>19
       DEF NotCancelledLate, Moves, Go, Return, Meets, CallUnchanged, Steps, Holding,
           Ended, Statuses
  <2>3. verdict' \in [Nodes -> Codes \cup {None}]
    BY <1>0, <1>19 DEF NotCancelledLate
  <2> QED
    BY <1>0, <1>19, <2>1, <2>2, <2>3, MovesType DEF NotCancelledLate, CallUnchanged
<1>20. CASE CancelledLate(n)
  <2>1. ControlTypeOK'
    BY <1>0, <1>20, ControlSame DEF Go, Return, CancelledLate
  <2>2. Moves(n)
    BY <1>20
       DEF CancelledLate, Moves, Go, Return, Meets, CallUnchanged, Steps, Holding,
           Ended, Statuses
  <2>3. verdict' \in [Nodes -> Codes \cup {None}]
    BY <1>0, <1>20 DEF CancelledLate
  <2> QED
    BY <1>0, <1>20, <2>1, <2>2, <2>3, MovesType DEF CancelledLate, CallUnchanged
<1>21. CASE DeadlineOpen(n)
  <2>1. ControlTypeOK'
    BY <1>0, <1>21, ControlSame DEF Go, Return, DeadlineOpen
  <2>2. Moves(n)
    BY <1>21
       DEF DeadlineOpen, Moves, Go, Return, Meets, CallUnchanged, Steps, Holding,
           Ended, Statuses
  <2>3. verdict' \in [Nodes -> Codes \cup {None}]
    BY <1>0, <1>21 DEF DeadlineOpen
  <2> QED
    BY <1>0, <1>21, <2>1, <2>2, <2>3, MovesType DEF DeadlineOpen, CallUnchanged
<1>22. CASE DeadlinePassed(n)
  <2>1. ControlTypeOK'
    BY <1>0, <1>22, ControlSame DEF Go, Return, DeadlinePassed
  <2>2. Moves(n)
    BY <1>22
       DEF DeadlinePassed, Moves, Go, Return, Meets, CallUnchanged, Steps, Holding,
           Ended, Statuses
  <2>3. verdict' \in [Nodes -> Codes \cup {None}]
    BY <1>0, <1>22 DEF DeadlinePassed, Judge, Codes, Denials
  <2> QED
    BY <1>0, <1>22, <2>1, <2>2, <2>3, MovesType DEF DeadlinePassed, CallUnchanged
<1>23. CASE DeadlineInvalid(n)
  <2>1. ControlTypeOK'
    BY <1>0, <1>23, ControlSame DEF Go, Return, DeadlineInvalid
  <2>2. Moves(n)
    BY <1>23
       DEF DeadlineInvalid, Moves, Go, Return, Meets, CallUnchanged, Steps, Holding,
           Ended, Statuses
  <2>3. verdict' \in [Nodes -> Codes \cup {None}]
    BY <1>0, <1>23 DEF DeadlineInvalid, Judge, Codes, Denials
  <2> QED
    BY <1>0, <1>23, <2>1, <2>2, <2>3, MovesType DEF DeadlineInvalid, CallUnchanged
<1>24. CASE Rollback(n)
  <2>1. ControlTypeOK'
    BY <1>0, <1>24, ReleaseType, ControlSame DEF Go, Return, Rollback
  <2>2. Moves(n)
    BY <1>24
       DEF Rollback, Moves, Go, Return, GivenBack, Meets, CallUnchanged, Steps,
           Holding, Ended, Statuses
  <2>3. verdict' \in [Nodes -> Codes \cup {None}]
    BY <1>0, <1>24 DEF Rollback
  <2> QED
    BY <1>0, <1>24, <2>1, <2>2, <2>3, MovesType DEF Rollback, CallUnchanged
<1>25. CASE Unlease(n)
  <2>1. ControlTypeOK'
    BY <1>0, <1>25, ReleaseType, ControlSame DEF Go, Return, Unlease
  <2>2. Moves(n)
    BY <1>25
       DEF Unlease, Moves, Go, Return, Meets, CallUnchanged, Steps, Holding, Ended,
           Statuses
  <2>3. verdict' \in [Nodes -> Codes \cup {None}]
    BY <1>0, <1>25 DEF Unlease
  <2> QED
    BY <1>0, <1>25, <2>1, <2>2, <2>3, MovesType DEF Unlease, CallUnchanged
<1>26. CASE GiveBackFails(n)
  <2>1. ControlTypeOK'
    BY <1>0, <1>26, ControlSame DEF Go, Return, GiveBackFails
  <2>2. Moves(n)
    BY <1>26
       DEF GiveBackFails, Moves, Go, Return, GivenBack, Meets, CallUnchanged, Steps,
           Holding, Ended, Statuses
  <2>3. verdict' \in [Nodes -> Codes \cup {None}]
    BY <1>0, <1>26 DEF GiveBackFails
  <2> QED
    BY <1>0, <1>26, <2>1, <2>2, <2>3, MovesType DEF GiveBackFails, CallUnchanged
<1>27. CASE Annul(n)
  <2>1. ControlTypeOK'
    BY <1>0, <1>27, RecordOrNotType DEF Go, Return, Annul
  <2>2. Moves(n)
    BY <1>27
       DEF Annul, Moves, Go, Return, Meets, CallUnchanged, Steps, Holding, Ended,
           Statuses
  <2>3. verdict' \in [Nodes -> Codes \cup {None}]
    BY <1>0, <1>27 DEF Annul
  <2> QED
    BY <1>0, <1>27, <2>1, <2>2, <2>3, MovesType DEF Annul, CallUnchanged
<1>28. CASE Launch(n)
  <2>1. ControlTypeOK'
    BY <1>0, <1>28, ControlSame DEF Go, Return, Launch
  <2>2. Moves(n)
    BY <1>28
       DEF Launch, Moves, Go, Return, Meets, CallUnchanged, Steps, Holding, Ended,
           Statuses
  <2>3. verdict' \in [Nodes -> Codes \cup {None}]
    BY <1>0, <1>28 DEF Launch
  <2> QED
    BY <1>0, <1>28, <2>1, <2>2, <2>3, MovesType DEF Launch, CallUnchanged, Appended
<1>29. CASE WorkerEnds(n)
  <2>1. ControlTypeOK'
    BY <1>0, <1>29, ControlSame DEF Go, Return, WorkerEnds
  <2>2. Moves(n)
    BY <1>29
       DEF WorkerEnds, Moves, Go, Return, Meets, CallUnchanged, Steps, Holding, Ended,
           Statuses
  <2>3. verdict' \in [Nodes -> Codes \cup {None}]
    BY <1>0, <1>29 DEF WorkerEnds
  <2> QED
    BY <1>0, <1>29, <2>1, <2>2, <2>3, MovesType DEF WorkerEnds, CallUnchanged
<1>30. CASE Commit(n)
  <2>1. ControlTypeOK'
    BY <1>0, <1>30, CommitType, ControlSame DEF Go, Return, Commit
  <2>2. Moves(n)
    BY <1>30
       DEF Commit, Moves, Go, Return, Meets, CallUnchanged, Steps, Holding, Ended,
           Statuses
  <2>3. verdict' \in [Nodes -> Codes \cup {None}]
    BY <1>0, <1>30 DEF Commit
  <2> QED
    BY <1>0, <1>30, <2>1, <2>2, <2>3, MovesType DEF Commit, CallUnchanged
<1>31. CASE Publish(n)
  <2>1. ControlTypeOK'
    BY <1>0, <1>31, StoreArtifactType, ControlSame DEF Go, Return, Publish
  <2>2. Moves(n)
    BY <1>31
       DEF Publish, Moves, Go, Return, Meets, CallUnchanged, Steps, Holding, Ended,
           Statuses
  <2>3. verdict' \in [Nodes -> Codes \cup {None}]
    BY <1>0, <1>31 DEF Publish
  <2> QED
    BY <1>0, <1>31, <2>1, <2>2, <2>3, MovesType DEF Publish, CallUnchanged, Appended
<1>32. CASE Unlock(n)
  <2>1. ControlTypeOK'
    BY <1>0, <1>32, ReleaseType, ControlSame DEF Go, Return, Unlock
  <2>2. Moves(n)
    BY <1>32
       DEF Unlock, Moves, Go, Return, Meets, CallUnchanged, Steps, Holding, Ended,
           Statuses
  <2>3. verdict' \in [Nodes -> Codes \cup {None}]
    BY <1>0, <1>32 DEF Unlock
  <2> QED
    BY <1>0, <1>32, <2>1, <2>2, <2>3, MovesType DEF Unlock, CallUnchanged
<1>33. CASE NoRegistry(n)
  <2>1. ControlTypeOK'
    BY <1>0, <1>33, ControlSame DEF Go, Return, NoRegistry
  <2>2. Moves(n)
    BY <1>33
       DEF NoRegistry, Moves, Go, Return, Meets, CallUnchanged, Steps, Holding, Ended,
           Statuses
  <2>3. verdict' \in [Nodes -> Codes \cup {None}]
    BY <1>0, <1>33 DEF NoRegistry
  <2> QED
    BY <1>0, <1>33, <2>1, <2>2, <2>3, MovesType DEF NoRegistry, CallUnchanged
<1> QED
  BY <1>1, <1>2, <1>3, <1>4, <1>5, <1>6, <1>7, <1>8, <1>9, <1>10, <1>11, <1>12, <1>13,
     <1>14, <1>15, <1>16, <1>17, <1>18, <1>19, <1>20, <1>21, <1>22, <1>23, <1>24,
     <1>25, <1>26, <1>27, <1>28, <1>29, <1>30, <1>31, <1>32, <1>33
     DEF Dispatch, Decline, Proceed, Misfire

\* Every step of the gateway keeps the types.
LEMMA TypeStep == TypeInv /\ [Next]_vars => TypeInv'
<1> SUFFICES ASSUME TypeInv, [Next]_vars PROVE TypeInv'
  OBVIOUS
<1> USE GatewayAssumption
<1>1. ASSUME NEW n \in Nodes, Arrive(n) PROVE TypeInv'
  <2> PICK q \in Requests : /\ Go(n, "idle", FirstStep(q))
                            /\ req' = [req EXCEPT ![n] = q]
                            /\ verdict' \in {[verdict EXCEPT ![n] = "ALLOWED"],
                                             [verdict EXCEPT ![n] = None]}
                            /\ UNCHANGED <<controlVars, seen, status, ledger,
                                           launched, output, faulted>>
    BY <1>1 DEF Arrive
  <2>1. ControlTypeOK'
    BY ControlSame DEF TypeInv, TypeOK
  <2>2. pc' \in [Nodes -> Steps] /\ Started' /\ req' \in [Nodes -> Requests \cup {None}]
    BY DEF TypeInv, TypeOK, Started, Go, FirstStep, Steps
  <2>3. verdict' \in [Nodes -> Codes \cup {None}]
    BY DEF TypeInv, TypeOK, Codes
  <2> QED
    BY <2>1, <2>2, <2>3 DEF TypeInv, TypeOK
<1>2. ASSUME NEW n \in Nodes, Dispatch(n) PROVE TypeInv'
  BY <1>2, DispatchType
<1>3. ASSUME NEW n \in Nodes, Abort(n) PROVE TypeInv'
  <2>1. ControlTypeOK'
    BY <1>3, ControlSame DEF TypeInv, TypeOK, Abort
  <2>2. Moves(n)
    BY <1>3 DEF Abort, Moves, CallUnchanged, Steps, Ended
  <2> QED
    BY <1>3, <2>1, <2>2, MovesType DEF TypeInv, TypeOK, Abort, CallUnchanged
<1>4. ASSUME NEW r \in Runs, Cancel(r) PROVE TypeInv'
  BY <1>4, CancelType DEF TypeInv, TypeOK, Started, Cancel, gatewayVars
<1>5. CASE UNCHANGED vars
  BY <1>5, ControlSame DEF TypeInv, TypeOK, Started, vars, gatewayVars
<1> QED
  BY <1>1, <1>2, <1>3, <1>4, <1>5 DEF Next, AllEnded

\* Type correctness of the gateway and of the tables it shares.
THEOREM TypeCorrect == Spec => []TypeOK
<1>1. Init => TypeInv
  BY TypeInit
<1>2. TypeInv /\ [Next]_vars => TypeInv'
  BY TypeStep
<1>3. TypeInv => TypeOK
  BY DEF TypeInv
<1> QED
  BY <1>1, <1>2, <1>3, PTL DEF Spec

=============================================================================
