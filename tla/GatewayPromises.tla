-------------------------- MODULE GatewayPromises --------------------------
(***************************************************************************)
(* What the gateway promises about its tables, theorem by theorem: whose   *)
(* artifact a replay row names, which calls a run is charged for, that the *)
(* slot has a holder, that a cancelled call stays away from its worker,    *)
(* that the declared budget is held, and that enforced dispatches          *)
(* implement WorkSlot.tla.  All rest on one account of what a step of a    *)
(* dispatch does, proved action by action and then used instead of them.   *)
(***************************************************************************)
EXTENDS GatewaySafety, FiniteSetTheorems

----------------------------------------------------------------------------
(* One step of a dispatch: where it goes, and what it does to the lease    *)
(* and the reservations, to the replay rows and to the runner.             *)

Follows(n) ==
  \/ pc[n] = "reject" /\ pc'[n] = "done"
  \/ pc[n] = "replay" /\ pc'[n] \in {"usage", "done"}
  \/ pc[n] = "usage" /\ pc'[n] \in {"budget", "decide"}
  \/ pc[n] = "budget" /\ pc'[n] \in {"decide", "done", "raised"}
  \/ pc[n] = "decide" /\ pc'[n] \in {"route", "done", "raised"}
  \/ pc[n] = "route" /\ pc'[n] \in {"done", "raised"}
  \/ pc[n] = "route" /\ pc'[n] = (IF Governed(n) THEN "cancel1" ELSE "deadline")
  \/ pc[n] = "cancel1" /\ pc'[n] \in {"reserve", "done"}
  \/ pc[n] = "reserve" /\ pc'[n] \in {"cancel2", "done"}
  \/ pc[n] = "cancel2" /\ pc'[n] = "deadline" /\ ~CancelSeen(n)
  \/ pc[n] = "cancel2" /\ pc'[n] = "rollback"
  \/ pc[n] = "deadline" /\ pc'[n] = "launch"
  \/ pc[n] = "deadline" /\ pc'[n] \in {"rollback", "unlease"} /\ Governed(n)
  \/ pc[n] = "deadline" /\ pc'[n] = "done" /\ ~Governed(n)
  \/ pc[n] = "rollback" /\ pc'[n] \in {"annul", "done", "raised"}
  \/ pc[n] = "unlease" /\ pc'[n] \in {"annul", "raised"}
  \/ pc[n] = "annul" /\ pc'[n] \in {"done", "raised"}
  \/ pc[n] = "launch" /\ pc'[n] = "running"
  \/ pc[n] = "running" /\ pc'[n] = (IF Governed(n) THEN "commit" ELSE "publish")
  \/ pc[n] = "commit" /\ pc'[n] = "publish"
  \/ pc[n] = "commit" /\ pc'[n] = "raised" /\ Fault("store")
  \/ pc[n] = "publish" /\ pc'[n] = (IF Governed(n) THEN "unlock" ELSE "done")
  \/ pc[n] = "unlock" /\ pc'[n] \in {"done", "raised"}

\* The steps that touch the slot, when no access to the tables fails.
Reserves(n) == pc[n] = "reserve" /\ pc'[n] = "cancel2"
Frees(n)    == pc[n] \in {"rollback", "unlease", "unlock"}

SlotStep(n) ==
  \/ /\ UNCHANGED <<lease, reservations>>
     /\ Fault("control") \/ ~(Reserves(n) \/ Frees(n))
  \/ Reserves(n) /\ Admit(n, Run(n), AdmissionLimits(n))
  \/ pc[n] = "commit" /\ \E s \in Elapsed : CommitUsage(n, s)
  \/ pc[n] = "rollback" /\ Release(n, Run(n))
  \/ pc[n] \in {"unlease", "unlock"} /\ ReleaseLease(Run(n))

ReplayStep(n) ==
  \/ UNCHANGED replay
  \/ pc[n] = "replay" /\ ClaimMessage(req[n].msg, req[n].hash)
  \/ pc[n] = "publish" /\ n \in output /\ StoreArtifact(req[n].msg, req[n].hash, n)

RunnerStep(n) ==
  /\ launched' = IF pc[n] = "launch" THEN launched \cup {n} ELSE launched
  /\ \/ output' = output
     \/ pc[n] = "running" /\ output' = output \cup {n}
  /\ verdict'[n] = "INVALID_DEADLINE" => \/ verdict[n] = "INVALID_DEADLINE"
                                          \/ pc'[n] = "unlease" \/ ~Governed(n)
  /\ pc[n] \in {"unlease", "annul"} => verdict'[n] = verdict[n]
  /\ cancelled' = cancelled
  /\ faulted' = faulted \/ Fault("control") \/ Fault("store")

\* Every action of a dispatch is such a step.
LEMMA DispatchCourse ==
  ASSUME TypeInv, NEW n \in Nodes, Dispatch(n)
  PROVE  Follows(n) /\ SlotStep(n) /\ ReplayStep(n) /\ RunnerStep(n)
<1>0. /\ pc \in [Nodes -> Steps]
      /\ verdict \in [Nodes -> Codes \cup {None}]
  BY DEF TypeInv, TypeOK
<1>1. CASE Reject(n)
  BY <1>0, <1>1
     DEF Reject, Go, Return, Meets, CallUnchanged, controlVars, RecordDecision,
         ReplaceDecision, Judge, RejectCode, Follows, SlotStep, Reserves, Frees,
         ReplayStep, RunnerStep
<1>2. CASE ClaimNew(n)
  BY <1>0, <1>2
     DEF ClaimNew, Go, Return, Meets, CallUnchanged, controlVars, ClaimMessage, Follows,
         SlotStep, Reserves, Frees, ReplayStep, RunnerStep
<1>3. CASE AnswerDuplicate(n)
  BY <1>0, <1>3
     DEF AnswerDuplicate, Go, Return, Meets, CallUnchanged, controlVars, Follows,
         SlotStep, Reserves, Frees, ReplayStep, RunnerStep
<1>4. CASE DenyConflict(n)
  BY <1>0, <1>4
     DEF DenyConflict, Go, Return, Meets, CallUnchanged, controlVars, RecordDecision,
         ReplaceDecision, Judge, Follows, SlotStep, Reserves, Frees, ReplayStep,
         RunnerStep
<1>5. CASE ReplayUnavailable(n)
  BY <1>0, <1>5
     DEF ReplayUnavailable, Go, Return, Meets, CallUnchanged, controlVars, Follows,
         SlotStep, Reserves, Frees, ReplayStep, RunnerStep
<1>6. CASE ReadUsage(n)
  BY <1>0, <1>6
     DEF ReadUsage, Go, Return, Meets, CallUnchanged, controlVars, Follows, SlotStep,
         Reserves, Frees, ReplayStep, RunnerStep
<1>7. CASE ReadBudget(n)
  BY <1>0, <1>7
     DEF ReadBudget, Go, Return, Meets, CallUnchanged, controlVars, RecordRunBudget,
         Follows, SlotStep, Reserves, Frees, ReplayStep, RunnerStep
<1>8. CASE BudgetUnavailable(n)
  BY <1>0, <1>8
     DEF BudgetUnavailable, Go, Return, Meets, CallUnchanged, controlVars,
         RecordRunBudget, Follows, SlotStep, Reserves, Frees, ReplayStep, RunnerStep
<1>9. CASE Decide(n)
  BY <1>0, <1>9
     DEF Decide, Go, Return, Meets, CallUnchanged, controlVars, RecordDecision,
         ReplaceDecision, Decided, Judge, PolicyCode, BudgetCode, Follows, SlotStep,
         Reserves, Frees, ReplayStep, RunnerStep
<1>10. CASE DecisionNotRecorded(n)
  BY <1>0, <1>10
     DEF DecisionNotRecorded, Go, Return, Meets, CallUnchanged, controlVars, Judge,
         PolicyCode, BudgetCode, Follows, SlotStep, Reserves, Frees, ReplayStep,
         RunnerStep
<1>11. CASE ApprovalLookupRaises(n)
  BY <1>0, <1>11
     DEF ApprovalLookupRaises, Go, Return, Meets, CallUnchanged, controlVars, Follows,
         SlotStep, Reserves, Frees, ReplayStep, RunnerStep
<1>12. CASE RouteAccepted(n)
  BY <1>0, <1>12
     DEF RouteAccepted, Go, Return, Meets, CallUnchanged, controlVars, Follows,
         SlotStep, Reserves, Frees, ReplayStep, RunnerStep
<1>13. CASE RouteDenied(n)
  BY <1>0, <1>13
     DEF RouteDenied, Go, Return, Meets, CallUnchanged, controlVars, RecordDecision,
         ReplaceDecision, Judge, Follows, SlotStep, Reserves, Frees, ReplayStep,
         RunnerStep
<1>14. CASE NotCancelledEarly(n)
  BY <1>0, <1>14
     DEF NotCancelledEarly, Go, Return, Meets, CallUnchanged, controlVars, Follows,
         SlotStep, Reserves, Frees, ReplayStep, RunnerStep
<1>15. CASE CancelledEarly(n)
  BY <1>0, <1>15
     DEF CancelledEarly, Go, Return, Meets, CallUnchanged, controlVars, Follows,
         SlotStep, Reserves, Frees, ReplayStep, RunnerStep
<1>16. CASE Reserve(n)
  BY <1>0, <1>16
     DEF Reserve, Go, Return, Meets, CallUnchanged, controlVars, Admit, Follows,
         SlotStep, Reserves, Frees, ReplayStep, RunnerStep
<1>17. CASE ReserveRefused(n)
  BY <1>0, <1>17
     DEF ReserveRefused, Go, Return, Meets, CallUnchanged, controlVars,
         RefuseOverBudget, RefuseBusy, Follows, SlotStep, Reserves, Frees, ReplayStep,
         RunnerStep
<1>18. CASE ReserveUnavailable(n)
  BY <1>0, <1>18
     DEF ReserveUnavailable, Go, Return, Meets, CallUnchanged, controlVars, Follows,
         SlotStep, Reserves, Frees, ReplayStep, RunnerStep
<1>19. CASE NotCancelledLate(n)
  BY <1>0, <1>19
     DEF NotCancelledLate, Go, Return, Meets, CallUnchanged, controlVars, Follows,
         SlotStep, Reserves, Frees, ReplayStep, RunnerStep
<1>20. CASE CancelledLate(n)
  BY <1>0, <1>20
     DEF CancelledLate, Go, Return, Meets, CallUnchanged, controlVars, Follows,
         SlotStep, Reserves, Frees, ReplayStep, RunnerStep
<1>21. CASE DeadlineOpen(n)
  BY <1>0, <1>21
     DEF DeadlineOpen, Go, Return, Meets, CallUnchanged, controlVars, Follows, SlotStep,
         Reserves, Frees, ReplayStep, RunnerStep
<1>22. CASE DeadlinePassed(n)
  BY <1>0, <1>22
     DEF DeadlinePassed, Go, Return, Meets, CallUnchanged, controlVars, Judge, Follows,
         SlotStep, Reserves, Frees, ReplayStep, RunnerStep
<1>23. CASE DeadlineInvalid(n)
  BY <1>0, <1>23
     DEF DeadlineInvalid, Go, Return, Meets, CallUnchanged, controlVars, Judge, Follows,
         SlotStep, Reserves, Frees, ReplayStep, RunnerStep
<1>24. CASE Rollback(n)
  BY <1>0, <1>24
     DEF Rollback, Go, Return, Meets, CallUnchanged, controlVars, GivenBack, Release,
         Follows, SlotStep, Reserves, Frees, ReplayStep, RunnerStep
<1>25. CASE Unlease(n)
  BY <1>0, <1>25
     DEF Unlease, Go, Return, Meets, CallUnchanged, controlVars, ReleaseLease, Follows,
         SlotStep, Reserves, Frees, ReplayStep, RunnerStep
<1>26. CASE GiveBackFails(n)
  BY <1>0, <1>26
     DEF GiveBackFails, Go, Return, Meets, CallUnchanged, controlVars, GivenBack,
         Follows, SlotStep, Reserves, Frees, ReplayStep, RunnerStep
<1>27. CASE Annul(n)
  BY <1>0, <1>27
     DEF Annul, Go, Return, Meets, CallUnchanged, controlVars, RecordDecision,
         ReplaceDecision, Follows, SlotStep, Reserves, Frees, ReplayStep, RunnerStep
<1>28. CASE Launch(n)
  BY <1>0, <1>28
     DEF Launch, Go, Return, Meets, CallUnchanged, controlVars, Appended, Follows,
         SlotStep, Reserves, Frees, ReplayStep, RunnerStep
<1>29. CASE WorkerEnds(n)
  BY <1>0, <1>29
     DEF WorkerEnds, Go, Return, Meets, CallUnchanged, controlVars, Follows, SlotStep,
         Reserves, Frees, ReplayStep, RunnerStep
<1>30. CASE Commit(n)
  BY <1>0, <1>30
     DEF Commit, Go, Return, Meets, CallUnchanged, controlVars, CommitUsage, Follows,
         SlotStep, Reserves, Frees, ReplayStep, RunnerStep
<1>31. CASE Publish(n)
  BY <1>0, <1>31
     DEF Publish, Go, Return, Meets, CallUnchanged, controlVars, StoreArtifact,
         UpsertArtifact, Appended, Follows, SlotStep, Reserves, Frees, ReplayStep,
         RunnerStep
<1>32. CASE Unlock(n)
  BY <1>0, <1>32
     DEF Unlock, Go, Return, Meets, CallUnchanged, controlVars, ReleaseLease, Follows,
         SlotStep, Reserves, Frees, ReplayStep, RunnerStep
<1>33. CASE NoRegistry(n)
  BY <1>0, <1>33
     DEF NoRegistry, Go, Return, Meets, CallUnchanged, controlVars, Follows, SlotStep,
         Reserves, Frees, ReplayStep, RunnerStep
<1> QED
  BY <1>1, <1>2, <1>3, <1>4, <1>5, <1>6, <1>7, <1>8, <1>9, <1>10, <1>11, <1>12, <1>13,
     <1>14, <1>15, <1>16, <1>17, <1>18, <1>19, <1>20, <1>21, <1>22, <1>23, <1>24, <1>25,
     <1>26, <1>27, <1>28, <1>29, <1>30, <1>31, <1>32, <1>33
     DEF Dispatch, Decline, Proceed, Misfire

\* An arrival touches no table and no other dispatch.
LEMMA ArriveKeeps ==
  ASSUME TypeInv, NEW n \in Nodes, Arrive(n)
  PROVE  /\ UNCHANGED <<lease, reservations, replay, cancelled, launched, output, faulted>>
         /\ pc[n] = "idle" /\ pc'[n] \in {"reject", "replay", "route"}
         /\ req'[n] \in Requests
         /\ pc'[n] = "route" => req'[n].mode = "off"
         /\ req'[n].mode = "off" => verdict'[n] \in {"ALLOWED", None}
         /\ req'[n].mode # "off" => verdict'[n] = None
         /\ \A k \in Nodes \ {n} : pc'[k] = pc[k] /\ req'[k] = req[k] /\ verdict'[k] = verdict[k]
<1> PICK q \in Requests :
      /\ Go(n, "idle", FirstStep(q))
      /\ req' = [req EXCEPT ![n] = q]
      /\ verdict' = [verdict EXCEPT ![n] = IF FirstStep(q) = "route" THEN "ALLOWED" ELSE None]
  BY DEF Arrive
<1>1. \/ FirstStep(q) = "reject"
      \/ FirstStep(q) = "replay" /\ q.mode # "off"
      \/ FirstStep(q) = "route" /\ q.mode = "off"
  BY DEF FirstStep
<1>2. UNCHANGED <<lease, reservations, replay, cancelled, launched, output, faulted>>
  BY DEF Arrive, controlVars
<1> QED
  BY <1>1, <1>2 DEF Go, TypeInv, TypeOK

\* An abort moves only the program counter of the dispatch it ends.
LEMMA AbortKeeps ==
  ASSUME TypeInv, NEW n \in Nodes, Abort(n)
  PROVE  /\ UNCHANGED <<lease, reservations, replay, cancelled, launched, output,
                        faulted, req, verdict>>
         /\ Fault("interrupt") \/ Fault("kill")
         /\ pc[n] # "idle" /\ pc'[n] \in {"raised", "killed"}
         /\ \A k \in Nodes \ {n} : pc'[k] = pc[k]
BY DEF Abort, CallUnchanged, controlVars, TypeInv, TypeOK

\* A cancellation adds to its own table; everything else stays.
LEMMA IdleStepKeeps ==
  ASSUME TypeInv, (\E r \in Runs : Cancel(r)) \/ UNCHANGED vars
  PROVE  /\ UNCHANGED <<lease, reservations, replay, launched, output, faulted, req,
                        verdict, pc>>
         /\ cancelled \subseteq cancelled'
BY DEF Cancel, CancelRun, vars, gatewayVars, controlVars

----------------------------------------------------------------------------
(* Artifacts.  A call past its launch has its runner called, so what it    *)
(* publishes is the output of a worker of its own message.                 *)

PastLaunch == {"running", "commit", "publish", "unlock"}

CalledInv == \A n \in Nodes : pc[n] \in PastLaunch => n \in launched

\* Only the launch leads past the launch.
LEMMA CalledStep == TypeInv /\ CalledInv /\ [Next]_vars => CalledInv'
<1> SUFFICES ASSUME TypeInv, CalledInv, [Next]_vars PROVE CalledInv'
  OBVIOUS
<1>1. ASSUME NEW n \in Nodes, Dispatch(n) PROVE CalledInv'
  <2>1. /\ Follows(n) /\ RunnerStep(n)
        /\ \A k \in Nodes \ {n} : pc'[k] = pc[k]
    BY <1>1, DispatchCourse, OthersStay
  <2> QED
    BY <2>1 DEF CalledInv, Follows, RunnerStep, PastLaunch
<1>2. ASSUME NEW n \in Nodes, Arrive(n) PROVE CalledInv'
  BY <1>2, ArriveKeeps DEF CalledInv, PastLaunch
<1>3. ASSUME NEW n \in Nodes, Abort(n) PROVE CalledInv'
  BY <1>3, AbortKeeps DEF CalledInv, PastLaunch
<1>4. CASE (\E r \in Runs : Cancel(r)) \/ UNCHANGED vars
  BY <1>4, IdleStepKeeps DEF CalledInv
<1> QED
  BY <1>1, <1>2, <1>3, <1>4 DEF Next, AllEnded

\* A replay row changes by the claim of its message, which has no artifact
\* yet, or by the upsert of a call of that message and that hash.
LEMMA ArtifactStep ==
  TypeInv /\ PathInv /\ CalledInv /\ ArtifactOfClaim /\ [Next]_vars => ArtifactOfClaim'
<1> SUFFICES ASSUME TypeInv, PathInv, CalledInv, ArtifactOfClaim, [Next]_vars,
                    NEW m \in Messages, replay'[m].artifact # None
             PROVE  LET a == replay'[m].artifact
                    IN  /\ a \in launched' \cap output'
                        /\ req'[a].msg = m
                        /\ req'[a].hash = replay'[m].hash
  BY DEF ArtifactOfClaim
<1> DEFINE Kept == /\ replay'[m] = replay[m]
                   /\ launched \subseteq launched' /\ output \subseteq output'
                   /\ \A k \in launched : req'[k] = req[k]
<1>0. ASSUME Kept PROVE LET a == replay'[m].artifact
                        IN  /\ a \in launched' \cap output'
                            /\ req'[a].msg = m
                            /\ req'[a].hash = replay'[m].hash
  BY <1>0 DEF ArtifactOfClaim
<1>1. ASSUME NEW n \in Nodes, Dispatch(n)
      PROVE  LET a == replay'[m].artifact
             IN  /\ a \in launched' \cap output'
                 /\ req'[a].msg = m
                 /\ req'[a].hash = replay'[m].hash
  <2>1. req' = req /\ launched \subseteq launched' /\ output \subseteq output'
    BY <1>1, OthersStay, DispatchCourse DEF RunnerStep
  <2>2. replay \in [Messages -> [hash : Hashes \cup {None}, artifact : Nodes \cup {None}]]
    BY DEF TypeInv, TypeOK, ControlTypeOK
  <2>3. CASE replay' = replay
    BY <1>0, <2>1, <2>3
  <2>4. CASE pc[n] = "replay" /\ ClaimMessage(req[n].msg, req[n].hash)
    BY <1>0, <2>1, <2>2, <2>4 DEF ClaimMessage
  <2>5. CASE /\ pc[n] = "publish" /\ n \in output
             /\ StoreArtifact(req[n].msg, req[n].hash, n)
    BY <1>0, <2>1, <2>2, <2>5 DEF StoreArtifact, UpsertArtifact, CalledInv, PastLaunch
  <2> QED
    BY <1>1, <2>3, <2>4, <2>5, DispatchCourse DEF ReplayStep
<1>2. ASSUME NEW n \in Nodes, Arrive(n) PROVE Kept
  <2>1. n \notin launched
    BY <1>2, ArriveKeeps DEF PathInv, PathAt, LaunchedSteps, Ended
  <2> QED
    BY <1>2, <2>1, ArriveKeeps DEF TypeInv, TypeOK
<1>3. ASSUME NEW n \in Nodes, Abort(n) PROVE Kept
  BY <1>3, AbortKeeps
<1>4. CASE (\E r \in Runs : Cancel(r)) \/ UNCHANGED vars
  <2>1. Kept
    BY <1>4, IdleStepKeeps
  <2> QED
    BY <1>0, <2>1
<1> QED
  BY <1>0, <1>1, <1>2, <1>3, <1>4 DEF Next, AllEnded

\* Nobody has been launched, no row names an artifact.
LEMMA ArtifactInit == Init => CalledInv /\ ArtifactOfClaim
BY DEF Init, ControlInit, NoReplay, CalledInv, PastLaunch, ArtifactOfClaim

\* Launches and artifacts along every behaviour.
LEMMA CalledInvariant == Spec => [](TypeInv /\ PathInv /\ CalledInv)
<1>1. Init => CalledInv
  BY ArtifactInit
<1> QED
  BY <1>1, CalledStep, PathInvariant, PTL DEF Spec

\* The artifact a replay row names came out of a worker that was called for
\* that message and with the hash of that row, whatever calls conflict, fail
\* or are repeated (the WHERE of the upsert in store_artifact).
THEOREM ArtifactIsOfItsClaim == Spec => []ArtifactOfClaim
<1>1. Init => ArtifactOfClaim
  BY ArtifactInit
<1> QED
  BY <1>1, ArtifactStep, CalledInvariant, PTL DEF Spec

----------------------------------------------------------------------------
(* Charges.  Along the path of a governed call its reservation is not live *)
(* before the admission, live from there to its release, and kept by       *)
(* INVALID_DEADLINE alone when the worker was not called.                  *)

Charged(n) == reservations[n].live

BeforeSlot == {"reject", "replay", "usage", "budget", "decide", "route", "cancel1", "reserve"}
BeforeCall == {"cancel2", "deadline", "rollback", "launch"}

ChargeAt(n) ==
  /\ pc[n] = "idle" => ~Charged(n)
  /\ pc[n] \in BeforeSlot => ~Charged(n) /\ verdict[n] # "INVALID_DEADLINE"
  /\ pc[n] \in BeforeCall => Charged(n) /\ verdict[n] # "INVALID_DEADLINE"
  /\ pc[n] = "unlease" => Charged(n)
  /\ pc[n] = "annul" => (Charged(n) <=> verdict[n] = "INVALID_DEADLINE")
  /\ pc[n] \in PastLaunch => Charged(n)
  /\ pc[n] = "done" => (Charged(n) <=> n \in launched \/ verdict[n] = "INVALID_DEADLINE")

ChargeInv == \A n \in Nodes : (pc[n] # "idle" => Governed(n)) => ChargeAt(n)

\* The reservation of a dispatch is written by its own steps only: by the
\* admission, by the release, and by the commit, which leaves it live.
LEMMA ReservationStep ==
  ASSUME TypeInv, NEW n \in Nodes, SlotStep(n)
  PROVE  /\ \A k \in Nodes \ {n} : reservations'[k] = reservations[k]
         /\ \/ /\ Charged(n)' = Charged(n) /\ reservations'[n].run = reservations[n].run
               /\ Fault("control") \/ ~(Reserves(n) \/ pc[n] = "rollback")
            \/ /\ Reserves(n) /\ Admit(n, Run(n), AdmissionLimits(n))
               /\ Charged(n)' /\ reservations'[n].run = Run(n)
            \/ /\ pc[n] = "rollback" /\ ~Charged(n)'
               /\ reservations'[n].run = reservations[n].run
<1>1. /\ reservations \in [Nodes -> [run : Runs \cup {None}, live : BOOLEAN, seconds : Nat]]
      /\ reservations[n] \in [run : Runs \cup {None}, live : BOOLEAN, seconds : Nat]
  BY DEF TypeInv, TypeOK, ControlTypeOK
<1>2. CASE /\ UNCHANGED <<lease, reservations>>
           /\ Fault("control") \/ ~(Reserves(n) \/ Frees(n))
  BY <1>2 DEF Frees, Charged
<1>3. CASE Reserves(n) /\ Admit(n, Run(n), AdmissionLimits(n))
  BY <1>1, <1>3 DEF Admit, Charged
<1>4. CASE pc[n] = "commit" /\ \E s \in Elapsed : CommitUsage(n, s)
  BY <1>1, <1>4 DEF CommitUsage, Charged, Reserves
<1>5. CASE pc[n] = "rollback" /\ Release(n, Run(n))
  BY <1>1, <1>5 DEF Release, Charged
<1>6. CASE pc[n] \in {"unlease", "unlock"} /\ ReleaseLease(Run(n))
  BY <1>6 DEF ReleaseLease, Charged, Reserves
<1> QED
  BY <1>2, <1>3, <1>4, <1>5, <1>6 DEF SlotStep

\* A step of a dispatch keeps the account of its own charge, as long as the
\* tables can be written.
LEMMA ChargeStepOfDispatch ==
  ASSUME TypeInv, PathInv, CalledInv, ~Fault("control"), NEW n \in Nodes, Governed(n),
         ChargeAt(n), Dispatch(n)
  PROVE  ChargeAt(n)'
<1>1. /\ Follows(n) /\ SlotStep(n) /\ RunnerStep(n)
      /\ PathAt(n) /\ PathAt(n)'
  BY DispatchCourse, PathStepOfDispatch DEF PathInv
<1>2. /\ verdict'[n] = "INVALID_DEADLINE" =>
           verdict[n] = "INVALID_DEADLINE" \/ pc'[n] = "unlease"
      /\ pc[n] = "unlease" => verdict[n] = "INVALID_DEADLINE"
      /\ pc'[n] = "unlease" => verdict'[n] = "INVALID_DEADLINE"
  BY <1>1 DEF RunnerStep, PathAt
<1>3. /\ pc[n] \in PastLaunch => n \in launched
      /\ n \in launched => pc[n] \in LaunchedSteps
      /\ n \in launched' <=> n \in launched \/ pc[n] = "launch"
  BY <1>1 DEF CalledInv, PathAt, RunnerStep
<1>4. /\ ~Reserves(n) /\ pc[n] # "rollback" => Charged(n)' = Charged(n)
      /\ Reserves(n) => Charged(n)'
      /\ pc[n] = "rollback" => ~Charged(n)'
  BY <1>1, ReservationStep DEF Reserves
<1>5. CASE pc[n] \in BeforeSlot
  BY <1>1, <1>2, <1>3, <1>4, <1>5
     DEF Follows, ChargeAt, BeforeSlot, BeforeCall, PastLaunch, LaunchedSteps, Ended, Reserves
<1>6. CASE pc[n] \in BeforeCall
  BY <1>1, <1>2, <1>3, <1>4, <1>6
     DEF Follows, ChargeAt, BeforeSlot, BeforeCall, PastLaunch, LaunchedSteps, Ended, Reserves
<1>7. CASE pc[n] \in PastLaunch
  BY <1>1, <1>2, <1>3, <1>4, <1>7
     DEF Follows, ChargeAt, BeforeSlot, BeforeCall, PastLaunch, LaunchedSteps, Ended, Reserves
<1>8. CASE pc[n] \in {"unlease", "annul"}
  BY <1>1, <1>2, <1>3, <1>4, <1>8
     DEF Follows, RunnerStep, ChargeAt, BeforeSlot, BeforeCall, PastLaunch, LaunchedSteps,
         Ended, Reserves
<1> QED
  BY <1>1, <1>5, <1>6, <1>7, <1>8 DEF Follows, BeforeSlot, BeforeCall, PastLaunch

\* Every step keeps the account of every governed call.
LEMMA ChargeStep ==
  ~Fault("control") /\ TypeInv /\ PathInv /\ CalledInv /\ ChargeInv /\ [Next]_vars => ChargeInv'
<1> SUFFICES ASSUME ~Fault("control"), TypeInv, PathInv, CalledInv, ChargeInv, [Next]_vars,
                    NEW k \in Nodes, (pc[k] # "idle" => Governed(k))'
             PROVE  ChargeAt(k)'
  BY DEF ChargeInv
<1>1. ASSUME NEW n \in Nodes, Dispatch(n) PROVE ChargeAt(k)'
  <2>1. /\ req' = req /\ pc[n] # "idle"
        /\ Follows(n) /\ SlotStep(n) /\ RunnerStep(n)
        /\ \A i \in Nodes \ {n} : pc'[i] = pc[i] /\ verdict'[i] = verdict[i]
    BY <1>1, OthersStay, DispatchCourse
  <2>2. (pc[k] # "idle" => Governed(k)) /\ ChargeAt(k)
    <3>1. pc[k] # "idle" => pc'[k] # "idle"
      BY <2>1 DEF Follows
    <3> QED
      BY <2>1, <3>1 DEF ChargeInv, Governed, Mode
  <2>3. CASE k = n
    BY <1>1, <2>1, <2>2, <2>3, ChargeStepOfDispatch
  <2>4. CASE k # n
    <3>1. Charged(k)' = Charged(k) /\ (k \in launched' <=> k \in launched)
      BY <2>1, <2>4, ReservationStep DEF RunnerStep, Charged
    <3> QED
      BY <2>1, <2>2, <2>4, <3>1 DEF ChargeAt
  <2> QED
    BY <2>3, <2>4
<1>2. ASSUME NEW n \in Nodes, Arrive(n) PROVE ChargeAt(k)'
  <2>1. CASE k = n
    <3>1. ~Charged(n)
      BY <1>2, ArriveKeeps DEF ChargeInv, ChargeAt
    <3>2. pc'[n] \in {"reject", "replay"} /\ verdict'[n] = None
      BY <1>2, <2>1, ArriveKeeps DEF Governed, Mode
    <3>3. None # "INVALID_DEADLINE"
      BY GatewayAssumption DEF Codes, Denials
    <3> QED
      BY <1>2, <2>1, <3>1, <3>2, <3>3, ArriveKeeps
         DEF ChargeAt, BeforeSlot, BeforeCall, PastLaunch, Charged
  <2>2. CASE k # n
    BY <1>2, <2>2, ArriveKeeps DEF ChargeInv, ChargeAt, Charged, Governed, Mode
  <2> QED
    BY <2>1, <2>2
<1>3. ASSUME NEW n \in Nodes, Abort(n) PROVE ChargeAt(k)'
  BY <1>3, AbortKeeps
     DEF ChargeInv, ChargeAt, BeforeSlot, BeforeCall, PastLaunch, Charged, Governed, Mode
<1>4. CASE (\E r \in Runs : Cancel(r)) \/ UNCHANGED vars
  BY <1>4, IdleStepKeeps DEF ChargeInv, ChargeAt, Charged, Governed, Mode
<1> QED
  BY <1>1, <1>2, <1>3, <1>4 DEF Next, AllEnded

\* No call has been made and none is charged.
LEMMA ChargeInit == Init => ChargeInv
BY DEF Init, ControlInit, NoReservation, ChargeInv, ChargeAt, Charged, BeforeSlot, BeforeCall,
       PastLaunch

\* A governed call that ended is counted against its run exactly when its
\* worker was called, or its deadline could not be read, whatever interrupts
\* or kills the others, provided no access to the control tables fails.
THEOREM ChargedIffCalled ==
  ASSUME "control" \notin Faults
  PROVE  Spec => []CountedIffCalled
<1>1. ~Fault("control")
  BY DEF Fault
<1>2. Init => ChargeInv
  BY ChargeInit
<1>3. TypeInv /\ PathInv /\ CalledInv /\ ChargeInv /\ [Next]_vars => ChargeInv'
  BY <1>1, ChargeStep
<1>4. TypeInv /\ ChargeInv => CountedIffCalled
  BY GatewayAssumption
     DEF TypeInv, Started, Request, Modes, ChargeInv, ChargeAt, CountedIffCalled, Charged, Governed, Mode
<1> QED
  BY <1>2, <1>3, <1>4, CalledInvariant, PTL DEF Spec

----------------------------------------------------------------------------
(* The slot and its holder.  When nothing fails but the ledger, no access  *)
(* raises, so nobody leaves the holding steps without giving the lease up. *)

HolderInv ==
  /\ faulted = {}
  /\ lease # None => \E n \in Nodes : GovHolder(n) /\ Run(n) = lease

\* Every step keeps a holder for the lease.
LEMMA HolderStep ==
  ASSUME Faults \subseteq {"ledger"}
  PROVE  TypeInv /\ PathInv /\ LeaseInv /\ HolderInv /\ [Next]_vars => HolderInv'
<1> SUFFICES ASSUME TypeInv, PathInv, LeaseInv, HolderInv, [Next]_vars PROVE HolderInv'
  OBVIOUS
<1>0. ~Fault("control") /\ ~Fault("store") /\ ~Fault("interrupt") /\ ~Fault("kill")
  BY DEF Fault
<1>1. ASSUME NEW n \in Nodes, Dispatch(n) PROVE HolderInv'
  <2>1. /\ Follows(n) /\ SlotStep(n) /\ RunnerStep(n)
        /\ req' = req /\ PathAt(n)
        /\ \A k \in Nodes \ {n} : pc'[k] = pc[k]
    BY <1>1, OthersStay, DispatchCourse DEF PathInv
  <2>2. faulted' = {}
    BY <1>0, <2>1 DEF RunnerStep, HolderInv
  <2>3. \A k \in Nodes \ {n} : (GovHolder(k)' <=> GovHolder(k)) /\ Run(k)' = Run(k)
    BY <2>1 DEF GovHolder, Governed, Mode, Run
  <2>4. CASE Frees(n)
    <3>1. lease' = WithoutLeaseOf(Run(n))
      BY <1>0, <2>1, <2>4 DEF SlotStep, Reserves, Frees, Release, ReleaseLease
    <3>2. GovHolder(n)
      BY <2>1, <2>4 DEF Frees, GovHolder, Holding, Governed, PathAt, OffSteps, Ended
    <3>3. lease = Run(n)
      BY <3>2 DEF LeaseInv, Bypassed, HolderInv
    <3> QED
      BY <2>2, <3>1, <3>3 DEF HolderInv, WithoutLeaseOf
  <2>5. CASE Reserves(n)
    <3>1. lease' = Run(n)
      BY <1>0, <2>1, <2>5 DEF SlotStep, Reserves, Frees, Admit
    <3>2. GovHolder(n)' /\ Run(n)' = Run(n)
      BY <2>1, <2>5 DEF Reserves, GovHolder, Holding, Governed, Mode, Run, PathAt, OffSteps, Ended
    <3> QED
      BY <2>2, <3>1, <3>2 DEF HolderInv
  <2>6. CASE ~Frees(n) /\ ~Reserves(n)
    <3>1. lease' = lease
      BY <2>1, <2>6 DEF SlotStep, Frees, CommitUsage
    <3>2. GovHolder(n) => GovHolder(n)' /\ Run(n)' = Run(n)
      BY <1>0, <2>1, <2>6 DEF Follows, Frees, GovHolder, Holding, Governed, Mode, Run
    <3> QED
      BY <2>2, <2>3, <3>1, <3>2 DEF HolderInv
  <2> QED
    BY <2>4, <2>5, <2>6
<1>2. ASSUME NEW n \in Nodes, Arrive(n) PROVE HolderInv'
  <2>1. ~GovHolder(n)
    BY <1>2, ArriveKeeps DEF GovHolder, Holding
  <2> QED
    BY <1>2, <2>1, ArriveKeeps DEF HolderInv, GovHolder, Governed, Mode, Run
<1>3. ASSUME NEW n \in Nodes, Abort(n) PROVE FALSE
  BY <1>0, <1>3, AbortKeeps
<1>4. CASE (\E r \in Runs : Cancel(r)) \/ UNCHANGED vars
  BY <1>4, IdleStepKeeps DEF HolderInv, GovHolder, Governed, Mode, Run
<1> QED
  BY <1>1, <1>2, <1>3, <1>4 DEF Next, AllEnded

\* The one who holds the lease is alone, along every behaviour.
LEMMA LeaseInvariant == Spec => [](TypeInv /\ PathInv /\ LeaseInv)
<1>1. Init => LeaseInv
  BY DEF Init, LeaseInv, GovHolder, Holding
<1> QED
  BY <1>1, LeaseStep, PathInvariant, PTL DEF Spec

\* The workspace slot is never held by nobody: as long as no access to the
\* tables fails and no dispatch is interrupted, a lease is that of a call that
\* is on its way to give it back.
THEOREM SlotIsHeld ==
  ASSUME Faults \subseteq {"ledger"}
  PROVE  Spec => []SlotHasHolder
<1>1. Init => HolderInv
  BY DEF Init, ControlInit, HolderInv
<1>2. TypeInv /\ PathInv /\ LeaseInv /\ HolderInv /\ [Next]_vars => HolderInv'
  BY HolderStep
<1>3. HolderInv => SlotHasHolder
  BY DEF HolderInv, GovHolder, SlotHasHolder
<1> QED
  BY <1>1, <1>2, <1>3, LeaseInvariant, PTL DEF Spec

----------------------------------------------------------------------------
(* Cancellation.  Where every call is governed, one whose run is cancelled *)
(* before the last look at the cancellations can only end.                 *)

LastLook    == {"replay", "usage", "budget", "decide", "route", "cancel1", "reserve", "cancel2"}
StopSteps   == LastLook \cup {"rollback", "annul"} \cup Ended
Stopped(n)  == Run(n) \in cancelled /\ n \notin launched /\ pc[n] \in StopSteps

\* No step leads a stopped call to its worker.
LEMMA StoppedStep ==
  ASSUME \A q \in Requests : q.mode # "off"
  PROVE  \A n \in Nodes : TypeInv /\ Stopped(n) /\ [Next]_vars => Stopped(n)'
<1> SUFFICES ASSUME NEW k \in Nodes, TypeInv, Stopped(k), [Next]_vars PROVE Stopped(k)'
  OBVIOUS
<1>0. pc[k] # "idle" /\ Governed(k)
  BY GatewayAssumption
     DEF Stopped, StopSteps, LastLook, Ended, TypeInv, Started, Governed, Mode, Request, Modes
<1>1. ASSUME NEW n \in Nodes, Dispatch(n) PROVE Stopped(k)'
  <2>1. /\ Follows(n) /\ RunnerStep(n)
        /\ req' = req
        /\ \A i \in Nodes \ {n} : pc'[i] = pc[i]
    BY <1>1, OthersStay, DispatchCourse
  <2>2. CASE k = n
    BY <1>0, <2>1, <2>2
       DEF Follows, RunnerStep, CancelSeen, Stopped, StopSteps, LastLook, Ended, Run
  <2>3. CASE k # n
    BY <2>1, <2>3 DEF RunnerStep, Stopped, Run
  <2> QED
    BY <2>2, <2>3
<1>2. ASSUME NEW n \in Nodes, Arrive(n) PROVE Stopped(k)'
  BY <1>0, <1>2, ArriveKeeps DEF Stopped, Run
<1>3. ASSUME NEW n \in Nodes, Abort(n) PROVE Stopped(k)'
  BY <1>3, AbortKeeps DEF Stopped, StopSteps, Ended, Run
<1>4. CASE (\E r \in Runs : Cancel(r)) \/ UNCHANGED vars
  BY <1>4, IdleStepKeeps DEF Stopped, Run
<1> QED
  BY <1>1, <1>2, <1>3, <1>4 DEF Next, AllEnded

\* A governed call whose run is cancelled before it looks for the cancellation
\* for the last time never launches its worker, whatever fails.
THEOREM CancelledNeverRuns ==
  ASSUME \A q \in Requests : q.mode # "off"
  PROVE  Spec => CancelStops
<1>1. ASSUME NEW n \in Nodes
      PROVE  Spec => [](/\ pc[n] \in {"replay", "usage", "budget", "decide", "route",
                                       "cancel1", "reserve", "cancel2"}
                        /\ Run(n) \in cancelled
                        => [](n \notin launched))
  <2> DEFINE Early == /\ pc[n] \in {"replay", "usage", "budget", "decide", "route",
                                     "cancel1", "reserve", "cancel2"}
                      /\ Run(n) \in cancelled
  <2>1. TypeInv /\ PathInv /\ Early => Stopped(n)
    BY DEF PathInv, PathAt, LaunchedSteps, Ended, LastLook, Stopped, StopSteps
  <2>2. TypeInv /\ Stopped(n) /\ [Next]_vars => Stopped(n)'
    BY StoppedStep
  <2>3. Stopped(n) => n \notin launched
    BY DEF Stopped
  <2> QED
    BY <2>1, <2>2, <2>3, PathInvariant, PTL DEF Spec
<1> QED
  BY <1>1 DEF CancelStops

----------------------------------------------------------------------------
(* The declared budget.  A run is charged one call per live reservation,   *)
(* and only an admission that counted the live ones adds one.  Stated for  *)
(* a run and a budget instead of for a call, the property is inductive: an *)
(* arrival can only take from what the calls of a run agree on.            *)

AgreedOn(r, b) ==
  \A k \in Nodes : pc[k] # "idle" /\ Run(k) = r => Strict(k) /\ req[k].budget = b

BudgetInv ==
  \A r \in Runs, b \in Budget :
    b.calls # None /\ AgreedOn(r, b) => UsedCalls(r) <= b.calls

\* The sum over the rows of a run is the number of its live reservations.
LEMMA UsedCallsIsLive ==
  ASSUME NEW r
  PROVE  /\ IsFiniteSet(Live(r))
         /\ UsedCalls(r) = Cardinality(Live(r))
         /\ UsedCalls(r) \in Nat
<1> DEFINE row(n) == [node |-> n, seconds |-> reservations[n].seconds]
           f == [n \in Live(r) |-> row(n)]
<1>1. IsFiniteSet(Live(r))
  BY ControlAssumption, FS_Subset DEF Live
<1>2. f \in Bijection(Live(r), LiveRows(r))
  <2>1. f \in Surjection(Live(r), LiveRows(r))
    BY Zenon DEF Surjection, LiveRows
  <2>2. f \in Injection(Live(r), LiveRows(r))
    <3>1. \A a, b \in Live(r) : row(a) = row(b) => a = b
      OBVIOUS
    <3> QED
      BY <2>1, <3>1 DEF Injection, Surjection, IsInjective
  <2> QED
    BY <2>1, <2>2 DEF Bijection
<1>3. Cardinality(LiveRows(r)) = Cardinality(Live(r))
  BY <1>1, <1>2, FS_Bijection DEF ExistsBijection
<1> QED
  BY <1>1, <1>3, FS_CardinalityType DEF UsedCalls

\* The same in the next state.
LEMMA UsedCallsIsLiveNext ==
  ASSUME NEW r \in Runs
  PROVE  (UsedCalls(r) = Cardinality(Live(r)) /\ IsFiniteSet(Live(r)) /\ UsedCalls(r) \in Nat)'
<1>1. UsedCalls(r) = Cardinality(Live(r)) /\ IsFiniteSet(Live(r)) /\ UsedCalls(r) \in Nat
  BY UsedCallsIsLive
<1> QED
  BY <1>1, PTL

\* A step that makes no other reservation of the run live keeps its count.
LEMMA NoMoreCalls ==
  ASSUME NEW r \in Runs, Live(r)' \subseteq Live(r)
  PROVE  UsedCalls(r)' <= UsedCalls(r)
<1>1. Cardinality(Live(r)') <= Cardinality(Live(r))
  BY UsedCallsIsLive, FS_Subset
<1> QED
  BY <1>1, UsedCallsIsLive, UsedCallsIsLiveNext

\* One reservation adds at most one call.
LEMMA OneMoreCall ==
  ASSUME NEW r \in Runs, NEW n \in Nodes, Live(r)' \subseteq Live(r) \cup {n}
  PROVE  UsedCalls(r)' <= UsedCalls(r) + 1
<1>0. IsFiniteSet(Live(r)) /\ Cardinality(Live(r)) \in Nat
  BY UsedCallsIsLive
<1>1. /\ IsFiniteSet(Live(r) \cup {n})
      /\ Cardinality(Live(r) \cup {n}) <= Cardinality(Live(r)) + 1
  <2> DEFINE S == Live(r)
  <2>1. IsFiniteSet(S) /\ Cardinality(S) \in Nat
    BY <1>0
  <2> HIDE DEF S
  <2>2. /\ IsFiniteSet(S \cup {n})
        /\ Cardinality(S \cup {n}) = IF n \in S THEN Cardinality(S) ELSE Cardinality(S) + 1
    BY <2>1, FS_AddElement
  <2> QED
    BY <2>1, <2>2 DEF S
<1>2. Cardinality(Live(r)') <= Cardinality(Live(r) \cup {n})
  BY <1>1, FS_Subset
<1>3. Cardinality(Live(r) \cup {n}) \in Nat
  BY <1>1, FS_CardinalityType
<1>4. /\ UsedCalls(r) = Cardinality(Live(r)) /\ UsedCalls(r) \in Nat
      /\ UsedCalls(r)' = Cardinality(Live(r)') /\ UsedCalls(r)' \in Nat
  BY UsedCallsIsLive, UsedCallsIsLiveNext
<1> QED
  BY <1>1, <1>2, <1>3, <1>4

\* Every step keeps the calls of a run within what its calls agree on.
LEMMA BudgetStep == TypeInv /\ BudgetInv /\ [Next]_vars => BudgetInv'
<1> SUFFICES ASSUME TypeInv, BudgetInv, [Next]_vars,
                    NEW r \in Runs, NEW b \in Budget, b.calls # None, AgreedOn(r, b)'
             PROVE  (UsedCalls(r) <= b.calls)'
  BY DEF BudgetInv
<1>0. UsedCalls(r) \in Nat /\ UsedCalls(r)' \in Nat /\ b.calls \in Nat
  BY UsedCallsIsLive, UsedCallsIsLiveNext, ControlAssumption DEF Budget, Limit
<1> DEFINE Fewer == AgreedOn(r, b) /\ Live(r)' \subseteq Live(r)
<1>1. ASSUME Fewer PROVE (UsedCalls(r) <= b.calls)'
  BY <1>0, <1>1, NoMoreCalls DEF BudgetInv
<1>2. ASSUME NEW n \in Nodes, Dispatch(n) PROVE (UsedCalls(r) <= b.calls)'
  <2>1. /\ SlotStep(n) /\ req' = req /\ pc[n] # "idle"
        /\ \A k \in Nodes \ {n} : pc'[k] = pc[k]
        /\ \A k \in Nodes \ {n} : reservations'[k] = reservations[k]
    BY <1>2, OthersStay, DispatchCourse, ReservationStep
  <2>2. pc'[n] # "idle"
    BY <1>2, DispatchCourse DEF Follows
  <2>3. AgreedOn(r, b)
    BY <2>1, <2>2 DEF AgreedOn, Run, Strict, Mode
  <2>4. CASE reservations'[n].run = reservations[n].run /\ (Charged(n)' => Charged(n))
    <3>1. Live(r)' \subseteq Live(r)
      BY <2>1, <2>4 DEF Live, Charged
    <3> QED
      BY <1>1, <2>3, <3>1
  <2>5. CASE Admit(n, Run(n), AdmissionLimits(n)) /\ reservations'[n].run = Run(n)
    <3>1. CASE Run(n) = r
      <4>1. UsedCalls(r) + 1 <= b.calls
        BY <2>1, <2>3, <2>5, <3>1 DEF AgreedOn, Admit, AdmissionLimits, FitsBudget
      <4>2. Live(r)' \subseteq Live(r) \cup {n}
        BY <2>1 DEF Live
      <4> QED
        BY <1>0, <4>1, <4>2, OneMoreCall
    <3>2. CASE Run(n) # r
      <4>1. Live(r)' \subseteq Live(r)
        BY <2>1, <2>5, <3>2 DEF Live
      <4> QED
        BY <1>1, <2>3, <4>1
    <3> QED
      BY <3>1, <3>2
  <2> QED
    BY <2>1, <2>4, <2>5, ReservationStep
<1>3. ASSUME NEW n \in Nodes, Arrive(n) PROVE Fewer
  BY <1>3, ArriveKeeps DEF AgreedOn, Live, Run, Strict, Mode
<1>4. ASSUME NEW n \in Nodes, Abort(n) PROVE Fewer
  BY <1>4, AbortKeeps DEF AgreedOn, Live, Run, Strict, Mode
<1>5. CASE (\E c \in Runs : Cancel(c)) \/ UNCHANGED vars
  <2>1. Fewer
    BY <1>5, IdleStepKeeps DEF AgreedOn, Live, Run, Strict, Mode
  <2> QED
    BY <1>1, <2>1
<1> QED
  BY <1>1, <1>2, <1>3, <1>4, <1>5 DEF Next, AllEnded

\* No call is counted in the empty workspace.
LEMMA BudgetInit == Init => BudgetInv
<1> SUFFICES ASSUME Init, NEW r \in Runs, NEW b \in Budget, b.calls # None
             PROVE  UsedCalls(r) <= b.calls
  BY DEF BudgetInv
<1>1. Live(r) = {}
  BY ControlAssumption DEF Init, ControlInit, NoReservation, Live
<1>2. b.calls \in Nat
  BY ControlAssumption DEF Budget, Limit
<1> QED
  BY <1>1, <1>2, UsedCallsIsLive, FS_EmptySet

\* The calls counted against a run never exceed the budget its enforced calls
\* declare when they all declare the same one, however they interleave, fail,
\* die, or give their reservations back.
THEOREM BudgetIsHeld == Spec => []DeclaredBudgetHeld
<1>1. TypeInv /\ BudgetInv => DeclaredBudgetHeld
  BY GatewayAssumption
     DEF TypeInv, Started, Request, BudgetInv, AgreedOn, DeclaredBudgetHeld, Run
<1> QED
  BY <1>1, BudgetInit, BudgetStep, PathInvariant, PTL DEF Spec

----------------------------------------------------------------------------
(* The work slot.  Where no call can pass over a claim or a reservation    *)
(* that failed, its holder is the one who owns the lease; taking the slot  *)
(* is the admission, serving the launch, and leaving any step or abort     *)
(* that ends the holding.                                                  *)

\* The requests of such calls: the enforced ones, and the shadow ones as long as
\* the control tables can be read and written.
Bound(q) == q.mode = "enforce" \/ (q.mode = "shadow" /\ ~Fault("control"))

\* A call of such a request claims its message and takes the lease.
LEMMA BoundCalls ==
  ASSUME \A q \in Requests : Bound(q), TypeInv, NEW n \in Nodes, pc[n] # "idle"
  PROVE  /\ Claimant(n) /\ Governed(n) /\ Run(n) # None
         /\ Mode(n) = "shadow" => ~Fault("control")
BY GatewayAssumption, ControlAssumption
   DEF TypeInv, Started, Claimant, Strict, Governed, Mode, Run, Request, Bound

\* Where only such calls are made nobody holds the slot without a lease.
LEMMA HolderOwns ==
  ASSUME \A q \in Requests : Bound(q)
  PROVE  TypeInv /\ PathInv /\ LeaseInv =>
           \A a \in Holder : /\ GovHolder(a) /\ Holder = {a}
                             /\ lease = Run(a) /\ lease # None
<1> SUFFICES ASSUME TypeInv, PathInv, LeaseInv, NEW a \in Holder
             PROVE  GovHolder(a) /\ Holder = {a} /\ lease = Run(a) /\ lease # None
  OBVIOUS
<1>1. ASSUME NEW k \in Nodes, pc[k] # "idle"
      PROVE  /\ Governed(k) /\ Run(k) # None
             /\ Mode(k) = "shadow" => ~Fault("control")
  BY <1>1, BoundCalls
<1>2. \A k \in Holder : k \in Nodes /\ GovHolder(k)
  BY <1>1 DEF Holder, Holding, GovHolder
<1>3. ~Bypassed
  BY <1>1 DEF Bypassed, PathInv, PathAt, TypeInv, TypeOK
<1>4. lease = Run(a) /\ \A b \in Nodes \ {a} : ~GovHolder(b)
  BY <1>2, <1>3 DEF LeaseInv
<1>5. lease # None
  BY <1>1, <1>4 DEF Holder, Holding
<1> QED
  BY <1>2, <1>4, <1>5

\* The view of the slot: its only holder, or whether the lease is there.
LEMMA ViewOfSlot ==
  /\ \A a : Holder = {a} => SlotView = a
  /\ Holder = {} => SlotView = IF lease = None THEN "free" ELSE "lost"
BY DEF SlotView

\* The same in the next state.
LEMMA ViewOfSlotNext ==
  /\ \A a : Holder' = {a} => SlotView' = a
  /\ Holder' = {} => SlotView' = IF lease' = None THEN "free" ELSE "lost"
BY DEF SlotView

\* A step of a dispatch takes the slot, serves, leaves, or does not show.
LEMMA DispatchImplements ==
  ASSUME \A q \in Requests : Bound(q),
         TypeInv, PathInv, LeaseInv, ClaimInv, (TypeInv /\ PathInv /\ LeaseInv)',
         NEW n \in Nodes, Dispatch(n),
         \A a \in Holder' : Holder' = {a} /\ GovHolder(a)'
  PROVE  [Slot!Next]_<<SlotView, Served>>
<1>1. /\ Follows(n) /\ SlotStep(n) /\ RunnerStep(n) /\ req' = req
      /\ \A k \in Nodes \ {n} : pc'[k] = pc[k]
  BY OthersStay, DispatchCourse
<1>2. \A a \in Holder : GovHolder(a) /\ Holder = {a} /\ lease = Run(a) /\ lease # None
  BY HolderOwns
<1>3. pc[n] # "idle"
  BY OthersStay
<1>4. /\ Claimant(n) /\ Governed(n)
      /\ Mode(n) = "shadow" => ~Fault("control")
  BY <1>3, BoundCalls
<1>5. \A k \in Nodes \ {n} : k \in Holder' <=> k \in Holder
  BY <1>1 DEF Holder
<1>6. CASE pc[n] = "launch"
  <2>1. Holder = {n} /\ Holder' = {n}
    BY <1>1, <1>2, <1>6 DEF Follows, Holder, Holding
  <2>2. SlotView = n /\ SlotView' = n
    BY <2>1, ViewOfSlot, ViewOfSlotNext
  <2>3. Served' = Served \cup {<<n, req[n].msg>>}
    BY <1>1, <1>6 DEF RunnerStep, Served
  <2>4. \A other \in Nodes : <<other, req[n].msg>> \notin Served
    <3> SUFFICES ASSUME NEW k \in launched, req[k].msg = req[n].msg PROVE FALSE
      BY DEF Served
    <3>1. k \in Nodes /\ pc[k] # "idle"
      BY DEF PathInv, PathAt, LaunchedSteps, Ended, TypeInv, TypeOK
    <3>2. Claimant(k)
      BY <3>1, BoundCalls
    <3>3. k # n
      BY <1>6, <3>1 DEF PathInv, PathAt, LaunchedSteps, Ended
    <3>4. Claimed(k) /\ Claimed(n)
      BY <1>3, <1>4, <1>6, <3>1, <3>2 DEF Claimed, ClaimedSteps, Holding
    <3> QED
      BY <3>1, <3>3, <3>4 DEF ClaimInv
  <2>5. req[n].msg \in Messages
    BY <1>3, GatewayAssumption DEF TypeInv, Started, Request
  <2>6. Slot!Serve(n, req[n].msg)
    BY <2>2, <2>3, <2>4 DEF Slot!Serve
  <2> QED
    BY <2>5, <2>6 DEF Slot!Next
<1>7. CASE pc[n] # "launch"
  <2>1. Served' = Served
    BY <1>1, <1>7 DEF RunnerStep, Served
  <2>2. CASE n \in Holder /\ n \in Holder'
    <3>1. Holder = {n} /\ Holder' = {n}
      BY <1>2, <2>2
    <3> QED
      BY <2>1, <3>1, ViewOfSlot, ViewOfSlotNext
  <2>3. CASE n \in Holder /\ n \notin Holder'
    <3>1. Holder = {n} /\ Holder' = {}
      BY <1>2, <1>5, <2>3 DEF Holder
    <3>2. Slot!Leave(n)
      BY <2>1, <3>1, ViewOfSlot, ViewOfSlotNext DEF Slot!Leave
    <3> QED
      BY <3>2 DEF Slot!Next
  <2>4. CASE n \notin Holder /\ n \in Holder'
    <3>1. ~GovHolder(n) /\ GovHolder(n)'
      BY <1>1, <1>4, <2>4 DEF Holder, GovHolder, Governed, Mode
    <3>2. lease = None
      BY <1>4, <3>1, LeaseStepOfDispatch
    <3>3. Holder = {} /\ Holder' = {n}
      BY <1>2, <2>4, <3>2
    <3>4. Slot!Take(n)
      BY <2>1, <3>2, <3>3, ViewOfSlot, ViewOfSlotNext DEF Slot!Take
    <3> QED
      BY <3>4 DEF Slot!Next
  <2>5. CASE n \notin Holder /\ n \notin Holder'
    <3>1. Holder' = Holder
      BY <1>5, <2>5 DEF Holder
    <3>2. lease' = lease
      BY <1>1, <2>5 DEF SlotStep, Reserves, Holder, Holding
    <3> QED
      BY <2>1, <3>1, <3>2 DEF SlotView
  <2> QED
    BY <2>2, <2>3, <2>4, <2>5
<1> QED
  BY <1>6, <1>7

\* Every step of the gateway is a step of the work slot or does not show.
LEMMA StepImplements ==
  ASSUME \A q \in Requests : Bound(q)
  PROVE  /\ TypeInv /\ PathInv /\ LeaseInv /\ ClaimInv /\ (TypeInv /\ PathInv /\ LeaseInv)'
         /\ (\A a \in Holder : GovHolder(a) /\ Holder = {a})'
         /\ [Next]_vars
         => [Slot!Next]_<<SlotView, Served>>
<1> SUFFICES ASSUME TypeInv, PathInv, LeaseInv, ClaimInv, (TypeInv /\ PathInv /\ LeaseInv)',
                    \A a \in Holder' : Holder' = {a} /\ GovHolder(a)', [Next]_vars
             PROVE  [Slot!Next]_<<SlotView, Served>>
  OBVIOUS
<1>1. ASSUME NEW n \in Nodes, Dispatch(n) PROVE [Slot!Next]_<<SlotView, Served>>
  BY <1>1, DispatchImplements
<1>2. ASSUME NEW n \in Nodes, Arrive(n) PROVE UNCHANGED <<SlotView, Served>>
  <2>1. Holder' = Holder
    BY <1>2, ArriveKeeps DEF Holder, Holding
  <2>2. n \notin launched
    BY <1>2, ArriveKeeps DEF PathInv, PathAt, LaunchedSteps, Ended
  <2>3. \A k \in launched : req'[k] = req[k]
    BY <1>2, <2>2, ArriveKeeps DEF TypeInv, TypeOK
  <2> QED
    BY <1>2, <2>1, <2>3, ArriveKeeps DEF SlotView, Served
<1>3. ASSUME NEW n \in Nodes, Abort(n) PROVE [Slot!Next]_<<SlotView, Served>>
  <2>1. Served' = Served /\ lease' = lease /\ n \notin Holder' /\ Holder' = Holder \ {n}
    BY <1>3, AbortKeeps DEF Served, Holder, Holding
  <2>2. CASE n \in Holder
    <3>1. Holder = {n} /\ Holder' = {}
      BY <2>1, <2>2, HolderOwns
    <3>2. Slot!Leave(n)
      BY <2>1, <3>1, ViewOfSlot, ViewOfSlotNext DEF Slot!Leave
    <3> QED
      BY <3>2 DEF Slot!Next
  <2>3. CASE n \notin Holder
    <3>1. Holder' = Holder
      BY <2>1, <2>3
    <3> QED
      BY <2>1, <3>1 DEF SlotView
  <2> QED
    BY <2>2, <2>3
<1>4. CASE (\E r \in Runs : Cancel(r)) \/ UNCHANGED vars
  BY <1>4, IdleStepKeeps DEF Holder, SlotView, Served
<1> QED
  BY <1>1, <1>2, <1>3, <1>4 DEF Next, AllEnded

\* Enforced dispatches implement the work slot, whatever fails, is interrupted
\* or dies, and shadow dispatches among them do as long as the control tables
\* do not fail: one worker at a time, no message twice, and a slot whose holder
\* is gone is given to nobody else.
THEOREM BoundImplementsWorkSlot ==
  ASSUME \A q \in Requests : Bound(q)
  PROVE  Spec => ImplementsWorkSlot
<1>1. Init => ClaimInv
  BY DEF Init, ClaimInv, Claimed
<1>2. Init => Slot!Init
  <2> SUFFICES ASSUME Init PROVE Slot!Init
    OBVIOUS
  <2>1. Holder = {} /\ lease = None
    BY DEF Init, ControlInit, Holder, Holding
  <2>2. Served = {}
    BY DEF Init, Served
  <2> QED
    BY <2>1, <2>2, ViewOfSlot DEF Slot!Init
<1>3. TypeInv /\ PathInv /\ LeaseInv => \A a \in Holder : GovHolder(a) /\ Holder = {a}
  BY HolderOwns
<1> QED
  BY <1>1, <1>2, <1>3, StepImplements, ClaimStep, LeaseInvariant, PTL
     DEF Spec, ImplementsWorkSlot, Slot!Spec

=============================================================================
