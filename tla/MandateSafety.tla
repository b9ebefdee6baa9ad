---------------------------- MODULE MandateSafety ----------------------------
(***************************************************************************)
(* Theorems about Mandate.tla on what the mandate tells of its jobs, for   *)
(* windows that overlap as they like.  Nothing in agent_runner.py locks    *)
(* the file, so a save may come from a stale copy and lose an update; up   *)
(* to the first that does, the mandate is a ledger of its jobs, whoever    *)
(* dies, and a save from a copy that is not stale never undoes a close.    *)
(***************************************************************************)
EXTENDS MandateProofs

----------------------------------------------------------------------------
(* What an engagement, a close and a settlement keep of a mandate.         *)

\* Role r of mandate m lists job j; it lists it as returned.
HasJob(m, r, j) ==
  /\ m # None /\ m.roles[r] # None
  /\ \E i \in DOMAIN m.roles[r].engagements : m.roles[r].engagements[i].job = j

HasReturned(m, r, j) ==
  /\ m # None /\ m.roles[r] # None
  /\ \E i \in DOMAIN m.roles[r].engagements :
       /\ m.roles[r].engagements[i].job = j
       /\ m.roles[r].engagements[i].outcome = "returned"

\* What m lists, n lists too and in the same place.
Extends(m, n) ==
  \A r \in Roles :
    m.roles[r] # None =>
      /\ n.roles[r] # None
      /\ \A i \in DOMAIN m.roles[r].engagements :
           /\ i \in DOMAIN n.roles[r].engagements
           /\ n.roles[r].engagements[i] = m.roles[r].engagements[i]

\* A --force that overrode a job in flight is on record.
Duplicated(m, r) == \E x \in m.overrides : x.kind = "duplicate" /\ x.role = r

\* A mandate that extends another still holds its jobs and their outcomes.
LEMMA ExtendsHas ==
  ASSUME NEW m, NEW n, NEW r \in Roles, NEW j, n # None, Extends(m, n)
  PROVE  /\ HasJob(m, r, j) => HasJob(n, r, j)
         /\ HasReturned(m, r, j) => HasReturned(n, r, j)
BY DEF Extends, HasJob, HasReturned

\* An engagement is appended to the list of its role.
LEMMA EngagedAppends ==
  ASSUME NEW rec \in RoleRecord, NEW q \in Submits, NEW j \in Jobs
  PROVE  /\ Engaged(rec, q, j).inFlight = j
         /\ \A i \in DOMAIN rec.engagements :
              /\ i \in DOMAIN Engaged(rec, q, j).engagements
              /\ Engaged(rec, q, j).engagements[i] = rec.engagements[i]
         /\ \E i \in DOMAIN Engaged(rec, q, j).engagements :
              Engaged(rec, q, j).engagements[i].job = j
<1> DEFINE e  == [job |-> j, mode |-> EngageMode(rec, q), outcome |-> "pending"]
           es == Append(rec.engagements, e)
<1>1. rec.engagements \in Seq(Engagement) /\ e \in Engagement
  BY DEF RoleRecord, Engagement, EngageMode, Modes, Outcomes
<1>2. /\ \A i \in DOMAIN rec.engagements : i \in DOMAIN es /\ es[i] = rec.engagements[i]
      /\ Len(es) \in DOMAIN es /\ es[Len(es)] = e
  BY <1>1
<1>3. Engaged(rec, q, j).engagements = es /\ Engaged(rec, q, j).inFlight = j
  BY DEF Engaged
<1> HIDE DEF es
<1> QED
  BY <1>2, <1>3

\* engage lists its job and holds the role for it, and forgets nothing.
LEMMA EngagementKeeps ==
  ASSUME NEW m \in MandateRecord, NEW q \in Commands, q.role # None, NEW j \in Jobs
  PROVE  /\ Extends(m, MandateWith(m, q, j))
         /\ HasJob(MandateWith(m, q, j), q.role, j)
         /\ MandateWith(m, q, j).roles[q.role].inFlight = j
         /\ \A r \in Roles \ {q.role} : MandateWith(m, q, j).roles[r] = m.roles[r]
         /\ MandateWith(m, q, j).state = m.state
         /\ \A r : Duplicated(m, r) => Duplicated(MandateWith(m, q, j), r)
         /\ InFlight(RoleIn(m, q)) => Duplicated(MandateWith(m, q, j), q.role)
<1> DEFINE n   == MandateWith(m, q, j)
           rec == RoleIn(m, q)
           eng == Engaged(rec, q, j)
<1>1. q.role \in Roles /\ q \in Submits /\ rec \in RoleRecord
  BY RoleInType
<1>2. /\ n \in MandateRecord /\ n.roles = [m.roles EXCEPT ![q.role] = eng]
      /\ n.state = m.state /\ n.overrides = m.overrides \cup ForcedBy(rec, q, j)
      /\ m.roles \in [Roles -> RoleRecord \cup {None}]
  BY MandateWithType DEF MandateRecord
<1>3. /\ eng \in RoleRecord /\ eng.inFlight = j
      /\ \A i \in DOMAIN rec.engagements :
           i \in DOMAIN eng.engagements /\ eng.engagements[i] = rec.engagements[i]
      /\ \E i \in DOMAIN eng.engagements : eng.engagements[i].job = j
  BY <1>1, EngagedType, EngagedAppends
<1>4. m.roles[q.role] # None => rec = m.roles[q.role]
  BY DEF RoleIn
<1>5. InFlight(rec) =>
        [kind |-> "duplicate", role |-> q.role, job |-> j] \in ForcedBy(rec, q, j)
  BY DEF ForcedBy
<1>6. n # None /\ eng # None
  BY <1>2, <1>3, MandateAssumption
<1> HIDE DEF n, rec, eng
<1>7. n.roles[q.role] = eng /\ \A r \in Roles \ {q.role} : n.roles[r] = m.roles[r]
  BY <1>1, <1>2
<1>8. Extends(m, n)
  BY <1>3, <1>4, <1>6, <1>7 DEF Extends
<1>9. HasJob(n, q.role, j) /\ n.roles[q.role].inFlight = j
  BY <1>3, <1>6, <1>7 DEF HasJob
<1>10. /\ \A r : Duplicated(m, r) => Duplicated(n, r)
       /\ InFlight(rec) => Duplicated(n, q.role)
  BY <1>2, <1>5 DEF Duplicated
<1> QED
  BY <1>2, <1>7, <1>8, <1>9, <1>10 DEF n, rec

\* A close forgets nothing, and clears a role only of a job that is over.
LEMMA CloseKeeps ==
  ASSUME NEW m \in MandateRecord, NEW x \in SUBSET Override
  PROVE  /\ Extends(m, ClosedMandate(m, x))
         /\ \A r : Duplicated(m, r) => Duplicated(ClosedMandate(m, x), r)
BY ClosedType DEF Extends, Duplicated

\* What settling does to the list of a role.
LEMMA OutcomeKeeps ==
  ASSUME NEW rec \in RoleRecord, NEW j \in Jobs, NEW res \in Result
  PROVE  LET es == rec.engagements
             fs == Settled(rec, j, res).engagements
         IN  /\ DOMAIN fs = DOMAIN es
             /\ \A i \in DOMAIN es :
                  /\ fs[i].job = es[i].job
                  /\ fs[i].outcome = IF es[i].job = j THEN res.outcome ELSE es[i].outcome
<1> DEFINE es == rec.engagements
           fs == Settled(rec, j, res).engagements
<1>1. fs = WithOutcome(es, j, res.outcome)
  BY DEF Settled, RoleRecord
<1>2. es \in Seq(Engagement)
  BY DEF RoleRecord
<1> HIDE DEF es, fs
<1>3. \A i \in DOMAIN es : es[i] \in Engagement
  BY <1>2
<1> QED
  BY <1>1, <1>3 DEF WithOutcome, Engagement, es, fs

\* Settling job j of role r.
SettledIn(m, r, j, res) == [m EXCEPT !.roles[r] = Settled(@, j, res)]

\* The mandate then lists the jobs it listed, j with the outcome of its call
\* and the others with the one they had.
LEMMA SettlementKeeps ==
  ASSUME NEW m \in MandateRecord, NEW r \in Roles, m.roles[r] # None,
         NEW j \in Jobs, NEW res \in Result, NEW n, n = SettledIn(m, r, j, res)
  PROVE  /\ n.state = m.state /\ n.overrides = m.overrides /\ n # None
         /\ \A s \in Roles : \A k : HasJob(n, s, k) <=> HasJob(m, s, k)
         /\ \A s \in Roles : \A k \in Jobs \ {j} : HasReturned(m, s, k) => HasReturned(n, s, k)
         /\ HasJob(m, r, j) /\ res.outcome = "returned" => HasReturned(n, r, j)
         /\ \A s \in Roles : \A k \in Jobs \ {j} :
              m.roles[s] # None /\ m.roles[s].inFlight = k =>
                n.roles[s] # None /\ n.roles[s].inFlight = k
<1> DEFINE rec == m.roles[r]
           new == Settled(rec, j, res)
<1>1. /\ m.roles \in [Roles -> RoleRecord \cup {None}] /\ rec \in RoleRecord
      /\ n.roles = [m.roles EXCEPT ![r] = new]
      /\ n.state = m.state /\ n.overrides = m.overrides
  BY DEF MandateRecord, SettledIn
<1>2. /\ new \in RoleRecord /\ new # None /\ rec # None /\ m # None
      /\ \A k \in Jobs \ {j} : rec.inFlight = k => new.inFlight = k
  <2>1. new \in RoleRecord
    BY <1>1, SettledType
  <2>2. new.inFlight = IF rec.inFlight = j THEN None ELSE rec.inFlight
    BY <1>1 DEF Settled, RoleRecord
  <2> QED
    BY <2>1, <2>2, MandateAssumption
<1>3. /\ DOMAIN new.engagements = DOMAIN rec.engagements
      /\ \A i \in DOMAIN rec.engagements :
           /\ new.engagements[i].job = rec.engagements[i].job
           /\ new.engagements[i].outcome =
                IF rec.engagements[i].job = j THEN res.outcome ELSE rec.engagements[i].outcome
  BY <1>1, OutcomeKeeps
<1>4. n \in MandateRecord
  BY <1>2 DEF MandateRecord, SettledIn
<1>5. n # None
  BY <1>4, MandateAssumption
<1> HIDE DEF new
<1>6. n.roles[r] = new /\ \A s \in Roles \ {r} : n.roles[s] = m.roles[s]
  BY <1>1
<1>7. \A s \in Roles : \A k : HasJob(n, s, k) <=> HasJob(m, s, k)
  BY <1>2, <1>3, <1>5, <1>6 DEF HasJob
<1>8. \A s \in Roles : \A k \in Jobs \ {j} : HasReturned(m, s, k) => HasReturned(n, s, k)
  BY <1>2, <1>3, <1>5, <1>6 DEF HasReturned
<1>9. HasJob(m, r, j) /\ res.outcome = "returned" => HasReturned(n, r, j)
  BY <1>2, <1>3, <1>5, <1>6 DEF HasJob, HasReturned
<1> QED
  BY <1>1, <1>2, <1>5, <1>6, <1>7, <1>8, <1>9

\* Mandates that list the same jobs engaged the same ones.
LEMMA SameEngagedJobs ==
  ASSUME NEW m, NEW n, m # None, n # None,
         \A s \in Roles : \A k : HasJob(n, s, k) <=> HasJob(m, s, k)
  PROVE  EngagedJobs(n) = EngagedJobs(m)
<1>1. /\ EngagedJobs(n) = {k \in Jobs : \E s \in Roles : HasJob(n, s, k)}
      /\ EngagedJobs(m) = {k \in Jobs : \E s \in Roles : HasJob(m, s, k)}
  BY DEF EngagedJobs, HasJob
<1> QED
  BY <1>1

----------------------------------------------------------------------------
(* The invariant: who has a window open that no save overtook decides on   *)
(* the mandate as it is; and, while no update was lost, a role is held by  *)
(* each job of it that was not settled yet.                                *)

\* The worker of a job has not settled its first attempt.
FirstAttempt(j) ==
  \/ wpc[j] \in {"off", "start"}
  \/ wpc[j] \in {"call", "settle", "settling"} /\ job[j].attempt <= 1

\* Job j was engaged under role r, and is to be settled for the first time.
Unsettled(j, r) ==
  \/ \E o \in Operators :
       opc[o] = "create" /\ order[o].job = j /\ order[o].args.role = r
  \/ /\ job[j] # None /\ job[j].role = r
     /\ ~JobIsTerminal(j) /\ FirstAttempt(j)

\* The one job that holds a role is the one unsettled, unless --force was used.
Covers(m) ==
  m # None =>
    \A r \in Roles : \A j \in Jobs :
      Unsettled(j, r) => Duplicated(m, r) \/ (m.roles[r] # None /\ m.roles[r].inFlight = j)

WindowAt(o) ==
  o \notin stale =>
    /\ opc[o] = "decide" => copy[o] = mandate
    /\ opc[o] = "save" =>
         /\ mandate # None => mandate.state = "open" /\ Extends(mandate, copy[o])
         /\ order[o].what = "submit" =>
              /\ HasJob(copy[o], order[o].args.role, order[o].job)
              /\ copy[o].roles[order[o].args.role].inFlight = order[o].job

AttemptAt(j) ==
  /\ wpc[j] = "settling" /\ j \notin stale => copy[j] = mandate
  /\ wpc[j] \in AtCall => job[j].attempt >= 1

\* Whatever was lost before.
WindowInv == (\A o \in Operators : WindowAt(o)) /\ (\A j \in Jobs : AttemptAt(j))

CreateAt(o) ==
  /\ opc[o] = "save" /\ o \notin stale => Covers(copy[o])
  /\ opc[o] = "create" /\ order[o].args.role # None =>
       HasJob(mandate, order[o].args.role, order[o].job)

EngagedAt(j) ==
  job[j] # None /\ job[j].role # None =>
    /\ HasJob(mandate, job[j].role, j)
    /\ Returned(j) \/ (wpc[j] = "record" /\ result[j].outcome = "returned")
         => HasReturned(mandate, job[j].role, j)

\* While nothing was lost.
RecordInv ==
  /\ \A o \in Operators : CreateAt(o)
  /\ \A j \in Jobs : EngagedAt(j)
  /\ Covers(mandate)

SafetyInv == WindowInv /\ (lost \/ RecordInv)

\* Nothing is open at the start, so the strengthening holds there.
LEMMA SafetyInit == Init => SafetyInv
BY MandateAssumption
   DEF Init, SafetyInv, WindowInv, RecordInv, WindowAt, AttemptAt, CreateAt, EngagedAt,
       Covers, AtCall

----------------------------------------------------------------------------
(* What a step does to one operator and to one worker.                     *)

\* The steps of operator o.
Acts(o) ==
  \/ Submit(o) \/ Close(o) \/ Verify(o) \/ Load(o) \/ DecideSubmit(o) \/ DecideClose(o)
  \/ Save(o) \/ Create(o) \/ Spawn(o) \/ Mark(o) \/ Show(o) \/ OperatorDies(o)

\* Of two operators one moves, and no worker with it.
LEMMA OperatorCourse ==
  ASSUME TypeInv, [Next]_vars, NEW o \in Operators
  PROVE  Acts(o) \/ (opc'[o] = opc[o] /\ order'[o] = order[o] /\ copy'[o] = copy[o])
<1>1. ASSUME NEW p \in Operators, Acts(p), p # o
      PROVE  opc'[o] = opc[o] /\ order'[o] = order[o] /\ copy'[o] = copy[o]
  <2>1. /\ \E s : opc' = [opc EXCEPT ![p] = s]
        /\ UNCHANGED order \/ \E c : order' = [order EXCEPT ![p] = c]
        /\ UNCHANGED copy \/ \E m : copy' = [copy EXCEPT ![p] = m]
    <3>1. CASE Submit(p) \/ Close(p) \/ Verify(p)
      BY <3>1 DEF Submit, Close, Verify, Command
    <3>2. CASE Load(p) \/ DecideSubmit(p) \/ DecideClose(p) \/ Save(p)
      <4>1. CASE Load(p)
        BY <4>1 DEF Load, Step
      <4>2. CASE DecideSubmit(p)
        BY <4>2 DEF DecideSubmit, Refuse, Agree, Step
      <4>3. CASE DecideClose(p)
        BY <4>3 DEF DecideClose, Refuse, Agree, Step
      <4>4. CASE Save(p)
        BY <4>4 DEF Save, Step
      <4> QED
        BY <3>2, <4>1, <4>2, <4>3, <4>4
    <3>3. CASE Create(p) \/ Spawn(p) \/ Mark(p) \/ Show(p) \/ OperatorDies(p)
      BY <3>3 DEF Create, Spawn, Mark, Show, OperatorDies, Step
    <3> QED
      BY <1>1, <3>1, <3>2, <3>3 DEF Acts
  <2> QED
    BY <1>1, <2>1 DEF TypeInv, StateOK, Procs
<1>2. ASSUME NEW j \in Jobs, RunWorker(j) \/ WorkerDies(j)
      PROVE  opc'[o] = opc[o] /\ order'[o] = order[o] /\ copy'[o] = copy[o]
  <2>1. /\ UNCHANGED <<opc, order>>
        /\ UNCHANGED copy \/ \E m : copy' = [copy EXCEPT ![j] = m]
    BY <1>2 DEF RunWorker, WorkerDies, Begin, CallEnds, LoadToSettle, SaveSettled,
                RecordReturn, RecordFailure, Retry, Publish
  <2> QED
    BY <2>1, MandateAssumption DEF TypeInv, StateOK, Procs
<1>3. CASE UNCHANGED vars
  BY <1>3 DEF vars
<1> QED
  BY <1>1, <1>2, <1>3 DEF Next, Operate, Acts

\* A job is worked on by its own worker; a command starts one or writes the
\* record of a job that nobody is calling a provider for.
LEMMA WorkerCourse ==
  ASSUME TypeInv, [Next]_vars, NEW j \in Jobs
  PROVE  \/ RunWorker(j) \/ WorkerDies(j)
         \/ /\ result'[j] = result[j] /\ copy'[j] = copy[j]
            /\ wpc'[j] = wpc[j] \/ (wpc[j] = "off" /\ wpc'[j] = "start")
            /\ wpc[j] \in AtCall => job'[j] = job[j]
<1>1. ASSUME NEW i \in Jobs, RunWorker(i) \/ WorkerDies(i), i # j
      PROVE  /\ result'[j] = result[j] /\ copy'[j] = copy[j]
             /\ wpc'[j] = wpc[j] /\ job'[j] = job[j]
  <2>1. /\ \E s : wpc' = [wpc EXCEPT ![i] = s]
        /\ UNCHANGED result \/ \E x : result' = [result EXCEPT ![i] = x]
        /\ UNCHANGED copy \/ \E m : copy' = [copy EXCEPT ![i] = m]
        /\ UNCHANGED job \/ \E x : job' = [job EXCEPT ![i] = x]
    <3>1. CASE Begin(i) \/ RecordReturn(i) \/ RecordFailure(i) \/ Retry(i)
      BY <3>1 DEF Begin, RecordReturn, RecordFailure, Retry, Work, TypeInv, StateOK
    <3>2. CASE CallEnds(i) \/ LoadToSettle(i) \/ SaveSettled(i) \/ Publish(i) \/ WorkerDies(i)
      BY <3>2 DEF CallEnds, LoadToSettle, SaveSettled, Publish, WorkerDies, Work
    <3> QED
      BY <1>1, <3>1, <3>2 DEF RunWorker
  <2> QED
    BY <1>1, <2>1, MandateAssumption DEF TypeInv, StateOK, Procs
<1>2. ASSUME NEW o \in Operators, Acts(o)
      PROVE  /\ result'[j] = result[j] /\ copy'[j] = copy[j]
             /\ wpc'[j] = wpc[j] \/ (wpc[j] = "off" /\ wpc'[j] = "start")
             /\ wpc[j] \in AtCall => job'[j] = job[j]
  <2>1. CASE Submit(o) \/ Close(o) \/ Verify(o) \/ Load(o) \/ Save(o) \/ Show(o) \/ OperatorDies(o)
    <3>1. /\ UNCHANGED <<job, wpc, result>>
          /\ UNCHANGED copy \/ \E m : copy' = [copy EXCEPT ![o] = m]
      BY <2>1 DEF Submit, Close, Verify, Load, Save, Show, OperatorDies
    <3> QED
      BY <3>1, MandateAssumption DEF TypeInv, StateOK, Procs
  <2>2. CASE DecideSubmit(o) \/ DecideClose(o)
    <3>1. /\ UNCHANGED <<job, wpc, result>>
          /\ \E m : copy' = [copy EXCEPT ![o] = m]
      <4>1. CASE DecideSubmit(o)
        BY <4>1 DEF DecideSubmit, Refuse, Agree
      <4>2. CASE DecideClose(o)
        BY <4>2 DEF DecideClose, Refuse, Agree
      <4> QED
        BY <2>2, <4>1, <4>2
    <3> QED
      BY <3>1, MandateAssumption DEF TypeInv, StateOK, Procs
  <2>3. CASE Create(o)
    <3>1. /\ UNCHANGED <<wpc, result>> /\ copy' = [copy EXCEPT ![o] = None]
          /\ job' = [job EXCEPT ![order[o].job] = CreatedRecord(o)]
          /\ wpc[order[o].job] = "off"
      BY <2>3, CreatedType DEF Create, SubmitAt
    <3> QED
      BY <3>1, MandateAssumption DEF TypeInv, StateOK, AtCall, Procs
  <2>4. CASE Spawn(o)
    <3>1. /\ wpc[order[o].job] = "off" /\ UNCHANGED <<result, copy>>
          /\ \/ wpc' = [wpc EXCEPT ![order[o].job] = "start"] /\ UNCHANGED job
             \/ job' = [job EXCEPT ![order[o].job].status = "failed"] /\ UNCHANGED wpc
      BY <2>4 DEF Spawn, Step, TypeInv, OrderAt, SubmitAt, Submitting
    <3> QED
      BY <3>1 DEF TypeInv, StateOK, AtCall
  <2>5. CASE Mark(o)
    <3>1. /\ order[o].job \in Jobs /\ Returned(order[o].job) /\ JobAt(order[o].job)
          /\ UNCHANGED <<wpc, result, copy>>
          /\ job' = [job EXCEPT ![order[o].job].status = order[o].args]
      BY <2>5 DEF Mark, Step, TypeInv, OrderAt
    <3>2. wpc[order[o].job] \notin AtCall
      BY <3>1 DEF Returned, JobAt, Verdicts
    <3> QED
      BY <3>1, <3>2 DEF TypeInv, StateOK
  <2> QED
    BY <1>2, <2>1, <2>2, <2>3, <2>4, <2>5 DEF Acts
<1>3. CASE UNCHANGED vars
  BY <1>3 DEF vars
<1> QED
  BY <1>1, <1>2, <1>3 DEF Next, Operate, Acts

\* A job is found returned in its record because its worker recorded it.
LEMMA ReturnedCourse ==
  ASSUME TypeInv, [Next]_vars, NEW j \in Jobs, Returned(j)'
  PROVE  Returned(j) \/ RecordReturn(j)
<1>1. ASSUME NEW o \in Operators, Create(o), j = order[o].job PROVE ~Returned(j)'
  <2>1. job'[j] = CreatedRecord(o) /\ CreatedRecord(o).status = "queued"
    BY <1>1, CreatedType DEF TypeInv, StateOK
  <2> QED
    BY <2>1 DEF Returned, Verdicts
<1> QED
  BY <1>1, JobCourse DEF Returned

----------------------------------------------------------------------------
(* A window that no save overtook.                                         *)

\* Who saves or settles closes the window.
LEMMA SaveCloses ==
  ASSUME TypeInv
  PROVE  /\ \A o \in Operators : Save(o) =>
              o \in Windows /\ opc[o] = "save" /\ opc'[o] \in {"create", "idle"}
         /\ \A j \in Jobs : SaveSettled(j) =>
              /\ j \in Windows /\ wpc[j] = "settling" /\ wpc'[j] = "record"
              /\ \A o \in Operators : ~Save(o)
BY DEF Save, SaveSettled, Step, Work, Windows, TypeInv, StateOK

\* Nobody wrote the mandate since a window was opened that still is not stale.
LEMMA WindowHeld ==
  ASSUME TypeInv, [Next]_vars, NEW p \in Windows, p \notin stale',
         \/ p \in Operators /\ opc'[p] = opc[p]
         \/ p \in Jobs /\ wpc'[p] = wpc[p]
  PROVE  mandate' = mandate /\ p \notin stale /\ \A o \in Operators : ~Save(o)
<1>1. \A o \in Operators : ~Save(o)
  <2> SUFFICES ASSUME NEW o \in Operators, Save(o) PROVE FALSE
    OBVIOUS
  <2>1. o # p
    BY SaveCloses, MandateAssumption
  <2> QED
    BY <2>1 DEF Save, Overtake
<1>2. \A j \in Jobs : ~SaveSettled(j)
  <2> SUFFICES ASSUME NEW j \in Jobs, SaveSettled(j) PROVE FALSE
    OBVIOUS
  <2>1. j # p
    BY SaveCloses, MandateAssumption
  <2> QED
    BY <2>1 DEF SaveSettled, Overtake
<1>3. p \notin stale
  <2>1. ASSUME NEW o \in Operators, Load(o) \/ Refuse(o) \/ OperatorDies(o) PROVE o # p
    BY <2>1, MandateAssumption DEF Load, Refuse, OperatorDies, Step, TypeInv, StateOK
  <2>2. ASSUME NEW j \in Jobs, LoadToSettle(j) \/ WorkerDies(j) PROVE j # p
    BY <2>2, MandateAssumption DEF LoadToSettle, WorkerDies, Work, TypeInv, StateOK
  <2> QED
    BY <1>1, <1>2, <2>1, <2>2, HistoryCourse DEF Refresh, history
<1> QED
  BY <1>1, <1>2, <1>3, MandateCourse

\* While nothing is lost, nobody saves a stale copy.
LEMMA NothingLost ==
  ASSUME [Next]_vars, ~lost'
  PROVE  ~lost /\ ~LosesUpdate
<1>1. ~LosesUpdate
  BY DEF LosesUpdate, Save, SaveSettled, Overtake
<1>2. ~lost
  BY HistoryCourse DEF Refresh, Overtake, history
<1> QED
  BY <1>1, <1>2

\* Two operators do not save in one step.
LEMMA OneSaves ==
  ASSUME TypeInv, NEW o \in Operators, NEW p \in Operators, Save(o), Save(p)
  PROVE  p = o
BY DEF Save, Step, TypeInv, StateOK

\* A decision saves nothing yet.
LEMMA DecideKeeps ==
  ASSUME TypeInv, NEW o \in Operators, DecideSubmit(o) \/ DecideClose(o)
  PROVE  \A p \in Operators : ~Save(p)
<1>1. opc[o] = "decide" /\ opc'[o] \in {"idle", "save"}
      /\ \A p \in Operators \ {o} : opc'[p] = opc[p]
  <2>1. CASE DecideSubmit(o)
    BY <2>1 DEF DecideSubmit, Refuse, Agree, Step, TypeInv, StateOK
  <2>2. CASE DecideClose(o)
    BY <2>2 DEF DecideClose, Refuse, Agree, Step, TypeInv, StateOK
  <2> QED
    BY <2>1, <2>2
<1> QED
  BY <1>1, SaveCloses

----------------------------------------------------------------------------
(* Jobs that were not settled.                                             *)

\* A first attempt is one from the start.
LEMMA FirstAttemptCourse ==
  ASSUME TypeInv, [Next]_vars, NEW j \in Jobs, job[j] # None,
         wpc[j] \in AtCall => job[j].attempt >= 1, FirstAttempt(j)'
  PROVE  FirstAttempt(j)
<1>1. job[j] \in JobRecord /\ wpc \in [Jobs -> WorkerSteps] /\ job \in [Jobs -> JobRecord \cup {None}]
  BY KeptRecord DEF TypeInv, StateOK
<1>2. CASE Begin(j)
  BY <1>2 DEF Begin, FirstAttempt
<1>3. CASE CallEnds(j) \/ LoadToSettle(j)
  BY <1>1, <1>3 DEF CallEnds, LoadToSettle, Work, FirstAttempt
<1>4. CASE SaveSettled(j) \/ RecordReturn(j) \/ RecordFailure(j) \/ Publish(j) \/ WorkerDies(j)
  BY <1>1, <1>4
     DEF SaveSettled, RecordReturn, RecordFailure, Publish, WorkerDies, Work, FirstAttempt
<1>5. CASE Retry(j)
  <2>1. wpc'[j] = "call" /\ job'[j].attempt = job[j].attempt + 1 /\ job[j].attempt >= 1
    BY <1>1, <1>5 DEF Retry, Work, AtCall, JobRecord
  <2> QED
    BY <1>1, <2>1, MandateAssumption DEF FirstAttempt, JobRecord
<1>6. CASE /\ wpc'[j] = wpc[j] \/ (wpc[j] = "off" /\ wpc'[j] = "start")
           /\ wpc[j] \in AtCall => job'[j] = job[j]
  BY <1>6 DEF FirstAttempt, AtCall
<1> QED
  BY <1>2, <1>3, <1>4, <1>5, <1>6, WorkerCourse DEF RunWorker

\* A job becomes one to settle when the submit that engaged it saves.
LEMMA UnsettledCourse ==
  ASSUME TypeInv, [Next]_vars, NEW j \in Jobs, NEW r \in Roles,
         wpc[j] \in AtCall => job[j].attempt >= 1, Unsettled(j, r)'
  PROVE  \/ Unsettled(j, r)
         \/ \E o \in Operators :
              Save(o) /\ order[o].what = "submit" /\ order[o].job = j /\ order[o].args.role = r
<1>1. ASSUME NEW o \in Operators, opc'[o] = "create", order'[o].job = j, order'[o].args.role = r
      PROVE  \/ Unsettled(j, r)
             \/ Save(o) /\ order[o].what = "submit" /\ order[o].job = j /\ order[o].args.role = r
  <2>1. CASE opc'[o] = opc[o] /\ order'[o] = order[o]
    BY <1>1, <2>1 DEF Unsettled
  <2>2. CASE Submit(o)
    <3>1. PICK q \in Commands, i \in Jobs :
            Command(o, IF q.role = None THEN "create" ELSE "load", "submit", i, q)
      BY <2>2 DEF Submit
    <3>2. q.role = None /\ order'[o].args = q
      BY <1>1, <3>1 DEF Command, TypeInv, StateOK
    <3> QED
      BY <1>1, <3>2, MandateAssumption
  <2>3. CASE Save(o)
    BY <1>1, <2>3 DEF Save, Step, TypeInv, StateOK
  <2>4. CASE Close(o) \/ Verify(o) \/ Load(o) \/ Create(o) \/ Spawn(o) \/ Mark(o) \/ Show(o)
               \/ OperatorDies(o)
    BY <1>1, <2>4 DEF Close, Verify, Load, Create, Spawn, Mark, Show, OperatorDies, Command,
                      Step, TypeInv, StateOK
  <2>5. CASE DecideSubmit(o)
    BY <1>1, <2>5 DEF DecideSubmit, Refuse, Agree, Step, TypeInv, StateOK
  <2>6. CASE DecideClose(o)
    BY <1>1, <2>6 DEF DecideClose, Refuse, Agree, Step, TypeInv, StateOK
  <2> QED
    BY <2>1, <2>2, <2>3, <2>4, <2>5, <2>6, OperatorCourse DEF Acts
<1>2. ASSUME job'[j] # None, job'[j].role = r, ~JobIsTerminal(j)', FirstAttempt(j)'
      PROVE  Unsettled(j, r)
  <2>1. ASSUME NEW o \in Operators, Create(o), j = order[o].job PROVE Unsettled(j, r)
    <3>1. job'[j] = CreatedRecord(o) /\ CreatedRecord(o).role = order[o].args.role
      BY <2>1, CreatedType DEF TypeInv, StateOK
    <3> QED
      BY <1>2, <2>1, <3>1 DEF Unsettled, Create, Step
  <2>2. ASSUME job[j] # None, job'[j] = job[j] \/ SameJob(j),
               JobIsTerminal(j) => job'[j] = job[j] \/ job'[j].status \in Verdicts
        PROVE  Unsettled(j, r)
    <3>1. job[j].role = r /\ ~JobIsTerminal(j)
      BY <1>2, <2>2 DEF SameJob, JobIsTerminal, Terminal
    <3>2. FirstAttempt(j)
      BY <1>2, <2>2, FirstAttemptCourse
    <3> QED
      BY <2>2, <3>1, <3>2 DEF Unsettled
  <2> QED
    BY <1>2, <2>1, <2>2, JobCourse
<1> QED
  BY <1>1, <1>2 DEF Unsettled

\* A job to settle is not over, and has a mandate.
LEMMA UnsettledType ==
  ASSUME TypeInv, NEW j \in Jobs, NEW r \in Roles, Unsettled(j, r)
  PROVE  ~JobIsTerminal(j) /\ mandate # None /\ wpc[j] \notin {"record", "publish"}
<1>0. r # None
  BY MandateAssumption
<1>1. ASSUME NEW o \in Operators, opc[o] = "create", order[o].job = j, order[o].args.role = r
      PROVE  job[j] = None /\ mandate # None /\ wpc[j] = "off"
  BY <1>0, <1>1 DEF TypeInv, OrderAt, SubmitAt, Submitting
<1>2. CASE job[j] # None /\ job[j].role = r /\ ~JobIsTerminal(j) /\ FirstAttempt(j)
  BY <1>0, <1>2 DEF TypeInv, JobAt, FirstAttempt
<1> QED
  BY <1>1, <1>2 DEF Unsettled, JobIsTerminal

----------------------------------------------------------------------------
(* The mandate keeps the jobs it lists.                                    *)

\* What a settlement does to the mandate, when it is the one loaded.
LEMMA SettledKeeps ==
  ASSUME TypeInv, WindowInv, NEW j \in Jobs, SaveSettled(j), j \notin stale
  PROVE  /\ mandate # None /\ mandate' # None
         /\ mandate'.state = mandate.state /\ mandate'.overrides = mandate.overrides
         /\ \A s \in Roles : \A k : HasJob(mandate', s, k) <=> HasJob(mandate, s, k)
         /\ \A s \in Roles : \A k \in Jobs \ {j} :
              HasReturned(mandate, s, k) => HasReturned(mandate', s, k)
         /\ HasJob(mandate, job[j].role, j) /\ result[j].outcome = "returned" =>
              HasReturned(mandate', job[j].role, j)
         /\ \A s \in Roles : \A k \in Jobs \ {j} :
              mandate.roles[s] # None /\ mandate.roles[s].inFlight = k =>
                mandate'.roles[s] # None /\ mandate'.roles[s].inFlight = k
         /\ job'[j] = job[j] /\ result'[j] = result[j]
<1> DEFINE r == job[j].role
<1>1. /\ wpc[j] = "settling" /\ mandate' = [copy[j] EXCEPT !.roles[r] = Settled(@, j, result[j])]
      /\ UNCHANGED <<job, result>>
  BY DEF SaveSettled, Work
<1>2. copy[j] = mandate /\ job[j] # None /\ r # None /\ mandate.roles[r] # None
      /\ copy[j] # None
  BY <1>1 DEF WindowInv, AttemptAt, TypeInv, JobAt
<1>3. mandate \in MandateRecord /\ r \in Roles /\ result[j] \in Result
  BY <1>2 DEF TypeInv, StateOK, JobRecord
<1>5. mandate' = SettledIn(mandate, r, j, result[j])
  BY <1>1, <1>2 DEF SettledIn
<1> HIDE DEF r
<1> DEFINE n == mandate'
<1>6. n = SettledIn(mandate, r, j, result[j])
  BY <1>5
<1> HIDE DEF n
<1>7. /\ n.state = mandate.state /\ n.overrides = mandate.overrides /\ n # None
      /\ \A s \in Roles : \A k : HasJob(n, s, k) <=> HasJob(mandate, s, k)
      /\ \A s \in Roles : \A k \in Jobs \ {j} :
           HasReturned(mandate, s, k) => HasReturned(n, s, k)
      /\ HasJob(mandate, r, j) /\ result[j].outcome = "returned" => HasReturned(n, r, j)
      /\ \A s \in Roles : \A k \in Jobs \ {j} :
              mandate.roles[s] # None /\ mandate.roles[s].inFlight = k =>
                n.roles[s] # None /\ n.roles[s].inFlight = k
  BY <1>2, <1>3, <1>6, SettlementKeeps
<1> QED
  BY <1>1, <1>2, <1>7 DEF n, r

\* A save of a copy that is not stale extends the mandate.
LEMMA SavedKeeps ==
  ASSUME TypeInv, WindowInv, NEW o \in Operators, Save(o), o \notin stale
  PROVE  /\ opc[o] = "save" /\ mandate' = copy[o] /\ mandate' # None
         /\ mandate # None => mandate.state = "open" /\ Extends(mandate, mandate')
         /\ UNCHANGED <<job, wpc, result>>
<1>1. opc[o] = "save" /\ mandate' = copy[o] /\ UNCHANGED <<job, wpc, result>>
  BY DEF Save, Step
<1>2. copy[o] # None
  BY <1>1 DEF TypeInv, OrderAt
<1>3. mandate # None => mandate.state = "open" /\ Extends(mandate, copy[o])
  BY <1>1 DEF WindowInv, WindowAt
<1> QED
  BY <1>1, <1>2, <1>3

\* A job listed stays listed, and listed as returned but for its own worker.
LEMMA ListedStays ==
  ASSUME TypeInv, WindowInv, [Next]_vars, ~LosesUpdate, NEW r \in Roles, NEW k \in Jobs
  PROVE  /\ HasJob(mandate, r, k) => HasJob(mandate', r, k)
         /\ HasReturned(mandate, r, k) /\ ~SaveSettled(k) => HasReturned(mandate', r, k)
<1>1. CASE mandate' = mandate
  BY <1>1
<1>2. ASSUME NEW o \in Operators, Save(o)
      PROVE  /\ HasJob(mandate, r, k) => HasJob(mandate', r, k)
             /\ HasReturned(mandate, r, k) => HasReturned(mandate', r, k)
  <2>1. mandate' # None /\ (mandate # None => Extends(mandate, mandate'))
    BY <1>2, SavedKeeps DEF LosesUpdate
  <2>2. CASE mandate = None
    BY <2>2 DEF HasJob, HasReturned
  <2>3. CASE mandate # None
    <3> DEFINE n == mandate'
    <3>1. n # None /\ Extends(mandate, n)
      BY <2>1, <2>3
    <3> HIDE DEF n
    <3>2. /\ HasJob(mandate, r, k) => HasJob(n, r, k)
          /\ HasReturned(mandate, r, k) => HasReturned(n, r, k)
      BY <3>1, ExtendsHas
    <3> QED
      BY <3>2 DEF n
  <2> QED
    BY <2>2, <2>3
<1>3. ASSUME NEW j \in Jobs, SaveSettled(j)
      PROVE  /\ HasJob(mandate, r, k) => HasJob(mandate', r, k)
             /\ HasReturned(mandate, r, k) /\ ~SaveSettled(k) => HasReturned(mandate', r, k)
  BY <1>3, SettledKeeps DEF LosesUpdate
<1> QED
  BY <1>1, <1>2, <1>3, MandateCourse

----------------------------------------------------------------------------
(* Every unsettled job is covered.                                         *)

\* What covers the jobs to settle covers them on, while no command saves.
LEMMA CoversStays ==
  ASSUME TypeInv, WindowInv, [Next]_vars, \A o \in Operators : ~Save(o),
         NEW m, Covers(m)
  PROVE  Covers(m)'
<1>1. ASSUME NEW j \in Jobs, NEW r \in Roles, Unsettled(j, r)' PROVE Unsettled(j, r)
  <2>1. wpc[j] \in AtCall => job[j].attempt >= 1
    BY DEF WindowInv, AttemptAt
  <2> QED
    BY <1>1, <2>1, UnsettledCourse
<1> QED
  BY <1>1 DEF Covers

\* An engagement that was not refused covers the job that held the role, by
\* the override it records.
LEMMA EngagementCovers ==
  ASSUME TypeInv, Covers(mandate), NEW q \in Commands, q.role # None, NEW k \in Jobs,
         NEW m \in MandateRecord, m = IF mandate = None THEN NewMandate ELSE mandate
  PROVE  Covers(MandateWith(m, q, k))
<1> DEFINE n == MandateWith(m, q, k)
<1>1. /\ \A r \in Roles \ {q.role} : n.roles[r] = m.roles[r]
      /\ \A r : Duplicated(m, r) => Duplicated(n, r)
      /\ InFlight(RoleIn(m, q)) => Duplicated(n, q.role)
      /\ q.role \in Roles
  BY EngagementKeeps, RoleInType
<1> HIDE DEF n
<1>2. ASSUME NEW r \in Roles, NEW j \in Jobs, Unsettled(j, r)
      PROVE  Duplicated(n, r) \/ (n.roles[r] # None /\ n.roles[r].inFlight = j)
  <2>1. ~JobIsTerminal(j) /\ mandate # None /\ m = mandate
    BY <1>2, UnsettledType
  <2>2. Duplicated(m, r) \/ (m.roles[r] # None /\ m.roles[r].inFlight = j)
    BY <1>2, <2>1 DEF Covers
  <2>3. CASE r # q.role
    BY <1>1, <2>2, <2>3
  <2>4. CASE r = q.role /\ m.roles[r] # None /\ m.roles[r].inFlight = j
    <3>1. InFlight(RoleIn(m, q))
      BY <2>1, <2>4, MandateAssumption DEF RoleIn, InFlight
    <3> QED
      BY <1>1, <2>4, <3>1
  <2> QED
    BY <1>1, <2>2, <2>3, <2>4
<1> QED
  BY <1>2 DEF Covers, n

\* A close clears no role of a job to settle.
LEMMA CloseCovers ==
  ASSUME TypeInv, Covers(mandate), mandate # None, NEW x \in SUBSET Override
  PROVE  Covers(ClosedMandate(mandate, x))
<1> DEFINE n == ClosedMandate(mandate, x)
<1>1. mandate \in MandateRecord
  BY DEF TypeInv, StateOK
<1>2. /\ \A r : Duplicated(mandate, r) => Duplicated(n, r)
      /\ \A r \in Roles :
           /\ n.roles[r] = None <=> mandate.roles[r] = None
           /\ mandate.roles[r] # None =>
                n.roles[r].inFlight =
                  IF mandate.roles[r].inFlight # None /\ JobIsTerminal(mandate.roles[r].inFlight)
                  THEN None ELSE mandate.roles[r].inFlight
  BY <1>1, CloseKeeps, ClosedType
<1> HIDE DEF n
<1>3. ASSUME NEW r \in Roles, NEW j \in Jobs, Unsettled(j, r)
      PROVE  Duplicated(n, r) \/ (n.roles[r] # None /\ n.roles[r].inFlight = j)
  <2>1. ~JobIsTerminal(j)
    BY <1>3, UnsettledType
  <2>2. Duplicated(mandate, r) \/ (mandate.roles[r] # None /\ mandate.roles[r].inFlight = j)
    BY <1>3 DEF Covers
  <2> QED
    BY <1>2, <2>1, <2>2
<1> QED
  BY <1>3 DEF Covers, n

\* The mandate covers the jobs to settle after every step, while nothing is lost.
LEMMA CoversStep ==
  ASSUME TypeInv, TypeInv', WindowInv, RecordInv, [Next]_vars, ~lost'
  PROVE  Covers(mandate)'
<1>0. ~LosesUpdate
  BY NothingLost
<1>1. ASSUME NEW o \in Operators, Save(o) PROVE Covers(mandate)'
  <2>1. o \notin stale /\ opc[o] = "save" /\ mandate' = copy[o] /\ copy[o] # None
    BY <1>0, <1>1, SavedKeeps DEF LosesUpdate
  <2>2. Covers(copy[o])
    BY <2>1 DEF RecordInv, CreateAt
  <2>3. ASSUME NEW r \in Roles, NEW j \in Jobs, Unsettled(j, r)'
        PROVE  \/ Duplicated(copy[o], r)
               \/ copy[o].roles[r] # None /\ copy[o].roles[r].inFlight = j
    <3>1. CASE Unsettled(j, r)
      BY <2>1, <2>2, <3>1 DEF Covers
    <3>2. CASE order[o].what = "submit" /\ order[o].job = j /\ order[o].args.role = r
      BY <2>1, <3>2 DEF WindowInv, WindowAt, HasJob
    <3>3. wpc[j] \in AtCall => job[j].attempt >= 1
      BY DEF WindowInv, AttemptAt
    <3>4. \A p \in Operators : Save(p) => p = o
      BY <1>1, OneSaves
    <3> QED
      BY <2>3, <3>1, <3>2, <3>3, <3>4, UnsettledCourse
  <2> QED
    BY <2>1, <2>3 DEF Covers, Duplicated
<1>2. ASSUME NEW i \in Jobs, SaveSettled(i) PROVE Covers(mandate)'
  <2>1. \A o \in Operators : ~Save(o)
    BY <1>2, SaveCloses
  <2>2. mandate # None /\ mandate'.overrides = mandate.overrides
        /\ \A s \in Roles : \A k \in Jobs \ {i} :
             mandate.roles[s] # None /\ mandate.roles[s].inFlight = k =>
               mandate'.roles[s] # None /\ mandate'.roles[s].inFlight = k
    BY <1>0, <1>2, SettledKeeps DEF LosesUpdate
  <2>3. ASSUME NEW r \in Roles, NEW j \in Jobs, Unsettled(j, r)'
        PROVE  \/ Duplicated(mandate, r)
               \/ mandate'.roles[r] # None /\ mandate'.roles[r].inFlight = j
    <3>1. Unsettled(j, r)
      <4>1. wpc[j] \in AtCall => job[j].attempt >= 1
        BY DEF WindowInv, AttemptAt
      <4> QED
        BY <2>1, <2>3, <4>1, UnsettledCourse
    <3>2. j # i
      <4>1. wpc'[i] = "record"
        BY <1>2, SaveCloses
      <4>2. wpc'[j] # "record"
        BY <2>3, MandateAssumption
           DEF Unsettled, FirstAttempt, TypeInv, OrderAt, SubmitAt, Submitting
      <4> QED
        BY <4>1, <4>2
    <3> QED
      BY <2>2, <3>1, <3>2 DEF RecordInv, Covers
  <2> QED
    BY <2>2, <2>3 DEF Covers, Duplicated
<1>3. CASE mandate' = mandate /\ \A o \in Operators : ~Save(o)
  BY <1>3, CoversStays DEF RecordInv, Covers
<1>4. ASSUME NEW o \in Operators, Save(o) PROVE mandate' = copy[o]
  BY <1>4 DEF Save
<1> QED
  BY <1>1, <1>2, <1>3, MandateCourse

----------------------------------------------------------------------------
(* Every step keeps the invariant.                                         *)

\* What an operator decided on a mandate that nobody has saved since.
LEMMA WindowAtStep ==
  ASSUME TypeInv, TypeInv', WindowInv, [Next]_vars, NEW o \in Operators
  PROVE  WindowAt(o)'
<1> SUFFICES ASSUME o \notin stale' PROVE WindowAt(o)'
  BY DEF WindowAt
<1>0. o \in Procs /\ copy \in [Procs -> MandateRecord \cup {None}]
      /\ opc \in [Operators -> OperatorSteps]
  BY DEF TypeInv, StateOK, Procs
<1>1. CASE opc'[o] = opc[o] /\ order'[o] = order[o] /\ copy'[o] = copy[o]
  <2>1. CASE opc[o] \in {"decide", "save"}
    <3>1. o \in Windows
      BY <2>1 DEF Windows
    <3>2. mandate' = mandate /\ o \notin stale
      BY <1>1, <3>1, WindowHeld
    <3> QED
      BY <1>1, <3>2 DEF WindowInv, WindowAt, Extends, HasJob
  <2>2. CASE opc[o] \notin {"decide", "save"}
    BY <1>1, <2>2 DEF WindowAt
  <2> QED
    BY <2>1, <2>2
<1>2. CASE Submit(o) \/ Save(o) \/ Close(o) \/ Verify(o) \/ Create(o) \/ Spawn(o) \/ Mark(o)
             \/ Show(o) \/ OperatorDies(o)
  <2>1. opc'[o] \notin {"decide", "save"}
    BY <1>0, <1>2 DEF Submit, Save, Close, Verify, Create, Spawn, Mark, Show, OperatorDies,
                      Command, Step
  <2> QED
    BY <2>1 DEF WindowAt
<1>3. CASE Load(o)
  BY <1>0, <1>3 DEF Load, Step, WindowAt
<1>4. CASE Refuse(o)
  BY <1>0, <1>4 DEF Refuse, Step, WindowAt
<1>5. ASSUME NEW n, Agree(o, n), mandate' = mandate,
             mandate # None => mandate.state = "open" /\ Extends(mandate, n),
             order[o].what = "submit" =>
               /\ HasJob(n, order[o].args.role, order[o].job)
               /\ n.roles[order[o].args.role].inFlight = order[o].job
      PROVE  WindowAt(o)'
  <2>1. opc'[o] = "save" /\ copy'[o] = n /\ order'[o] = order[o]
    BY <1>0, <1>5 DEF Agree, Step
  <2> QED
    BY <1>5, <2>1 DEF WindowAt, HasJob, Extends
<1>6. CASE DecideSubmit(o)
  <2> DEFINE m == IF copy[o] = None THEN NewMandate ELSE copy[o]
             q == order[o].args
             k == order[o].job
  <2>1. /\ opc[o] = "decide" /\ mandate' = mandate
        /\ Refuse(o) \/ (~Refused(m, q) /\ Agree(o, MandateWith(m, q, k)))
    BY <1>6 DEF DecideSubmit
  <2>2. CASE Agree(o, MandateWith(m, q, k)) /\ ~Refused(m, q)
    <3>1. copy[o] = mandate
      <4>1. o \notin stale
        BY <2>2 DEF Agree, history
      <4> QED
        BY <2>1, <4>1 DEF WindowInv, WindowAt
    <3>2. /\ q \in Commands /\ q.role # None /\ k \in Jobs /\ m \in MandateRecord
          /\ m = IF mandate = None THEN NewMandate ELSE mandate
      BY <1>0, <1>6, <2>1, <3>1, NewMandateType
         DEF DecideSubmit, OrderAt, Submitting, SubmitAt, InWindow, TypeInv, StateOK
    <3> HIDE DEF m
    <3>3. /\ Extends(m, MandateWith(m, q, k)) /\ HasJob(MandateWith(m, q, k), q.role, k)
          /\ MandateWith(m, q, k).roles[q.role].inFlight = k
      BY <3>2, EngagementKeeps
    <3>4. mandate # None => mandate.state = "open"
      BY <2>2, <3>2 DEF Refused, MandateRecord
    <3> QED
      BY <1>5, <2>1, <2>2, <3>2, <3>3, <3>4
  <2> QED
    BY <1>4, <2>1, <2>2
<1>7. CASE DecideClose(o)
  <2>1. /\ opc[o] = "decide" /\ mandate' = mandate /\ order[o].what # "submit"
        /\ o \notin stale \/ Refuse(o)
    BY <1>7 DEF DecideClose, Agree, history
  <2>2. CASE o \notin stale
    <3>1. copy[o] = mandate
      BY <2>1, <2>2 DEF WindowInv, WindowAt
    <3>2. \/ Refuse(o)
          \/ /\ mandate # None /\ mandate.state = "open"
             /\ \E x \in SUBSET Override : Agree(o, ClosedMandate(mandate, x))
      <4>1. {} \in SUBSET Override /\ mandate \in MandateRecord \cup {None}
        BY DEF TypeInv, StateOK
      <4> QED
        BY <1>7, <3>1, <4>1, BusyOverride DEF DecideClose
    <3>3. ASSUME NEW x \in SUBSET Override, mandate # None, mandate.state = "open",
                 Agree(o, ClosedMandate(mandate, x))
          PROVE  WindowAt(o)'
      <4>1. Extends(mandate, ClosedMandate(mandate, x))
        BY <3>3, CloseKeeps DEF TypeInv, StateOK
      <4> QED
        BY <1>5, <2>1, <3>3, <4>1
    <3> QED
      BY <1>4, <3>2, <3>3
  <2> QED
    BY <1>4, <2>1, <2>2
<1> QED
  BY <1>1, <1>2, <1>3, <1>6, <1>7, OperatorCourse DEF Acts

\* Its decision covers the jobs to settle, and what it saved stays listed.
LEMMA CreateAtStep ==
  ASSUME TypeInv, TypeInv', WindowInv, RecordInv, [Next]_vars, ~lost', NEW o \in Operators
  PROVE  CreateAt(o)'
<1>0. /\ o \in Procs /\ copy \in [Procs -> MandateRecord \cup {None}]
      /\ opc \in [Operators -> OperatorSteps] /\ ~LosesUpdate
  BY NothingLost DEF TypeInv, StateOK, Procs
<1>1. CASE opc'[o] = opc[o] /\ order'[o] = order[o] /\ copy'[o] = copy[o]
  <2>1. ASSUME opc[o] = "save", o \notin stale' PROVE Covers(copy[o])'
    <3>1. o \in Windows
      BY <2>1 DEF Windows
    <3>2. o \notin stale /\ \A p \in Operators : ~Save(p)
      BY <1>1, <2>1, <3>1, WindowHeld
    <3>3. Covers(copy[o])
      BY <2>1, <3>2 DEF RecordInv, CreateAt
    <3> QED
      BY <1>1, <3>2, <3>3, CoversStays DEF Covers
  <2>2. ASSUME opc[o] = "create", order[o].args.role # None
        PROVE  HasJob(mandate', order[o].args.role, order[o].job)
    <3>1. order[o].args.role \in Roles /\ order[o].job \in Jobs
      BY <2>2, MandateAssumption
         DEF TypeInv, StateOK, OrderAt, Submitting, SubmitAt, Submits
    <3>2. HasJob(mandate, order[o].args.role, order[o].job)
      BY <2>2 DEF RecordInv, CreateAt
    <3> QED
      BY <1>0, <3>1, <3>2, ListedStays
  <2> QED
    BY <1>1, <2>1, <2>2 DEF CreateAt, HasJob
<1>2. CASE Submit(o)
  <2>1. PICK q \in Commands, i \in Jobs :
          Command(o, IF q.role = None THEN "create" ELSE "load", "submit", i, q)
    BY <1>2 DEF Submit
  <2>2. opc'[o] = (IF q.role = None THEN "create" ELSE "load") /\ order'[o].args = q
    BY <2>1 DEF Command, TypeInv, StateOK
  <2> QED
    BY <2>2 DEF CreateAt
<1>3. CASE Load(o) \/ Refuse(o) \/ Close(o) \/ Verify(o) \/ Create(o) \/ Spawn(o) \/ Mark(o)
             \/ Show(o) \/ OperatorDies(o)
  <2>1. opc'[o] \notin {"save", "create"}
    BY <1>0, <1>3 DEF Load, Refuse, Close, Verify, Create, Spawn, Mark, Show, OperatorDies,
                      Command, Step
  <2> QED
    BY <2>1 DEF CreateAt
<1>4. ASSUME NEW n, Agree(o, n), DecideSubmit(o) \/ DecideClose(o),
             o \notin stale => Covers(n)
      PROVE  CreateAt(o)'
  <2>1. opc'[o] = "save" /\ copy'[o] = n /\ stale' = stale
    BY <1>0, <1>4 DEF Agree, Step, history
  <2>2. o \notin stale => Covers(n)'
    BY <1>4, CoversStays, DecideKeeps
  <2> QED
    BY <2>1, <2>2 DEF CreateAt, Covers
<1>5. CASE DecideSubmit(o)
  <2> DEFINE m == IF copy[o] = None THEN NewMandate ELSE copy[o]
             q == order[o].args
             k == order[o].job
  <2>1. opc[o] = "decide" /\ (Refuse(o) \/ Agree(o, MandateWith(m, q, k)))
    BY <1>5 DEF DecideSubmit
  <2>2. ASSUME o \notin stale PROVE Covers(MandateWith(m, q, k))
    <3>1. copy[o] = mandate
      BY <2>1, <2>2 DEF WindowInv, WindowAt
    <3>2. /\ q \in Commands /\ q.role # None /\ k \in Jobs /\ m \in MandateRecord
          /\ m = IF mandate = None THEN NewMandate ELSE mandate
      BY <1>0, <1>5, <2>1, <3>1, NewMandateType
         DEF DecideSubmit, OrderAt, Submitting, SubmitAt, InWindow, TypeInv, StateOK
    <3> HIDE DEF m
    <3> QED
      BY <3>2, EngagementCovers DEF RecordInv
  <2> QED
    BY <1>3, <1>4, <1>5, <2>1, <2>2
<1>6. CASE DecideClose(o)
  <2>1. opc[o] = "decide" /\ (o \notin stale => copy[o] = mandate)
    BY <1>6 DEF DecideClose, WindowInv, WindowAt
  <2>2. \/ Refuse(o)
        \/ copy[o] # None /\ \E x \in SUBSET Override : Agree(o, ClosedMandate(copy[o], x))
    <3>1. {} \in SUBSET Override /\ copy[o] \in MandateRecord \cup {None}
      BY <1>0
    <3> QED
      BY <1>6, <3>1, BusyOverride DEF DecideClose
  <2>3. ASSUME NEW x \in SUBSET Override, copy[o] # None, Agree(o, ClosedMandate(copy[o], x))
        PROVE  CreateAt(o)'
    <3>1. o \notin stale => Covers(ClosedMandate(copy[o], x))
      BY <2>1, <2>3, CloseCovers DEF RecordInv
    <3> QED
      BY <1>4, <1>6, <2>3, <3>1
  <2> QED
    BY <1>3, <2>2, <2>3
<1>7. CASE Save(o)
  <2>1. /\ opc[o] = "save" /\ mandate' = copy[o] /\ o \notin stale
        /\ order[o].what = "submit" => order'[o] = order[o]
        /\ opc'[o] = IF order[o].what = "submit" THEN "create" ELSE "idle"
    BY <1>0, <1>7 DEF Save, Step, LosesUpdate
  <2>2. order[o].what = "submit" => HasJob(copy[o], order[o].args.role, order[o].job)
    BY <2>1 DEF WindowInv, WindowAt
  <2> QED
    BY <2>1, <2>2 DEF CreateAt, HasJob
<1> QED
  BY <1>1, <1>2, <1>3, <1>5, <1>6, <1>7, OperatorCourse DEF Acts

\* What the worker of a job has attempted.
LEMMA AttemptCount ==
  ASSUME TypeInv, WindowInv, [Next]_vars, NEW j \in Jobs, wpc'[j] \in AtCall
  PROVE  job'[j].attempt >= 1
<1>1. /\ wpc[j] \in AtCall => job[j].attempt >= 1
      /\ wpc \in [Jobs -> WorkerSteps] /\ job \in [Jobs -> JobRecord \cup {None}]
      /\ wpc[j] # "off" => job[j] \in JobRecord
  BY KeptRecord DEF WindowInv, AttemptAt, TypeInv, StateOK, JobAt
<1>2. CASE Begin(j)
  <2>1. wpc[j] = "start" /\ job[j] \in JobRecord
    BY <1>1, <1>2 DEF Begin
  <2>2. CASE JobIsTerminal(j)
    BY <1>1, <1>2, <2>2 DEF Begin, Work, AtCall
  <2>3. CASE ~JobIsTerminal(j)
    <3>1. job' = [job EXCEPT ![j] = [job[j] EXCEPT !.status = "running", !.attempt = 1]]
      BY <1>1, <1>2, <2>3 DEF Begin
    <3> QED
      BY <1>1, <2>1, <3>1 DEF JobRecord
  <2> QED
    BY <2>2, <2>3
<1>3. CASE CallEnds(j) \/ LoadToSettle(j) \/ SaveSettled(j)
  BY <1>1, <1>3 DEF CallEnds, LoadToSettle, SaveSettled, Work, AtCall
<1>4. CASE RecordReturn(j) \/ RecordFailure(j) \/ Publish(j) \/ WorkerDies(j)
  BY <1>1, <1>4 DEF RecordReturn, RecordFailure, Publish, WorkerDies, Work, AtCall
<1>5. CASE Retry(j)
  <2>1. /\ wpc[j] = "record" /\ job[j] \in JobRecord /\ job[j].attempt >= 1
        /\ job' = [job EXCEPT ![j] = [job[j] EXCEPT !.status = "retrying",
                                                     !.attempt = job[j].attempt + 1]]
    BY <1>1, <1>5 DEF Retry, Work, AtCall
  <2>2. job'[j].attempt = job[j].attempt + 1
    BY <1>1, <2>1 DEF JobRecord
  <2> QED
    BY <2>1, <2>2 DEF JobRecord
<1>6. CASE /\ wpc'[j] = wpc[j] \/ (wpc[j] = "off" /\ wpc'[j] = "start")
           /\ wpc[j] \in AtCall => job'[j] = job[j]
  BY <1>1, <1>6 DEF AtCall
<1> QED
  BY <1>2, <1>3, <1>4, <1>5, <1>6, WorkerCourse DEF RunWorker

\* The worker of a job settles the mandate it loaded.
LEMMA AttemptStep ==
  ASSUME TypeInv, WindowInv, [Next]_vars, NEW j \in Jobs
  PROVE  AttemptAt(j)'
<1>0. /\ wpc \in [Jobs -> WorkerSteps] /\ j \in Procs
      /\ copy \in [Procs -> MandateRecord \cup {None}]
  BY DEF TypeInv, StateOK, Procs
<1>1. ASSUME wpc'[j] = "settling", j \notin stale' PROVE copy'[j] = mandate'
  <2>1. CASE LoadToSettle(j)
    BY <1>0, <1>1, <2>1 DEF LoadToSettle, Work
  <2>2. CASE wpc[j] = "settling" /\ copy'[j] = copy[j]
    <3>1. j \in Windows
      BY <2>2 DEF Windows
    <3>2. mandate' = mandate /\ j \notin stale
      BY <1>1, <2>2, <3>1, WindowHeld
    <3> QED
      BY <2>2, <3>2 DEF WindowInv, AttemptAt
  <2>3. ASSUME RunWorker(j) \/ WorkerDies(j) PROVE LoadToSettle(j)
    BY <1>0, <1>1, <2>3 DEF RunWorker, WorkerDies, Begin, CallEnds, SaveSettled, RecordReturn,
                            RecordFailure, Retry, Publish, Work
  <2> QED
    BY <1>1, <2>1, <2>2, <2>3, WorkerCourse
<1> QED
  BY <1>1, AttemptCount DEF AttemptAt

\* The job of a worker in the mandate, while nothing is lost.
LEMMA EngagedAtStep ==
  ASSUME TypeInv, TypeInv', WindowInv, RecordInv, [Next]_vars, ~lost', NEW j \in Jobs
  PROVE  EngagedAt(j)'
<1>0. /\ wpc \in [Jobs -> WorkerSteps] /\ job \in [Jobs -> JobRecord \cup {None}]
      /\ copy \in [Procs -> MandateRecord \cup {None}] /\ j \in Procs
  BY DEF TypeInv, StateOK, Procs
<1>1. ~LosesUpdate
  BY NothingLost
<1>2. ASSUME job'[j] # None, job'[j].role # None
      PROVE  HasJob(mandate', job'[j].role, j)
  <2>1. CASE job[j] # None
    <3>1. job'[j].role = job[j].role
      BY <2>1, JobCourse DEF SameJob
    <3>2. HasJob(mandate, job[j].role, j) /\ job[j].role \in Roles
      BY <1>0, <1>2, <2>1, <3>1 DEF RecordInv, EngagedAt, JobRecord
    <3> QED
      BY <1>1, <3>1, <3>2, ListedStays
  <2>2. CASE job[j] = None
    <3>1. PICK o \in Operators : Create(o) /\ j = order[o].job
      BY <1>2, <2>2, JobCourse
    <3>2. /\ job'[j].role = order[o].args.role /\ order[o].args \in Submits
          /\ opc[o] = "create"
      BY <1>0, <3>1, CreatedType DEF Create, Step
    <3>3. HasJob(mandate, order[o].args.role, j) /\ order[o].args.role \in Roles
      BY <1>2, <3>1, <3>2 DEF RecordInv, CreateAt, Submits
    <3> QED
      BY <1>1, <3>2, <3>3, ListedStays
  <2> QED
    BY <2>1, <2>2
<1>3. ASSUME job'[j] # None, job'[j].role # None,
             Returned(j)' \/ (wpc'[j] = "record" /\ result'[j].outcome = "returned")
      PROVE  HasReturned(mandate', job'[j].role, j)
  <2>1. CASE SaveSettled(j)
    <3>1. /\ job'[j] = job[j] /\ result'[j] = result[j] /\ wpc[j] = "settling"
          /\ HasJob(mandate, job[j].role, j) /\ result[j].outcome = "returned" =>
               HasReturned(mandate', job[j].role, j)
      BY <1>1, <2>1, SettledKeeps, SaveCloses DEF LosesUpdate
    <3>2. ~Returned(j)'
      BY <3>1 DEF Returned, TypeInv, JobAt, AtCall, Verdicts
    <3>3. HasJob(mandate, job[j].role, j)
      BY <1>3, <2>1, <3>1 DEF RecordInv, EngagedAt, TypeInv, JobAt
    <3> QED
      BY <1>3, <3>1, <3>2, <3>3
  <2>2. CASE ~SaveSettled(j)
    <3>1. ASSUME job[j] # None, job'[j].role = job[j].role,
                 Returned(j) \/ (wpc[j] = "record" /\ result[j].outcome = "returned")
          PROVE  HasReturned(mandate', job'[j].role, j)
      <4>1. job[j].role \in Roles /\ HasReturned(mandate, job[j].role, j)
        BY <1>0, <1>3, <3>1 DEF RecordInv, EngagedAt, JobRecord
      <4> QED
        BY <1>1, <2>2, <3>1, <4>1, ListedStays
    <3>2. job[j] # None => job'[j].role = job[j].role
      BY JobCourse DEF SameJob
    <3>3. CASE Returned(j)'
      <4>1. \/ Returned(j)
            \/ wpc[j] = "record" /\ result[j].outcome = "returned" /\ job[j] # None
        BY <3>3, ReturnedCourse DEF RecordReturn, Work, TypeInv, JobAt
      <4> QED
        BY <3>1, <3>2, <4>1 DEF Returned
    <3>4. CASE wpc'[j] = "record" /\ result'[j].outcome = "returned"
      <4>1. CASE CallEnds(j)
        BY <1>0, <1>3, <3>4, <4>1 DEF CallEnds, Work
      <4>2. CASE LoadToSettle(j)
        <5>1. /\ job[j] # None /\ job[j].role # None /\ mandate.roles[job[j].role] = None
          BY <1>0, <1>3, <3>4, <4>2 DEF LoadToSettle, Work, TypeInv, JobAt
        <5> QED
          BY <5>1 DEF RecordInv, EngagedAt, HasJob
      <4>3. ASSUME RunWorker(j) \/ WorkerDies(j) PROVE CallEnds(j) \/ LoadToSettle(j)
        BY <1>0, <2>2, <3>4, <4>3
           DEF RunWorker, WorkerDies, Begin, RecordReturn, RecordFailure, Retry, Publish, Work
      <4>4. CASE result'[j] = result[j] /\ wpc[j] = "record"
        <5>1. job[j] # None
          BY <4>4 DEF TypeInv, JobAt
        <5> QED
          BY <3>1, <3>2, <3>4, <4>4, <5>1
      <4> QED
        BY <3>4, <4>1, <4>2, <4>3, <4>4, WorkerCourse
    <3> QED
      BY <1>3, <3>3, <3>4
  <2> QED
    BY <2>1, <2>2
<1> QED
  BY <1>2, <1>3 DEF EngagedAt, HasJob, HasReturned

\* Every step keeps the strengthening, given the types before and after.
LEMMA SafetyStep == TypeInv /\ TypeInv' /\ SafetyInv /\ [Next]_vars => SafetyInv'
<1> SUFFICES ASSUME TypeInv, TypeInv', SafetyInv, [Next]_vars PROVE SafetyInv'
  OBVIOUS
<1>1. WindowInv'
  BY WindowAtStep, AttemptStep DEF SafetyInv, WindowInv
<1>2. ASSUME ~lost' PROVE RecordInv'
  <2>1. WindowInv /\ RecordInv
    BY <1>2, NothingLost DEF SafetyInv
  <2> QED
    BY <1>2, <2>1, CreateAtStep, EngagedAtStep, CoversStep DEF RecordInv
<1> QED
  BY <1>1, <1>2 DEF SafetyInv

\* The types and the strengthening hold in every reachable state.
LEMMA SafetyInvariant == Spec => [](TypeInv /\ SafetyInv)
<1>1. TypeInv /\ SafetyInv /\ [Next]_vars => TypeInv' /\ SafetyInv'
  BY TypeStep, SafetyStep
<1> QED
  BY <1>1, TypeInit, SafetyInit, PTL DEF Spec

----------------------------------------------------------------------------
(* The theorems.                                                           *)

\* settle_mandate, engage (agent_runner.py): up to the first lost update a job
\* under a mandate is returned in its record only after its engagement is, and
\* the mandate never says otherwise later.
THEOREM OutcomeIsOnRecord == Spec => []OutcomeOnRecord
<1>1. SafetyInv => OutcomeOnRecord
  BY DEF SafetyInv, RecordInv, EngagedAt, HasReturned, Returned, OutcomeOnRecord
<1> QED
  BY <1>1, SafetyInvariant, PTL

\* engage: up to the first lost update the provider works for two jobs of one
\* role at once only when --force is on record or one of them is a retry.
THEOREM DuplicateIsOnRecord == Spec => []DuplicateOnRecord
<1>1. ASSUME TypeInv, SafetyInv, ~lost, NEW r \in Roles, NEW a \in Jobs, NEW b \in Jobs,
             a # b, AtWork(a, r), AtWork(b, r), job[a].attempt <= 1, job[b].attempt <= 1
      PROVE  Duplicated(mandate, r)
  <2>1. ASSUME NEW j \in Jobs, AtWork(j, r), job[j].attempt <= 1 PROVE Unsettled(j, r)
    <3>1. job[j] # None /\ job[j].role = r /\ job[j].status \in {"running", "retrying"}
      BY <1>1, <2>1 DEF AtWork, TypeInv, JobAt, AtCall
    <3> QED
      BY <2>1, <3>1 DEF AtWork, Unsettled, FirstAttempt, JobIsTerminal, Terminal, Verdicts
  <2>2. Unsettled(a, r) /\ Unsettled(b, r)
    BY <1>1, <2>1
  <2>3. mandate # None
    BY <1>1, <2>2, UnsettledType
  <2> QED
    BY <1>1, <2>2, <2>3, MandateAssumption DEF SafetyInv, RecordInv, Covers
<1>2. ASSUME TypeInv, NEW j \in Jobs, NEW r, AtWork(j, r)
      PROVE  job[j].attempt \in Int
  <2>1. job[j] # None
    BY <1>2 DEF AtWork, TypeInv, JobAt
  <2> QED
    BY <1>2, <2>1, KeptRecord, MandateAssumption DEF JobRecord
<1>3. TypeInv /\ SafetyInv => DuplicateOnRecord
  BY <1>1, <1>2 DEF DuplicateOnRecord, Duplicated
<1> QED
  BY <1>3, SafetyInvariant, PTL

\* mandate_close, engage (agent_runner.py): whatever was lost before, only a
\* save that loses an update reopens a mandate that was closed or engages under
\* it again; the workers of its jobs may still settle them.
THEOREM ClosedStaysClosed == Spec => ClosedForGood
<1>1. ASSUME TypeInv, SafetyInv, [Next]_vars, ~LosesUpdate,
             mandate # None, mandate.state = "closed"
      PROVE  mandate'.state = "closed" /\ EngagedJobs(mandate') = EngagedJobs(mandate)
  <2>1. \A o \in Operators : ~Save(o)
    BY <1>1, SavedKeeps DEF SafetyInv, LosesUpdate
  <2>2. ASSUME NEW j \in Jobs, SaveSettled(j)
        PROVE  mandate'.state = "closed" /\ EngagedJobs(mandate') = EngagedJobs(mandate)
    <3> DEFINE n == mandate'
    <3>1. /\ n # None /\ n.state = mandate.state
          /\ \A s \in Roles : \A k : HasJob(n, s, k) <=> HasJob(mandate, s, k)
      BY <1>1, <2>2, SettledKeeps DEF SafetyInv, LosesUpdate
    <3> HIDE DEF n
    <3>2. EngagedJobs(n) = EngagedJobs(mandate)
      BY <1>1, <3>1, SameEngagedJobs
    <3> QED
      BY <1>1, <3>1, <3>2 DEF n
  <2>3. CASE mandate' = mandate
    BY <1>1, <2>3
  <2> QED
    BY <1>1, <2>1, <2>2, <2>3, MandateCourse
<1>2. TypeInv /\ SafetyInv /\ [Next]_vars =>
        [mandate # None /\ mandate.state = "closed" /\ ~LosesUpdate
           => mandate'.state = "closed" /\ EngagedJobs(mandate') = EngagedJobs(mandate)]_vars
  BY <1>1
<1> QED
  BY <1>2, SafetyInvariant, PTL DEF Spec, ClosedForGood

=============================================================================
