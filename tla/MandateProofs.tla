--------------------------- MODULE MandateProofs ---------------------------
(***************************************************************************)
(* Theorems about Mandate.tla, for every set of jobs, roles and operators, *)
(* every set of submits and every number of retries, however the load-save *)
(* windows of the processes overlap and whoever dies.                      *)
(***************************************************************************)
EXTENDS Mandate, TLAPS

----------------------------------------------------------------------------
(* What the processes make of a mandate they loaded is a mandate.          *)

\* WithOutcome keeps the length of a list of engagements and its types.
LEMMA WithOutcomeType ==
  ASSUME NEW es \in Seq(Engagement), NEW j \in Jobs, NEW x \in Outcomes
  PROVE  WithOutcome(es, j, x) \in Seq(Engagement)
<1> DEFINE f == WithOutcome(es, j, x)
<1>1. DOMAIN es = 1..Len(es) /\ Len(es) \in Nat /\ \A i \in DOMAIN es : es[i] \in Engagement
  OBVIOUS
<1>2. \A i \in DOMAIN es : f[i] \in Engagement
  BY <1>1 DEF WithOutcome, Engagement
<1>3. f \in [1..Len(es) -> Engagement]
  BY <1>1, <1>2 DEF WithOutcome
<1> QED
  BY <1>1, <1>3

\* The role a submit finds in a mandate, or the new one it makes.
LEMMA RoleInType ==
  ASSUME NEW m \in MandateRecord, NEW q \in Commands, q.role # None
  PROVE  /\ q.role \in Roles /\ q \in Submits
         /\ RoleIn(m, q) \in RoleRecord
BY MandateAssumption DEF RoleIn, NewRole, RoleRecord, MandateRecord, Submits

\* The engagement of a job ends the list, in the mode that was decided, and a
\* role resumed keeps its thread.
LEMMA EngagedType ==
  ASSUME NEW rec \in RoleRecord, NEW q \in Submits, NEW j \in Jobs
  PROVE  /\ Engaged(rec, q, j) \in RoleRecord
         /\ Engaged(rec, q, j).engagements # <<>>
         /\ LastMode(Engaged(rec, q, j)) \in Modes
         /\ LastMode(Engaged(rec, q, j)) = "resumed" =>
              /\ Engaged(rec, q, j).thread # None
              /\ Engaged(rec, q, j).thread = rec.thread
<1> DEFINE e == [job |-> j, mode |-> EngageMode(rec, q), outcome |-> "pending"]
<1>1. EngageMode(rec, q) \in Modes /\ e \in Engagement
  BY DEF EngageMode, Modes, Engagement, Outcomes
<1>2. /\ rec.engagements \in Seq(Engagement)
      /\ Append(rec.engagements, e) \in Seq(Engagement)
      /\ Append(rec.engagements, e) # <<>>
      /\ Append(rec.engagements, e)[Len(Append(rec.engagements, e))] = e
  BY <1>1 DEF RoleRecord
<1>3. EngageMode(rec, q) = "fresh-forced" => rec.thread \in Jobs
  BY DEF EngageMode, RoleRecord
<1>4. EngageMode(rec, q) = "resumed" => rec.thread # None
  BY DEF EngageMode
<1>5. /\ Engaged(rec, q, j).engagements = Append(rec.engagements, e)
      /\ Engaged(rec, q, j).thread =
           IF EngageMode(rec, q) = "fresh-forced" THEN None ELSE rec.thread
  BY DEF Engaged
<1>6. Engaged(rec, q, j) \in RoleRecord
  BY <1>2, <1>3 DEF Engaged, RoleRecord, Submits
<1> QED
  BY <1>1, <1>2, <1>4, <1>5, <1>6 DEF LastMode

\* engage leaves a mandate with the role engaged and the others as they were.
LEMMA MandateWithType ==
  ASSUME NEW m \in MandateRecord, NEW q \in Commands, q.role # None, NEW j \in Jobs
  PROVE  /\ MandateWith(m, q, j) \in MandateRecord
         /\ MandateWith(m, q, j).roles =
              [m.roles EXCEPT ![q.role] = Engaged(RoleIn(m, q), q, j)]
         /\ MandateWith(m, q, j).state = m.state
         /\ MandateWith(m, q, j).overrides = m.overrides \cup ForcedBy(RoleIn(m, q), q, j)
<1>1. q.role \in Roles /\ RoleIn(m, q) \in RoleRecord
  BY RoleInType
<1>2. Engaged(RoleIn(m, q), q, j) \in RoleRecord
  BY <1>1, RoleInType, EngagedType
<1>3. ForcedBy(RoleIn(m, q), q, j) \subseteq Override
  BY <1>1 DEF ForcedBy, Override
<1>4. /\ MandateWith(m, q, j).roles =
           [m.roles EXCEPT ![q.role] = Engaged(RoleIn(m, q), q, j)]
      /\ MandateWith(m, q, j).state = m.state
      /\ MandateWith(m, q, j).overrides = m.overrides \cup ForcedBy(RoleIn(m, q), q, j)
      /\ MandateWith(m, q, j) \in
           [state : {m.state}, roles : {MandateWith(m, q, j).roles},
            overrides : {MandateWith(m, q, j).overrides}]
  BY DEF MandateWith, MandateRecord
<1> QED
  BY <1>1, <1>2, <1>3, <1>4 DEF MandateRecord

\* The empty mandate.
LEMMA NewMandateType == NewMandate \in MandateRecord
BY DEF NewMandate, MandateRecord

\* settle_mandate keeps a role a role.
LEMMA SettledType ==
  ASSUME NEW rec \in RoleRecord, NEW j \in Jobs, NEW res \in Result
  PROVE  /\ Settled(rec, j, res) \in RoleRecord
         /\ Settled(rec, j, res).thread \in {rec.thread, res.thread}
         /\ Settled(rec, j, res).thread # rec.thread =>
              res.outcome = "returned" /\ res.thread # None
<1>1. WithOutcome(rec.engagements, j, res.outcome) \in Seq(Engagement)
  BY WithOutcomeType DEF RoleRecord, Result
<1>2. /\ Settled(rec, j, res).engagements = WithOutcome(rec.engagements, j, res.outcome)
      /\ Settled(rec, j, res).thread \in {rec.thread, res.thread}
      /\ Settled(rec, j, res).thread # rec.thread =>
              res.outcome = "returned" /\ res.thread # None
      /\ Settled(rec, j, res).inFlight \in {rec.inFlight, None}
      /\ Settled(rec, j, res) \in
           [model : {rec.model}, thread : {rec.thread, res.thread}, resumes : {rec.resumes},
            inFlight : {rec.inFlight, None}, replaced : {rec.replaced},
            engagements : {WithOutcome(rec.engagements, j, res.outcome)}]
  BY DEF Settled, RoleRecord
<1> QED
  BY <1>1, <1>2 DEF RoleRecord, Result

\* A close with the overrides it leaves is a mandate, its roles keep all but
\* what was in flight.
LEMMA ClosedType ==
  ASSUME NEW m \in MandateRecord, NEW x \in SUBSET Override
  PROVE  /\ ClosedMandate(m, x) \in MandateRecord
         /\ \A r \in Roles :
              /\ ClosedMandate(m, x).roles[r] = None <=> m.roles[r] = None
              /\ m.roles[r] # None =>
                   /\ ClosedMandate(m, x).roles[r].thread = m.roles[r].thread
                   /\ ClosedMandate(m, x).roles[r].engagements = m.roles[r].engagements
                   /\ ClosedMandate(m, x).roles[r].inFlight =
                        IF m.roles[r].inFlight # None /\ JobIsTerminal(m.roles[r].inFlight)
                        THEN None ELSE m.roles[r].inFlight
         /\ ClosedMandate(m, x).state = "closed"
         /\ ClosedMandate(m, x).overrides = m.overrides \cup x
<1>1. None \notin RoleRecord
  BY MandateAssumption
<1>2. \A r \in Roles : m.roles[r] \in RoleRecord \cup {None}
  BY DEF MandateRecord
<1>3. \A r \in Roles : /\ Cleared(m.roles[r]) \in RoleRecord \cup {None}
                       /\ Cleared(m.roles[r]) = None <=> m.roles[r] = None
  BY <1>1, <1>2 DEF Cleared, RoleRecord
<1> QED
  BY <1>2, <1>3 DEF ClosedMandate, MandateRecord, Cleared, RoleRecord

----------------------------------------------------------------------------
(* Types.  What makes TypeOK inductive: a submit in progress is the only    *)
(* one that knows its job, which nobody works on before it is spawned; a   *)
(* worker has the record of its job; a job of a role has a mandate.        *)

Order == [what : {"submit", "close", "verify", None}, job : Jobs \cup {None},
          args : Commands \cup BOOLEAN \cup Verdicts \cup {None}]

InWindow == {"load", "decide", "save"}
AtCall   == {"call", "settle", "settling", "record"}

Submitting(o) == opc[o] \in InWindow \cup {"create", "spawn"} /\ order[o].what = "submit"

\* A job that returned, judged by a verify or not.
Returned(j) == job[j] # None /\ job[j].status \in {"returned"} \cup Verdicts

\* What a submit engaged is in its copy from the decision to the record.
HasEngaged(m, r) ==
  /\ m # None /\ m.roles[r] # None
  /\ LastMode(m.roles[r]) \in Modes
  /\ LastMode(m.roles[r]) = "resumed" => m.roles[r].thread # None

SubmitAt(o) ==
  /\ order[o].args \in Commands /\ order[o].job \in issued
  /\ wpc[order[o].job] = "off"
  /\ opc[o] = "spawn" => job[order[o].job] # None /\ job[order[o].job].status = "queued"
  /\ opc[o] # "spawn" => job[order[o].job] = None
  /\ opc[o] \in InWindow => order[o].args.role # None
  /\ opc[o] \in {"save", "create"} /\ order[o].args.role # None
       => HasEngaged(copy[o], order[o].args.role)
  /\ opc[o] = "create" /\ order[o].args.role # None => mandate # None

OrderAt(o) ==
  /\ opc[o] \in InWindow => order[o].what \in {"submit", "close"}
  /\ opc[o] \in {"create", "spawn"} => order[o].what = "submit"
  /\ opc[o] \in {"mark", "show"} =>
       order[o].job \in Jobs /\ Returned(order[o].job) /\ order[o].args \in Verdicts
  /\ Submitting(o) => SubmitAt(o)
  /\ opc[o] = "save" => copy[o] # None

JobAt(j) ==
  /\ job[j] # None => j \in issued
  /\ job[j] # None /\ job[j].role # None => mandate # None
  /\ wpc[j] # "off" => job[j] # None
  /\ wpc[j] = "off" /\ job[j] # None => job[j].status \in {"queued", "failed"}
  /\ wpc[j] = "start" => job[j].status = "queued"
  /\ wpc[j] \in AtCall => job[j].status \in {"running", "retrying"}
  /\ wpc[j] \in {"settle", "settling"} => job[j].role # None
  /\ wpc[j] = "settling" => copy[j] # None /\ copy[j].roles[job[j].role] # None

Apart ==
  \A a, b \in Operators :
    a # b /\ Submitting(a) /\ Submitting(b) => order[a].job # order[b].job

TypeInv ==
  /\ StateOK /\ order \in [Operators -> Order]
  /\ \A o \in Operators : OrderAt(o)
  /\ \A j \in Jobs : JobAt(j)
  /\ Apart

\* Nothing has begun.
LEMMA TypeInit == Init => TypeInv
<1> SUFFICES ASSUME Init PROVE TypeInv
  OBVIOUS
<1>1. /\ \A o \in Operators : opc[o] = "idle" /\ order[o] = NoOrder
      /\ \A j \in Jobs : wpc[j] = "off" /\ job[j] = None /\ artifact[j] = None
      /\ result = [j \in Jobs |-> NoResult]
  BY DEF Init
<1>2. StateOK /\ order \in [Operators -> Order]
  BY MandateAssumption
     DEF Init, StateOK, Order, NoOrder, NoResult, Result, Outcomes, OperatorSteps, WorkerSteps
<1>3. /\ \A o \in Operators : OrderAt(o) /\ ~Submitting(o)
      /\ \A j \in Jobs : JobAt(j)
  BY <1>1 DEF OrderAt, JobAt, Submitting, InWindow, AtCall, NoOrder, NoResult
<1> QED
  BY <1>2, <1>3 DEF TypeInv, Apart

\* A process that does not move keeps its place, when the job it knows, the
\* file and the ids drawn are still there.
LEMMA OrderFrame ==
  ASSUME TypeInv, NEW p \in Operators,
         opc'[p] = opc[p], order'[p] = order[p], copy'[p] = copy[p],
         issued \subseteq issued', mandate # None => mandate' # None,
         Submitting(p) => /\ wpc'[order[p].job] = wpc[order[p].job]
                          /\ job'[order[p].job] = job[order[p].job],
         \A j \in Jobs : Returned(j) => Returned(j)'
  PROVE  OrderAt(p)' /\ (Submitting(p)' <=> Submitting(p))
<1>1. OrderAt(p) /\ (Submitting(p)' <=> Submitting(p))
  BY DEF TypeInv, Submitting
<1>2. Submitting(p) => SubmitAt(p)'
  BY <1>1 DEF OrderAt, SubmitAt, HasEngaged
<1> QED
  BY <1>1, <1>2 DEF OrderAt

\* So does a job nobody works on, and one its worker does not work on now.
LEMMA JobFrame ==
  ASSUME TypeInv, NEW k \in Jobs,
         job'[k] = job[k], wpc'[k] = wpc[k], wpc[k] = "settling" => copy'[k] = copy[k],
         issued \subseteq issued', mandate # None => mandate' # None
  PROVE  JobAt(k)'
BY DEF TypeInv, JobAt, AtCall

\* The types of the variables, for the steps that assign few of them.
LEMMA TypesKept ==
  ASSUME TypeInv,
         mandate' \in MandateRecord \cup {None},
         job' \in [Jobs -> JobRecord \cup {None}],
         artifact' \in [Jobs -> Terminal \cup {None}],
         issued' \subseteq Jobs,
         opc' \in [Operators -> OperatorSteps],
         order' \in [Operators -> Order],
         wpc' \in [Jobs -> WorkerSteps],
         result' \in [Jobs -> Result],
         copy' \in [Procs -> MandateRecord \cup {None}]
  PROVE  StateOK' /\ order' \in [Operators -> Order]
BY DEF StateOK

\* A step of one operator that leaves the jobs and their workers alone.
LEMMA OperatorStep ==
  ASSUME TypeInv, NEW o \in Operators,
         UNCHANGED <<job, wpc, result>>,
         mandate' \in MandateRecord \cup {None}, mandate # None => mandate' # None,
         artifact' \in [Jobs -> Terminal \cup {None}],
         issued \subseteq issued', issued' \subseteq Jobs,
         NEW step \in OperatorSteps, opc' = [opc EXCEPT ![o] = step],
         NEW c \in Order, order' = [order EXCEPT ![o] = c],
         NEW m \in MandateRecord \cup {None}, copy' = [copy EXCEPT ![o] = m],
         OrderAt(o)',
         Submitting(o)' => (Submitting(o) /\ c.job = order[o].job) \/ c.job \notin issued
  PROVE  TypeInv'
<1>1. StateOK' /\ order' \in [Operators -> Order]
  BY TypesKept DEF TypeInv, StateOK
<1>2. /\ opc'[o] = step /\ order'[o] = c
      /\ \A p \in Operators \ {o} : opc'[p] = opc[p] /\ order'[p] = order[p] /\ copy'[p] = copy[p]
      /\ \A j \in Jobs : copy'[j] = copy[j]
  BY MandateAssumption DEF TypeInv, StateOK, Procs
<1>3. \A p \in Operators \ {o} : OrderAt(p)' /\ (Submitting(p)' <=> Submitting(p))
  BY <1>2, OrderFrame DEF Returned
<1>4. \A j \in Jobs : JobAt(j)'
  BY <1>2, JobFrame
<1>5. Apart'
  <2>1. \A p \in Operators \ {o} : Submitting(p) => order[p].job \in issued
    BY DEF TypeInv, OrderAt, SubmitAt
  <2> QED
    BY <1>2, <1>3, <2>1 DEF Apart, TypeInv
<1> QED
  BY <1>1, <1>3, <1>4, <1>5 DEF TypeInv

\* An order nobody has given.
LEMMA NoOrderType == NoOrder \in Order
BY DEF NoOrder, Order

\* The commands of an operator up to the record of the job keep the types.
LEMMA CommandType ==
  ASSUME TypeInv, NEW o \in Operators,
         Submit(o) \/ Close(o) \/ Verify(o) \/ Load(o)
  PROVE  TypeInv'
<1>0. /\ copy = [copy EXCEPT ![o] = copy[o]] /\ copy[o] \in MandateRecord \cup {None}
      /\ order = [order EXCEPT ![o] = order[o]] /\ order[o] \in Order
  BY DEF TypeInv, StateOK, Procs
<1>1. CASE Submit(o)
  <2> PICK q \in Commands, j \in Jobs \ issued :
        /\ Command(o, IF q.role = None THEN "create" ELSE "load", "submit", j, q)
        /\ issued' = issued \cup {j}
        /\ UNCHANGED <<mandate, job, artifact, wpc, result, copy>>
    BY <1>1 DEF Submit
  <2> DEFINE c == [what |-> "submit", job |-> j, args |-> q]
             step == IF q.role = None THEN "create" ELSE "load"
  <2>1. c \in Order /\ step \in OperatorSteps
    BY DEF Order, OperatorSteps
  <2>2. opc' = [opc EXCEPT ![o] = step] /\ order' = [order EXCEPT ![o] = c]
    BY DEF Command
  <2>3. job[j] = None /\ wpc[j] = "off"
    BY DEF TypeInv, JobAt
  <2>4. OrderAt(o)'
    <3>1. opc'[o] = step /\ order'[o] = c
      BY <2>2 DEF TypeInv, StateOK
    <3> QED
      BY <2>3, <3>1 DEF OrderAt, Submitting, SubmitAt, InWindow
  <2>5. issued' \subseteq Jobs
    BY DEF TypeInv, StateOK
  <2> QED
    BY <1>0, <2>1, <2>2, <2>4, <2>5, OperatorStep DEF TypeInv, StateOK
<1>2. CASE Close(o)
  <2> PICK force \in BOOLEAN : Command(o, "load", "close", None, force)
    BY <1>2 DEF Close
  <2> DEFINE c == [what |-> "close", job |-> None, args |-> force]
  <2>1. c \in Order /\ "load" \in OperatorSteps
    BY DEF Order, OperatorSteps
  <2>2. opc' = [opc EXCEPT ![o] = "load"] /\ order' = [order EXCEPT ![o] = c]
    BY DEF Command
  <2>3. OrderAt(o)' /\ ~Submitting(o)'
    BY <2>1, <2>2 DEF TypeInv, StateOK, OrderAt, Submitting, InWindow
  <2> QED
    BY <1>0, <1>2, <2>1, <2>2, <2>3, OperatorStep DEF Close, TypeInv, StateOK
<1>3. CASE Verify(o)
  <2> PICK j \in Jobs, verdict \in Verdicts :
        /\ job[j] # None /\ job[j].status = "returned"
        /\ Command(o, "mark", "verify", j, verdict)
        /\ UNCHANGED <<mandate, job, artifact, issued, wpc, result, copy>>
    BY <1>3 DEF Verify
  <2> DEFINE c == [what |-> "verify", job |-> j, args |-> verdict]
  <2>1. c \in Order /\ "mark" \in OperatorSteps
    BY DEF Order, OperatorSteps
  <2>2. opc' = [opc EXCEPT ![o] = "mark"] /\ order' = [order EXCEPT ![o] = c]
    BY DEF Command
  <2>3. OrderAt(o)' /\ ~Submitting(o)'
    BY <2>1, <2>2 DEF TypeInv, StateOK, OrderAt, Submitting, InWindow, Returned
  <2> QED
    BY <1>0, <2>1, <2>2, <2>3, OperatorStep DEF TypeInv, StateOK
<1>4. CASE Load(o)
  <2>1. /\ opc' = [opc EXCEPT ![o] = "decide"] /\ opc[o] = "load" /\ order' = order
        /\ copy' = [copy EXCEPT ![o] = mandate]
        /\ UNCHANGED <<mandate, job, artifact, issued, wpc, result>>
        /\ "decide" \in OperatorSteps
    BY <1>4 DEF Load, Step, OperatorSteps
  <2>2. OrderAt(o)' /\ (Submitting(o)' => Submitting(o))
    BY <2>1 DEF TypeInv, StateOK, OrderAt, Submitting, SubmitAt, InWindow
  <2> QED
    BY <1>0, <2>1, <2>2, OperatorStep DEF TypeInv, StateOK
<1> QED
  BY <1>1, <1>2, <1>3, <1>4

\* A submit that engaged finds its role, and its last engagement, again.
LEMMA EngagedIsThere ==
  ASSUME NEW m \in MandateRecord, NEW q \in Commands, q.role # None, NEW j \in Jobs
  PROVE  HasEngaged(MandateWith(m, q, j), q.role)
<1>1. q.role \in Roles /\ q \in Submits /\ RoleIn(m, q) \in RoleRecord
  BY RoleInType
<1>2. MandateWith(m, q, j).roles[q.role] = Engaged(RoleIn(m, q), q, j)
  <2>1. MandateWith(m, q, j).roles = [m.roles EXCEPT ![q.role] = Engaged(RoleIn(m, q), q, j)]
    BY MandateWithType
  <2>2. q.role \in DOMAIN m.roles
    BY <1>1 DEF MandateRecord
  <2> QED
    BY <2>1, <2>2
<1>3. MandateWith(m, q, j) \in MandateRecord
  BY MandateWithType
<1>4. /\ Engaged(RoleIn(m, q), q, j) \in RoleRecord
      /\ LastMode(Engaged(RoleIn(m, q), q, j)) \in Modes
      /\ LastMode(Engaged(RoleIn(m, q), q, j)) = "resumed" =>
           Engaged(RoleIn(m, q), q, j).thread # None
  BY <1>1, EngagedType
<1> QED
  BY <1>2, <1>3, <1>4, MandateAssumption DEF HasEngaged

\* The override of a forced close names a role and its job.
LEMMA BusyOverride ==
  ASSUME NEW m \in MandateRecord, NEW r \in Busy(m)
  PROVE  {[kind |-> "close-in-flight", role |-> r, job |-> m.roles[r].inFlight]} \in SUBSET Override
BY DEF Busy, MandateRecord, RoleRecord, Override

\* A decision ends the command or leaves a mandate to be saved.
LEMMA DecideType ==
  ASSUME TypeInv, NEW o \in Operators, DecideSubmit(o) \/ DecideClose(o)
  PROVE  TypeInv'
<1>0. /\ copy[o] \in MandateRecord \cup {None}
      /\ order[o] \in Order /\ OrderAt(o)
      /\ opc[o] = "decide" /\ UNCHANGED <<mandate, job, artifact, issued, wpc, result>>
  BY DEF TypeInv, StateOK, Procs, DecideSubmit, DecideClose
<1>1. ASSUME Refuse(o) PROVE TypeInv'
  <2>1. /\ opc' = [opc EXCEPT ![o] = "idle"] /\ order' = [order EXCEPT ![o] = NoOrder]
        /\ copy' = [copy EXCEPT ![o] = None]
        /\ "idle" \in OperatorSteps
    BY <1>1 DEF Refuse, Step, OperatorSteps
  <2>2. OrderAt(o)' /\ ~Submitting(o)'
    BY <2>1 DEF TypeInv, StateOK, OrderAt, Submitting, InWindow
  <2> QED
    BY <1>0, <2>1, <2>2, NoOrderType, OperatorStep DEF TypeInv, StateOK
<1>2. ASSUME NEW m \in MandateRecord, Agree(o, m),
             order[o].what = "submit" => HasEngaged(m, order[o].args.role)
      PROVE  TypeInv'
  <2>1. /\ opc' = [opc EXCEPT ![o] = "save"] /\ order' = order
        /\ copy' = [copy EXCEPT ![o] = m]
        /\ "save" \in OperatorSteps
    BY <1>2 DEF Agree, Step, OperatorSteps
  <2>2. /\ opc'[o] = "save" /\ copy'[o] = m /\ m # None
        /\ order = [order EXCEPT ![o] = order[o]]
    BY <2>1, MandateAssumption DEF TypeInv, StateOK, Procs
  <2>3. OrderAt(o)' /\ (Submitting(o)' => Submitting(o))
    BY <1>0, <1>2, <2>1, <2>2 DEF OrderAt, Submitting, SubmitAt, InWindow
  <2> QED
    BY <1>0, <2>1, <2>2, <2>3, OperatorStep DEF TypeInv, StateOK
<1>3. CASE DecideSubmit(o)
  <2> DEFINE m == IF copy[o] = None THEN NewMandate ELSE copy[o]
             q == order[o].args
  <2>1. m \in MandateRecord
    BY <1>0, NewMandateType
  <2>2. q \in Commands /\ q.role # None /\ order[o].job \in Jobs
    BY <1>0, <1>3 DEF DecideSubmit, OrderAt, Submitting, SubmitAt, InWindow, TypeInv, StateOK
  <2>3. CASE Refuse(o)
    BY <1>1, <2>3
  <2>4. CASE Agree(o, MandateWith(m, q, order[o].job))
    BY <1>2, <2>1, <2>2, <2>4, MandateWithType, EngagedIsThere
  <2> QED
    BY <1>3, <2>3, <2>4 DEF DecideSubmit
<1>4. CASE DecideClose(o)
  <2>1. order[o].what # "submit"
    BY <1>4 DEF DecideClose
  <2>2. CASE Refuse(o)
    BY <1>1, <2>2
  <2>3. ASSUME copy[o] # None, NEW x \in SUBSET Override, Agree(o, ClosedMandate(copy[o], x))
        PROVE  TypeInv'
    BY <1>0, <1>2, <2>1, <2>3, ClosedType
  <2>4. {} \in SUBSET Override
    OBVIOUS
  <2> QED
    BY <1>0, <1>4, <2>2, <2>3, <2>4, BusyOverride DEF DecideClose
<1> QED
  BY <1>3, <1>4

\* So do the save, the artifact of a verdict, and the death of a command.
LEMMA SaveType ==
  ASSUME TypeInv, NEW o \in Operators, Save(o) \/ Show(o) \/ OperatorDies(o)
  PROVE  TypeInv'
<1>0. /\ copy = [copy EXCEPT ![o] = copy[o]] /\ copy[o] \in MandateRecord \cup {None}
      /\ order = [order EXCEPT ![o] = order[o]] /\ order[o] \in Order
      /\ OrderAt(o)
  BY DEF TypeInv, StateOK, Procs
<1>1. CASE Save(o) /\ order[o].what = "submit"
  <2>1. /\ opc' = [opc EXCEPT ![o] = "create"] /\ opc[o] = "save" /\ order' = order
        /\ copy' = [copy EXCEPT ![o] = copy[o]] /\ mandate' = copy[o]
        /\ UNCHANGED <<job, artifact, issued, wpc, result>>
        /\ "create" \in OperatorSteps
    BY <1>1 DEF Save, Step, OperatorSteps
  <2>2. mandate' # None
    BY <1>0, <2>1 DEF OrderAt
  <2>3. OrderAt(o)' /\ (Submitting(o)' => Submitting(o))
    BY <1>0, <1>1, <2>1, <2>2 DEF TypeInv, StateOK, OrderAt, Submitting, SubmitAt, InWindow
  <2> QED
    BY <1>0, <2>1, <2>2, <2>3, OperatorStep DEF TypeInv, StateOK
<1>2. CASE Save(o) /\ order[o].what # "submit"
  <2>1. /\ opc' = [opc EXCEPT ![o] = "idle"] /\ opc[o] = "save"
        /\ order' = [order EXCEPT ![o] = NoOrder]
        /\ copy' = [copy EXCEPT ![o] = None] /\ mandate' = copy[o]
        /\ UNCHANGED <<job, artifact, issued, wpc, result>>
        /\ "idle" \in OperatorSteps
    BY <1>2 DEF Save, Step, OperatorSteps
  <2>2. mandate' # None
    BY <1>0, <2>1 DEF OrderAt
  <2>3. OrderAt(o)' /\ ~Submitting(o)'
    BY <2>1 DEF TypeInv, StateOK, OrderAt, Submitting, InWindow
  <2> QED
    BY <1>0, <2>1, <2>2, <2>3, NoOrderType, OperatorStep DEF TypeInv, StateOK
<1>3. CASE Show(o)
  <2>1. /\ opc' = [opc EXCEPT ![o] = "idle"] /\ opc[o] = "show"
        /\ order' = [order EXCEPT ![o] = NoOrder]
        /\ artifact' = [artifact EXCEPT ![order[o].job] = order[o].args]
        /\ UNCHANGED <<mandate, job, issued, wpc, result, copy>>
        /\ "idle" \in OperatorSteps
    BY <1>3 DEF Show, Step, OperatorSteps
  <2>2. artifact' \in [Jobs -> Terminal \cup {None}]
    BY <1>0, <2>1 DEF OrderAt, TypeInv, StateOK, Terminal
  <2>3. OrderAt(o)' /\ ~Submitting(o)'
    BY <2>1 DEF TypeInv, StateOK, OrderAt, Submitting, InWindow
  <2> QED
    BY <1>0, <2>1, <2>2, <2>3, NoOrderType, OperatorStep DEF TypeInv, StateOK
<1>4. CASE OperatorDies(o)
  <2>1. /\ opc' = [opc EXCEPT ![o] = "idle"]
        /\ order' = [order EXCEPT ![o] = NoOrder]
        /\ copy' = [copy EXCEPT ![o] = None]
        /\ UNCHANGED <<mandate, job, artifact, issued, wpc, result>>
        /\ "idle" \in OperatorSteps
    BY <1>4 DEF OperatorDies, Step, OperatorSteps
  <2>2. OrderAt(o)' /\ ~Submitting(o)'
    BY <2>1 DEF TypeInv, StateOK, OrderAt, Submitting, InWindow
  <2> QED
    BY <1>0, <2>1, <2>2, NoOrderType, OperatorStep DEF TypeInv, StateOK
<1> QED
  BY <1>1, <1>2, <1>3, <1>4

\* The record of a new job.
LEMMA QueuedType ==
  ASSUME NEW q \in Submits, NEW mode \in Modes \cup {None}, NEW t \in Jobs \cup {None}
  PROVE  /\ Queued(q, mode, t) \in JobRecord
         /\ Queued(q, mode, t) # None
         /\ Queued(q, mode, t).status = "queued"
         /\ Queued(q, mode, t).role = q.role
         /\ Queued(q, mode, t).codex = q.codex
         /\ Queued(q, mode, t).mode = mode
         /\ Queued(q, mode, t).thread = t
<1>1. Queued(q, mode, t) \in JobRecord
  BY MandateAssumption DEF Queued, JobRecord, Submits
<1> QED
  BY <1>1, MandateAssumption DEF Queued

\* What Create writes: the record of a bare job, or of one engaged.
CreatedRecord(o) ==
  LET q   == order[o].args
      rec == copy[o].roles[q.role]
  IN  IF q.role = None THEN Queued(q, None, None)
      ELSE Queued(q, LastMode(rec), IF LastMode(rec) = "resumed" THEN rec.thread ELSE None)

\* It is a queued job of the role it was submitted for.
LEMMA CreatedType ==
  ASSUME TypeInv, NEW o \in Operators, Create(o)
  PROVE  /\ Submitting(o) /\ SubmitAt(o) /\ order[o].job \in Jobs /\ order[o].args \in Submits
         /\ job' = [job EXCEPT ![order[o].job] = CreatedRecord(o)]
         /\ CreatedRecord(o) \in JobRecord /\ CreatedRecord(o) # None
         /\ CreatedRecord(o).status = "queued"
         /\ CreatedRecord(o).role = order[o].args.role
         /\ CreatedRecord(o).codex = order[o].args.codex
         /\ CreatedRecord(o).mode = "resumed" =>
              /\ order[o].args.role \in Roles /\ copy[o] \in MandateRecord
              /\ HasEngaged(copy[o], order[o].args.role)
              /\ LastMode(copy[o].roles[order[o].args.role]) = "resumed"
              /\ CreatedRecord(o).thread = copy[o].roles[order[o].args.role].thread
<1> DEFINE q   == order[o].args
           rec == copy[o].roles[q.role]
<1>1. opc[o] = "create" /\ job' = [job EXCEPT ![order[o].job] = CreatedRecord(o)]
  BY DEF Create, Step, CreatedRecord
<1>2. Submitting(o) /\ SubmitAt(o)
  BY <1>1 DEF TypeInv, OrderAt, Submitting
<1>3. /\ order[o].job \in Jobs /\ q \in Submits
      /\ q.role # None => q.role \in Roles /\ HasEngaged(copy[o], q.role) /\ copy[o] \in MandateRecord
  BY <1>1, <1>2, MandateAssumption DEF SubmitAt, TypeInv, StateOK, HasEngaged, Procs, Submits
<1>4. CASE q.role = None
  <2>1. CreatedRecord(o) = Queued(q, None, None)
    BY <1>4 DEF CreatedRecord
  <2> DEFINE new == Queued(q, None, None)
  <2>2. /\ CreatedRecord(o) \in JobRecord /\ CreatedRecord(o) # None
        /\ CreatedRecord(o).status = "queued" /\ CreatedRecord(o).role = q.role
        /\ CreatedRecord(o).codex = q.codex /\ CreatedRecord(o).mode = None
    <3>1. /\ q \in Submits
          /\ None \in Modes \cup {None} /\ None \in Jobs \cup {None}
      BY <1>3
    <3> HIDE DEF q, rec
    <3>2. /\ new \in JobRecord /\ new # None /\ new.status = "queued"
          /\ new.role = q.role /\ new.codex = q.codex /\ new.mode = None
      BY ONLY <3>1, QueuedType
    <3> HIDE DEF new
    <3>3. CreatedRecord(o) = new
      BY <2>1 DEF new
    <3> QED
      BY ONLY <3>2, <3>3
  <2>3. None # "resumed"
    BY MandateAssumption DEF Modes
  <2> QED
    BY <1>1, <1>2, <1>3, <2>2, <2>3
<1>5. CASE q.role # None
  <2> DEFINE mode == LastMode(rec)
             t == IF mode = "resumed" THEN rec.thread ELSE None
  <2>1. CreatedRecord(o) = Queued(q, mode, t)
    BY <1>5 DEF CreatedRecord
  <2>2. mode \in Modes /\ t \in Jobs \cup {None}
    BY <1>3, <1>5 DEF HasEngaged, MandateRecord, RoleRecord
  <2>3. mode = "resumed" => t = rec.thread
    OBVIOUS
  <2> HIDE DEF mode, t
  <2>4. /\ CreatedRecord(o) \in JobRecord /\ CreatedRecord(o) # None
        /\ CreatedRecord(o).status = "queued" /\ CreatedRecord(o).role = q.role
        /\ CreatedRecord(o).codex = q.codex
        /\ CreatedRecord(o).mode = mode /\ CreatedRecord(o).thread = t
    BY <1>3, <2>1, <2>2, QueuedType
  <2> QED
    BY <1>1, <1>2, <1>3, <1>5, <2>3, <2>4 DEF mode
<1> QED
  BY <1>4, <1>5

\* A step of one operator that writes the record of one job, or starts its
\* worker, and no other command knows that job or loses what it knew of it.
LEMMA RecordStep ==
  ASSUME TypeInv, NEW o \in Operators, NEW k \in Jobs,
         NEW rec \in JobRecord, job' = [job EXCEPT ![k] = rec],
         NEW w \in WorkerSteps, wpc' = [wpc EXCEPT ![k] = w],
         UNCHANGED <<mandate, artifact, issued, result>>,
         NEW step \in OperatorSteps, opc' = [opc EXCEPT ![o] = step],
         NEW c \in Order, order' = [order EXCEPT ![o] = c],
         NEW m \in MandateRecord \cup {None}, copy' = [copy EXCEPT ![o] = m],
         OrderAt(o)', JobAt(k)', Returned(k) => Returned(k)',
         Submitting(o)' => Submitting(o) /\ c.job = order[o].job,
         \A p \in Operators \ {o} : Submitting(p) => order[p].job # k
  PROVE  TypeInv'
<1>1. StateOK' /\ order' \in [Operators -> Order]
  BY TypesKept DEF TypeInv, StateOK
<1>2. /\ opc'[o] = step /\ order'[o] = c
      /\ \A p \in Operators \ {o} : opc'[p] = opc[p] /\ order'[p] = order[p] /\ copy'[p] = copy[p]
      /\ \A j \in Jobs : copy'[j] = copy[j]
      /\ \A j \in Jobs \ {k} : job'[j] = job[j] /\ wpc'[j] = wpc[j]
  BY MandateAssumption DEF TypeInv, StateOK, Procs
<1>3. \A p \in Operators \ {o} : OrderAt(p)' /\ (Submitting(p)' <=> Submitting(p))
  <2> SUFFICES ASSUME NEW p \in Operators \ {o}
               PROVE  OrderAt(p)' /\ (Submitting(p)' <=> Submitting(p))
    OBVIOUS
  <2>1. Submitting(p) => order[p].job \in Jobs \ {k}
    BY DEF TypeInv, OrderAt, SubmitAt, StateOK
  <2>2. \A j \in Jobs : Returned(j) => Returned(j)'
    BY <1>2 DEF Returned
  <2> QED
    BY <1>2, <2>1, <2>2, OrderFrame
<1>4. \A j \in Jobs : JobAt(j)'
  BY <1>2, JobFrame
<1>5. Apart'
  BY <1>2, <1>3 DEF Apart, TypeInv
<1> QED
  BY <1>1, <1>3, <1>4, <1>5 DEF TypeInv

\* The record a job keeps.
LEMMA KeptRecord ==
  ASSUME TypeInv, NEW k \in Jobs, job[k] # None
  PROVE  job[k] \in JobRecord /\ job = [job EXCEPT ![k] = job[k]]
BY DEF TypeInv, StateOK

\* A record with another status, and with another attempt.
LEMMA StatusType ==
  ASSUME TypeInv, NEW k \in Jobs, job[k] # None,
         NEW s \in {"queued", "running", "retrying"} \cup Terminal
  PROVE  /\ [job[k] EXCEPT !.status = s] \in JobRecord
         /\ [job[k] EXCEPT !.status = s] # None
         /\ [job[k] EXCEPT !.status = s].status = s
         /\ [job[k] EXCEPT !.status = s].role = job[k].role
<1>1. job[k] \in JobRecord
  BY KeptRecord
<1>2. [job[k] EXCEPT !.status = s] \in JobRecord
  BY <1>1 DEF JobRecord
<1> QED
  BY <1>1, <1>2, MandateAssumption DEF JobRecord

\* An attempt update of a known job is again a job record.
LEMMA AttemptType ==
  ASSUME TypeInv, NEW k \in Jobs, job[k] # None,
         NEW s \in {"running", "retrying"}, NEW n \in 0..MaxRetries + 1
  PROVE  /\ [job[k] EXCEPT !.status = s, !.attempt = n] \in JobRecord
         /\ [job[k] EXCEPT !.status = s, !.attempt = n] # None
         /\ [job[k] EXCEPT !.status = s, !.attempt = n].status = s
         /\ [job[k] EXCEPT !.status = s, !.attempt = n].role = job[k].role
<1>1. job[k] \in JobRecord
  BY KeptRecord
<1>2. [job[k] EXCEPT !.status = s, !.attempt = n] \in JobRecord
  BY <1>1 DEF JobRecord
<1> QED
  BY <1>1, <1>2, MandateAssumption DEF JobRecord

\* The record of a submit, the start of its worker and the verdict of a verify
\* keep the types.
LEMMA RecordType ==
  ASSUME TypeInv, NEW o \in Operators, Create(o) \/ Spawn(o) \/ Mark(o)
  PROVE  TypeInv'
<1>0. /\ copy = [copy EXCEPT ![o] = copy[o]] /\ copy[o] \in MandateRecord \cup {None}
      /\ order = [order EXCEPT ![o] = order[o]] /\ order[o] \in Order
      /\ OrderAt(o)
      /\ \A k \in Jobs : wpc = [wpc EXCEPT ![k] = wpc[k]] /\ wpc[k] \in WorkerSteps
  BY DEF TypeInv, StateOK, Procs
<1>a. order[o].job \in Jobs
  BY <1>0 DEF Create, Spawn, Mark, Step, OrderAt, Submitting, SubmitAt, TypeInv, StateOK
<1> PICK k \in Jobs : k = order[o].job
  BY <1>a
<1>1. ASSUME opc[o] \in {"create", "spawn"}
      PROVE  /\ Submitting(o) /\ SubmitAt(o) /\ k \in Jobs /\ JobAt(k)
             /\ \A p \in Operators \ {o} : Submitting(p) => order[p].job # k
             /\ ~Returned(k) /\ wpc[k] = "off" /\ k \in issued
  <2>1. Submitting(o) /\ SubmitAt(o)
    BY <1>0, <1>1 DEF OrderAt, Submitting
  <2>2. k \in Jobs /\ JobAt(k) /\ wpc[k] = "off" /\ k \in issued
    BY <2>1 DEF SubmitAt, TypeInv, StateOK
  <2> QED
    BY <2>1, <2>2 DEF TypeInv, Apart, JobAt, Returned, Verdicts
<1>2. CASE Create(o)
  <2>1. /\ opc' = [opc EXCEPT ![o] = "spawn"] /\ opc[o] = "create" /\ order' = order
        /\ copy' = [copy EXCEPT ![o] = None]
        /\ UNCHANGED <<mandate, artifact, issued, wpc, result>>
        /\ "spawn" \in OperatorSteps
    BY <1>2 DEF Create, Step, OperatorSteps
  <2>2. /\ job' = [job EXCEPT ![k] = CreatedRecord(o)]
        /\ CreatedRecord(o) \in JobRecord /\ CreatedRecord(o) # None
        /\ CreatedRecord(o).status = "queued"
        /\ CreatedRecord(o).role = order[o].args.role
    BY <1>2, CreatedType
  <2>3. job'[k] = CreatedRecord(o) /\ opc'[o] = "spawn"
    BY <1>1, <2>1, <2>2 DEF TypeInv, StateOK
  <2>4. OrderAt(o)' /\ (Submitting(o)' => Submitting(o))
    BY <1>0, <1>1, <2>1, <2>2, <2>3 DEF OrderAt, Submitting, SubmitAt, InWindow
  <2>5. JobAt(k)'
    BY <1>1, <2>1, <2>2, <2>3 DEF JobAt, AtCall, SubmitAt
  <2> QED
    BY <1>0, <1>1, <2>1, <2>2, <2>4, <2>5, RecordStep
<1>3. CASE Spawn(o)
  <2>1. /\ opc' = [opc EXCEPT ![o] = "idle"] /\ opc[o] = "spawn"
        /\ order' = [order EXCEPT ![o] = NoOrder] /\ NoOrder \in Order
        /\ UNCHANGED <<mandate, artifact, issued, result, copy>>
        /\ "idle" \in OperatorSteps
    BY <1>3, NoOrderType DEF Spawn, Step, OperatorSteps
  <2>2. OrderAt(o)' /\ ~Submitting(o)'
    BY <2>1 DEF TypeInv, StateOK, OrderAt, Submitting, InWindow
  <2>3. /\ job[k] # None /\ job[k].status = "queued"
        /\ k \in issued /\ (job[k].role # None => mandate # None)
        /\ job[k] \in JobRecord
    BY <1>1, <2>1, KeptRecord DEF SubmitAt, JobAt
  <2>4. CASE wpc' = [wpc EXCEPT ![k] = "start"] /\ UNCHANGED job
    <3>1. wpc'[k] = "start" /\ "start" \in WorkerSteps /\ job = [job EXCEPT ![k] = job[k]]
      BY <1>1, <2>1, <2>4 DEF TypeInv, StateOK, WorkerSteps
    <3>2. JobAt(k)'
      BY <2>1, <2>3, <2>4, <3>1 DEF JobAt, AtCall
    <3> QED
      BY <1>0, <1>1, <2>1, <2>2, <2>3, <2>4, <3>1, <3>2, RecordStep
  <2>5. CASE job' = [job EXCEPT ![k].status = "failed"] /\ UNCHANGED wpc
    <3> DEFINE rec == [job[k] EXCEPT !.status = "failed"]
    <3>1. /\ rec \in JobRecord /\ rec # None /\ rec.status = "failed" /\ rec.role = job[k].role
      <4>1. "failed" \in Terminal
        BY MandateAssumption DEF Terminal
      <4> QED
        BY <1>1, <2>1, <2>3, <4>1, StatusType
    <3>2. job' = [job EXCEPT ![k] = rec] /\ job'[k] = rec
      BY <1>1, <2>1, <2>5 DEF TypeInv, StateOK
    <3> HIDE DEF rec
    <3>3. JobAt(k)'
      BY <1>1, <2>1, <2>3, <2>5, <3>1, <3>2 DEF JobAt, AtCall
    <3> QED
      BY <1>0, <1>1, <2>1, <2>2, <2>5, <3>1, <3>2, <3>3, RecordStep
  <2> QED
    BY <1>3, <2>4, <2>5 DEF Spawn
<1>4. CASE Mark(o)
  <2>1. /\ opc' = [opc EXCEPT ![o] = "show"] /\ opc[o] = "mark" /\ order' = order
        /\ job' = [job EXCEPT ![k].status = order[o].args]
        /\ UNCHANGED <<mandate, artifact, issued, wpc, result, copy>>
        /\ "show" \in OperatorSteps
    BY <1>4 DEF Mark, Step, OperatorSteps
  <2>2. k \in Jobs /\ Returned(k) /\ order[o].args \in Verdicts /\ JobAt(k)
    BY <1>0, <2>1 DEF OrderAt, TypeInv
  <2> DEFINE rec == [job[k] EXCEPT !.status = order[o].args]
  <2>3. /\ rec \in JobRecord /\ rec # None /\ rec.status = order[o].args
        /\ rec.role = job[k].role
    <3>1. /\ order[o].args \in {"queued", "running", "retrying"} \cup Terminal
          /\ job[k] # None
      BY <2>2, MandateAssumption DEF Terminal, Returned
    <3>2. k \in Jobs
      BY <2>2
    <3>3. /\ rec \in JobRecord /\ rec # None
      BY <3>1, <3>2, StatusType
    <3>4. rec.status = order[o].args /\ rec.role = job[k].role
      BY <3>1, <3>2, StatusType
    <3> QED
      BY ONLY <3>3, <3>4
  <2>4. job' = [job EXCEPT ![k] = rec] /\ job'[k] = rec
    BY <2>1, <2>2 DEF TypeInv, StateOK
  <2> HIDE DEF rec
  <2>5. OrderAt(o)' /\ ~Submitting(o) /\ ~Submitting(o)'
    BY <2>1, <2>2, <2>3, <2>4 DEF TypeInv, StateOK, OrderAt, Submitting, InWindow, Returned
  <2>6. wpc[k] \notin {"off", "start"} \cup AtCall
    BY <2>2 DEF JobAt, Returned, Verdicts
  <2>7. JobAt(k)' /\ Returned(k)'
    BY <2>1, <2>2, <2>3, <2>4, <2>6 DEF JobAt, Returned, AtCall, Verdicts
  <2>8. \A p \in Operators \ {o} : Submitting(p) => order[p].job # k
    BY <2>6 DEF TypeInv, OrderAt, SubmitAt
  <2>9. /\ wpc[k] \in WorkerSteps /\ wpc' = [wpc EXCEPT ![k] = wpc[k]]
        /\ order[o] \in Order /\ order' = [order EXCEPT ![o] = order[o]]
        /\ copy[o] \in MandateRecord \cup {None} /\ copy' = [copy EXCEPT ![o] = copy[o]]
    BY <2>1, <2>2 DEF TypeInv, StateOK, Procs
  <2>10. /\ TypeInv /\ k \in Jobs /\ rec \in JobRecord /\ job' = [job EXCEPT ![k] = rec]
         /\ UNCHANGED <<mandate, artifact, issued, result>>
         /\ "show" \in OperatorSteps /\ opc' = [opc EXCEPT ![o] = "show"]
         /\ OrderAt(o)' /\ JobAt(k)' /\ Returned(k)' /\ ~Submitting(o)'
    BY <2>1, <2>2, <2>3, <2>4, <2>5, <2>7
  <2> QED
    BY ONLY <2>8, <2>9, <2>10, RecordStep
<1> QED
  BY <1>2, <1>3, <1>4

\* A step of the worker of a job leaves the commands alone: no submit still
\* holds the job.
LEMMA WorkerStep ==
  ASSUME TypeInv, NEW j \in Jobs, wpc[j] # "off",
         UNCHANGED <<issued, opc, order>>,
         mandate' \in MandateRecord \cup {None}, mandate # None => mandate' # None,
         NEW rec \in JobRecord, job' = [job EXCEPT ![j] = rec],
         artifact' \in [Jobs -> Terminal \cup {None}],
         NEW w \in WorkerSteps, wpc' = [wpc EXCEPT ![j] = w],
         NEW res \in Result, result' = [result EXCEPT ![j] = res],
         NEW m \in MandateRecord \cup {None}, copy' = [copy EXCEPT ![j] = m],
         JobAt(j)', Returned(j) => Returned(j)'
  PROVE  TypeInv'
<1>1. StateOK' /\ order' \in [Operators -> Order]
  BY TypesKept DEF TypeInv, StateOK
<1>2. /\ \A p \in Operators : copy'[p] = copy[p]
      /\ \A i \in Jobs \ {j} : job'[i] = job[i] /\ wpc'[i] = wpc[i] /\ copy'[i] = copy[i]
  BY MandateAssumption DEF TypeInv, StateOK, Procs
<1>3. \A p \in Operators : OrderAt(p)' /\ (Submitting(p)' <=> Submitting(p))
  <2> SUFFICES ASSUME NEW p \in Operators
               PROVE  OrderAt(p)' /\ (Submitting(p)' <=> Submitting(p))
    OBVIOUS
  <2>1. Submitting(p) => order[p].job \in Jobs \ {j}
    BY DEF TypeInv, OrderAt, SubmitAt, StateOK
  <2>2. \A i \in Jobs : Returned(i) => Returned(i)'
    BY <1>2 DEF Returned
  <2> QED
    BY <1>2, <2>1, <2>2, OrderFrame
<1>4. \A i \in Jobs : JobAt(i)'
  BY <1>2, JobFrame
<1>5. Apart'
  BY <1>3 DEF Apart, TypeInv
<1> QED
  BY <1>1, <1>3, <1>4, <1>5 DEF TypeInv

\* What a provider answers.
LEMMA AnswersType ==
  ASSUME TypeInv, NEW j \in Jobs, job[j] # None, NEW a \in Answers(j)
  PROVE  /\ a \in Result
         /\ a.outcome = "returned" /\ a.thread # None =>
              a.thread = IF job[j].mode = "resumed" THEN job[j].thread ELSE j
<1>1. job[j] \in JobRecord
  BY KeptRecord
<1> QED
  BY <1>1 DEF Answers, ThreadsRead, Result, Outcomes, JobRecord

\* What the worker of a job finds and leaves, for its steps that do not write
\* the mandate.
LEMMA WorkerType ==
  ASSUME TypeInv, NEW j \in Jobs, RunWorker(j) \/ WorkerDies(j)
  PROVE  TypeInv'
<1>0. /\ JobAt(j) /\ wpc[j] # "off" /\ job[j] # None /\ job[j] \in JobRecord
      /\ job = [job EXCEPT ![j] = job[j]]
      /\ result = [result EXCEPT ![j] = result[j]] /\ result[j] \in Result
      /\ copy = [copy EXCEPT ![j] = copy[j]] /\ copy[j] \in MandateRecord \cup {None}
      /\ wpc[j] \in WorkerSteps
  <2>1. JobAt(j) /\ wpc[j] # "off"
    BY DEF TypeInv, RunWorker, WorkerDies, Begin, CallEnds, LoadToSettle, SaveSettled,
           RecordReturn, RecordFailure, Retry, Publish, Work
  <2>2. job[j] # None
    BY <2>1 DEF JobAt
  <2> QED
    BY <2>1, <2>2, KeptRecord DEF TypeInv, StateOK, Procs
\* The steps that only move the worker.
<1>1. ASSUME NEW w \in WorkerSteps \ {"off", "start"},
             wpc' = [wpc EXCEPT ![j] = w],
             UNCHANGED <<mandate, job, issued, opc, order>>,
             artifact' \in [Jobs -> Terminal \cup {None}],
             NEW res \in Result, result' = [result EXCEPT ![j] = res],
             NEW m \in MandateRecord \cup {None}, copy' = [copy EXCEPT ![j] = m],
             w \in AtCall => wpc[j] \in AtCall,
             w \in {"settle", "settling"} => job[j].role # None,
             w = "settling" => m # None /\ m.roles[job[j].role] # None
      PROVE  TypeInv'
  <2>1. wpc'[j] = w /\ copy'[j] = m
    BY <1>1 DEF TypeInv, StateOK, Procs
  <2>2. JobAt(j)'
    BY <1>0, <1>1, <2>1 DEF JobAt
  <2>3. Returned(j) => Returned(j)'
    BY <1>1 DEF Returned
  <2>4. mandate' \in MandateRecord \cup {None}
    BY <1>1 DEF TypeInv, StateOK
  <2> QED
    BY <1>0, <1>1, <2>2, <2>3, <2>4, WorkerStep
\* The steps that write the record of the job.
<1>2. ASSUME NEW w \in {"call", "publish"},
             wpc' = [wpc EXCEPT ![j] = w],
             wpc[j] \in {"start", "record"},
             UNCHANGED <<mandate, artifact, issued, opc, order, result, copy>>,
             NEW rec \in JobRecord, rec # None, rec.role = job[j].role,
             job' = [job EXCEPT ![j] = rec],
             w = "call" => rec.status \in {"running", "retrying"}
      PROVE  TypeInv'
  <2>1. wpc'[j] = w /\ job'[j] = rec /\ w \in WorkerSteps
    BY <1>2 DEF TypeInv, StateOK, WorkerSteps
  <2>2. JobAt(j)'
    BY <1>0, <1>2, <2>1 DEF JobAt, AtCall
  <2>3. ~Returned(j)
    BY <1>0, <1>2 DEF Returned, JobAt, AtCall, Verdicts
  <2>4. /\ mandate' \in MandateRecord \cup {None}
        /\ artifact' \in [Jobs -> Terminal \cup {None}]
    BY <1>2 DEF TypeInv, StateOK
  <2>5. result' = [result EXCEPT ![j] = result[j]] /\ copy' = [copy EXCEPT ![j] = copy[j]]
    BY <1>0, <1>2
  <2> QED
    BY <1>0, <1>2, <2>1, <2>2, <2>3, <2>4, <2>5, WorkerStep
<1>3. CASE Begin(j)
  <2>1. ~JobIsTerminal(j)
    BY <1>0, <1>3 DEF Begin, JobAt, JobIsTerminal, Terminal, Verdicts
  <2>2. /\ wpc[j] = "start" /\ wpc' = [wpc EXCEPT ![j] = "call"]
        /\ job' = [job EXCEPT ![j] = [job[j] EXCEPT !.status = "running", !.attempt = 1]]
        /\ UNCHANGED <<mandate, artifact, issued, opc, order, result, copy>>
    BY <1>0, <1>3, <2>1 DEF Begin, Work, TypeInv, StateOK
  <2> DEFINE rec == [job[j] EXCEPT !.status = "running", !.attempt = 1]
  <2>3. rec \in JobRecord /\ rec # None /\ rec.status = "running" /\ rec.role = job[j].role
    <3>1. 1 \in 0..MaxRetries + 1
      BY MandateAssumption
    <3> QED
      BY <1>0, <3>1, AttemptType
  <2> HIDE DEF rec
  <2> QED
    BY <1>2, <2>2, <2>3 DEF rec
<1>4. CASE CallEnds(j)
  <2>1. PICK a \in Answers(j) : result' = [result EXCEPT ![j] = a]
    BY <1>4 DEF CallEnds
  <2>2. a \in Result
    BY <1>0, AnswersType
  <2> DEFINE w == IF job[j].role = None THEN "record" ELSE "settle"
  <2>3. /\ wpc' = [wpc EXCEPT ![j] = w] /\ wpc[j] = "call"
        /\ UNCHANGED <<mandate, job, artifact, issued, opc, order, copy>>
        /\ w \in WorkerSteps \ {"off", "start"} /\ w # "settling" /\ wpc[j] \in AtCall
        /\ w = "settle" => job[j].role # None
    BY <1>4 DEF CallEnds, Work, WorkerSteps, AtCall
  <2> HIDE DEF w
  <2>4. artifact' \in [Jobs -> Terminal \cup {None}]
    BY <2>3 DEF TypeInv, StateOK
  <2> QED
    BY <1>0, <1>1, <2>1, <2>2, <2>3, <2>4
<1>5. CASE LoadToSettle(j)
  <2>1. /\ wpc[j] = "settle" /\ wpc[j] \in AtCall /\ job[j].role # None
        /\ UNCHANGED <<mandate, job, artifact, issued, opc, order, result>>
        /\ artifact' \in [Jobs -> Terminal \cup {None}]
        /\ mandate # None /\ mandate \in MandateRecord
    BY <1>0, <1>5 DEF LoadToSettle, AtCall, JobAt, TypeInv, StateOK
  <2>2. CASE mandate.roles[job[j].role] = None
    <3>1. /\ wpc' = [wpc EXCEPT ![j] = "record"]
          /\ copy' = [copy EXCEPT ![j] = copy[j]] /\ result' = [result EXCEPT ![j] = result[j]]
          /\ "record" \in WorkerSteps \ {"off", "start"}
      BY <1>0, <1>5, <2>2 DEF LoadToSettle, Work, WorkerSteps
    <3> QED
      BY <1>0, <1>1, <2>1, <3>1
  <2>3. CASE mandate.roles[job[j].role] # None
    <3>1. /\ wpc' = [wpc EXCEPT ![j] = "settling"] /\ copy' = [copy EXCEPT ![j] = mandate]
          /\ "settling" \in WorkerSteps
      BY <1>5, <2>3 DEF LoadToSettle, Work, WorkerSteps
    <3> QED
      BY <1>0, <1>1, <2>1, <2>3, <3>1
  <2> QED
    BY <2>2, <2>3
<1>6. CASE SaveSettled(j)
  <2> DEFINE r == job[j].role
  <2>1. /\ wpc[j] = "settling" /\ wpc' = [wpc EXCEPT ![j] = "record"]
        /\ mandate' = [copy[j] EXCEPT !.roles[r] = Settled(@, j, result[j])]
        /\ copy' = [copy EXCEPT ![j] = None]
        /\ UNCHANGED <<job, artifact, issued, opc, order, result>>
        /\ "record" \in WorkerSteps
    BY <1>6 DEF SaveSettled, Work, WorkerSteps
  <2>2. /\ r \in Roles /\ copy[j] \in MandateRecord /\ copy[j].roles[r] \in RoleRecord
    BY <1>0, <2>1 DEF JobAt, JobRecord, MandateRecord
  <2>3. Settled(copy[j].roles[r], j, result[j]) \in RoleRecord
    BY <1>0, <2>2, SettledType
  <2>4. mandate' \in MandateRecord
    BY <2>1, <2>2, <2>3 DEF MandateRecord
  <2>5. mandate' # None
    BY <2>4, MandateAssumption
  <2>6. wpc'[j] = "record"
    BY <2>1 DEF TypeInv, StateOK
  <2>7. JobAt(j)'
    BY <1>0, <2>1, <2>5, <2>6 DEF JobAt, AtCall
  <2>8. (Returned(j) => Returned(j)') /\ artifact' \in [Jobs -> Terminal \cup {None}]
    BY <2>1 DEF Returned, TypeInv, StateOK
  <2> QED
    BY <1>0, <2>1, <2>4, <2>5, <2>7, <2>8, WorkerStep
<1>7. CASE RecordReturn(j) \/ RecordFailure(j)
  <2>1. PICK s \in {"returned", "failed"} :
          /\ wpc[j] = "record" /\ wpc' = [wpc EXCEPT ![j] = "publish"]
          /\ job' = [job EXCEPT ![j] = [job[j] EXCEPT !.status = s]]
          /\ UNCHANGED <<mandate, artifact, issued, opc, order, result, copy>>
    BY <1>0, <1>7 DEF RecordReturn, RecordFailure, Work, TypeInv, StateOK
  <2> DEFINE rec == [job[j] EXCEPT !.status = s]
  <2>2. rec \in JobRecord /\ rec # None /\ rec.role = job[j].role
    <3>1. s \in Terminal
      BY DEF Terminal
    <3> QED
      BY <1>0, <3>1, StatusType
  <2> HIDE DEF rec
  <2> QED
    BY <1>2, <2>1, <2>2 DEF rec
<1>8. CASE Retry(j)
  <2> DEFINE n   == job[j].attempt + 1
             rec == [job[j] EXCEPT !.status = "retrying", !.attempt = n]
  <2>1. /\ wpc[j] = "record" /\ wpc' = [wpc EXCEPT ![j] = "call"]
        /\ job' = [job EXCEPT ![j] = rec]
        /\ UNCHANGED <<mandate, artifact, issued, opc, order, result, copy>>
        /\ job[j].attempt <= job[j].retries
    BY <1>0, <1>8 DEF Retry, Work, TypeInv, StateOK
  <2>2. n \in 0..MaxRetries + 1
    BY <1>0, <2>1, MandateAssumption DEF JobRecord
  <2> HIDE DEF n
  <2>3. rec \in JobRecord /\ rec # None /\ rec.status = "retrying" /\ rec.role = job[j].role
    BY <1>0, <2>2, AttemptType
  <2> HIDE DEF rec
  <2> QED
    BY <1>2, <2>1, <2>3
<1>9. CASE Publish(j)
  <2>1. /\ wpc[j] = "publish" /\ wpc' = [wpc EXCEPT ![j] = "done"]
        /\ UNCHANGED <<mandate, job, issued, opc, order, result, copy>>
        /\ artifact' \in [Jobs -> Terminal \cup {None}]
        /\ "done" \in WorkerSteps /\ "done" \notin AtCall
    <3>1. artifact' \in [Jobs -> Terminal \cup {None}]
      BY <1>9 DEF Publish, TypeInv, StateOK, Terminal
    <3>2. /\ wpc[j] = "publish" /\ wpc' = [wpc EXCEPT ![j] = "done"]
          /\ UNCHANGED <<mandate, job, issued, opc, order, result, copy>>
      BY <1>9 DEF Publish, Work
    <3> QED
      BY <3>1, <3>2 DEF WorkerSteps, AtCall
  <2> QED
    BY <1>0, <1>1, <2>1
<1>10. CASE WorkerDies(j)
  <2>1. /\ wpc' = [wpc EXCEPT ![j] = "killed"]
        /\ copy' = [copy EXCEPT ![j] = None]
        /\ UNCHANGED <<mandate, job, artifact, issued, opc, order, result>>
        /\ artifact' \in [Jobs -> Terminal \cup {None}]
        /\ "killed" \in WorkerSteps /\ "killed" \notin AtCall
    BY <1>10 DEF WorkerDies, Work, WorkerSteps, AtCall, TypeInv, StateOK
  <2> QED
    BY <1>0, <1>1, <2>1
<1> QED
  BY <1>3, <1>4, <1>5, <1>6, <1>7, <1>8, <1>9, <1>10 DEF RunWorker

\* Every step keeps the types.
LEMMA TypeStep == TypeInv /\ [Next]_vars => TypeInv'
<1> SUFFICES ASSUME TypeInv, [Next]_vars PROVE TypeInv'
  OBVIOUS
<1>1. CASE UNCHANGED vars
  <2>1. UNCHANGED <<mandate, job, artifact, issued, opc, order, wpc, result, copy>>
    BY <1>1 DEF vars
  <2>2. StateOK' /\ order' \in [Operators -> Order]
    BY <2>1 DEF TypeInv, StateOK
  <2>3. \A o \in Operators : OrderAt(o)' /\ (Submitting(o)' <=> Submitting(o))
    BY <2>1 DEF TypeInv, OrderAt, SubmitAt, Submitting, Returned, HasEngaged
  <2>4. \A j \in Jobs : JobAt(j)'
    BY <2>1 DEF TypeInv, JobAt
  <2> QED
    BY <2>1, <2>2, <2>3, <2>4 DEF TypeInv, Apart
<1>2. ASSUME NEW o \in Operators, Submit(o) \/ Close(o) \/ Verify(o) \/ Load(o) PROVE TypeInv'
  BY <1>2, CommandType
<1>3. ASSUME NEW o \in Operators, DecideSubmit(o) \/ DecideClose(o) PROVE TypeInv'
  BY <1>3, DecideType
<1>4. ASSUME NEW o \in Operators, Save(o) \/ Show(o) \/ OperatorDies(o) PROVE TypeInv'
  BY <1>4, SaveType
<1>5. ASSUME NEW o \in Operators, Create(o) \/ Spawn(o) \/ Mark(o) PROVE TypeInv'
  BY <1>5, RecordType
<1>6. ASSUME NEW j \in Jobs, RunWorker(j) \/ WorkerDies(j) PROVE TypeInv'
  BY <1>6, WorkerType
<1> QED
  BY <1>1, <1>2, <1>3, <1>4, <1>5, <1>6 DEF Next, Operate

\* The invariant holds of every run.
LEMMA TypeInvariant == Spec => []TypeInv
BY TypeInit, TypeStep, PTL DEF Spec

\* What a step makes of the history of the windows.
LEMMA HistoryCourse ==
  ASSUME [Next]_vars
  PROVE  \/ UNCHANGED history
         \/ \E o \in Operators : (Load(o) \/ Refuse(o) \/ OperatorDies(o)) /\ Refresh(o)
         \/ \E j \in Jobs : (LoadToSettle(j) \/ WorkerDies(j)) /\ Refresh(j)
         \/ \E o \in Operators : Save(o) /\ Overtake(o)
         \/ \E j \in Jobs : SaveSettled(j) /\ Overtake(j)
<1>1. ASSUME NEW o \in Operators, Operate(o) \/ OperatorDies(o)
      PROVE  \/ UNCHANGED history
             \/ (Load(o) \/ Refuse(o) \/ OperatorDies(o)) /\ Refresh(o)
             \/ Save(o) /\ Overtake(o)
  <2>1. CASE Load(o) \/ Save(o) \/ OperatorDies(o)
    BY <2>1 DEF Load, Save, OperatorDies
  <2>2. CASE DecideSubmit(o)
    BY <2>2 DEF DecideSubmit, Refuse, Agree
  <2>3. CASE DecideClose(o)
    BY <2>3 DEF DecideClose, Refuse, Agree
  <2>4. CASE Create(o) \/ Spawn(o) \/ Mark(o) \/ Show(o)
    BY <2>4 DEF Create, Spawn, Mark, Show
  <2> QED
    BY <1>1, <2>1, <2>2, <2>3, <2>4 DEF Operate
<1>2. ASSUME NEW o \in Operators, Submit(o) \/ Close(o) \/ Verify(o) PROVE UNCHANGED history
  BY <1>2 DEF Submit, Close, Verify
<1>3. ASSUME NEW j \in Jobs, RunWorker(j) \/ WorkerDies(j)
      PROVE  \/ UNCHANGED history
             \/ (LoadToSettle(j) \/ WorkerDies(j)) /\ Refresh(j)
             \/ SaveSettled(j) /\ Overtake(j)
  BY <1>3 DEF RunWorker, WorkerDies, Begin, CallEnds, LoadToSettle, SaveSettled, RecordReturn,
              RecordFailure, Retry, Publish
<1>4. CASE UNCHANGED vars
  BY <1>4 DEF vars
<1> QED
  BY <1>1, <1>2, <1>3, <1>4 DEF Next

HistoryOK == stale \subseteq Procs /\ lost \in BOOLEAN

\* The history keeps its type.
LEMMA HistoryStep == HistoryOK /\ [Next]_vars => HistoryOK'
<1> SUFFICES ASSUME HistoryOK, [Next]_vars PROVE HistoryOK'
  OBVIOUS
<1>1. Windows \subseteq Procs
  BY DEF Windows, Procs
<1>2. ASSUME NEW p, Overtake(p) PROVE HistoryOK'
  <2>1. stale' \subseteq Procs
    BY <1>1, <1>2 DEF HistoryOK, Overtake
  <2>2. lost' \in BOOLEAN
    BY <1>2 DEF Overtake
  <2> QED
    BY <2>1, <2>2 DEF HistoryOK
<1>3. ASSUME NEW p, Refresh(p) PROVE HistoryOK'
  BY <1>3 DEF HistoryOK, Refresh
<1> QED
  BY <1>2, <1>3, HistoryCourse DEF HistoryOK, history

\* Whatever the processes do, the records of jobs and the mandate keep their
\* shape (agent_runner.py: save_mandate, engage, settle_mandate, run_worker).
THEOREM TypeCorrect == Spec => []TypeOK
<1>1. TypeInv /\ HistoryOK => TypeOK
  BY DEF TypeInv, HistoryOK, TypeOK
<1>2. Init => HistoryOK
  BY DEF Init, HistoryOK
<1> QED
  BY <1>1, <1>2, TypeInvariant, HistoryStep, PTL DEF Spec

----------------------------------------------------------------------------
(* What a step does to a job, to its result and to the mandates.           *)

\* The same job, judged, worked on or not.
SameJob(j) ==
  /\ job'[j] # None
  /\ job'[j].role = job[j].role /\ job'[j].codex = job[j].codex
  /\ job'[j].mode = job[j].mode /\ job'[j].thread = job[j].thread

\* A new status is the same job's.
LEMMA SameJobType ==
  ASSUME TypeInv, NEW k \in Jobs, job[k] # None,
         NEW s \in {"queued", "running", "retrying"} \cup Terminal, NEW n \in 0..MaxRetries + 1,
         \/ job' = [job EXCEPT ![k] = [job[k] EXCEPT !.status = s]]
         \/ job' = [job EXCEPT ![k] = [job[k] EXCEPT !.status = s, !.attempt = n]]
  PROVE  /\ SameJob(k) /\ job'[k].status = s
         /\ \A j \in Jobs \ {k} : job'[j] = job[j]
<1>1. job[k] \in JobRecord /\ job \in [Jobs -> JobRecord \cup {None}]
  BY KeptRecord DEF TypeInv, StateOK
<1> DEFINE a == [job[k] EXCEPT !.status = s]
           b == [job[k] EXCEPT !.status = s, !.attempt = n]
<1>2. a \in JobRecord /\ b \in JobRecord
  BY <1>1 DEF JobRecord
<1>3. /\ a.status = s /\ a.role = job[k].role /\ a.codex = job[k].codex
      /\ a.mode = job[k].mode /\ a.thread = job[k].thread
      /\ b.status = s /\ b.role = job[k].role /\ b.codex = job[k].codex
      /\ b.mode = job[k].mode /\ b.thread = job[k].thread
  BY <1>1 DEF JobRecord
<1> HIDE DEF a, b
<1>4. (job' = [job EXCEPT ![k] = a]) \/ (job' = [job EXCEPT ![k] = b])
  BY DEF a, b
<1> QED
  BY <1>1, <1>2, <1>3, <1>4, MandateAssumption DEF SameJob

\* A job is left alone, created, or gets another status; one that is over and
\* was returned only gets a verdict, and only its worker records a return.
LEMMA JobCourse ==
  ASSUME TypeInv, [Next]_vars, NEW j \in Jobs
  PROVE  \/ job'[j] = job[j]
         \/ \E o \in Operators : Create(o) /\ j = order[o].job /\ job[j] = None
         \/ /\ job[j] # None /\ SameJob(j)
            /\ JobIsTerminal(j) => Returned(j) /\ job'[j].status \in Verdicts
            /\ Returned(j)' => Returned(j) \/ RecordReturn(j)
<1>1. CASE UNCHANGED job
  BY <1>1
<1>2. ASSUME NEW o \in Operators, Create(o) \/ Spawn(o)
      PROVE  /\ SubmitAt(o) /\ order[o].job \in Jobs
             /\ Create(o) => job[order[o].job] = None
             /\ Spawn(o) => job[order[o].job] # None /\ job[order[o].job].status = "queued"
  BY <1>2 DEF Create, Spawn, Step, TypeInv, StateOK, OrderAt, SubmitAt, Submitting
<1>3. ASSUME NEW o \in Operators, Create(o) PROVE job'[j] = job[j] \/ j = order[o].job
  BY <1>3, CreatedType DEF TypeInv, StateOK
<1>4. ASSUME NEW o \in Operators, Spawn(o)
      PROVE  \/ job'[j] = job[j]
             \/ job[j] # None /\ SameJob(j) /\ ~JobIsTerminal(j) /\ ~Returned(j)'
  <2> DEFINE k == order[o].job
  <2>1. k \in Jobs /\ job[k] # None /\ job[k].status = "queued" /\ ~JobIsTerminal(k)
    BY <1>2, <1>4 DEF JobIsTerminal, Terminal, Verdicts
  <2>2. CASE job' = [job EXCEPT ![k] = [job[k] EXCEPT !.status = "failed"]]
    <3>1. "failed" \in {"queued", "running", "retrying"} \cup Terminal /\ 0 \in 0..MaxRetries + 1
      BY MandateAssumption DEF Terminal
    <3>2. /\ SameJob(k) /\ job'[k].status = "failed"
          /\ \A i \in Jobs \ {k} : job'[i] = job[i]
      BY <2>1, <2>2, <3>1, SameJobType
    <3> QED
      BY <2>1, <3>2 DEF Returned, Verdicts
  <2> QED
    BY <1>4, <2>1, <2>2 DEF Spawn
<1>5. ASSUME NEW o \in Operators, Mark(o)
      PROVE  \/ job'[j] = job[j]
             \/ job[j] # None /\ SameJob(j) /\ Returned(j) /\ job'[j].status \in Verdicts
  <2> DEFINE k == order[o].job
             s == order[o].args
  <2>1. k \in Jobs /\ Returned(k) /\ s \in Verdicts /\ job[k] # None
    BY <1>5 DEF Mark, Step, TypeInv, OrderAt, Returned
  <2>2. /\ s \in {"queued", "running", "retrying"} \cup Terminal /\ 0 \in 0..MaxRetries + 1
        /\ job' = [job EXCEPT ![k] = [job[k] EXCEPT !.status = s]]
    BY <1>5, <2>1, MandateAssumption DEF Mark, Terminal
  <2> QED
    BY <2>1, <2>2, SameJobType
<1>6. ASSUME NEW i \in Jobs, Begin(i) \/ RecordReturn(i) \/ RecordFailure(i) \/ Retry(i)
      PROVE  \/ job'[j] = job[j]
             \/ /\ job[j] # None /\ SameJob(j) /\ ~JobIsTerminal(j)
                /\ Returned(j)' => RecordReturn(j)
  <2>1. job[i] # None /\ job[i] \in JobRecord /\ job[i].status \in {"queued", "running", "retrying"}
    BY <1>6, KeptRecord
       DEF TypeInv, JobAt, AtCall, Begin, RecordReturn, RecordFailure, Retry, Work
  <2>2. ~JobIsTerminal(i)
    BY <2>1 DEF JobIsTerminal, Terminal, Verdicts
  <2>3. PICK s \in {"running", "retrying", "returned", "failed"}, n \in 0..MaxRetries + 1 :
          /\ \/ job' = [job EXCEPT ![i] = [job[i] EXCEPT !.status = s]]
             \/ job' = [job EXCEPT ![i] = [job[i] EXCEPT !.status = s, !.attempt = n]]
          /\ s = "returned" => RecordReturn(i)
    <3>1. CASE Begin(i)
      <4>1. job' = [job EXCEPT ![i] = [job[i] EXCEPT !.status = "running", !.attempt = 1]]
        BY <2>2, <3>1 DEF Begin, TypeInv, StateOK
      <4>2. 1 \in 0..MaxRetries + 1
        BY MandateAssumption
      <4> QED
        BY <4>1, <4>2
    <3>2. CASE RecordReturn(i) \/ RecordFailure(i)
      <4>1. 0 \in 0..MaxRetries + 1
        BY MandateAssumption
      <4> QED
        BY <3>2, <4>1 DEF RecordReturn, RecordFailure
    <3>3. CASE Retry(i)
      <4>1. /\ job' = [job EXCEPT ![i] = [job[i] EXCEPT !.status = "retrying",
                                                         !.attempt = job[i].attempt + 1]]
            /\ job[i].attempt <= job[i].retries
        BY <3>3 DEF Retry, TypeInv, StateOK
      <4>2. job[i].attempt + 1 \in 0..MaxRetries + 1
        BY <2>1, <4>1, MandateAssumption DEF JobRecord
      <4> QED
        BY <4>1, <4>2
    <3> QED
      BY <1>6, <3>1, <3>2, <3>3
  <2>4. s \in {"queued", "running", "retrying"} \cup Terminal
    BY DEF Terminal
  <2>5. SameJob(i) /\ job'[i].status = s /\ \A k \in Jobs \ {i} : job'[k] = job[k]
    <3>1. CASE job' = [job EXCEPT ![i] = [job[i] EXCEPT !.status = s]]
      BY <2>1, <2>4, <3>1, SameJobType
    <3>2. CASE job' = [job EXCEPT ![i] = [job[i] EXCEPT !.status = s, !.attempt = n]]
      BY <2>1, <2>4, <3>2, SameJobType
    <3> QED
      BY <2>3, <3>1, <3>2
  <2> QED
    BY <2>1, <2>2, <2>3, <2>5 DEF Returned, Verdicts
<1>7. ASSUME NEW o \in Operators,
             Submit(o) \/ Close(o) \/ Verify(o) \/ Load(o) \/ DecideSubmit(o) \/ DecideClose(o)
               \/ Save(o) \/ Show(o) \/ OperatorDies(o)
      PROVE  UNCHANGED job
  BY <1>7 DEF Submit, Close, Verify, Load, DecideSubmit, DecideClose, Save, Show, OperatorDies
<1>8. ASSUME NEW i \in Jobs,
             CallEnds(i) \/ LoadToSettle(i) \/ SaveSettled(i) \/ Publish(i) \/ WorkerDies(i)
      PROVE  UNCHANGED job
  BY <1>8 DEF CallEnds, LoadToSettle, SaveSettled, Publish, WorkerDies
<1>9. CASE UNCHANGED vars
  BY <1>1, <1>9 DEF vars
<1> QED
  BY <1>1, <1>2, <1>3, <1>4, <1>5, <1>6, <1>7, <1>8, <1>9 DEF Next, Operate, RunWorker

\* agent_runner.py:629: no write of the parent clobbers the terminal result of
\* a fast worker: the status of a job that is over changes only from returned
\* to a verdict, whoever dies and however the windows overlap.
THEOREM TerminalStaysHolds == Spec => TerminalStays
<1>1. ASSUME TypeInv, [Next]_vars, NEW j \in Jobs, JobIsTerminal(j)
      PROVE  \/ job'[j].status = job[j].status
             \/ /\ job[j].status \in {"returned"} \cup Verdicts
                /\ job'[j].status \in Verdicts
  BY <1>1, JobCourse DEF JobIsTerminal, Returned
<1>2. TypeInv /\ [Next]_vars =>
        [\A j \in Jobs :
           JobIsTerminal(j) => \/ job'[j].status = job[j].status
                               \/ /\ job[j].status \in {"returned"} \cup Verdicts
                                  /\ job'[j].status \in Verdicts]_vars
  BY <1>1
<1> QED
  BY <1>2, TypeInvariant, PTL DEF Spec, TerminalStays

\* No attempt of the job has come back, or the last one failed.
Early(j) == wpc[j] \in {"off", "start", "call"}

\* A result changes when a call ends, and a worker calls again only after a
\* failure.
LEMMA ResultCourse ==
  ASSUME TypeInv, [Next]_vars, NEW j \in Jobs
  PROVE  \/ CallEnds(j) /\ ~Early(j)'
         \/ /\ result'[j] = result[j]
            /\ Early(j)' => Early(j) \/ result[j].outcome # "returned"
<1>1. ASSUME UNCHANGED <<wpc, result>>
      PROVE  result'[j] = result[j] /\ (Early(j)' => Early(j))
  BY <1>1 DEF Early
<1>2. ASSUME NEW i \in Jobs, RunWorker(i) \/ WorkerDies(i), i # j
      PROVE  result'[j] = result[j] /\ (Early(j)' => Early(j))
  BY <1>2 DEF Early, RunWorker, WorkerDies, Begin, CallEnds, LoadToSettle, SaveSettled, RecordReturn,
              RecordFailure, Retry, Publish, Work, TypeInv, StateOK
<1>3. CASE CallEnds(j)
  BY <1>3 DEF CallEnds, Work, Early, TypeInv, StateOK
<1>4. CASE (RunWorker(j) /\ ~CallEnds(j)) \/ WorkerDies(j)
  BY <1>4 DEF RunWorker, WorkerDies, Begin, LoadToSettle, SaveSettled, RecordReturn,
              RecordFailure, Retry, Publish, Work, Early, TypeInv, StateOK
<1>5. ASSUME NEW o \in Operators, Spawn(o)
      PROVE  result'[j] = result[j] /\ (Early(j)' => Early(j))
  <2>1. /\ order[o].job \in Jobs /\ wpc[order[o].job] = "off"
        /\ UNCHANGED result
        /\ UNCHANGED wpc \/ wpc' = [wpc EXCEPT ![order[o].job] = "start"]
    BY <1>5 DEF Spawn, Step, TypeInv, StateOK, OrderAt, SubmitAt, Submitting
  <2> QED
    BY <2>1 DEF Early, TypeInv, StateOK
<1>6. ASSUME NEW o \in Operators,
             Submit(o) \/ Close(o) \/ Verify(o) \/ Load(o) \/ DecideSubmit(o) \/ DecideClose(o)
               \/ Save(o) \/ Show(o) \/ OperatorDies(o) \/ Create(o) \/ Mark(o)
      PROVE  result'[j] = result[j] /\ (Early(j)' => Early(j))
  BY <1>1, <1>6 DEF Submit, Close, Verify, Load, DecideSubmit, DecideClose, Save, Show, OperatorDies,
              Create, Mark
<1>7. CASE UNCHANGED vars
  BY <1>1, <1>7 DEF vars
<1> QED
  BY <1>1, <1>2, <1>3, <1>4, <1>5, <1>6, <1>7 DEF Next, Operate

\* The mandate a role is settled in.
SettledMandate(j) == [copy[j] EXCEPT !.roles[job[j].role] = Settled(@, j, result[j])]

\* The mandate a process is left with comes from the file, or from the mandate
\* it had by an engagement or a close.
CopyFrom(p, m) ==
  \/ m \in {copy[p], None, mandate}
  \/ \E old \in MandateRecord, q \in Commands, j \in Jobs :
       /\ old \in {copy[p], NewMandate} /\ q.role # None
       /\ m = MandateWith(old, q, j)
  \/ /\ copy[p] # None
     /\ \E x \in SUBSET Override : m = ClosedMandate(copy[p], x)

\* What one step can do to the copy of the mandate a process holds.
LEMMA CopyCourse ==
  ASSUME TypeInv, [Next]_vars, NEW p \in Procs
  PROVE  CopyFrom(p, copy'[p])
<1>1. CASE UNCHANGED copy
  BY <1>1 DEF CopyFrom
<1>2. ASSUME NEW q \in Procs, NEW m, copy' = [copy EXCEPT ![q] = m], CopyFrom(q, m)
      PROVE  CopyFrom(p, copy'[p])
  BY <1>2 DEF CopyFrom, TypeInv, StateOK
<1>3. \A q \in Procs : \A m \in {copy[q], None, mandate} : CopyFrom(q, m)
  BY DEF CopyFrom
<1>4. Operators \subseteq Procs /\ Jobs \subseteq Procs
  BY DEF Procs
<1>5. ASSUME NEW o \in Operators, Load(o) \/ Save(o) \/ Create(o) \/ OperatorDies(o) \/ Refuse(o)
      PROVE  CopyFrom(p, copy'[p])
  <2>1. \E m \in {copy[o], None, mandate} : copy' = [copy EXCEPT ![o] = m]
    BY <1>5 DEF Load, Save, Create, OperatorDies, Refuse
  <2> QED
    BY <1>2, <1>3, <1>4, <2>1
<1>6. ASSUME NEW j \in Jobs, LoadToSettle(j) \/ SaveSettled(j) \/ WorkerDies(j)
      PROVE  CopyFrom(p, copy'[p])
  <2>1. UNCHANGED copy \/ \E m \in {copy[j], None, mandate} : copy' = [copy EXCEPT ![j] = m]
    BY <1>6 DEF LoadToSettle, SaveSettled, WorkerDies
  <2> QED
    BY <1>1, <1>2, <1>3, <1>4, <2>1
<1>7. ASSUME NEW o \in Operators, DecideSubmit(o)
      PROVE  CopyFrom(p, copy'[p])
  <2> DEFINE m == IF copy[o] = None THEN NewMandate ELSE copy[o]
             q == order[o].args
  <2>1. Refuse(o) \/ Agree(o, MandateWith(m, q, order[o].job))
    BY <1>7 DEF DecideSubmit
  <2>2. /\ m \in MandateRecord /\ m \in {copy[o], NewMandate}
        /\ q \in Commands /\ q.role # None /\ order[o].job \in Jobs
    BY <1>7, <1>4, NewMandateType
       DEF DecideSubmit, OrderAt, Submitting, SubmitAt, InWindow, TypeInv, StateOK
  <2> HIDE DEF m, q
  <2>3. CopyFrom(o, MandateWith(m, q, order[o].job))
    BY <2>2 DEF CopyFrom
  <2> QED
    BY <1>2, <1>4, <1>5, <2>1, <2>3 DEF Agree
<1>8. ASSUME NEW o \in Operators, DecideClose(o)
      PROVE  CopyFrom(p, copy'[p])
  <2>1. \/ Refuse(o)
        \/ /\ copy[o] # None
           /\ \E x \in SUBSET Override : Agree(o, ClosedMandate(copy[o], x))
    <3>1. copy[o] \in MandateRecord \cup {None} /\ {} \in SUBSET Override
      BY <1>4 DEF TypeInv, StateOK
    <3> QED
      BY <1>8, <3>1, BusyOverride DEF DecideClose
  <2>2. CASE Refuse(o)
    BY <1>5, <2>2
  <2>3. ASSUME copy[o] # None, NEW x \in SUBSET Override, Agree(o, ClosedMandate(copy[o], x))
        PROVE  CopyFrom(p, copy'[p])
    <3>1. CopyFrom(o, ClosedMandate(copy[o], x))
      BY <2>3 DEF CopyFrom
    <3> QED
      BY <1>2, <1>4, <2>3, <3>1 DEF Agree
  <2> QED
    BY <2>1, <2>2, <2>3
<1>9. ASSUME NEW o \in Operators,
             Submit(o) \/ Close(o) \/ Verify(o) \/ Spawn(o) \/ Mark(o) \/ Show(o)
      PROVE  UNCHANGED copy
  BY <1>9 DEF Submit, Close, Verify, Spawn, Mark, Show
<1>10. ASSUME NEW j \in Jobs,
              Begin(j) \/ CallEnds(j) \/ RecordReturn(j) \/ RecordFailure(j) \/ Retry(j) \/ Publish(j)
       PROVE  UNCHANGED copy
  BY <1>10 DEF Begin, CallEnds, RecordReturn, RecordFailure, Retry, Publish
<1>11. CASE UNCHANGED vars
  BY <1>1, <1>11 DEF vars
<1> QED
  BY <1>1, <1>5, <1>6, <1>7, <1>8, <1>9, <1>10, <1>11 DEF Next, Operate, RunWorker

\* The file is kept, saved by a command, or settled by the worker of a job.
LEMMA MandateCourse ==
  ASSUME TypeInv, [Next]_vars
  PROVE  \/ mandate' = mandate
         \/ \E o \in Operators : Save(o) /\ mandate' = copy[o]
         \/ \E j \in Jobs :
              /\ SaveSettled(j) /\ mandate' = SettledMandate(j)
              /\ copy[j] \in MandateRecord /\ job[j].role \in Roles
              /\ copy[j].roles[job[j].role] \in RoleRecord
<1>1. ASSUME NEW o \in Operators,
             Submit(o) \/ Close(o) \/ Verify(o) \/ Load(o) \/ DecideSubmit(o) \/ DecideClose(o)
               \/ Show(o) \/ OperatorDies(o) \/ Create(o) \/ Spawn(o) \/ Mark(o)
      PROVE  UNCHANGED mandate
  BY <1>1 DEF Submit, Close, Verify, Load, DecideSubmit, DecideClose, Show, OperatorDies,
              Create, Spawn, Mark
<1>2. ASSUME NEW j \in Jobs,
             Begin(j) \/ CallEnds(j) \/ LoadToSettle(j) \/ RecordReturn(j) \/ RecordFailure(j)
               \/ Retry(j) \/ Publish(j) \/ WorkerDies(j)
      PROVE  UNCHANGED mandate
  BY <1>2 DEF Begin, CallEnds, LoadToSettle, RecordReturn, RecordFailure, Retry, Publish,
              WorkerDies
<1>3. ASSUME NEW o \in Operators, Save(o) PROVE mandate' = copy[o]
  BY <1>3 DEF Save
<1>4. ASSUME NEW j \in Jobs, SaveSettled(j)
      PROVE  /\ mandate' = SettledMandate(j)
             /\ copy[j] \in MandateRecord /\ job[j].role \in Roles
             /\ copy[j].roles[job[j].role] \in RoleRecord
  <2>1. wpc[j] = "settling" /\ JobAt(j) /\ mandate' = SettledMandate(j)
    BY <1>4 DEF SaveSettled, Work, TypeInv, SettledMandate
  <2>2. job[j] # None /\ job[j].role # None /\ copy[j] # None /\ copy[j].roles[job[j].role] # None
    BY <2>1 DEF JobAt
  <2>3. job[j].role \in Roles /\ copy[j] \in MandateRecord
    BY <2>2 DEF TypeInv, StateOK, JobRecord, Procs
  <2> QED
    BY <2>1, <2>2, <2>3 DEF MandateRecord
<1>5. CASE UNCHANGED vars
  BY <1>5 DEF vars
<1> QED
  BY <1>1, <1>2, <1>3, <1>4, <1>5 DEF Next, Operate, RunWorker

----------------------------------------------------------------------------
(* Threads.  A thread that a mandate, a copy of it, a result or a job names *)
(* is what a job of the same role returned, and once it is, it stays so:   *)
(* whichever of two saves is lost, what is left names threads of the role. *)

\* Thread t was returned by a job of role r.
OwnThread(t, r) ==
  /\ t \in Jobs /\ job[t] # None
  /\ job[t].role = r /\ result[t].outcome = "returned"

\* A mandate, or a process's copy of one, names threads of its roles only.
OwnThreads(m) ==
  m # None =>
    \A r \in Roles :
      m.roles[r] # None /\ m.roles[r].thread # None => OwnThread(m.roles[r].thread, r)

ThreadInv ==
  /\ OwnThreads(mandate)
  /\ \A p \in Procs : OwnThreads(copy[p])
  /\ \A j \in Jobs :
       /\ Early(j) => result[j].outcome # "returned"
       /\ /\ result[j].outcome = "returned" /\ result[j].thread # None
          /\ job[j] # None /\ job[j].role # None
          => OwnThread(result[j].thread, job[j].role)
       /\ job[j] # None /\ job[j].mode = "resumed" =>
            /\ job[j].thread # j
            /\ job[j].role # None
            /\ OwnThread(job[j].thread, job[j].role)

\* There are no threads at first.
LEMMA ThreadInit == Init => ThreadInv
BY DEF Init, ThreadInv, OwnThreads, Early, NoResult

\* A thread of a role stays one.
LEMMA OwnThreadStays ==
  ASSUME TypeInv, ThreadInv, [Next]_vars, NEW t, NEW r, OwnThread(t, r)
  PROVE  OwnThread(t, r)'
<1>1. t \in Jobs /\ ~Early(t)
  BY DEF OwnThread, ThreadInv
<1>2. result'[t] = result[t]
  BY <1>1, ResultCourse DEF CallEnds, Work, Early
<1>3. job'[t] = job[t] \/ SameJob(t)
  BY <1>1, JobCourse DEF OwnThread
<1> QED
  BY <1>1, <1>2, <1>3 DEF OwnThread, SameJob

\* So does a mandate that names threads of its roles.
LEMMA OwnThreadsStay ==
  ASSUME TypeInv, ThreadInv, [Next]_vars, NEW m, OwnThreads(m)
  PROVE  OwnThreads(m)'
BY OwnThreadStays DEF OwnThreads

\* No engagement and no close gives a role a thread it did not have.
LEMMA OwnThreadsCopied ==
  ASSUME TypeInv, ThreadInv, NEW p \in Procs, NEW m, CopyFrom(p, m)
  PROVE  OwnThreads(m)
<1>1. copy[p] \in MandateRecord \cup {None} /\ OwnThreads(copy[p]) /\ OwnThreads(mandate)
  BY DEF TypeInv, StateOK, ThreadInv
<1>2. CASE m \in {copy[p], None, mandate}
  BY <1>1, <1>2 DEF OwnThreads
<1>3. ASSUME NEW old \in MandateRecord, NEW q \in Commands, NEW j \in Jobs,
             old \in {copy[p], NewMandate}, q.role # None
      PROVE  OwnThreads(MandateWith(old, q, j))
  <2>1. OwnThreads(old)
    BY <1>1, <1>3 DEF OwnThreads, NewMandate
  <2>2. old # None
    BY MandateAssumption
  <2>3. /\ q.role \in Roles /\ RoleIn(old, q) \in RoleRecord
        /\ MandateWith(old, q, j).roles =
             [old.roles EXCEPT ![q.role] = Engaged(RoleIn(old, q), q, j)]
        /\ old.roles \in [Roles -> RoleRecord \cup {None}]
    BY <1>3, RoleInType, MandateWithType DEF MandateRecord
  <2>4. Engaged(RoleIn(old, q), q, j).thread \in {None, RoleIn(old, q).thread}
    BY DEF Engaged
  <2>5. RoleIn(old, q).thread # None =>
          old.roles[q.role] # None /\ RoleIn(old, q).thread = old.roles[q.role].thread
    BY DEF RoleIn, NewRole
  <2>6. ASSUME NEW r \in Roles, MandateWith(old, q, j).roles[r] # None,
               MandateWith(old, q, j).roles[r].thread # None
        PROVE  OwnThread(MandateWith(old, q, j).roles[r].thread, r)
    <3>1. CASE r = q.role
      BY <2>1, <2>2, <2>3, <2>4, <2>5, <2>6, <3>1 DEF OwnThreads
    <3>2. CASE r # q.role
      BY <2>1, <2>2, <2>3, <2>6, <3>2 DEF OwnThreads
    <3> QED
      BY <3>1, <3>2
  <2> QED
    BY <2>6 DEF OwnThreads
<1>4. ASSUME copy[p] # None, NEW x \in SUBSET Override
      PROVE  OwnThreads(ClosedMandate(copy[p], x))
  BY <1>1, <1>4, ClosedType DEF OwnThreads
<1> QED
  BY <1>2, <1>3, <1>4 DEF CopyFrom

\* Settling gives the role the thread its job returned.
LEMMA OwnThreadsSettled ==
  ASSUME TypeInv, ThreadInv, NEW j \in Jobs, SaveSettled(j),
         copy[j] \in MandateRecord, job[j].role \in Roles,
         copy[j].roles[job[j].role] \in RoleRecord
  PROVE  OwnThreads(SettledMandate(j))
<1> DEFINE rec == copy[j].roles[job[j].role]
           res == result[j]
<1>1. /\ OwnThreads(copy[j]) /\ copy[j] # None /\ rec # None /\ res \in Result
      /\ copy[j].roles \in [Roles -> RoleRecord \cup {None}]
  BY MandateAssumption DEF ThreadInv, Procs, TypeInv, StateOK, MandateRecord
<1>2. SettledMandate(j).roles = [copy[j].roles EXCEPT ![job[j].role] = Settled(rec, j, res)]
  BY DEF SettledMandate, MandateRecord
<1>3. /\ Settled(rec, j, res).thread \in {rec.thread, res.thread}
      /\ Settled(rec, j, res).thread # rec.thread =>
           res.outcome = "returned" /\ res.thread # None
  BY <1>1, SettledType
<1>4. job[j] # None /\ job[j].role # None
  BY MandateAssumption DEF SaveSettled, Work, TypeInv, JobAt
<1>5. res.outcome = "returned" /\ res.thread # None => OwnThread(res.thread, job[j].role)
  BY <1>4 DEF ThreadInv
<1> HIDE DEF rec, res
<1>6. ASSUME NEW r \in Roles, SettledMandate(j).roles[r] # None,
             SettledMandate(j).roles[r].thread # None
      PROVE  OwnThread(SettledMandate(j).roles[r].thread, r)
  <2>1. CASE r = job[j].role
    BY <1>1, <1>2, <1>3, <1>5, <1>6, <2>1 DEF OwnThreads, rec
  <2>2. CASE r # job[j].role
    BY <1>1, <1>2, <1>6, <2>2 DEF OwnThreads
  <2> QED
    BY <2>1, <2>2
<1> QED
  BY <1>6 DEF OwnThreads

\* Every step keeps the threads of a role its own.
LEMMA ThreadStep == TypeInv /\ ThreadInv /\ [Next]_vars => ThreadInv'
<1> SUFFICES ASSUME TypeInv, ThreadInv, [Next]_vars PROVE ThreadInv'
  OBVIOUS
<1>1. \A p \in Procs : OwnThreads(copy[p])'
  <2> SUFFICES ASSUME NEW p \in Procs PROVE OwnThreads(copy[p])'
    OBVIOUS
  <2> DEFINE m == copy'[p]
  <2>1. OwnThreads(m)
    BY CopyCourse, OwnThreadsCopied
  <2> QED
    BY <2>1, OwnThreadsStay DEF OwnThreads
<1>2. OwnThreads(mandate)'
  <2>1. CASE mandate' = mandate
    BY <2>1, OwnThreadsStay DEF ThreadInv, OwnThreads
  <2>2. ASSUME NEW o \in Operators, mandate' = copy[o] PROVE OwnThreads(mandate)'
    BY <2>2, OwnThreadsStay DEF ThreadInv, OwnThreads, Procs
  <2>3. ASSUME NEW j \in Jobs, SaveSettled(j), mandate' = SettledMandate(j),
               copy[j] \in MandateRecord, job[j].role \in Roles,
               copy[j].roles[job[j].role] \in RoleRecord
        PROVE  OwnThreads(mandate)'
    BY <2>3, OwnThreadsSettled, OwnThreadsStay DEF OwnThreads
  <2> QED
    BY <2>1, <2>2, <2>3, MandateCourse
<1> SUFFICES ASSUME NEW j \in Jobs
             PROVE  /\ Early(j)' => result'[j].outcome # "returned"
                    /\ /\ result'[j].outcome = "returned" /\ result'[j].thread # None
                       /\ job'[j] # None /\ job'[j].role # None
                       => OwnThread(result[j].thread, job[j].role)'
                    /\ job'[j] # None /\ job'[j].mode = "resumed" =>
                         /\ job'[j].thread # j
                         /\ job'[j].role # None
                         /\ OwnThread(job[j].thread, job[j].role)'
  BY <1>1, <1>2 DEF ThreadInv
<1>3. Early(j)' => result'[j].outcome # "returned"
  BY ResultCourse DEF ThreadInv
<1>4. ASSUME job'[j] # None, job'[j].mode = "resumed"
      PROVE  /\ job'[j].thread # j /\ job'[j].role # None
             /\ OwnThread(job[j].thread, job[j].role)'
  <2>1. CASE job[j] # None
    <3>1. /\ job'[j].mode = job[j].mode /\ job'[j].thread = job[j].thread
          /\ job'[j].role = job[j].role
      BY <2>1, JobCourse DEF SameJob
    <3>2. /\ job[j].thread # j /\ job[j].role # None
          /\ OwnThread(job[j].thread, job[j].role)
      BY <1>4, <2>1, <3>1 DEF ThreadInv
    <3> QED
      BY <3>1, <3>2, OwnThreadStays DEF OwnThread
  <2>2. CASE job[j] = None
    <3>1. PICK o \in Operators : Create(o) /\ j = order[o].job
      BY <1>4, <2>2, JobCourse
    <3> DEFINE r == order[o].args.role
               t == copy[o].roles[r].thread
    <3>2. /\ job'[j] = CreatedRecord(o) /\ CreatedRecord(o).role = r
          /\ CreatedRecord(o).thread = t
          /\ r \in Roles /\ copy[o] \in MandateRecord
          /\ HasEngaged(copy[o], r) /\ LastMode(copy[o].roles[r]) = "resumed"
      BY <1>4, <3>1, CreatedType DEF TypeInv, StateOK
    <3>3. t # None /\ copy[o].roles[r] # None /\ OwnThreads(copy[o]) /\ copy[o] # None
      BY <3>2 DEF HasEngaged, ThreadInv, Procs
    <3>4. OwnThread(t, r)
      BY <3>2, <3>3 DEF OwnThreads
    <3>5. t # j /\ r # None
      BY <2>2, <3>2, <3>4, MandateAssumption DEF OwnThread
    <3>6. OwnThread(job[j].thread, job[j].role)'
      <4>1. job'[j].thread = t /\ job'[j].role = r
        BY <3>2
      <4> QED
        BY <3>4, <4>1, OwnThreadStays DEF OwnThread
    <3> QED
      BY <3>2, <3>5, <3>6
  <2> QED
    BY <2>1, <2>2
<1>5. ASSUME result'[j].outcome = "returned", result'[j].thread # None,
             job'[j] # None, job'[j].role # None
      PROVE  OwnThread(result[j].thread, job[j].role)'
  <2>1. CASE CallEnds(j)
    <3>1. wpc[j] = "call" /\ UNCHANGED job /\ job[j] # None /\ job[j] \in JobRecord
      BY <2>1, KeptRecord DEF CallEnds, TypeInv, JobAt
    <3>2. PICK a \in Answers(j) : result'[j] = a
      BY <2>1 DEF CallEnds, TypeInv, StateOK
    <3>3. a.thread = IF job[j].mode = "resumed" THEN job[j].thread ELSE j
      BY <1>5, <3>1, <3>2, AnswersType
    <3>4. CASE job[j].mode = "resumed"
      <4>1. OwnThread(job[j].thread, job[j].role)
        BY <3>1, <3>4 DEF ThreadInv
      <4> QED
        BY <3>1, <3>2, <3>3, <3>4, <4>1, OwnThreadStays DEF OwnThread
    <3>5. CASE job[j].mode # "resumed"
      BY <1>5, <3>1, <3>2, <3>3, <3>5 DEF OwnThread
    <3> QED
      BY <3>4, <3>5
  <2>2. CASE ~CallEnds(j)
    <3>1. result'[j] = result[j] /\ ~Early(j)
      BY <1>5, <2>2, ResultCourse DEF ThreadInv
    <3>2. job[j] # None
      BY <3>1 DEF TypeInv, JobAt, Early
    <3>3. job'[j].role = job[j].role
      BY <3>2, JobCourse DEF SameJob
    <3>4. OwnThread(result[j].thread, job[j].role)
      BY <1>5, <3>1, <3>2, <3>3 DEF ThreadInv
    <3> QED
      BY <3>1, <3>3, <3>4, OwnThreadStays DEF OwnThread
  <2> QED
    BY <2>1, <2>2
<1> QED
  BY <1>3, <1>4, <1>5

\* specs/010-persistent-exec-session/plan.md:184: whatever a lost update does,
\* a job that resumes continues the thread an earlier job of its own role
\* returned, and never a thread of its own.
THEOREM ResumesOwnThreadHolds == Spec => []ResumesOwnThread
<1>1. TypeInv /\ ThreadInv => ResumesOwnThread
  BY DEF ThreadInv, OwnThread, ResumesOwnThread
<1> QED
  BY <1>1, TypeInvariant, ThreadInit, ThreadStep, PTL DEF Spec

=============================================================================
