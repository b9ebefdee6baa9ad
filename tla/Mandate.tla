------------------------------ MODULE Mandate ------------------------------
(***************************************************************************)
(* The file-backed job runner of the delegation legs                       *)
(* (skills/codex-bridge/scripts/agent_runner.py): jobs, and the mandate    *)
(* that lets a role resume its own provider session from job to job.       *)
(*                                                                         *)
(* Three kinds of process share the state directory: the operator's        *)
(* commands (submit, verify, mandate close), and one detached worker per   *)
(* job.  A file is replaced atomically (write_json, save_mandate), but no  *)
(* lock covers a load and the save that follows it, so each of them is an  *)
(* action of its own and `copy` is what a process loaded in between.       *)
(* Mandates are separate files that share nothing; one of them is modelled.*)
(***************************************************************************)
EXTENDS Integers, Sequences, FiniteSets

CONSTANTS
  Jobs,       \* job ids, drawn by secrets.token_hex: never drawn twice
  Roles,      \* role names within the mandate
  Operators,  \* processes that run commands
  Models,     \* model slugs a submit may ask for
  Commands,   \* the submits that may be made
  MaxRetries, \* bound of --retries (the code allows 0 to 3)
  Deaths,     \* TRUE: a process may die between two of its steps
  None

\* A submit of the command line; a bare one has neither mandate nor role.
Submits == [role : Roles \cup {None}, model : Models \cup {None}, codex : BOOLEAN,
            fresh : BOOLEAN, force : BOOLEAN, retries : 0..MaxRetries]

Procs    == Jobs \cup Operators
Verdicts == {"verified", "needs-review"}
Terminal == {"returned", "failed"} \cup Verdicts
Modes    == {"fresh", "resumed", "fresh-forced"}
Outcomes == {"pending", "returned", "failed", "resume-failed"}

\* A thread is named by the job that was the first to return it.
Engagement == [job : Jobs, mode : Modes, outcome : Outcomes]

RoleRecord == [model : Models \cup {None}, thread : Jobs \cup {None}, resumes : BOOLEAN,
               inFlight : Jobs \cup {None}, replaced : SUBSET Jobs,
               engagements : Seq(Engagement)]

Override == [kind : {"duplicate", "model-mismatch", "close-in-flight"},
             role : Roles, job : Jobs \cup {None}]

MandateRecord == [state : {"open", "closed"}, roles : [Roles -> RoleRecord \cup {None}],
                  overrides : SUBSET Override]

\* job.json: what the worker and the waiting caller read.
JobRecord == [status : {"queued", "running", "retrying"} \cup Terminal,
              attempt : 0..MaxRetries + 1, retries : 0..MaxRetries,
              role : Roles \cup {None}, codex : BOOLEAN,
              mode : Modes \cup {None}, thread : Jobs \cup {None}]

Result == [outcome : Outcomes, thread : Jobs \cup {None}]

ASSUME MandateAssumption ==
  /\ Commands \subseteq Submits
  /\ MaxRetries \in Nat
  /\ Deaths \in BOOLEAN
  /\ Jobs \cap Operators = {}
  /\ None \notin Jobs \cup Roles \cup Operators \cup Models
  /\ None \notin {"close", "submit", "verify"} \cup Modes
  /\ None \notin MandateRecord \cup RoleRecord \cup JobRecord

VARIABLES
  mandate,   \* mandates/<run_id>.json, None while there is no file
  job,       \* job-*/job.json per job, None while there is no file
  artifact,  \* the status in job-*/result.json, None while there is no file
  issued,    \* job ids drawn so far
  opc,       \* the step of each operator's command
  order,     \* the command: what it is, its job, its arguments
  wpc,       \* the step of each job's worker process
  result,    \* what the last provider call of a job came to
  copy       \* the mandate as a process loaded it, or is about to save it

\* History of the load-save windows: no process reads it, only properties do.
VARIABLES
  stale,     \* processes whose copy is older than the last save
  lost       \* TRUE once a stale copy was saved: an update was lost

history == <<stale, lost>>
vars == <<mandate, job, artifact, issued, opc, order, wpc, result, copy, history>>

OperatorSteps == {"idle", "load", "decide", "save", "create", "spawn", "mark", "show"}
WorkerSteps   == {"off", "start", "call", "settle", "settling", "record", "publish",
                  "done", "killed"}

NoOrder  == [what |-> None, job |-> None, args |-> None]
NoResult == [outcome |-> "pending", thread |-> None]

StateOK ==
  /\ mandate \in MandateRecord \cup {None}
  /\ job \in [Jobs -> JobRecord \cup {None}]
  /\ artifact \in [Jobs -> Terminal \cup {None}]
  /\ issued \subseteq Jobs
  /\ opc \in [Operators -> OperatorSteps]
  /\ wpc \in [Jobs -> WorkerSteps]
  /\ result \in [Jobs -> Result]
  /\ copy \in [Procs -> MandateRecord \cup {None}]

TypeOK == StateOK /\ stale \subseteq Procs /\ lost \in BOOLEAN

Init ==
  /\ mandate = None
  /\ job = [j \in Jobs |-> None]
  /\ artifact = [j \in Jobs |-> None]
  /\ issued = {}
  /\ opc = [o \in Operators |-> "idle"]
  /\ order = [o \in Operators |-> NoOrder]
  /\ wpc = [j \in Jobs |-> "off"]
  /\ result = [j \in Jobs |-> NoResult]
  /\ copy = [p \in Procs |-> None]
  /\ stale = {}
  /\ lost = FALSE

----------------------------------------------------------------------------
(* What a process decides on the mandate it loaded.                        *)

NewMandate == [state |-> "open", roles |-> [r \in Roles |-> None], overrides |-> {}]

NewRole(q) == [model |-> q.model, thread |-> None, resumes |-> q.codex,
               inFlight |-> None, replaced |-> {}, engagements |-> <<>>]

RoleIn(m, q) == IF m.roles[q.role] = None THEN NewRole(q) ELSE m.roles[q.role]

\* Only a job record says that a job is over: a missing one does not.
JobIsTerminal(j) == job[j] # None /\ job[j].status \in Terminal

\* A job that is queued or between two attempts taken for one that is over.
InFlightIfRunning(rec) ==
  /\ rec.inFlight # None
  /\ job[rec.inFlight] # None
  /\ job[rec.inFlight].status = "running"

InFlight(rec) == rec.inFlight # None /\ ~JobIsTerminal(rec.inFlight)

OtherModel(rec, q) ==
  /\ rec.engagements # <<>>
  /\ None \notin {q.model, rec.model}
  /\ q.model # rec.model

\* The state of the mandate not looked at.
RefusedInFlight(m, q) ==
  ~q.force /\ (InFlight(RoleIn(m, q)) \/ OtherModel(RoleIn(m, q), q))

Refused(m, q) ==
  \/ m.state = "closed"
  \/ /\ ~q.force
     /\ InFlight(RoleIn(m, q)) \/ OtherModel(RoleIn(m, q), q)

\* Resumed because the role engaged before, whether or not a thread came of it.
EngageModeByHistory(rec, q) ==
  IF ~q.codex \/ rec.engagements = <<>> THEN "fresh"
  ELSE IF q.fresh THEN "fresh-forced" ELSE "resumed"

EngageMode(rec, q) ==
  IF ~q.codex \/ rec.thread = None THEN "fresh"
  ELSE IF q.fresh THEN "fresh-forced" ELSE "resumed"

\* engage: the role after job j was engaged under it.
Engaged(rec, q, j) ==
  LET forced == EngageMode(rec, q) = "fresh-forced"
      first  == rec.engagements = <<>> /\ q.model # None
  IN  [model       |-> IF OtherModel(rec, q) \/ first THEN q.model ELSE rec.model,
       thread      |-> IF forced THEN None ELSE rec.thread,
       resumes     |-> q.codex,
       inFlight    |-> j,
       replaced    |-> rec.replaced \cup (IF forced THEN {rec.thread} ELSE {}),
       engagements |-> Append(rec.engagements,
                         [job |-> j, mode |-> EngageMode(rec, q), outcome |-> "pending"])]

\* Every --force that overrode a guard leaves a record.
ForcedBy(rec, q, j) ==
  { [kind |-> k, role |-> q.role, job |-> j] :
      k \in {x \in {"duplicate", "model-mismatch"} :
              IF x = "duplicate" THEN InFlight(rec) ELSE OtherModel(rec, q)} }

MandateWith(m, q, j) ==
  LET rec == RoleIn(m, q)
  IN  [m EXCEPT !.roles[q.role] = Engaged(rec, q, j),
                !.overrides = @ \cup ForcedBy(rec, q, j)]

\* The loop over the engagements forgotten.
OutcomeForgotten(engagements, j, outcome) == engagements

\* settle_mandate: the job no longer is in flight, its engagement has an
\* outcome, and what it returned becomes the thread of a role that resumes.
WithOutcome(engagements, j, outcome) ==
  [i \in DOMAIN engagements |->
     IF engagements[i].job = j THEN [engagements[i] EXCEPT !.outcome = outcome]
     ELSE engagements[i]]

Settled(rec, j, res) ==
  [rec EXCEPT !.inFlight = IF @ = j THEN None ELSE @,
              !.engagements = WithOutcome(@, j, res.outcome),
              !.thread = IF /\ res.outcome = "returned"
                            /\ res.thread # None
                            /\ rec.resumes
                         THEN res.thread ELSE @]

Cleared(rec) ==
  IF rec # None /\ rec.inFlight # None /\ JobIsTerminal(rec.inFlight)
  THEN [rec EXCEPT !.inFlight = None] ELSE rec

Busy(m) == {r \in Roles : m.roles[r] # None /\ InFlight(m.roles[r])}

ClosedMandate(m, overrides) ==
  [m EXCEPT !.state = "closed", !.roles = [r \in Roles |-> Cleared(@[r])],
            !.overrides = @ \cup overrides]

----------------------------------------------------------------------------
(* The commands of the operators.                                          *)

\* A window is open from the load of the mandate to its save.
Windows ==
  {o \in Operators : opc[o] \in {"decide", "save"}} \cup {j \in Jobs : wpc[j] = "settling"}

\* A copy just loaded is as new as the file, one dropped is never saved.
Refresh(p) == stale' = stale \ {p} /\ UNCHANGED lost

\* A save overtakes whoever has a window open, and loses what overtook it.
Overtake(p) ==
  /\ stale' = (stale \cup Windows) \ {p}
  /\ lost' = (lost \/ p \in stale)

Step(o, from, to) ==
  /\ opc[o] = from
  /\ opc' = [opc EXCEPT ![o] = to]
  /\ IF to = "idle" THEN order' = [order EXCEPT ![o] = NoOrder] ELSE UNCHANGED order

Command(o, step, what, j, args) ==
  /\ opc[o] = "idle"
  /\ opc' = [opc EXCEPT ![o] = step]
  /\ order' = [order EXCEPT ![o] = [what |-> what, job |-> j, args |-> args]]

\* submit draws a job id; without a mandate it goes on to the job's record.
Submit(o) ==
  \E q \in Commands, j \in Jobs \ issued :
    /\ Command(o, IF q.role = None THEN "create" ELSE "load", "submit", j, q)
    /\ issued' = issued \cup {j}
    /\ UNCHANGED <<mandate, job, artifact, wpc, result, copy, history>>

\* mandate close --by ceo|lead [--force]
Close(o) ==
  \E force \in BOOLEAN :
    /\ Command(o, "load", "close", None, force)
    /\ UNCHANGED <<mandate, job, artifact, issued, wpc, result, copy, history>>

Load(o) ==
  /\ Step(o, "load", "decide")
  /\ copy' = [copy EXCEPT ![o] = mandate]
  /\ Refresh(o)
  /\ UNCHANGED <<mandate, job, artifact, issued, wpc, result>>

\* The rest of the window: what was decided waits in copy to be saved, a
\* refusal exits with nothing written.
Refuse(o) ==
  Step(o, "decide", "idle") /\ copy' = [copy EXCEPT ![o] = None] /\ Refresh(o)
Agree(o, m) ==
  Step(o, "decide", "save") /\ copy' = [copy EXCEPT ![o] = m] /\ UNCHANGED history

\* engage, from the load to the save.
DecideSubmit(o) ==
  /\ opc[o] = "decide"
  /\ order[o].what = "submit"
  /\ LET m == IF copy[o] = None THEN NewMandate ELSE copy[o]
         q == order[o].args
     IN  \/ Refused(m, q) /\ Refuse(o)
         \/ ~Refused(m, q) /\ Agree(o, MandateWith(m, q, order[o].job))
  /\ UNCHANGED <<mandate, job, artifact, issued, wpc, result>>

\* mandate_close, from the load to the save: not found, closed already, in
\* flight and not forced, or closed.
DecideClose(o) ==
  /\ opc[o] = "decide"
  /\ order[o].what = "close"
  /\ IF copy[o] = None THEN Refuse(o)
     ELSE LET m == copy[o]
          IN  \/ /\ m.state = "closed" \/ (Busy(m) # {} /\ ~order[o].args)
                 /\ Refuse(o)
              \/ /\ m.state = "open" /\ Busy(m) = {}
                 /\ Agree(o, ClosedMandate(m, {}))
              \/ /\ m.state = "open" /\ order[o].args
                 /\ \E r \in Busy(m) :
                      Agree(o, ClosedMandate(m, {[kind |-> "close-in-flight", role |-> r,
                                                  job |-> m.roles[r].inFlight]}))
  /\ UNCHANGED <<mandate, job, artifact, issued, wpc, result>>

Save(o) ==
  /\ Step(o, "save", IF order[o].what = "submit" THEN "create" ELSE "idle")
  /\ mandate' = copy[o]
  /\ Overtake(o)
  /\ copy' = [copy EXCEPT ![o] = IF order[o].what = "submit" THEN @ ELSE None]
  /\ UNCHANGED <<job, artifact, issued, wpc, result>>

\* The record of a job that nobody has worked on yet.
Queued(q, mode, thread) ==
  [status |-> "queued", attempt |-> 0, retries |-> q.retries, role |-> q.role,
   codex |-> q.codex, mode |-> mode, thread |-> thread]

LastMode(rec) == rec.engagements[Len(rec.engagements)].mode

Create(o) ==
  /\ Step(o, "create", "spawn")
  /\ LET q   == order[o].args
         rec == copy[o].roles[q.role]
     IN  job' = [job EXCEPT ![order[o].job] =
                   IF q.role = None THEN Queued(q, None, None)
                   ELSE Queued(q, LastMode(rec),
                               IF LastMode(rec) = "resumed" THEN rec.thread ELSE None)]
  /\ copy' = [copy EXCEPT ![o] = None]
  /\ UNCHANGED <<mandate, artifact, issued, wpc, result, history>>

\* A parent that writes the record again once the worker was started.
SpawnThenSave(o) ==
  /\ opc[o] = "spawn"
  /\ LET j == order[o].job
     IN  \/ /\ wpc[j] = "off"
            /\ wpc' = [wpc EXCEPT ![j] = "start"]
            /\ UNCHANGED <<job, opc, order>>
         \/ /\ wpc[j] # "off"
            /\ job' = [job EXCEPT ![j].status = "queued"]
            /\ Step(o, "spawn", "idle")
            /\ UNCHANGED wpc
  /\ UNCHANGED <<mandate, artifact, issued, result, copy, history>>

\* start_job.  The parent writes the record only when no worker was started.
Spawn(o) ==
  /\ Step(o, "spawn", "idle")
  /\ LET j == order[o].job
     IN  \/ wpc' = [wpc EXCEPT ![j] = "start"] /\ UNCHANGED job
         \/ job' = [job EXCEPT ![j].status = "failed"] /\ UNCHANGED wpc
  /\ UNCHANGED <<mandate, artifact, issued, result, copy, history>>

\* verify: the record is read, then written, then the artifact is written.
Verify(o) ==
  \E j \in Jobs, verdict \in Verdicts :
    /\ job[j] # None
    /\ job[j].status = "returned"
    /\ Command(o, "mark", "verify", j, verdict)
    /\ UNCHANGED <<mandate, job, artifact, issued, wpc, result, copy, history>>

Mark(o) ==
  /\ Step(o, "mark", "show")
  /\ job' = [job EXCEPT ![order[o].job].status = order[o].args]
  /\ UNCHANGED <<mandate, artifact, issued, wpc, result, copy, history>>

Show(o) ==
  /\ Step(o, "show", "idle")
  /\ artifact' = [artifact EXCEPT ![order[o].job] = order[o].args]
  /\ UNCHANGED <<mandate, job, issued, wpc, result, copy, history>>

----------------------------------------------------------------------------
(* The worker of a job, run_worker in a session of its own.                *)

Work(j, from, to) ==
  /\ wpc[j] = from
  /\ wpc' = [wpc EXCEPT ![j] = to]

Begin(j) ==
  /\ wpc[j] = "start"
  /\ IF JobIsTerminal(j)
     THEN Work(j, "start", "done") /\ UNCHANGED job
     ELSE /\ Work(j, "start", "call")
          /\ job' = [job EXCEPT ![j].status = "running", ![j].attempt = 1]
  /\ UNCHANGED <<mandate, artifact, issued, opc, order, result, copy, history>>

\* The thread the worker reads in what came back: whatever JSON object was
\* printed, by the bridge or by another backend, may name one.  A resumed
\* session keeps its thread, any other names a new one; without a mandate the
\* text is not looked at.
ThreadsRead(j) ==
  {None} \cup (IF job[j].role = None THEN {}
               ELSE IF job[j].mode = "resumed" THEN {job[j].thread} ELSE {j})

\* The provider answers.
Answers(j) ==
  { [outcome |-> "returned", thread |-> t] : t \in ThreadsRead(j) }
  \cup { [outcome |-> x, thread |-> None] :
           x \in {"failed"} \cup (IF job[j].mode = "resumed" THEN {"resume-failed"} ELSE {}) }

CallEnds(j) ==
  /\ wpc[j] = "call"
  /\ Work(j, "call", IF job[j].role = None THEN "record" ELSE "settle")
  /\ \E answer \in Answers(j) : result' = [result EXCEPT ![j] = answer]
  /\ UNCHANGED <<mandate, job, artifact, issued, opc, order, copy, history>>

\* settle_mandate returns at once when a lost update took its role away.
LoadToSettle(j) ==
  /\ wpc[j] = "settle"
  /\ IF mandate.roles[job[j].role] = None
     THEN Work(j, "settle", "record") /\ UNCHANGED copy
     ELSE Work(j, "settle", "settling") /\ copy' = [copy EXCEPT ![j] = mandate]
  /\ Refresh(j)
  /\ UNCHANGED <<mandate, job, artifact, issued, opc, order, result>>

SaveSettled(j) ==
  /\ Work(j, "settling", "record")
  /\ mandate' = [copy[j] EXCEPT !.roles[job[j].role] = Settled(@, j, result[j])]
  /\ Overtake(j)
  /\ copy' = [copy EXCEPT ![j] = None]
  /\ UNCHANGED <<job, artifact, issued, opc, order, result>>

\* The record gets its terminal status, unless the failure is classified as
\* transient and an attempt is left.
RecordReturn(j) ==
  /\ Work(j, "record", "publish")
  /\ result[j].outcome = "returned"
  /\ job' = [job EXCEPT ![j].status = "returned"]
  /\ UNCHANGED <<mandate, artifact, issued, opc, order, result, copy, history>>

RecordFailure(j) ==
  /\ Work(j, "record", "publish")
  /\ result[j].outcome # "returned"
  /\ job' = [job EXCEPT ![j].status = "failed"]
  /\ UNCHANGED <<mandate, artifact, issued, opc, order, result, copy, history>>

\* One attempt too many, and attempts that are not counted.
RetryOnceMore(j) ==
  /\ Work(j, "record", "call")
  /\ result[j].outcome # "returned"
  /\ job[j].attempt <= job[j].retries + 1
  /\ job' = [job EXCEPT ![j].status = "retrying", ![j].attempt = @ + 1]
  /\ UNCHANGED <<mandate, artifact, issued, opc, order, result, copy, history>>

RetryUncounted(j) ==
  /\ Work(j, "record", "call")
  /\ result[j].outcome # "returned"
  /\ job' = [job EXCEPT ![j].status = "retrying"]
  /\ UNCHANGED <<mandate, artifact, issued, opc, order, result, copy, history>>

Retry(j) ==
  /\ Work(j, "record", "call")
  /\ result[j].outcome # "returned"
  /\ job[j].attempt <= job[j].retries
  /\ job' = [job EXCEPT ![j].status = "retrying", ![j].attempt = @ + 1]
  /\ UNCHANGED <<mandate, artifact, issued, opc, order, result, copy, history>>

\* write_artifact from the record the worker holds in memory.
Publish(j) ==
  /\ Work(j, "publish", "done")
  /\ artifact' = [artifact EXCEPT ![j] =
                    IF result[j].outcome = "returned" THEN "returned" ELSE "failed"]
  /\ UNCHANGED <<mandate, job, issued, opc, order, result, copy, history>>

----------------------------------------------------------------------------
(* A process dies between two of its steps.                                *)

OperatorDies(o) ==
  /\ Deaths
  /\ opc[o] # "idle"
  /\ Step(o, opc[o], "idle")
  /\ copy' = [copy EXCEPT ![o] = None]
  /\ Refresh(o)
  /\ UNCHANGED <<mandate, job, artifact, issued, wpc, result>>

WorkerDies(j) ==
  /\ Deaths
  /\ wpc[j] \notin {"off", "done", "killed"}
  /\ Work(j, wpc[j], "killed")
  /\ copy' = [copy EXCEPT ![j] = None]
  /\ Refresh(j)
  /\ UNCHANGED <<mandate, job, artifact, issued, opc, order, result>>

Operate(o) ==
  \/ Load(o) \/ DecideSubmit(o) \/ DecideClose(o) \/ Save(o)
  \/ Create(o) \/ Spawn(o) \/ Mark(o) \/ Show(o)

RunWorker(j) ==
  \/ Begin(j) \/ CallEnds(j) \/ LoadToSettle(j) \/ SaveSettled(j)
  \/ RecordReturn(j) \/ RecordFailure(j) \/ Retry(j) \/ Publish(j)

Next ==
  \/ \E o \in Operators : Submit(o) \/ Close(o) \/ Verify(o) \/ Operate(o) \/ OperatorDies(o)
  \/ \E j \in Jobs : RunWorker(j) \/ WorkerDies(j)

\* A worker runs on: its one long wait is the provider call, which the
\* wrapper scripts bound (curl --max-time in ask.sh).  Operators need not act.
Fairness == \A j \in Jobs : WF_vars(RunWorker(j))

Spec == Init /\ [][Next]_vars
FairSpec == Spec /\ Fairness

----------------------------------------------------------------------------
(* Properties.                                                             *)

\* The provider works for a job of this role.
AtWork(j, r) == wpc[j] = "call" /\ job[j].role = r

\* specs/010-persistent-exec-session/plan.md:184: whatever a lost update does,
\* "nothing resumes the wrong thread".  A resumed job continues a session that
\* an earlier job of its own role returned.
ResumesOwnThread ==
  \A j \in Jobs :
    job[j] # None /\ job[j].mode = "resumed"
      => LET t == job[j].thread
         IN  /\ t \in Jobs \ {j}
             /\ job[t] # None
             /\ job[t].role = job[j].role
             /\ result[t].outcome = "returned"

EngagedJobs(m) ==
  { j \in Jobs : \E r \in Roles : /\ m.roles[r] # None
                                  /\ \E i \in DOMAIN m.roles[r].engagements :
                                       m.roles[r].engagements[i].job = j }

\* A step that loses an update.
LosesUpdate ==
  \/ \E o \in stale \cap Operators : Save(o)
  \/ \E j \in stale \cap Jobs : SaveSettled(j)

\* A mandate that was closed is neither reopened nor engaged under again, but
\* by a save that loses an update.
ClosedForGood ==
  [][mandate # None /\ mandate.state = "closed" /\ ~LosesUpdate
       => mandate'.state = "closed" /\ EngagedJobs(mandate') = EngagedJobs(mandate)]_vars

\* As long as no update was lost, the provider works for two jobs of one role
\* at once only when --force is on record, or one of them is a retry: the
\* worker settles every attempt.
DuplicateOnRecord ==
  ~lost =>
    \A r \in Roles : \A a, b \in Jobs :
      a # b /\ AtWork(a, r) /\ AtWork(b, r)
        => \/ \E x \in mandate.overrides : x.kind = "duplicate" /\ x.role = r
           \/ \E j \in {a, b} : job[j].attempt > 1

\* As long as no update was lost, a job under a mandate is returned in its
\* record only after its engagement is, and the mandate never says otherwise.
OutcomeOnRecord ==
  ~lost =>
    \A j \in Jobs :
      job[j] # None /\ job[j].role # None /\ job[j].status \in {"returned"} \cup Verdicts
        => \E i \in DOMAIN mandate.roles[job[j].role].engagements :
             LET e == mandate.roles[job[j].role].engagements[i]
             IN  e.job = j /\ e.outcome = "returned"

\* agent_runner.py:629: no write of the parent clobbers the terminal result of
\* a fast worker.  A terminal status changes only by a verdict.
TerminalStays ==
  [][\A j \in Jobs :
       JobIsTerminal(j) => \/ job'[j].status = job[j].status
                           \/ /\ job[j].status \in {"returned"} \cup Verdicts
                              /\ job'[j].status \in Verdicts]_vars

\* Whoever waits for a started job gets an answer, unless its worker died.
JobsEnd == \A j \in Jobs : (wpc[j] = "start") ~> (JobIsTerminal(j) \/ wpc[j] = "killed")

\* Divergences from the documentation.

\* specs/010-persistent-exec-session/data-model.md:73, I2: "at most one
\* `in_flight_job_id` per role unless an Override of kind `duplicate` exists".
OneInFlight ==
  \A r \in Roles : \A a, b \in Jobs :
    a # b /\ AtWork(a, r) /\ AtWork(b, r)
      => \E x \in mandate.overrides : x.kind = "duplicate" /\ x.role = r

\* specs/010-persistent-exec-session/data-model.md:10, state: "transition
\* `open -> closed` only; never reopens".
NeverReopens ==
  [][mandate # None /\ mandate.state = "closed" => mandate'.state = "closed"]_vars

=============================================================================
