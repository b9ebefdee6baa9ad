---------------------------- MODULE BridgeProofs ----------------------------
(***************************************************************************)
(* Theorems about Bridge.tla, for every set of requests and of bodies and  *)
(* any number of restarts.                                                 *)
(***************************************************************************)
EXTENDS Bridge, TLAPS

----------------------------------------------------------------------------
(* The inductive invariant: what the step of a handler says of its         *)
(* variables and of the thread it shares with the others.                  *)

Holds(r) == pc[r] \in {"codex", "retry", "write"}

\* A handler that has not got the lock, or has left it.
OutsideAt(r) ==
  /\ pc[r] = "idle" => post[r] = None
  /\ pc[r] # "idle" => post[r] # None
  /\ ~Holds(r) => runs[r] = <<>>
  /\ Holds(r) => holder = r
  /\ pc[r] # "done" => counted[r] = 0 /\ r \notin written /\ r \notin warned

CodexAt(r) ==
  pc[r] = "codex" => seen[r] = shared /\ runs[r] = <<Started(Resume(r, shared))>>

\* The first of two processes.
Lost(r) == Failed(seen[r])

RetryAt(r) ==
  pc[r] = "retry" =>
    /\ shared = None /\ ~Isolated(r) /\ seen[r] # None
    /\ runs[r] = <<Lost(r), Started(None)>>

\* The answer of a first process, or of a second one.
OnceAt(r, run) ==
  /\ runs[r] = <<run>>
  /\ reply[r].code = 200 => reply[r].previous = None
  /\ post[r].thread # None => run.resume = post[r].thread
  /\ Isolated(r) \/ reply[r].code = 429 => shared = seen[r]
TwiceAt(r, run) ==
  /\ runs[r] = <<Lost(r), run>>
  /\ reply[r].code = 200 => reply[r].previous = seen[r]
  /\ reply[r].code # 429 /\ ~Isolated(r) /\ seen[r] # None /\ run.resume = None

WriteAt(r) ==
  pc[r] = "write" =>
    /\ reply[r] \in Reply
    /\ reply[r].usage => reply[r].code = 200
    /\ \E run \in CodexRun :
         /\ OnceAt(r, run) \/ TwiceAt(r, run)
         /\ reply[r].code = 200 => reply[r].thread = run.thread

At(r) == OutsideAt(r) /\ CodexAt(r) /\ RetryAt(r) /\ WriteAt(r)

Inv == TypeOK /\ SharedIsShared /\ \A r \in Requests : At(r)

\* A bridge that was just started.
LEMMA InvInit == Init => Inv
BY BridgeAssumption
   DEF Init, Inv, TypeOK, SharedIsShared, At, OutsideAt, CodexAt, RetryAt, WriteAt, Holds

\* The processes of a request are sequences of one or two.
LEMMA OneRun ==
  ASSUME NEW run \in CodexRun
  PROVE  <<run>> \in Seq(CodexRun) /\ Len(<<run>>) = 1 /\ <<run>>[1] = run
OBVIOUS

\* Two processes.
LEMMA TwoRuns ==
  ASSUME NEW first \in CodexRun, NEW run \in CodexRun
  PROVE  /\ <<first, run>> \in Seq(CodexRun) /\ Len(<<first, run>>) = 2
         /\ <<first, run>>[1] = first /\ <<first, run>>[2] = run
OBVIOUS

\* A process that was just started, or one that was given up, is a process.
LEMMA RunType ==
  ASSUME Inv, NEW r \in Requests
  PROVE  /\ \A thread \in Requests \cup {None} : Started(thread) \in CodexRun
         /\ Lost(r) \in CodexRun
BY DEF Inv, TypeOK, CodexRun, Exits, Started, Failed, Lost

\* A step that touches nothing of another handler, and either moves the lock while
\* that one does not hold it or leaves the lock and the shared thread alone.
LEMMA OthersStay ==
  ASSUME Inv, NEW s \in Requests,
         pc'[s] = pc[s], post'[s] = post[s], seen'[s] = seen[s], runs'[s] = runs[s],
         reply'[s] = reply[s], counted'[s] = counted[s],
         s \in written' <=> s \in written, s \in warned' <=> s \in warned,
         holder # s \/ UNCHANGED <<holder, shared>>
  PROVE  At(s)'
<1>1. At(s)
  BY DEF Inv
<1>2. CASE ~Holds(s)
  BY <1>1, <1>2 DEF At, OutsideAt, CodexAt, RetryAt, WriteAt, Holds
<1>3. CASE Holds(s) /\ UNCHANGED <<holder, shared>>
  <2>1. OutsideAt(s)'
    BY <1>1, <1>3 DEF At, OutsideAt, Holds
  <2>2. CodexAt(s)' /\ RetryAt(s)'
    BY <1>1, <1>3 DEF At, CodexAt, RetryAt, Resume, Isolated, Lost
  <2>3. \A run : /\ OnceAt(s, run) <=> OnceAt(s, run)'
                 /\ TwiceAt(s, run) <=> TwiceAt(s, run)'
    BY <1>3 DEF OnceAt, TwiceAt, Isolated, Lost
  <2>4. WriteAt(s)'
    BY <1>1, <2>3 DEF At, WriteAt
  <2> QED
    BY <2>1, <2>2, <2>4 DEF At
<1> QED
  BY <1>1, <1>2, <1>3 DEF At, OutsideAt, Holds

\* What the handlers whose step it is not keep.
Apart(r) ==
  \A s \in Requests \ {r} :
    /\ pc'[s] = pc[s] /\ post'[s] = post[s] /\ seen'[s] = seen[s] /\ runs'[s] = runs[s]
    /\ reply'[s] = reply[s] /\ counted'[s] = counted[s]
    /\ s \in written' <=> s \in written
    /\ s \in warned' <=> s \in warned
    /\ holder # s \/ UNCHANGED <<holder, shared>>

\* So a step of one handler has to be looked at for that handler only.
LEMMA OwnStep ==
  ASSUME Inv, NEW r \in Requests, Apart(r), TypeOK', SharedIsShared', At(r)'
  PROVE  Inv'
BY OthersStay DEF Inv, Apart

----------------------------------------------------------------------------
(* The process of a request.                                               *)

\* What a first process was started with.
LEMMA FirstProcess ==
  ASSUME Inv, NEW r \in Requests, pc[r] = "codex"
  PROVE  /\ holder = r /\ post[r] \in Posts /\ seen[r] = shared
         /\ runs[r] = <<Started(Resume(r, shared))>>
         /\ Latest(r) = Started(Resume(r, shared))
         /\ Latest(r).resume = Resume(r, shared)
         /\ Latest(r).resume \in Requests \cup {None}
         /\ Working(r) \in Requests
<1>1. holder = r /\ post[r] \in Posts /\ seen[r] = shared
      /\ runs[r] = <<Started(Resume(r, shared))>>
  BY DEF Inv, TypeOK, At, OutsideAt, CodexAt, Holds
<1>2. Resume(r, shared) \in Requests \cup {None}
  BY <1>1 DEF Inv, TypeOK, Resume, Posts
<1>3. Latest(r) = Started(Resume(r, shared))
  BY <1>1, <1>2, RunType, OneRun DEF Latest
<1>4. Latest(r).resume = Resume(r, shared)
  BY <1>3 DEF Started
<1> QED
  BY <1>1, <1>2, <1>3, <1>4 DEF Working

\* What a second one was.
LEMMA SecondProcess ==
  ASSUME Inv, NEW r \in Requests, pc[r] = "retry"
  PROVE  /\ holder = r /\ post[r] \in Posts /\ shared = None
         /\ ~Isolated(r) /\ seen[r] # None
         /\ runs[r] = <<Lost(r), Started(None)>>
         /\ runs[r][1] = Lost(r)
         /\ Latest(r).resume = None
         /\ Working(r) = r
<1>1. holder = r /\ post[r] \in Posts /\ shared = None /\ ~Isolated(r)
      /\ seen[r] # None /\ runs[r] = <<Lost(r), Started(None)>>
  BY DEF Inv, TypeOK, At, OutsideAt, RetryAt, Holds
<1>2. Latest(r) = Started(None) /\ runs[r][1] = Lost(r)
  BY <1>1, RunType, TwoRuns DEF Latest
<1>3. Latest(r).resume = None
  BY <1>2 DEF Started
<1> QED
  BY <1>1, <1>2, <1>3 DEF Working

\* What the bridge sees of one that ended.
LEMMA EndedProcess ==
  ASSUME NEW r \in Requests, NEW exit \in Exits, NEW run \in Endings(r, exit),
         Latest(r).resume \in Requests \cup {None}, Working(r) \in Requests
  PROVE  /\ run \in CodexRun
         /\ run.resume = Latest(r).resume
         /\ run.exit = exit
         /\ run.thread \in {Working(r), None}
         /\ run.usage => exit = "ok"
BY DEF Endings, CodexRun, Exits

\* The threads on disk are named by requests.
LEMMA ThreadsType ==
  ASSUME Inv, NEW r \in Requests, NEW run, CodexEnds(r, run), Working(r) \in Requests
  PROVE  threads' \subseteq Requests
BY DEF CodexEnds, Inv, TypeOK

----------------------------------------------------------------------------
(* The steps.                                                              *)

\* The answers a handler may decide on when its first process has ended.
FirstAnswer(r, run, answer) ==
  /\ pc[r] = "codex"
  /\ Ended(r, run)
  /\ reply' = [reply EXCEPT ![r] = answer] /\ Goes(r, "write")
  /\ answer.usage => answer.code = 200
  /\ answer.code = 200 => answer.previous = None /\ answer.thread = run.thread
  /\ \/ shared' = shared
     \/ shared' = run.thread /\ ~Isolated(r) /\ answer.code = 200

\* Whatever the answer, the invariant holds.
LEMMA AnswerOnce ==
  ASSUME Inv, NEW r \in Requests, NEW exit \in Exits, NEW run \in Endings(r, exit),
         NEW answer \in Reply, FirstAnswer(r, run, answer)
  PROVE  Inv'
<1> USE DEF FirstAnswer
<1>1. /\ holder = r /\ post[r] \in Posts /\ seen[r] = shared
      /\ Latest(r).resume = Resume(r, shared)
      /\ Latest(r).resume \in Requests \cup {None} /\ Working(r) \in Requests
  BY FirstProcess
<1>2. /\ run \in CodexRun /\ run.resume = Resume(r, shared)
      /\ run.thread \in {Working(r), None}
  BY <1>1, EndedProcess
<1>3. threads' \subseteq Requests /\ <<run>> \in Seq(CodexRun)
  BY <1>1, <1>2, ThreadsType, OneRun DEF Ended
<1>4. TypeOK'
  BY <1>1, <1>2, <1>3 DEF Inv, TypeOK, Ended, Goes
<1>5. SharedIsShared'
  <2>1. Working(r) # r => Working(r) = Resume(r, shared)
    BY <1>1 DEF Working
  <2>2. ~Isolated(r) => Resume(r, shared) \in {shared, None}
    BY DEF Resume
  <2>3. shared' \in {shared, None} \/ (shared' = r /\ ~Isolated(r))
    BY <1>1, <1>2, <2>1, <2>2
  <2> QED
    BY <1>1, <2>3 DEF Inv, SharedIsShared, Isolated, Ended, At, OutsideAt
<1>6. At(r)'
  <2>1. pc' = [pc EXCEPT ![r] = "write"] /\ pc \in [Requests -> {"idle", "queued", "codex", "retry", "write", "done"}]
    BY DEF Inv, TypeOK, Goes
  <2>2. OutsideAt(r)' /\ CodexAt(r)' /\ RetryAt(r)'
    BY <1>1, <2>1 DEF OutsideAt, CodexAt, RetryAt, Holds, Ended, Inv, At
  <2>3. reply'[r] = answer /\ runs'[r] = <<run>>
    BY DEF Inv, TypeOK, Ended
  <2>4. post[r].thread # None => run.resume = post[r].thread
    BY <1>2 DEF Resume, Isolated
  <2>5. OnceAt(r, run)'
    BY <1>1, <2>3, <2>4 DEF OnceAt, Isolated, Ended
  <2>6. WriteAt(r)'
    BY <1>2, <2>3, <2>5 DEF WriteAt
  <2> QED
    BY <2>2, <2>6 DEF At
<1>7. Apart(r)
  BY <1>1 DEF Apart, Inv, TypeOK, Ended, Goes
<1> QED
  BY <1>4, <1>5, <1>6, <1>7, OwnStep

\* The answers after a second process, which runs for the shared conversation alone.
SecondAnswer(r, run, answer) ==
  /\ pc[r] = "retry"
  /\ RetryEnded(r, run)
  /\ reply' = [reply EXCEPT ![r] = answer] /\ Goes(r, "write")
  /\ answer.usage => answer.code = 200
  /\ answer.code # 429
  /\ answer.code = 200 => answer.previous = seen[r] /\ answer.thread = run.thread
  /\ shared' = Adopted(run)

\* Whatever the answer, the invariant holds.
LEMMA AnswerTwice ==
  ASSUME Inv, NEW r \in Requests, NEW exit \in Exits, NEW run \in Endings(r, exit),
         NEW answer \in Reply, SecondAnswer(r, run, answer)
  PROVE  Inv'
<1> USE DEF SecondAnswer
<1>1. /\ holder = r /\ post[r] \in Posts /\ shared = None
      /\ ~Isolated(r) /\ seen[r] # None
      /\ runs[r][1] = Lost(r) /\ Latest(r).resume = None /\ Working(r) = r
  BY SecondProcess
<1>2. run \in CodexRun /\ run.resume = None /\ run.thread \in {r, None}
  BY <1>1, EndedProcess
<1>3. threads' \subseteq Requests /\ <<Lost(r), run>> \in Seq(CodexRun)
  BY <1>1, <1>2, ThreadsType, TwoRuns, RunType DEF RetryEnded
<1>4. shared' \in {r, None} /\ runs' = [runs EXCEPT ![r] = <<Lost(r), run>>]
  BY <1>1, <1>2 DEF Adopted, RetryEnded
<1>5. TypeOK'
  BY <1>3, <1>4 DEF Inv, TypeOK, RetryEnded, Goes
<1>6. SharedIsShared'
  BY <1>1, <1>4 DEF SharedIsShared, Isolated, RetryEnded, Inv, At, OutsideAt
<1>7. At(r)'
  <2>1. pc' = [pc EXCEPT ![r] = "write"] /\ pc \in [Requests -> {"idle", "queued", "codex", "retry", "write", "done"}]
    BY DEF Inv, TypeOK, Goes
  <2>2. OutsideAt(r)' /\ CodexAt(r)' /\ RetryAt(r)'
    BY <1>1, <2>1 DEF OutsideAt, CodexAt, RetryAt, Holds, RetryEnded, Inv, At
  <2>3. reply'[r] = answer /\ runs'[r] = <<Lost(r), run>> /\ Lost(r)' = Lost(r)
    <3>1. runs'[r] = <<Lost(r), run>>
      BY <1>4 DEF Inv, TypeOK
    <3>2. reply'[r] = answer
      BY DEF Inv, TypeOK
    <3>3. Lost(r)' = Lost(r)
      BY DEF RetryEnded, Lost
    <3> QED
      BY <3>1, <3>2, <3>3
  <2>4. TwiceAt(r, run)'
    BY <1>1, <1>2, <2>3 DEF TwiceAt, Isolated, RetryEnded
  <2>5. WriteAt(r)'
    BY <1>2, <2>3, <2>4 DEF WriteAt
  <2> QED
    BY <2>2, <2>5 DEF At
<1>8. Apart(r)
  BY <1>1 DEF Apart, Inv, TypeOK, RetryEnded, Goes
<1> QED
  BY <1>5, <1>6, <1>7, <1>8, OwnStep

\* A handler that leaves the lock, answered or not.
LEMMA LeaveStep ==
  ASSUME Inv, NEW r \in Requests, Holds(r), Leave(r),
         shared' \in {shared, None, r},
         shared' = r => ~Isolated(r),
         threads' \subseteq Requests,
         reply' \in {reply, [reply EXCEPT ![r] = None]},
         written' \in {written, written \cup {r}},
         warned' \in {warned, warned \cup {r}},
         counted' \in {counted, [counted EXCEPT ![r] = @ + 1]},
         UNCHANGED <<post, restarts>>
  PROVE  Inv'
<1>1. holder = r /\ post[r] # None /\ counted[r] = 0
  BY DEF Inv, At, OutsideAt, Holds
<1>2. pc' = [pc EXCEPT ![r] = "done"] /\ holder' = None
      /\ seen' = [seen EXCEPT ![r] = None] /\ runs' = [runs EXCEPT ![r] = <<>>]
  BY DEF Leave, Goes
<1>3. TypeOK'
  <2>1. counted' \in [Requests -> 0..1]
    <3>1. CASE counted' = [counted EXCEPT ![r] = @ + 1]
      <4>1. counted[r] + 1 \in 0..1
        BY <1>1
      <4> QED
        BY <3>1, <4>1 DEF Inv, TypeOK
    <3> QED
      BY <3>1 DEF Inv, TypeOK
  <2>2. runs' \in [Requests -> Seq(CodexRun)]
    BY <1>2 DEF Inv, TypeOK
  <2> QED
    BY <1>2, <2>1, <2>2 DEF Inv, TypeOK
<1>4. SharedIsShared'
  BY <1>1 DEF SharedIsShared, Isolated, Inv
<1>5. At(r)'
  BY <1>1, <1>2 DEF At, OutsideAt, CodexAt, RetryAt, WriteAt, Holds, Inv, TypeOK
<1>6. Apart(r)
  BY <1>1, <1>2 DEF Apart, Inv, TypeOK
<1> QED
  BY <1>3, <1>4, <1>5, <1>6, OwnStep

\* A request arrives, or is refused by the validation.
LEMMA SendStep ==
  ASSUME Inv, NEW r \in Requests, Send(r)
  PROVE  Inv'
<1>1. PICK q \in Bodies, step \in {"done", "queued"} :
        /\ pc[r] = "idle" /\ post' = [post EXCEPT ![r] = q] /\ pc' = [pc EXCEPT ![r] = step]
        /\ UNCHANGED <<shared, holder, seen, runs, reply, written, threads, counted, warned, restarts>>
  BY DEF Send, Goes
<1>2. q \in Posts /\ q # None
  BY BridgeAssumption
<1>3. TypeOK'
  BY <1>1, <1>2 DEF Inv, TypeOK
<1>4. shared # r
  BY <1>1, BridgeAssumption DEF Inv, SharedIsShared, At, OutsideAt, TypeOK
<1>5. SharedIsShared'
  BY <1>1, <1>4 DEF Inv, TypeOK, SharedIsShared, Isolated
<1>6. At(r)'
  BY <1>1, <1>2 DEF Inv, TypeOK, At, OutsideAt, CodexAt, RetryAt, WriteAt, Holds
<1>7. Apart(r)
  BY <1>1 DEF Apart, Inv, TypeOK
<1> QED
  BY <1>3, <1>5, <1>6, <1>7, OwnStep

\* POST /reset takes the lock, so no handler relies on the thread.
LEMMA ResetStep ==
  ASSUME Inv, NEW r \in Requests, Reset(r)
  PROVE  Inv'
<1>1. TypeOK'
  BY DEF Reset, Goes, Inv, TypeOK
<1>2. SharedIsShared'
  BY DEF Reset, SharedIsShared
<1>3. At(r)'
  <2>1. /\ pc[r] = "queued" /\ pc'[r] = "done"
        /\ UNCHANGED <<holder, post, runs>>
    BY DEF Reset, Goes, Inv, TypeOK
  <2>2. OutsideAt(r)
    BY DEF Inv, At
  <2>3. OutsideAt(r)'
    BY <2>1, <2>2 DEF OutsideAt, Holds
  <2> QED
    BY <2>1, <2>3 DEF At, CodexAt, RetryAt, WriteAt
<1>4. Apart(r)
  BY BridgeAssumption DEF Reset, Goes, Apart, Inv, TypeOK
<1> QED
  BY <1>1, <1>2, <1>3, <1>4, OwnStep

\* The lock is free, so no other handler relies on the thread this one may reset.
LEMMA EnterStep ==
  ASSUME Inv, NEW r \in Requests, Enter(r)
  PROVE  Inv'
<1>1. /\ pc[r] = "queued" /\ holder = None
      /\ shared' = IF post[r].reset /\ ~Isolated(r) THEN None ELSE shared
      /\ UNCHANGED <<post, reply, written, threads, counted, warned, restarts>>
  BY DEF Enter
<1>2. post[r] \in Posts
  BY <1>1 DEF Inv, TypeOK, At, OutsideAt
<1>3. SharedIsShared'
  BY <1>1 DEF Inv, SharedIsShared, Isolated
<1>4. shared' \in Requests \cup {None}
  BY <1>1 DEF Inv, TypeOK
<1>5. Resume(r, shared') \in Requests \cup {None}
  BY <1>2, <1>4 DEF Resume, Posts
<1>6. CASE /\ holder' = r /\ seen' = [seen EXCEPT ![r] = shared']
           /\ runs' = [runs EXCEPT ![r] = <<Started(Resume(r, shared'))>>]
           /\ Goes(r, "codex")
  <2>1. <<Started(Resume(r, shared'))>> \in Seq(CodexRun)
    BY <1>5, RunType, OneRun
  <2>2. TypeOK'
    BY <1>1, <1>4, <1>6, <2>1 DEF Inv, TypeOK, Goes
  <2>3. pc'[r] = "codex" /\ seen'[r] = shared'
        /\ runs'[r] = <<Started(Resume(r, shared'))>>
    BY <1>6 DEF Inv, TypeOK, Goes
  <2>4. Resume(r, shared)' = Resume(r, shared')
    BY <1>1 DEF Resume, Isolated
  <2>5. At(r)'
    BY <1>1, <1>6, <2>3, <2>4 DEF At, OutsideAt, CodexAt, RetryAt, WriteAt, Holds, Inv, Started
  <2>6. Apart(r)
    BY <1>1, <1>6, BridgeAssumption DEF Apart, Inv, TypeOK, Goes
  <2> QED
    BY <1>3, <2>2, <2>5, <2>6, OwnStep
<1>7. CASE Goes(r, "done") /\ UNCHANGED <<holder, seen, runs>>
  <2>1. TypeOK'
    BY <1>1, <1>4, <1>7 DEF Inv, TypeOK, Goes
  <2>2. At(r)'
    BY <1>1, <1>7 DEF At, OutsideAt, CodexAt, RetryAt, WriteAt, Holds, Inv, TypeOK, Goes
  <2>3. Apart(r)
    BY <1>1, <1>7, BridgeAssumption DEF Apart, Inv, TypeOK, Goes
  <2> QED
    BY <1>3, <2>1, <2>2, <2>3, OwnStep
<1> QED
  BY <1>6, <1>7 DEF Enter

\* The shared conversation is given up: the second look at it saw the first one's.
LEMMA RetryStep ==
  ASSUME Inv, NEW r \in Requests, Retry(r)
  PROVE  Inv'
<1>1. /\ pc[r] = "codex" /\ ~Isolated(r) /\ ResumedShared(r) /\ shared' = None
      /\ UNCHANGED <<post, reply, written, threads, counted, warned, restarts>>
  BY DEF Retry
<1>2. CASE Leave(r)
  BY <1>1, <1>2, LeaveStep DEF Holds, Inv, TypeOK
<1>3. CASE /\ runs' = [runs EXCEPT ![r] = << Failed(Latest(r).resume), Started(None) >>]
           /\ Goes(r, "retry")
           /\ UNCHANGED <<holder, seen>>
  <2>1. /\ holder = r /\ seen[r] = shared
        /\ Latest(r) = Started(Resume(r, shared)) /\ Latest(r).resume = Resume(r, shared)
    BY <1>1, FirstProcess
  <2>2. seen[r] # None /\ Resume(r, shared) = seen[r]
    BY <1>1, <2>1 DEF ResumedShared, Resume
  <2>3. Failed(Latest(r).resume) = Lost(r)
    BY <2>1, <2>2 DEF Lost
  <2>4. <<Lost(r), Started(None)>> \in Seq(CodexRun)
    BY RunType, TwoRuns
  <2>5. TypeOK'
    BY <1>1, <1>3, <2>3, <2>4 DEF Inv, TypeOK, Goes
  <2>6. SharedIsShared'
    BY <1>1 DEF SharedIsShared
  <2>7. pc'[r] = "retry" /\ runs'[r] = <<Lost(r), Started(None)>> /\ Lost(r)' = Lost(r)
    <3>1. pc'[r] = "retry" /\ runs'[r] = <<Lost(r), Started(None)>>
      BY <1>3, <2>3 DEF Inv, TypeOK, Goes
    <3> QED
      BY <1>3, <3>1 DEF Lost
  <2>8. At(r)'
    BY <1>1, <1>3, <2>1, <2>2, <2>7
       DEF At, OutsideAt, CodexAt, RetryAt, WriteAt, Holds, Inv, Isolated, Started
  <2>9. Apart(r)
    BY <1>1, <1>3, <2>1 DEF Apart, Inv, TypeOK, Goes
  <2> QED
    BY <2>5, <2>6, <2>8, <2>9, OwnStep
<1> QED
  BY <1>2, <1>3 DEF Retry

\* A timeout, or an exception while the events are parsed.
LEMMA RaiseStep ==
  ASSUME Inv, NEW r \in Requests, Raise(r)
  PROVE  Inv'
<1>1. PICK run \in Endings(r, "raised") :
        /\ CodexEnds(r, run)
        /\ shared' \in IF pc[r] = "retry" THEN {shared, Adopted(run)} ELSE {shared}
  BY DEF Raise
<1>2. /\ pc[r] \in {"codex", "retry"} /\ Leave(r)
      /\ UNCHANGED <<post, reply, written, counted, warned, restarts>>
  BY DEF Raise
<1>3. Working(r) \in Requests /\ Latest(r).resume \in Requests \cup {None}
  BY <1>2, FirstProcess, SecondProcess
<1>4. threads' \subseteq Requests
  BY <1>1, <1>3, ThreadsType
<1>5. shared' \in {shared, None, r} /\ (shared' = r => ~Isolated(r))
  <2>1. CASE pc[r] = "codex"
    BY <1>1, <2>1, BridgeAssumption DEF Inv, SharedIsShared
  <2>2. CASE pc[r] = "retry"
    <3>1. Working(r) = r /\ ~Isolated(r) /\ shared = None
      BY <2>2, SecondProcess
    <3>2. run.thread \in {r, None}
      BY <1>3, <3>1, EndedProcess DEF Exits
    <3> QED
      BY <1>1, <3>1, <3>2 DEF Adopted
  <2> QED
    BY <1>2, <2>1, <2>2
<1> QED
  BY <1>2, <1>4, <1>5, LeaveStep DEF Holds

\* Writing the answer is the last step under the lock.
LEMMA WriteStep ==
  ASSUME Inv, NEW r \in Requests, Write(r)
  PROVE  Inv'
<1>1. /\ pc[r] = "write" /\ Leave(r) /\ reply' = [reply EXCEPT ![r] = None]
      /\ UNCHANGED <<shared, post, threads, restarts>>
      /\ written' \in {written, written \cup {r}}
      /\ warned' \in {warned, warned \cup {r}}
      /\ counted' \in {counted, [counted EXCEPT ![r] = @ + 1]}
  BY DEF Write, Ends, Inv, TypeOK
<1>2. shared' = r => ~Isolated(r)
  BY <1>1, BridgeAssumption DEF Inv, SharedIsShared
<1> QED
  BY <1>1, <1>2, LeaveStep DEF Holds, Inv, TypeOK

\* A restart forgets the conversation, the lock and every handler at once.
LEMMA RestartStep == Inv /\ Restart => Inv'
<1> SUFFICES ASSUME Inv, Restart PROVE Inv'
  OBVIOUS
<1>1. TypeOK'
  BY BridgeAssumption DEF Restart, Inv, TypeOK
<1>2. SharedIsShared'
  BY DEF Restart, SharedIsShared
<1>3. ASSUME NEW r \in Requests PROVE At(r)'
  BY <1>3 DEF Restart, Inv, At, OutsideAt, CodexAt, RetryAt, WriteAt, Holds
<1> QED
  BY <1>1, <1>2, <1>3 DEF Inv

\* Each answer is one of those AnswerOnce and AnswerTwice know.
LEMMA SucceedStep ==
  ASSUME Inv, NEW r \in Requests, Succeed(r)
  PROVE  Inv'
<1>1. PICK run \in Endings(r, "ok") :
        /\ Ended(r, run)
        /\ shared' = IF Isolated(r) THEN shared ELSE run.thread
        /\ Says(r, 200, run.thread, None, run.usage)
  BY DEF Succeed
<1>2. run \in CodexRun
  BY FirstProcess, EndedProcess DEF Succeed, Exits
<1> DEFINE answer == [code |-> 200, thread |-> run.thread, previous |-> None, usage |-> run.usage]
<1>3. answer \in Reply
  BY <1>2 DEF Reply, Codes, CodexRun
<1>4. answer.code = 200 /\ answer.previous = None /\ answer.thread = run.thread
  OBVIOUS
<1>5. reply' = [reply EXCEPT ![r] = answer] /\ Goes(r, "write") /\ pc[r] = "codex"
  BY <1>1 DEF Says, Succeed
<1>6. "ok" \in Exits
  BY DEF Exits
<1> HIDE DEF answer
<1>7. FirstAnswer(r, run, answer)
  BY <1>1, <1>4, <1>5 DEF FirstAnswer
<1> QED
  BY <1>3, <1>6, <1>7, AnswerOnce

\* What is refused has no usage.
LEMMA RefusalType ==
  ASSUME NEW r \in Requests, NEW code \in Codes, Refuses(r, code)
  PROVE  \E answer \in Reply :
           /\ answer.code = code /\ ~answer.usage
           /\ reply' = [reply EXCEPT ![r] = answer] /\ Goes(r, "write")
<1> DEFINE answer == [code |-> code, thread |-> None, previous |-> None, usage |-> FALSE]
<1>1. answer \in Reply
  BY DEF Reply
<1> QED
  BY <1>1 DEF Refuses, Says

\* The refusals after a first process leave the shared thread alone.
LEMMA RefusalStep ==
  ASSUME Inv, NEW r \in Requests, RefuseResume(r) \/ Limit(r) \/ Fail(r)
  PROVE  Inv'
<1>1. PICK exit \in {"limited", "failed"}, code \in {409, 429, 502} : \E run \in Endings(r, exit) :
        Ended(r, run) /\ Refuses(r, code) /\ UNCHANGED shared
  <2>1. CASE RefuseResume(r)
    BY <2>1 DEF RefuseResume
  <2>2. CASE Limit(r)
    BY <2>2 DEF Limit
  <2>3. CASE Fail(r)
    BY <2>3 DEF Fail
  <2> QED
    BY <2>1, <2>2, <2>3
<1>2. pc[r] = "codex"
  BY DEF RefuseResume, Limit, Fail
<1>3. code \in Codes /\ code # 200 /\ exit \in Exits
  BY DEF Codes, Exits
<1>4. PICK run \in Endings(r, exit) : Ended(r, run) /\ Refuses(r, code) /\ UNCHANGED shared
  BY <1>1
<1>5. PICK answer \in Reply :
        /\ answer.code = code /\ ~answer.usage
        /\ reply' = [reply EXCEPT ![r] = answer] /\ Goes(r, "write")
  BY <1>3, <1>4, RefusalType
<1>6. FirstAnswer(r, run, answer)
  BY <1>2, <1>3, <1>4, <1>5 DEF FirstAnswer
<1> QED
  BY <1>3, <1>6, AnswerOnce

\* The answer after a second process that succeeded.
LEMMA RetrySucceedStep ==
  ASSUME Inv, NEW r \in Requests, RetrySucceed(r)
  PROVE  Inv'
<1>1. PICK run \in Endings(r, "ok") :
        /\ RetryEnded(r, run)
        /\ shared' = Adopted(run)
        /\ Says(r, 200, Adopted(run), runs[r][1].resume, run.usage)
  BY DEF RetrySucceed
<1>2. pc[r] = "retry" /\ shared = None /\ runs[r][1] = Lost(r)
      /\ Latest(r).resume = None /\ Working(r) = r
  BY SecondProcess DEF RetrySucceed
<1>3. run \in CodexRun
  BY <1>2, EndedProcess DEF Exits
<1>4. Adopted(run) = run.thread /\ runs[r][1].resume = seen[r]
  BY <1>2 DEF Adopted, Lost, Failed
<1> DEFINE answer ==
      [code |-> 200, thread |-> run.thread, previous |-> seen[r], usage |-> run.usage]
<1>5. answer \in Reply
  BY <1>3 DEF Reply, Codes, CodexRun, Inv, TypeOK
<1>6. answer.code = 200 /\ answer.previous = seen[r] /\ answer.thread = run.thread
  OBVIOUS
<1>7. reply' = [reply EXCEPT ![r] = answer] /\ Goes(r, "write")
  BY <1>1, <1>4 DEF Says
<1>8. "ok" \in Exits
  BY DEF Exits
<1> HIDE DEF answer
<1>9. SecondAnswer(r, run, answer)
  BY <1>1, <1>2, <1>6, <1>7 DEF SecondAnswer
<1> QED
  BY <1>5, <1>8, <1>9, AnswerTwice

\* The refusal after a second process that failed.
LEMMA RetryFailStep ==
  ASSUME Inv, NEW r \in Requests, RetryFail(r)
  PROVE  Inv'
<1>1. PICK exit \in {"limited", "failed"} : \E run \in Endings(r, exit) :
        RetryEnded(r, run) /\ shared' = Adopted(run) /\ Refuses(r, 502)
  BY DEF RetryFail
<1>2. PICK run \in Endings(r, exit) :
        RetryEnded(r, run) /\ shared' = Adopted(run) /\ Refuses(r, 502)
  BY <1>1
<1>3. pc[r] = "retry" /\ 502 \in Codes /\ exit \in Exits
  BY DEF RetryFail, Codes, Exits
<1>4. PICK answer \in Reply :
        /\ answer.code = 502 /\ ~answer.usage
        /\ reply' = [reply EXCEPT ![r] = answer] /\ Goes(r, "write")
  BY <1>2, <1>3, RefusalType
<1>5. SecondAnswer(r, run, answer)
  BY <1>2, <1>3, <1>4 DEF SecondAnswer
<1> QED
  BY <1>3, <1>5, AnswerTwice

\* The invariant is inductive.
LEMMA InvStep == Inv /\ [Next]_vars => Inv'
<1> SUFFICES ASSUME Inv, [Next]_vars PROVE Inv'
  OBVIOUS
<1>1. ASSUME NEW r \in Requests, Send(r) \/ Reset(r) \/ Enter(r) \/ Succeed(r) PROVE Inv'
  BY <1>1, SendStep, ResetStep, EnterStep, SucceedStep
<1>2. ASSUME NEW r \in Requests, RefuseResume(r) \/ Limit(r) \/ Fail(r) PROVE Inv'
  BY <1>2, RefusalStep
<1>3. ASSUME NEW r \in Requests, Retry(r) \/ RetrySucceed(r) \/ RetryFail(r) PROVE Inv'
  BY <1>3, RetryStep, RetrySucceedStep, RetryFailStep
<1>4. ASSUME NEW r \in Requests, Raise(r) \/ Write(r) PROVE Inv'
  BY <1>4, RaiseStep, WriteStep
<1>5. CASE Restart
  BY <1>5, RestartStep
<1>6. CASE UNCHANGED vars
  BY <1>6 DEF vars, Inv, TypeOK, SharedIsShared, Isolated, At, OutsideAt, CodexAt, RetryAt,
     WriteAt, Holds, OnceAt, TwiceAt, Resume, Started, Lost
<1> QED
  BY <1>1, <1>2, <1>3, <1>4, <1>5, <1>6 DEF Next, Handler, AllServed

\* And holds in every reachable state.
LEMMA InvHolds == Spec => []Inv
BY InvInit, InvStep, PTL DEF Spec

----------------------------------------------------------------------------
(* The theorems.                                                           *)

\* The state of the bridge is well typed: no request is counted twice.
THEOREM TypeCorrect == Spec => []TypeOK
<1>1. Inv => TypeOK
  BY DEF Inv
<1> QED
  BY <1>1, InvHolds, PTL

\* However many handlers there are, one codex process runs at a time.
THEOREM CodexExcludes == Spec => []OneCodexAtATime
<1>1. Inv => OneCodexAtATime
  BY DEF Inv, At, OutsideAt, Holds, OneCodexAtATime, InCodex
<1> QED
  BY <1>1, InvHolds, PTL

\* The shared conversation is never one that an isolated request started.
THEOREM SharedStaysShared == Spec => []SharedIsShared
<1>1. Inv => SharedIsShared
  BY DEF Inv
<1> QED
  BY <1>1, InvHolds, PTL

\* The shared thread stays what a handler found under the lock.
THEOREM ThreadIsHeldStill == Spec => []ThreadHeldStill
<1>1. ASSUME Inv, NEW r \in Requests, pc[r] = "codex" PROVE shared = seen[r]
  BY <1>1, FirstProcess
<1>2. ASSUME Inv, NEW r \in Requests, pc[r] = "write", Isolated(r) \/ reply[r].code = 429
      PROVE shared = seen[r]
  BY <1>2 DEF Inv, At, WriteAt, OnceAt, TwiceAt
<1>3. Inv => ThreadHeldStill
  BY <1>1, <1>2 DEF ThreadHeldStill
<1> QED
  BY <1>3, InvHolds, PTL

\* The processes of a request about to answer: one, or a lost one and another.
LEMMA WritingAfter ==
  ASSUME Inv, NEW r \in Requests, pc[r] = "write"
  PROVE  \E run \in CodexRun :
           /\ Latest(r) = run
           /\ reply[r].code = 200 => reply[r].thread = run.thread
           /\ \/ OnceAt(r, run) /\ Len(runs[r]) = 1
              \/ TwiceAt(r, run) /\ Len(runs[r]) = 2 /\ runs[r][1] = Lost(r) /\ runs[r][2] = run
<1>1. PICK run \in CodexRun :
        /\ OnceAt(r, run) \/ TwiceAt(r, run)
        /\ reply[r].code = 200 => reply[r].thread = run.thread
  BY DEF Inv, At, WriteAt
<1>2. CASE OnceAt(r, run)
  BY <1>1, <1>2, OneRun DEF OnceAt, Latest
<1>3. CASE TwiceAt(r, run)
  BY <1>1, <1>3, TwoRuns, RunType DEF TwiceAt, Latest
<1> QED
  BY <1>1, <1>2, <1>3

\* An answer names the thread its own process ran in, and the one that was given up.
THEOREM AnswersNameTheirThread == Spec => []AnswerNamesItsThread
<1>1. ASSUME Inv, NEW r \in Requests, pc[r] = "write", reply[r].code = 200
      PROVE /\ reply[r].thread = Latest(r).thread
            /\ reply[r].previous = IF Len(runs[r]) = 2 THEN seen[r] ELSE None
            /\ post[r].thread # None => Latest(r).resume = post[r].thread
  BY <1>1, WritingAfter DEF OnceAt, TwiceAt, Isolated
<1>2. Inv => AnswerNamesItsThread
  BY <1>1 DEF AnswerNamesItsThread
<1> QED
  BY <1>2, InvHolds, PTL

\* A prompt is run again only when the shared conversation could not be resumed.
THEOREM RetriesOnlyTheLost == Spec => []RetriedOnlyWhenLost
<1> DEFINE Once(r) == Len(runs[r]) <= 1
           Again(r) == /\ Len(runs[r]) = 2 /\ ~Isolated(r) /\ seen[r] # None
                       /\ runs[r][1] = Lost(r) /\ runs[r][2].resume = None
<1>1. ASSUME Inv, NEW r \in Requests PROVE Once(r) \/ Again(r)
  <2>1. CASE ~Holds(r)
    BY <1>1, <2>1 DEF Inv, At, OutsideAt
  <2>2. CASE pc[r] = "codex"
    <3>1. runs[r] = <<Started(Resume(r, shared))>>
      BY <1>1, <2>2, FirstProcess
    <3> QED
      BY <1>1, <2>2, <3>1, FirstProcess, RunType, OneRun
  <2>3. CASE pc[r] = "retry"
    <3>1. runs[r] = <<Lost(r), Started(None)>> /\ ~Isolated(r) /\ seen[r] # None
      BY <1>1, <2>3, SecondProcess
    <3>2. Started(None).resume = None
      BY DEF Started
    <3> QED
      BY <1>1, <3>1, <3>2, RunType, TwoRuns
  <2>4. CASE pc[r] = "write"
    <3>1. PICK run \in CodexRun : OnceAt(r, run) \/ TwiceAt(r, run)
      BY <1>1, <2>4 DEF Inv, At, WriteAt
    <3>2. CASE OnceAt(r, run)
      BY <3>1, <3>2, OneRun DEF OnceAt
    <3>3. CASE TwiceAt(r, run)
      BY <1>1, <3>1, <3>3, TwoRuns, RunType DEF TwiceAt
    <3> QED
      BY <3>1, <3>2, <3>3
  <2> QED
    BY <2>1, <2>2, <2>3, <2>4 DEF Holds
<1>2. \A r \in Requests : Lost(r).exit = "failed" /\ Lost(r).resume = seen[r]
  BY DEF Lost, Failed
<1>3. ASSUME Inv PROVE \A r \in Requests : Len(runs[r]) \in Nat
  BY <1>3 DEF Inv, TypeOK
<1>4. Inv => RetriedOnlyWhenLost
  BY <1>1, <1>2, <1>3 DEF RetriedOnlyWhenLost
<1> QED
  BY <1>4, InvHolds, PTL

\* A usage is on record once if its answer was written, or is known to be missing.
THEOREM UsageIsCounted == Spec => AnswersAreCounted
<1>1. ASSUME Inv, NEW r \in Requests, Write(r) PROVE Tallies
  <2>1. counted[r] = 0 /\ r \notin warned /\ (reply[r].usage => reply[r].code = 200)
        /\ counted \in [Requests -> 0..1] /\ reply[r].usage \in BOOLEAN
    BY <1>1 DEF Inv, TypeOK, At, OutsideAt, WriteAt, Write, Reply
  <2>2. written' \in {written, written \cup {r}} /\ warned' \in {warned, warned \cup {r}}
        /\ \A s \in Requests \ {r} : counted'[s] = counted[s]
    BY <1>1, <2>1 DEF Write
  <2>3. /\ r \in written' \ written =>
             (counted'[r] = 1 <=> reply[r].usage /\ r \notin warned')
        /\ counted'[r] # counted[r] \/ r \in warned' \ warned =>
             reply[r].code = 200 /\ r \in written'
    BY <1>1, <2>1 DEF Write
  <2> QED
    BY <2>2, <2>3 DEF Tallies
<1>2. UNCHANGED <<written, counted, warned>> => Tallies
  BY DEF Tallies
<1>3. ASSUME NEW r \in Requests, Send(r) \/ Reset(r) \/ Enter(r) \/ Succeed(r) \/ RefuseResume(r)
             \/ Limit(r) \/ Fail(r) \/ Retry(r) \/ RetrySucceed(r) \/ RetryFail(r) \/ Raise(r)
      PROVE UNCHANGED <<written, counted, warned>>
  BY <1>3 DEF Send, Reset, Enter, Succeed, RefuseResume, Limit, Fail, Retry, RetrySucceed,
     RetryFail, Raise, Ended, RetryEnded
<1>4. Restart \/ UNCHANGED vars => UNCHANGED <<written, counted, warned>>
  BY DEF Restart, vars
<1>5. Inv /\ [Next]_vars => Tallies
  BY <1>1, <1>2, <1>3, <1>4 DEF Next, Handler, AllServed
<1> QED
  BY <1>5, InvHolds, PTL DEF Spec, AnswersAreCounted
=============================================================================
