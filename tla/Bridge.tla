------------------------------- MODULE Bridge -------------------------------
(***************************************************************************)
(* The Codex bridge (bridge.py): an HTTP server that gives every request a *)
(* thread of its own and runs one codex process per prompt under           *)
(* `codex_lock`.  It keeps a single conversation, `server.thread_id`, that *)
(* plain prompts resume and replace.  A prompt that names a thread, or asks *)
(* for a fresh one, is isolated: it has nothing to do with that one.       *)
(*                                                                         *)
(* A client (ask.sh) may hang up at any moment; the handler of its request *)
(* works on.  A codex thread is named by the request whose process started *)
(* it; a request starts at most one.                                       *)
(***************************************************************************)
EXTENDS Naturals, Sequences, FiniteSets

CONSTANTS
  Requests,     \* HTTP requests
  Bodies,       \* what a client may post
  MaxRestarts,  \* bound on restarts of the bridge
  None

\* POST /reset, or POST /prompt with its three optional fields.
Posts == [path : {"prompt", "reset"}, reset : BOOLEAN, fresh : BOOLEAN,
          thread : Requests \cup {None}]

ASSUME BridgeAssumption ==
  /\ Bodies \subseteq Posts
  /\ MaxRestarts \in Nat
  /\ None \notin Requests \cup Bodies

VARIABLES
  shared,    \* server.thread_id
  holder,    \* codex_lock
  pc,        \* the step of each handler
  post,      \* what each client posted
  seen,      \* the shared thread as the request found it under the lock
  runs,      \* the codex processes run for each request, in order
  reply,     \* what the handler answers
  written,   \* requests whose answer was written
  threads,   \* the threads codex has on disk
  counted,   \* lines of usage.jsonl per request
  warned,    \* requests whose usage could not be logged, and which said so
  restarts   \* restarts so far

vars == <<shared, holder, pc, post, seen, runs, reply, written, threads, counted, warned, restarts>>

Exits   == {"running", "ok", "limited", "failed", "raised"}
CodexRun == [resume : Requests \cup {None}, exit : Exits,
             thread : Requests \cup {None}, usage : BOOLEAN]
Codes   == {200, 409, 429, 502}
Reply   == [code : Codes, thread : Requests \cup {None},
            previous : Requests \cup {None}, usage : BOOLEAN]

TypeOK ==
  /\ shared \in Requests \cup {None}
  /\ holder \in Requests \cup {None}
  /\ pc \in [Requests -> {"idle", "queued", "codex", "retry", "write", "done"}]
  /\ post \in [Requests -> Posts \cup {None}]
  /\ seen \in [Requests -> Requests \cup {None}]
  /\ runs \in [Requests -> Seq(CodexRun)]
  /\ reply \in [Requests -> Reply \cup {None}]
  /\ written \subseteq Requests
  /\ threads \subseteq Requests
  /\ counted \in [Requests -> 0..1]
  /\ warned \subseteq Requests
  /\ restarts \in 0..MaxRestarts

Init ==
  /\ shared = None
  /\ holder = None
  /\ pc = [r \in Requests |-> "idle"]
  /\ post = [r \in Requests |-> None]
  /\ seen = [r \in Requests |-> None]
  /\ runs = [r \in Requests |-> <<>>]
  /\ reply = [r \in Requests |-> None]
  /\ written = {}
  /\ threads = {}
  /\ counted = [r \in Requests |-> 0]
  /\ warned = {}
  /\ restarts = 0

----------------------------------------------------------------------------
(* What a body asks for.                                                   *)

Isolated(r) == post[r].thread # None \/ post[r].fresh

Contradictory(q) ==
  \/ q.thread # None /\ q.fresh
  \/ q.reset /\ (q.thread # None \/ q.fresh)

\* The thread a command resumes, given the shared one.
Resume(r, thread) ==
  IF Isolated(r) THEN post[r].thread
  ELSE IF post[r].reset THEN None ELSE thread

Latest(r) == runs[r][Len(runs[r])]

----------------------------------------------------------------------------
(* codex, as the bridge uses it: a process that ends within the timeout of *)
(* subprocess.run, or is killed by it.  The thread.started event may be    *)
(* missing from its output, and so may the usage.                          *)

Started(thread) == [resume |-> thread, exit |-> "running", thread |-> None, usage |-> FALSE]

\* One that was given up: what it said of its thread is not looked at again.
Failed(thread) == [resume |-> thread, exit |-> "failed", thread |-> None, usage |-> FALSE]

\* The thread a process works on: the one it resumes, or a new one.
Working(r) == IF Latest(r).resume = None THEN r ELSE Latest(r).resume

\* What the bridge may see of a process that ends this way.
Endings(r, exit) ==
  [resume : {Latest(r).resume}, exit : {exit}, thread : {Working(r), None},
   usage : IF exit = "ok" THEN BOOLEAN ELSE {FALSE}]

CodexEnds(r, run) ==
  \E ran \in BOOLEAN :
    /\ ran => run.resume \in threads \cup {None}
    /\ run.exit = "ok" \/ run.thread # None => ran
    /\ threads' = IF ran THEN threads \cup {Working(r)} ELSE threads

----------------------------------------------------------------------------
(* handle_prompt and handle_reset.  An answer that is written outside the  *)
(* lock touches nothing: its handler is done when it leaves.               *)

Goes(r, step) == pc' = [pc EXCEPT ![r] = step]

Leave(r) ==
  /\ Goes(r, "done")
  /\ holder' = None
  /\ seen' = [seen EXCEPT ![r] = None]
  /\ runs' = [runs EXCEPT ![r] = <<>>]

\* An answer decided on, to be written under the lock.
Says(r, code, thread, previous, usage) ==
  /\ reply' = [reply EXCEPT ![r] = [code |-> code, thread |-> thread,
                                    previous |-> previous, usage |-> usage]]
  /\ Goes(r, "write")
Refuses(r, code) == Says(r, code, None, None, FALSE)

\* What the validation refuses is answered 400 before the lock.
Send(r) ==
  /\ pc[r] = "idle"
  /\ \E q \in Bodies :
       /\ post' = [post EXCEPT ![r] = q]
       /\ Goes(r, IF Contradictory(q) THEN "done" ELSE "queued")
  /\ UNCHANGED <<shared, holder, seen, runs, reply, written, threads, counted, warned, restarts>>

\* The reset handler without the lock.
ResetAnyTime(r) ==
  /\ pc[r] = "queued"
  /\ post[r].path = "reset"
  /\ shared' = None
  /\ Goes(r, "done")
  /\ UNCHANGED <<holder, post, seen, runs, reply, written, threads, counted, warned, restarts>>

\* POST /reset: the lock is taken for the assignment alone.
Reset(r) ==
  /\ pc[r] = "queued"
  /\ post[r].path = "reset"
  /\ holder = None
  /\ shared' = None
  /\ Goes(r, "done")
  /\ UNCHANGED <<holder, post, seen, runs, reply, written, threads, counted, warned, restarts>>

\* Two processes at a time.
EnterAnyTime(r) ==
  /\ pc[r] = "queued"
  /\ post[r].path = "prompt"
  /\ shared' = IF post[r].reset /\ ~Isolated(r) THEN None ELSE shared
  /\ seen' = [seen EXCEPT ![r] = shared']
  /\ holder' = r
  /\ runs' = [runs EXCEPT ![r] = <<Started(Resume(r, shared'))>>]
  /\ Goes(r, "codex")
  /\ UNCHANGED <<reply, post, written, threads, counted, warned, restarts>>

\* The lock is taken, a reset honoured, the command built and codex started; or
\* the temporary file or the executable is missing, and 500 is the answer.
Enter(r) ==
  /\ pc[r] = "queued"
  /\ post[r].path = "prompt"
  /\ holder = None
  /\ shared' = IF post[r].reset /\ ~Isolated(r) THEN None ELSE shared
  /\ \/ /\ holder' = r
        /\ seen' = [seen EXCEPT ![r] = shared']
        /\ runs' = [runs EXCEPT ![r] = <<Started(Resume(r, shared'))>>]
        /\ Goes(r, "codex")
     \/ /\ Goes(r, "done")
        /\ UNCHANGED <<holder, seen, runs>>
  /\ UNCHANGED <<post, reply, written, threads, counted, warned, restarts>>

\* The process of a first attempt ends, and its output is read into locals.
Ended(r, run) ==
  /\ CodexEnds(r, run)
  /\ runs' = [runs EXCEPT ![r] = <<run>>]
  /\ UNCHANGED <<holder, post, seen, written, counted, warned, restarts>>

\* The thread observed is stored whoever asked.
SucceedStoring(r) ==
  /\ pc[r] = "codex"
  /\ \E run \in Endings(r, "ok") :
       /\ Ended(r, run)
       /\ shared' = run.thread
       /\ Says(r, 200, run.thread, None, run.usage)

\* The answer reads the server's thread instead of the one observed.
SucceedReadingShared(r) ==
  /\ pc[r] = "codex"
  /\ \E run \in Endings(r, "ok") :
       /\ Ended(r, run)
       /\ shared' = IF Isolated(r) THEN shared ELSE run.thread
       /\ Says(r, 200, shared', None, run.usage)

\* Exit status 0: only a plain prompt replaces the shared thread.
Succeed(r) ==
  /\ pc[r] = "codex"
  /\ \E run \in Endings(r, "ok") :
       /\ Ended(r, run)
       /\ shared' = IF Isolated(r) THEN shared ELSE run.thread
       /\ Says(r, 200, run.thread, None, run.usage)

\* A named thread that cannot be resumed is never replaced by a fresh one.
RefuseResume(r) ==
  /\ pc[r] = "codex"
  /\ \E exit \in {"limited", "failed"} : \E run \in Endings(r, exit) :
       /\ Ended(r, run)
       /\ post[r].thread # None
       /\ Refuses(r, 409)
       /\ UNCHANGED shared

\* The shared conversation is there and this command resumed it.
ResumedShared(r) == shared # None /\ Latest(r).resume # None

Limit(r) ==
  /\ pc[r] = "codex"
  /\ \E run \in Endings(r, "limited") :
       /\ Ended(r, run)
       /\ post[r].thread = None
       /\ Refuses(r, 429)
       /\ UNCHANGED shared

Fail(r) ==
  /\ pc[r] = "codex"
  /\ \E run \in Endings(r, "failed") :
       /\ Ended(r, run)
       /\ post[r].thread = None
       /\ Isolated(r) \/ ~ResumedShared(r)
       /\ Refuses(r, 502)
       /\ UNCHANGED shared

\* Any resume that fails is tried again from nothing.
RetryAny(r) ==
  /\ pc[r] = "codex"
  /\ Latest(r).resume # None
  /\ shared' = IF Isolated(r) THEN shared ELSE None
  /\ runs' = [runs EXCEPT ![r] = << Failed(Latest(r).resume), Started(None) >>]
  /\ Goes(r, "retry")
  /\ UNCHANGED <<holder, seen, post, reply, written, threads, counted, warned, restarts>>

\* The shared conversation is given up and the prompt run again from nothing; or
\* the second temporary file or process is refused, and it stays given up.
Retry(r) ==
  /\ pc[r] = "codex"
  /\ ~Isolated(r) /\ ResumedShared(r)
  /\ shared' = None
  /\ \/ /\ runs' = [runs EXCEPT ![r] = << Failed(Latest(r).resume), Started(None) >>]
        /\ Goes(r, "retry")
        /\ UNCHANGED <<holder, seen>>
     \/ Leave(r)
  /\ UNCHANGED <<post, reply, written, threads, counted, warned, restarts>>

RetryEnded(r, run) ==
  /\ CodexEnds(r, run)
  /\ runs' = [runs EXCEPT ![r] = <<runs[r][1], run>>]
  /\ UNCHANGED <<holder, post, seen, written, counted, warned, restarts>>

\* The events of a second process are parsed into the server's thread itself,
\* before its exit status is looked at.
Adopted(run) == IF run.thread = None THEN shared ELSE run.thread

RetrySucceed(r) ==
  /\ pc[r] = "retry"
  /\ \E run \in Endings(r, "ok") :
       /\ RetryEnded(r, run)
       /\ shared' = Adopted(run)
       /\ Says(r, 200, Adopted(run), runs[r][1].resume, run.usage)

RetryFail(r) ==
  /\ pc[r] = "retry"
  /\ \E exit \in {"limited", "failed"} : \E run \in Endings(r, exit) :
       /\ RetryEnded(r, run)
       /\ shared' = Adopted(run)
       /\ Refuses(r, 502)

\* The timeout (504), or an exception while the events are parsed (500): the lock
\* is left first, and the answer touches nothing more.
Raise(r) ==
  /\ pc[r] \in {"codex", "retry"}
  /\ \E run \in Endings(r, "raised") :
       /\ CodexEnds(r, run)
       /\ shared' \in IF pc[r] = "retry" THEN {shared, Adopted(run)} ELSE {shared}
  /\ Leave(r)
  /\ UNCHANGED <<post, reply, written, counted, warned, restarts>>

Ends(r) == Leave(r) /\ reply' = [reply EXCEPT ![r] = None]

\* The usage of prompts of the shared conversation alone.
WriteSharedUsage(r) ==
  /\ pc[r] = "write"
  /\ Ends(r)
  /\ written' = written \cup {r}
  /\ counted' = [counted EXCEPT ![r] = IF reply[r].usage /\ ~Isolated(r) THEN @ + 1 ELSE @]
  /\ UNCHANGED <<shared, post, threads, warned, restarts>>

\* A write that raises leaves the lock taken.
WriteKeepingLock(r) ==
  /\ pc[r] = "write"
  /\ \/ /\ Ends(r)
        /\ written' = written \cup {r}
        /\ counted' = [counted EXCEPT ![r] = IF reply[r].usage THEN @ + 1 ELSE @]
     \/ Goes(r, "done") /\ UNCHANGED <<holder, seen, runs, reply, written, counted>>
  /\ UNCHANGED <<shared, post, threads, warned, restarts>>

\* The usage appended once per process that ran.
WriteEachRun(r) ==
  /\ pc[r] = "write"
  /\ Ends(r)
  /\ written' = written \cup {r}
  /\ counted' = [counted EXCEPT ![r] = IF reply[r].usage THEN @ + Len(runs[r]) ELSE @]
  /\ UNCHANGED <<shared, post, threads, warned, restarts>>

\* The answer is written and the usage of a 200 appended after it.  The client may
\* have hung up since it asked (curl --max-time): when the write raises, the usage is
\* lost with the answer.  When the append fails, or the look for the model in codex's
\* session log raises, the bridge says so on stderr or in a second answer.
Write(r) ==
  /\ pc[r] = "write"
  /\ Ends(r)
  /\ \/ /\ written' = written \cup {r}
        /\ counted' = [counted EXCEPT ![r] = IF reply[r].usage THEN @ + 1 ELSE @]
        /\ UNCHANGED warned
     \/ /\ reply[r].usage
        /\ written' = written \cup {r}
        /\ warned' = warned \cup {r}
        /\ UNCHANGED counted
     \/ UNCHANGED <<written, counted, warned>>
  /\ UNCHANGED <<shared, post, threads, restarts>>

\* The bridge is stopped and started again: its handlers die with it.
Restart ==
  /\ restarts < MaxRestarts
  /\ restarts' = restarts + 1
  /\ shared' = None
  /\ holder' = None
  /\ pc' = [r \in Requests |-> IF pc[r] = "idle" THEN "idle" ELSE "done"]
  /\ reply' = [r \in Requests |-> None]
  /\ seen' = [r \in Requests |-> None]
  /\ runs' = [r \in Requests |-> <<>>]
  /\ UNCHANGED <<post, written, threads, counted, warned>>

Handler(r) ==
  \/ Reset(r) \/ Enter(r)
  \/ Succeed(r) \/ RefuseResume(r) \/ Limit(r) \/ Fail(r)
  \/ Retry(r) \/ RetrySucceed(r) \/ RetryFail(r) \/ Raise(r)
  \/ Write(r)

AllServed == (\A r \in Requests : pc[r] = "done") /\ UNCHANGED vars

Next ==
  \/ \E r \in Requests : Send(r) \/ Handler(r)
  \/ Restart
  \/ AllServed

\* A handler runs on, and its one long wait is codex, bounded by the timeout of
\* subprocess.run.  Nobody is obliged to send, to hang up or to restart.
Fairness == \A r \in Requests : WF_vars(Handler(r))

Spec == Init /\ [][Next]_vars
FairSpec == Spec /\ Fairness

----------------------------------------------------------------------------
(* Properties.                                                             *)

InCodex(r) == pc[r] \in {"codex", "retry"}

\* `codex_lock` is what keeps two prompts from writing to one session at once:
\* no two handlers have a codex process running (handle_prompt, line 201).
OneCodexAtATime == \A r, s \in Requests : InCodex(r) /\ InCodex(s) => r = s

\* Contract C3: an isolated request neither reads nor writes the shared
\* conversation, so the thread it starts is never the one a plain prompt resumes,
\* nor the one GET /session shows, which reads it at any moment without the lock.
SharedIsShared == shared # None => post[shared] # None /\ ~Isolated(shared)

\* The thread a handler finds under the lock is there when its process ends: the
\* second look at it (line 317) sees what the first one saw, since a reset waits
\* for the lock.  It outlives an isolated request and a rate limit.
ThreadHeldStill ==
  \A r \in Requests :
    \/ pc[r] = "codex"
    \/ pc[r] = "write" /\ (Isolated(r) \/ reply[r].code = 429)
    => shared = seen[r]

\* An answer names the thread its own process ran in, and says that the session
\* was restarted, and which was given up, exactly when the prompt was run twice.
AnswerNamesItsThread ==
  \A r \in Requests :
    pc[r] = "write" /\ reply[r].code = 200 =>
      /\ reply[r].thread = Latest(r).thread
      /\ reply[r].previous = IF Len(runs[r]) = 2 THEN seen[r] ELSE None
      /\ post[r].thread # None => Latest(r).resume = post[r].thread

\* A prompt is run a second time only when the shared conversation could not be
\* resumed; never after a rate limit, and never for an isolated request, whose
\* caller would take another session for its own (FR-008).
RetriedOnlyWhenLost ==
  \A r \in Requests :
    Len(runs[r]) > 1 =>
      /\ Len(runs[r]) = 2 /\ ~Isolated(r)
      /\ runs[r][1].exit = "failed" /\ runs[r][1].resume = seen[r] /\ seen[r] # None
      /\ runs[r][2].resume = None

\* A step that writes an answer counts its usage or says that it could not.
Tallies ==
  \A r \in Requests :
    /\ r \in written' \ written =>
         (counted'[r] = 1 <=> reply[r].usage /\ r \notin warned')
    /\ counted'[r] # counted[r] \/ r \in warned' \ warned =>
         reply[r].code = 200 /\ r \in written'

\* The usage of an answer that was written is on record, once, whichever of the paths
\* it came by, or the bridge said that it is not; nothing else is on record.
AnswersAreCounted == [][Tallies]_vars

\* No handler waits for ever: the lock comes back after every outcome, timeouts and
\* hung up clients included.
RequestsEnd == \A r \in Requests : pc[r] = "queued" ~> pc[r] = "done"
=============================================================================
