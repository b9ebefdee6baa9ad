-------------------------------- MODULE Brief --------------------------------
(***************************************************************************)
(* One brief (pipeline.py): a worker extracts claims and a draft from a    *)
(* source, the verifier checks the quotes (verifier.py), a reviewer of     *)
(* another vendor judges the draft (reviewer.py), and on issues the worker *)
(* is asked again, a bounded number of times.  What the models answer is   *)
(* anything at all; governance may refuse any call, and any record of the  *)
(* ledger may be lost, those the brief writes itself in off mode, those    *)
(* the gateway writes for it and the binding of an output to its node.     *)
(*                                                                         *)
(* A draft, its claims and the report on them are named by the number of   *)
(* the call that produced them.                                            *)
(***************************************************************************)
EXTENDS Integers, Sequences

CONSTANTS
  Required,        \* providers with a command line of their own, in order
  Optional,        \* providers reached over http, in order
  MaxCorrections,  \* the argument max_corrections
  None

Elements(s) == {s[i] : i \in DOMAIN s}
Providers == Elements(Required) \cup Elements(Optional)

ASSUME BriefAssumption ==
  /\ Required \in Seq(Providers) /\ Optional \in Seq(Providers)
  /\ Elements(Required) \cap Elements(Optional) = {}
  /\ MaxCorrections \in Int
  /\ None \notin Providers /\ None \notin Nat

VARIABLES
  governed,    \* shadow or enforce, against off
  available,   \* the providers a probe found, which may be an hour old
  authorized,  \* the workspace may send to optional providers
  prefer,      \* the provider asked for, or None
  reviewing,   \* review_enabled
  pc,          \* start, work, review, done, or raised by an exception
  route,       \* the worker's provider
  calls,       \* every call of a model, in order
  node,        \* worker_node_id
  draft,       \* the draft at hand
  report,      \* the report at hand
  corrections,
  receipt,     \* what the receipt says
  missing,     \* the kinds of records of the ledger that failed, of any call
  result       \* the status, draft and report handed back

settings == <<governed, available, authorized, prefer, reviewing>>
vars == <<settings, pc, route, calls, node, draft, report, corrections, receipt, missing, result>>

Bound == IF MaxCorrections > 0 THEN MaxCorrections ELSE 0

\* The writes of ledger.py: the two records of a call, and the hash of its output.
Writes == {"dispatch", "return", "output"}

\* What a call came to.  "malformed" is JSON that raises, by its shape or by a draft
\* that cannot be encoded.
Broken == [is : {"paused", "failed", "unparsed", "malformed"}]
Malformed == [is |-> "malformed"]
Extract == [is : {"json"}, passed : BOOLEAN, empty : BOOLEAN, bad : BOOLEAN, uncited : BOOLEAN]
Verdicts == [is : {"json"}, bools : BOOLEAN, covers : BOOLEAN, agrees : BOOLEAN, omissions : BOOLEAN]

Call == [kind : {"extract", "review"}, provider : Providers, of : Nat,
         answer : Broken \cup Extract \cup Verdicts]

Reviews == {"not-run", "draft_missing", "uncited_draft", "disabled", "pass", "issues", "invalid",
            "unparsed", "paused", "failed", "blocked", "no_other_vendor", "same_vendor"}
Receipt == [review : Reviews, human : BOOLEAN, uncited : BOOLEAN, error : BOOLEAN]
Statuses == {"blocked", "returned", "paused", "failed", "needs-review", "verified"}

TypeOK ==
  /\ governed \in BOOLEAN /\ authorized \in BOOLEAN /\ reviewing \in BOOLEAN
  /\ available \subseteq Providers
  /\ prefer \in Providers \cup {None}
  /\ pc \in {"start", "work", "review", "done", "raised"}
  /\ route \in Providers \cup {None}
  /\ calls \in Seq(Call)
  /\ {node, draft, report} \subseteq 0..Len(calls)
  /\ corrections \in 0..Bound
  /\ receipt \in Receipt
  /\ missing \subseteq Writes
  /\ result = None \/ result \in [status : Statuses, draft : 0..Len(calls), report : 0..Len(calls)]

Init ==
  /\ governed \in BOOLEAN /\ authorized \in BOOLEAN /\ reviewing \in BOOLEAN
  /\ available \in SUBSET Providers
  /\ prefer \in Providers \cup {None}
  /\ pc = "start"
  /\ route = None
  /\ calls = <<>>
  /\ node = 0 /\ draft = 0 /\ report = 0
  /\ corrections = 0
  /\ receipt = [review |-> "not-run", human |-> TRUE, uncited |-> FALSE, error |-> FALSE]
  /\ missing = {}
  /\ result = None

----------------------------------------------------------------------------
(* router.py: the first eligible provider, the preferred one before all.   *)

\* Optional providers get what the workspace allows, and never a review.
Eligible(task, exclude, p) ==
  /\ p \in available /\ p # exclude
  /\ p \in Elements(Optional) => authorized /\ task = "extract"

PickModel(task, exclude, first) ==
  LET order == Required \o Optional
      able == {i \in DOMAIN order : Eligible(task, exclude, order[i])}
  IN IF first # None /\ Eligible(task, exclude, first) THEN first
     ELSE IF able = {} THEN None
     ELSE order[CHOOSE i \in able : \A j \in able : i <= j]

----------------------------------------------------------------------------
(* What the brief makes of an answer.                                      *)

\* _process_worker_result: the claims must all be quotes of the source and the
\* draft must not be empty nor cite a paragraph no claim is anchored in; an uncited
\* sentence keeps the draft for a review, whatever was said of its citations.
Processed(answer) ==
  IF answer.is \in {"paused", "failed"} THEN answer.is
  ELSE IF answer.is = "unparsed" THEN "returned"
  ELSE IF ~answer.passed \/ answer.empty THEN "returned"
  ELSE IF answer.uncited \/ ~answer.bad THEN "needs-review"
  ELSE "returned"

\* The keys a result puts into the receipt, after those on citations were taken out; a
\* call that did not return leaves the rest.
Noted(answer) ==
  LET checked == answer.passed /\ ~answer.empty
  IN IF answer \in Broken
     THEN [receipt EXCEPT !.uncited = FALSE,
                          !.review = IF answer.is = "unparsed" THEN "not-run" ELSE @]
     ELSE [receipt EXCEPT !.human = TRUE,
                          !.uncited = checked /\ answer.uncited,
                          !.review = IF answer.passed /\ answer.empty THEN "draft_missing"
                                     ELSE IF checked /\ answer.bad THEN "uncited_draft"
                                     ELSE "not-run"]

\* The structure of the verdicts is judged before what they say.
Judged(answer) ==
  IF answer \in Broken THEN answer.is
  ELSE IF ~answer.bools \/ ~answer.covers THEN "invalid"
  ELSE IF answer.agrees /\ ~answer.omissions THEN "ok" ELSE "issues"

----------------------------------------------------------------------------
(* brief.                                                                  *)

End(status, d, r, note) ==
  /\ pc' = "done"
  /\ result' = [status |-> status, draft |-> d, report |-> r]
  /\ receipt' = note
  /\ draft' = d /\ report' = r

Goes(step, note) == pc' = step /\ receipt' = note /\ UNCHANGED result

\* No eligible route, or one the pipeline has no command for.
Start ==
  /\ pc = "start"
  /\ LET pick == PickModel("extract", None, prefer)
     IN /\ route' = pick
        /\ IF pick \in Elements(Required)
           THEN Goes("work", receipt) /\ UNCHANGED <<draft, report>>
           ELSE End("blocked", 0, 0, receipt)
  /\ UNCHANGED <<settings, calls, node, corrections, missing>>

Extracted(answer) == answer \notin Broken \/ answer.is = "unparsed"

\* What may fail of the writes about a call.  The gateway binds the output of a worker
\* and of a reviewer, unless the call failed; in any mode the brief binds what it takes
\* for a draft, be it of blanks.
Fallible(kind, answer) ==
  IF (governed /\ answer.is # "failed") \/ (kind = "extract" /\ Extracted(answer))
  THEN Writes ELSE Writes \ {"output"}

\* The last call alone decides what the receipt says.
RecordedLast(kind, answer, note) ==
  \E failed \in SUBSET Fallible(kind, answer) :
    /\ missing' = missing \cup failed
    /\ note.error = (~governed /\ failed \cap {"dispatch", "return"} # {})

\* The writes about a call, each of which may fail.  In off mode the receipt says so of
\* a dispatch or a return; _bind_output ignores the answer of record_output, and the
\* gateway those of all three.
Recorded(kind, answer, note) ==
  \E failed \in SUBSET Fallible(kind, answer) :
    /\ missing' = missing \cup failed
    /\ note.error = (receipt.error \/ (~governed /\ failed \cap {"dispatch", "return"} # {}))

Made(kind, provider, answer) ==
  calls' = Append(calls, [kind |-> kind, provider |-> provider, of |-> node, answer |-> answer])

\* The report of the last attempt, whatever came of it.
LastReport(answer, me) == IF answer \in Broken THEN 0 ELSE me

\* The draft and the report at hand: a call that paused or failed leaves those before
\* it, one that cannot be parsed is a draft without a report.
DraftAfter(answer, me) == IF Extracted(answer) THEN me ELSE draft
ReportAfter(answer, me) ==
  IF answer \notin Broken THEN me ELSE IF answer.is = "unparsed" THEN 0 ELSE report

\* The node of the first worker stays the parent of all that follows.
FirstNode(me) == IF node = 0 THEN me ELSE node

\* The node of a correction is the parent of what follows it.
NodeAfter(me) == me

\* A call of the worker, the first or a correction, and what is made of its answer.
\* A correction that paused or failed hands back the draft and report before it.
Work ==
  /\ pc = "work"
  /\ \E answer \in (Broken \ {Malformed}) \cup Extract, error \in BOOLEAN :
       LET me == Len(calls) + 1
           status == Processed(answer)
           note == [Noted(answer) EXCEPT !.error = error]
           d == DraftAfter(answer, me)
           r == ReportAfter(answer, me)
       IN /\ Made("extract", route, answer)
          /\ Recorded("extract", answer, note)
          /\ node' = NodeAfter(me)
          /\ IF status # "needs-review" THEN End(status, d, r, note)
             ELSE IF ~reviewing THEN End("returned", d, r, [note EXCEPT !.review = "disabled"])
             ELSE Goes("review", note) /\ draft' = d /\ report' = r
  /\ UNCHANGED <<settings, route, corrections>>

\* The worker's JSON has a shape that verify or check_draft raises on.
WorkRaises ==
  /\ pc = "work"
  /\ Made("extract", route, Malformed)
  /\ \E failed \in SUBSET Fallible("extract", Malformed) : missing' = missing \cup failed
  /\ Goes("raised", receipt)
  /\ UNCHANGED <<settings, route, node, draft, report, corrections>>

\* The gateway refuses the call: no draft is handed back.
WorkRefused ==
  /\ pc = "work"
  /\ governed
  /\ End("blocked", 0, 0, receipt)
  /\ UNCHANGED <<settings, route, calls, node, corrections, missing>>

Reviewer == PickModel("review", route, None)

FinalStatusUncapped(note) == "verified"

\* An uncited sentence caps the status, whatever the reviewer says.
FinalStatus(note) == IF note.uncited THEN "needs-review" ELSE "verified"

\* One correction more than allowed.
MayCorrectAgain == corrections <= Bound

MayCorrect == corrections < Bound

\* What the brief does with a review.
Conclude(status, note) ==
  CASE status = "ok" ->
         /\ LET done == [note EXCEPT !.review = "pass", !.human = FALSE]
            IN End(FinalStatus(done), draft, report, done)
         /\ UNCHANGED corrections
    [] status = "issues" /\ MayCorrect ->
         /\ corrections' = corrections + 1
         /\ Goes("work", note)
         /\ UNCHANGED <<draft, report>>
    [] status = "issues" /\ ~MayCorrect ->
         /\ End("needs-review", draft, report, [note EXCEPT !.review = "issues"])
         /\ UNCHANGED corrections
    [] OTHER ->
         /\ End("returned", draft, report, [note EXCEPT !.review = status])
         /\ UNCHANGED corrections

\* A provider other than the worker's is asked about the draft at hand.
Review ==
  /\ pc = "review"
  /\ Reviewer # None
  /\ \E answer \in (Broken \ {Malformed}) \cup Verdicts, error \in BOOLEAN :
       LET note == [receipt EXCEPT !.error = error]
       IN /\ Made("review", Reviewer, answer)
          /\ Recorded("review", answer, note)
          /\ Conclude(Judged(answer), note)
  /\ UNCHANGED <<settings, route, node>>

\* A verdict that is no object raises before it is judged invalid; in off mode the
\* return of the call is then not recorded.
ReviewRaises ==
  /\ pc = "review"
  /\ Reviewer # None
  /\ Made("review", Reviewer, Malformed)
  /\ \E failed \in SUBSET Fallible("review", Malformed) :
       missing' = missing \cup failed \cup (IF governed THEN {} ELSE {"return"})
  /\ Goes("raised", receipt)
  /\ UNCHANGED <<settings, route, node, draft, report, corrections>>

\* Nobody of another vendor is there, or the gateway refuses the call.
NoReview ==
  /\ pc = "review"
  /\ IF Reviewer = None THEN Conclude("no_other_vendor", receipt)
     ELSE governed /\ Conclude("blocked", receipt)
  /\ UNCHANGED <<settings, route, calls, node, missing>>

Ended == pc \in {"done", "raised"} /\ UNCHANGED vars

Next ==
  \/ Start
  \/ Work \/ WorkRaises \/ WorkRefused
  \/ Review \/ ReviewRaises \/ NoReview
  \/ Ended

Spec == Init /\ [][Next]_vars

----------------------------------------------------------------------------
(* Properties.                                                             *)

LastCall == calls[Len(calls)]

\* Nobody is told that a draft needs no human decision unless a reviewer of another
\* vendor found nothing in that very draft; and "verified" says besides that all its
\* claims are quotes and all its sentences cite, however many drafts came before.
VerifiedIsEarned ==
  result # None =>
    /\ ~receipt.human =>
         /\ LastCall.kind = "review" /\ Judged(LastCall.answer) = "ok"
         /\ LastCall.of = result.draft /\ LastCall.provider # calls[result.draft].provider
    /\ result.status = "verified" =>
         /\ ~receipt.human
         /\ calls[result.draft].answer =
              [is |-> "json", passed |-> TRUE, empty |-> FALSE, bad |-> FALSE, uncited |-> FALSE]

\* What is handed back is one draft: the last that was written, with the report on it
\* and no other, also when a correction pauses, fails or cannot be parsed.
ResultIsOneDraft ==
  result # None /\ result.status # "blocked" =>
    LET d == result.draft
    IN /\ \A i \in DOMAIN calls : calls[i].kind = "extract" /\ Extracted(calls[i].answer) => i <= d
       /\ d # 0 => calls[d].kind = "extract" /\ Extracted(calls[d].answer)
       /\ result.report = IF d # 0 /\ calls[d].answer \notin Broken THEN d ELSE 0

\* In the ledger a review hangs from the draft it judges, which passed the verifier,
\* and a correction from the draft it corrects, which a review found issues in; and
\* there are no more corrections than the caller allowed.
CallsFormAChain ==
  \A i \in DOMAIN calls :
    LET call == calls[i]
    IN /\ call.of = IF i = 1 THEN 0 ELSE IF call.kind = "review" THEN i - 1 ELSE i - 2
       /\ call.kind = "review" =>
            /\ i > 1 /\ calls[i - 1].kind = "extract" /\ Processed(calls[i - 1].answer) = "needs-review"
            /\ calls[i - 1].provider # call.provider
       /\ call.kind = "extract" /\ i > 1 =>
            calls[i - 1].kind = "review" /\ Judged(calls[i - 1].answer) = "issues"
       /\ i <= 2 * (Bound + 1)

\* In off mode the receipt says that the ledger failed if and only if the dispatch or
\* the return of some call, of a review or a correction as of the first, was not
\* recorded, however often the receipt was rebuilt since.  Of an output that was not
\* bound to its node it says nothing, and under governance it says nothing at all.
LossIsAdmitted ==
  pc = "done" => (receipt.error <=> ~governed /\ missing \cap {"dispatch", "return"} # {})

=============================================================================
