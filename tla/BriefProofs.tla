---------------------------- MODULE BriefProofs -----------------------------
(***************************************************************************)
(* Theorems about Brief.tla, for every list of providers, every number of  *)
(* corrections, and every answer of the models.                            *)
(***************************************************************************)
EXTENDS Brief, TLAPS, WellFoundedInduction

----------------------------------------------------------------------------
(* The choice of a provider.                                               *)

\* A set of numbers has a least one.
LEMMA LeastExists ==
  ASSUME NEW S \in SUBSET Nat, S # {}
  PROVE  \E i \in S : \A j \in S : i <= j
<1>1. PICK i \in S : \A j \in S : <<j, i>> \notin OpToRel(<, Nat)
  BY NatLessThanWellFounded, WFMin
<1>2. \A j \in S : ~(j < i)
  BY <1>1 DEF OpToRel
<1> QED
  BY <1>2

\* Whoever is picked was eligible.
LEMMA PickIsEligible ==
  ASSUME NEW task, NEW exclude, NEW first
  PROVE  \/ PickModel(task, exclude, first) = None
         \/ Eligible(task, exclude, PickModel(task, exclude, first))
<1> DEFINE order == Required \o Optional
           able == {i \in DOMAIN order : Eligible(task, exclude, order[i])}
           least == CHOOSE i \in able : \A j \in able : i <= j
<1>1. DOMAIN order \subseteq Nat
      /\ \A i \in DOMAIN order : order[i] \in Providers
  <2>1. order \in Seq(Providers)
    BY BriefAssumption
  <2> QED
    BY <2>1
<1>2. able # {} => least \in able
  BY <1>1, LeastExists
<1>3. able # {} => Eligible(task, exclude, order[least])
  BY <1>1, <1>2
<1>4. PickModel(task, exclude, first) =
        IF first # None /\ Eligible(task, exclude, first) THEN first
        ELSE IF able = {} THEN None ELSE order[least]
  BY Zenon DEF PickModel
<1> HIDE DEF able, least, order
<1> QED
  BY <1>3, <1>4

\* A reviewer is of another provider than the worker.
LEMMA ReviewerIsAnother ==
  ASSUME available \subseteq Providers, Reviewer # None
  PROVE  Reviewer \in Providers /\ Reviewer # route
BY PickIsEligible DEF Reviewer, Eligible

----------------------------------------------------------------------------
(* The inductive invariant: a brief goes through pairs of a draft and a    *)
(* review that found issues in it, and what is at hand is the last draft.  *)

Extracts(i) == calls[i].kind = "extract" /\ Extracted(calls[i].answer)

\* The draft of call d is the last there is, and it passed the verifier.
AtHand(d) ==
  /\ draft = d /\ report = d /\ node = d
  /\ d \in DOMAIN calls /\ calls[d].kind = "extract" /\ calls[d].provider = route
  /\ calls[d].answer \in Extract /\ Processed(calls[d].answer) = "needs-review"

Working ==
  pc = "work" =>
    /\ route \in Elements(Required)
    /\ receipt.human
    /\ Len(calls) = 2 * corrections
    /\ IF calls = <<>> THEN draft = 0 /\ report = 0 /\ node = 0
       ELSE /\ AtHand(Len(calls) - 1)
            /\ calls[Len(calls)].kind = "review"
            /\ Judged(calls[Len(calls)].answer) = "issues"

Reviewing ==
  pc = "review" =>
    /\ route \in Elements(Required)
    /\ receipt.human
    /\ Len(calls) = 2 * corrections + 1
    /\ AtHand(Len(calls))
    /\ receipt.uncited = calls[Len(calls)].answer.uncited

\* The loss that a receipt tells: a dispatch or a return, in off mode.
Lost == ~governed /\ missing \cap {"dispatch", "return"} # {}

Starting ==
  pc = "start" =>
    /\ calls = <<>> /\ draft = 0 /\ report = 0 /\ node = 0 /\ corrections = 0
    /\ receipt.human /\ ~receipt.error /\ missing = {}

Inv ==
  /\ TypeOK
  /\ Starting /\ Working /\ Reviewing
  /\ pc \notin {"done", "raised"} => result = None
  /\ pc # "raised" => receipt.error = Lost
  /\ CallsFormAChain
  /\ VerifiedIsEarned
  /\ ResultIsOneDraft

\* The bound on corrections is a number.
LEMMA BoundType == Bound \in Nat
BY BriefAssumption DEF Bound

\* A brief that was just called.
LEMMA InvInit == Init => Inv
<1> SUFFICES ASSUME Init PROVE Inv
  OBVIOUS
<1>1. receipt \in Receipt
  BY DEF Init, Receipt, Reviews
<1>2. /\ calls = <<>> /\ Len(calls) = 0 /\ calls \in Seq(Call)
      /\ node = 0 /\ draft = 0 /\ report = 0 /\ corrections = 0 /\ route = None
      /\ pc = "start" /\ result = None /\ missing = {}
      /\ available \subseteq Providers /\ prefer \in Providers \cup {None}
  BY DEF Init
<1>3. governed \in BOOLEAN /\ authorized \in BOOLEAN /\ reviewing \in BOOLEAN
  BY Zenon DEF Init
<1>4. corrections \in 0..Bound /\ {node, draft, report} \subseteq 0..Len(calls)
  BY <1>2, BoundType
<1>5. TypeOK
  BY <1>1, <1>2, <1>3, <1>4 DEF TypeOK
<1>6. receipt.human /\ receipt.error = FALSE
  BY DEF Init
<1>7. Starting /\ Working /\ Reviewing
  BY <1>2, <1>6 DEF Starting, Working, Reviewing
<1>8. receipt.error = Lost
  BY <1>2, <1>6 DEF Lost
<1>9. CallsFormAChain /\ VerifiedIsEarned /\ ResultIsOneDraft
  BY <1>2 DEF CallsFormAChain, VerifiedIsEarned, ResultIsOneDraft
<1> QED
  BY <1>2, <1>5, <1>7, <1>8, <1>9 DEF Inv

\* A call is appended to those before it.
LEMMA CallsAfter ==
  ASSUME TypeOK, NEW kind \in {"extract", "review"}, NEW provider \in Providers,
         NEW answer \in Broken \cup Extract \cup Verdicts, Made(kind, provider, answer)
  PROVE  /\ calls' \in Seq(Call)
         /\ Len(calls') = Len(calls) + 1
         /\ \A i \in 1..Len(calls) : calls'[i] = calls[i]
         /\ calls'[Len(calls) + 1] =
              [kind |-> kind, provider |-> provider, of |-> node, answer |-> answer]
<1>1. [kind |-> kind, provider |-> provider, of |-> node, answer |-> answer] \in Call
  BY DEF Call, TypeOK
<1>2. calls \in Seq(Call)
  BY DEF TypeOK
<1> QED
  BY <1>1, <1>2 DEF Made

\* What the chain asks of a call.
ChainAt(i, call) ==
  /\ call.of = IF i = 1 THEN 0 ELSE IF call.kind = "review" THEN i - 1 ELSE i - 2
  /\ call.kind = "review" =>
       /\ i > 1 /\ calls[i - 1].kind = "extract" /\ Processed(calls[i - 1].answer) = "needs-review"
       /\ calls[i - 1].provider # call.provider
  /\ call.kind = "extract" /\ i > 1 =>
       calls[i - 1].kind = "review" /\ Judged(calls[i - 1].answer) = "issues"
  /\ i <= 2 * (Bound + 1)

\* A call that fits the last one prolongs the chain.
LEMMA ChainGrows ==
  ASSUME TypeOK, CallsFormAChain,
         NEW kind \in {"extract", "review"}, NEW provider \in Providers,
         NEW answer \in Broken \cup Extract \cup Verdicts, Made(kind, provider, answer),
         ChainAt(Len(calls) + 1, [kind |-> kind, provider |-> provider, of |-> node, answer |-> answer])
  PROVE  CallsFormAChain'
<1> DEFINE call == [kind |-> kind, provider |-> provider, of |-> node, answer |-> answer]
           n == Len(calls)
<1>1. /\ n \in Nat /\ Len(calls') = n + 1 /\ DOMAIN calls = 1..n /\ DOMAIN calls' = 1..(n + 1)
      /\ \A i \in 1..n : calls'[i] = calls[i]
      /\ calls'[n + 1] = call
  BY CallsAfter DEF TypeOK
<1>2. \A i \in 1..n : ChainAt(i, calls[i])
  BY <1>1 DEF CallsFormAChain, ChainAt
<1>3. ASSUME NEW i \in 1..(n + 1), ChainAt(i, calls'[i]) PROVE ChainAt(i, calls[i])'
  <2>1. i > 1 => calls'[i - 1] = calls[i - 1]
    BY <1>1
  <2>2. Bound' = Bound /\ \A a : Processed(a)' = Processed(a) /\ Judged(a)' = Judged(a)
    BY DEF Bound, Processed, Judged
  <2> QED
    BY <1>3, <2>1, <2>2 DEF ChainAt
<1>4. \A i \in 1..(n + 1) : ChainAt(i, calls'[i])
  <2>1. ASSUME NEW i \in 1..(n + 1) PROVE ChainAt(i, calls'[i])
    <3>1. CASE i \in 1..n
      BY <1>1, <1>2, <3>1
    <3>2. CASE i = n + 1
      BY <1>1, <3>2
    <3> QED
      BY <1>1, <3>1, <3>2
  <2> QED
    BY <2>1
<1>5. \A i \in DOMAIN calls' : ChainAt(i, calls[i])'
  BY <1>1, <1>3, <1>4
<1> QED
  BY <1>5 DEF CallsFormAChain, ChainAt

\* What the receipt says after a call of the worker.
LEMMA NotedType ==
  ASSUME receipt \in Receipt, receipt.human,
         NEW answer \in (Broken \ {Malformed}) \cup Extract, NEW error \in BOOLEAN,
         NEW note, note = [Noted(answer) EXCEPT !.error = error]
  PROVE  /\ note \in Receipt
         /\ note.error = error
         /\ note.human
         /\ note.uncited = (answer \in Extract /\ answer.passed /\ ~answer.empty /\ answer.uncited)
<1>1. answer \in Broken <=> answer \notin Extract
  BY DEF Broken, Extract
<1>2. CASE answer \in Broken
  BY <1>1, <1>2 DEF Noted, Receipt, Reviews
<1>3. CASE answer \in Extract
  BY <1>1, <1>3 DEF Noted, Receipt, Reviews, Extract
<1> QED
  BY <1>2, <1>3

\* A step that loses nothing.
LEMMA LostStays ==
  ASSUME UNCHANGED <<governed, missing>>
  PROVE  Lost' = Lost
BY DEF Lost

\* The receipt goes on to say what was lost.
LEMMA RecordedSays ==
  ASSUME receipt.error = Lost, missing \subseteq Writes, UNCHANGED governed,
         NEW kind, NEW answer, NEW note, Recorded(kind, answer, note)
  PROVE  note.error = Lost' /\ missing' \subseteq Writes
<1>1. PICK failed \in SUBSET Fallible(kind, answer) :
        /\ missing' = missing \cup failed
        /\ note.error = (receipt.error \/ (~governed /\ failed \cap {"dispatch", "return"} # {}))
  BY DEF Recorded
<1>2. missing' \subseteq Writes
  BY <1>1 DEF Fallible
<1>3. (missing' \cap {"dispatch", "return"} # {}) <=>
        (missing \cap {"dispatch", "return"} # {}) \/ (failed \cap {"dispatch", "return"} # {})
  BY <1>1
<1> QED
  BY <1>1, <1>2, <1>3 DEF Lost

----------------------------------------------------------------------------
(* How a step leaves the brief.                                            *)

\* A brief that ends satisfies the invariant if what it hands back does.
LEMMA EndKeeps ==
  ASSUME TypeOK, calls' \in Seq(Call), Len(calls') >= Len(calls),
         NEW st \in Statuses, NEW d \in 0..Len(calls'), NEW r \in 0..Len(calls'),
         NEW note \in Receipt, End(st, d, r, note),
         node' \in 0..Len(calls'), corrections' \in 0..Bound,
         note.error = Lost', missing' \subseteq Writes,
         route' \in Providers \cup {None}, UNCHANGED settings,
         CallsFormAChain', VerifiedIsEarned', ResultIsOneDraft'
  PROVE  Inv'
<1>1. /\ pc' = "done" /\ receipt' = note /\ draft' = d /\ report' = r
      /\ result' = [status |-> st, draft |-> d, report |-> r]
  BY DEF End
<1>2. UNCHANGED <<governed, available, authorized, prefer, reviewing>> /\ Bound' = Bound
  BY DEF settings, Bound
<1>3. TypeOK'
  <2>1. result' \in [status : Statuses, draft : 0..Len(calls'), report : 0..Len(calls')]
    BY <1>1
  <2>2. {node', draft', report'} \subseteq 0..Len(calls')
    BY <1>1
  <2>3. /\ available' \subseteq Providers /\ prefer' \in Providers \cup {None}
        /\ pc' \in {"start", "work", "review", "done", "raised"}
        /\ receipt' \in Receipt
    BY <1>1, <1>2 DEF TypeOK
  <2>4. governed' \in BOOLEAN /\ authorized' \in BOOLEAN /\ reviewing' \in BOOLEAN
    BY <1>2, Zenon DEF TypeOK
  <2> QED
    BY <1>2, <2>1, <2>2, <2>3, <2>4 DEF TypeOK
<1>4. Starting' /\ Working' /\ Reviewing'
  BY <1>1 DEF Starting, Working, Reviewing
<1>5. (pc \notin {"done", "raised"} => result = None)' /\ (pc # "raised" => receipt.error = Lost)'
  BY <1>1
<1> QED
  BY <1>3, <1>4, <1>5 DEF Inv

\* A brief that goes on satisfies the invariant if its next step may be taken.
LEMMA GoKeeps ==
  ASSUME TypeOK, result = None, calls' \in Seq(Call), Len(calls') >= Len(calls),
         NEW step \in {"work", "review", "raised"}, NEW note \in Receipt, Goes(step, note),
         {node', draft', report'} \subseteq 0..Len(calls'), corrections' \in 0..Bound,
         step # "raised" => note.error = Lost', missing' \subseteq Writes,
         route' \in Providers \cup {None}, UNCHANGED settings,
         CallsFormAChain', Working', Reviewing'
  PROVE  Inv'
<1>1. pc' = step /\ receipt' = note /\ result' = None
  BY DEF Goes
<1>2. UNCHANGED <<governed, available, authorized, prefer, reviewing>> /\ Bound' = Bound
  BY DEF settings, Bound
<1>3. TypeOK'
  <2>1. /\ available' \subseteq Providers /\ prefer' \in Providers \cup {None}
        /\ pc' \in {"start", "work", "review", "done", "raised"}
        /\ receipt' \in Receipt
    BY <1>1, <1>2 DEF TypeOK
  <2>2. governed' \in BOOLEAN /\ authorized' \in BOOLEAN /\ reviewing' \in BOOLEAN
    BY <1>2, Zenon DEF TypeOK
  <2> QED
    BY <1>1, <1>2, <2>1, <2>2 DEF TypeOK
<1>4. Starting' /\ VerifiedIsEarned' /\ ResultIsOneDraft'
  BY <1>1 DEF Starting, VerifiedIsEarned, ResultIsOneDraft
<1>5. (pc \notin {"done", "raised"} => result = None)' /\ (pc # "raised" => receipt.error = Lost)'
  BY <1>1
<1> QED
  BY <1>3, <1>4, <1>5 DEF Inv

\* Calls that did not change still form a chain.
LEMMA ChainStays ==
  ASSUME CallsFormAChain, UNCHANGED calls
  PROVE  CallsFormAChain'
<1>1. Bound' = Bound /\ \A a : Processed(a)' = Processed(a) /\ Judged(a)' = Judged(a)
  BY DEF Bound, Processed, Judged
<1> QED
  BY <1>1 DEF CallsFormAChain

\* The providers of either kind are providers.
LEMMA ProviderTypes ==
  /\ Elements(Required) \subseteq Providers
  /\ None \notin Providers
BY BriefAssumption DEF Providers

\* A brief that starts has nothing yet.
LEMMA StartKeeps == Inv /\ Start => Inv'
<1> SUFFICES ASSUME Inv, Start PROVE Inv'
  OBVIOUS
<1>1. TypeOK /\ Starting /\ CallsFormAChain /\ receipt.error = Lost /\ result = None
  BY DEF Inv, Start
<1>2. /\ calls = <<>> /\ Len(calls) = 0 /\ draft = 0 /\ report = 0 /\ node = 0
      /\ corrections = 0 /\ receipt.human /\ receipt \in Receipt /\ missing \subseteq Writes
  BY <1>1 DEF Starting, Start, TypeOK
<1>3. /\ UNCHANGED settings /\ calls' = calls /\ node' = node /\ corrections' = corrections
      /\ missing' = missing /\ calls' \in Seq(Call) /\ Bound' = Bound
      /\ Lost' = Lost
  BY <1>1, LostStays DEF Start, TypeOK, Bound, settings
<1>4. CallsFormAChain'
  BY <1>1, <1>3, ChainStays
<1>5. route' \in Providers \cup {None}
  <2>1. available \subseteq Providers
    BY <1>1 DEF TypeOK
  <2> QED
    BY <2>1, PickIsEligible DEF Start, Eligible
<1>6. CASE route' \in Elements(Required)
  <2>1. Goes("work", receipt) /\ draft' = draft /\ report' = report
    BY <1>6 DEF Start
  <2>2. pc' = "work" /\ receipt' = receipt
    BY <2>1 DEF Goes
  <2>3. Working' /\ Reviewing'
    BY <1>2, <1>3, <1>6, <2>1, <2>2 DEF Working, Reviewing
  <2> QED
    BY <1>1, <1>2, <1>3, <1>4, <1>5, <2>1, <2>3, BoundType, GoKeeps
<1>7. CASE route' \notin Elements(Required)
  <2>1. End("blocked", 0, 0, receipt)
    BY <1>7 DEF Start
  <2>2. VerifiedIsEarned' /\ ResultIsOneDraft'
    BY <1>2, <2>1 DEF End, VerifiedIsEarned, ResultIsOneDraft
  <2>3. "blocked" \in Statuses
    BY DEF Statuses
  <2> QED
    BY <1>1, <1>2, <1>3, <1>4, <1>5, <2>1, <2>2, <2>3, BoundType, EndKeeps
<1> QED
  BY <1>6, <1>7

\* A refused call of the worker.
LEMMA WorkRefusedKeeps == Inv /\ WorkRefused => Inv'
<1> SUFFICES ASSUME Inv, WorkRefused PROVE Inv'
  OBVIOUS
<1>1. TypeOK /\ CallsFormAChain /\ receipt.error = Lost /\ receipt.human
  BY DEF Inv, WorkRefused, Working
<1>2. /\ UNCHANGED settings /\ calls' = calls /\ node' = node /\ corrections' = corrections
      /\ missing' = missing /\ route' = route /\ End("blocked", 0, 0, receipt)
      /\ Lost' = Lost
  BY LostStays DEF WorkRefused, settings
<1>3. /\ calls' \in Seq(Call) /\ Len(calls') \in Nat /\ receipt \in Receipt /\ missing' \subseteq Writes
      /\ route' \in Providers \cup {None} /\ node' \in 0..Len(calls') /\ corrections' \in 0..Bound
  BY <1>1, <1>2 DEF TypeOK
<1>4. CallsFormAChain'
  BY <1>1, <1>2, ChainStays
<1>5. VerifiedIsEarned' /\ ResultIsOneDraft'
  BY <1>1, <1>2 DEF End, VerifiedIsEarned, ResultIsOneDraft
<1>6. "blocked" \in Statuses /\ 0 \in 0..Len(calls') /\ Len(calls') >= Len(calls)
  BY <1>2, <1>3 DEF Statuses
<1> QED
  BY <1>1, <1>2, <1>3, <1>4, <1>5, <1>6, EndKeeps

----------------------------------------------------------------------------
(* The worker.                                                             *)

\* What the worker may be asked: its call prolongs the chain.
LEMMA WorkerCall ==
  ASSUME Inv, pc = "work", NEW answer \in Broken \cup Extract, Made("extract", route, answer)
  PROVE  /\ CallsFormAChain'
         /\ calls' \in Seq(Call) /\ Len(calls') = Len(calls) + 1 /\ Len(calls) \in Nat
         /\ \A i \in 1..Len(calls) : calls'[i] = calls[i]
         /\ calls'[Len(calls) + 1] =
              [kind |-> "extract", provider |-> route, of |-> node, answer |-> answer]
<1>1. /\ TypeOK /\ CallsFormAChain /\ route \in Providers /\ Len(calls) = 2 * corrections
      /\ corrections \in Nat /\ corrections <= Bound /\ Bound \in Nat /\ Len(calls) \in Nat
  BY BoundType, ProviderTypes DEF Inv, TypeOK, Working
<1>2. IF calls = <<>> THEN node = 0
      ELSE /\ node = Len(calls) - 1
           /\ calls[Len(calls)].kind = "review" /\ Judged(calls[Len(calls)].answer) = "issues"
  BY DEF Inv, Working, AtHand
<1>3. calls = <<>> <=> Len(calls) = 0
  BY <1>1 DEF TypeOK
<1>4. ChainAt(Len(calls) + 1, [kind |-> "extract", provider |-> route, of |-> node, answer |-> answer])
  BY <1>1, <1>2, <1>3 DEF ChainAt
<1>5. CallsFormAChain'
  BY <1>1, <1>4, ChainGrows
<1> QED
  BY <1>1, <1>5, CallsAfter

\* The draft and the report at hand after a call of the worker belong together, and no
\* later draft exists.
LEMMA WorkerDraft ==
  ASSUME Inv, pc = "work", NEW answer \in (Broken \ {Malformed}) \cup Extract,
         Made("extract", route, answer),
         NEW d, d = DraftAfter(answer, Len(calls) + 1),
         NEW r, r = ReportAfter(answer, Len(calls) + 1)
  PROVE  /\ d \in 0..Len(calls') /\ r \in 0..Len(calls')
         /\ \A i \in DOMAIN calls' : calls'[i].kind = "extract" /\ Extracted(calls'[i].answer) => i <= d
         /\ d # 0 => calls'[d].kind = "extract" /\ Extracted(calls'[d].answer)
         /\ r = IF d # 0 /\ calls'[d].answer \notin Broken THEN d ELSE 0
<1> DEFINE n == Len(calls)
           me == [kind |-> "extract", provider |-> route, of |-> node, answer |-> answer]
<1>1. /\ n \in Nat /\ Len(calls') = n + 1 /\ DOMAIN calls' = 1..(n + 1)
      /\ \A i \in 1..n : calls'[i] = calls[i]
      /\ calls'[n + 1] = me
  BY WorkerCall
<1>2. me.kind = "extract" /\ me.answer = answer
  OBVIOUS
<1>3. CASE Extracted(answer)
  <2>1. d = n + 1
    BY <1>3 DEF DraftAfter
  <2>2. r = IF answer \notin Broken THEN n + 1 ELSE 0
    BY <1>3 DEF ReportAfter, Extracted
  <2>3. calls'[d] = me
    BY <1>1, <2>1
  <2> HIDE DEF me
  <2> QED
    BY <1>1, <1>2, <1>3, <2>1, <2>2, <2>3
<1>4. CASE ~Extracted(answer)
  <2>1. d = draft /\ r = report
    BY <1>4 DEF DraftAfter, ReportAfter, Extracted
  <2>2. CASE calls = <<>>
    <3>1. n = 0 /\ draft = 0 /\ report = 0
      BY <2>2 DEF Inv, Working
    <3> HIDE DEF me
    <3> QED
      BY <1>1, <1>2, <1>4, <2>1, <3>1
  <2>3. CASE calls # <<>>
    <3>1. /\ draft = n - 1 /\ report = n - 1 /\ n - 1 \in DOMAIN calls
          /\ calls[n - 1].kind = "extract" /\ calls[n - 1].answer \in Extract
          /\ calls[n].kind = "review"
      BY <2>3 DEF Inv, Working, AtHand
    <3>2. DOMAIN calls = 1..n
      BY DEF Inv, TypeOK
    <3>3. calls[n - 1].answer \notin Broken
      BY <3>1 DEF Broken, Extract
    <3>4. Extracted(calls[n - 1].answer)
      BY <3>3 DEF Extracted
    <3>5. n - 1 \in 1..n /\ n \in 1..n /\ calls'[n - 1] = calls[n - 1] /\ calls'[n] = calls[n]
      BY <1>1, <3>1, <3>2
    <3> HIDE DEF me
    <3>6. \A i \in DOMAIN calls' : calls'[i].kind = "extract" /\ Extracted(calls'[i].answer) => i <= n - 1
      <4>1. \A i \in 1..(n + 1) : i <= n - 1 \/ i = n \/ i = n + 1
        BY <1>1
      <4> QED
        BY <1>1, <1>2, <1>4, <3>1, <3>5, <4>1
    <3>7. n - 1 # 0 /\ n - 1 \in 0..(n + 1)
      BY <1>1, <3>5
    <3> HIDE DEF n
    <3> QED
      BY <1>1, <2>1, <3>1, <3>3, <3>4, <3>5, <3>6, <3>7
  <2> QED
    BY <2>2, <2>3
<1> QED
  BY <1>3, <1>4

\* A call of the worker that ends the brief or leaves it to the reviewer.
LEMMA WorkKeeps == Inv /\ Work => Inv'
<1> SUFFICES ASSUME Inv, Work PROVE Inv'
  OBVIOUS
<1>1. PICK answer \in (Broken \ {Malformed}) \cup Extract, error \in BOOLEAN :
        LET me == Len(calls) + 1
            status == Processed(answer)
            note == [Noted(answer) EXCEPT !.error = error]
            d == DraftAfter(answer, me)
            r == ReportAfter(answer, me)
        IN /\ Made("extract", route, answer)
           /\ Recorded("extract", answer, note)
           /\ node' = NodeAfter(me)
           /\ IF status # "needs-review" THEN End(status, d, r, note)
              ELSE IF ~reviewing THEN End("returned", d, r, [note EXCEPT !.review = "disabled"])
              ELSE Goes("review", note) /\ draft' = d /\ report' = r
  BY DEF Work
<1> DEFINE n == Len(calls)
           note == [Noted(answer) EXCEPT !.error = error]
           d == DraftAfter(answer, n + 1)
           r == ReportAfter(answer, n + 1)
           me == [kind |-> "extract", provider |-> route, of |-> node, answer |-> answer]
<1>2. /\ pc = "work" /\ UNCHANGED settings /\ route' = route /\ corrections' = corrections
      /\ Bound' = Bound
  BY DEF Work, Bound
<1>3. /\ TypeOK /\ receipt \in Receipt /\ receipt.human /\ route \in Elements(Required)
      /\ route \in Providers /\ corrections \in 0..Bound /\ receipt.error = Lost /\ missing \subseteq Writes
      /\ n = 2 * corrections /\ corrections \in Nat /\ result = None
  BY <1>2, ProviderTypes, BoundType DEF Inv, TypeOK, Working
<1>4. /\ CallsFormAChain' /\ calls' \in Seq(Call) /\ Len(calls') = n + 1 /\ n \in Nat
      /\ calls'[n + 1] = me
  BY <1>1, <1>2, WorkerCall
<1>5. me.kind = "extract" /\ me.answer = answer /\ me.provider = route
  OBVIOUS
<1>6. /\ note \in Receipt /\ note.error = error /\ note.human
      /\ note.uncited = (answer \in Extract /\ answer.passed /\ ~answer.empty /\ answer.uncited)
  BY <1>3, NotedType
<1>7. note.error = Lost' /\ missing' \subseteq Writes
  BY <1>1, <1>2, <1>3, RecordedSays DEF settings
<1>8. /\ d \in 0..Len(calls') /\ r \in 0..Len(calls')
      /\ \A i \in DOMAIN calls' : calls'[i].kind = "extract" /\ Extracted(calls'[i].answer) => i <= d
      /\ d # 0 => calls'[d].kind = "extract" /\ Extracted(calls'[d].answer)
      /\ r = IF d # 0 /\ calls'[d].answer \notin Broken THEN d ELSE 0
  BY <1>1, <1>2, WorkerDraft
<1>9. node' = n + 1 /\ node' \in 0..Len(calls') /\ Len(calls') >= Len(calls)
  BY <1>1, <1>4 DEF NodeAfter
<1>10. /\ IF Processed(answer) # "needs-review" THEN End(Processed(answer), d, r, note)
          ELSE IF ~reviewing THEN End("returned", d, r, [note EXCEPT !.review = "disabled"])
          ELSE Goes("review", note) /\ draft' = d /\ report' = r
  BY <1>1
<1> HIDE DEF d, r, note, me
<1>11. ASSUME NEW st \in {"paused", "failed", "returned"}, NEW last \in Receipt,
              last.human, last.error = Lost', End(st, d, r, last)
       PROVE  Inv'
  <2>1. receipt' = last /\ result' = [status |-> st, draft |-> d, report |-> r]
    BY <1>11 DEF End
  <2>2. VerifiedIsEarned'
    BY <1>11, <2>1 DEF VerifiedIsEarned
  <2>3. ResultIsOneDraft'
    <3>1. \A a : Extracted(a)' = Extracted(a)
      BY DEF Extracted
    <3>2. result'.draft = d /\ result'.report = r
      BY <2>1
    <3> QED
      BY <1>8, <3>1, <3>2 DEF ResultIsOneDraft
  <2>4. st \in Statuses
    BY DEF Statuses
  <2> QED
    BY <1>2, <1>3, <1>4, <1>7, <1>8, <1>9, <1>11, <2>2, <2>3, <2>4, EndKeeps
<1>12. CASE Processed(answer) # "needs-review"
  <2>1. Processed(answer) \in {"paused", "failed", "returned"}
    BY <1>12 DEF Processed
  <2> QED
    BY <1>6, <1>7, <1>10, <1>11, <1>12, <2>1
<1>13. CASE Processed(answer) = "needs-review" /\ ~reviewing
  <2> DEFINE last == [note EXCEPT !.review = "disabled"]
  <2>1. last \in Receipt /\ last.human /\ last.error = note.error
    BY <1>6 DEF Receipt, Reviews
  <2> HIDE DEF last
  <2> QED
    BY <1>7, <1>10, <1>11, <1>13, <2>1 DEF last
<1>14. CASE Processed(answer) = "needs-review" /\ reviewing
  <2>1. Goes("review", note) /\ draft' = d /\ report' = r
    BY <1>10, <1>14
  <2>2. pc' = "review" /\ receipt' = note
    BY <2>1 DEF Goes
  <2>3. answer \in Extract /\ answer \notin Broken /\ answer.passed /\ ~answer.empty
    BY <1>14 DEF Processed, Broken, Malformed, Extract
  <2>4. d = n + 1 /\ r = n + 1
    BY <2>3 DEF d, r, DraftAfter, ReportAfter, Extracted
  <2>5. Len(calls)' = n + 1 /\ n + 1 \in DOMAIN calls'
    BY <1>4
  <2>6. AtHand(Len(calls))'
    <3>1. Processed(answer)' = "needs-review"
      BY <1>14 DEF Processed
    <3> QED
      BY <1>2, <1>4, <1>5, <1>9, <2>1, <2>3, <2>4, <2>5, <3>1 DEF AtHand
  <2>7. Reviewing'
    <3>1. answer.uncited \in BOOLEAN
      BY <2>3 DEF Extract
    <3>2. note.uncited = answer.uncited
      BY <1>6, <2>3, <3>1
    <3>3. (calls[Len(calls)].answer)' = answer
      BY <1>4, <1>5, <2>5
    <3>4. (receipt.uncited = calls[Len(calls)].answer.uncited)'
      BY <2>2, <3>2, <3>3
    <3>5. Len(calls)' = 2 * corrections' + 1 /\ route' \in Elements(Required) /\ receipt'.human
      BY <1>2, <1>3, <1>6, <2>2, <2>5
    <3> QED
      BY <2>6, <3>4, <3>5 DEF Reviewing
  <2>8. Working'
    BY <2>2 DEF Working
  <2>9. {node', draft', report'} \subseteq 0..Len(calls')
    BY <1>8, <1>9, <2>1
  <2> QED
    BY <1>2, <1>3, <1>4, <1>6, <1>7, <1>9, <2>1, <2>7, <2>8, <2>9, GoKeeps
<1> QED
  BY <1>12, <1>13, <1>14

\* A call of the worker whose answer raises.
LEMMA WorkRaisesKeeps == Inv /\ WorkRaises => Inv'
<1> SUFFICES ASSUME Inv, WorkRaises PROVE Inv'
  OBVIOUS
<1>1. /\ pc = "work" /\ Made("extract", route, Malformed) /\ Malformed \in Broken \cup Extract
      /\ Goes("raised", receipt) /\ UNCHANGED settings
      /\ route' = route /\ node' = node /\ draft' = draft /\ report' = report
      /\ corrections' = corrections /\ Bound' = Bound
  BY DEF WorkRaises, Bound, Broken, Malformed
<1>2. TypeOK /\ receipt \in Receipt /\ route \in Providers \cup {None} /\ result = None
      /\ corrections \in 0..Bound /\ {node, draft, report} \subseteq 0..Len(calls)
      /\ missing' \subseteq Writes
  BY <1>1 DEF Inv, TypeOK, WorkRaises, Fallible
<1>3. CallsFormAChain' /\ calls' \in Seq(Call) /\ Len(calls') = Len(calls) + 1 /\ Len(calls) \in Nat
  BY <1>1, WorkerCall
<1>4. {node', draft', report'} \subseteq 0..Len(calls') /\ Len(calls') >= Len(calls)
  BY <1>1, <1>2, <1>3
<1>5. Working' /\ Reviewing'
  BY <1>1 DEF Goes, Working, Reviewing
<1> QED
  BY <1>1, <1>2, <1>3, <1>4, <1>5, GoKeeps

----------------------------------------------------------------------------
(* The review.                                                             *)

\* What the reviewer may be asked: its call prolongs the chain.
LEMMA ReviewerCall ==
  ASSUME Inv, pc = "review", Reviewer # None,
         NEW answer \in Broken \cup Verdicts, Made("review", Reviewer, answer)
  PROVE  /\ CallsFormAChain'
         /\ calls' \in Seq(Call) /\ Len(calls') = Len(calls) + 1 /\ Len(calls) \in Nat
         /\ \A i \in 1..Len(calls) : calls'[i] = calls[i]
         /\ calls'[Len(calls) + 1] =
              [kind |-> "review", provider |-> Reviewer, of |-> node, answer |-> answer]
         /\ Reviewer # route
<1>1. /\ TypeOK /\ CallsFormAChain /\ Len(calls) = 2 * corrections + 1
      /\ corrections \in Nat /\ corrections <= Bound /\ Bound \in Nat /\ Len(calls) \in Nat
      /\ available \subseteq Providers
  BY BoundType DEF Inv, TypeOK, Reviewing
<1>2. /\ node = Len(calls) /\ calls[Len(calls)].kind = "extract"
      /\ calls[Len(calls)].provider = route
      /\ Processed(calls[Len(calls)].answer) = "needs-review"
  BY DEF Inv, Reviewing, AtHand
<1>3. Reviewer \in Providers /\ Reviewer # route
  BY <1>1, ReviewerIsAnother
<1>4. ChainAt(Len(calls) + 1, [kind |-> "review", provider |-> Reviewer, of |-> node, answer |-> answer])
  BY <1>1, <1>2, <1>3 DEF ChainAt
<1>5. CallsFormAChain'
  BY <1>1, <1>3, <1>4, ChainGrows
<1> QED
  BY <1>1, <1>3, <1>5, CallsAfter

\* What was judged: nothing, or the draft at hand by another provider.
Reviewed(status, n) ==
  \/ calls' = calls /\ status \notin {"ok", "issues"}
  \/ /\ Len(calls') = n + 1
     /\ calls'[n + 1].kind = "review" /\ calls'[n + 1].of = n
     /\ calls'[n + 1].provider # route
     /\ Judged(calls'[n + 1].answer) = status

\* However a review comes out, the brief goes on or ends well.
LEMMA ConcludeKeeps ==
  ASSUME Inv, pc = "review",
         NEW status \in {"ok", "issues", "invalid", "unparsed", "paused", "failed", "blocked", "no_other_vendor"},
         NEW note \in Receipt, note.human, note.uncited = receipt.uncited,
         note.error = Lost', missing' \subseteq Writes, Conclude(status, note),
         UNCHANGED <<settings, route, node>>,
         CallsFormAChain', calls' \in Seq(Call), Len(calls') >= Len(calls),
         \A i \in 1..Len(calls) : calls'[i] = calls[i],
         Reviewed(status, Len(calls))
  PROVE  Inv'
<1> DEFINE n == Len(calls)
<1>1. /\ TypeOK /\ result = None /\ route \in Elements(Required) /\ route \in Providers
      /\ n = 2 * corrections + 1 /\ corrections \in Nat /\ corrections \in 0..Bound
      /\ n \in Nat /\ Bound \in Nat /\ DOMAIN calls = 1..n /\ DOMAIN calls' = 1..Len(calls')
      /\ Len(calls') \in Nat
  BY ProviderTypes, BoundType DEF Inv, TypeOK, Reviewing
<1>2. /\ draft = n /\ report = n /\ node = n /\ n \in DOMAIN calls
      /\ calls[n].kind = "extract" /\ calls[n].provider = route
      /\ calls[n].answer \in Extract /\ Processed(calls[n].answer) = "needs-review"
      /\ receipt.uncited = calls[n].answer.uncited
  BY DEF Inv, Reviewing, AtHand
<1>3. calls'[n] = calls[n]
  BY <1>1, <1>2
<1>4. UNCHANGED settings /\ route' = route /\ node' = node /\ Bound' = Bound
  BY DEF Bound
<1>5. {n, draft, report, node} \subseteq 0..Len(calls') /\ Len(calls') >= Len(calls)
  BY <1>1, <1>2
<1>6. calls[n].answer \notin Broken /\ Extracted(calls[n].answer)
  BY <1>2 DEF Broken, Extract, Extracted
<1> HIDE DEF n
<1>7. ASSUME NEW st \in {"verified", "needs-review", "returned"}, NEW last \in Receipt,
             last.error = Lost', End(st, draft, report, last), corrections' = corrections,
             ~last.human \/ st = "verified" => status = "ok" /\ ~last.human,
             st = "verified" => ~last.uncited, last.uncited = receipt.uncited
      PROVE  Inv'
  <2>1. /\ receipt' = last
        /\ result'.status = st /\ result'.draft = n /\ result'.report = n
    BY <1>2, <1>7 DEF End
  <2>2. ResultIsOneDraft'
    <3>1. \A i \in DOMAIN calls' : i <= n \/ calls'[i].kind # "extract"
      <4>1. CASE calls' = calls
        BY <1>1, <4>1
      <4>2. CASE Len(calls') = n + 1 /\ calls'[n + 1].kind = "review"
        BY <1>1, <4>2
      <4> QED
        BY <4>1, <4>2 DEF Reviewed, n
    <3>2. \A a : Extracted(a)' = Extracted(a)
      BY DEF Extracted
    <3>3. n # 0
      BY <1>1, <1>2
    <3> QED
      BY <1>2, <1>3, <1>6, <2>1, <3>1, <3>2, <3>3 DEF ResultIsOneDraft
  <2>3. VerifiedIsEarned'
    <3>1. ASSUME ~last.human \/ st = "verified"
          PROVE  /\ Len(calls)' = n + 1
                 /\ calls'[n + 1].kind = "review" /\ calls'[n + 1].of = n
                 /\ calls'[n + 1].provider # calls'[n].provider
                 /\ Judged(calls'[n + 1].answer) = "ok"
      BY <1>2, <1>3, <1>7, <3>1 DEF Reviewed, n
    <3>2. ASSUME st = "verified"
          PROVE  calls'[n].answer =
                   [is |-> "json", passed |-> TRUE, empty |-> FALSE, bad |-> FALSE, uncited |-> FALSE]
      <4> DEFINE a == calls[n].answer
      <4>1. a \in Extract /\ ~a.uncited /\ Processed(a) = "needs-review"
        BY <1>2, <1>7, <3>2
      <4> HIDE DEF a
      <4>2. a.passed /\ ~a.empty /\ ~a.bad
        BY <4>1 DEF Processed
      <4>3. a.passed = TRUE /\ a.empty = FALSE /\ a.bad = FALSE /\ a.uncited = FALSE /\ a.is = "json"
        BY <4>1, <4>2 DEF Extract
      <4>4. a = [is |-> "json", passed |-> TRUE, empty |-> FALSE, bad |-> FALSE, uncited |-> FALSE]
        BY <4>1, <4>3 DEF Extract
      <4> QED
        BY <1>3, <4>4 DEF a
    <3>3. \A a : Judged(a)' = Judged(a)
      BY DEF Judged
    <3> QED
      BY <1>7, <2>1, <3>1, <3>2, <3>3 DEF VerifiedIsEarned, LastCall
  <2>4. st \in Statuses
    BY DEF Statuses
  <2>5. route' \in Providers \cup {None} /\ node' \in 0..Len(calls') /\ corrections' \in 0..Bound
    BY <1>1, <1>4, <1>5, <1>7
  <2> QED
    BY <1>1, <1>4, <1>5, <1>7, <2>2, <2>3, <2>4, <2>5, EndKeeps
<1>8. CASE status = "ok"
  <2> DEFINE last == [note EXCEPT !.review = "pass", !.human = FALSE]
  <2>1. last \in Receipt /\ ~last.human /\ last.error = note.error /\ last.uncited = note.uncited
    BY DEF Receipt, Reviews
  <2>2. End(FinalStatus(last), draft, report, last) /\ corrections' = corrections
    BY <1>8 DEF Conclude
  <2> HIDE DEF last
  <2>3. CASE last.uncited
    BY <1>7, <1>8, <2>1, <2>2, <2>3 DEF FinalStatus
  <2>4. CASE ~last.uncited
    BY <1>7, <1>8, <2>1, <2>2, <2>4 DEF FinalStatus
  <2> QED
    BY <2>3, <2>4
<1>9. CASE status = "issues" /\ MayCorrect
  <2>1. /\ corrections' = corrections + 1 /\ Goes("work", note)
        /\ draft' = draft /\ report' = report
    BY <1>9 DEF Conclude
  <2>2. pc' = "work" /\ receipt' = note
    BY <2>1 DEF Goes
  <2>3. corrections' \in 0..Bound
    BY <1>1, <1>9, <2>1 DEF MayCorrect
  <2>4. /\ Len(calls') = n + 1 /\ calls'[n + 1].kind = "review"
        /\ Judged(calls'[n + 1].answer) = "issues"
    BY <1>9 DEF Reviewed, n
  <2>5. Working'
    <3>1. \A a : Processed(a)' = Processed(a) /\ Judged(a)' = Judged(a)
      BY DEF Processed, Judged
    <3>2. (Len(calls) - 1)' = n /\ Len(calls)' = n + 1 /\ Len(calls)' = 2 * corrections'
      BY <1>1, <2>1, <2>4
    <3>3. AtHand(Len(calls) - 1)'
      BY <1>1, <1>2, <1>3, <1>4, <2>1, <2>4, <3>1, <3>2 DEF AtHand
    <3>4. calls' # <<>>
      BY <1>1, <2>4
    <3> QED
      BY <1>1, <1>4, <2>2, <2>4, <3>1, <3>2, <3>3, <3>4 DEF Working
  <2>6. Reviewing'
    BY <2>2 DEF Reviewing
  <2>7. {node', draft', report'} \subseteq 0..Len(calls') /\ route' \in Providers \cup {None}
    BY <1>1, <1>4, <1>5, <2>1
  <2> QED
    BY <1>1, <1>4, <1>5, <2>1, <2>3, <2>5, <2>6, <2>7, GoKeeps
<1>10. CASE status = "issues" /\ ~MayCorrect
  <2> DEFINE last == [note EXCEPT !.review = "issues"]
  <2>1. last \in Receipt /\ last.human /\ last.error = note.error /\ last.uncited = note.uncited
    BY DEF Receipt, Reviews
  <2>2. End("needs-review", draft, report, last) /\ corrections' = corrections
    BY <1>10 DEF Conclude
  <2> HIDE DEF last
  <2> QED
    BY <1>7, <2>1, <2>2
<1>11. CASE status \notin {"ok", "issues"}
  <2> DEFINE last == [note EXCEPT !.review = status]
  <2>1. last \in Receipt /\ last.human /\ last.error = note.error /\ last.uncited = note.uncited
    BY <1>11 DEF Receipt, Reviews
  <2>2. End("returned", draft, report, last) /\ corrections' = corrections
    BY <1>11 DEF Conclude
  <2> HIDE DEF last
  <2> QED
    BY <1>7, <2>1, <2>2
<1> QED
  BY <1>8, <1>9, <1>10, <1>11

\* A review that took place.
LEMMA ReviewKeeps == Inv /\ Review => Inv'
<1> SUFFICES ASSUME Inv, Review PROVE Inv'
  OBVIOUS
<1>1. PICK answer \in (Broken \ {Malformed}) \cup Verdicts, error \in BOOLEAN :
        LET note == [receipt EXCEPT !.error = error]
        IN /\ Made("review", Reviewer, answer)
           /\ Recorded("review", answer, note)
           /\ Conclude(Judged(answer), note)
  BY DEF Review
<1> DEFINE note == [receipt EXCEPT !.error = error]
<1>2. /\ Made("review", Reviewer, answer) /\ Recorded("review", answer, note) /\ Conclude(Judged(answer), note)
  BY <1>1
<1>3. /\ pc = "review" /\ Reviewer # None /\ UNCHANGED <<settings, route, node>>
  BY DEF Review
<1>4. /\ receipt \in Receipt /\ receipt.human /\ receipt.error = Lost /\ missing \subseteq Writes
      /\ node = Len(calls)
  BY <1>3 DEF Inv, TypeOK, Reviewing, AtHand
<1>5. note \in Receipt /\ note.human /\ note.uncited = receipt.uncited
  BY <1>4 DEF Receipt
<1>6. note.error = Lost' /\ missing' \subseteq Writes
  BY <1>2, <1>3, <1>4, RecordedSays DEF settings
<1>7. /\ CallsFormAChain' /\ calls' \in Seq(Call) /\ Len(calls') = Len(calls) + 1 /\ Len(calls) \in Nat
      /\ \A i \in 1..Len(calls) : calls'[i] = calls[i]
      /\ calls'[Len(calls) + 1] =
           [kind |-> "review", provider |-> Reviewer, of |-> node, answer |-> answer]
      /\ Reviewer # route
  BY <1>2, <1>3, ReviewerCall
<1>8. Reviewed(Judged(answer), Len(calls))
  BY <1>4, <1>7 DEF Reviewed
<1>9. Judged(answer) \in {"ok", "issues", "invalid", "unparsed", "paused", "failed", "blocked", "no_other_vendor"}
  BY DEF Judged, Broken, Malformed, Verdicts
<1>10. Len(calls') >= Len(calls)
  BY <1>7
<1> HIDE DEF note
<1> QED
  BY <1>2, <1>3, <1>5, <1>6, <1>7, <1>8, <1>9, <1>10, ConcludeKeeps

\* A review that raises.
LEMMA ReviewRaisesKeeps == Inv /\ ReviewRaises => Inv'
<1> SUFFICES ASSUME Inv, ReviewRaises PROVE Inv'
  OBVIOUS
<1>1. /\ pc = "review" /\ Reviewer # None /\ Made("review", Reviewer, Malformed)
      /\ Malformed \in Broken \cup Verdicts /\ Goes("raised", receipt) /\ UNCHANGED settings
      /\ route' = route /\ node' = node /\ draft' = draft /\ report' = report
      /\ corrections' = corrections /\ Bound' = Bound
  BY DEF ReviewRaises, Bound, Broken, Malformed
<1>2. TypeOK /\ receipt \in Receipt /\ route \in Providers \cup {None} /\ result = None
      /\ corrections \in 0..Bound /\ {node, draft, report} \subseteq 0..Len(calls)
      /\ missing' \subseteq Writes
  BY <1>1 DEF Inv, TypeOK, ReviewRaises, Fallible, Writes
<1>3. CallsFormAChain' /\ calls' \in Seq(Call) /\ Len(calls') = Len(calls) + 1 /\ Len(calls) \in Nat
  BY <1>1, ReviewerCall
<1>4. {node', draft', report'} \subseteq 0..Len(calls') /\ Len(calls') >= Len(calls)
  BY <1>1, <1>2, <1>3
<1>5. Working' /\ Reviewing'
  BY <1>1 DEF Goes, Working, Reviewing
<1> QED
  BY <1>1, <1>2, <1>3, <1>4, <1>5, GoKeeps

\* A review that nobody could give.
LEMMA NoReviewKeeps == Inv /\ NoReview => Inv'
<1> SUFFICES ASSUME Inv, NoReview PROVE Inv'
  OBVIOUS
<1>1. PICK status \in {"no_other_vendor", "blocked"} : Conclude(status, receipt)
  BY DEF NoReview
<1>2. /\ pc = "review" /\ UNCHANGED <<settings, route, node>> /\ calls' = calls /\ missing' = missing
      /\ Lost' = Lost
  BY LostStays DEF NoReview, settings
<1>3. /\ TypeOK /\ CallsFormAChain /\ receipt \in Receipt /\ receipt.human
      /\ receipt.error = Lost' /\ missing' \subseteq Writes /\ calls' \in Seq(Call) /\ Len(calls) \in Nat
  BY <1>2 DEF Inv, TypeOK, Reviewing
<1>4. CallsFormAChain'
  BY <1>2, <1>3, ChainStays
<1>5. Reviewed(status, Len(calls))
  BY <1>2 DEF Reviewed
<1>6. Len(calls') >= Len(calls) /\ \A i \in 1..Len(calls) : calls'[i] = calls[i]
  BY <1>2, <1>3
<1> QED
  BY <1>1, <1>2, <1>3, <1>4, <1>5, <1>6, ConcludeKeeps

\* A brief that ended stays as it is.
LEMMA StutterKeeps == Inv /\ UNCHANGED vars => Inv'
<1> SUFFICES ASSUME Inv, UNCHANGED vars PROVE Inv'
  OBVIOUS
<1>1. UNCHANGED <<governed, available, authorized, prefer, reviewing, pc, route, calls, node,
                  draft, report, corrections, receipt, missing, result>>
      /\ Lost' = Lost
  BY LostStays DEF vars, settings
<1>2. Bound' = Bound /\ \A a : Processed(a)' = Processed(a) /\ Judged(a)' = Judged(a)
                               /\ Extracted(a)' = Extracted(a)
  BY DEF Bound, Processed, Judged, Extracted
<1>3. TypeOK'
  BY <1>1, <1>2, Zenon DEF TypeOK, Inv
<1>4. \A d : AtHand(d)' = AtHand(d)
  BY <1>1, <1>2 DEF AtHand
<1>5. Starting' /\ Working' /\ Reviewing'
  BY <1>1, <1>2, <1>4 DEF Inv, Starting, Working, Reviewing
<1>6. CallsFormAChain'
  BY <1>1, ChainStays DEF Inv
<1>7. VerifiedIsEarned' /\ ResultIsOneDraft'
  BY <1>1, <1>2 DEF Inv, VerifiedIsEarned, ResultIsOneDraft, LastCall
<1> QED
  BY <1>1, <1>3, <1>5, <1>6, <1>7 DEF Inv

\* Every step of a brief keeps the invariant.
LEMMA InvStep == Inv /\ [Next]_vars => Inv'
<1> SUFFICES ASSUME Inv, [Next]_vars PROVE Inv'
  OBVIOUS
<1>1. CASE Start BY <1>1, StartKeeps
<1>2. CASE Work BY <1>2, WorkKeeps
<1>3. CASE WorkRaises BY <1>3, WorkRaisesKeeps
<1>4. CASE WorkRefused BY <1>4, WorkRefusedKeeps
<1>5. CASE Review BY <1>5, ReviewKeeps
<1>6. CASE ReviewRaises BY <1>6, ReviewRaisesKeeps
<1>7. CASE NoReview BY <1>7, NoReviewKeeps
<1>8. CASE UNCHANGED vars BY <1>8, StutterKeeps
<1> QED
  BY <1>1, <1>2, <1>3, <1>4, <1>5, <1>6, <1>7, <1>8 DEF Next, Ended

\* The invariant holds throughout a brief.
THEOREM InvHolds == Spec => []Inv
BY InvInit, InvStep, PTL DEF Spec

----------------------------------------------------------------------------
(* What is promised of every brief.                                        *)

\* A draft needs no human decision only if a reviewer of another provider found nothing
\* in it, and is verified only if its claims are quotes and its sentences cite, for every
\* list of providers and every number of corrections (pipeline.py:252-331).
THEOREM VerifiedEarned == Spec => []VerifiedIsEarned
<1>1. Inv => VerifiedIsEarned
  BY DEF Inv
<1> QED
  BY <1>1, InvHolds, PTL

\* What is handed back is the last draft with the report on it (pipeline.py:302-331).
THEOREM OneDraftReturned == Spec => []ResultIsOneDraft
<1>1. Inv => ResultIsOneDraft
  BY DEF Inv
<1> QED
  BY <1>1, InvHolds, PTL

\* The calls of a brief are drafts and reviews in turn, each hanging from what it is
\* about, and no more than the caller allowed (pipeline.py:237-322).
THEOREM CallsChain == Spec => []CallsFormAChain
<1>1. Inv => CallsFormAChain
  BY DEF Inv
<1> QED
  BY <1>1, InvHolds, PTL

\* In off mode the receipt says that the ledger failed exactly when the dispatch or the
\* return of some call was not recorded; it says nothing of an output that was not
\* bound, nor of anything under governance (pipeline.py:19-32, 172-175, 229, 259, 274, 311).
THEOREM LossAdmitted == Spec => []LossIsAdmitted
<1>1. Inv => LossIsAdmitted
  BY DEF Inv, LossIsAdmitted, Lost
<1> QED
  BY <1>1, InvHolds, PTL

\* The state of a brief is of its type.
THEOREM TypeCorrect == Spec => []TypeOK
<1>1. Inv => TypeOK
  BY DEF Inv
<1> QED
  BY <1>1, InvHolds, PTL
=============================================================================
