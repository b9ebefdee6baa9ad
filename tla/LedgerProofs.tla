---------------------------- MODULE LedgerProofs ----------------------------
(***************************************************************************)
(* Theorems about Ledger.tla, for every set of jobs and nodes, every       *)
(* number of faults and every content of the control database.             *)
(***************************************************************************)
EXTENDS Ledger, FiniteSetTheorems, WellFoundedInduction, TLAPS

----------------------------------------------------------------------------
(* Induction over the naturals, with a set in the place of a predicate.    *)

\* A set of naturals has a least element.
LEMMA LeastOfNats ==
  ASSUME NEW T \in SUBSET Nat, T # {}
  PROVE  \E n \in T : \A m \in T : n <= m
<1> DEFINE Less == {pair \in Nat \X Nat : pair[1] < pair[2]}
<1>1. IsWellFoundedOn(Less, Nat)
  BY NatLessThanWellFounded DEF OpToRel
<1>2. \E n \in T : \A m \in T : <<m, n>> \notin Less
  <2> HIDE DEF Less
  <2> QED
    BY <1>1, WFMin
<1>3. \A m, n \in T : <<m, n>> \notin Less => n <= m
  OBVIOUS
<1> HIDE DEF Less
<1> QED
  BY <1>2, <1>3

\* A set with 0 and with the successor of each of its members has them all.
LEMMA Induction ==
  ASSUME NEW T, 0 \in T, \A n \in Nat : n \in T => n + 1 \in T
  PROVE  Nat \subseteq T
<1> SUFFICES ASSUME ~(Nat \subseteq T) PROVE FALSE
  OBVIOUS
<1>1. PICK n \in Nat \ T : \A m \in Nat \ T : n <= m
  BY LeastOfNats
<1>2. n # 0 /\ n - 1 \in Nat /\ n - 1 \in T
  BY <1>1
<1> QED
  BY <1>1, <1>2

\* Two functions that start alike and go on alike, and two that are alike.
Follow(N, f, g) == f[0] = g[0] /\ \A i \in 1..N : f[i - 1] = g[i - 1] => f[i] = g[i]
Alike(N, f, g) == \A i \in 0..N : f[i] = g[i]

\* The first are the second.
LEMMA SameCourse ==
  ASSUME NEW N \in Nat, NEW f, NEW g, Follow(N, f, g)
  PROVE  Alike(N, f, g)
<1> DEFINE T == {k \in Nat : k <= N => f[k] = g[k]}
<1>1. 0 \in T
  BY DEF Follow
<1>2. ASSUME NEW k \in Nat, k \in T PROVE k + 1 \in T
  <2> SUFFICES ASSUME k + 1 <= N PROVE f[k + 1] = g[k + 1]
    OBVIOUS
  <2>1. f[(k + 1) - 1] = g[(k + 1) - 1] /\ k + 1 \in 1..N
    BY <1>2
  <2> QED
    BY <2>1 DEF Follow
<1>3. Nat \subseteq T
  <2> HIDE DEF T
  <2> QED
    BY <1>1, <1>2, Induction
<1> QED
  BY <1>3 DEF Alike

\* A function on 0 to N, made of the base by one step after the other.
Closed(N, V, step) == \A i \in 1..N : \A v \in V : step[i][v] \in V
Iterate(N, V, base, step, f) ==
  f \in [0..N -> V] /\ f[0] = base /\ \A i \in 1..N : f[i] = step[i][f[i - 1]]

\* There is one.
LEMMA Iterates ==
  ASSUME NEW N \in Nat, NEW V, NEW base \in V, NEW step, Closed(N, V, step)
  PROVE  \E f : Iterate(N, V, base, step, f)
<1> DEFINE T == {k \in Nat : k <= N => \E f : Iterate(k, V, base, step, f)}
<1>1. 0 \in T
  <2> DEFINE g == [i \in 0..0 |-> base]
  <2>1. Iterate(0, V, base, step, g)
    BY DEF Iterate
  <2> QED
    BY <2>1
<1>2. ASSUME NEW k \in Nat, k \in T PROVE k + 1 \in T
  <2> SUFFICES ASSUME k + 1 <= N PROVE \E f : Iterate(k + 1, V, base, step, f)
    OBVIOUS
  <2>1. PICK f : Iterate(k, V, base, step, f)
    BY <1>2
  <2> DEFINE g == [i \in 0..(k + 1) |-> IF i <= k THEN f[i] ELSE step[k + 1][f[k]]]
  <2>2. f[k] \in V /\ k + 1 \in 1..N
    BY <2>1 DEF Iterate
  <2>3. step[k + 1][f[k]] \in V
    BY <2>2 DEF Closed
  <2>4. g \in [0..(k + 1) -> V]
    BY <2>1, <2>3 DEF Iterate
  <2>5. g[0] = base
    BY <2>1 DEF Iterate
  <2>6. \A i \in 1..(k + 1) : g[i] = step[i][g[i - 1]]
    <3> TAKE i \in 1..(k + 1)
    <3>1. CASE i <= k
      BY <2>1, <3>1 DEF Iterate
    <3>2. CASE ~(i <= k)
      <4>1. i = k + 1 /\ i - 1 = k
        BY <3>2
      <4>2. g[k + 1] = step[k + 1][f[k]] /\ g[k] = f[k]
        OBVIOUS
      <4> QED
        BY <4>1, <4>2
    <3> QED
      BY <3>1, <3>2
  <2>7. Iterate(k + 1, V, base, step, g)
    BY <2>4, <2>5, <2>6 DEF Iterate
  <2> QED
    BY <2>7
<1>3. Nat \subseteq T
  <2> HIDE DEF T
  <2> QED
    BY <1>1, <1>2, Induction
<1> QED
  BY <1>3

----------------------------------------------------------------------------
(* The loader.                                                             *)

Loop(n, N, s, f) ==
  f = [i \in 0..N |-> IF i = 0 THEN None ELSE Take(n, f[i - 1], s[i])]

\* What the loader knows of a node after the lines of s.
Story(n, s) ==
  LET node[i \in 0..Len(s)] == IF i = 0 THEN None ELSE Take(n, node[i - 1], s[i])
  IN node[Len(s)]

Known == NodeRecord \cup {None}

\* A turn of the loop keeps the type.
LEMMA TakeType ==
  ASSUME NEW n \in Nodes, NEW node \in Known, NEW line \in Line
  PROVE  /\ Take(n, node, line) \in Known
         /\ Take(n, node, line) # None <=>
              node # None \/ (line.node = n /\ line.state = "whole")
<1>1. First(line) \in NodeRecord
  BY DEF First, Line, NodeRecord
<1>2. node # None => Merge(node, line) \in NodeRecord
  BY <1>1 DEF Merge, Or, Known, Line, NodeRecord
<1> QED
  BY <1>1, <1>2, LedgerAssumption DEF Take, Known

\* Two runs of the loop agree as long as their lines do.
LEMMA LoopsAgree ==
  ASSUME NEW n, NEW M \in Nat, NEW N \in Nat, N <= M, NEW s, NEW t,
         \A i \in 1..N : s[i] = t[i],
         NEW f, NEW g, Loop(n, N, s, f), Loop(n, M, t, g)
  PROVE  Alike(N, f, g)
<1>1. f[0] = g[0]
  BY DEF Loop
<1>2. \A i \in 1..N : f[i - 1] = g[i - 1] => f[i] = g[i]
  BY DEF Loop
<1>3. Follow(N, f, g)
  BY <1>1, <1>2 DEF Follow
<1> QED
  BY <1>3, SameCourse

\* The recursion of the loader has a solution, and it has a type.
LEMMA LoopRuns ==
  ASSUME NEW n \in Nodes, NEW N \in Nat, NEW s, \A i \in 1..N : s[i] \in Line
  PROVE  \E f : Loop(n, N, s, f) /\ f \in [0..N -> Known]
<1>1. PICK step : step = [i \in 1..N |-> [node \in Known |-> Take(n, node, s[i])]]
  OBVIOUS
<1>2. \A i \in 1..N : \A node \in Known : step[i][node] = Take(n, node, s[i])
  BY <1>1
<1>3. None \in Known
  BY DEF Known
<1>4. Closed(N, Known, step)
  BY <1>2, TakeType DEF Closed
<1>5. PICK f : Iterate(N, Known, None, step, f)
  BY <1>3, <1>4, Iterates
<1>6. \A i \in 1..N : f[i] = Take(n, f[i - 1], s[i])
  <2> TAKE i \in 1..N
  <2>1. i - 1 \in 0..N
    OBVIOUS
  <2> QED
    BY <1>2, <1>5, <2>1 DEF Iterate
<1>7. f = [i \in 0..N |-> IF i = 0 THEN None ELSE Take(n, f[i - 1], s[i])]
  BY <1>5, <1>6 DEF Iterate
<1> QED
  BY <1>5, <1>7 DEF Loop, Iterate

\* That solution is what the loader computes.
LEMMA StoryLoop ==
  ASSUME NEW n \in Nodes, NEW s \in Seq(Line), NEW N \in Nat, N = Len(s)
  PROVE  \E f : Loop(n, N, s, f) /\ f[N] \in Known /\ Story(n, s) = f[N]
<1>1. \A i \in 1..N : s[i] \in Line
  OBVIOUS
<1>2. PICK f : Loop(n, N, s, f) /\ f \in [0..N -> Known]
  BY <1>1, LoopRuns
<1> DEFINE h == CHOOSE g : Loop(n, N, s, g)
<1>3. Story(n, s) = h[N]
  BY DEF Story, Loop
<1>4. Loop(n, N, s, h)
  BY <1>2
<1> HIDE DEF h
<1>5. Alike(N, f, h)
  BY <1>2, <1>4, LoopsAgree
<1>6. f[N] = h[N] /\ f[N] \in Known
  BY <1>2, <1>5 DEF Alike
<1> QED
  BY <1>3, <1>4, <1>6

\* A line more is one turn more.
LEMMA StoryGrows ==
  ASSUME NEW n \in Nodes, NEW s \in Seq(Line), NEW line \in Line
  PROVE  /\ Story(n, s) \in Known
         /\ Story(n, s \o <<line>>) = Take(n, Story(n, s), line)
<1>1. PICK N \in Nat : N = Len(s)
  OBVIOUS
<1>2. PICK t : t = s \o <<line>>
  OBVIOUS
<1>3. t \in Seq(Line) /\ Len(t) = N + 1
  BY <1>1, <1>2
<1>4. t[N + 1] = line /\ \A i \in 1..N : s[i] = t[i]
  BY <1>1, <1>2
<1>5. PICK f : Loop(n, N, s, f) /\ f[N] \in Known /\ Story(n, s) = f[N]
  BY <1>1, StoryLoop
<1>6. PICK g : Loop(n, N + 1, t, g) /\ Story(n, t) = g[N + 1]
  BY <1>3, StoryLoop
<1>7. Alike(N, f, g)
  BY <1>4, <1>5, <1>6, LoopsAgree
<1>8. f[N] = g[N]
  BY <1>7 DEF Alike
<1>9. g[N + 1] = Take(n, g[N], t[N + 1])
  BY <1>6 DEF Loop
<1> QED
  BY <1>2, <1>4, <1>5, <1>6, <1>8, <1>9

\* Before the first line nothing is known.
LEMMA StoryBegins ==
  ASSUME NEW n \in Nodes
  PROVE  Story(n, <<>>) = None
<1>1. <<>> \in Seq(Line) /\ Len(<<>>) = 0
  OBVIOUS
<1>2. PICK f : Loop(n, 0, <<>>, f) /\ Story(n, <<>>) = f[0]
  BY <1>1, StoryLoop
<1> QED
  BY <1>1, <1>2 DEF Loop

\* The loader, and the loader after a step.
LEMMA FromFileIsStory ==
  ASSUME NEW n
  PROVE  FromFile(n) = Story(n, file) /\ FromFile(n)' = Story(n, file')
BY DEF FromFile, Story

----------------------------------------------------------------------------
(* The inductive invariant.  The events of a node are numbered from 0      *)
(* without a gap, and a job about to insert holds a number that was free   *)
(* when it read: by now it is taken, or it still is the next.              *)

Numbered(n, k) ==
  /\ Seqs(n) = 0..(k - 1)
  /\ \A e, f \in events[n] : e.seq = f.seq => e = f
  /\ n \notin rows => events[n] = {}
  /\ \A j \in Jobs : pc[j] = "insert" /\ NodeOf[j] = n => seq[j] \in 0..k

NumInv ==
  /\ events = [n \in Nodes |-> events[n]]
  /\ pc \in [Jobs -> Steps] /\ seq \in [Jobs -> Nat]
  /\ \A n \in Nodes : \E k \in Nat : Numbered(n, k)

\* The greatest of the first numbers is the last of them.
LEMMA GreatestOfFirst ==
  ASSUME NEW k \in Nat, k # 0
  PROVE  Greatest(0..(k - 1)) = k - 1
<1>1. k - 1 \in 0..(k - 1) /\ \A t \in 0..(k - 1) : t <= k - 1
  OBVIOUS
<1> QED
  BY <1>1 DEF Greatest

\* So append_event reads the number that is free.
LEMMA NextIsFree ==
  ASSUME NEW n \in Nodes, NEW k \in Nat, Numbered(n, k)
  PROVE  NextSeq(n) = k
<1>1. CASE k = 0
  <2>1. Seqs(n) = {}
    BY <1>1 DEF Numbered
  <2>2. events[n] = {}
    BY <2>1 DEF Seqs
  <2> QED
    BY <1>1, <2>2 DEF NextSeq
<1>2. CASE k # 0
  <2>1. events[n] # {}
    BY <1>2 DEF Numbered, Seqs
  <2>2. Greatest(Seqs(n)) = k - 1
    BY <1>2, GreatestOfFirst DEF Numbered
  <2> QED
    BY <2>1, <2>2 DEF NextSeq
<1> QED
  BY <1>1, <1>2

\* An empty ledger.
LEMMA NumInit == Init => NumInv
<1> SUFFICES ASSUME Init PROVE NumInv
  OBVIOUS
<1>1. ASSUME NEW n \in Nodes PROVE Numbered(n, 0)
  <2>1. Seqs(n) = {}
    BY DEF Init, Seqs
  <2> QED
    BY <2>1 DEF Init, Numbered
<1> QED
  BY <1>1 DEF Init, NumInv, Steps, Idle

\* A step that touches neither the events nor the rows, and makes nobody insert.
LEMMA NumSame ==
  ASSUME NumInv, UNCHANGED <<rows, events, seq>>, pc' \in [Jobs -> Steps],
         \A j \in Jobs : pc'[j] = "insert" => pc[j] = "insert"
  PROVE  NumInv'
<1>1. ASSUME NEW n \in Nodes, NEW k \in Nat, Numbered(n, k) PROVE Numbered(n, k)'
  BY <1>1 DEF Numbered, Seqs
<1> QED
  BY <1>1 DEF NumInv

\* A job that moves on, to a step other than the insert.
LEMMA GoesType ==
  ASSUME NumInv, NEW j \in Jobs, NEW step \in Steps \ {"insert"}, Goes(j, step)
  PROVE  /\ pc' \in [Jobs -> Steps]
         /\ \A i \in Jobs : pc'[i] = "insert" => pc[i] = "insert" /\ i # j
BY DEF NumInv, Goes

\* The event a node gets: the one with the next number.
LEMMA NumNext ==
  ASSUME NumInv, NEW n \in Nodes, NEW k \in Nat, Numbered(n, k), NEW e, e.seq = k,
         events'[n] = events[n] \cup {e}, n \in rows', seq' = seq,
         \A j \in Jobs : pc'[j] = "insert" => pc[j] = "insert"
  PROVE  Numbered(n, k + 1)'
<1>1. Seqs(n)' = Seqs(n) \cup {k}
  BY DEF Seqs
<1>2. Seqs(n)' = 0..k
  BY <1>1 DEF Numbered
<1>3. \A f \in events[n] : f.seq # k
  BY DEF Numbered, Seqs
<1>4. \A f, g \in events'[n] : f.seq = g.seq => f = g
  BY <1>3 DEF Numbered
<1>5. \A j \in Jobs : pc'[j] = "insert" /\ NodeOf[j] = n => seq'[j] \in 0..(k + 1)
  BY DEF Numbered
<1>6. 0..((k + 1) - 1) = 0..k
  OBVIOUS
<1> QED
  BY <1>2, <1>4, <1>5, <1>6 DEF Numbered

\* A node that is not touched keeps its numbers.
LEMMA NumKept ==
  ASSUME NumInv, NEW n \in Nodes, NEW k \in Nat, Numbered(n, k),
         events'[n] = events[n], n \in rows => n \in rows', seq' = seq,
         \A j \in Jobs : pc'[j] = "insert" => pc[j] = "insert"
  PROVE  Numbered(n, k)'
<1>1. Seqs(n)' = Seqs(n)
  BY DEF Seqs
<1> QED
  BY <1>1 DEF Numbered

\* The dispatch event is the first of a node that had no row.
LEMMA MirrorDispatchNum ==
  ASSUME NumInv, NEW j \in Jobs, MirrorDispatch(j)
  PROVE  NumInv'
<1> DEFINE node == NodeOf[j]
           e == [seq |-> 0, status |-> "dispatched", calls |-> None]
<1>1. /\ rows' = rows \cup {node} /\ seq' = seq /\ Goes(j, "working")
      /\ events' = IF node \in rows THEN events ELSE [events EXCEPT ![node] = {e}]
  BY DEF MirrorDispatch
<1>2. node \in Nodes /\ "working" \in Steps \ {"insert"}
  BY LedgerAssumption DEF Steps
<1>3. /\ pc' \in [Jobs -> Steps]
      /\ \A i \in Jobs : pc'[i] = "insert" => pc[i] = "insert"
  BY <1>1, <1>2, GoesType
<1>4. events' = [n \in Nodes |-> events'[n]]
      /\ \A n \in Nodes : events'[n] = IF n = node /\ node \notin rows THEN {e} ELSE events[n]
  BY <1>1, <1>2 DEF NumInv
<1>0. e.seq = 0
  OBVIOUS
<1> HIDE DEF e
<1>5. ASSUME NEW n \in Nodes, NEW k \in Nat, Numbered(n, k)
      PROVE  \E m \in Nat : Numbered(n, m)'
  <2>1. CASE n = node /\ node \notin rows
    <3>1. events[n] = {} /\ events'[n] = events[n] \cup {e}
      BY <1>4, <1>5, <2>1 DEF Numbered
    <3>2. Seqs(n) = {}
      BY <3>1 DEF Seqs
    <3>3. k = 0
      BY <1>5, <3>2 DEF Numbered
    <3>4. Numbered(n, k + 1)'
      BY <1>0, <1>1, <1>3, <1>5, <2>1, <3>1, <3>3, NumNext
    <3> QED
      BY <3>4
  <2>2. CASE ~(n = node /\ node \notin rows)
    <3>1. events'[n] = events[n]
      BY <1>4, <2>2
    <3> QED
      BY <1>1, <1>3, <1>5, <3>1, NumKept
  <2> QED
    BY <2>1, <2>2
<1> QED
  BY <1>1, <1>3, <1>4, <1>5 DEF NumInv

\* What append_event read is the next number, for now.
LEMMA ReadSeqNum ==
  ASSUME NumInv, NEW j \in Jobs, ReadSeq(j)
  PROVE  NumInv'
<1> DEFINE node == NodeOf[j]
<1>1. /\ UNCHANGED <<rows, events>> /\ seq' = [seq EXCEPT ![j] = NextSeq(node)]
      /\ pc' = [pc EXCEPT ![j] = "insert"]
  BY DEF ReadSeq, Goes, db
<1>2. node \in Nodes
  BY LedgerAssumption
<1>3. NextSeq(node) \in Nat
  BY <1>2, NextIsFree DEF NumInv
<1>4. pc' \in [Jobs -> Steps] /\ seq' \in [Jobs -> Nat]
  BY <1>1, <1>3 DEF NumInv, Steps
<1>5. ASSUME NEW n \in Nodes, NEW k \in Nat, Numbered(n, k) PROVE Numbered(n, k)'
  <2>1. Seqs(n)' = Seqs(n)
    BY <1>1 DEF Seqs
  <2>2. ASSUME NEW i \in Jobs, pc'[i] = "insert", NodeOf[i] = n PROVE seq'[i] \in 0..k
    <3>1. CASE i = j
      BY <1>1, <1>5, <2>2, <3>1, NextIsFree DEF NumInv
    <3>2. CASE i # j
      BY <1>1, <1>5, <2>2, <3>2 DEF NumInv, Numbered
    <3> QED
      BY <3>1, <3>2
  <2> QED
    BY <1>1, <1>5, <2>1, <2>2 DEF Numbered
<1> QED
  BY <1>1, <1>4, <1>5 DEF NumInv

\* The insert that found its number free takes the next one.
LEMMA InsertEventNum ==
  ASSUME NumInv, NEW j \in Jobs, InsertEvent(j)
  PROVE  NumInv'
<1> DEFINE node == NodeOf[j]
<1>1. /\ UNCHANGED <<rows, seq>> /\ pc[j] = "insert" /\ Goes(j, "bind")
      /\ \/ /\ node \in rows /\ seq[j] \notin Seqs(node)
            /\ events' = [events EXCEPT ![node] = @ \cup {ReturnEvent(j)}]
         \/ UNCHANGED events
  BY DEF InsertEvent
<1>2. node \in Nodes /\ "bind" \in Steps \ {"insert"}
  BY LedgerAssumption DEF Steps
<1>3. /\ pc' \in [Jobs -> Steps]
      /\ \A i \in Jobs : pc'[i] = "insert" => pc[i] = "insert"
  BY <1>1, <1>2, GoesType
<1>4. CASE UNCHANGED events
  BY <1>1, <1>3, <1>4, NumSame
<1>5. CASE /\ node \in rows /\ seq[j] \notin Seqs(node)
           /\ events' = [events EXCEPT ![node] = @ \cup {ReturnEvent(j)}]
  <2>1. events' = [n \in Nodes |-> events'[n]]
        /\ events'[node] = events[node] \cup {ReturnEvent(j)}
        /\ \A n \in Nodes \ {node} : events'[n] = events[n]
    BY <1>2, <1>5 DEF NumInv
  <2>2. ReturnEvent(j).seq = seq[j]
    BY DEF ReturnEvent
  <2>3. ASSUME NEW n \in Nodes, NEW k \in Nat, Numbered(n, k)
        PROVE  \E m \in Nat : Numbered(n, m)'
    <3>1. CASE n = node
      <4>1. ReturnEvent(j).seq = k
        BY <1>1, <1>5, <2>2, <2>3, <3>1 DEF Numbered
      <4>2. n \in rows'
        BY <1>1, <1>5, <3>1
      <4>3. Numbered(n, k + 1)'
        BY <1>1, <1>3, <2>1, <2>3, <3>1, <4>1, <4>2, NumNext
      <4> QED
        BY <4>3
    <3>2. CASE n # node
      BY <1>1, <1>3, <2>1, <2>3, <3>2, NumKept
    <3> QED
      BY <3>1, <3>2
  <2> QED
    BY <1>1, <1>3, <2>1, <2>3 DEF NumInv
<1> QED
  BY <1>1, <1>4, <1>5

\* The import takes the next number of every node in one transaction.
LEMMA ImportNum ==
  ASSUME NumInv, Import
  PROVE  NumInv'
<1> DEFINE e(n) == [seq |-> NextSeq(n), status |-> FromFile(n).status, calls |-> FromFile(n).calls]
<1>1. /\ rows' = rows \cup Loaded /\ UNCHANGED <<pc, seq>>
      /\ events' = [n \in Nodes |-> IF n \in Loaded THEN events[n] \cup {e(n)} ELSE events[n]]
  BY DEF Import
<1>2. \A n \in Nodes : e(n).seq = NextSeq(n)
  OBVIOUS
<1> HIDE DEF e
<1>3. ASSUME NEW n \in Nodes, NEW k \in Nat, Numbered(n, k)
      PROVE  \E m \in Nat : Numbered(n, m)'
  <2>1. CASE n \in Loaded
    <3>1. e(n).seq = k /\ events'[n] = events[n] \cup {e(n)} /\ n \in rows'
      BY <1>1, <1>2, <1>3, <2>1, NextIsFree
    <3>2. Numbered(n, k + 1)'
      BY <1>1, <1>3, <3>1, NumNext
    <3> QED
      BY <3>2
  <2>2. CASE n \notin Loaded
    BY <1>1, <1>3, <2>2, NumKept
  <2> QED
    BY <2>1, <2>2
<1>4. events' = [n \in Nodes |-> events'[n]]
  BY <1>1
<1> QED
  BY <1>1, <1>3, <1>4 DEF NumInv

\* The invariant is inductive.
LEMMA NumStep == NumInv /\ [Next]_vars => NumInv'
<1> SUFFICES ASSUME NumInv, [Next]_vars PROVE NumInv'
  OBVIOUS
<1>1. ASSUME NEW j \in Jobs, AppendDispatch(j) \/ AppendReturn(j) \/ StoreFails(j) \/ BindOutput(j) \/ Die(j)
      PROVE NumInv'
  <2>1. UNCHANGED <<rows, events, seq>>
    BY <1>1 DEF AppendDispatch, AppendReturn, StoreFails, BindOutput, Die, db
  <2>2. \E step \in Steps \ {"insert"} : Goes(j, step)
    BY <1>1 DEF AppendDispatch, AppendReturn, StoreFails, BindOutput, Die, After, Steps, Idle
  <2> QED
    BY <2>1, <2>2, GoesType, NumSame
<1>2. ASSUME NEW j \in Jobs, CreateSchema(j) \/ SchemaCreated(j) PROVE NumInv'
  BY <1>2, NumSame DEF CreateSchema, SchemaCreated, db, NumInv
<1>3. ASSUME NEW j \in Jobs, MirrorDispatch(j) \/ ReadSeq(j) \/ InsertEvent(j) PROVE NumInv'
  BY <1>3, MirrorDispatchNum, ReadSeqNum, InsertEventNum
<1>4. CASE Mark \/ ImportLost \/ UNCHANGED vars
  BY <1>4, NumSame DEF Mark, ImportLost, vars, db, NumInv
<1>5. CASE Import
  BY <1>5, ImportNum
<1> QED
  BY <1>1, <1>2, <1>3, <1>4, <1>5 DEF Next, Record, AllDone

\* And holds in every reachable state.
LEMMA NumHolds == Spec => []NumInv
BY NumInit, NumStep, PTL DEF Spec

----------------------------------------------------------------------------
(* The theorems.                                                           *)

\* Whoever races for a number, the events of a node are numbered without a gap and
\* without a double.
THEOREM EventsAreNumbered == Spec => []EventsNumbered
<1>1. ASSUME NumInv, NEW n \in Nodes
      PROVE  /\ \A e, f \in events[n] : e.seq = f.seq => e = f
             /\ \A e \in events[n] : \A k \in 0..e.seq : k \in Seqs(n)
  <2>1. PICK k \in Nat : Numbered(n, k)
    BY <1>1 DEF NumInv
  <2>2. \A e \in events[n] : e.seq \in 0..(k - 1)
    BY <2>1 DEF Numbered, Seqs
  <2> QED
    BY <2>1, <2>2 DEF Numbered
<1>2. NumInv => EventsNumbered
  BY <1>1 DEF EventsNumbered
<1> QED
  BY <1>2, NumHolds, PTL

\* The newest of events with lower numbers and of one more is that one.
LEMMA NewestIsLast ==
  ASSUME NEW E, NEW k \in Nat, \A f \in E : f.seq \in 0..(k - 1), NEW e, e.seq = k
  PROVE  Newest(E \cup {e}) = e
<1>1. \A f \in E \cup {e} : (\A g \in E \cup {e} : g.seq <= f.seq) => f = e
  OBVIOUS
<1>2. e \in E \cup {e} /\ \A g \in E \cup {e} : g.seq <= e.seq
  OBVIOUS
<1> QED
  BY <1>1, <1>2 DEF Newest

\* What a node that gets one more event loads to.
LEMMA StoreAfter ==
  ASSUME NEW n \in Nodes, NEW k \in Nat, Numbered(n, k), NEW e, e.seq = k,
         events'[n] = events[n] \cup {e}
  PROVE  /\ StatusFromDb(n)' = e.status
         /\ CallsFromDb(n)' = IF e.calls = None THEN CallsFromDb(n) ELSE e.calls
<1>1. \A f \in events[n] : f.seq \in 0..(k - 1)
  BY DEF Numbered, Seqs
<1>2. Newest(events[n] \cup {e}) = e
  BY <1>1, NewestIsLast
<1>3. PICK used : used = {f \in events[n] : f.calls # None}
  OBVIOUS
<1>4. Newest(used \cup {e}) = e
  BY <1>1, <1>3, NewestIsLast
<1>5. CallsFromDb(n)' = IF {f \in events'[n] : f.calls # None} = {} THEN None
                        ELSE Newest({f \in events'[n] : f.calls # None}).calls
  BY DEF CallsFromDb
<1>6. CallsFromDb(n) = IF used = {} THEN None ELSE Newest(used).calls
  BY <1>3 DEF CallsFromDb
<1>7. e.calls = None => {f \in events'[n] : f.calls # None} = used
  BY <1>3
<1>8. e.calls # None => {f \in events'[n] : f.calls # None} = used \cup {e}
  BY <1>3
<1>9. StatusFromDb(n)' = e.status
  BY <1>2 DEF StatusFromDb
<1> QED
  BY <1>4, <1>5, <1>6, <1>7, <1>8, <1>9

\* A node whose events are not touched loads to the same.
LEMMA StoreSame ==
  ASSUME NEW n \in Nodes, events'[n] = events[n]
  PROVE  StatusFromDb(n)' = StatusFromDb(n) /\ CallsFromDb(n)' = CallsFromDb(n)
BY DEF StatusFromDb, CallsFromDb

\* No job puts a node that ended back to dispatched in the database.
THEOREM EndedNodesStay == Spec => EndedStaysEnded
<1>1. ASSUME NumInv, NEW j \in Jobs, MirrorDispatch(j) PROVE NothingReopens
  <2>1. \A n \in Nodes : n \notin rows => events[n] = {}
    BY <1>1 DEF NumInv, Numbered
  <2>2. \A n \in Nodes : events'[n] = events[n] \/ events[n] = {}
    BY <1>1, <2>1 DEF MirrorDispatch, NumInv
  <2> QED
    BY <2>2 DEF NothingReopens, StatusFromDb
<1>2. ASSUME NumInv, NEW j \in Jobs, InsertEvent(j) PROVE NothingReopens
  <2> DEFINE node == NodeOf[j]
  <2>1. node \in Nodes /\ StatusOf[j] # "dispatched"
    BY LedgerAssumption
  <2>2. CASE UNCHANGED events
    BY <2>2 DEF NothingReopens, StatusFromDb
  <2>3. CASE /\ seq[j] \notin Seqs(node)
             /\ events' = [events EXCEPT ![node] = @ \cup {ReturnEvent(j)}]
    <3>1. PICK k \in Nat : Numbered(node, k)
      BY <1>2, <2>1 DEF NumInv
    <3>2. ReturnEvent(j).seq = seq[j] /\ ReturnEvent(j).status = StatusOf[j]
      BY DEF ReturnEvent
    <3>3. ReturnEvent(j).seq = k
      BY <1>2, <2>3, <3>1, <3>2 DEF Numbered, InsertEvent
    <3>4. events'[node] = events[node] \cup {ReturnEvent(j)}
          /\ \A n \in Nodes \ {node} : events'[n] = events[n]
      BY <1>2, <2>1, <2>3 DEF NumInv
    <3>5. StatusFromDb(node)' = StatusOf[j]
      BY <2>1, <3>1, <3>2, <3>3, <3>4, StoreAfter
    <3>6. \A n \in Nodes \ {node} : StatusFromDb(n)' = StatusFromDb(n)
      BY <3>4, StoreSame
    <3> QED
      BY <2>1, <3>5, <3>6 DEF NothingReopens
  <2> QED
    BY <1>2, <2>2, <2>3 DEF InsertEvent
<1>3. ASSUME NEW j \in Jobs,
             \/ AppendDispatch(j) \/ AppendReturn(j) \/ StoreFails(j) \/ BindOutput(j) \/ Die(j)
             \/ CreateSchema(j) \/ SchemaCreated(j) \/ ReadSeq(j)
      PROVE UNCHANGED events
  BY <1>3 DEF AppendDispatch, AppendReturn, StoreFails, BindOutput, Die, CreateSchema,
     SchemaCreated, ReadSeq, db
<1>4. Mark \/ ImportLost \/ UNCHANGED vars => UNCHANGED events
  BY DEF Mark, ImportLost, vars, db
<1>5. UNCHANGED events => NothingReopens
  BY DEF NothingReopens, StatusFromDb
<1>6. Import => NothingReopens
  BY DEF Import, NothingReopens
<1>7. NumInv /\ [Next]_vars => NothingReopens
  BY <1>1, <1>2, <1>3, <1>4, <1>5, <1>6 DEF Next, Record, AllDone
<1> QED
  BY <1>7, NumHolds, PTL DEF Spec, EndedStaysEnded

----------------------------------------------------------------------------
(* The file.  A step leaves it or appends a line, and what is loaded goes  *)
(* on by one turn of the loop.                                             *)

FileInv ==
  /\ file \in Seq(Line)
  /\ \A n \in Nodes : FromFile(n) \in Known /\ (FromFile(n) # None <=> n \in Loaded)

\* The outcomes the file tells of a node, on lines that can be read or not.
Told(n) == {file[i].status : i \in {k \in DOMAIN file : file[k].node = n /\ file[k].state # "torn"}}

Appends(line) == line \in Line /\ file' = file \o <<line>>

\* A file that stays tells the same.
LEMMA FileStays ==
  ASSUME UNCHANGED file
  PROVE  /\ Loaded' = Loaded
         /\ \A n : FromFile(n)' = FromFile(n) /\ Told(n)' = Told(n)
         /\ \A m, n : BeforeInFile(m, n)' = BeforeInFile(m, n)
<1>1. \A n : FromFile(n)' = FromFile(n)
  BY FromFileIsStory
<1>2. Loaded' = Loaded /\ \A n : Told(n)' = Told(n)
  BY DEF Loaded, Told
<1>3. \A m, n : BeforeInFile(m, n)' = BeforeInFile(m, n)
  BY DEF BeforeInFile
<1> QED
  BY <1>1, <1>2, <1>3

\* A line more.
LEMMA FileGrows ==
  ASSUME file \in Seq(Line), NEW line, Appends(line)
  PROVE  /\ file' \in Seq(Line) /\ Len(file') = Len(file) + 1
         /\ Loaded' = Loaded \cup {n \in {line.node} : line.state = "whole"}
         /\ \A n \in Nodes : FromFile(n)' = Take(n, FromFile(n), line)
<1>1. line \in Line /\ file' = file \o <<line>>
  BY DEF Appends
<1>2. /\ file' \in Seq(Line) /\ Len(file') = Len(file) + 1
      /\ file'[Len(file) + 1] = line /\ \A i \in 1..Len(file) : file'[i] = file[i]
      /\ DOMAIN file = 1..Len(file) /\ DOMAIN file' = 1..(Len(file) + 1)
  BY <1>1
<1>3. \A n \in Nodes : FromFile(n)' = Take(n, FromFile(n), line)
  <2> TAKE n \in Nodes
  <2>1. Story(n, file \o <<line>>) = Take(n, Story(n, file), line)
    BY <1>1, StoryGrows
  <2>2. FromFile(n) = Story(n, file) /\ FromFile(n)' = Story(n, file')
    BY FromFileIsStory
  <2> QED
    BY <1>1, <2>1, <2>2
<1>4. PICK N \in Nat : N = Len(file)
  OBVIOUS
<1>5. Loaded' = Loaded \cup {n \in {line.node} : line.state = "whole"}
  <2>1. line.node \in Nodes
    BY <1>1 DEF Line
  <2>2. Loaded = {n \in Nodes : \E i \in 1..N : file[i].node = n /\ file[i].state = "whole"}
    BY <1>2, <1>4 DEF Loaded
  <2>3. Loaded' = {n \in Nodes : \E i \in 1..(N + 1) : file'[i].node = n /\ file'[i].state = "whole"}
    BY <1>2, <1>4 DEF Loaded
  <2>4. 1..(N + 1) = (1..N) \cup {N + 1}
    OBVIOUS
  <2>5. file'[N + 1] = line /\ \A i \in 1..N : file'[i] = file[i]
    BY <1>2, <1>4
  <2> QED
    BY <2>1, <2>2, <2>3, <2>4, <2>5
<1> QED
  BY <1>2, <1>3, <1>5

\* What the file tells only grows.
LEMMA ToldGrows ==
  ASSUME file \in Seq(Line), NEW line, Appends(line), NEW n
  PROVE  /\ Told(n) \subseteq Told(n)'
         /\ line.node = n /\ line.state # "torn" => line.status \in Told(n)'
<1>1. /\ file'[Len(file) + 1] = line /\ \A i \in DOMAIN file : file'[i] = file[i]
      /\ DOMAIN file \subseteq DOMAIN file' /\ Len(file) + 1 \in DOMAIN file'
  BY DEF Appends
<1>2. Told(n)' = {file'[i].status : i \in {k \in DOMAIN file' : file'[k].node = n /\ file'[k].state # "torn"}}
  BY DEF Told
<1> QED
  BY <1>1, <1>2 DEF Told

\* So the nodes that are loaded are those the loop has a record of.
LEMMA FileInvStep ==
  ASSUME FileInv, NEW line, Appends(line)
  PROVE  FileInv'
<1>1. /\ file' \in Seq(Line)
      /\ Loaded' = Loaded \cup {n \in {line.node} : line.state = "whole"}
      /\ \A n \in Nodes : FromFile(n)' = Take(n, FromFile(n), line)
  BY FileGrows DEF FileInv
<1>2. line \in Line
  BY DEF Appends
<1>3. ASSUME NEW n \in Nodes
      PROVE FromFile(n)' \in Known /\ (FromFile(n)' # None <=> n \in Loaded')
  <2>1. FromFile(n) \in Known /\ (FromFile(n) # None <=> n \in Loaded)
    BY DEF FileInv
  <2>2. /\ Take(n, FromFile(n), line) \in Known
        /\ Take(n, FromFile(n), line) # None <=>
             FromFile(n) # None \/ (line.node = n /\ line.state = "whole")
    BY <1>2, <2>1, TakeType
  <2> QED
    BY <1>1, <2>1, <2>2
<1> QED
  BY <1>1, <1>3 DEF FileInv

\* The fields of a line.
LEMMA LineFields ==
  ASSUME NEW j \in Jobs, NEW kind \in {"dispatch", "return"}, NEW time \in Nat,
         NEW state \in {"whole", "torn", "glued"}, NEW line, line = LineOf(j, kind, time, state)
  PROVE  /\ line \in Line
         /\ line.node = NodeOf[j] /\ line.time = time /\ line.state = state
         /\ kind = "dispatch" => /\ line.parent = ParentOf[j] /\ line.edge = EdgeOf[j]
                                 /\ line.status = "dispatched" /\ line.calls = None
         /\ kind = "return" => /\ line.parent = None /\ line.edge = None
                               /\ line.status = StatusOf[j] /\ line.calls = 1
BY LedgerAssumption DEF LineOf, Line, Statuses

\* What a record leaves in the file, and on whom it casts doubt.
LEMMA WrittenLine ==
  ASSUME file \in Seq(Line), NEW j \in Jobs, NEW kind \in {"dispatch", "return"}, Written(j, kind)
  PROVE  \E line :
           /\ Appends(line)
           /\ line.node = NodeOf[j] /\ line.state \in {"whole", "glued"}
           /\ \/ line.state = "whole" /\ line.time = Len(file) + 1 /\ Smoothly(j)
              \/ NodeOf[j] \in shaken' /\ line.time \in {0, Len(file) + 1}
           /\ shaken' \in {shaken, shaken \cup {NodeOf[j]}}
           /\ kind = "dispatch" => /\ line.parent = ParentOf[j] /\ line.edge = EdgeOf[j]
                                   /\ line.status = "dispatched" /\ line.calls = None
           /\ kind = "return" => /\ line.parent = None /\ line.edge = None
                                 /\ line.status = StatusOf[j] /\ line.calls = 1
<1>1. PICK stale \in BOOLEAN :
        /\ file' = file \o << LineOf(j, kind, IF stale THEN 0 ELSE Len(file) + 1,
                                     IF LastTorn THEN "glued" ELSE "whole") >>
        /\ IF stale \/ LastTorn THEN Shake(j) ELSE Smoothly(j)
        /\ IF stale THEN Fault ELSE Fine
  BY DEF Written
<1>2. PICK time \in Nat : time = IF stale THEN 0 ELSE Len(file) + 1
  OBVIOUS
<1>3. PICK state \in {"whole", "glued"} : state = IF LastTorn THEN "glued" ELSE "whole"
  OBVIOUS
<1>4. PICK line : line = LineOf(j, kind, time, state)
  OBVIOUS
<1>5. file' = file \o <<line>>
  BY <1>1, <1>2, <1>3, <1>4
<1>6. /\ line \in Line /\ line.node = NodeOf[j] /\ line.time = time /\ line.state = state
      /\ kind = "dispatch" => /\ line.parent = ParentOf[j] /\ line.edge = EdgeOf[j]
                              /\ line.status = "dispatched" /\ line.calls = None
      /\ kind = "return" => /\ line.parent = None /\ line.edge = None
                            /\ line.status = StatusOf[j] /\ line.calls = 1
  BY <1>3, <1>4, LineFields
<1>7. CASE stale \/ LastTorn
  <2>1. shaken' = shaken \cup {NodeOf[j]}
    BY <1>1, <1>7 DEF Shake
  <2> QED
    BY <1>2, <1>3, <1>5, <1>6, <2>1 DEF Appends
<1>8. CASE ~stale /\ ~LastTorn
  <2>1. Smoothly(j) /\ Fine
    BY <1>1, <1>8
  <2>2. shaken' \in {shaken, shaken \cup {NodeOf[j]}}
    BY <2>1 DEF Smoothly, Shake
  <2>3. line.state = "whole" /\ line.time = Len(file) + 1
    BY <1>2, <1>3, <1>6, <1>8
  <2> QED
    BY <1>3, <1>5, <1>6, <2>1, <2>2, <2>3 DEF Appends
<1> QED
  BY <1>7, <1>8

\* A record that fails: its line is lost, or torn.
LEMMA NotWrittenLine ==
  ASSUME file \in Seq(Line), NEW j \in Jobs, NEW kind \in {"dispatch", "return"}, NotWritten(j, kind)
  PROVE  /\ shaken' = shaken \cup {NodeOf[j]}
         /\ UNCHANGED file \/ \E line : Appends(line) /\ line.node = NodeOf[j] /\ line.state = "torn"
<1>1. CASE UNCHANGED file
  BY <1>1 DEF NotWritten, Shake
<1>2. CASE file' = file \o << LineOf(j, kind, Len(file) + 1, "torn") >>
  <2>1. PICK line : line = LineOf(j, kind, Len(file) + 1, "torn")
    OBVIOUS
  <2>2. line \in Line /\ line.node = NodeOf[j] /\ line.state = "torn"
    BY <2>1, LineFields
  <2> QED
    BY <1>2, <2>1, <2>2 DEF NotWritten, Shake, Appends
<1> QED
  BY <1>1, <1>2 DEF NotWritten

----------------------------------------------------------------------------
(* Types.                                                                  *)

TypeInv == TypeOK /\ NumInv /\ FileInv

\* A step that leaves the file.
LEMMA FileInvStays ==
  ASSUME FileInv, UNCHANGED file
  PROVE  FileInv'
<1>1. Loaded' = Loaded /\ \A n \in Nodes : FromFile(n)' = FromFile(n)
  BY FileStays
<1> QED
  BY <1>1 DEF FileInv

\* What a record does to the file, whether it writes it or fails to.
LEMMA RecordFile ==
  ASSUME FileInv, NEW j \in Jobs, NEW kind \in {"dispatch", "return"},
         Written(j, kind) \/ NotWritten(j, kind)
  PROVE  FileInv' /\ shaken' \in {shaken, shaken \cup {NodeOf[j]}}
<1>1. file \in Seq(Line)
  BY DEF FileInv
<1>2. UNCHANGED file \/ \E line : Appends(line)
  BY <1>1, WrittenLine, NotWrittenLine
<1>3. shaken' \in {shaken, shaken \cup {NodeOf[j]}}
  <2>1. Written(j, kind) => shaken' \in {shaken, shaken \cup {NodeOf[j]}}
    BY <1>1, WrittenLine
  <2>2. NotWritten(j, kind) => shaken' = shaken \cup {NodeOf[j]}
    BY <1>1, NotWrittenLine
  <2> QED
    BY <2>1, <2>2
<1>4. FileInv'
  BY <1>2, FileInvStays, FileInvStep
<1> QED
  BY <1>3, <1>4

\* The other actions leave it alone.
Leaves(j) ==
  \/ MirrorDispatch(j) \/ ReadSeq(j) \/ InsertEvent(j) \/ BindOutput(j)
  \/ CreateSchema(j) \/ SchemaCreated(j) \/ StoreFails(j) \/ Die(j)

LEMMA OthersLeaveFile ==
  ASSUME (\E j \in Jobs : Leaves(j)) \/ Mark \/ Import \/ ImportLost \/ UNCHANGED vars
  PROVE  UNCHANGED file
BY DEF Leaves, MirrorDispatch, ReadSeq, InsertEvent, BindOutput, CreateSchema, SchemaCreated,
   StoreFails, Die, Mark, Import, ImportLost, vars

\* The file, after any step.
LEMMA FileNext == FileInv /\ [Next]_vars => FileInv'
<1> SUFFICES ASSUME FileInv, [Next]_vars PROVE FileInv'
  OBVIOUS
<1>1. ASSUME NEW j \in Jobs, AppendDispatch(j) \/ AppendReturn(j) PROVE FileInv'
  BY <1>1, RecordFile DEF AppendDispatch, AppendReturn
<1>2. UNCHANGED file => FileInv'
  BY FileInvStays
<1> QED
  BY <1>1, <1>2, OthersLeaveFile DEF Next, Record, AllDone, Leaves

\* One more fault, or not.
LEMMA FaultType ==
  ASSUME faults \in 0..MaxFaults, Fault \/ Fine
  PROVE  faults' \in 0..MaxFaults
BY LedgerAssumption DEF Fault, Fine

\* The steps of a record, and the nodes in doubt.
LEMMA MovesType ==
  ASSUME TypeOK, NEW j \in Jobs, NEW step \in Steps, Goes(j, step),
         shaken' \in {shaken, shaken \cup {NodeOf[j]}}, Fault \/ Fine
  PROVE  pc' \in [Jobs -> Steps] /\ shaken' \subseteq Nodes /\ faults' \in 0..MaxFaults
<1>1. NodeOf[j] \in Nodes
  BY LedgerAssumption
<1>2. pc' \in [Jobs -> Steps] /\ shaken' \subseteq Nodes
  BY <1>1 DEF TypeOK, Goes
<1> QED
  BY <1>2, FaultType DEF TypeOK

\* The link a node gets is one of those it may have.
LEMMA LinkType ==
  ASSUME NEW T \in [Nodes -> Nodes \cup {None, "absent"}], NEW n \in Nodes,
         NEW parent \in Nodes \cup {None}, NEW edge, NEW known
  PROVE  Link(T, n, parent, edge, known) \in [Nodes -> Nodes \cup {None, "absent"}]
BY DEF Link

\* The record of a loaded node.
LEMMA RecordType ==
  ASSUME FileInv, NEW n \in Loaded
  PROVE  /\ FromFile(n) \in NodeRecord
         /\ FromFile(n).parent \in Nodes \cup {None} /\ FromFile(n).edge \in {None, "known", "unknown"}
         /\ FromFile(n).status \in Statuses /\ FromFile(n).calls \in {None, 1}
         /\ FromFile(n).time \in Nat
<1>1. FromFile(n) \in NodeRecord
  BY DEF FileInv, Known, Loaded
<1> QED
  BY <1>1 DEF NodeRecord

\* The initial state.
LEMMA TypeInitial == Init => TypeInv
<1> SUFFICES ASSUME Init PROVE TypeInv
  OBVIOUS
<1>1. file = <<>> /\ file \in Seq(Line)
  BY DEF Init
<1>2. ASSUME NEW n \in Nodes PROVE FromFile(n) = None /\ n \notin Loaded
  <2>1. FromFile(n) = None
    BY <1>1, StoryBegins, FromFileIsStory
  <2>2. n \notin Loaded
    BY <1>1 DEF Loaded
  <2> QED
    BY <2>1, <2>2
<1>3. FileInv
  BY <1>1, <1>2 DEF FileInv, Known
<1>4. pc \in [Jobs -> Steps] /\ seq \in [Jobs -> Nat]
  BY DEF Init, Steps, Idle
<1>5. events \in [Nodes -> SUBSET Event] /\ links \in [Nodes -> Nodes \cup {None, "absent"}]
  BY DEF Init
<1>6. sources \subseteq Nat \X Controls /\ outputs \subseteq rows /\ rows \subseteq Nodes
  BY DEF Init
<1>7. builder \in Jobs \cup {None} /\ imported \in Nat /\ importing \in BOOLEAN
  BY DEF Init
<1>8. schema \in {"none", "partial", "full"} /\ shaken \subseteq Nodes
  BY DEF Init
<1>9. faults \in 0..MaxFaults
  BY LedgerAssumption DEF Init
<1>10. TypeOK
  BY <1>1, <1>4, <1>5, <1>6, <1>7, <1>8, <1>9 DEF TypeOK
<1> QED
  BY <1>3, <1>10, NumInit DEF TypeInv

\* A dispatch line, and a return line.
LEMMA AppendsType ==
  ASSUME TypeInv, NEW j \in Jobs, AppendDispatch(j) \/ AppendReturn(j)
  PROVE  TypeOK'
<1>1. TypeOK /\ FileInv
  BY DEF TypeInv
<1>2. PICK kind \in {"dispatch", "return"}, step \in Steps :
        (Written(j, kind) \/ NotWritten(j, kind)) /\ Goes(j, step)
  BY DEF AppendDispatch, AppendReturn, Steps, Idle
<1>3. FileInv' /\ shaken' \in {shaken, shaken \cup {NodeOf[j]}}
  BY <1>1, <1>2, RecordFile
<1>4. Fault \/ Fine
  BY <1>2 DEF Written, NotWritten
<1>5. pc' \in [Jobs -> Steps] /\ shaken' \subseteq Nodes /\ faults' \in 0..MaxFaults
  BY <1>1, <1>2, <1>3, <1>4, MovesType
<1>6. UNCHANGED <<schema, builder, db, migration, seq>>
  BY DEF AppendDispatch, AppendReturn
<1>7. UNCHANGED <<schema, builder, rows, links, events, outputs, sources, imported, importing, seq>>
  BY <1>6 DEF db, migration
<1>8. file' \in Seq(Line)
  BY <1>3 DEF FileInv
<1> QED
  BY <1>1, <1>5, <1>7, <1>8 DEF TypeOK

\* The rows of a dispatch.
LEMMA MirrorDispatchType ==
  ASSUME TypeInv, NEW j \in Jobs, MirrorDispatch(j)
  PROVE  TypeOK'
<1> DEFINE n == NodeOf[j]
           e == [seq |-> 0, status |-> "dispatched", calls |-> None]
<1>1. TypeOK
  BY DEF TypeInv
<1>2. /\ rows' = rows \cup {n}
      /\ events' = IF n \in rows THEN events ELSE [events EXCEPT ![n] = {e}]
      /\ links' = Link(links, n, ParentOf[j], EdgeOf[j], rows')
      /\ Smoothly(j) /\ Goes(j, "working") /\ Fine
      /\ UNCHANGED <<file, schema, builder, outputs, sources, imported, importing, seq>>
  BY DEF MirrorDispatch, migration, Fine
<1>3. n \in Nodes /\ ParentOf[j] \in Nodes \cup {None}
  BY LedgerAssumption
<1>4. pc' \in [Jobs -> Steps] /\ shaken' \subseteq Nodes /\ faults' \in 0..MaxFaults
  BY <1>1, <1>2, MovesType DEF Smoothly, Shake, Steps
<1>5. links' \in [Nodes -> Nodes \cup {None, "absent"}]
  BY <1>1, <1>2, <1>3, LinkType DEF TypeOK
<1>6. e \in Event
  BY DEF Event, Statuses
<1>7. events' \in [Nodes -> SUBSET Event]
  <2> HIDE DEF e
  <2> QED
    BY <1>1, <1>2, <1>3, <1>6 DEF TypeOK
<1> QED
  BY <1>1, <1>2, <1>3, <1>4, <1>5, <1>7 DEF TypeOK

\* The number and the event of a return.
LEMMA ReturnType ==
  ASSUME TypeInv, NEW j \in Jobs, ReadSeq(j) \/ InsertEvent(j)
  PROVE  TypeOK'
<1> DEFINE n == NodeOf[j]
<1>1. TypeOK /\ NumInv
  BY DEF TypeInv
<1>2. /\ UNCHANGED <<file, schema, builder, rows, links, outputs, sources, imported, importing>>
      /\ Fine /\ (Smoothly(j) \/ Shake(j))
      /\ \E step \in Steps : Goes(j, step)
  BY DEF ReadSeq, InsertEvent, db, migration, Fine, Steps, Idle
<1>3. pc' \in [Jobs -> Steps] /\ shaken' \subseteq Nodes /\ faults' \in 0..MaxFaults
  BY <1>1, <1>2, MovesType DEF Smoothly, Shake
<1>4. n \in Nodes
  BY LedgerAssumption
<1>5. seq' \in [Jobs -> Nat]
  <2>1. NextSeq(n) \in Nat
    BY <1>1, <1>4, NextIsFree DEF NumInv
  <2> QED
    BY <1>1, <2>1 DEF TypeOK, ReadSeq, InsertEvent
<1>6. ReturnEvent(j) \in Event
  BY <1>1, LedgerAssumption DEF ReturnEvent, Event, Statuses, TypeOK
<1>7. events' \in [Nodes -> SUBSET Event]
  BY <1>1, <1>4, <1>6 DEF TypeOK, ReadSeq, InsertEvent, db
<1> QED
  BY <1>1, <1>2, <1>3, <1>5, <1>7 DEF TypeOK

\* The steps of a job that are not about rows and events.
LEMMA OtherStepsType ==
  ASSUME TypeInv, NEW j \in Jobs,
         BindOutput(j) \/ CreateSchema(j) \/ SchemaCreated(j) \/ StoreFails(j) \/ Die(j)
  PROVE  TypeOK'
<1>1. TypeOK
  BY DEF TypeInv
<1>2. CASE BindOutput(j)
  <2>1. pc' \in [Jobs -> Steps] /\ shaken' \subseteq Nodes /\ faults' \in 0..MaxFaults
    BY <1>1, <1>2, MovesType DEF BindOutput, Steps, Idle, Fine
  <2> QED
    BY <1>1, <1>2, <2>1 DEF TypeOK, BindOutput, migration
<1>3. CASE CreateSchema(j) \/ SchemaCreated(j)
  BY <1>1, <1>3 DEF TypeOK, CreateSchema, SchemaCreated, db, migration
<1>4. CASE StoreFails(j) \/ Die(j)
  <2>1. \E step \in Steps : Goes(j, step)
    BY <1>4 DEF StoreFails, Die, After, Steps, Idle
  <2>2. Fault \/ Fine
    BY <1>4 DEF StoreFails, Die
  <2>3. pc' \in [Jobs -> Steps] /\ shaken' \subseteq Nodes /\ faults' \in 0..MaxFaults
    BY <1>1, <1>4, <2>1, <2>2, MovesType DEF StoreFails, Die, Shake
  <2> QED
    BY <1>1, <1>4, <2>3 DEF TypeOK, StoreFails, Die, db, migration
<1> QED
  BY <1>2, <1>3, <1>4

\* The migration.
LEMMA MigrationType ==
  ASSUME TypeInv, Mark \/ Import \/ ImportLost
  PROVE  TypeOK'
<1>1. TypeOK /\ NumInv /\ FileInv
  BY DEF TypeInv
<1>2. Len(file) \in Nat
  BY <1>1 DEF FileInv
<1>3. CASE Mark
  BY <1>1, <1>2, <1>3 DEF TypeOK, Mark, db
<1>4. CASE ImportLost
  <2>1. faults' \in 0..MaxFaults
    BY <1>1, <1>4, FaultType DEF ImportLost, TypeOK
  <2> QED
    BY <1>1, <1>4, <2>1 DEF TypeOK, ImportLost, db
<1>5. CASE Import
  <2> DEFINE e(n) == [seq |-> NextSeq(n), status |-> FromFile(n).status, calls |-> FromFile(n).calls]
             known(n) == rows \cup {m \in Loaded : BeforeInFile(m, n)}
  <2>1. /\ rows' = rows \cup Loaded
        /\ events' = [n \in Nodes |-> IF n \in Loaded THEN events[n] \cup {e(n)} ELSE events[n]]
        /\ links' = [n \in Nodes |->
             IF n \in Loaded
             THEN Link(links, n, FromFile(n).parent, FromFile(n).edge, known(n))[n] ELSE links[n]]
        /\ imported' = Len(file) /\ importing' = FALSE
        /\ UNCHANGED <<file, schema, builder, outputs, sources, pc, seq, shaken, faults>>
    BY <1>5 DEF Import
  <2>2. ASSUME NEW n \in Loaded PROVE e(n) \in Event
    <3>1. NextSeq(n) \in Nat
      BY <1>1, NextIsFree DEF NumInv, Loaded
    <3> QED
      BY <1>1, <3>1, RecordType DEF Event
  <2> HIDE DEF e, known
  <2>3. events' \in [Nodes -> SUBSET Event]
    BY <1>1, <2>1, <2>2 DEF TypeOK
  <2>4. ASSUME NEW n \in Loaded
        PROVE  Link(links, n, FromFile(n).parent, FromFile(n).edge, known(n))[n]
                 \in Nodes \cup {None, "absent"}
    <3>1. links \in [Nodes -> Nodes \cup {None, "absent"}] /\ n \in Nodes
      BY <1>1 DEF TypeOK, Loaded
    <3>2. FromFile(n).parent \in Nodes \cup {None}
      BY <1>1, RecordType
    <3>3. Link(links, n, FromFile(n).parent, FromFile(n).edge, known(n))
            \in [Nodes -> Nodes \cup {None, "absent"}]
      BY <3>1, <3>2, LinkType
    <3> QED
      BY <3>1, <3>3
  <2>5. links' \in [Nodes -> Nodes \cup {None, "absent"}]
    BY <1>1, <2>1, <2>4 DEF TypeOK
  <2>6. rows' \subseteq Nodes /\ outputs' \subseteq rows'
    BY <1>1, <2>1 DEF TypeOK, Loaded
  <2> QED
    BY <1>1, <1>2, <2>1, <2>3, <2>5, <2>6 DEF TypeOK
<1> QED
  BY <1>3, <1>4, <1>5

\* Types and numbers are kept.
LEMMA TypeNext == TypeInv /\ [Next]_vars => TypeInv'
<1> SUFFICES ASSUME TypeInv, [Next]_vars PROVE TypeInv'
  OBVIOUS
<1>1. NumInv' /\ FileInv'
  BY NumStep, FileNext DEF TypeInv
<1>2. UNCHANGED vars => TypeOK'
  BY DEF TypeInv, TypeOK, vars, db, migration
<1>3. TypeOK'
  BY <1>2, AppendsType, MirrorDispatchType, ReturnType, OtherStepsType, MigrationType
     DEF Next, Record, AllDone
<1> QED
  BY <1>1, <1>3 DEF TypeInv

\* So they hold in every reachable state.
LEMMA TypeHolds == Spec => []TypeInv
BY TypeInitial, TypeNext, PTL DEF Spec

\* Every variable of the ledger has its type; in particular what is loaded is
\* well formed whatever lines were torn, glued, stale or doubled.
THEOREM LedgerTypes == Spec => []TypeOK
<1>1. TypeInv => TypeOK
  BY DEF TypeInv
<1> QED
  BY <1>1, TypeHolds, PTL

----------------------------------------------------------------------------
(* The database tells no more than the file: what a job is about to insert *)
(* is on a line already, and what an import inserts is merged from lines.  *)

ToldLoaded == \A n \in Loaded : FromFile(n).status \in Told(n)

ToldJobs ==
  \A j \in Jobs :
    /\ pc[j] = "mirror" => "dispatched" \in Told(NodeOf[j])
    /\ pc[j] \in {"read", "insert"} => StatusOf[j] \in Told(NodeOf[j])

ToldDb ==
  \A n \in Nodes :
    /\ n \in rows => Told(n) # {}
    /\ \A e \in events[n] : e.status \in Told(n)

MirrorInv == ToldLoaded /\ ToldJobs /\ ToldDb

\* What a turn of the loop makes of a node is the outcome of the line, or of the
\* lines before it.
LEMMA TakeStatus ==
  ASSUME NEW n \in Nodes, NEW node \in Known, NEW line \in Line, Take(n, node, line) # None
  PROVE  \/ line.node = n /\ line.state = "whole" /\ Take(n, node, line).status = line.status
         \/ node # None /\ Take(n, node, line) = node
BY DEF Take, First, Merge

\* The steps that append a line, and what the line says.
LEMMA ToldAppends ==
  ASSUME FileInv, ToldLoaded, NEW line, Appends(line)
  PROVE  ToldLoaded'
<1>1. file \in Seq(Line) /\ FileInv' /\ line \in Line
  BY FileInvStep DEF FileInv, Appends
<1>2. \A n \in Nodes : FromFile(n)' = Take(n, FromFile(n), line)
  BY <1>1, FileGrows
<1>3. ASSUME NEW n \in Loaded' PROVE FromFile(n)'.status \in Told(n)'
  <2>1. n \in Nodes /\ FromFile(n) \in Known /\ FromFile(n)' # None
    BY <1>1 DEF FileInv, Loaded
  <2>2. CASE line.node = n /\ line.state = "whole" /\ FromFile(n)'.status = line.status
    BY <1>1, <2>2, ToldGrows
  <2>3. CASE FromFile(n) # None /\ FromFile(n)' = FromFile(n)
    <3>1. FromFile(n).status \in Told(n)
      BY <2>1, <2>3 DEF FileInv, ToldLoaded
    <3>2. Told(n) \subseteq Told(n)'
      BY <1>1, ToldGrows
    <3> QED
      BY <2>3, <3>1, <3>2
  <2> QED
    BY <1>1, <1>2, <2>1, <2>2, <2>3, TakeStatus
<1> QED
  BY <1>3 DEF ToldLoaded

\* A job that has its line written goes on to insert what the line says.
LEMMA MirrorAppends ==
  ASSUME FileInv, MirrorInv, pc \in [Jobs -> Steps], NEW j \in Jobs,
         AppendDispatch(j) \/ AppendReturn(j)
  PROVE  MirrorInv'
<1>1. file \in Seq(Line) /\ ToldLoaded /\ ToldJobs /\ ToldDb
  BY DEF FileInv, MirrorInv
<1>2. UNCHANGED <<rows, events>>
  BY DEF AppendDispatch, AppendReturn, db
<1>3. PICK kind \in {"dispatch", "return"}, step \in Steps :
        /\ Goes(j, step)
        /\ \/ NotWritten(j, kind) /\ step \notin {"mirror", "read", "insert"}
           \/ Written(j, kind) /\ step = IF kind = "dispatch" THEN "mirror" ELSE "read"
  BY DEF AppendDispatch, AppendReturn, Steps, Idle
<1>4. /\ \A n \in Nodes : Told(n) \subseteq Told(n)'
      /\ ToldLoaded'
  <2>1. UNCHANGED file \/ \E line : Appends(line)
    BY <1>1, <1>3, WrittenLine, NotWrittenLine
  <2>2. UNCHANGED file => (\A n \in Nodes : Told(n) \subseteq Told(n)') /\ ToldLoaded'
    BY <1>1, FileStays DEF ToldLoaded
  <2>3. ASSUME NEW line, Appends(line)
        PROVE (\A n \in Nodes : Told(n) \subseteq Told(n)') /\ ToldLoaded'
    BY <1>1, <2>3, ToldAppends, ToldGrows
  <2> QED
    BY <2>1, <2>2, <2>3
<1>5. NodeOf \in [Jobs -> Nodes]
  BY LedgerAssumption
<1>6. step = "mirror" => "dispatched" \in Told(NodeOf[j])'
  <2> SUFFICES ASSUME step = "mirror" PROVE "dispatched" \in Told(NodeOf[j])'
    OBVIOUS
  <2>1. Written(j, "dispatch")
    BY <1>3
  <2>2. PICK line : Appends(line) /\ line.node = NodeOf[j] /\ line.state # "torn" /\ line.status = "dispatched"
    BY <1>1, <2>1, WrittenLine
  <2> QED
    BY <1>1, <2>2, ToldGrows
<1>7. step \in {"read", "insert"} => StatusOf[j] \in Told(NodeOf[j])'
  <2> SUFFICES ASSUME step \in {"read", "insert"} PROVE StatusOf[j] \in Told(NodeOf[j])'
    OBVIOUS
  <2>1. Written(j, "return")
    BY <1>3
  <2>2. PICK line : Appends(line) /\ line.node = NodeOf[j] /\ line.state # "torn" /\ line.status = StatusOf[j]
    BY <1>1, <2>1, WrittenLine
  <2> QED
    BY <1>1, <2>2, ToldGrows
<1>8. ToldJobs'
  <2> SUFFICES ASSUME NEW k \in Jobs
               PROVE /\ pc'[k] = "mirror" => "dispatched" \in Told(NodeOf[k])'
                     /\ pc'[k] \in {"read", "insert"} => StatusOf[k] \in Told(NodeOf[k])'
    BY DEF ToldJobs
  <2>1. CASE k = j
    BY <1>3, <1>6, <1>7, <2>1 DEF Goes
  <2>2. CASE k # j
    <3>1. pc'[k] = pc[k] /\ NodeOf[k] \in Nodes
      BY <1>3, <1>5, <2>2 DEF Goes
    <3> QED
      BY <1>1, <1>4, <3>1 DEF ToldJobs
  <2> QED
    BY <2>1, <2>2
<1>9. ToldDb'
  BY <1>1, <1>2, <1>4 DEF ToldDb
<1> QED
  BY <1>4, <1>8, <1>9 DEF MirrorInv

\* The other steps leave the file: they insert what a job holds, or what is loaded.
LEMMA MirrorOthers ==
  ASSUME TypeInv, MirrorInv, UNCHANGED file,
         (\E j \in Jobs : Leaves(j)) \/ Mark \/ Import \/ ImportLost \/ UNCHANGED vars
  PROVE  MirrorInv'
<1>1. ToldLoaded /\ ToldJobs /\ ToldDb /\ TypeOK /\ FileInv
  BY DEF MirrorInv, TypeInv
<1>2. /\ Loaded' = Loaded /\ \A n : FromFile(n)' = FromFile(n)
      /\ \A n : Told(n)' = Told(n)
  BY FileStays
<1>3. ToldLoaded'
  BY <1>1, <1>2 DEF ToldLoaded
<1>4. \A k \in Jobs : pc'[k] \in {"mirror", "read"} => pc'[k] = pc[k]
  BY <1>1 DEF TypeOK, Leaves, MirrorDispatch, ReadSeq, InsertEvent, BindOutput, CreateSchema,
     SchemaCreated, StoreFails, Die, Mark, Import, ImportLost, vars, Goes, After
<1>5. \A k \in Jobs : pc'[k] = "insert" => pc[k] \in {"read", "insert"}
  BY <1>1 DEF TypeOK, Leaves, MirrorDispatch, ReadSeq, InsertEvent, BindOutput, CreateSchema,
     SchemaCreated, StoreFails, Die, Mark, Import, ImportLost, vars, Goes, After
<1>6. ToldJobs'
  BY <1>1, <1>2, <1>4, <1>5 DEF ToldJobs
<1>7. ToldDb'
  <2>1. ASSUME NEW j \in Jobs, MirrorDispatch(j) PROVE ToldDb'
    <3> DEFINE node == NodeOf[j]
               e == [seq |-> 0, status |-> "dispatched", calls |-> None]
    <3>1. pc[j] = "mirror" /\ rows' = rows \cup {node}
          /\ events' = IF node \in rows THEN events ELSE [events EXCEPT ![node] = {e}]
      BY <2>1 DEF MirrorDispatch
    <3>2. "dispatched" \in Told(node) /\ e.status = "dispatched"
      BY <1>1, <3>1 DEF ToldJobs
    <3> HIDE DEF e
    <3>3. \A n \in Nodes : events'[n] \subseteq events[n] \cup {f \in {e} : n = node}
      BY <1>1, <3>1 DEF TypeOK
    <3> QED
      BY <1>1, <1>2, <3>1, <3>2, <3>3 DEF ToldDb
  <2>2. ASSUME NEW j \in Jobs, InsertEvent(j) PROVE ToldDb'
    <3>1. StatusOf[j] \in Told(NodeOf[j]) /\ ReturnEvent(j).status = StatusOf[j]
      BY <1>1, <2>2 DEF ToldJobs, InsertEvent, ReturnEvent
    <3>2. rows' = rows
          /\ \A n \in Nodes : events'[n] \subseteq events[n] \cup {f \in {ReturnEvent(j)} : n = NodeOf[j]}
      BY <1>1, <2>2 DEF TypeOK, InsertEvent
    <3> QED
      BY <1>1, <1>2, <3>1, <3>2 DEF ToldDb
  <2>3. CASE Import
    <3> DEFINE e(n) == [seq |-> NextSeq(n), status |-> FromFile(n).status, calls |-> FromFile(n).calls]
    <3>1. /\ rows' = rows \cup Loaded
          /\ \A n \in Nodes : events'[n] = IF n \in Loaded THEN events[n] \cup {e(n)} ELSE events[n]
      BY <2>3 DEF Import
    <3>2. \A n \in Loaded : e(n).status \in Told(n)
      BY <1>1 DEF ToldLoaded
    <3> HIDE DEF e
    <3> QED
      BY <1>1, <1>2, <3>1, <3>2 DEF ToldDb
  <2>4. UNCHANGED <<rows, events>> => ToldDb'
    BY <1>1, <1>2 DEF ToldDb
  <2>5. UNCHANGED <<rows, events>> \/ Import \/ \E j \in Jobs : MirrorDispatch(j) \/ InsertEvent(j)
    BY DEF Leaves, ReadSeq, BindOutput, CreateSchema, SchemaCreated, StoreFails, Die, Mark,
       ImportLost, vars, db
  <2> QED
    BY <2>1, <2>2, <2>3, <2>4, <2>5
<1> QED
  BY <1>3, <1>6, <1>7 DEF MirrorInv

\* Nothing is told of in the initial state.
LEMMA MirrorInitial == Init => MirrorInv
<1> SUFFICES ASSUME Init PROVE MirrorInv
  OBVIOUS
<1>1. Loaded = {}
  BY DEF Init, Loaded
<1> QED
  BY <1>1 DEF Init, MirrorInv, ToldLoaded, ToldJobs, ToldDb

\* No step has the database tell more.
LEMMA MirrorNext == TypeInv /\ MirrorInv /\ [Next]_vars => MirrorInv'
<1> SUFFICES ASSUME TypeInv, MirrorInv, [Next]_vars PROVE MirrorInv'
  OBVIOUS
<1>1. FileInv /\ pc \in [Jobs -> Steps]
  BY DEF TypeInv, NumInv
<1> QED
  BY <1>1, MirrorAppends, MirrorOthers, OthersLeaveFile DEF Next, Record, AllDone, Leaves

\* record_dispatch and record_return write the file before the database: whatever
\* fails or dies in between, no row or event is of a node or an outcome that no
\* line tells.
THEOREM DatabaseTellsNoMore == Spec => []MirrorTellsNoMore
<1>1. TypeInv /\ MirrorInv => MirrorTellsNoMore
  BY DEF MirrorInv, ToldDb, MirrorTellsNoMore, Told
<1>2. Spec => []MirrorInv
  BY TypeHolds, MirrorInitial, MirrorNext, PTL DEF Spec
<1> QED
  BY <1>1, <1>2, TypeHolds, PTL

----------------------------------------------------------------------------
(* Rollup.  The walk from a root stops at a fixed point, so what it visits *)
(* is the root and the children of what it visits.                         *)

Spread(A) == A \cup UNION {Children(n) : n \in A}

\* The recursion of the walk has a solution, within the nodes that are loaded.
LEMMA SubtreeRuns ==
  ASSUME NEW N \in Nat, N = Cardinality(Loaded), NEW root \in Loaded
  PROVE  \E f : Iterate(N, SUBSET Loaded, {root}, [i \in 1..N |-> [A \in SUBSET Loaded |-> Spread(A)]], f)
                /\ Subtree(root) = f[N]
<1> DEFINE Walk(g) == g = [k \in 0..N |-> IF k = 0 THEN {root}
                                          ELSE g[k - 1] \cup UNION {Children(n) : n \in g[k - 1]}]
<1>1. PICK step : step = [i \in 1..N |-> [A \in SUBSET Loaded |-> Spread(A)]]
  OBVIOUS
<1>2. \A i \in 1..N : \A A \in SUBSET Loaded : step[i][A] = Spread(A)
  BY <1>1
<1>3. \A A \in SUBSET Loaded : Spread(A) \in SUBSET Loaded
  BY DEF Spread, Children
<1>4. Closed(N, SUBSET Loaded, step)
  BY <1>2, <1>3 DEF Closed
<1>5. {root} \in SUBSET Loaded
  OBVIOUS
<1>6. PICK f : Iterate(N, SUBSET Loaded, {root}, step, f)
  BY <1>4, <1>5, Iterates
<1>7. \A i \in 1..N : f[i] = Spread(f[i - 1])
  <2> TAKE i \in 1..N
  <2>1. i - 1 \in 0..N
    OBVIOUS
  <2> QED
    BY <1>2, <1>6, <2>1 DEF Iterate
<1>8. Walk(f)
  BY <1>6, <1>7 DEF Iterate, Spread
<1> DEFINE h == CHOOSE g : Walk(g)
<1>9. Subtree(root) = h[N] /\ Walk(h)
  BY <1>8 DEF Subtree
<1>10. Alike(N, f, h)
  <2> HIDE DEF h
  <2>1. h[0] = f[0] /\ \A i \in 1..N : h[i] = Spread(h[i - 1])
    BY <1>6, <1>9 DEF Spread, Iterate
  <2>2. Follow(N, f, h)
    BY <1>7, <2>1 DEF Follow
  <2> QED
    BY <2>2, SameCourse
<1>11. h[N] = f[N]
  BY <1>10 DEF Alike
<1> HIDE DEF h
<1> QED
  BY <1>1, <1>6, <1>9, <1>11

\* What one turn more may add was reached before, for want of nodes.
LEMMA SubtreeClosed ==
  ASSUME IsFiniteSet(Loaded), NEW root \in Loaded
  PROVE  /\ root \in Subtree(root) /\ Subtree(root) \subseteq Loaded
         /\ \A m \in Subtree(root) : Children(m) \subseteq Subtree(root)
         /\ \A n \in Subtree(root) : n = root \/ \E m \in Subtree(root) : n \in Children(m)
<1>1. PICK N \in Nat : N = Cardinality(Loaded)
  BY FS_CardinalityType
<1>2. PICK f : /\ f \in [0..N -> SUBSET Loaded] /\ f[0] = {root} /\ Subtree(root) = f[N]
               /\ \A i \in 1..N : f[i] = Spread(f[i - 1])
  <2> DEFINE step == [i \in 1..N |-> [A \in SUBSET Loaded |-> Spread(A)]]
  <2>1. PICK f : Iterate(N, SUBSET Loaded, {root}, step, f) /\ Subtree(root) = f[N]
    BY <1>1, SubtreeRuns
  <2>2. \A i \in 1..N : f[i] = Spread(f[i - 1])
    <3> TAKE i \in 1..N
    <3>1. i - 1 \in 0..N
      OBVIOUS
    <3> QED
      BY <2>1, <3>1 DEF Iterate
  <2> QED
    BY <2>1, <2>2 DEF Iterate
<1> DEFINE Reached(A) == root \in A /\ \A n \in A : n = root \/ \E m \in A : n \in Children(m)
           Full(A, k) == Spread(A) = A \/ Cardinality(A) >= k + 1
           T == {k \in Nat : k <= N => Reached(f[k]) /\ Full(f[k], k)}
<1>3. 0 \in T
  <2>1. Reached(f[0])
    BY <1>2
  <2>2. Cardinality(f[0]) = 1
    BY <1>2, FS_Singleton
  <2> QED
    BY <2>1, <2>2
<1>4. ASSUME NEW k \in Nat, k \in T PROVE k + 1 \in T
  <2> SUFFICES ASSUME k + 1 <= N PROVE Reached(f[k + 1]) /\ Full(f[k + 1], k + 1)
    OBVIOUS
  <2>1. (k + 1) - 1 = k /\ k + 1 \in 1..N /\ k \in 0..N /\ k + 1 \in 0..N
    OBVIOUS
  <2>2. f[k + 1] = Spread(f[k]) /\ f[k] \in SUBSET Loaded /\ f[k + 1] \in SUBSET Loaded
    BY <1>2, <2>1
  <2>3. Reached(f[k]) /\ Full(f[k], k)
    BY <1>4, <2>1
  <2>4. PICK A \in SUBSET Loaded, B \in SUBSET Loaded : A = f[k] /\ B = f[k + 1]
    BY <2>2
  <2>5. B = Spread(A) /\ Reached(A) /\ Full(A, k)
    BY <2>2, <2>3, <2>4
  <2>6. Reached(B)
    BY <2>5 DEF Spread
  <2>7. Full(B, k + 1)
    <3>1. CASE Spread(A) = A
      BY <2>5, <3>1
    <3>2. CASE Spread(A) # A
      <4>1. A \subseteq B /\ A # B /\ Cardinality(A) >= k + 1
        BY <2>5, <3>2 DEF Spread
      <4>2. IsFiniteSet(A) /\ IsFiniteSet(B)
        BY FS_Subset
      <4>3. Cardinality(A) \in Nat /\ Cardinality(B) \in Nat
        BY <4>2, FS_CardinalityType
      <4>4. Cardinality(A) <= Cardinality(B) /\ (Cardinality(B) = Cardinality(A) => B = A)
        BY <4>1, <4>2, FS_Subset
      <4> QED
        BY <4>1, <4>3, <4>4
    <3> QED
      BY <3>1, <3>2
  <2> QED
    BY <2>4, <2>6, <2>7
<1>5. N \in T
  <2> HIDE DEF T
  <2> QED
    BY <1>3, <1>4, Induction
<1>6. PICK S \in SUBSET Loaded : S = Subtree(root)
  BY <1>2
<1>7. Reached(S) /\ Full(S, N)
  BY <1>2, <1>5, <1>6
<1>8. Cardinality(S) <= N
  BY <1>1, FS_Subset
<1>9. IsFiniteSet(S)
  BY FS_Subset
<1>10. Cardinality(S) \in Nat
  BY <1>9, FS_CardinalityType
<1>11. Spread(S) = S
  BY <1>7, <1>8, <1>10
<1>12. \A m \in S : Children(m) \subseteq S
  BY <1>11 DEF Spread
<1> QED
  BY <1>6, <1>7, <1>12

\* A parent is named when its own dispatch was tried, so it is loaded, or in doubt.
ParentInv ==
  /\ IsFiniteSet(Loaded)
  /\ \A j \in Jobs : pc[j] # "idle" => NodeOf[j] \in Loaded \cup shaken
  /\ \A n \in Loaded : FromFile(n).parent \in {None} \cup Loaded \cup shaken

\* The parent of a node is that of a line, or of the lines before.
LEMMA TakeParent ==
  ASSUME NEW n \in Nodes, NEW node \in Known, NEW line \in Line, Take(n, node, line) # None
  PROVE  \/ line.node = n /\ Take(n, node, line).parent = line.parent
         \/ node # None /\ Take(n, node, line).parent = node.parent
BY DEF Take, First, Merge, Or

\* A line that names a parent which is accounted for.
LEMMA ParentAppends ==
  ASSUME FileInv, ParentInv, NEW line, Appends(line), shaken \subseteq shaken',
         line.parent \in {None} \cup Loaded \cup shaken
  PROVE  /\ IsFiniteSet(Loaded') /\ Loaded \subseteq Loaded'
         /\ \A n \in Loaded' : FromFile(n)'.parent \in {None} \cup Loaded' \cup shaken'
<1>1. /\ Loaded' = Loaded \cup {n \in {line.node} : line.state = "whole"}
      /\ \A n \in Nodes : FromFile(n)' = Take(n, FromFile(n), line)
  BY FileGrows DEF FileInv
<1>2. FileInv' /\ line \in Line
  BY FileInvStep DEF Appends
<1>3. Loaded' = Loaded \/ Loaded' = Loaded \cup {line.node}
  BY <1>1
<1>4. IsFiniteSet(Loaded')
  BY <1>3, FS_AddElement DEF ParentInv
<1>5. ASSUME NEW n \in Loaded' PROVE FromFile(n)'.parent \in {None} \cup Loaded' \cup shaken'
  <2>1. n \in Nodes /\ FromFile(n) \in Known /\ FromFile(n)' # None
        /\ (FromFile(n) # None => n \in Loaded)
    BY <1>2 DEF FileInv, Loaded
  <2>2. \/ FromFile(n)'.parent = line.parent
        \/ n \in Loaded /\ FromFile(n)'.parent = FromFile(n).parent
    BY <1>1, <1>2, <2>1, TakeParent
  <2> QED
    BY <1>1, <2>2 DEF ParentInv
<1> QED
  BY <1>1, <1>4, <1>5

\* A torn line names nothing that is loaded.
LEMMA ParentTorn ==
  ASSUME FileInv, ParentInv, NEW line, Appends(line), line.state = "torn", shaken \subseteq shaken'
  PROVE  /\ IsFiniteSet(Loaded') /\ Loaded \subseteq Loaded'
         /\ \A n \in Loaded' : FromFile(n)'.parent \in {None} \cup Loaded' \cup shaken'
<1>1. /\ Loaded' = Loaded
      /\ \A n \in Nodes : FromFile(n)' = Take(n, FromFile(n), line)
  BY FileGrows DEF FileInv
<1>2. \A n \in Nodes : FromFile(n)' = FromFile(n)
  BY <1>1 DEF Take
<1> QED
  BY <1>1, <1>2 DEF ParentInv, Loaded

\* A job that records has its node loaded or in doubt.
LEMMA ParentRecords ==
  ASSUME FileInv, ParentInv, pc \in [Jobs -> Steps], NEW j \in Jobs,
         AppendDispatch(j) \/ AppendReturn(j)
  PROVE  ParentInv'
<1>1. file \in Seq(Line)
  BY DEF FileInv
<1>2. PICK kind \in {"dispatch", "return"}, step \in Steps :
        /\ Goes(j, step)
        /\ Written(j, kind) \/ NotWritten(j, kind)
        /\ kind = "dispatch" => Due(j)
  BY DEF AppendDispatch, AppendReturn, Steps, Idle
<1>3. kind = "dispatch" => ParentOf[j] \in {None} \cup Loaded \cup shaken
  BY <1>2 DEF Due, ParentInv
<1> DEFINE Goal == /\ IsFiniteSet(Loaded') /\ Loaded \subseteq Loaded'
                   /\ \A n \in Loaded' : FromFile(n)'.parent \in {None} \cup Loaded' \cup shaken'
                   /\ NodeOf[j] \in Loaded' \cup shaken'
                   /\ shaken \subseteq shaken'
<1>4. ASSUME Written(j, kind) PROVE Goal
  <2>1. PICK line :
          /\ Appends(line) /\ line.node = NodeOf[j]
          /\ line.state = "whole" \/ NodeOf[j] \in shaken'
          /\ shaken' \in {shaken, shaken \cup {NodeOf[j]}}
          /\ kind = "dispatch" => line.parent = ParentOf[j]
          /\ kind = "return" => line.parent = None
    BY <1>1, <1>4, WrittenLine
  <2>2. line.parent \in {None} \cup Loaded \cup shaken
    BY <1>3, <2>1
  <2>3. shaken \subseteq shaken'
    BY <2>1
  <2>4. /\ IsFiniteSet(Loaded') /\ Loaded \subseteq Loaded'
        /\ \A n \in Loaded' : FromFile(n)'.parent \in {None} \cup Loaded' \cup shaken'
    BY <2>1, <2>2, <2>3, ParentAppends
  <2>5. NodeOf[j] \in Loaded' \cup shaken'
    BY <1>1, <2>1, FileGrows
  <2> QED
    BY <2>3, <2>4, <2>5
<1>5. ASSUME NotWritten(j, kind) PROVE Goal
  <2>1. /\ shaken' = shaken \cup {NodeOf[j]}
        /\ UNCHANGED file \/ \E line : Appends(line) /\ line.state = "torn"
    BY <1>1, <1>5, NotWrittenLine
  <2>2. CASE UNCHANGED file
    <3>1. Loaded' = Loaded /\ \A n : FromFile(n)' = FromFile(n)
      BY <2>2, FileStays
    <3> QED
      BY <2>1, <3>1 DEF ParentInv
  <2>3. CASE \E line : Appends(line) /\ line.state = "torn"
    BY <2>1, <2>3, ParentTorn
  <2> QED
    BY <2>1, <2>2, <2>3
<1>6. Goal
  BY <1>2, <1>4, <1>5
<1>7. \A k \in Jobs : pc'[k] # "idle" => NodeOf[k] \in Loaded' \cup shaken'
  BY <1>2, <1>6 DEF Goes, ParentInv
<1> QED
  BY <1>6, <1>7 DEF ParentInv

\* The other steps leave the file, and shake nodes at most.
LEMMA ParentOthers ==
  ASSUME ParentInv, pc \in [Jobs -> Steps], UNCHANGED file,
         (\E j \in Jobs : Leaves(j)) \/ Mark \/ Import \/ ImportLost \/ UNCHANGED vars
  PROVE  ParentInv'
<1>1. Loaded' = Loaded /\ \A n : FromFile(n)' = FromFile(n)
  BY FileStays
<1>2. shaken \subseteq shaken'
  BY DEF Leaves, MirrorDispatch, ReadSeq, InsertEvent, BindOutput, CreateSchema, SchemaCreated,
     StoreFails, Die, Mark, Import, ImportLost, vars, Smoothly, Shake
<1>3. \A k \in Jobs : pc'[k] # "idle" => pc[k] # "idle"
  BY DEF Leaves, MirrorDispatch, ReadSeq, InsertEvent, BindOutput, CreateSchema, SchemaCreated,
     StoreFails, Die, Mark, Import, ImportLost, vars, Goes, Idle
<1> QED
  BY <1>1, <1>2, <1>3 DEF ParentInv

\* Nothing is loaded at first.
LEMMA ParentInitial == Init => ParentInv
<1> SUFFICES ASSUME Init PROVE ParentInv
  OBVIOUS
<1>1. Loaded = {}
  BY DEF Init, Loaded
<1>2. IsFiniteSet(Loaded)
  BY <1>1, FS_EmptySet
<1> QED
  BY <1>1, <1>2 DEF Init, ParentInv

\* So parents are accounted for by every step,
LEMMA ParentNext == TypeInv /\ ParentInv /\ [Next]_vars => ParentInv'
<1> SUFFICES ASSUME TypeInv, ParentInv, [Next]_vars PROVE ParentInv'
  OBVIOUS
<1>1. FileInv /\ pc \in [Jobs -> Steps]
  BY DEF TypeInv, NumInv
<1> QED
  BY <1>1, ParentRecords, ParentOthers, OthersLeaveFile DEF Next, Record, AllDone, Leaves

\* and in every reachable state.
LEMMA ParentHolds == Spec => []ParentInv
BY TypeHolds, ParentInitial, ParentNext, PTL DEF Spec

\* A child is in the walk of a root if its parent is, and only then.
LEMMA ChargedWithParent ==
  ASSUME IsFiniteSet(Loaded), NEW root \in Roots, NEW n \in Loaded, NEW parent,
         parent = FromFile(n).parent, parent # None
  PROVE  n \in Subtree(root) <=> parent \in Subtree(root)
<1>1. root \in Loaded /\ FromFile(root).parent = None
  BY DEF Roots
<1>2. /\ Subtree(root) \subseteq Loaded
      /\ \A m \in Subtree(root) : Children(m) \subseteq Subtree(root)
      /\ \A x \in Subtree(root) : x = root \/ \E m \in Subtree(root) : x \in Children(m)
  BY <1>1, SubtreeClosed
<1> QED
  BY <1>1, <1>2 DEF Children

\* rollup charges a node to the one root its parent is charged to, a root to itself,
\* and leaves a node out only below one whose own records failed: for any set of
\* nodes, any depth, and cycles of parents in the file included.
THEOREM RollupCharges == Spec => []RollupChargesOnce
<1>1. ASSUME FileInv, ParentInv PROVE RollupChargesOnce
  <2> DEFINE Charged(n) == {root \in Roots : n \in Subtree(root)}
  <2>1. IsFiniteSet(Loaded) /\ None \notin Loaded
    BY <1>1, LedgerAssumption DEF ParentInv, Loaded
  <2> SUFFICES ASSUME NEW n \in Loaded, NEW parent, parent = FromFile(n).parent
               PROVE IF parent = None THEN Charged(n) = {n}
                     ELSE IF parent \in Loaded THEN Charged(n) = Charged(parent)
                     ELSE Charged(n) = {} /\ parent \in shaken
    BY DEF RollupChargesOnce
  <2>2. CASE parent = None
    <3>1. n \in Roots /\ n \in Subtree(n)
      BY <2>1, <2>2, SubtreeClosed DEF Roots
    <3>2. ASSUME NEW root \in Roots, n \in Subtree(root) PROVE root = n
      <4>1. root \in Loaded
        BY DEF Roots
      <4>2. n = root \/ \E m \in Subtree(root) : n \in Children(m)
        BY <2>1, <3>2, <4>1, SubtreeClosed
      <4>3. Subtree(root) \subseteq Loaded
        BY <2>1, <4>1, SubtreeClosed
      <4> QED
        BY <2>1, <2>2, <4>2, <4>3 DEF Children
    <3> QED
      BY <2>2, <3>1, <3>2
  <2>3. CASE parent # None
    <3>1. \A root \in Roots : n \in Subtree(root) <=> parent \in Subtree(root)
      BY <2>1, <2>3, ChargedWithParent
    <3>2. CASE parent \in Loaded
      BY <2>3, <3>1, <3>2
    <3>3. CASE parent \notin Loaded
      <4>1. \A root \in Roots : Subtree(root) \subseteq Loaded
        BY <2>1, SubtreeClosed DEF Roots
      <4>2. parent \in shaken
        BY <1>1, <2>3, <3>3 DEF ParentInv
      <4> QED
        BY <2>3, <3>1, <3>3, <4>1, <4>2
    <3> QED
      BY <3>2, <3>3
  <2> QED
    BY <2>2, <2>3
<1>2. TypeInv => FileInv
  BY DEF TypeInv
<1> QED
  BY <1>1, <1>2, TypeHolds, ParentHolds, PTL

----------------------------------------------------------------------------
(* The migration.  While nothing was written since an import, no job has   *)
(* rows or events to write.                                                *)

Healed(n) ==
  /\ n \in rows
  /\ StatusFromDb(n) = FromFile(n).status
  /\ FromFile(n).calls # None => CallsFromDb(n) = FromFile(n).calls
  /\ links[n] = "absent" => FromFile(n).edge = "unknown" \/ ~BeforeInFile(FromFile(n).parent, n)

HealInv ==
  /\ imported <= Len(file)
  /\ importing => AtRest
  /\ imported = Len(file) =>
       /\ \A j \in Jobs : pc[j] \notin {"mirror", "read", "insert"}
       /\ \A n \in Loaded : Healed(n)

\* What an import makes of a node that is loaded.
LEMMA ImportNode ==
  ASSUME TypeInv, Import, NEW n \in Loaded
  PROVE  /\ n \in rows'
         /\ StatusFromDb(n)' = FromFile(n).status
         /\ CallsFromDb(n)' = IF FromFile(n).calls = None THEN CallsFromDb(n) ELSE FromFile(n).calls
         /\ links'[n] = links[n] \/ (links[n] = "absent" /\ links'[n] = FromFile(n).parent)
         /\ links'[n] = "absent" =>
              \/ FromFile(n).edge = "unknown"
              \/ FromFile(n).parent \notin rows \cup {None} /\ ~BeforeInFile(FromFile(n).parent, n)
<1> DEFINE e == [seq |-> NextSeq(n), status |-> FromFile(n).status, calls |-> FromFile(n).calls]
           known == rows \cup {m \in Loaded : BeforeInFile(m, n)}
<1>1. TypeOK /\ NumInv /\ FileInv /\ n \in Nodes
  BY DEF TypeInv, Loaded
<1>2. /\ rows' = rows \cup Loaded
      /\ events'[n] = events[n] \cup {e}
      /\ links'[n] = Link(links, n, FromFile(n).parent, FromFile(n).edge, known)[n]
  BY <1>1 DEF Import
<1>3. PICK k \in Nat : Numbered(n, k)
  BY <1>1 DEF NumInv
<1>4. e.seq = k
  BY <1>1, <1>3, NextIsFree
<1>5. e.status = FromFile(n).status /\ e.calls = FromFile(n).calls
  OBVIOUS
<1>6. /\ StatusFromDb(n)' = FromFile(n).status
      /\ CallsFromDb(n)' = IF FromFile(n).calls = None THEN CallsFromDb(n) ELSE FromFile(n).calls
  <2> HIDE DEF e
  <2> QED
    BY <1>1, <1>2, <1>3, <1>4, <1>5, StoreAfter
<1>7. links \in [Nodes -> Nodes \cup {None, "absent"}]
  BY <1>1 DEF TypeOK
<1>8. FromFile(n).parent \in Nodes \cup {None} /\ "absent" \notin Nodes \cup {None}
  BY <1>1, RecordType, LedgerAssumption
<1>9. \A m : BeforeInFile(m, n) => m \in Loaded
  <2>1. \A i \in DOMAIN file : file[i] \in Line
    BY <1>1 DEF FileInv
  <2>2. \A i \in DOMAIN file : file[i].node \in Nodes
    BY <2>1 DEF Line
  <2> QED
    BY <2>2 DEF BeforeInFile, Loaded
<1>10. links'[n] = IF links[n] = "absent" /\ FromFile(n).edge # "unknown"
                      /\ FromFile(n).parent \in known \cup {None}
                   THEN FromFile(n).parent ELSE links[n]
  <2> HIDE DEF known
  <2> QED
    BY <1>1, <1>2, <1>7 DEF Link
<1> QED
  BY <1>2, <1>6, <1>8, <1>9, <1>10

\* And of one that is not.
LEMMA ImportOther ==
  ASSUME Import, NEW n \in Nodes, n \notin Loaded
  PROVE  events'[n] = events[n] /\ links'[n] = links[n] /\ (n \in rows' <=> n \in rows)
BY DEF Import

\* What is healed stays so while neither the file nor the rows are touched.
LEMMA HealedStays ==
  ASSUME NEW n \in Nodes, Healed(n), UNCHANGED <<file, rows, links, events>>
  PROVE  Healed(n)'
<1>1. FromFile(n)' = FromFile(n)
      /\ \A m : BeforeInFile(m, n)' = BeforeInFile(m, n)
  BY FileStays
<1>2. BeforeInFile(FromFile(n).parent, n)' = BeforeInFile(FromFile(n).parent, n)
  BY <1>1 DEF BeforeInFile
<1>3. StatusFromDb(n)' = StatusFromDb(n) /\ CallsFromDb(n)' = CallsFromDb(n)
  BY StoreSame
<1> QED
  BY <1>1, <1>2, <1>3 DEF Healed

\* A step that touches neither, and after which no job has more to write.
LEMMA HealSame ==
  ASSUME HealInv, UNCHANGED <<file, rows, links, events, imported>>, importing' => AtRest',
         \A j \in Jobs : pc'[j] \in {"mirror", "read", "insert"} => pc[j] \in {"mirror", "read", "insert"}
  PROVE  HealInv'
<1>1. Loaded' = Loaded /\ Loaded \subseteq Nodes
  BY FileStays DEF Loaded
<1>2. ASSUME imported = Len(file) PROVE \A n \in Loaded : Healed(n)'
  BY <1>1, <1>2, HealedStays DEF HealInv
<1> QED
  BY <1>1, <1>2 DEF HealInv

\* A job that records: either the file gets longer than what was imported, or the
\* record is over.
LEMMA HealRecords ==
  ASSUME FileInv, HealInv, pc \in [Jobs -> Steps], imported \in Nat, NEW j \in Jobs,
         AppendDispatch(j) \/ AppendReturn(j)
  PROVE  HealInv'
<1>1. file \in Seq(Line) /\ Len(file) \in Nat
  BY DEF FileInv
<1>2. ~importing /\ UNCHANGED <<rows, links, events, importing, imported>>
  BY DEF AppendDispatch, AppendReturn, HealInv, AtRest, Idle, db, migration
<1>3. PICK kind \in {"dispatch", "return"}, step \in Steps :
        /\ Goes(j, step)
        /\ \/ NotWritten(j, kind) /\ step \notin {"mirror", "read", "insert"}
           \/ Written(j, kind)
  BY DEF AppendDispatch, AppendReturn, Steps, Idle
<1>4. (\E line : Appends(line)) \/ (UNCHANGED file /\ step \notin {"mirror", "read", "insert"})
  BY <1>1, <1>3, WrittenLine, NotWrittenLine
<1>5. CASE \E line : Appends(line)
  <2>1. Len(file') = Len(file) + 1
    BY <1>1, <1>5, FileGrows
  <2>2. imported' < Len(file')
    BY <1>1, <1>2, <2>1 DEF HealInv
  <2>3. imported' <= Len(file') /\ imported' # Len(file') /\ ~importing'
    BY <1>1, <1>2, <2>1, <2>2
  <2> QED
    BY <2>3 DEF HealInv
<1>6. CASE UNCHANGED file /\ step \notin {"mirror", "read", "insert"}
  <2>1. \A k \in Jobs : pc'[k] \in {"mirror", "read", "insert"} => pc[k] \in {"mirror", "read", "insert"}
    BY <1>3, <1>6 DEF Goes
  <2> QED
    BY <1>2, <1>6, <2>1, HealSame
<1> QED
  BY <1>4, <1>5, <1>6

\* A job that has rows or events to write: it had them while nothing was healed.
LEMMA HealWrites ==
  ASSUME HealInv, NEW j \in Jobs, MirrorDispatch(j) \/ ReadSeq(j) \/ InsertEvent(j)
  PROVE  HealInv'
<1>1. pc[j] \in {"mirror", "read", "insert"} /\ UNCHANGED <<file, imported, importing>>
  BY DEF MirrorDispatch, ReadSeq, InsertEvent, migration
<1>2. ~importing /\ imported # Len(file)
  BY <1>1 DEF HealInv, AtRest, Idle
<1> QED
  BY <1>1, <1>2 DEF HealInv

\* The steps that write neither file nor rows.
LEMMA HealOthers ==
  ASSUME HealInv, pc \in [Jobs -> Steps],
         \/ \E j \in Jobs : BindOutput(j) \/ CreateSchema(j) \/ SchemaCreated(j) \/ StoreFails(j) \/ Die(j)
         \/ Mark \/ ImportLost \/ UNCHANGED vars
  PROVE  HealInv'
<1>1. UNCHANGED <<file, rows, links, events, imported>>
  BY DEF BindOutput, CreateSchema, SchemaCreated, StoreFails, Die, Mark, ImportLost, vars, db, migration
<1>2. \A j \in Jobs : pc'[j] \in {"mirror", "read", "insert"} => pc[j] \in {"mirror", "read", "insert"}
  BY DEF BindOutput, CreateSchema, SchemaCreated, StoreFails, Die, Mark, ImportLost, vars, Goes, After
<1>3. importing' => AtRest'
  BY DEF BindOutput, CreateSchema, SchemaCreated, StoreFails, Die, Mark, ImportLost, vars,
     HealInv, AtRest, Idle, migration
<1> QED
  BY <1>1, <1>2, <1>3, HealSame

\* The import itself.
LEMMA HealImport ==
  ASSUME TypeInv, HealInv, Import
  PROVE  HealInv'
<1>1. UNCHANGED <<file, pc>> /\ imported' = Len(file) /\ importing' = FALSE /\ importing
  BY DEF Import
<1>2. Loaded' = Loaded /\ \A n : FromFile(n)' = FromFile(n)
  BY <1>1, FileStays
<1>3. \A j \in Jobs : pc'[j] \notin {"mirror", "read", "insert"}
  BY <1>1 DEF HealInv, AtRest, Idle
<1>4. ASSUME NEW n \in Loaded PROVE Healed(n)'
  <2>1. BeforeInFile(FromFile(n).parent, n)' = BeforeInFile(FromFile(n).parent, n)
    BY <1>1, <1>2 DEF BeforeInFile
  <2>2. /\ n \in rows' /\ StatusFromDb(n)' = FromFile(n).status
        /\ FromFile(n).calls # None => CallsFromDb(n)' = FromFile(n).calls
        /\ links'[n] = "absent" => FromFile(n).edge = "unknown" \/ ~BeforeInFile(FromFile(n).parent, n)
    BY ImportNode
  <2> QED
    BY <1>2, <2>1, <2>2 DEF Healed
<1>5. Len(file) \in Nat
  BY DEF TypeInv, FileInv
<1> QED
  BY <1>1, <1>2, <1>3, <1>4, <1>5 DEF HealInv

\* An empty file is imported.
LEMMA HealInitial == Init => HealInv
<1> SUFFICES ASSUME Init PROVE HealInv
  OBVIOUS
<1>1. Loaded = {} /\ Len(file) = 0 /\ imported = 0
  BY DEF Init, Loaded
<1> QED
  BY <1>1 DEF Init, HealInv

\* What was imported stays healed,
LEMMA HealNext == TypeInv /\ HealInv /\ [Next]_vars => HealInv'
<1> SUFFICES ASSUME TypeInv, HealInv, [Next]_vars PROVE HealInv'
  OBVIOUS
<1>1. FileInv /\ pc \in [Jobs -> Steps] /\ imported \in Nat
  BY DEF TypeInv, NumInv, TypeOK
<1> QED
  BY <1>1, HealRecords, HealWrites, HealOthers, HealImport DEF Next, Record, AllDone

\* in every reachable state.
LEMMA HealHolds == Spec => []HealInv
BY TypeHolds, HealInitial, HealNext, PTL DEF Spec

\* Where the parent of a node comes from, in the file and in the database.
FileParent(n) ==
  n \in Loaded /\ DispatchedFirst(n) =>
    \E j \in Jobs : NodeOf[j] = n /\ FromFile(n).parent = ParentOf[j]

DbParent(n) ==
  links[n] # "absent" =>
    \/ \E j \in Jobs : NodeOf[j] = n /\ links[n] = ParentOf[j]
    \/ n \in Loaded /\ ~DispatchedFirst(n)

SourceInv == \A n \in Nodes : FileParent(n) /\ DbParent(n)

\* A line that names the parent of a job that records its node.
Names(line) == \E j \in Jobs : NodeOf[j] = line.node /\ line.parent = ParentOf[j]

Sourced(line) ==
  \/ line.state = "torn"
  \/ Names(line)
  \/ line.parent = None /\ line.status # "dispatched"

\* Which line of a loaded node comes first is not changed by one more,
LEMMA FirstStays ==
  ASSUME file \in Seq(Line), NEW line, Appends(line), NEW n \in Loaded
  PROVE  DispatchedFirst(n)' <=> DispatchedFirst(n)
<1>1. PICK N \in Nat : N = Len(file)
  OBVIOUS
<1>2. /\ file'[N + 1] = line /\ \A i \in 1..N : file'[i] = file[i]
      /\ DOMAIN file = 1..N /\ DOMAIN file' = 1..(N + 1)
  BY <1>1 DEF Appends
<1>3. PICK i0 \in 1..N : file[i0].node = n /\ file[i0].state = "whole"
  BY <1>2 DEF Loaded
<1> DEFINE Leads(f, i) == /\ f[i].node = n /\ f[i].state = "whole" /\ f[i].status = "dispatched"
                          /\ \A k \in 1..(i - 1) : f[k].node = n => f[k].state # "whole"
<1>4. DispatchedFirst(n) <=> \E i \in 1..N : Leads(file, i)
  BY <1>2 DEF DispatchedFirst
<1>5. DispatchedFirst(n)' <=> \E i \in 1..(N + 1) : Leads(file', i)
  BY <1>2 DEF DispatchedFirst
<1>6. ASSUME NEW i \in 1..N PROVE Leads(file', i) <=> Leads(file, i)
  BY <1>2
<1>7. ~Leads(file', N + 1)
  <2>1. i0 \in 1..((N + 1) - 1) /\ file'[i0] = file[i0]
    BY <1>2
  <2> QED
    BY <1>3, <2>1
<1>8. 1..(N + 1) = (1..N) \cup {N + 1}
  OBVIOUS
<1> HIDE DEF Leads
<1> QED
  BY <1>4, <1>5, <1>6, <1>7, <1>8

\* and a node that one more line loads has that line first.
LEMMA FirstBegins ==
  ASSUME file \in Seq(Line), NEW line, Appends(line), NEW n \in Nodes, n \notin Loaded,
         DispatchedFirst(n)'
  PROVE  line.node = n /\ line.state = "whole" /\ line.status = "dispatched"
<1>1. PICK N \in Nat : N = Len(file)
  OBVIOUS
<1>2. /\ file'[N + 1] = line /\ \A i \in 1..N : file'[i] = file[i]
      /\ DOMAIN file = 1..N /\ DOMAIN file' = 1..(N + 1)
  BY <1>1 DEF Appends
<1>3. PICK i \in 1..(N + 1) :
        file'[i].node = n /\ file'[i].state = "whole" /\ file'[i].status = "dispatched"
  BY <1>2 DEF DispatchedFirst
<1>4. i \notin 1..N
  BY <1>2, <1>3 DEF Loaded
<1>5. i = N + 1
  BY <1>4
<1> QED
  BY <1>2, <1>3, <1>5

\* A line keeps both accounts.
LEMMA SourceAppends ==
  ASSUME FileInv, SourceInv, NEW line, Appends(line), Sourced(line), UNCHANGED links
  PROVE  SourceInv'
<1>1. /\ file \in Seq(Line) /\ line \in Line
      /\ Loaded' = Loaded \cup {n \in {line.node} : line.state = "whole"}
      /\ \A n \in Nodes : FromFile(n)' = Take(n, FromFile(n), line)
  BY FileGrows DEF FileInv, Appends
<1> SUFFICES ASSUME NEW n \in Nodes PROVE FileParent(n)' /\ DbParent(n)'
  BY DEF SourceInv
<1>2. FileParent(n) /\ DbParent(n) /\ FromFile(n)' = Take(n, FromFile(n), line)
  BY <1>1 DEF SourceInv
<1>3. FromFile(n) = None <=> n \notin Loaded
  BY DEF FileInv
<1>4. CASE n \in Loaded
  <2>1. DispatchedFirst(n)' <=> DispatchedFirst(n)
    BY <1>1, <1>4, FirstStays
  <2>2. n \in Loaded'
    BY <1>1, <1>4
  <2>3. DbParent(n)'
    BY <1>2, <2>1, <2>2 DEF DbParent
  <2>4. ASSUME DispatchedFirst(n)
        PROVE  \E j \in Jobs : NodeOf[j] = n /\ FromFile(n)'.parent = ParentOf[j]
    <3>1. \E j \in Jobs : NodeOf[j] = n /\ FromFile(n).parent = ParentOf[j]
      BY <1>2, <1>4, <2>4 DEF FileParent
    <3>2. \/ FromFile(n)'.parent = FromFile(n).parent
          \/ line.node = n /\ line.state = "whole" /\ line.parent # None
             /\ FromFile(n)'.parent = line.parent
      BY <1>2, <1>3, <1>4 DEF Take, Merge, Or
    <3>3. line.node = n /\ line.state = "whole" /\ line.parent # None => Names(line)
      BY DEF Sourced
    <3> QED
      BY <3>1, <3>2, <3>3 DEF Names
  <2> QED
    BY <2>1, <2>3, <2>4 DEF FileParent
<1>5. CASE n \notin Loaded
  <2>1. ASSUME n \in Loaded', DispatchedFirst(n)'
        PROVE  \E j \in Jobs : NodeOf[j] = n /\ FromFile(n)'.parent = ParentOf[j]
    <3>1. line.node = n /\ line.state = "whole" /\ line.status = "dispatched"
      BY <1>1, <1>5, <2>1, FirstBegins
    <3>2. FromFile(n)'.parent = line.parent
      BY <1>2, <1>3, <1>5, <3>1 DEF Take, First
    <3> QED
      BY <3>1, <3>2 DEF Sourced, Names
  <2>2. DbParent(n)'
    BY <1>2, <1>5 DEF DbParent
  <2> QED
    BY <2>1, <2>2 DEF FileParent
<1> QED
  BY <1>4, <1>5

\* So does the step of a job that records.
LEMMA SourceRecords ==
  ASSUME FileInv, SourceInv, NEW j \in Jobs, AppendDispatch(j) \/ AppendReturn(j)
  PROVE  SourceInv'
<1>1. file \in Seq(Line) /\ UNCHANGED links
  BY DEF FileInv, AppendDispatch, AppendReturn, db
<1>2. PICK kind \in {"dispatch", "return"} : Written(j, kind) \/ NotWritten(j, kind)
  BY DEF AppendDispatch, AppendReturn
<1>3. UNCHANGED file \/ \E line : Appends(line) /\ Sourced(line)
  <2>1. ASSUME Written(j, kind) PROVE \E line : Appends(line) /\ Sourced(line)
    <3>1. PICK line :
            /\ Appends(line) /\ line.node = NodeOf[j]
            /\ kind = "dispatch" => line.parent = ParentOf[j]
            /\ kind = "return" => line.parent = None /\ line.status = StatusOf[j]
      BY <1>1, <2>1, WrittenLine
    <3>2. StatusOf[j] # "dispatched"
      BY LedgerAssumption
    <3>3. Sourced(line)
      BY <3>1, <3>2 DEF Sourced, Names
    <3> QED
      BY <3>1, <3>3
  <2>2. ASSUME NotWritten(j, kind) PROVE UNCHANGED file \/ \E line : Appends(line) /\ Sourced(line)
    BY <1>1, <2>2, NotWrittenLine DEF Sourced
  <2> QED
    BY <1>2, <2>1, <2>2
<1>4. UNCHANGED file => SourceInv'
  <2> SUFFICES ASSUME UNCHANGED file, NEW n \in Nodes PROVE FileParent(n)' /\ DbParent(n)'
    BY DEF SourceInv
  <2>1. FromFile(n)' = FromFile(n) /\ Loaded' = Loaded /\ DispatchedFirst(n)' = DispatchedFirst(n)
    BY FileStays DEF DispatchedFirst
  <2> QED
    BY <1>1, <2>1 DEF SourceInv, FileParent, DbParent
<1> QED
  BY <1>1, <1>3, <1>4, SourceAppends

\* The steps that leave the file give a node the link of its job, or of the file.
LEMMA SourceLinks ==
  ASSUME TypeInv, SourceInv, UNCHANGED file,
         (\E j \in Jobs : Leaves(j)) \/ Mark \/ Import \/ ImportLost \/ UNCHANGED vars
  PROVE  SourceInv'
<1> SUFFICES ASSUME NEW n \in Nodes PROVE FileParent(n)' /\ DbParent(n)'
  BY DEF SourceInv
<1>1. FromFile(n)' = FromFile(n) /\ Loaded' = Loaded /\ DispatchedFirst(n)' = DispatchedFirst(n)
  BY FileStays DEF DispatchedFirst
<1>2. FileParent(n) /\ DbParent(n)
  BY DEF SourceInv
<1>3. FileParent(n)'
  BY <1>1, <1>2 DEF FileParent
<1>4. links'[n] = links[n] => DbParent(n)'
  BY <1>1, <1>2 DEF DbParent
<1>5. links \in [Nodes -> Nodes \cup {None, "absent"}]
  BY DEF TypeInv, TypeOK
<1>6. ASSUME NEW j \in Jobs, MirrorDispatch(j) PROVE DbParent(n)'
  <2>1. links' = Link(links, NodeOf[j], ParentOf[j], EdgeOf[j], rows')
    BY <1>6 DEF MirrorDispatch
  <2>2. links'[n] = links[n] \/ (NodeOf[j] = n /\ links'[n] = ParentOf[j])
    BY <1>5, <2>1 DEF Link
  <2> QED
    BY <1>4, <2>2 DEF DbParent
<1>7. ASSUME Import PROVE DbParent(n)'
  <2>1. CASE n \in Loaded
    <3>1. links'[n] = links[n] \/ links'[n] = FromFile(n).parent
      BY <1>7, <2>1, ImportNode
    <3>2. CASE DispatchedFirst(n)
      <4>1. \E j \in Jobs : NodeOf[j] = n /\ FromFile(n).parent = ParentOf[j]
        BY <1>2, <2>1, <3>2 DEF FileParent
      <4> QED
        BY <1>4, <3>1, <4>1 DEF DbParent
    <3>3. CASE ~DispatchedFirst(n)
      BY <1>1, <2>1, <3>3 DEF DbParent
    <3> QED
      BY <3>2, <3>3
  <2>2. CASE n \notin Loaded
    BY <1>4, <1>7, <2>2, ImportOther
  <2> QED
    BY <2>1, <2>2
<1>8. (\E j \in Jobs : Leaves(j) /\ ~MirrorDispatch(j)) \/ Mark \/ ImportLost \/ UNCHANGED vars
        => UNCHANGED links
  BY DEF Leaves, ReadSeq, InsertEvent, BindOutput, CreateSchema, SchemaCreated, StoreFails, Die,
     Mark, ImportLost, vars, db
<1>9. DbParent(n)'
  BY <1>4, <1>6, <1>7, <1>8 DEF Leaves
<1> QED
  BY <1>3, <1>9

\* No file, no links.
LEMMA SourceInitial == Init => SourceInv
BY DEF Init, SourceInv, FileParent, DbParent, Loaded

\* Every step keeps the accounts,
LEMMA SourceNext == TypeInv /\ SourceInv /\ [Next]_vars => SourceInv'
<1> SUFFICES ASSUME TypeInv, SourceInv, [Next]_vars PROVE SourceInv'
  OBVIOUS
<1>1. FileInv
  BY DEF TypeInv
<1> QED
  BY <1>1, SourceRecords, SourceLinks, OthersLeaveFile DEF Next, Record, AllDone, Leaves

\* in every reachable state.
LEMMA SourceHolds == Spec => []SourceInv
BY TypeHolds, SourceInitial, SourceNext, PTL DEF Spec

\* migrate_to_3nf.py brings the database up to the file: after an import that was
\* committed, and until the file gets another line, every node of the file has a row
\* and loads from the database with the status and calls of the file; it lacks a link
\* only if the schema refuses its edge type or the parent comes later in the file; and
\* its link is to the parent of the file, if the file tells of its dispatch first and
\* its jobs name one parent.
THEOREM MigrationHealsAll == Spec => []MigrationHeals
<1>1. HealInv /\ SourceInv => MigrationHeals
  <2> SUFFICES ASSUME HealInv, SourceInv, imported = Len(file), NEW n \in Loaded
               PROVE /\ Healed(n)
                     /\ links[n] # "absent" /\ DispatchedFirst(n) /\ OneParentOf(n) =>
                          links[n] = FromFile(n).parent
    BY DEF MigrationHeals, Healed
  <2>1. Healed(n)
    BY DEF HealInv
  <2>2. n \in Nodes
    BY DEF Loaded
  <2>3. FileParent(n) /\ DbParent(n)
    BY <2>2 DEF SourceInv
  <2>4. links[n] # "absent" /\ DispatchedFirst(n) /\ OneParentOf(n) => links[n] = FromFile(n).parent
    BY <2>3 DEF FileParent, DbParent, OneParentOf
  <2> QED
    BY <2>1, <2>4
<1> QED
  BY <1>1, HealHolds, SourceHolds, PTL

----------------------------------------------------------------------------
(* The two stores agree.  What holds of a node whose records met nothing   *)
(* unusual, by what its jobs are at.                                       *)

\* Jobs that record one node name one parent: ledger_bridge.py is called with a fresh
\* node id for every call and the root node of the run as its parent.
OneParent == \A j, k \in Jobs : NodeOf[j] = NodeOf[k] => ParentOf[j] = ParentOf[k]

Busy(n) == {j \in Jobs : NodeOf[j] = n /\ pc[j] \in {"mirror", "read", "insert"}}
At(n, steps) == \E j \in Jobs : NodeOf[j] = n /\ pc[j] \in steps

Alone(n) == \A j, k \in Busy(n) : j = k

Dispatching(n) ==
  \A j \in Jobs : NodeOf[j] = n /\ pc[j] = "mirror" =>
    /\ ParentOf[j] \in {None} \cup rows \cup shaken
    /\ EdgeOf[j] = "unknown" => FromFile(n).edge = "unknown"

Returning(n) ==
  \A j \in Jobs : NodeOf[j] = n /\ pc[j] \in {"read", "insert"} =>
    FromFile(n).status = StatusOf[j] /\ FromFile(n).calls = 1

Unheard(n) == n \notin Loaded => n \notin rows /\ events[n] = {} /\ links[n] = "absent"

InFile(n) ==
  n \in Loaded =>
    /\ FromFile(n).time <= Len(file)
    /\ \A j \in Jobs : NodeOf[j] = n => FromFile(n).parent = ParentOf[j]

Linked(n) ==
  n \in Loaded =>
    /\ links[n] \in {FromFile(n).parent, "absent"}
    /\ ~At(n, {"mirror"}) =>
         /\ n \in rows
         /\ links[n] = "absent" => FromFile(n).edge = "unknown" \/ FromFile(n).parent \in shaken

Counted(n) ==
  n \in Loaded =>
    /\ ~At(n, {"read", "insert"}) => CallsFromDb(n) = FromFile(n).calls
    /\ ~At(n, {"mirror", "working", "read", "insert"}) => StatusFromDb(n) = FromFile(n).status

Calm(n) ==
  Alone(n) /\ Dispatching(n) /\ Returning(n) /\ Unheard(n) /\ InFile(n) /\ Linked(n) /\ Counted(n)

\* The jobs past their dispatch have rows, unless their record failed.
Dispatched == \A k \in Jobs : pc[k] \notin {"idle", "mirror"} => NodeOf[k] \in rows \cup shaken

StoreInv == Dispatched /\ \A n \in Nodes \ shaken : Calm(n)

\* A step that is about other nodes, or moves a job of the node where nothing hangs
\* on it.
LEMMA CalmSame ==
  ASSUME NEW n \in Nodes, Calm(n), FileInv,
         FromFile(n)' = FromFile(n), n \in Loaded' <=> n \in Loaded, Len(file') \in Nat,
         Len(file) <= Len(file'), n \in rows' <=> n \in rows, rows \subseteq rows',
         shaken \subseteq shaken', events'[n] = events[n], links'[n] = links[n],
         \A j \in Jobs : NodeOf[j] = n =>
           \/ pc'[j] = pc[j]
           \/ pc[j] = "bind" /\ pc'[j] = "done"
           \/ pc[j] = "read" /\ pc'[j] = "insert"
  PROVE  Calm(n)'
<1>1. StatusFromDb(n)' = StatusFromDb(n) /\ CallsFromDb(n)' = CallsFromDb(n)
  BY StoreSame
<1>2. \A j \in Jobs : NodeOf[j] = n =>
        /\ pc'[j] = "mirror" <=> pc[j] = "mirror"
        /\ pc'[j] = "working" <=> pc[j] = "working"
        /\ pc'[j] \in {"read", "insert"} <=> pc[j] \in {"read", "insert"}
  OBVIOUS
<1>3. Alone(n)' /\ Dispatching(n)' /\ Returning(n)'
  BY <1>2 DEF Calm, Alone, Busy, Dispatching, Returning
<1>4. Unheard(n)'
  BY DEF Calm, Unheard
<1>5. InFile(n)'
  <2>1. n \in Loaded => FromFile(n).time \in Nat /\ Len(file) \in Nat
    BY RecordType DEF FileInv
  <2> QED
    BY <2>1 DEF Calm, InFile
<1>6. /\ At(n, {"mirror"})' <=> At(n, {"mirror"})
      /\ At(n, {"read", "insert"})' <=> At(n, {"read", "insert"})
      /\ At(n, {"mirror", "working", "read", "insert"})' <=> At(n, {"mirror", "working", "read", "insert"})
  BY <1>2 DEF At
<1>7. Linked(n)' /\ Counted(n)'
  BY <1>1, <1>6 DEF Calm, Linked, Counted
<1> QED
  BY <1>3, <1>4, <1>5, <1>7 DEF Calm

\* A turn of the loop on a later line of the node.
LEMMA TakeLater ==
  ASSUME NEW n \in Nodes, NEW node \in Known, NEW line \in Line,
         line.node = n, line.state = "whole", node # None => line.time > node.time
  PROVE  /\ Take(n, node, line).status = line.status /\ Take(n, node, line).time = line.time
         /\ Take(n, node, line).parent =
              IF node = None \/ line.parent # None THEN line.parent ELSE node.parent
         /\ Take(n, node, line).edge =
              IF node = None \/ line.edge # None THEN line.edge ELSE node.edge
         /\ Take(n, node, line).calls =
              IF node = None \/ line.calls # None THEN line.calls ELSE node.calls
BY DEF Take, First, Merge, Or

\* A record that casts no doubt on its node met no other, and its line is the
\* newest of the node.
LEMMA CalmWrites ==
  ASSUME FileInv, NEW j \in Jobs, NEW kind \in {"dispatch", "return"}, NEW n, n = NodeOf[j],
         Written(j, kind), n \notin shaken', InFile(n)
  PROVE  /\ shaken' = shaken /\ Len(file') = Len(file) + 1
         /\ \A k \in Jobs \ {j} : NodeOf[k] = n => pc[k] \notin {"mirror", "read", "insert"}
         /\ n \in Loaded' /\ FromFile(n)'.time = Len(file) + 1
         /\ kind = "dispatch" =>
              /\ FromFile(n)'.status = "dispatched"
              /\ FromFile(n)'.parent = IF n \notin Loaded \/ ParentOf[j] # None
                                       THEN ParentOf[j] ELSE FromFile(n).parent
              /\ EdgeOf[j] = "unknown" => FromFile(n)'.edge = "unknown"
              /\ FromFile(n)'.calls = IF n \in Loaded THEN FromFile(n).calls ELSE None
         /\ kind = "return" =>
              /\ FromFile(n)'.status = StatusOf[j] /\ FromFile(n)'.calls = 1
              /\ n \in Loaded => /\ FromFile(n)'.parent = FromFile(n).parent
                                 /\ FromFile(n)'.edge = FromFile(n).edge
<1>1. file \in Seq(Line) /\ n \in Nodes /\ FromFile(n) \in Known /\ (FromFile(n) # None <=> n \in Loaded)
  BY LedgerAssumption DEF FileInv
<1>2. PICK line :
        /\ Appends(line) /\ line.node = n
        /\ line.state = "whole" /\ line.time = Len(file) + 1 /\ Smoothly(j)
        /\ kind = "dispatch" => /\ line.parent = ParentOf[j] /\ line.edge = EdgeOf[j]
                                /\ line.status = "dispatched" /\ line.calls = None
        /\ kind = "return" => /\ line.parent = None /\ line.edge = None
                              /\ line.status = StatusOf[j] /\ line.calls = 1
  BY <1>1, WrittenLine
<1>3. ~Overlaps(j) /\ shaken' = shaken
  BY <1>2 DEF Smoothly, Shake
<1>4. line \in Line
  BY <1>2 DEF Appends
<1>5. /\ Len(file') = Len(file) + 1 /\ n \in Loaded'
      /\ FromFile(n)' = Take(n, FromFile(n), line)
  BY <1>1, <1>2, FileGrows
<1>6. FromFile(n) # None => line.time > FromFile(n).time
  <2>1. n \in Loaded => FromFile(n).time \in Nat /\ FromFile(n).time <= Len(file) /\ Len(file) \in Nat
    BY <1>1, RecordType DEF InFile
  <2> QED
    BY <1>1, <1>2, <2>1
<1>7. /\ FromFile(n)'.status = line.status /\ FromFile(n)'.time = line.time
      /\ FromFile(n)'.parent = IF n \notin Loaded \/ line.parent # None THEN line.parent ELSE FromFile(n).parent
      /\ FromFile(n)'.edge = IF n \notin Loaded \/ line.edge # None THEN line.edge ELSE FromFile(n).edge
      /\ FromFile(n)'.calls = IF n \notin Loaded \/ line.calls # None THEN line.calls ELSE FromFile(n).calls
  BY <1>1, <1>2, <1>4, <1>5, <1>6, TakeLater
<1>8. \A k \in Jobs \ {j} : NodeOf[k] = n => pc[k] \notin {"mirror", "read", "insert"}
  BY <1>3 DEF Overlaps
<1>9. 1 # None /\ None # "unknown"
  BY LedgerAssumption
<1> QED
  BY <1>2, <1>3, <1>5, <1>7, <1>8, <1>9

\* The node of a dispatch line.
LEMMA DispatchCalm ==
  ASSUME OneParent, FileInv, Dispatched, pc \in [Jobs -> Steps], NEW j \in Jobs, AppendDispatch(j),
         NEW n, n = NodeOf[j], n \notin shaken', Calm(n)
  PROVE  Calm(n)'
<1>1. n \in Nodes /\ InFile(n) /\ file \in Seq(Line)
  BY LedgerAssumption DEF Calm, FileInv
<1>2. Written(j, "dispatch") /\ Goes(j, "mirror")
  BY <1>1, NotWrittenLine DEF AppendDispatch
<1>3. UNCHANGED <<rows, links, events>> /\ pc[j] = "idle" /\ Due(j)
  BY DEF AppendDispatch, db
<1>4. /\ shaken' = shaken /\ Len(file') = Len(file) + 1
      /\ \A k \in Jobs \ {j} : NodeOf[k] = n => pc[k] \notin {"mirror", "read", "insert"}
      /\ n \in Loaded' /\ FromFile(n)'.time = Len(file) + 1
      /\ FromFile(n)'.parent = IF n \notin Loaded \/ ParentOf[j] # None
                               THEN ParentOf[j] ELSE FromFile(n).parent
      /\ EdgeOf[j] = "unknown" => FromFile(n)'.edge = "unknown"
      /\ FromFile(n)'.calls = IF n \in Loaded THEN FromFile(n).calls ELSE None
  BY <1>1, <1>2, CalmWrites
<1>5. pc'[j] = "mirror" /\ \A k \in Jobs \ {j} : NodeOf[k] = n => pc'[k] \notin {"mirror", "read", "insert"}
  BY <1>2, <1>4 DEF Goes
<1>6. ParentOf[j] \in {None} \cup rows \cup shaken
  BY <1>3 DEF Due, Dispatched
<1>7. Alone(n)' /\ Returning(n)' /\ Unheard(n)'
  BY <1>4, <1>5 DEF Alone, Busy, Returning, Unheard
<1>8. Dispatching(n)'
  BY <1>3, <1>4, <1>5, <1>6 DEF Dispatching
<1>9. FromFile(n)'.parent = ParentOf[j]
  BY <1>1, <1>4 DEF InFile
<1>10. InFile(n)'
  <2>1. \A k \in Jobs : NodeOf[k] = n => ParentOf[k] = ParentOf[j]
    BY DEF OneParent
  <2> QED
    BY <1>1, <1>4, <1>9, <2>1 DEF InFile
<1>11. At(n, {"mirror"})' /\ At(n, {"mirror", "working", "read", "insert"})'
  BY <1>5 DEF At
<1>12. Linked(n)'
  <2>1. n \in Loaded => links[n] \in {ParentOf[j], "absent"}
    BY <1>1 DEF Calm, Linked, InFile
  <2>2. n \notin Loaded => links[n] = "absent"
    BY DEF Calm, Unheard
  <2> QED
    BY <1>3, <1>9, <1>11, <2>1, <2>2 DEF Linked
<1>13. Counted(n)'
  <2>1. CallsFromDb(n)' = CallsFromDb(n)
    BY <1>1, <1>3, StoreSame
  <2>2. n \in Loaded => CallsFromDb(n) = FromFile(n).calls
    BY <1>3, <1>4 DEF Calm, Counted, At
  <2>3. n \notin Loaded => CallsFromDb(n) = None
    BY DEF Calm, Unheard, CallsFromDb
  <2> QED
    BY <1>4, <1>11, <2>1, <2>2, <2>3 DEF Counted
<1> QED
  BY <1>7, <1>8, <1>10, <1>12, <1>13 DEF Calm

\* The node of a return line.
LEMMA ReturnCalm ==
  ASSUME FileInv, ParentInv, pc \in [Jobs -> Steps], NEW j \in Jobs, AppendReturn(j),
         NEW n, n = NodeOf[j], n \notin shaken, n \notin shaken', Calm(n)
  PROVE  Calm(n)'
<1>1. n \in Nodes /\ InFile(n) /\ file \in Seq(Line)
  BY LedgerAssumption DEF Calm, FileInv
<1>2. Written(j, "return") /\ Goes(j, "read")
  BY <1>1, NotWrittenLine DEF AppendReturn
<1>3. UNCHANGED <<rows, links, events>> /\ pc[j] = "working" /\ n \in Loaded
  BY DEF AppendReturn, db, ParentInv
<1>4. /\ shaken' = shaken /\ Len(file') = Len(file) + 1
      /\ \A k \in Jobs \ {j} : NodeOf[k] = n => pc[k] \notin {"mirror", "read", "insert"}
      /\ n \in Loaded' /\ FromFile(n)'.time = Len(file) + 1
      /\ FromFile(n)'.status = StatusOf[j] /\ FromFile(n)'.calls = 1
      /\ FromFile(n)'.parent = FromFile(n).parent
      /\ FromFile(n)'.edge = FromFile(n).edge
  BY <1>1, <1>2, <1>3, CalmWrites
<1>5. pc'[j] = "read" /\ \A k \in Jobs \ {j} : NodeOf[k] = n => pc'[k] \notin {"mirror", "read", "insert"}
  BY <1>2, <1>4 DEF Goes
<1>6. Alone(n)' /\ Dispatching(n)' /\ Unheard(n)'
  BY <1>4, <1>5 DEF Alone, Busy, Dispatching, Unheard
<1>7. Returning(n)'
  BY <1>4, <1>5 DEF Returning
<1>8. InFile(n)'
  BY <1>1, <1>3, <1>4 DEF InFile
<1>9. Linked(n)'
  <2>1. ~At(n, {"mirror"})
    BY <1>3, <1>4 DEF At
  <2> QED
    BY <1>3, <1>4, <2>1 DEF Calm, Linked
<1>10. Counted(n)'
  <2>1. At(n, {"read", "insert"})' /\ At(n, {"mirror", "working", "read", "insert"})'
    BY <1>5 DEF At
  <2> QED
    BY <2>1 DEF Counted
<1> QED
  BY <1>6, <1>7, <1>8, <1>9, <1>10 DEF Calm

\* The node that gets the rows of a dispatch.
LEMMA MirrorCalm ==
  ASSUME TypeInv, ParentInv, NEW j \in Jobs, MirrorDispatch(j),
         NEW n, n = NodeOf[j], n \notin shaken, n \notin shaken', Calm(n)
  PROVE  Calm(n)'
<1>1. TypeOK /\ NumInv /\ FileInv
  BY DEF TypeInv
<1>2. n \in Nodes /\ ParentOf[j] \in Nodes \cup {None} /\ "absent" \notin Nodes \cup {None}
  BY LedgerAssumption
<1>3. /\ pc[j] = "mirror" /\ UNCHANGED file /\ rows' = rows \cup {n}
      /\ events'[n] = IF n \in rows THEN events[n]
                      ELSE {[seq |-> 0, status |-> "dispatched", calls |-> None]}
      /\ links' = Link(links, n, ParentOf[j], EdgeOf[j], rows')
      /\ Smoothly(j) /\ Goes(j, "working")
  BY <1>1, <1>2 DEF MirrorDispatch, TypeOK
<1>4. n \in Loaded
  BY <1>3 DEF ParentInv
<1>5. Loaded' = Loaded /\ FromFile(n)' = FromFile(n)
  BY <1>3, FileStays
<1>6. ~Overlaps(j) /\ shaken' = shaken
  BY <1>3 DEF Smoothly, Shake
<1>7. \A k \in Jobs \ {j} : NodeOf[k] = n => pc[k] \notin {"mirror", "read", "insert"}
  BY <1>6 DEF Overlaps
<1>8. pc'[j] = "working" /\ \A k \in Jobs : NodeOf[k] = n => pc'[k] \notin {"mirror", "read", "insert"}
  BY <1>1, <1>3, <1>7 DEF Goes, TypeOK
<1>9. Alone(n)' /\ Dispatching(n)' /\ Returning(n)' /\ Unheard(n)'
  BY <1>4, <1>5, <1>8 DEF Alone, Busy, Dispatching, Returning, Unheard
<1>10. InFile(n)'
  BY <1>3, <1>4, <1>5 DEF Calm, InFile
<1>11. FromFile(n).parent = ParentOf[j] /\ links[n] \in {ParentOf[j], "absent"}
  BY <1>4 DEF Calm, InFile, Linked
<1>12. links'[n] = IF links[n] = "absent" /\ EdgeOf[j] # "unknown" /\ ParentOf[j] \in rows' \cup {None}
                   THEN ParentOf[j] ELSE links[n]
  BY <1>1, <1>2, <1>3 DEF Link, TypeOK
<1>13. /\ ParentOf[j] \in {None} \cup rows \cup shaken
       /\ EdgeOf[j] = "unknown" => FromFile(n).edge = "unknown"
  BY <1>3 DEF Calm, Dispatching
<1>14. Linked(n)'
  BY <1>2, <1>3, <1>5, <1>6, <1>11, <1>12, <1>13 DEF Linked
<1>15. Counted(n)'
  <2>1. n \notin rows => events[n] = {}
    BY <1>1, <1>2 DEF NumInv, Numbered
  <2>2. CallsFromDb(n)' = CallsFromDb(n)
    <3>1. CASE n \in rows
      BY <1>2, <1>3, <3>1, StoreSame
    <3>2. CASE n \notin rows
      <4>1. {e \in events[n] : e.calls # None} = {} /\ {e \in events'[n] : e.calls # None} = {}
        BY <1>3, <2>1, <3>2
      <4> QED
        BY <4>1 DEF CallsFromDb
    <3> QED
      BY <3>1, <3>2
  <2>3. CallsFromDb(n) = FromFile(n).calls
    BY <1>3, <1>4, <1>7 DEF Calm, Counted, At
  <2>4. At(n, {"mirror", "working", "read", "insert"})'
    BY <1>8 DEF At
  <2> QED
    BY <1>5, <2>2, <2>3, <2>4 DEF Counted
<1> QED
  BY <1>9, <1>10, <1>14, <1>15 DEF Calm

\* The node that gets the event of a return.
LEMMA InsertCalm ==
  ASSUME TypeInv, ParentInv, NEW j \in Jobs, InsertEvent(j),
         NEW n, n = NodeOf[j], n \notin shaken, n \notin shaken', Calm(n)
  PROVE  Calm(n)'
<1>1. TypeOK /\ NumInv /\ FileInv /\ n \in Nodes
  BY LedgerAssumption DEF TypeInv
<1>2. /\ pc[j] = "insert" /\ UNCHANGED <<file, rows, links>> /\ Goes(j, "bind")
      /\ seq[j] \notin Seqs(n) /\ Smoothly(j)
      /\ events'[n] = events[n] \cup {ReturnEvent(j)}
  BY <1>1 DEF InsertEvent, Shake, TypeOK
<1>3. n \in Loaded
  BY <1>2 DEF ParentInv
<1>4. Loaded' = Loaded /\ FromFile(n)' = FromFile(n)
  BY <1>2, FileStays
<1>5. ~Overlaps(j) /\ shaken' = shaken
  BY <1>2 DEF Smoothly, Shake
<1>6. \A k \in Jobs \ {j} : NodeOf[k] = n => pc[k] \notin {"mirror", "read", "insert"}
  BY <1>5 DEF Overlaps
<1>7. \A k \in Jobs : NodeOf[k] = n => pc'[k] \notin {"mirror", "read", "insert"}
  BY <1>1, <1>2, <1>6 DEF Goes, TypeOK
<1>8. Alone(n)' /\ Dispatching(n)' /\ Returning(n)' /\ Unheard(n)'
  BY <1>3, <1>4, <1>7 DEF Alone, Busy, Dispatching, Returning, Unheard
<1>9. InFile(n)'
  BY <1>2, <1>3, <1>4 DEF Calm, InFile
<1>10. Linked(n)'
  <2>1. ~At(n, {"mirror"})
    BY <1>2, <1>6 DEF At
  <2> QED
    BY <1>2, <1>3, <1>4, <1>5, <2>1 DEF Calm, Linked
<1>11. PICK m \in Nat : Numbered(n, m)
  BY <1>1 DEF NumInv
<1>12. ReturnEvent(j).seq = m
  <2>1. seq[j] \in 0..m /\ seq[j] \notin 0..(m - 1)
    BY <1>2, <1>11 DEF Numbered
  <2> QED
    BY <2>1 DEF ReturnEvent
<1>13. ReturnEvent(j).status = StatusOf[j] /\ ReturnEvent(j).calls = 1 /\ 1 # None
  BY LedgerAssumption DEF ReturnEvent
<1>14. StatusFromDb(n)' = StatusOf[j] /\ CallsFromDb(n)' = 1
  BY <1>1, <1>2, <1>11, <1>12, <1>13, StoreAfter
<1>15. FromFile(n).status = StatusOf[j] /\ FromFile(n).calls = 1
  BY <1>2 DEF Calm, Returning
<1>16. Counted(n)'
  BY <1>4, <1>14, <1>15 DEF Counted
<1> QED
  BY <1>8, <1>9, <1>10, <1>16 DEF Calm

\* A node that an import adds to.
LEMMA ImportCalm ==
  ASSUME TypeInv, HealInv, Import, NEW n \in Loaded, Calm(n)
  PROVE  Calm(n)'
<1>1. FileInv
  BY DEF TypeInv
<1>2. importing /\ UNCHANGED <<file, pc, shaken>> /\ n \in Nodes
  BY DEF Import, Loaded
<1>3. Loaded' = Loaded /\ FromFile(n)' = FromFile(n)
  BY <1>2, FileStays
<1>4. \A k \in Jobs : pc'[k] = pc[k] /\ pc[k] \notin {"mirror", "working", "read", "insert"}
  BY <1>2 DEF HealInv, AtRest, Idle
<1>5. ~At(n, {"mirror"}) /\ ~At(n, {"read", "insert"}) /\ ~At(n, {"mirror", "working", "read", "insert"})
  BY <1>4 DEF At
<1>6. /\ n \in rows'
      /\ StatusFromDb(n)' = FromFile(n).status
      /\ CallsFromDb(n)' = IF FromFile(n).calls = None THEN CallsFromDb(n) ELSE FromFile(n).calls
      /\ links'[n] = links[n] \/ (links[n] = "absent" /\ links'[n] = FromFile(n).parent)
  BY ImportNode
<1>7. FromFile(n).parent # "absent"
  BY <1>1, RecordType, LedgerAssumption
<1>8. /\ CallsFromDb(n) = FromFile(n).calls /\ links[n] \in {FromFile(n).parent, "absent"}
      /\ links[n] = "absent" => FromFile(n).edge = "unknown" \/ FromFile(n).parent \in shaken
  BY <1>5 DEF Calm, Counted, Linked
<1>9. Alone(n)' /\ Dispatching(n)' /\ Returning(n)' /\ Unheard(n)'
  BY <1>3, <1>4 DEF Alone, Busy, Dispatching, Returning, Unheard
<1>10. InFile(n)'
  BY <1>2, <1>3 DEF Calm, InFile
<1>11. Linked(n)'
  BY <1>2, <1>3, <1>6, <1>7, <1>8 DEF Linked
<1>12. Counted(n)'
  BY <1>3, <1>6, <1>8 DEF Counted
<1> QED
  BY <1>9, <1>10, <1>11, <1>12 DEF Calm

\* A record of one node leaves what is loaded of the others as it was.
LEMMA OtherNodes ==
  ASSUME FileInv, NEW j \in Jobs, NEW kind \in {"dispatch", "return"},
         Written(j, kind) \/ NotWritten(j, kind), NEW n \in Nodes, n # NodeOf[j]
  PROVE  /\ FromFile(n)' = FromFile(n) /\ (n \in Loaded' <=> n \in Loaded)
         /\ Len(file') \in Nat /\ Len(file) <= Len(file')
<1>1. file \in Seq(Line) /\ Len(file) \in Nat
  BY DEF FileInv
<1>2. UNCHANGED file \/ \E line : Appends(line) /\ line.node = NodeOf[j]
  BY <1>1, WrittenLine, NotWrittenLine
<1>3. CASE UNCHANGED file
  <2>1. Loaded' = Loaded /\ FromFile(n)' = FromFile(n)
    BY <1>3, FileStays
  <2> QED
    BY <1>1, <1>3, <2>1
<1>4. CASE \E line : Appends(line) /\ line.node = NodeOf[j]
  <2>1. PICK line : Appends(line) /\ line.node = NodeOf[j]
    BY <1>4
  <2>2. /\ Len(file') = Len(file) + 1
        /\ Loaded' = Loaded \cup {m \in {line.node} : line.state = "whole"}
        /\ FromFile(n)' = Take(n, FromFile(n), line)
    BY <1>1, <2>1, FileGrows
  <2>3. Take(n, FromFile(n), line) = FromFile(n)
    BY <2>1 DEF Take
  <2> QED
    BY <1>1, <2>1, <2>2, <2>3
<1> QED
  BY <1>2, <1>3, <1>4

\* A job past its dispatch has got there through the rows, or through a failure.
LEMMA DispatchedStep ==
  ASSUME Dispatched, rows \subseteq rows', shaken \subseteq shaken', pc \in [Jobs -> Steps],
         NEW j \in Jobs, NEW step \in Steps, Goes(j, step),
         step \in {"idle", "mirror"} \/ pc[j] \notin {"idle", "mirror"} \/ NodeOf[j] \in rows' \cup shaken'
  PROVE  Dispatched'
BY DEF Dispatched, Goes

\* Appends.
LEMMA StoreRecords ==
  ASSUME OneParent, FileInv, ParentInv, StoreInv, pc \in [Jobs -> Steps], NEW j \in Jobs,
         AppendDispatch(j) \/ AppendReturn(j)
  PROVE  StoreInv'
<1>1. /\ Dispatched /\ file \in Seq(Line) /\ UNCHANGED <<rows, links, events>>
  BY DEF StoreInv, FileInv, AppendDispatch, AppendReturn, db
<1>2. PICK kind \in {"dispatch", "return"}, step \in Steps :
        /\ Goes(j, step)
        /\ Written(j, kind) \/ NotWritten(j, kind)
        /\ NotWritten(j, kind) \/ step = "mirror" \/ pc[j] = "working"
  BY DEF AppendDispatch, AppendReturn, Steps, Idle
<1>3. shaken' \in {shaken, shaken \cup {NodeOf[j]}}
  BY <1>2, RecordFile
<1>4. Dispatched'
  <2>1. NotWritten(j, kind) => NodeOf[j] \in shaken'
    BY <1>1, NotWrittenLine
  <2> QED
    BY <1>1, <1>2, <1>3, <2>1, DispatchedStep
<1>5. ASSUME NEW n \in Nodes \ shaken' PROVE Calm(n)'
  <2>1. n \in Nodes \ shaken /\ Calm(n)
    BY <1>3 DEF StoreInv
  <2>2. CASE n = NodeOf[j]
    BY <1>1, <2>1, <2>2, DispatchCalm, ReturnCalm
  <2>3. CASE n # NodeOf[j]
    <3>1. /\ FromFile(n)' = FromFile(n) /\ (n \in Loaded' <=> n \in Loaded)
          /\ Len(file') \in Nat /\ Len(file) <= Len(file')
      BY <1>2, <2>3, OtherNodes
    <3>2. \A k \in Jobs : NodeOf[k] = n => pc'[k] = pc[k]
      BY <1>2, <2>3 DEF Goes
    <3> QED
      BY <1>1, <1>3, <2>1, <3>1, <3>2, CalmSame
  <2> QED
    BY <2>2, <2>3
<1> QED
  BY <1>4, <1>5 DEF StoreInv

\* Rows and events.
LEMMA StoreWrites ==
  ASSUME TypeInv, ParentInv, StoreInv, NEW j \in Jobs, MirrorDispatch(j) \/ InsertEvent(j)
  PROVE  StoreInv'
<1>1. TypeOK /\ FileInv /\ Dispatched /\ Len(file) \in Nat
  BY DEF TypeInv, StoreInv, FileInv
<1>2. UNCHANGED file /\ rows \subseteq rows' /\ shaken' \in {shaken, shaken \cup {NodeOf[j]}}
  BY DEF MirrorDispatch, InsertEvent, Smoothly, Shake
<1>3. PICK step \in Steps : Goes(j, step) /\ (pc[j] = "insert" \/ NodeOf[j] \in rows')
  BY DEF MirrorDispatch, InsertEvent, Steps
<1>4. Dispatched'
  BY <1>1, <1>2, <1>3, DispatchedStep DEF TypeOK
<1>5. ASSUME NEW n \in Nodes \ shaken' PROVE Calm(n)'
  <2>1. n \in Nodes \ shaken /\ Calm(n)
    BY <1>2 DEF StoreInv
  <2>2. CASE n = NodeOf[j]
    BY <2>1, <2>2, MirrorCalm, InsertCalm
  <2>3. CASE n # NodeOf[j]
    <3>1. Loaded' = Loaded /\ FromFile(n)' = FromFile(n)
      BY <1>2, FileStays
    <3>2. \A k \in Jobs : NodeOf[k] = n => pc'[k] = pc[k]
      BY <1>1, <1>3, <2>3 DEF Goes, TypeOK
    <3>3. events'[n] = events[n] /\ (n \in rows' <=> n \in rows)
      BY <1>1, <2>3 DEF MirrorDispatch, InsertEvent, TypeOK
    <3>4. links'[n] = links[n]
      BY <1>1, <2>3 DEF MirrorDispatch, InsertEvent, Link, TypeOK
    <3> QED
      BY <1>1, <1>2, <2>1, <3>1, <3>2, <3>3, <3>4, CalmSame
  <2> QED
    BY <2>2, <2>3
<1> QED
  BY <1>4, <1>5 DEF StoreInv

\* Everything else but the import leaves the stores alone; what fails or dies casts
\* doubt on its node.
LEMMA StoreOthers ==
  ASSUME TypeInv, StoreInv,
         \/ \E j \in Jobs : ReadSeq(j) \/ BindOutput(j) \/ CreateSchema(j) \/ SchemaCreated(j)
                            \/ StoreFails(j) \/ Die(j)
         \/ Mark \/ ImportLost \/ UNCHANGED vars
  PROVE  StoreInv'
<1>1. TypeOK /\ FileInv /\ Dispatched /\ Len(file) \in Nat
  BY DEF TypeInv, StoreInv, FileInv
<1>2. UNCHANGED <<file, rows, links, events>> /\ shaken \subseteq shaken'
  BY DEF ReadSeq, BindOutput, CreateSchema, SchemaCreated, StoreFails, Die, Mark, ImportLost,
     vars, db, Smoothly, Shake
<1>3. \A k \in Jobs :
        \/ pc'[k] = pc[k]
        \/ pc[k] = "bind" /\ pc'[k] = "done"
        \/ pc[k] = "read" /\ pc'[k] = "insert"
        \/ NodeOf[k] \in shaken' /\ pc[k] # "idle"
  BY <1>1 DEF TypeOK, ReadSeq, BindOutput, CreateSchema, SchemaCreated, StoreFails, Die, Mark,
     ImportLost, vars, Goes, Shake, Idle
<1>4. Dispatched'
  BY <1>1, <1>2, <1>3 DEF Dispatched
<1>5. ASSUME NEW n \in Nodes \ shaken' PROVE Calm(n)'
  <2>1. n \in Nodes \ shaken /\ Calm(n)
    BY <1>2 DEF StoreInv
  <2>2. Loaded' = Loaded /\ FromFile(n)' = FromFile(n)
    BY <1>2, FileStays
  <2> QED
    BY <1>1, <1>2, <1>3, <1>5, <2>1, <2>2, CalmSame
<1> QED
  BY <1>4, <1>5 DEF StoreInv

\* The import.
LEMMA StoreImport ==
  ASSUME TypeInv, HealInv, StoreInv, Import
  PROVE  StoreInv'
<1>1. FileInv /\ Dispatched /\ Len(file) \in Nat
  BY DEF TypeInv, StoreInv, FileInv
<1>2. UNCHANGED <<file, pc, shaken>> /\ rows' = rows \cup Loaded
  BY DEF Import
<1>3. Dispatched'
  BY <1>1, <1>2 DEF Dispatched
<1>4. ASSUME NEW n \in Nodes \ shaken PROVE Calm(n)'
  <2>1. Calm(n)
    BY DEF StoreInv
  <2>2. CASE n \in Loaded
    BY <2>1, <2>2, ImportCalm
  <2>3. CASE n \notin Loaded
    <3>1. Loaded' = Loaded /\ FromFile(n)' = FromFile(n)
      BY <1>2, FileStays
    <3>2. events'[n] = events[n] /\ links'[n] = links[n] /\ (n \in rows' <=> n \in rows)
      BY <2>3, ImportOther
    <3> QED
      BY <1>1, <1>2, <2>1, <3>1, <3>2, CalmSame
  <2> QED
    BY <2>2, <2>3
<1> QED
  BY <1>2, <1>3, <1>4 DEF StoreInv

\* Two empty stores agree.
LEMMA StoreInitial == Init => StoreInv
<1> SUFFICES ASSUME Init PROVE StoreInv
  OBVIOUS
<1>1. Loaded = {} /\ \A j \in Jobs : pc[j] = "idle"
  BY DEF Init, Loaded
<1>2. ASSUME NEW n \in Nodes PROVE Calm(n)
  <2>1. n \notin rows /\ events[n] = {} /\ links[n] = "absent"
    BY DEF Init
  <2> QED
    BY <1>1, <2>1 DEF Calm, Alone, Busy, Dispatching, Returning, Unheard, InFile, Linked, Counted
<1> QED
  BY <1>1, <1>2 DEF StoreInv, Dispatched

\* No step makes the stores of an unshaken node part.
LEMMA StoreNext ==
  ASSUME OneParent
  PROVE  TypeInv /\ ParentInv /\ HealInv /\ StoreInv /\ [Next]_vars => StoreInv'
<1> SUFFICES ASSUME TypeInv, ParentInv, HealInv, StoreInv, [Next]_vars PROVE StoreInv'
  OBVIOUS
<1>1. FileInv /\ pc \in [Jobs -> Steps]
  BY DEF TypeInv, NumInv
<1> QED
  BY <1>1, StoreRecords, StoreWrites, StoreOthers, StoreImport DEF Next, Record, AllDone

\* ledger.jsonl and workerbees.db load to the same node when no job of it is at work,
\* unless one of its records failed, met another or had a stale timestamp: however
\* the records of different nodes, deaths, locks and imports interleave, and
\* however often a node is recorded, as long as its records name one parent.
THEOREM TwoStoresAgree ==
  ASSUME OneParent
  PROVE  Spec => []StoresAgree
<1>1. ASSUME StoreInv PROVE StoresAgree
  <2> SUFFICES ASSUME NEW n \in Loaded \ shaken, \A j \in Jobs : NodeOf[j] = n => pc[j] \in Idle
               PROVE /\ n \in rows
                     /\ StatusFromDb(n) = FromFile(n).status
                     /\ CallsFromDb(n) = FromFile(n).calls
                     /\ links[n] \in {FromFile(n).parent, "absent"}
                     /\ links[n] = "absent" => FromFile(n).edge = "unknown" \/ FromFile(n).parent \in shaken
    BY DEF StoresAgree
  <2>1. Calm(n)
    BY <1>1 DEF StoreInv, Loaded
  <2>2. ~At(n, {"mirror"}) /\ ~At(n, {"read", "insert"}) /\ ~At(n, {"mirror", "working", "read", "insert"})
    BY DEF At, Idle
  <2> QED
    BY <2>1, <2>2 DEF Calm, Linked, Counted
<1>2. StoreInv => StoresAgree
  BY <1>1
<1>3. TypeInv /\ ParentInv /\ HealInv /\ StoreInv /\ [Next]_vars => StoreInv'
  BY StoreNext
<1> QED
  BY <1>2, <1>3, StoreInitial, TypeHolds, ParentHolds, HealHolds, PTL DEF Spec
=============================================================================
