------------------------------- MODULE Ledger -------------------------------
(***************************************************************************)
(* The dispatch ledger in its default mode, "both" (ledger.py, store.py,   *)
(* schema.py, tools/migrate_to_3nf.py): every record is a line appended to *)
(* ledger.jsonl and then rows of workerbees.db.  Nothing guards the two    *)
(* together and every error is swallowed, so they drift apart; the loaders *)
(* rebuild the nodes from one or the other, and the migration brings the   *)
(* database up to the file.                                                *)
(*                                                                         *)
(* A job records one dispatch and one return of its node, and binds its    *)
(* output; two jobs of one node are a phase that is recorded a second time. *)
(***************************************************************************)
EXTENDS Integers, Sequences, FiniteSets

CONSTANTS
  Jobs,       \* the processes that record
  Nodes,      \* node ids
  NodeOf,     \* the node a job records
  ParentOf,   \* the parent it names in its dispatch, or None
  EdgeOf,     \* its edge type: one the schema knows, another, or None
  StatusOf,   \* the terminal status it reports
  Controls,   \* contents control.sqlite may have, which is imported with the file
  MaxFaults,  \* bound on failed or torn writes, locked databases, stale clocks, deaths
  None

Statuses == {"dispatched", "returned", "failed"}

\* What a loader knows of a node.
NodeRecord == [parent : Nodes \cup {None}, edge : {None, "known", "unknown"}, status : Statuses,
               calls : {None, 1}, time : Nat]

ASSUME LedgerAssumption ==
  /\ NodeOf \in [Jobs -> Nodes]
  /\ ParentOf \in [Jobs -> Nodes \cup {None}]
  /\ EdgeOf \in [Jobs -> {None, "known", "unknown"}]
  /\ StatusOf \in [Jobs -> {"returned", "failed"}]
  /\ MaxFaults \in Nat
  /\ None \notin Nodes /\ None \notin Jobs
  /\ None \notin Nat /\ None \notin NodeRecord /\ None \notin {"absent", "known", "unknown"}
  /\ "absent" \notin Nodes

VARIABLES
  file,      \* ledger.jsonl
  schema,    \* how much of the schema workerbees.db has
  builder,   \* the job whose executescript is creating it
  rows,      \* table node, with its run, family, request and route
  links,     \* table legacy_parent: the parent of each child it has a row for
  events,    \* table node_event with its usage
  outputs,   \* table node_artifact
  sources,   \* table import_source: the files seen, the first named by its length
  imported,  \* the length of the file at the last import that was committed
  importing, \* the migration is between its two transactions
  pc,        \* the step of each job
  seq,       \* the sequence number a job is about to insert
  shaken,    \* nodes with a record that failed, or that overlapped another
  faults

db == <<rows, links, events, outputs>>
migration == <<sources, imported, importing>>
vars == <<file, schema, builder, db, migration, pc, seq, shaken, faults>>

\* A line, whole, torn by a failed write, or glued to a torn one before it.
Line == [node : Nodes, parent : Nodes \cup {None}, edge : {None, "known", "unknown"},
         status : Statuses, calls : {None, 1}, time : Nat, state : {"whole", "torn", "glued"}]

Event == [seq : Nat, status : Statuses, calls : {None, 1}]

Idle == {"idle", "done", "dead"}
Steps == Idle \cup {"mirror", "working", "read", "insert", "bind"}

TypeOK ==
  /\ file \in Seq(Line)
  /\ schema \in {"none", "partial", "full"}
  /\ builder \in Jobs \cup {None}
  /\ rows \subseteq Nodes
  /\ links \in [Nodes -> Nodes \cup {None, "absent"}]
  /\ events \in [Nodes -> SUBSET Event]
  /\ outputs \subseteq rows
  /\ sources \subseteq Nat \X Controls
  /\ imported \in Nat
  /\ importing \in BOOLEAN
  /\ pc \in [Jobs -> Steps]
  /\ seq \in [Jobs -> Nat]
  /\ shaken \subseteq Nodes
  /\ faults \in 0..MaxFaults

Init ==
  /\ file = <<>>
  /\ schema = "none"
  /\ builder = None
  /\ rows = {}
  /\ links = [n \in Nodes |-> "absent"]
  /\ events = [n \in Nodes |-> {}]
  /\ outputs = {}
  /\ sources = {}
  /\ imported = 0
  /\ importing = FALSE
  /\ pc = [j \in Jobs |-> "idle"]
  /\ seq = [j \in Jobs |-> 0]
  /\ shaken = {}
  /\ faults = 0

----------------------------------------------------------------------------
(* load: what each of the two stores says of its nodes.                    *)

Or(new, old) == IF new = None THEN old ELSE new

First(line) ==
  [parent |-> line.parent, edge |-> line.edge, status |-> line.status,
   calls |-> line.calls, time |-> line.time]

\* A merge that takes the fields of the later line as they are.
MergeNulls(node, line) ==
  IF line.time > node.time
  THEN First(line)
  ELSE node

\* A record of a node already seen counts if it is strictly later; it keeps what
\* the new line leaves null.
Merge(node, line) ==
  IF line.time > node.time
  THEN [parent |-> Or(line.parent, node.parent), edge |-> Or(line.edge, node.edge),
        status |-> line.status, calls |-> Or(line.calls, node.calls), time |-> line.time]
  ELSE node

\* One turn of the loop over the lines, for node n as it is known so far.
Take(n, node, line) ==
  IF line.node # n \/ line.state # "whole" THEN node
  ELSE IF node = None THEN First(line) ELSE Merge(node, line)

\* The nodes the file tells of, and each as the lines of it merge.
Loaded == {n \in Nodes : \E i \in DOMAIN file : file[i].node = n /\ file[i].state = "whole"}
FromFile(n) ==
  LET node[i \in 0..Len(file)] == IF i = 0 THEN None ELSE Take(n, node[i - 1], file[i])
  IN node[Len(file)]

Seqs(n) == {e.seq : e \in events[n]}
Greatest(S) == CHOOSE s \in S : \A t \in S : t <= s
Newest(E) == CHOOSE e \in E : \A f \in E : f.seq <= e.seq

StatusFromDb(n) == IF events[n] = {} THEN "unknown" ELSE Newest(events[n]).status
CallsFromDb(n) ==
  LET used == {e \in events[n] : e.calls # None}
  IN IF used = {} THEN None ELSE Newest(used).calls

----------------------------------------------------------------------------
(* rollup over the nodes loaded from the file.                             *)

Children(n) == {m \in Loaded : FromFile(m).parent = n}

RootsAndOrphans == {n \in Loaded : FromFile(n).parent \notin Loaded}
Roots == {n \in Loaded : FromFile(n).parent = None}

\* The nodes the walk from a root visits.
Subtree(root) ==
  LET reach[k \in 0..Cardinality(Loaded)] ==
        IF k = 0 THEN {root} ELSE reach[k - 1] \cup UNION {Children(n) : n \in reach[k - 1]}
  IN reach[Cardinality(Loaded)]

----------------------------------------------------------------------------
(* The steps a record is made of.                                          *)

Goes(j, step) == pc' = [pc EXCEPT ![j] = step]

\* Two records of one node are underway at once.
Overlaps(j) ==
  \E k \in Jobs \ {j} : NodeOf[k] = NodeOf[j] /\ pc[k] \in {"mirror", "read", "insert"}

Shake(j) == shaken' = shaken \cup {NodeOf[j]}

Fault == faults < MaxFaults /\ faults' = faults + 1
Fine  == UNCHANGED faults

\* A record that went as it should, unless it met another one.
Smoothly(j) == IF Overlaps(j) THEN Shake(j) ELSE UNCHANGED shaken

LastTorn == file # <<>> /\ file[Len(file)].state = "torn"

LineOf(j, kind, time, state) ==
  [node |-> NodeOf[j], time |-> time, state |-> state,
   parent |-> IF kind = "dispatch" THEN ParentOf[j] ELSE None,
   edge |-> IF kind = "dispatch" THEN EdgeOf[j] ELSE None,
   status |-> IF kind = "dispatch" THEN "dispatched" ELSE StatusOf[j],
   calls |-> IF kind = "dispatch" THEN None ELSE 1]

\* The line is written; its timestamp may be stale, taken before another writer's
\* or by a clock set back.  After a torn line it shares the physical line of that.
Written(j, kind) ==
  \E stale \in BOOLEAN :
    /\ file' = file \o << LineOf(j, kind, IF stale THEN 0 ELSE Len(file) + 1,
                                 IF LastTorn THEN "glued" ELSE "whole") >>
    /\ IF stale \/ LastTorn THEN Shake(j) ELSE Smoothly(j)
    /\ IF stale THEN Fault ELSE Fine

\* It is not: the file cannot be opened, or the disk fills up half way.
NotWritten(j, kind) ==
  /\ Fault
  /\ Shake(j)
  /\ \/ file' = file
     \/ file' = file \o << LineOf(j, kind, Len(file) + 1, "torn") >>

\* Store(db_path): creates the schema in an empty database, statement by
\* statement, and refuses any other that is not complete.
Opens(j)   == schema = "full"
Refused(j) == schema = "partial" /\ builder # j

CreateSchema(j) ==
  /\ pc[j] \in {"mirror", "read", "bind"}
  /\ schema = "none"
  /\ schema' = "partial"
  /\ builder' = j
  /\ UNCHANGED <<file, db, migration, pc, seq, shaken, faults>>

SchemaCreated(j) ==
  /\ builder = j
  /\ schema = "partial"
  /\ pc[j] \in {"mirror", "read", "bind"}
  /\ schema' = "full"
  /\ builder' = None
  /\ UNCHANGED <<file, db, migration, pc, seq, shaken, faults>>

\* Where a record goes on when its database part is over, whatever came of it:
\* the callers look at no answer.
After(step) ==
  CASE step = "mirror" -> "working"
    [] step \in {"read", "insert"} -> "bind"
    [] step = "bind" -> "done"

\* The database is locked past the timeout, or has half a schema.
StoreFails(j) ==
  /\ pc[j] \in {"mirror", "read", "insert", "bind"}
  /\ \/ Refused(j) /\ pc[j] # "insert" /\ Fine
     \/ Opens(j) /\ Fault
  /\ Shake(j)
  /\ Goes(j, After(pc[j]))
  /\ UNCHANGED <<file, schema, builder, db, migration, seq>>

----------------------------------------------------------------------------
(* record_dispatch.                                                        *)

\* A child is recorded once its parent's dispatch was, or was tried: nothing enforces
\* it, it is the order in which the callers record a run.
Due(j) ==
  ParentOf[j] = None \/ \E k \in Jobs : NodeOf[k] = ParentOf[j] /\ pc[k] \notin {"idle", "mirror"}

\* A file that cannot be written does not keep the rows from the database.
AppendDispatchOrNot(j) ==
  /\ pc[j] = "idle"
  /\ Due(j)
  /\ ~importing
  /\ Written(j, "dispatch") \/ NotWritten(j, "dispatch")
  /\ Goes(j, "mirror")
  /\ UNCHANGED <<schema, builder, db, migration, seq>>

\* An error leaves record_dispatch before the database is touched.
AppendDispatch(j) ==
  /\ pc[j] = "idle"
  /\ Due(j)
  /\ ~importing
  /\ \/ Written(j, "dispatch") /\ Goes(j, "mirror")
     \/ NotWritten(j, "dispatch") /\ Goes(j, "working")
  /\ UNCHANGED <<schema, builder, db, migration, seq>>

\* The link of a parent that has no row, had it been kept out of the foreign keys.
LinkOrphan(T, n, parent, edge, known) ==
  IF T[n] = "absent" /\ edge # "unknown"
  THEN [T EXCEPT ![n] = IF parent \in known THEN parent ELSE None] ELSE T

\* The foreign keys and checks of legacy_parent; its first row for a child stays.
Link(T, n, parent, edge, known) ==
  IF T[n] = "absent" /\ edge # "unknown" /\ parent \in known \cup {None}
  THEN [T EXCEPT ![n] = parent] ELSE T

MirrorDispatchAgain(j) ==
  LET n == NodeOf[j] IN
  /\ pc[j] = "mirror"
  /\ Opens(j)
  /\ rows' = rows \cup {n}
  /\ events' = [events EXCEPT ![n] = @ \cup
       {[seq |-> IF @ = {} THEN 0 ELSE Greatest(Seqs(n)) + 1, status |-> "dispatched", calls |-> None]}]
  /\ links' = Link(links, n, ParentOf[j], EdgeOf[j], rows')
  /\ Smoothly(j)
  /\ Goes(j, "working")
  /\ UNCHANGED <<file, schema, builder, outputs, migration, seq, faults>>

\* One transaction.  The dispatch event is written with the node, once.
MirrorDispatch(j) ==
  LET n == NodeOf[j] IN
  /\ pc[j] = "mirror"
  /\ Opens(j)
  /\ rows' = rows \cup {n}
  /\ events' = IF n \in rows THEN events
               ELSE [events EXCEPT ![n] = {[seq |-> 0, status |-> "dispatched", calls |-> None]}]
  /\ links' = Link(links, n, ParentOf[j], EdgeOf[j], rows')
  /\ Smoothly(j)
  /\ Goes(j, "working")
  /\ UNCHANGED <<file, schema, builder, outputs, migration, seq, faults>>

----------------------------------------------------------------------------
(* record_return and record_output.                                        *)

AppendReturn(j) ==
  /\ pc[j] = "working"
  /\ \/ Written(j, "return") /\ Goes(j, "read")
     \/ NotWritten(j, "return") /\ Goes(j, "bind")
  /\ UNCHANGED <<schema, builder, db, migration, seq>>

\* MAX over no rows is NULL, taken as it comes.
NextSeqNull(n) == IF events[n] = {} THEN -1 ELSE Greatest(Seqs(n)) + 1

NextSeq(n) == IF events[n] = {} THEN 0 ELSE Greatest(Seqs(n)) + 1

\* append_event reads the greatest number in a statement of its own.
ReadSeq(j) ==
  /\ pc[j] = "read"
  /\ Opens(j)
  /\ seq' = [seq EXCEPT ![j] = NextSeq(NodeOf[j])]
  /\ Smoothly(j)
  /\ Goes(j, "insert")
  /\ UNCHANGED <<file, schema, builder, db, migration, faults>>

ReturnEvent(j) == [seq |-> seq[j], status |-> StatusOf[j], calls |-> 1]

\* The table without UNIQUE(node_id, event_seq).
InsertAnyway(j) ==
  LET n == NodeOf[j] IN
  /\ pc[j] = "insert"
  /\ events' = IF n \in rows THEN [events EXCEPT ![n] = @ \cup {ReturnEvent(j)}] ELSE events
  /\ Smoothly(j)
  /\ Goes(j, "bind")
  /\ UNCHANGED <<file, schema, builder, rows, links, outputs, migration, seq, faults>>

\* The insert fails if the number was taken since, or the node has no row; the
\* error is swallowed and the record reported as made.
InsertEvent(j) ==
  LET n == NodeOf[j] IN
  /\ pc[j] = "insert"
  /\ IF n \in rows /\ seq[j] \notin Seqs(n)
     THEN events' = [events EXCEPT ![n] = @ \cup {ReturnEvent(j)}] /\ Smoothly(j)
     ELSE UNCHANGED events /\ Shake(j)
  /\ Goes(j, "bind")
  /\ UNCHANGED <<file, schema, builder, rows, links, outputs, migration, seq, faults>>

BindOutput(j) ==
  /\ pc[j] = "bind"
  /\ Opens(j)
  /\ outputs' = outputs \cup ({NodeOf[j]} \cap rows)
  /\ Goes(j, "done")
  /\ UNCHANGED <<file, schema, builder, rows, links, events, migration, seq, shaken, faults>>

Die(j) ==
  /\ pc[j] \notin Idle
  /\ Fault
  /\ Shake(j)
  /\ Goes(j, "dead")
  /\ UNCHANGED <<file, schema, builder, db, migration, seq>>

----------------------------------------------------------------------------
(* The migration, run by hand with the writers stopped.                    *)

AtRest == \A j \in Jobs : pc[j] \in Idle

\* The two files are known by their hash, and recorded as imported before anything
\* is; a dry run records them too, and stops there.
Mark ==
  /\ AtRest /\ ~importing
  /\ schema # "partial"
  /\ schema' = "full"
  /\ Len(file) > 0
  /\ \E control \in Controls :
       /\ <<Len(file), control>> \notin sources
       /\ sources' = sources \cup {<<Len(file), control>>}
  /\ importing' \in BOOLEAN
  /\ UNCHANGED <<file, builder, db, imported, pc, seq, shaken, faults>>

\* The nodes of the file in the order load meets them.
BeforeInFile(m, n) ==
  \E i \in DOMAIN file :
    /\ file[i].state = "whole" /\ file[i].node = m
    /\ \A k \in 1..i : file[k].state = "whole" => file[k].node # n

\* A second import adds an event to the nodes it creates only.
ImportNewNodes ==
  /\ importing
  /\ rows' = rows \cup Loaded
  /\ events' = [n \in Nodes |->
       IF n \in Loaded \ rows
       THEN {[seq |-> NextSeq(n), status |-> FromFile(n).status, calls |-> FromFile(n).calls]}
       ELSE events[n]]
  /\ links' = [n \in Nodes |->
       IF n \in Loaded
       THEN Link(links, n, FromFile(n).parent, FromFile(n).edge,
                 rows \cup {m \in Loaded : BeforeInFile(m, n)})[n]
       ELSE links[n]]
  /\ imported' = Len(file)
  /\ importing' = FALSE
  /\ UNCHANGED <<file, schema, builder, outputs, sources, pc, seq, shaken, faults>>

\* One transaction over every node the file tells of: a row if it has none, one
\* more event with the merged state, the link if it has none.
Import ==
  /\ importing
  /\ rows' = rows \cup Loaded
  /\ events' = [n \in Nodes |->
       IF n \in Loaded
       THEN events[n] \cup
            {[seq |-> NextSeq(n), status |-> FromFile(n).status, calls |-> FromFile(n).calls]}
       ELSE events[n]]
  /\ links' = [n \in Nodes |->
       IF n \in Loaded
       THEN Link(links, n, FromFile(n).parent, FromFile(n).edge,
                 rows \cup {m \in Loaded : BeforeInFile(m, n)})[n]
       ELSE links[n]]
  /\ imported' = Len(file)
  /\ importing' = FALSE
  /\ UNCHANGED <<file, schema, builder, outputs, sources, pc, seq, shaken, faults>>

\* It fails or is killed after the mark was committed.
ImportLost ==
  /\ importing
  /\ Fault
  /\ importing' = FALSE
  /\ UNCHANGED <<file, schema, builder, db, sources, imported, pc, seq, shaken>>

Record(j) ==
  \/ AppendDispatch(j) \/ MirrorDispatch(j)
  \/ AppendReturn(j) \/ ReadSeq(j) \/ InsertEvent(j) \/ BindOutput(j)
  \/ CreateSchema(j) \/ SchemaCreated(j) \/ StoreFails(j) \/ Die(j)

AllDone == AtRest /\ ~importing /\ UNCHANGED vars

Next == (\E j \in Jobs : Record(j)) \/ Mark \/ Import \/ ImportLost \/ AllDone

Spec == Init /\ [][Next]_vars

----------------------------------------------------------------------------
(* Properties.                                                             *)

\* append_event reads the greatest number and inserts the next in two statements:
\* whoever races, the events of a node are numbered from 0 without a gap and no
\* number is given twice (store.py:189, "never silent interleave").
EventsNumbered ==
  \A n \in Nodes :
    /\ \A e, f \in events[n] : e.seq = f.seq => e = f
    /\ \A e \in events[n] : \A k \in 0..e.seq : k \in Seqs(n)

\* The file is written first and its failure ends the record: the database never
\* tells of a node, or of an outcome, that was not written to the file, be it on a
\* line that a torn one before it made unreadable.
MirrorTellsNoMore ==
  \A n \in Nodes :
    LET written == {file[i].status : i \in {k \in DOMAIN file : file[k].node = n /\ file[k].state # "torn"}}
    IN /\ n \in rows => written # {}
       /\ \A e \in events[n] : e.status \in written

\* The two stores load to the same node as long as none of its records failed, met
\* another record of the node half way or carried a stale timestamp: a second
\* recording of the node, a parent whose own record failed and an edge type
\* outside the schema included, which lose at most the link.
StoresAgree ==
  \A n \in Loaded \ shaken :
    (\A j \in Jobs : NodeOf[j] = n => pc[j] \in Idle) =>
      /\ n \in rows
      /\ StatusFromDb(n) = FromFile(n).status
      /\ CallsFromDb(n) = FromFile(n).calls
      /\ links[n] \in {FromFile(n).parent, "absent"}
      /\ links[n] = "absent" => FromFile(n).edge = "unknown" \/ FromFile(n).parent \in shaken

\* The jobs of a node name one parent.
OneParentOf(n) ==
  \A j, k \in Jobs : NodeOf[j] = n /\ NodeOf[k] = n => ParentOf[j] = ParentOf[k]

\* The first line of a node that can be read is a dispatch.
DispatchedFirst(n) ==
  \E i \in DOMAIN file :
    /\ file[i].node = n /\ file[i].state = "whole" /\ file[i].status = "dispatched"
    /\ \A k \in 1..(i - 1) : file[k].node = n => file[k].state # "whole"

\* An import that was committed brings the database up to the file, whatever records
\* had failed before it.  Every node the file tells of has a row and loads with the
\* status and the calls of the file.  It has no link only if the schema refuses its
\* edge type or its parent comes later in the file.  A link it has is to the parent
\* of the file if the file tells of its dispatch first, and its jobs name one parent;
\* a link that an import made of a return alone is to no parent, and is never changed
\* when the dispatch is written after all (PRIMARY KEY child_id, IntegrityError
\* counted as skipped, migrate_to_3nf.py:125-129).
MigrationHeals ==
  imported = Len(file) =>
    \A n \in Loaded :
      /\ n \in rows
      /\ StatusFromDb(n) = FromFile(n).status
      /\ FromFile(n).calls # None => CallsFromDb(n) = FromFile(n).calls
      /\ links[n] = "absent" => \/ FromFile(n).edge = "unknown"
                               \/ ~BeforeInFile(FromFile(n).parent, n)
      /\ links[n] # "absent" /\ DispatchedFirst(n) /\ OneParentOf(n) =>
           links[n] = FromFile(n).parent

\* Rollup charges a node to one root, that of its parent; what it leaves out hangs
\* from a node whose own records failed, and from nothing else.
RollupChargesOnce ==
  LET Charged(n) == {root \in Roots : n \in Subtree(root)}
  IN \A n \in Loaded :
       LET parent == FromFile(n).parent
       IN IF parent = None THEN Charged(n) = {n}
          ELSE IF parent \in Loaded THEN Charged(n) = Charged(parent)
          ELSE Charged(n) = {} /\ parent \in shaken

\* A node that ended in the database is not back to dispatched after a step.
NothingReopens ==
  \A n \in Nodes :
    StatusFromDb(n) \in {"returned", "failed"} /\ StatusFromDb(n)' = "dispatched" => importing

\* In the database a node that ended is never back to dispatched, also when it is
\* recorded a second time; only an import may say so, of a node whose return
\* the file lost or has not yet got.
EndedStaysEnded == [][NothingReopens]_vars
=============================================================================
