----------------------------- MODULE Clustering -----------------------------
(***************************************************************************)
(* The pattern classifier: a learning thread and the thread of the window  *)
(* share one ClusterRepository.  Its statements go through                 *)
(* SQLite::execute, which collects the rows of an answer in a static       *)
(* vector: cleared before the statement, filled by a callback, copied      *)
(* afterwards.  sqlite3_exec holds the connection's mutex from its start   *)
(* to its last callback; the clearing and the copying are outside of it.   *)
(*                                                                         *)
(* Left out: the numerics.  k-means returns middles that started as random *)
(* patterns, so what is learned next is any feature at all, and so is what *)
(* the camera shows where the user clicks.  Vector operations that really  *)
(* overlap are undefined in C++; the model has the outcomes in which they  *)
(* happen one after the other, and the death of the program at any point.  *)
(***************************************************************************)
EXTENDS Integers, Sequences, FiniteSets, FiniteSetsExt

CONSTANTS Feature,     \* values of the cosine similarity, as integers
          Threshold,   \* features closer than this are alike
          MaxPattern,  \* bound: patterns that are learned
          MaxClick,    \* bound: clicks
          MaxArea,     \* bound: features around a click
          Junk,        \* what the uninitialised member label holds
          MayFail      \* may a statement fail?

ASSUME ClusteringAssumption ==
    /\ Feature \subseteq Int
    /\ {Threshold, MaxPattern, MaxClick, MaxArea, Junk} \subseteq Nat
    /\ MayFail \in BOOLEAN

VARIABLES
    rows,      \* the table, a row's id being its place
    result,    \* SQLite::result
    at,        \* where each thread is in SQLite::execute
    stmt,      \* the statement each thread executes
    rest,      \* rows for which its callback has still to run
    count,     \* how many patterns have been learned, or left
    overlap,   \* has a thread changed result under the other (for the properties)
    clicks,    \* how many clicks there have been
    area,      \* features around the click that are still to be searched for
    found,     \* the labels found for the others
    label,     \* the member label
    input,     \* the input window: is it shown, and for which label
    relation   \* the RelationDataRepository: labels with what was typed for them

repository == <<rows, result, count, overlap>>
execution == <<at, stmt, rest>>
gui == <<clicks, area, found, label, input, relation>>
vars == <<rows, result, count, overlap, at, stmt, rest, clicks, area, found, label, input,
          relation>>

Thread == {"learner", "gui"}

New == -1      \* the default argument of getAddClusterQuery

Row == [label : Nat, feature : Feature, priority : Nat]
Answer == [id : 1 .. MaxPattern, label : Nat]   \* what is used of a row of an answer

NoStatement == [op |-> "none", feature |-> New]

\* Data that somebody types are known by the label they were asked for.
RelationData == [label : Nat, about : Nat]

Statement ==
    {NoStatement}
    \cup [op : {"select"}, feature : Feature]
    \cup [op : {"raise"}, feature : Feature, label : Nat, ids : SUBSET (1 .. MaxPattern)]
    \cup [op : {"add"}, feature : Feature, label : Nat \cup {New}]

TypeOK ==
    /\ rows \in Seq(Row) /\ Len(rows) <= count
    /\ result \in Seq(Answer)
    /\ at \in [Thread -> {"idle", "clear", "exec", "rows", "copy", "answer"}]
    /\ stmt \in [Thread -> Statement]
    /\ rest \in [Thread -> Seq(Answer)]
    /\ count \in 0 .. MaxPattern
    /\ overlap \in BOOLEAN
    /\ clicks \in 0 .. MaxClick
    /\ area \in Seq(Feature)
    /\ found \in Seq(Nat)
    /\ label \in Nat
    /\ input \in [shown : BOOLEAN, title : Nat]
    /\ relation \subseteq RelationData
-----------------------------------------------------------------------------
(* Slips that the properties below must notice; no action uses these, nor  *)
(* CommitUnlabelled and ShowRelationOnce below.                            *)

\* a SELECT without its WHERE
AllRows(f) == DOMAIN rows

\* no ifnull: the first label is NULL
LabelOrNull == IF rows = <<>> THEN New ELSE Len(rows) + 1

\* a label counted from the other end of the row
LabelBefore == IF Len(rows) <= 1 THEN 0 ELSE Len(rows) - 1
-----------------------------------------------------------------------------
(* Helpers.                                                                *)

Distance(f, g) == IF f < g THEN g - f ELSE f - g

Alike(f, g) == Distance(f, g) < Threshold

AlikeRows(f) == {i \in DOMAIN rows : Alike(rows[i].feature, f)}

\* sum(priority) of the group of label l
Weight(f, l) ==
    MapThenSumSet(LAMBDA i : rows[i].priority,
                  {i \in AlikeRows(f) : rows[i].label = l})

\* SELECT * ... GROUP BY label ORDER BY sum(priority) DESC LIMIT 3: the
\* heaviest labels, each with one of its rows.  SQL leaves open which, and
\* the order of equals.
Selection(f) ==
    LET near == AlikeRows(f)
        Covered(l, s) == \E k \in DOMAIN s : rows[s[k]].label = l
        Lighter(i, j) == Weight(f, rows[i].label) <= Weight(f, rows[j].label)
    IN {[k \in DOMAIN s |-> [id |-> s[k], label |-> rows[s[k]].label]] : s \in
          {s \in UNION {[1 .. n -> near] : n \in 0 .. 3} :
             /\ \A j, k \in DOMAIN s :
                   j < k => rows[s[j]].label # rows[s[k]].label /\ Lighter(s[k], s[j])
             /\ \A i \in near :
                   \/ Covered(rows[i].label, s)
                   \/ 3 \in DOMAIN s /\ Lighter(i, s[3])}}

\* ifnull((SELECT max(rowid) FROM ...)+1,0)
NewLabel == IF rows = <<>> THEN 0 ELSE Len(rows) + 1

\* execute is called with a statement
Call(t, s) ==
    /\ at' = [at EXCEPT ![t] = "clear"]
    /\ stmt' = [stmt EXCEPT ![t] = s]

GoTo(t, where) == at' = [at EXCEPT ![t] = where] /\ UNCHANGED stmt

Select(f) == [op |-> "select", feature |-> f]

\* RelationDataRepository::search finds something
HasData(l) == \E d \in relation : d.label = l

\* The keys of count_map are strings: decimal numbers in the order of a
\* dictionary.
Width(l) == Min({w \in 1 .. l + 1 : l < 10 ^ w})

Precedes(l, m) ==
    LET padded == l * 10 ^ Width(m)
        other == m * 10 ^ Width(l)
    IN padded < other \/ (padded = other /\ l < m)

\* getLabelFromFeatureList: the label found most often, the first of equals
Times(l) == Cardinality({i \in DOMAIN found : found[i] = l})

Winner(l) == \A i \in DOMAIN found :
                \/ found[i] = l
                \/ Times(found[i]) < Times(l)
                \/ Times(found[i]) = Times(l) /\ Precedes(l, found[i])
-----------------------------------------------------------------------------
(* Two more slips.                                                         *)

\* getAddClusterQuery(feature), whether or not there is a cluster
CommitUnlabelled(got) ==
    LET f == stmt["learner"].feature IN
    IF got = <<>>
    THEN Call("learner", [op |-> "add", feature |-> f, label |-> New])
    ELSE Call("learner", [op |-> "raise", feature |-> f, label |-> New,
                          ids |-> {got[i].id : i \in DOMAIN got}])

\* the title is set only when the window was hidden
ShowRelationOnce(fails) ==
    /\ at["gui"] = "answer"
    /\ fails => MayFail
    /\ IF found = <<>> THEN UNCHANGED label
       ELSE \E i \in DOMAIN found : Winner(found[i]) /\ label' = found[i]
    /\ input' = IF (HasData(label') /\ ~fails) \/ input.shown THEN input
                ELSE [shown |-> TRUE, title |-> label']
    /\ at' = [at EXCEPT !["gui"] = "idle"]
    /\ UNCHANGED <<repository, stmt, rest, clicks, area, found, relation>>
-----------------------------------------------------------------------------
(* SQLite::execute.                                                        *)

\* Thread t clears or fills result while another waits for its answer there.
Disturb(t) == overlap' = (overlap \/ \E u \in Thread \ {t} : at[u] \in {"exec", "rows", "copy"})

\* SQLite::result.clear()
Clear(t) ==
    /\ at[t] = "clear"
    /\ result' = <<>>
    /\ Disturb(t)
    /\ GoTo(t, "exec")
    /\ UNCHANGED <<rows, count, rest, gui>>

\* What a statement does to the table.
Effect(s) ==
    CASE s.op = "raise" ->
           rows' = [i \in DOMAIN rows |->
                      IF i \in s.ids
                      THEN [rows[i] EXCEPT !.priority = @ + 1] ELSE rows[i]]
      [] s.op = "add" ->
           rows' = Append(rows, [label |-> IF s.label = New THEN NewLabel ELSE s.label,
                                 feature |-> s.feature, priority |-> 0])
      [] OTHER -> UNCHANGED rows

\* sqlite3_exec begins: the connection's mutex is free.
Exec(t) ==
    /\ at[t] = "exec"
    /\ \A u \in Thread : at[u] # "rows"
    /\ Effect(stmt[t])
    /\ \E s \in IF stmt[t].op = "select" THEN Selection(stmt[t].feature) ELSE {<<>>} :
         /\ rest' = [rest EXCEPT ![t] = s]
         /\ GoTo(t, IF s = <<>> THEN "copy" ELSE "rows")
    /\ UNCHANGED <<result, count, overlap, gui>>

\* The callback pushes a row; after the last one sqlite3_exec returns.
Callback(t) ==
    /\ at[t] = "rows"
    /\ result' = Append(result, Head(rest[t]))
    /\ Disturb(t)
    /\ rest' = [rest EXCEPT ![t] = Tail(@)]
    /\ GoTo(t, IF Len(rest[t]) = 1 THEN "copy" ELSE "rows")
    /\ UNCHANGED <<rows, count, gui>>
-----------------------------------------------------------------------------
(* The learner: ClusterRepository::commit, one pattern after the other.    *)

\* Testament::learn has another pattern.
Learn(f) ==
    /\ at["learner"] = "idle"
    /\ count < MaxPattern
    /\ count' = count + 1
    /\ Call("learner", Select(f))
    /\ UNCHANGED <<rows, result, overlap, rest, gui>>

\* The SELECT is answered: is there a cluster below the threshold?
Commit(got) ==
    LET f == stmt["learner"].feature IN
    IF got = <<>>
    THEN Call("learner", [op |-> "add", feature |-> f, label |-> New])
    ELSE Call("learner", [op |-> "raise", feature |-> f, label |-> got[1].label,
                          ids |-> {got[i].id : i \in DOMAIN got}])

LearnerReturns ==
    /\ at["learner"] = "copy"
    /\ LET s == stmt["learner"] IN
       CASE s.op = "select" -> Commit(result)
         [] s.op = "raise" -> Call("learner", [op |-> "add", feature |-> s.feature,
                                                label |-> s.label])
         [] OTHER -> at' = [at EXCEPT !["learner"] = "idle"]
                     /\ stmt' = [stmt EXCEPT !["learner"] = NoStatement]
    /\ UNCHANGED <<repository, rest, gui>>

\* A statement fails; commit leaves the pattern, and goes on with the next.
LearnerFails ==
    /\ MayFail
    /\ at["learner"] = "exec"
    /\ \A u \in Thread : at[u] # "rows"
    /\ at' = [at EXCEPT !["learner"] = "idle"]
    /\ stmt' = [stmt EXCEPT !["learner"] = NoStatement]
    /\ UNCHANGED <<repository, rest, gui>>
-----------------------------------------------------------------------------
(* The window: window_main and input_window_main.                          *)

\* getLabelFromFeatureList goes on with the next feature of the area.
SearchNext(todo) ==
    /\ area' = todo
    /\ IF todo = <<>>
       THEN at' = [at EXCEPT !["gui"] = "answer"] /\ stmt' = [stmt EXCEPT !["gui"] = NoStatement]
       ELSE Call("gui", Select(Head(todo)))

\* A click on the picture.
Click(features) ==
    /\ at["gui"] = "idle"
    /\ clicks < MaxClick
    /\ clicks' = clicks + 1
    /\ found' = <<>>
    /\ SearchNext(features)
    /\ UNCHANGED <<repository, rest, label, input, relation>>

\* ClusterRepository::search returns the first row, or throws.
GuiReturns ==
    /\ at["gui"] = "copy"
    /\ found' = IF result = <<>> THEN found ELSE Append(found, result[1].label)
    /\ SearchNext(Tail(area))
    /\ UNCHANGED <<repository, rest, clicks, label, input, relation>>

\* The SELECT fails; the exception is swallowed.
GuiFails ==
    /\ MayFail
    /\ at["gui"] = "exec"
    /\ \A u \in Thread : at[u] # "rows"
    /\ SearchNext(Tail(area))
    /\ UNCHANGED <<repository, rest, clicks, found, label, input, relation>>

\* The label of the area, if there is one; then its data are shown in a
\* message box.  If there are none, or the search for them fails, the input
\* window asks for them.
ShowRelation(fails) ==
    /\ at["gui"] = "answer"
    /\ fails => MayFail
    /\ IF found = <<>> THEN UNCHANGED label
       ELSE \E i \in DOMAIN found : Winner(found[i]) /\ label' = found[i]
    /\ input' = IF HasData(label') /\ ~fails THEN input ELSE [shown |-> TRUE, title |-> label']
    /\ at' = [at EXCEPT !["gui"] = "idle"]
    /\ UNCHANGED <<repository, stmt, rest, clicks, area, found, relation>>

\* Enter in the input window: what was typed is kept for the member label,
\* unless nothing was typed or it cannot be kept.
Submit(kept) ==
    /\ at["gui"] = "idle"
    /\ input.shown
    /\ relation' = IF kept THEN relation \cup {[label |-> label, about |-> input.title]}
                   ELSE relation
    /\ input' = [input EXCEPT !.shown = FALSE]
    /\ UNCHANGED <<repository, execution, clicks, area, found, label>>
-----------------------------------------------------------------------------
\* The first start, with an empty database.
Init ==
    /\ rows = <<>>
    /\ result = <<>>
    /\ at = [t \in Thread |-> "idle"]
    /\ stmt = [t \in Thread |-> NoStatement]
    /\ rest = [t \in Thread |-> <<>>]
    /\ count = 0
    /\ overlap = FALSE
    /\ clicks = 0
    /\ area = <<>>
    /\ found = <<>>
    /\ label = Junk
    /\ input = [shown |-> FALSE, title |-> 0]
    /\ relation = {}

\* The program ends, in the middle of whatever its threads do, and starts
\* again with the database that this leaves.
Restart ==
    /\ result' = <<>>
    /\ at' = [t \in Thread |-> "idle"]
    /\ stmt' = [t \in Thread |-> NoStatement]
    /\ rest' = [t \in Thread |-> <<>>]
    /\ area' = <<>>
    /\ found' = <<>>
    /\ label' = Junk
    /\ input' = [shown |-> FALSE, title |-> 0]
    /\ UNCHANGED <<rows, count, overlap, clicks, relation>>

Execution(t) == Clear(t) \/ Exec(t) \/ Callback(t)

Next ==
    \/ \E t \in Thread : Execution(t)
    \/ \E f \in Feature : Learn(f)
    \/ LearnerReturns \/ LearnerFails
    \/ \E n \in 0 .. MaxArea : \E features \in [1 .. n -> Feature] : Click(features)
    \/ GuiReturns \/ GuiFails
    \/ \E fails \in BOOLEAN : ShowRelation(fails)
    \/ \E kept \in BOOLEAN : Submit(kept)
    \/ Restart

Spec == Init /\ [][Next]_vars
-----------------------------------------------------------------------------
(* Properties.                                                             *)

\* Row i is the first with its label.
Founder(i) == \A j \in 1 .. i - 1 : rows[j].label # rows[i].label

\* getAddClusterQuery makes labels of row ids.  Whatever rows the two threads
\* get to see, no cluster is ever given a label that was in use: a label says
\* which row founded the cluster.
LabelNamesItsFounder ==
    \A i \in DOMAIN rows :
        Founder(i) => rows[i].label = IF i = 1 THEN 0 ELSE i

\* commit (ClusterRepository.cpp l.98): a pattern is added with the label of
\* a cluster that has something like it, also after failed statements and
\* restarts; unless the learner's answer was disturbed by the window's.
ClustersHangTogether ==
    overlap \/ \A i \in DOMAIN rows :
        Founder(i) \/ \E j \in 1 .. i - 1 :
                        /\ rows[j].label = rows[i].label
                        /\ Alike(rows[j].feature, rows[i].feature)

\* commit (l.91): a new cluster is founded only if there is none; unless the
\* window has cleared the answer before the learner has copied it.
FoundersStandAlone ==
    overlap \/ \A i \in DOMAIN rows :
        Founder(i) => \A j \in 1 .. i - 1 : ~ Alike(rows[j].feature, rows[i].feature)

\* input_window_main: what is typed goes to the member label, which a click
\* may have changed since the input window asked for another one.  But then
\* the new label has data, or the window would ask for it now: so whatever is
\* clicked, and whatever fails, a label has data that were typed for another
\* one only if it has some that were typed for it.
DataWereAskedFor ==
    \A d \in relation : [label |-> d.label, about |-> d.label] \in relation

\* The last label that was found is of a cluster with something like what was
\* searched for.
FoundIsAlike ==
    found' # found /\ found' # <<>> =>
        \/ overlap
        \/ \E i \in DOMAIN rows : /\ rows[i].label = found'[Len(found')]
                                  /\ Alike(rows[i].feature, stmt["gui"].feature)

\* window_main (main.cpp l.137): the label that a click finds is that of a
\* cluster with something like what is in the area, whatever the learner has
\* added since; unless it has disturbed the answer.
LabelIsOfTheArea == [][FoundIsAlike]_vars
=============================================================================
