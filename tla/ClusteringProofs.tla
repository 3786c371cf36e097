-------------------------- MODULE ClusteringProofs --------------------------
(***************************************************************************)
(* Proofs about the pattern classifier, for any features, any threshold,   *)
(* and any number of patterns and clicks.                                  *)
(***************************************************************************)
EXTENDS Clustering, SequenceTheorems, TLAPS

\* A thread is inside SQLite::execute.
Executing == {"clear", "exec", "rows", "copy"}

\* Some row of the table has label l.
Known(table, l) == \E i \in DOMAIN table : table[i].label = l

\* The label of the cluster that row j founds.
Name(j) == IF j = 1 THEN 0 ELSE j

\* What the program counters say about the other variables.
InProgress ==
    /\ \A t \in Thread : at[t] = "rows" => rest[t] # <<>>
    /\ at["gui"] \in Executing => area # <<>>
    /\ stmt["gui"].op \in {"none", "select"}
    /\ at["learner"] \in Executing =>
          Len(rows) < count \/ (at["learner"] = "copy" /\ stmt["learner"].op = "add")

\* Every label on its way, in whoever's hands, is that of a row.
LabelsAreKnown ==
    /\ \A k \in DOMAIN result : Known(rows, result[k].label)
    /\ \A t \in Thread : \A k \in DOMAIN rest[t] : Known(rows, rest[t][k].label)
    /\ stmt["learner"].op = "raise" => Known(rows, stmt["learner"].label)
    /\ stmt["learner"].op = "add" /\ stmt["learner"].label # New =>
          Known(rows, stmt["learner"].label)

\* A label is the name of a row that has it, and came no later.
LabelsAreFounders ==
    \A i \in DOMAIN rows : \E j \in 1 .. i : /\ rows[i].label = Name(j)
                                             /\ rows[j].label = Name(j)

IInv == TypeOK /\ InProgress /\ LabelsAreKnown /\ LabelsAreFounders
-----------------------------------------------------------------------------
\* The rows of a SELECT (ClusterRepository::getSelectClusterQuery) are rows
\* of the table.
LEMMA SelectionAnswers ==
    ASSUME TypeOK, NEW f, NEW s \in Selection(f)
    PROVE  s \in Seq(Answer) /\ \A k \in DOMAIN s : Known(rows, s[k].label)
<1> DEFINE near == AlikeRows(f)
<1>1. near \subseteq DOMAIN rows
  BY DEF AlikeRows
<1>2. DOMAIN rows \subseteq 1 .. MaxPattern /\ \A i \in DOMAIN rows : rows[i] \in Row
  <2>1. rows \in Seq(Row) /\ Len(rows) <= count /\ count \in 0 .. MaxPattern
    BY DEF TypeOK
  <2>2. MaxPattern \in Nat /\ Len(rows) \in Nat /\ DOMAIN rows = 1 .. Len(rows)
    BY <2>1, ClusteringAssumption
  <2>3. Len(rows) <= MaxPattern
    BY <2>1, <2>2
  <2> QED
    BY <2>1, <2>2, <2>3
<1>a. PICK q \in UNION {[1 .. n -> near] : n \in 0 .. 3} :
         s = [k \in DOMAIN q |-> [id |-> q[k], label |-> rows[q[k]].label]]
  BY DEF Selection
<1>b. PICK n \in 0 .. 3 : q \in [1 .. n -> near]
  BY <1>a
<1>3. s = [k \in 1 .. n |-> [id |-> q[k], label |-> rows[q[k]].label]]
  BY <1>a, <1>b
<1>4. \A k \in 1 .. n : s[k] \in Answer /\ Known(rows, s[k].label)
  <2> TAKE k \in 1 .. n
  <2>1. q[k] \in DOMAIN rows /\ q[k] \in 1 .. MaxPattern /\ rows[q[k]] \in Row
    BY <1>1, <1>2, <1>b
  <2>2. s[k] = [id |-> q[k], label |-> rows[q[k]].label]
    BY <1>3
  <2>3. QED
    BY <2>1, <2>2 DEF Answer, Row, Known
<1>5. s \in [1 .. n -> Answer] /\ DOMAIN s = 1 .. n
  BY <1>3, <1>4
<1>6. QED
  BY <1>4, <1>5

\* What a statement does to the table: rows are raised, or one is added that
\* has the label of a row or founds a cluster (getRaisePriorityQuery,
\* getAddClusterQuery).
LEMMA EffectOnRows ==
    ASSUME TypeOK, InProgress, LabelsAreKnown, LabelsAreFounders,
           NEW t \in Thread, Effect(stmt[t])
    PROVE  /\ rows' \in Seq(Row)
           /\ \/ Len(rows') = Len(rows)
              \/ t = "learner" /\ stmt[t].op = "add" /\ Len(rows') = Len(rows) + 1
           /\ \A i \in DOMAIN rows : i \in DOMAIN rows' /\ rows'[i].label = rows[i].label
           /\ LabelsAreFounders'
<1> DEFINE s == stmt[t]
<1>1. rows \in Seq(Row) /\ Len(rows) \in Nat /\ DOMAIN rows = 1 .. Len(rows)
      /\ s \in Statement /\ (t = "gui" => s.op \in {"none", "select"})
  BY DEF TypeOK, InProgress
<1>2. CASE s.op = "raise"
  <2>1. rows' = [i \in 1 .. Len(rows) |->
                    IF i \in s.ids THEN [rows[i] EXCEPT !.priority = @ + 1] ELSE rows[i]]
    BY <1>1, <1>2 DEF Effect
  <2>2. \A i \in 1 .. Len(rows) : rows'[i] \in Row /\ rows'[i].label = rows[i].label
    <3> TAKE i \in 1 .. Len(rows)
    <3>1. rows[i] \in Row
      BY <1>1
    <3>2. rows'[i] = IF i \in s.ids THEN [rows[i] EXCEPT !.priority = @ + 1] ELSE rows[i]
      BY <2>1
    <3>3. QED
      BY <3>1, <3>2 DEF Row
  <2>3. rows' \in [1 .. Len(rows) -> Row] /\ DOMAIN rows' = 1 .. Len(rows)
    BY <2>1, <2>2
  <2>4. rows' \in Seq(Row) /\ Len(rows') = Len(rows)
    BY <2>3, <1>1
  <2>5. LabelsAreFounders'
    BY <2>2, <2>3, <1>1 DEF LabelsAreFounders, Name
  <2>6. QED
    BY <1>1, <2>2, <2>3, <2>4, <2>5
<1>3. CASE s.op = "add"
  <2> DEFINE l == IF s.label = New THEN NewLabel ELSE s.label
             n == Len(rows) + 1
  <2>1. t = "learner" /\ s.feature \in Feature /\ s.label \in Nat \cup {New}
    BY <1>1, <1>3 DEF Thread, Statement, NoStatement
  <2>2. rows' = Append(rows, [label |-> l, feature |-> s.feature, priority |-> 0])
    BY <1>3 DEF Effect
  <2>3. l \in Nat
    BY <1>1, <2>1 DEF NewLabel, New
  <2>4. [label |-> l, feature |-> s.feature, priority |-> 0] \in Row
    BY <2>1, <2>3 DEF Row
  <2>5. rows' \in Seq(Row) /\ Len(rows') = n /\ DOMAIN rows' = 1 .. n
    BY <1>1, <2>2, <2>4
  <2>6. rows'[n].label = l /\ \A i \in 1 .. Len(rows) : rows'[i] = rows[i]
    BY <1>1, <2>2, <2>4
  <2>7. \A i \in 1 .. Len(rows) : \E j \in 1 .. i : /\ rows'[i].label = Name(j)
                                                    /\ rows'[j].label = Name(j)
    <3> TAKE i \in 1 .. Len(rows)
    <3>1. PICK j \in 1 .. i : rows[i].label = Name(j) /\ rows[j].label = Name(j)
      BY <1>1 DEF LabelsAreFounders
    <3>2. j \in 1 .. Len(rows)
      BY <1>1
    <3>3. QED
      BY <2>6, <3>1, <3>2
  <2>8. \E j \in 1 .. n : rows'[n].label = Name(j) /\ rows'[j].label = Name(j)
    <3>1. CASE s.label = New
      <4>1. l = Name(n)
        <5>1. rows = <<>> <=> n = 1
          BY <1>1
        <5>2. QED
          BY <3>1, <5>1 DEF NewLabel, Name
      <4>2. n \in 1 .. n
        BY <1>1
      <4>3. QED
        BY <2>6, <4>1, <4>2
    <3>2. CASE s.label # New
      <4>1. PICK i \in 1 .. Len(rows) : rows[i].label = l
        BY <1>1, <1>3, <2>1, <3>2 DEF LabelsAreKnown, Known
      <4>2. PICK j \in 1 .. i : rows'[i].label = Name(j) /\ rows'[j].label = Name(j)
        BY <2>7
      <4>3. j \in 1 .. n /\ rows'[i].label = l
        BY <1>1, <2>6, <4>1
      <4>4. QED
        BY <2>6, <4>2, <4>3
    <3>3. QED
      BY <3>1, <3>2
  <2>9. LabelsAreFounders'
    <3>1. \A i \in 1 .. n : i \in 1 .. Len(rows) \/ i = n
      BY <1>1
    <3>2. QED
      BY <3>1, <2>5, <2>7, <2>8 DEF LabelsAreFounders, Name
  <2>10. QED
    BY <1>1, <1>3, <2>1, <2>5, <2>6, <2>9
<1>4. CASE s.op \notin {"raise", "add"}
  <2>1. rows' = rows
    BY <1>4 DEF Effect
  <2>2. QED
    BY <1>1, <2>1 DEF LabelsAreFounders, Name
<1>5. QED
  BY <1>2, <1>3, <1>4

\* A label that is known stays known when no row goes.
LEMMA KnownStays ==
    ASSUME \A i \in DOMAIN rows : i \in DOMAIN rows' /\ rows'[i].label = rows[i].label
    PROVE  \A l : Known(rows, l) => Known(rows', l)
BY DEF Known
-----------------------------------------------------------------------------
(* The steps of SQLite::execute.                                           *)

\* The answer is cleared.
LEMMA ClearKeeps == ASSUME IInv, NEW t \in Thread, Clear(t) PROVE IInv'
<1>1. /\ at[t] = "clear" /\ at' = [at EXCEPT ![t] = "exec"] /\ result' = <<>>
      /\ UNCHANGED <<rows, count, rest, clicks, area, found, label, input, relation, stmt>>
      /\ overlap' \in BOOLEAN
  BY DEF Clear, Disturb, GoTo, gui
<1>2. TypeOK'
  BY <1>1 DEF IInv, TypeOK, HasData
<1>3. InProgress'
  BY <1>1 DEF IInv, TypeOK, InProgress, Executing, Thread
<1>4. LabelsAreKnown'
  BY <1>1 DEF IInv, LabelsAreKnown, Known
<1>5. LabelsAreFounders'
  BY <1>1 DEF IInv, LabelsAreFounders, Name
<1>6. QED
  BY <1>2, <1>3, <1>4, <1>5 DEF IInv

\* sqlite3_exec does what the statement says, and finds the rows to answer.
LEMMA ExecKeeps == ASSUME IInv, NEW t \in Thread, Exec(t) PROVE IInv'
<1>1. PICK s \in (IF stmt[t].op = "select" THEN Selection(stmt[t].feature) ELSE {<<>>}) :
         /\ rest' = [rest EXCEPT ![t] = s]
         /\ at' = [at EXCEPT ![t] = IF s = <<>> THEN "copy" ELSE "rows"]
  BY DEF Exec, GoTo
<1>2. /\ at[t] = "exec" /\ Effect(stmt[t]) /\ UNCHANGED stmt
      /\ UNCHANGED <<result, count, overlap, clicks, area, found, label, input, relation>>
  BY DEF Exec, GoTo, gui
<1>3. s \in Seq(Answer) /\ \A k \in DOMAIN s : Known(rows, s[k].label)
  <2>1. CASE stmt[t].op = "select"
    BY <1>1, <2>1, SelectionAnswers DEF IInv
  <2>2. CASE stmt[t].op # "select"
    BY <1>1, <2>2
  <2>3. QED
    BY <2>1, <2>2
<1>4. /\ rows' \in Seq(Row)
      /\ \/ Len(rows') = Len(rows)
         \/ t = "learner" /\ stmt[t].op = "add" /\ Len(rows') = Len(rows) + 1
      /\ \A i \in DOMAIN rows : i \in DOMAIN rows' /\ rows'[i].label = rows[i].label
      /\ LabelsAreFounders'
  BY <1>2, EffectOnRows DEF IInv
<1>5. Len(rows) \in Nat /\ Len(rows') \in Nat /\ count \in Nat
  <2>1. Len(rows) \in Nat /\ count \in Nat
    BY ClusteringAssumption DEF IInv, TypeOK
  <2>2. Len(rows') \in Nat
    BY <1>4
  <2> QED
    BY <2>1, <2>2
<1>6. (t = "learner" => Len(rows) < count) /\ Len(rows) <= count
  BY <1>2 DEF IInv, TypeOK, InProgress, Executing
<1>7. stmt[t].op = "add" => s = <<>>
  BY <1>1
<1>8. TypeOK'
  <2>1. Len(rows') <= count
    BY <1>4, <1>5, <1>6
  <2>2. rest' \in [Thread -> Seq(Answer)]
    BY <1>1, <1>3 DEF IInv, TypeOK
  <2>3. at' \in [Thread -> {"idle", "clear", "exec", "rows", "copy", "answer"}]
    BY <1>1 DEF IInv, TypeOK
  <2>4. QED
    BY <1>2, <1>4, <2>1, <2>2, <2>3 DEF IInv, TypeOK
<1>9. InProgress'
  <2>1. \A u \in Thread : at'[u] = "rows" => rest'[u] # <<>>
    BY <1>1 DEF IInv, TypeOK, InProgress
  <2>2. at'["gui"] \in Executing => area' # <<>>
    BY <1>1, <1>2 DEF IInv, TypeOK, InProgress, Executing, Thread
  <2>3. stmt'["gui"].op \in {"none", "select"}
    BY <1>2 DEF IInv, InProgress
  <2>4. at'["learner"] \in Executing =>
           Len(rows') < count' \/ (at'["learner"] = "copy" /\ stmt'["learner"].op = "add")
    <3>1. CASE t = "learner"
      BY <3>1, <1>1, <1>2, <1>4, <1>5, <1>6, <1>7 DEF IInv, TypeOK
    <3>2. CASE t # "learner"
      BY <3>2, <1>1, <1>2, <1>4, <1>5 DEF IInv, TypeOK, InProgress, Thread
    <3>3. QED
      BY <3>1, <3>2
  <2>5. QED
    BY <2>1, <2>2, <2>3, <2>4 DEF InProgress
<1>10. LabelsAreKnown'
  <2>1. \A l : Known(rows, l) => Known(rows', l)
    BY <1>4, KnownStays
  <2>2. \A k \in DOMAIN result' : Known(rows', result'[k].label)
    BY <1>2, <2>1 DEF IInv, LabelsAreKnown
  <2>3. \A u \in Thread : \A k \in DOMAIN rest'[u] : Known(rows', rest'[u][k].label)
    <3> TAKE u \in Thread
    <3>1. CASE u = t
      BY <3>1, <1>1, <1>3, <2>1 DEF IInv, TypeOK
    <3>2. CASE u # t
      BY <3>2, <1>1, <2>1 DEF IInv, TypeOK, LabelsAreKnown
    <3>3. QED
      BY <3>1, <3>2
  <2>4. QED
    BY <1>2, <2>1, <2>2, <2>3 DEF IInv, LabelsAreKnown
<1>11. QED
  BY <1>4, <1>8, <1>9, <1>10 DEF IInv

\* The callback pushes one row.
LEMMA CallbackKeeps == ASSUME IInv, NEW t \in Thread, Callback(t) PROVE IInv'
<1>1. /\ at[t] = "rows"
      /\ at' = [at EXCEPT ![t] = IF Len(rest[t]) = 1 THEN "copy" ELSE "rows"]
      /\ result' = Append(result, Head(rest[t]))
      /\ rest' = [rest EXCEPT ![t] = Tail(rest[t])]
      /\ UNCHANGED <<rows, count, clicks, area, found, label, input, relation, stmt>>
      /\ overlap' \in BOOLEAN
  BY DEF Callback, Disturb, GoTo, gui
<1>2. /\ rest[t] \in Seq(Answer) /\ rest[t] # <<>> /\ result \in Seq(Answer)
      /\ rest \in [Thread -> Seq(Answer)]
      /\ at \in [Thread -> {"idle", "clear", "exec", "rows", "copy", "answer"}]
  BY <1>1 DEF IInv, TypeOK, InProgress
<1>3. /\ Head(rest[t]) = rest[t][1] /\ 1 \in DOMAIN rest[t]
      /\ Tail(rest[t]) \in Seq(Answer) /\ Len(Tail(rest[t])) = Len(rest[t]) - 1
      /\ \A k \in DOMAIN Tail(rest[t]) : /\ k + 1 \in DOMAIN rest[t]
                                         /\ Tail(rest[t])[k] = rest[t][k + 1]
  BY <1>2
<1>4. TypeOK'
  BY <1>1, <1>2, <1>3 DEF IInv, TypeOK
<1>5. InProgress'
  <2>1. \A u \in Thread : at'[u] = "rows" => rest'[u] # <<>>
    <3> TAKE u \in Thread
    <3>1. CASE u = t
      <4>1. at'[t] = "rows" => Len(rest[t]) # 1
        BY <1>1, <1>2
      <4>2. Len(rest[t]) # 1 => Tail(rest[t]) # <<>>
        <5>1. Len(rest[t]) \in Nat /\ Len(rest[t]) >= 1
          BY <1>2, <1>3
        <5>2. Len(rest[t]) # 1 => Len(Tail(rest[t])) # 0
          BY <1>3, <5>1
        <5>3. Len(<<>>) = 0
          OBVIOUS
        <5>4. Tail(rest[t]) = <<>> => Len(Tail(rest[t])) = Len(<<>>)
          BY Zenon
        <5>5. QED
          BY <5>2, <5>3, <5>4, Zenon
      <4>3. rest'[t] = Tail(rest[t])
        BY <1>1, <1>2
      <4>4. QED
        BY <3>1, <4>1, <4>2, <4>3
    <3>2. CASE u # t
      BY <3>2, <1>1, <1>2 DEF IInv, InProgress
    <3>3. QED
      BY <3>1, <3>2
  <2>2. at'["gui"] \in Executing => area' # <<>>
    BY <1>1, <1>2 DEF IInv, InProgress, Executing, Thread
  <2>3. at'["learner"] \in Executing =>
           Len(rows') < count' \/ (at'["learner"] = "copy" /\ stmt'["learner"].op = "add")
    BY <1>1, <1>2 DEF IInv, InProgress, Executing, Thread
  <2>4. QED
    BY <1>1, <2>1, <2>2, <2>3 DEF IInv, InProgress
<1>6. LabelsAreKnown'
  <2>1. \A l : Known(rows, l) => Known(rows', l)
    BY <1>1 DEF Known
  <2>2. \A k \in DOMAIN result' : Known(rows, result'[k].label)
    <3> TAKE k \in DOMAIN result'
    <3>1. CASE k \in DOMAIN result
      BY <3>1, <1>1, <1>2, <1>3 DEF IInv, LabelsAreKnown
    <3>2. CASE k \notin DOMAIN result
      <4>1. result'[k] = rest[t][1]
        BY <3>2, <1>1, <1>2, <1>3
      <4>2. QED
        BY <4>1, <1>3 DEF IInv, LabelsAreKnown
    <3>3. QED
      BY <3>1, <3>2
  <2>3. \A u \in Thread : \A k \in DOMAIN rest'[u] : Known(rows, rest'[u][k].label)
    <3> TAKE u \in Thread
    <3>1. CASE u = t
      BY <3>1, <1>1, <1>2, <1>3 DEF IInv, LabelsAreKnown
    <3>2. CASE u # t
      BY <3>2, <1>1, <1>2 DEF IInv, LabelsAreKnown
    <3>3. QED
      BY <3>1, <3>2
  <2>4. QED
    BY <1>1, <2>1, <2>2, <2>3 DEF IInv, LabelsAreKnown
<1>7. LabelsAreFounders'
  BY <1>1 DEF IInv, LabelsAreFounders, Name
<1>8. QED
  BY <1>4, <1>5, <1>6, <1>7 DEF IInv
-----------------------------------------------------------------------------
(* The learner's steps.                                                    *)

\* The next pattern is searched for.
LEMMA LearnKeeps == ASSUME IInv, NEW f \in Feature, Learn(f) PROVE IInv'
<1>1. /\ count < MaxPattern /\ count' = count + 1 /\ at["learner"] = "idle"
      /\ at' = [at EXCEPT !["learner"] = "clear"]
      /\ stmt' = [stmt EXCEPT !["learner"] = Select(f)]
      /\ UNCHANGED <<rows, result, overlap, rest, clicks, area, found, label, input, relation>>
  BY DEF Learn, Call, gui
<1>2. /\ count \in 0 .. MaxPattern /\ MaxPattern \in Nat /\ Len(rows) <= count
      /\ rows \in Seq(Row)
  BY ClusteringAssumption DEF IInv, TypeOK
<1>3. Select(f) \in Statement
  BY DEF Select, Statement
<1>4. TypeOK'
  <2>1. count' \in 0 .. MaxPattern /\ Len(rows') <= count'
    BY <1>1, <1>2
  <2>2. QED
    BY <1>1, <1>3, <2>1 DEF IInv, TypeOK, Thread
<1>5. InProgress'
  <2>1. Len(rows') < count'
    BY <1>1, <1>2
  <2>2. QED
    BY <1>1, <2>1 DEF IInv, TypeOK, InProgress, Thread
<1>6. LabelsAreKnown'
  BY <1>1 DEF IInv, TypeOK, LabelsAreKnown, Known, Select, Thread
<1>7. LabelsAreFounders'
  BY <1>1 DEF IInv, LabelsAreFounders, Name
<1>8. QED
  BY <1>4, <1>5, <1>6, <1>7 DEF IInv

\* commit decides what is executed next.
LEMMA LearnerReturnsKeeps == ASSUME IInv, LearnerReturns PROVE IInv'
<1> DEFINE s == stmt["learner"]
<1>1. /\ at["learner"] = "copy"
      /\ UNCHANGED <<rows, result, count, overlap, rest, clicks, area, found, label, input,
                     relation>>
  BY DEF LearnerReturns, repository, gui
<1>2. /\ s \in Statement /\ "learner" \in Thread /\ "gui" \in Thread
      /\ at \in [Thread -> {"idle", "clear", "exec", "rows", "copy", "answer"}]
      /\ stmt \in [Thread -> Statement] /\ result \in Seq(Answer)
  BY DEF IInv, TypeOK, Thread
<1>3. Len(rows) < count \/ s.op = "add"
  BY <1>1 DEF IInv, InProgress, Executing
<1> DEFINE Named(a) == /\ a.op = "raise" => Known(rows, a.label)
                       /\ a.op = "add" /\ a.label # New => Known(rows, a.label)
           Goes(where) == \/ where = "clear" /\ s.op # "add"
                          \/ where = "idle"
           Asks(a, where) == /\ at' = [at EXCEPT !["learner"] = where]
                             /\ stmt' = [stmt EXCEPT !["learner"] = a]
\* What the learner asks for is a statement, and it has a label of a row.
<1>4. \E a \in Statement, where \in {"clear", "idle"} :
         Asks(a, where) /\ Named(a) /\ Goes(where)
  <2>1. CASE s.op = "select"
    <3>0. s.feature \in Feature
      BY <1>2, <2>1 DEF Statement, NoStatement
    <3>1. Commit(result)
      BY <2>1 DEF LearnerReturns
    <3>2. CASE result = <<>>
      <4> DEFINE a == [op |-> "add", feature |-> s.feature, label |-> New]
      <4>1. at' = [at EXCEPT !["learner"] = "clear"] /\ stmt' = [stmt EXCEPT !["learner"] = a]
        BY <3>1, <3>2 DEF Commit, Call
      <4>2. a \in Statement /\ Named(a) /\ Goes("clear") /\ Asks(a, "clear")
        BY <2>1, <3>0, <4>1 DEF Statement
      <4>3. QED
        BY <4>2
    <3>3. CASE result # <<>>
      <4> DEFINE a == [op |-> "raise", feature |-> s.feature, label |-> result[1].label,
                       ids |-> {result[i].id : i \in DOMAIN result}]
      <4>1. at' = [at EXCEPT !["learner"] = "clear"] /\ stmt' = [stmt EXCEPT !["learner"] = a]
        BY <3>1, <3>3 DEF Commit, Call
      <4>2. 1 \in DOMAIN result /\ \A i \in DOMAIN result : result[i] \in Answer
        BY <1>2, <3>3
      <4>3. a.ids \in SUBSET (1 .. MaxPattern) /\ a.label \in Nat
        BY <4>2 DEF Answer
      <4>4. a \in Statement
        BY <3>0, <4>3 DEF Statement
      <4>5. Known(rows, a.label)
        BY <4>2 DEF IInv, LabelsAreKnown
      <4>6. Named(a)
        BY <4>5
      <4>7. Goes("clear") /\ Asks(a, "clear")
        BY <2>1, <4>1
      <4> HIDE DEF a, Named, Goes, Asks
      <4>8. QED
        BY <4>4, <4>6, <4>7
    <3>4. QED
      BY <3>2, <3>3
  <2>2. CASE s.op = "raise"
    <3> DEFINE a == [op |-> "add", feature |-> s.feature, label |-> s.label]
    <3>1. at' = [at EXCEPT !["learner"] = "clear"] /\ stmt' = [stmt EXCEPT !["learner"] = a]
      BY <2>2 DEF LearnerReturns, Call
    <3>2. s.feature \in Feature /\ s.label \in Nat
      BY <1>2, <2>2 DEF Statement, NoStatement
    <3>3. a \in Statement
      BY <3>2 DEF Statement
    <3>4. Known(rows, s.label)
      BY <2>2 DEF IInv, LabelsAreKnown
    <3>5. Named(a)
      BY <3>4
    <3>6. Goes("clear") /\ Asks(a, "clear")
      BY <2>2, <3>1
    <3> HIDE DEF a, Named, Goes, Asks
    <3>7. QED
      BY <3>3, <3>5, <3>6
  <2>3. CASE s.op \notin {"select", "raise"}
    <3>1. /\ at' = [at EXCEPT !["learner"] = "idle"]
          /\ stmt' = [stmt EXCEPT !["learner"] = NoStatement]
      BY <2>3 DEF LearnerReturns
    <3>2. NoStatement \in Statement /\ Named(NoStatement)
      BY DEF Statement, NoStatement
    <3>3. Goes("idle") /\ Asks(NoStatement, "idle")
      BY <3>1
    <3> HIDE DEF Named, Goes, Asks
    <3>4. QED
      BY <3>2, <3>3
  <2>4. QED
    BY <2>1, <2>2, <2>3
<1>a. PICK a \in Statement, where \in {"clear", "idle"} :
         /\ at' = [at EXCEPT !["learner"] = where] /\ stmt' = [stmt EXCEPT !["learner"] = a]
         /\ Named(a) /\ Goes(where)
  BY <1>4
<1>5. TypeOK'
  <2>1. at' \in [Thread -> {"idle", "clear", "exec", "rows", "copy", "answer"}]
    BY <1>2, <1>a
  <2>2. stmt' \in [Thread -> Statement]
    BY <1>2, <1>a
  <2>3. QED
    BY <1>1, <2>1, <2>2 DEF IInv, TypeOK
<1>6. InProgress'
  <2>1. \A t \in Thread : at'[t] = "rows" => rest'[t] # <<>>
    BY <1>1, <1>2, <1>a DEF IInv, InProgress
  <2>2. at'["gui"] = at["gui"] /\ stmt'["gui"] = stmt["gui"]
    BY <1>2, <1>a DEF Thread
  <2>3. at'["learner"] \in Executing => Len(rows') < count'
    BY <1>1, <1>2, <1>3, <1>a DEF Executing
  <2>4. QED
    BY <1>1, <2>1, <2>2, <2>3 DEF IInv, InProgress
<1>7. LabelsAreKnown'
  <2>1. stmt'["learner"] = a
    BY <1>2, <1>a
  <2>2. Named(stmt'["learner"])
    BY <1>a, <2>1
  <2>3. QED
    BY <1>1, <2>2 DEF IInv, LabelsAreKnown, Known
<1>8. LabelsAreFounders'
  BY <1>1 DEF IInv, LabelsAreFounders, Name
<1>9. QED
  BY <1>5, <1>6, <1>7, <1>8 DEF IInv

\* The exception ends the commit.
LEMMA LearnerFailsKeeps == ASSUME IInv, LearnerFails PROVE IInv'
<1>1. /\ at' = [at EXCEPT !["learner"] = "idle"]
      /\ stmt' = [stmt EXCEPT !["learner"] = NoStatement]
      /\ UNCHANGED <<rows, result, count, overlap, rest, clicks, area, found, label, input,
                     relation>>
  BY DEF LearnerFails, repository, gui
<1>2. NoStatement \in Statement /\ "learner" \in Thread
  BY DEF Statement, Thread
<1>3. TypeOK'
  BY <1>1, <1>2 DEF IInv, TypeOK
<1>4. InProgress'
  BY <1>1 DEF IInv, TypeOK, InProgress, Executing, Thread
<1>5. LabelsAreKnown'
  BY <1>1, <1>2 DEF IInv, TypeOK, LabelsAreKnown, Known, NoStatement
<1>6. LabelsAreFounders'
  BY <1>1 DEF IInv, LabelsAreFounders, Name
<1>7. QED
  BY <1>3, <1>4, <1>5, <1>6 DEF IInv
-----------------------------------------------------------------------------
(* The steps of the window.                                                *)

\* getLabelFromFeatureList asks for the next feature of the area, or is done.
LEMMA SearchNextKeeps ==
    ASSUME IInv, NEW todo \in Seq(Feature), SearchNext(todo),
           clicks' \in 0 .. MaxClick, found' \in Seq(Nat),
           UNCHANGED <<rows, result, count, overlap, rest, label, input, relation>>
    PROVE  IInv'
<1>1. PICK where \in {"answer", "clear"}, s \in Statement :
         /\ at' = [at EXCEPT !["gui"] = where] /\ stmt' = [stmt EXCEPT !["gui"] = s]
         /\ s.op \in {"none", "select"} /\ (where = "clear" => todo # <<>>)
  <2>1. CASE todo = <<>>
    BY <2>1 DEF SearchNext, Statement, NoStatement
  <2>2. CASE todo # <<>>
    <3>1. Head(todo) \in Feature
      BY <2>2
    <3>2. Select(Head(todo)) \in Statement
      BY <3>1 DEF Select, Statement
    <3>3. QED
      BY <2>2, <3>2 DEF SearchNext, Call, Select
  <2>3. QED
    BY <2>1, <2>2
<1>2. area' = todo
  BY DEF SearchNext
<1>3. TypeOK'
  BY <1>1, <1>2 DEF IInv, TypeOK, Thread
<1>4. InProgress'
  BY <1>1, <1>2 DEF IInv, TypeOK, InProgress, Executing, Thread
<1>5. LabelsAreKnown'
  BY <1>1 DEF IInv, TypeOK, LabelsAreKnown, Known, Thread
<1>6. LabelsAreFounders'
  BY DEF IInv, LabelsAreFounders, Name
<1>7. QED
  BY <1>3, <1>4, <1>5, <1>6 DEF IInv

\* A click.
LEMMA ClickKeeps ==
    ASSUME IInv, NEW n \in 0 .. MaxArea, NEW features \in [1 .. n -> Feature], Click(features)
    PROVE  IInv'
<1>1. features \in Seq(Feature)
  BY ClusteringAssumption
<1>2. clicks' \in 0 .. MaxClick
  <2>1. clicks \in 0 .. MaxClick /\ clicks < MaxClick /\ clicks' = clicks + 1
    BY DEF IInv, TypeOK, Click
  <2>2. MaxClick \in Nat
    BY ClusteringAssumption
  <2> QED
    BY <2>1, <2>2
<1>3. found' \in Seq(Nat)
  BY DEF Click
<1>4. QED
  BY <1>1, <1>2, <1>3, SearchNextKeeps DEF Click, repository

\* The search for one feature is answered.
LEMMA GuiReturnsKeeps == ASSUME IInv, GuiReturns PROVE IInv'
<1>1. Tail(area) \in Seq(Feature)
  BY DEF IInv, TypeOK, InProgress, GuiReturns, Executing
<1>2. found' \in Seq(Nat)
  <2>1. result # <<>> => result[1].label \in Nat
    <3>1. result \in Seq(Answer)
      BY DEF IInv, TypeOK
    <3>2. result # <<>> => result[1] \in Answer
      BY <3>1
    <3>3. QED
      BY <3>2 DEF Answer
  <2>2. QED
    BY <2>1 DEF IInv, TypeOK, GuiReturns
<1>3. QED
  BY <1>1, <1>2, SearchNextKeeps DEF IInv, TypeOK, GuiReturns, repository

\* The search for one feature fails.
LEMMA GuiFailsKeeps == ASSUME IInv, GuiFails PROVE IInv'
<1>1. Tail(area) \in Seq(Feature)
  BY DEF IInv, TypeOK, InProgress, GuiFails, Executing
<1>2. QED
  BY <1>1, SearchNextKeeps DEF IInv, TypeOK, GuiFails, repository

\* The data of the area's label are shown, or asked for.
LEMMA ShowRelationKeeps ==
    ASSUME IInv, NEW fails \in BOOLEAN, ShowRelation(fails)
    PROVE  IInv'
<1>1. /\ at' = [at EXCEPT !["gui"] = "idle"]
      /\ UNCHANGED <<rows, result, count, overlap, stmt, rest, clicks, area, found, relation>>
      /\ input' = input \/ input' = [shown |-> TRUE, title |-> label']
  BY DEF ShowRelation, repository
<1>2. label' \in Nat
  BY DEF IInv, TypeOK, ShowRelation
<1>8. input' \in [shown : BOOLEAN, title : Nat]
  <2>1. CASE input' = input
    BY <2>1 DEF IInv, TypeOK
  <2>2. CASE input' = [shown |-> TRUE, title |-> label']
    BY <1>2, <2>2
  <2> QED
    BY <1>1, <2>1, <2>2
<1>3. TypeOK'
  BY <1>1, <1>2, <1>8 DEF IInv, TypeOK
<1>4. InProgress'
  BY <1>1 DEF IInv, TypeOK, InProgress, Executing, Thread
<1>5. LabelsAreKnown'
  BY <1>1 DEF IInv, LabelsAreKnown, Known
<1>6. LabelsAreFounders'
  BY <1>1 DEF IInv, LabelsAreFounders, Name
<1>7. QED
  BY <1>3, <1>4, <1>5, <1>6 DEF IInv

\* What was typed is kept.
LEMMA SubmitKeeps == ASSUME IInv, NEW kept \in BOOLEAN, Submit(kept) PROVE IInv'
<1>1. /\ UNCHANGED <<rows, result, count, overlap, at, stmt, rest, clicks, area, found, label>>
      /\ input' = [input EXCEPT !.shown = FALSE]
      /\ relation' \subseteq relation \cup {[label |-> label, about |-> input.title]}
  BY DEF Submit, repository, execution
<1>2. TypeOK'
  <2>1. relation' \subseteq RelationData
    BY <1>1 DEF IInv, TypeOK, RelationData
  <2>2. input' \in [shown : BOOLEAN, title : Nat]
    BY <1>1 DEF IInv, TypeOK
  <2>3. QED
    BY <1>1, <2>1, <2>2 DEF IInv, TypeOK
<1>3. InProgress' /\ LabelsAreKnown' /\ LabelsAreFounders'
  BY <1>1 DEF IInv, InProgress, LabelsAreKnown, LabelsAreFounders, Known, Name
<1>4. QED
  BY <1>2, <1>3 DEF IInv

\* The program ends at any point, and is started again.
LEMMA RestartKeeps == ASSUME IInv, Restart PROVE IInv'
<1>1. TypeOK'
  BY ClusteringAssumption DEF IInv, TypeOK, Restart, Statement
<1>2. InProgress'
  BY DEF InProgress, Restart, NoStatement, Executing, Thread
<1>3. LabelsAreKnown'
  BY DEF LabelsAreKnown, Restart, NoStatement, Thread
<1>4. LabelsAreFounders'
  BY DEF IInv, LabelsAreFounders, Restart, Name
<1>5. QED
  BY <1>1, <1>2, <1>3, <1>4 DEF IInv
-----------------------------------------------------------------------------
\* The first start, with an empty table.
LEMMA InitIInv == Init => IInv
<1> SUFFICES ASSUME Init PROVE IInv
  OBVIOUS
<1>1. TypeOK
  <2>1. overlap \in BOOLEAN
    BY DEF Init
  <2>2. /\ rows \in Seq(Row) /\ Len(rows) <= count /\ result \in Seq(Answer)
        /\ area \in Seq(Feature) /\ found \in Seq(Nat)
        /\ rest \in [Thread -> Seq(Answer)]
    BY DEF Init
  <2>3. QED
    BY <2>1, <2>2, ClusteringAssumption DEF Init, TypeOK, Statement, RelationData
<1>2. InProgress
  BY DEF Init, InProgress, NoStatement, Executing, Thread
<1>3. LabelsAreKnown
  BY DEF Init, LabelsAreKnown, NoStatement, Thread
<1>4. LabelsAreFounders
  BY DEF Init, LabelsAreFounders
<1>5. QED
  BY <1>1, <1>2, <1>3, <1>4 DEF IInv

\* No step of any thread, failure or restart disturbs the invariant.
LEMMA NextKeepsIInv == IInv /\ [Next]_vars => IInv'
<1> SUFFICES ASSUME IInv, [Next]_vars PROVE IInv'
  OBVIOUS
<1>1. ASSUME NEW t \in Thread, Execution(t) PROVE IInv'
  BY <1>1, ClearKeeps, ExecKeeps, CallbackKeeps DEF Execution
<1>2. ASSUME NEW f \in Feature, Learn(f) PROVE IInv'
  BY <1>2, LearnKeeps
<1>3. CASE LearnerReturns \/ LearnerFails
  BY <1>3, LearnerReturnsKeeps, LearnerFailsKeeps
<1>4. ASSUME NEW n \in 0 .. MaxArea, NEW features \in [1 .. n -> Feature], Click(features)
      PROVE  IInv'
  BY <1>4, ClickKeeps
<1>5. CASE GuiReturns \/ GuiFails \/ \E fails \in BOOLEAN : ShowRelation(fails)
  BY <1>5, GuiReturnsKeeps, GuiFailsKeeps, ShowRelationKeeps
<1>6. ASSUME NEW kept \in BOOLEAN, Submit(kept) PROVE IInv'
  BY <1>6, SubmitKeeps
<1>7. CASE Restart
  BY <1>7, RestartKeeps
<1>8. CASE UNCHANGED vars
  <2>1. TypeOK' /\ InProgress'
    BY <1>8 DEF IInv, TypeOK, InProgress, vars
  <2>2. LabelsAreKnown' /\ LabelsAreFounders'
    BY <1>8 DEF IInv, LabelsAreKnown, LabelsAreFounders, Known, Name, vars
  <2>3. QED
    BY <2>1, <2>2 DEF IInv
<1>9. QED
  BY <1>1, <1>2, <1>3, <1>4, <1>5, <1>6, <1>7, <1>8 DEF Next
-----------------------------------------------------------------------------
\* The classifier's state is what its declarations say, however its two
\* threads interleave, fail or end (TypeOK of ClusterRepository and main.cpp).
THEOREM ClusteringTypeCorrect == Spec => []TypeOK
<1>1. IInv => TypeOK
  BY DEF IInv
<1>2. QED
  BY <1>1, InitIInv, NextKeepsIInv, PTL DEF Spec

\* getAddClusterQuery: the row that is the first with its label gave the
\* label its name, so no cluster ever takes the label of another.
THEOREM LabelsAreNeverReused == Spec => []LabelNamesItsFounder
<1>1. IInv => LabelNamesItsFounder
  <2> SUFFICES ASSUME IInv, NEW i \in DOMAIN rows, Founder(i)
               PROVE  rows[i].label = Name(i)
    BY DEF LabelNamesItsFounder, Name
  <2>1. i \in Nat
    BY DEF IInv, TypeOK
  <2>2. PICK j \in 1 .. i : rows[i].label = Name(j) /\ rows[j].label = Name(j)
    BY DEF IInv, LabelsAreFounders
  <2>3. j = i
    BY <2>1, <2>2 DEF Founder
  <2>4. QED
    BY <2>2, <2>3
<1>2. QED
  BY <1>1, InitIInv, NextKeepsIInv, PTL DEF Spec

\* While the input window is shown, the label that the next Enter is about is
\* the one in its title, or one that has data.
WindowAsks == input.shown => label = input.title \/ HasData(label)

\* window_main and input_window_main: the first data of a label were typed when
\* the input window asked for this label, whatever fails or is clicked.
THEOREM DataAreTypedForTheirLabel == Spec => []DataWereAskedFor
<1>1. Init => DataWereAskedFor /\ WindowAsks
  BY DEF Init, DataWereAskedFor, WindowAsks
<1>2. TypeOK /\ DataWereAskedFor /\ WindowAsks /\ [Next]_vars => DataWereAskedFor' /\ WindowAsks'
  <2> SUFFICES ASSUME TypeOK, DataWereAskedFor, WindowAsks, [Next]_vars
               PROVE  DataWereAskedFor' /\ WindowAsks'
    OBVIOUS
  <2>1. CASE UNCHANGED <<label, input, relation>>
    BY <2>1 DEF DataWereAskedFor, WindowAsks, HasData
  <2>2. ASSUME NEW fails \in BOOLEAN, ShowRelation(fails)
        PROVE  DataWereAskedFor' /\ WindowAsks'
    <3>1. UNCHANGED relation
      BY <2>2 DEF ShowRelation
    <3>2. HasData(label') \/ input' = [shown |-> TRUE, title |-> label']
      BY <2>2 DEF ShowRelation
    <3>3. WindowAsks'
      BY <3>1, <3>2 DEF WindowAsks, HasData
    <3> QED
      BY <3>1, <3>2, <3>3 DEF DataWereAskedFor
  <2>3. ASSUME NEW kept \in BOOLEAN, Submit(kept)
        PROVE  DataWereAskedFor' /\ WindowAsks'
    <3>1. /\ input.shown /\ input' = [input EXCEPT !.shown = FALSE]
          /\ relation' = relation
             \/ relation' = relation \cup {[label |-> label, about |-> input.title]}
      BY <2>3 DEF Submit
    <3>2. WindowAsks'
      BY <3>1 DEF WindowAsks, TypeOK
    <3>3. CASE label = input.title
      BY <3>1, <3>2, <3>3 DEF DataWereAskedFor
    <3>4. CASE HasData(label)
      BY <3>1, <3>2, <3>4 DEF DataWereAskedFor, HasData
    <3> QED
      BY <3>1, <3>2, <3>3, <3>4 DEF WindowAsks
  <2>4. CASE Restart
    <3>1. UNCHANGED relation /\ ~ input'.shown
      BY <2>4 DEF Restart
    <3>2. DataWereAskedFor'
      BY <3>1 DEF DataWereAskedFor
    <3>3. WindowAsks'
      BY <3>1 DEF WindowAsks
    <3> QED
      BY <3>2, <3>3
  <2>5. ASSUME NEW t \in Thread, Execution(t) PROVE UNCHANGED <<label, input, relation>>
    BY <2>5 DEF Execution, Clear, Exec, Callback, gui
  <2>6. ASSUME NEW f \in Feature, Learn(f) PROVE UNCHANGED <<label, input, relation>>
    BY <2>6 DEF Learn, gui
  <2>7. CASE LearnerReturns \/ LearnerFails \/ GuiReturns \/ GuiFails \/ UNCHANGED vars
    BY <2>1, <2>7 DEF LearnerReturns, LearnerFails, GuiReturns, GuiFails, gui, vars
  <2>8. ASSUME NEW n \in 0 .. MaxArea, NEW features \in [1 .. n -> Feature], Click(features)
        PROVE  UNCHANGED <<label, input, relation>>
    BY <2>8 DEF Click
  <2> QED
    BY <2>1, <2>2, <2>3, <2>4, <2>5, <2>6, <2>7, <2>8 DEF Next
<1> QED
  BY <1>1, <1>2, ClusteringTypeCorrect, PTL DEF Spec
-----------------------------------------------------------------------------
(* What the answers say.                                                   *)

\* A cluster with label l has something like f.
Fits(l, f) == \E i \in DOMAIN rows : rows[i].label = l /\ Alike(rows[i].feature, f)

\* The rows that the callback of t has still to push.
RestInOrder(t) ==
    at[t] = "rows" => \A k \in DOMAIN rest[t] : Fits(rest[t][k].label, stmt[t].feature)

GuiAsks == at["gui"] \in Executing => stmt["gui"].op = "select"

\* What t gets to see, unless it has been disturbed.
AnswerInOrder(t) ==
    /\ at[t] = "exec" => result = <<>>
    /\ at[t] \in {"rows", "copy"} /\ stmt[t].op = "select" =>
         \A k \in DOMAIN result : Fits(result[k].label, stmt[t].feature)

\* A statement of the learner has a label that fits, or founds a cluster
\* where there is none.
AskedInOrder(s, where) ==
    /\ s.op = "raise" => Fits(s.label, s.feature)
    /\ s.op = "add" /\ s.label # New => Fits(s.label, s.feature)
    /\ s.op = "add" /\ s.label = New /\ where \in {"clear", "exec"} => AlikeRows(s.feature) = {}

LearnerInOrder ==
    /\ AskedInOrder(stmt["learner"], at["learner"])
    /\ /\ at["learner"] = "copy" /\ stmt["learner"].op = "select"
       /\ AlikeRows(stmt["learner"].feature) # {}
       => result # <<>>

ClustersInOrder ==
    \A i \in DOMAIN rows :
        IF Founder(i) THEN \A j \in 1 .. i - 1 : ~ Alike(rows[j].feature, rows[i].feature)
        ELSE \E j \in 1 .. i - 1 : /\ rows[j].label = rows[i].label
                                   /\ Alike(rows[j].feature, rows[i].feature)

Undisturbed == (\A t \in Thread : AnswerInOrder(t)) /\ LearnerInOrder /\ ClustersInOrder

QInv ==
    /\ GuiAsks
    /\ \A t \in Thread : RestInOrder(t)
    /\ ~ overlap => Undisturbed

\* The answer to a SELECT is of rows like what is searched for, and is empty
\* only if there is none (getSelectClusterQuery).
LEMMA SelectionFits ==
    ASSUME NEW f, NEW s \in Selection(f)
    PROVE  /\ \A k \in DOMAIN s : Fits(s[k].label, f)
           /\ s = <<>> => AlikeRows(f) = {}
<1> DEFINE near == AlikeRows(f)
<1>1. PICK q \in UNION {[1 .. n -> near] : n \in 0 .. 3} :
        /\ s = [k \in DOMAIN q |-> [id |-> q[k], label |-> rows[q[k]].label]]
        /\ \A i \in near : \/ \E k \in DOMAIN q : rows[q[k]].label = rows[i].label
                           \/ 3 \in DOMAIN q
  BY DEF Selection
<1>2. PICK n \in 0 .. 3 : q \in [1 .. n -> near]
  BY <1>1
<1>3. ASSUME NEW k \in DOMAIN s PROVE Fits(s[k].label, f)
  <2>1. s[k].label = rows[q[k]].label /\ q[k] \in near
    BY <1>1, <1>2, <1>3
  <2> QED
    BY <2>1 DEF Fits, AlikeRows
<1>4. ASSUME s = <<>>, NEW i \in near PROVE FALSE
  <2>1. DOMAIN s = DOMAIN q
    BY <1>1
  <2>2. DOMAIN s = {}
    BY <1>4
  <2> QED
    BY <1>1, <1>4, <2>1, <2>2
<1> QED
  BY <1>3, <1>4

\* No statement takes a row or changes what is searched in it.
LEMMA RowsStay ==
    ASSUME TypeOK, NEW t \in Thread, Effect(stmt[t])
    PROVE  /\ \A i \in DOMAIN rows : /\ i \in DOMAIN rows'
                                     /\ rows'[i].label = rows[i].label
                                     /\ rows'[i].feature = rows[i].feature
           /\ stmt[t].op # "add" => DOMAIN rows' = DOMAIN rows
           /\ stmt[t].op = "add" =>
                LET n == Len(rows) + 1 IN
                /\ DOMAIN rows' = 1 .. n
                /\ rows'[n].feature = stmt[t].feature
                /\ rows'[n].label = IF stmt[t].label = New THEN NewLabel ELSE stmt[t].label
<1> DEFINE s == stmt[t]
<1>1. rows \in Seq(Row) /\ Len(rows) \in Nat /\ DOMAIN rows = 1 .. Len(rows) /\ s \in Statement
  BY DEF TypeOK
<1>2. CASE s.op = "raise"
  <2>1. rows' = [i \in DOMAIN rows |->
                   IF i \in s.ids THEN [rows[i] EXCEPT !.priority = @ + 1] ELSE rows[i]]
    BY <1>2 DEF Effect
  <2>2. ASSUME NEW i \in DOMAIN rows
        PROVE  rows'[i].label = rows[i].label /\ rows'[i].feature = rows[i].feature
    <3>1. rows[i] \in Row
      BY <1>1
    <3> QED
      BY <2>1, <3>1 DEF Row
  <2> QED
    BY <1>2, <2>1, <2>2
<1>3. CASE s.op = "add"
  <2> DEFINE row == [label |-> IF s.label = New THEN NewLabel ELSE s.label,
                     feature |-> s.feature, priority |-> 0]
  <2>1. rows' = Append(rows, row)
    BY <1>3 DEF Effect
  <2>2. s.feature \in Feature /\ s.label \in Nat \cup {New}
    BY <1>1, <1>3 DEF Statement, NoStatement
  <2>3. row \in Row
    BY <1>1, <2>2 DEF Row, NewLabel, New
  <2>4. /\ row.feature = s.feature
        /\ row.label = IF s.label = New THEN NewLabel ELSE s.label
    OBVIOUS
  <2> HIDE DEF row
  <2>5. /\ DOMAIN rows' = 1 .. Len(rows) + 1 /\ rows'[Len(rows) + 1] = row
        /\ \A i \in 1 .. Len(rows) : i \in 1 .. Len(rows) + 1 /\ rows'[i] = rows[i]
    BY <1>1, <2>1, <2>3
  <2> QED
    BY <1>1, <1>3, <2>4, <2>5
<1>4. CASE s.op \notin {"raise", "add"}
  BY <1>4 DEF Effect
<1> QED
  BY <1>2, <1>3, <1>4

LEMMA FitsStays ==
    ASSUME \A i \in DOMAIN rows : /\ i \in DOMAIN rows'
                                  /\ rows'[i].label = rows[i].label
                                  /\ rows'[i].feature = rows[i].feature
    PROVE  \A l, f : Fits(l, f) => Fits(l, f)'
  BY DEF Fits

\* A thread that has its answer asks for something else, or for nothing.
LEMMA AskingFits ==
    ASSUME IInv, QInv, NEW t \in Thread, NEW where \in {"idle", "clear", "answer"}, NEW a,
           at' = [at EXCEPT ![t] = where], stmt' = [stmt EXCEPT ![t] = a],
           UNCHANGED <<rows, result, rest, overlap>>,
           t = "gui" /\ where = "clear" => a.op = "select",
           t = "learner" /\ ~ overlap => AskedInOrder(a, where)
    PROVE  QInv'
<1>1. /\ at'[t] = where /\ stmt'[t] = a
      /\ \A u \in Thread : u # t => at'[u] = at[u] /\ stmt'[u] = stmt[u]
      /\ "gui" \in Thread /\ "learner" \in Thread
  BY DEF IInv, TypeOK, Thread
<1>2. \A l, f : Fits(l, f)' <=> Fits(l, f)
  BY DEF Fits
<1>3. GuiAsks'
  BY <1>1 DEF QInv, GuiAsks, Executing
<1>4. \A u \in Thread : RestInOrder(u)'
  BY <1>1, <1>2 DEF QInv, RestInOrder
<1>5. ASSUME ~ overlap PROVE Undisturbed'
  <2>1. \A u \in Thread : AnswerInOrder(u)'
    BY <1>1, <1>2, <1>5 DEF QInv, Undisturbed, AnswerInOrder
  <2>2. LearnerInOrder'
    <3>1. CASE t = "learner"
      BY <1>1, <1>2, <1>5, <3>1 DEF LearnerInOrder, AskedInOrder, AlikeRows
    <3>2. CASE t # "learner"
      BY <1>1, <1>2, <1>5, <3>2 DEF QInv, Undisturbed, LearnerInOrder, AskedInOrder, AlikeRows
    <3> QED
      BY <3>1, <3>2
  <2>3. ClustersInOrder'
    BY <1>5 DEF QInv, Undisturbed, ClustersInOrder, Founder
  <2> QED
    BY <2>1, <2>2, <2>3 DEF Undisturbed
<1> QED
  BY <1>3, <1>4, <1>5 DEF QInv

\* Whoever clears the answer disturbs the other, or has it alone.
LEMMA ClearingFits == ASSUME IInv, QInv, NEW t \in Thread, Clear(t) PROVE QInv'
<1>1. /\ at[t] = "clear" /\ at' = [at EXCEPT ![t] = "exec"] /\ result' = <<>>
      /\ UNCHANGED <<rows, stmt, rest>>
      /\ ~ overlap' => ~ overlap /\ \A u \in Thread \ {t} : at[u] \notin {"exec", "rows", "copy"}
  BY DEF Clear, GoTo, Disturb
<1>2. /\ at'[t] = "exec" /\ \A u \in Thread : u # t => at'[u] = at[u]
      /\ "gui" \in Thread /\ "learner" \in Thread
  BY <1>1 DEF IInv, TypeOK, Thread
<1>3. \A l, f : Fits(l, f)' <=> Fits(l, f)
  BY <1>1 DEF Fits
<1>4. GuiAsks'
  BY <1>1, <1>2 DEF QInv, GuiAsks, Executing
<1>5. \A u \in Thread : RestInOrder(u)'
  BY <1>1, <1>2, <1>3 DEF QInv, RestInOrder
<1>6. ASSUME ~ overlap' PROVE Undisturbed'
  <2>1. \A u \in Thread : AnswerInOrder(u)'
    BY <1>1, <1>2, <1>6 DEF AnswerInOrder
  <2>2. LearnerInOrder'
    <3>1. AskedInOrder(stmt["learner"], at["learner"])
      BY <1>1, <1>6 DEF QInv, Undisturbed, LearnerInOrder
    <3>2. CASE t = "learner"
      BY <1>1, <1>2, <1>3, <3>1, <3>2 DEF LearnerInOrder, AskedInOrder, AlikeRows
    <3>3. CASE t # "learner"
      BY <1>1, <1>2, <1>3, <1>6, <3>1, <3>3 DEF LearnerInOrder, AskedInOrder, AlikeRows
    <3> QED
      BY <3>2, <3>3
  <2>3. ClustersInOrder'
    BY <1>1, <1>6 DEF QInv, Undisturbed, ClustersInOrder, Founder
  <2> QED
    BY <2>1, <2>2, <2>3 DEF Undisturbed
<1> QED
  BY <1>4, <1>5, <1>6 DEF QInv

\* So does whoever pushes a row there.
LEMMA PushingFits == ASSUME IInv, QInv, NEW t \in Thread, Callback(t) PROVE QInv'
<1>1. PICK where \in {"rows", "copy"} :
        /\ at[t] = "rows" /\ at' = [at EXCEPT ![t] = where]
        /\ result' = Append(result, Head(rest[t])) /\ rest' = [rest EXCEPT ![t] = Tail(@)]
        /\ UNCHANGED <<rows, stmt>>
        /\ ~ overlap' => /\ ~ overlap
                         /\ \A u \in Thread \ {t} : at[u] \notin {"exec", "rows", "copy"}
  BY DEF Callback, GoTo, Disturb
<1>2. /\ at'[t] = where /\ \A u \in Thread : u # t => at'[u] = at[u] /\ rest'[u] = rest[u]
      /\ "gui" \in Thread /\ "learner" \in Thread
      /\ rest'[t] = Tail(rest[t]) /\ rest[t] \in Seq(Answer) /\ rest[t] # <<>>
      /\ result \in Seq(Answer)
  BY <1>1 DEF IInv, TypeOK, Thread, InProgress
<1>3. /\ Head(rest[t]) \in Answer /\ Head(rest[t]) = rest[t][1] /\ 1 \in DOMAIN rest[t]
      /\ \A k \in DOMAIN Tail(rest[t]) : /\ k + 1 \in DOMAIN rest[t]
                                         /\ Tail(rest[t])[k] = rest[t][k + 1]
  BY <1>2
<1>4. \A k \in DOMAIN result' : \/ k \in DOMAIN result /\ result'[k] = result[k]
                                \/ result'[k] = rest[t][1]
  BY <1>1, <1>2, <1>3
<1>5. \A l, f : Fits(l, f)' <=> Fits(l, f)
  BY <1>1 DEF Fits
<1>6. GuiAsks'
  BY <1>1, <1>2 DEF QInv, GuiAsks, Executing
<1>7. ASSUME NEW u \in Thread PROVE RestInOrder(u)'
  <2>1. CASE u = t
    BY <1>1, <1>2, <1>3, <1>5, <2>1 DEF QInv, RestInOrder
  <2>2. CASE u # t
    BY <1>1, <1>2, <1>5, <2>2 DEF QInv, RestInOrder
  <2> QED
    BY <2>1, <2>2
<1>8. ASSUME ~ overlap' PROVE Undisturbed'
  <2>1. ASSUME NEW u \in Thread PROVE AnswerInOrder(u)'
    <3>1. CASE u = t
      <4>1. /\ stmt[t].op = "select" =>
                 \A k \in DOMAIN result : Fits(result[k].label, stmt[t].feature)
            /\ Fits(rest[t][1].label, stmt[t].feature)
        BY <1>1, <1>3, <1>8 DEF QInv, RestInOrder, Undisturbed, AnswerInOrder
      <4> QED
        BY <1>1, <1>2, <1>4, <1>5, <3>1, <4>1 DEF AnswerInOrder
    <3>2. CASE u # t
      BY <1>1, <1>2, <1>8, <3>2 DEF AnswerInOrder
    <3> QED
      BY <3>1, <3>2
  <2>2. LearnerInOrder'
    <3>1. AskedInOrder(stmt["learner"], at["learner"])
      BY <1>1, <1>8 DEF QInv, Undisturbed, LearnerInOrder
    <3>2. CASE t = "learner"
      <4>1. result' # <<>>
        BY <1>1, <1>2, <1>3
      <4> QED
        BY <1>1, <1>2, <1>5, <3>1, <3>2, <4>1 DEF LearnerInOrder, AskedInOrder, AlikeRows
    <3>3. CASE t # "learner"
      BY <1>1, <1>2, <1>5, <1>8, <3>1, <3>3 DEF LearnerInOrder, AskedInOrder, AlikeRows
    <3> QED
      BY <3>2, <3>3
  <2>3. ClustersInOrder'
    BY <1>1, <1>8 DEF QInv, Undisturbed, ClustersInOrder, Founder
  <2> QED
    BY <2>1, <2>2, <2>3 DEF Undisturbed
<1> QED
  BY <1>6, <1>7, <1>8 DEF QInv

\* A row that is added has something like it in its cluster, or founds one
\* where there is none.
LEMMA AddingFits ==
    ASSUME IInv, ClustersInOrder, NEW t \in Thread, Effect(stmt[t]),
           at[t] = "exec", AskedInOrder(stmt[t], at[t])
    PROVE  ClustersInOrder'
<1> DEFINE s == stmt[t]
<1>0. rows \in Seq(Row)
  BY DEF IInv, TypeOK
<1>a. PICK n \in Nat : n = Len(rows) + 1
  BY <1>0
<1>1. /\ \A i \in DOMAIN rows : /\ i \in DOMAIN rows'
                                /\ rows'[i].label = rows[i].label
                                /\ rows'[i].feature = rows[i].feature
      /\ s.op # "add" => DOMAIN rows' = DOMAIN rows
      /\ s.op = "add" =>
           /\ DOMAIN rows' = 1 .. n
           /\ rows'[n].feature = s.feature
           /\ rows'[n].label = IF s.label = New THEN NewLabel ELSE s.label
  BY <1>a, RowsStay DEF IInv
<1>2. /\ DOMAIN rows = 1 .. Len(rows) /\ Len(rows) \in Nat /\ n \in Nat
      /\ \A i \in 1 .. Len(rows) : \A j \in 1 .. i - 1 : j \in 1 .. Len(rows)
      /\ \A i \in 1 .. n : i \in 1 .. Len(rows) \/ i = n
      /\ 1 .. n - 1 = 1 .. Len(rows)
      /\ rows = <<>> <=> n = 1
  BY <1>0, <1>a
<1>3. ASSUME NEW i \in DOMAIN rows
      PROVE  IF Founder(i)'
             THEN \A j \in 1 .. i - 1 : ~ Alike(rows'[j].feature, rows'[i].feature)
             ELSE \E j \in 1 .. i - 1 : /\ rows'[j].label = rows'[i].label
                                        /\ Alike(rows'[j].feature, rows'[i].feature)
  <2>1. \A j \in 1 .. i - 1 : rows'[j].label = rows[j].label /\ rows'[j].feature = rows[j].feature
    BY <1>1, <1>2
  <2>2. Founder(i)' <=> Founder(i)
    BY <1>1, <2>1 DEF Founder
  <2> QED
    BY <1>1, <2>1, <2>2 DEF ClustersInOrder
<1>4. ASSUME s.op = "add"
      PROVE  IF Founder(n)'
             THEN \A j \in 1 .. n - 1 : ~ Alike(rows'[j].feature, rows'[n].feature)
             ELSE \E j \in 1 .. n - 1 : /\ rows'[j].label = rows'[n].label
                                        /\ Alike(rows'[j].feature, rows'[n].feature)
  <2>1. CASE s.label # New
    <3>1. PICK j \in DOMAIN rows : rows[j].label = s.label /\ Alike(rows[j].feature, s.feature)
      BY <1>4, <2>1 DEF AskedInOrder, Fits
    <3>2. /\ j \in 1 .. n - 1 /\ rows'[j].label = rows'[n].label
          /\ Alike(rows'[j].feature, rows'[n].feature)
      BY <1>1, <1>2, <1>4, <2>1, <3>1
    <3> QED
      BY <3>2 DEF Founder
  <2>2. CASE s.label = New
    <3>1. \A j \in 1 .. n - 1 : ~ Alike(rows'[j].feature, rows'[n].feature)
      BY <1>1, <1>2, <1>4, <2>2 DEF AskedInOrder, AlikeRows
    <3>2. rows'[n].label = Name(n)
      BY <1>a, <1>1, <1>2, <1>4, <2>2 DEF Name, NewLabel
    <3>3. ASSUME NEW j \in 1 .. n - 1 PROVE rows'[j].label # Name(n)
      <4>1. PICK k \in 1 .. j : rows[j].label = Name(k)
        BY <1>2 DEF IInv, LabelsAreFounders
      <4>2. k \in Nat /\ k < n /\ k > 0
        BY <1>2
      <4> QED
        BY <1>1, <1>2, <4>1, <4>2 DEF Name
    <3>4. Founder(n)'
      BY <3>2, <3>3 DEF Founder
    <3> QED
      BY <3>1, <3>4
  <2> QED
    BY <2>1, <2>2
<1> QED
  BY <1>1, <1>2, <1>3, <1>4 DEF ClustersInOrder

LEMMA ExecutingFits == ASSUME IInv, QInv, NEW t \in Thread, Exec(t) PROVE QInv'
<1>1. PICK s \in (IF stmt[t].op = "select" THEN Selection(stmt[t].feature) ELSE {<<>>}) :
         /\ rest' = [rest EXCEPT ![t] = s]
         /\ at' = [at EXCEPT ![t] = IF s = <<>> THEN "copy" ELSE "rows"]
  BY DEF Exec, GoTo
<1>2. at[t] = "exec" /\ Effect(stmt[t]) /\ UNCHANGED <<stmt, result, overlap>>
  BY DEF Exec, GoTo
<1>3. /\ at'[t] = (IF s = <<>> THEN "copy" ELSE "rows") /\ rest'[t] = s
      /\ \A u \in Thread : u # t => at'[u] = at[u] /\ rest'[u] = rest[u]
      /\ "gui" \in Thread /\ "learner" \in Thread /\ t \in {"gui", "learner"}
  BY <1>1 DEF IInv, TypeOK, Thread
<1>4. /\ \A i \in DOMAIN rows : /\ i \in DOMAIN rows'
                                /\ rows'[i].label = rows[i].label
                                /\ rows'[i].feature = rows[i].feature
      /\ stmt[t].op # "add" => DOMAIN rows' = DOMAIN rows
  BY <1>2, RowsStay DEF IInv
<1>5. /\ \A l, f : Fits(l, f) => Fits(l, f)'
      /\ stmt[t].op # "add" => \A f : AlikeRows(f)' = AlikeRows(f)
  BY <1>4, FitsStays DEF AlikeRows
<1>6. /\ \A k \in DOMAIN s : Fits(s[k].label, stmt[t].feature)
      /\ stmt[t].op = "select" /\ s = <<>> => AlikeRows(stmt[t].feature) = {}
  <2>1. CASE stmt[t].op = "select"
    BY <1>1, <2>1, SelectionFits
  <2>2. CASE stmt[t].op # "select"
    BY <1>1, <2>2
  <2> QED
    BY <2>1, <2>2
<1>7. GuiAsks'
  BY <1>2, <1>3 DEF QInv, GuiAsks, Executing
<1>8. ASSUME NEW u \in Thread PROVE RestInOrder(u)'
  <2>1. CASE u = t
    BY <1>2, <1>3, <1>5, <1>6, <2>1 DEF RestInOrder
  <2>2. CASE u # t
    BY <1>2, <1>3, <1>5, <2>2 DEF QInv, RestInOrder
  <2> QED
    BY <2>1, <2>2
<1>9. ASSUME ~ overlap PROVE Undisturbed'
  <2>1. ASSUME NEW u \in Thread PROVE AnswerInOrder(u)'
    <3>1. CASE u = t
      <4>1. result = <<>>
        BY <1>2, <1>9 DEF QInv, Undisturbed, AnswerInOrder
      <4> QED
        BY <1>2, <1>3, <3>1, <4>1 DEF AnswerInOrder
    <3>2. CASE u # t
      BY <1>2, <1>3, <1>5, <1>9, <3>2 DEF QInv, Undisturbed, AnswerInOrder
    <3> QED
      BY <3>1, <3>2
  <2>2. LearnerInOrder /\ ClustersInOrder
    BY <1>9 DEF QInv, Undisturbed
  <2>3. t = "gui" => stmt[t].op = "select"
    BY <1>2 DEF QInv, GuiAsks, Executing
  <2>4. LearnerInOrder'
    <3>1. CASE t = "learner"
      BY <1>2, <1>3, <1>5, <1>6, <2>2, <3>1 DEF LearnerInOrder, AskedInOrder
    <3>2. CASE t = "gui"
      BY <1>2, <1>3, <1>5, <2>2, <2>3, <3>2 DEF LearnerInOrder, AskedInOrder
    <3> QED
      BY <1>3, <3>1, <3>2
  <2>5. AskedInOrder(stmt[t], at[t])
    BY <1>3, <2>2, <2>3 DEF LearnerInOrder, AskedInOrder
  <2>6. ClustersInOrder'
    BY <1>2, <2>2, <2>5, AddingFits
  <2> QED
    BY <2>1, <2>4, <2>6 DEF Undisturbed
<1> QED
  BY <1>2, <1>7, <1>8, <1>9 DEF QInv

\* commit: the label of the first row that was answered fits the pattern, and
\* it stays the label until the pattern is added.
LEMMA ReturningFits == ASSUME IInv, QInv, LearnerReturns PROVE QInv'
<1> DEFINE s == stmt["learner"]
<1>1. at["learner"] = "copy" /\ UNCHANGED <<rows, result, rest, overlap>>
  BY DEF LearnerReturns, repository
<1>2. "learner" \in Thread /\ result \in Seq(Answer)
  BY DEF IInv, TypeOK, Thread
<1>3. ~ overlap => AnswerInOrder("learner") /\ LearnerInOrder
  BY <1>2 DEF QInv, Undisturbed
<1>4. CASE s.op = "select"
  <2>1. Commit(result)
    BY <1>4 DEF LearnerReturns
  <2>2. CASE result = <<>>
    <3> DEFINE a == [op |-> "add", feature |-> s.feature, label |-> New]
    <3>1. at' = [at EXCEPT !["learner"] = "clear"] /\ stmt' = [stmt EXCEPT !["learner"] = a]
      BY <2>1, <2>2 DEF Commit, Call
    <3>2. ~ overlap => AskedInOrder(a, "clear")
      BY <1>1, <1>3, <1>4, <2>2 DEF LearnerInOrder, AskedInOrder
    <3> HIDE DEF a
    <3> QED
      BY <1>1, <1>2, <3>1, <3>2, AskingFits
  <2>3. CASE result # <<>>
    <3> DEFINE a == [op |-> "raise", feature |-> s.feature, label |-> result[1].label,
                     ids |-> {result[i].id : i \in DOMAIN result}]
    <3>1. at' = [at EXCEPT !["learner"] = "clear"] /\ stmt' = [stmt EXCEPT !["learner"] = a]
      BY <2>1, <2>3 DEF Commit, Call
    <3>2. 1 \in DOMAIN result
      BY <1>2, <2>3
    <3>3. ~ overlap => Fits(result[1].label, s.feature)
      BY <1>1, <1>3, <1>4, <3>2 DEF AnswerInOrder
    <3>4. ~ overlap => AskedInOrder(a, "clear")
      BY <3>3 DEF AskedInOrder
    <3> HIDE DEF a
    <3> QED
      BY <1>1, <1>2, <3>1, <3>4, AskingFits
  <2> QED
    BY <2>2, <2>3
<1>5. CASE s.op = "raise"
  <2> DEFINE a == [op |-> "add", feature |-> s.feature, label |-> s.label]
  <2>1. at' = [at EXCEPT !["learner"] = "clear"] /\ stmt' = [stmt EXCEPT !["learner"] = a]
    BY <1>5 DEF LearnerReturns, Call
  <2>2. s.label # New
    <3>1. s \in Statement
      BY <1>2 DEF IInv, TypeOK
    <3> QED
      BY <1>5, <3>1 DEF Statement, NoStatement, New
  <2>3. ~ overlap => AskedInOrder(a, "clear")
    BY <1>3, <1>5, <2>2 DEF LearnerInOrder, AskedInOrder
  <2> HIDE DEF a
  <2> QED
    BY <1>1, <1>2, <2>1, <2>3, AskingFits
<1>6. CASE s.op \notin {"select", "raise"}
  <2>1. /\ at' = [at EXCEPT !["learner"] = "idle"]
        /\ stmt' = [stmt EXCEPT !["learner"] = NoStatement]
    BY <1>6 DEF LearnerReturns
  <2>2. AskedInOrder(NoStatement, "idle")
    BY DEF AskedInOrder, NoStatement
  <2> QED
    BY <1>1, <1>2, <2>1, <2>2, AskingFits
<1> QED
  BY <1>4, <1>5, <1>6

\* The window asks for the next feature of its area, or is done.
LEMMA SearchingFits ==
    ASSUME IInv, QInv, NEW todo, SearchNext(todo), UNCHANGED <<rows, result, rest, overlap>>
    PROVE  QInv'
<1>1. "gui" \in Thread
  BY DEF Thread
<1>2. CASE todo = <<>>
  BY <1>1, <1>2, AskingFits DEF SearchNext
<1>3. CASE todo # <<>>
  <2>1. /\ at' = [at EXCEPT !["gui"] = "clear"]
        /\ stmt' = [stmt EXCEPT !["gui"] = Select(Head(todo))]
    BY <1>3 DEF SearchNext, Call
  <2>2. Select(Head(todo)).op = "select"
    BY DEF Select
  <2> QED
    BY <1>1, <2>1, <2>2, AskingFits
<1> QED
  BY <1>2, <1>3

LEMMA LearningFits == ASSUME IInv, QInv, NEW f \in Feature, Learn(f) PROVE QInv'
<1>1. /\ at' = [at EXCEPT !["learner"] = "clear"]
      /\ stmt' = [stmt EXCEPT !["learner"] = Select(f)]
      /\ UNCHANGED <<rows, result, rest, overlap>> /\ "learner" \in Thread
  BY DEF Learn, Call, Thread
<1>2. AskedInOrder(Select(f), "clear")
  BY DEF AskedInOrder, Select
<1> QED
  BY <1>1, <1>2, AskingFits

LEMMA FailingFits == ASSUME IInv, QInv, LearnerFails PROVE QInv'
<1>1. /\ at' = [at EXCEPT !["learner"] = "idle"]
      /\ stmt' = [stmt EXCEPT !["learner"] = NoStatement]
      /\ UNCHANGED <<rows, result, rest, overlap>> /\ "learner" \in Thread
  BY DEF LearnerFails, repository, Thread
<1>2. AskedInOrder(NoStatement, "idle")
  BY DEF AskedInOrder, NoStatement
<1> QED
  BY <1>1, <1>2, AskingFits

\* After a restart nobody asks or answers.
LEMMA RestartingFits ==
    ASSUME QInv, UNCHANGED <<rows, overlap>>,
           \A t \in Thread : at'[t] = "idle" /\ stmt'[t] = NoStatement
    PROVE  QInv'
<1>1. \A t \in Thread : AnswerInOrder(t)' /\ RestInOrder(t)'
  BY DEF AnswerInOrder, RestInOrder
<1>2. GuiAsks' /\ LearnerInOrder'
  BY DEF GuiAsks, Executing, LearnerInOrder, AskedInOrder, NoStatement, Thread
<1>3. ClustersInOrder => ClustersInOrder'
  BY DEF ClustersInOrder, Founder
<1> QED
  BY <1>1, <1>2, <1>3 DEF QInv, Undisturbed

LEMMA UntouchedFits ==
    ASSUME QInv, UNCHANGED <<rows, result, at, stmt, rest, overlap>>
    PROVE  QInv'
<1>1. \A l, f : Fits(l, f)' <=> Fits(l, f)
  BY DEF Fits
<1>2. \A t \in Thread : /\ AnswerInOrder(t)' <=> AnswerInOrder(t)
                        /\ RestInOrder(t)' <=> RestInOrder(t)
  BY <1>1 DEF AnswerInOrder, RestInOrder
<1>3. GuiAsks' <=> GuiAsks
  BY DEF GuiAsks
<1>4. LearnerInOrder' <=> LearnerInOrder
  BY <1>1 DEF LearnerInOrder, AskedInOrder, AlikeRows
<1>5. ClustersInOrder' <=> ClustersInOrder
  BY DEF ClustersInOrder, Founder
<1> QED
  BY <1>2, <1>3, <1>4, <1>5 DEF QInv, Undisturbed

LEMMA FitsInvariance == Spec => []QInv
<1>1. Init => QInv
  <2> SUFFICES ASSUME Init PROVE QInv
    OBVIOUS
  <2>1. \A t \in Thread : AnswerInOrder(t) /\ RestInOrder(t)
    BY DEF Init, AnswerInOrder, RestInOrder
  <2>2. GuiAsks /\ LearnerInOrder
    BY DEF Init, GuiAsks, Executing, LearnerInOrder, AskedInOrder, NoStatement, Thread
  <2>3. ClustersInOrder
    BY DEF Init, ClustersInOrder
  <2> QED
    BY <2>1, <2>2, <2>3 DEF QInv, Undisturbed
<1>2. IInv /\ QInv /\ [Next]_vars => QInv'
  <2> SUFFICES ASSUME IInv, QInv, [Next]_vars PROVE QInv'
    OBVIOUS
  <2>1. ASSUME NEW t \in Thread, Execution(t) PROVE QInv'
    BY <2>1, ClearingFits, ExecutingFits, PushingFits DEF Execution
  <2>2. ASSUME NEW f \in Feature, Learn(f) PROVE QInv'
    BY <2>2, LearningFits
  <2>3. CASE LearnerReturns \/ LearnerFails
    BY <2>3, ReturningFits, FailingFits
  <2>4. ASSUME NEW features, Click(features) PROVE QInv'
    BY <2>4, SearchingFits DEF Click, repository
  <2>5. CASE GuiReturns \/ GuiFails
    BY <2>5, SearchingFits DEF GuiReturns, GuiFails, repository
  <2>6. ASSUME NEW fails \in BOOLEAN, ShowRelation(fails) PROVE QInv'
    <3>1. /\ at' = [at EXCEPT !["gui"] = "idle"] /\ "gui" \in Thread
          /\ UNCHANGED <<rows, result, rest, overlap, stmt>>
      BY <2>6 DEF ShowRelation, repository, Thread
    <3>2. stmt' = [stmt EXCEPT !["gui"] = stmt["gui"]]
      BY <3>1 DEF IInv, TypeOK
    <3> QED
      BY <3>1, <3>2, AskingFits
  <2>7. ASSUME NEW kept \in BOOLEAN, Submit(kept) PROVE QInv'
    BY <2>7, UntouchedFits DEF Submit, repository, execution
  <2>8. CASE Restart
    BY <2>8, RestartingFits DEF Restart
  <2>9. CASE UNCHANGED vars
    BY <2>9, UntouchedFits DEF vars
  <2> QED
    BY <2>1, <2>2, <2>3, <2>4, <2>5, <2>6, <2>7, <2>8, <2>9 DEF Next
<1> QED
  BY InitIInv, NextKeepsIInv, <1>1, <1>2, PTL DEF Spec
-----------------------------------------------------------------------------
\* commit (ClusterRepository.cpp l.98): as long as no thread has changed an
\* answer that the other was waiting for, every pattern that did not found its
\* cluster was like one in it that was learned before, whatever statements
\* failed and wherever the program ended.
THEOREM PatternsJoinTheirLike == Spec => []ClustersHangTogether
<1>1. QInv => ClustersHangTogether
  BY DEF QInv, Undisturbed, ClustersInOrder, ClustersHangTogether
<1> QED
  BY FitsInvariance, <1>1, PTL

\* commit (l.91): under the same condition a pattern founds a cluster only if
\* none that was learned before is like it.
THEOREM ClustersAreFoundedAlone == Spec => []FoundersStandAlone
<1>1. QInv => FoundersStandAlone
  BY DEF QInv, Undisturbed, ClustersInOrder, FoundersStandAlone
<1> QED
  BY FitsInvariance, <1>1, PTL

\* window_main (main.cpp l.137): the label that a search finds is that of a
\* cluster with something like the feature that was searched for, whatever the
\* learner has added meanwhile, unless it has changed the answer.
THEOREM SearchesFindTheirLike == Spec => LabelIsOfTheArea
<1>1. IInv /\ QInv /\ [Next]_vars => [FoundIsAlike]_vars
  <2> SUFFICES ASSUME IInv, QInv, Next, found' # found, found' # <<>>, ~ overlap
               PROVE  \E i \in DOMAIN rows : /\ rows[i].label = found'[Len(found')]
                                             /\ Alike(rows[i].feature, stmt["gui"].feature)
    BY DEF FoundIsAlike
  <2>1. GuiReturns
    BY DEF Next, Execution, Clear, Exec, Callback, Learn, LearnerReturns, LearnerFails, Click,
           GuiFails, ShowRelation, Submit, Restart, gui
  <2>2. result # <<>> /\ found' = Append(found, result[1].label) /\ at["gui"] = "copy"
    BY <2>1 DEF GuiReturns
  <2>3. /\ result \in Seq(Answer) /\ found \in Seq(Nat) /\ "gui" \in Thread
        /\ 1 \in DOMAIN result /\ result[1] \in Answer
    BY <2>2 DEF IInv, TypeOK, Thread
  <2>4. found'[Len(found')] = result[1].label
    <3>1. result[1].label \in Nat
      BY <2>3 DEF Answer
    <3> QED
      BY <2>2, <2>3, <3>1
  <2>5. Fits(result[1].label, stmt["gui"].feature)
    BY <2>2, <2>3 DEF QInv, GuiAsks, Executing, Undisturbed, AnswerInOrder
  <2> QED
    BY <2>4, <2>5 DEF Fits
<1>2. Spec => []IInv
  BY InitIInv, NextKeepsIInv, PTL DEF Spec
<1> QED
  BY <1>1, <1>2, FitsInvariance, PTL DEF Spec, LabelIsOfTheArea
=============================================================================
