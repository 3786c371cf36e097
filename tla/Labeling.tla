------------------------------ MODULE Labeling ------------------------------
(***************************************************************************)
(* ImageUtil::Labeling and SamplingLargeObject: the white points of a      *)
(* picture get numbers, and the points with the commonest number are kept. *)
(* A scan gives each point the smallest number next to it and notes in a   *)
(* lookup table which numbers have met; the table is resolved to its ends, *)
(* and numbers are replaced; all of this twice; then the numbers that are  *)
(* left are counted from 0, which is what is not an object.  The pictures   *)
(* may have been labelled before: no one takes an old Label away.          *)
(*                                                                         *)
(* The outermost points are not scanned; they stay 0 and are left out.     *)
(***************************************************************************)
EXTENDS Integers, FiniteSets

CONSTANTS Width, Height, \* of what is scanned
          MaxLabel,      \* where min_calc begins: 0xFFFF
          Input,         \* pictures: white, and some of its objects
          Junk           \* what the uninitialised area_id holds

Point == (1 .. Width) \X (1 .. Height)

\* One of the eight points around p.
Touches(p, q) ==
    /\ p # q
    /\ p[1] - q[1] \in -1 .. 1
    /\ p[2] - q[2] \in -1 .. 1

\* No other white point touches objects.
IsApart(objs, whites) == \A p \in objs, q \in whites : Touches(p, q) => q \in objs

ASSUME LabelingAssumption ==
    /\ {Width, Height, MaxLabel, Junk} \subseteq Nat
    /\ MaxLabel > 0
    /\ \A c \in Input :
         /\ c.white \subseteq Point /\ c.objects \subseteq c.white
         /\ IsApart(c.objects, c.white)

VARIABLES
    white,        \* the picture
    objects,      \* some of its objects (for the properties)
    label,        \* label_list, and at the end the Label of each Pixel
    was,          \* until then: the Label of each Pixel
    lookup,       \* Lookup_table, as far as label_count
    label_count,
    k,            \* which of the two rounds
    at,           \* where in the round
    point,        \* scan: the next point
    h, a,         \* resolve: the entry, and where Lookup_update has got from it
    answer        \* what is returned

vars == <<white, objects, label, was, lookup, label_count, k, at, point, h, a, answer>>

TypeOK ==
    /\ white \subseteq Point /\ objects \subseteq white
    /\ label_count \in Nat \ {0}
    /\ lookup \in [0 .. label_count - 1 -> Nat]
    /\ \A l \in DOMAIN lookup : lookup[l] <= l    \* so Lookup_update ends
    /\ label \in [Point -> Nat] /\ was \in [Point -> Nat]
    /\ at \in {"scan", "resolve", "number"} => \A p \in Point : label[p] < label_count
    /\ k \in 0 .. 1
    /\ at \in {"scan", "resolve", "number", "done", "sampled"}
    /\ point \in Nat \X Nat
    /\ h \in 0 .. label_count
    /\ a \in 0 .. label_count
    /\ answer \in Nat
-----------------------------------------------------------------------------
(* Slips that the properties below must notice; no action uses these.      *)

\* numbers that have met are noted the wrong way round
JoinedUp(near, m) ==
    [l \in DOMAIN lookup |-> IF l = m THEN CHOOSE x \in near \cup {m} : \A y \in near : x >= y
                             ELSE lookup[l]]

\* what has met is not looked up: the whole table is searched
JoinedAll(near, m) == [l \in DOMAIN lookup |-> IF lookup[l] >= m THEN m ELSE lookup[l]]

\* what is not an object is not counted
NumberFromZero(r) ==
    Cardinality({lookup[j] : j \in {j \in DOMAIN lookup : j > 0 /\ \A i \in 0 .. j : lookup[i] # r}})
-----------------------------------------------------------------------------
(* Helpers.                                                                *)

\* min_data, without what is not labelled
LabelsAround(p) == {label[q] : q \in {q \in Point : Touches(p, q)}} \ {0}

\* What min_calc returns for these labels.
IsMin(m, near) == m \in near \cup {MaxLabel} /\ \A l \in near \cup {MaxLabel} : m <= l

\* The loop over min_data: what has met m leads to m now.
Joined(near, m) ==
    [l \in DOMAIN lookup |-> IF l \in near \ {m} /\ lookup[l] >= m THEN m ELSE lookup[l]]

\* sub_table: how many others come before the first entry that leads to r
sub_table(r) ==
    Cardinality({lookup[j] : j \in {j \in DOMAIN lookup : \A i \in 0 .. j : lookup[i] # r}})

NextPoint(p) == IF p[1] < Width THEN <<p[1] + 1, p[2]>> ELSE <<1, p[2] + 1>>

Area(l) == Cardinality({p \in Point : label[p] = l})
-----------------------------------------------------------------------------
(* The scan.                                                               *)

\* Not a white point.
Skip ==
    /\ at = "scan" /\ point[2] <= Height
    /\ point \notin white
    /\ point' = NextPoint(point)
    /\ UNCHANGED <<white, objects, label, lookup, label_count, k, at, h, a, answer, was>>

\* There is no label around it, or there are some.
Label ==
    LET near == LabelsAround(point) IN
    /\ at = "scan" /\ point[2] <= Height
    /\ point \in white
    /\ IF near = {}
       THEN /\ label' = [label EXCEPT ![point] = label_count]
            /\ lookup' = [l \in 0 .. label_count |-> IF l = label_count THEN l ELSE lookup[l]]
            /\ label_count' = label_count + 1
       ELSE \E m \in near \cup {MaxLabel} :
            /\ IsMin(m, near)
            /\ label' = [label EXCEPT ![point] = m]
            /\ lookup' = Joined(near, m)
            /\ UNCHANGED label_count
    /\ point' = NextPoint(point)
    /\ UNCHANGED <<white, objects, k, at, h, a, answer, was>>

EndScan ==
    /\ at = "scan" /\ point[2] > Height
    /\ at' = "resolve"
    /\ h' = 0 /\ a' = 0
    /\ UNCHANGED <<white, objects, label, lookup, label_count, k, point, answer, was>>
-----------------------------------------------------------------------------
(* The lookup table is resolved, entry by entry.                           *)

\* Lookup_update calls itself.
Follow ==
    /\ at = "resolve" /\ h < label_count
    /\ lookup[a] # a
    /\ a' = lookup[a]
    /\ UNCHANGED <<white, objects, label, lookup, label_count, k, at, point, h, answer, was>>

\* It returns; the next entry is taken.
Store ==
    /\ at = "resolve" /\ h < label_count
    /\ lookup[a] = a
    /\ lookup' = [lookup EXCEPT ![h] = a]
    /\ h' = h + 1 /\ a' = h + 1
    /\ UNCHANGED <<white, objects, label, label_count, k, at, point, answer, was>>

\* The labels are replaced, and the second round begins.
Relabel ==
    /\ at = "resolve" /\ h = label_count
    /\ label' = [p \in Point |-> IF label[p] # 0 THEN lookup[label[p]] ELSE 0]
    /\ IF k = 0 THEN k' = 1 /\ at' = "scan" /\ point' = <<1, 1>>
       ELSE at' = "number" /\ UNCHANGED <<k, point>>
    /\ UNCHANGED <<white, objects, lookup, label_count, h, a, answer, was>>

\* The labels that are left are numbered, and put into the picture; a point
\* without one keeps the Label it had.
Number ==
    /\ at = "number"
    /\ label' = [p \in Point |-> IF label[p] # 0 THEN sub_table(lookup[label[p]]) ELSE was[p]]
    /\ answer' = Cardinality({lookup[l] : l \in DOMAIN lookup})
    /\ at' = "done"
    /\ UNCHANGED <<white, objects, lookup, label_count, k, point, h, a, was>>
-----------------------------------------------------------------------------
\* SamplingLargeObject: of the labels with the largest area the first is
\* chosen; if there is none, area_id is not initialised.
SamplingLargeObject ==
    LET labels == {label[p] : p \in Point} \ {0} IN
    /\ at = "done"
    /\ IF labels = {} THEN answer' \in {0, Junk}
       ELSE /\ answer' \in labels
            /\ \A l \in labels : \/ Area(l) < Area(answer')
                                 \/ Area(l) = Area(answer') /\ l >= answer'
    /\ white' = {p \in Point : label[p] = answer'}
    /\ objects' = objects \cap white'
    /\ at' = "sampled"
    /\ UNCHANGED <<label, was, lookup, label_count, k, point, h, a>>

\* A program has the picture labelled again, as it is now.
Again ==
    /\ at \in {"done", "sampled"}
    /\ objects' \in {o \in SUBSET white : IsApart(o, white)}
    /\ was' = label
    /\ label' = [p \in Point |-> 0]
    /\ lookup' = [l \in {0} |-> 0]
    /\ label_count' = 1
    /\ k' = 0 /\ at' = "scan" /\ point' = <<1, 1>>
    /\ h' = 0 /\ a' = 0
    /\ answer' = 0
    /\ UNCHANGED white

Init ==
    /\ \E c \in Input : white = c.white /\ objects = c.objects
    /\ label = [p \in Point |-> 0] /\ was = label
    /\ lookup = [l \in {0} |-> 0]
    /\ label_count = 1
    /\ k = 0 /\ at = "scan" /\ point = <<1, 1>>
    /\ h = 0 /\ a = 0
    /\ answer = 0

Next == Skip \/ Label \/ EndScan \/ Follow \/ Store \/ Relabel \/ Number
        \/ SamplingLargeObject \/ Again

Spec == Init /\ [][Next]_vars
-----------------------------------------------------------------------------
(* Properties.                                                             *)

\* The picture was not labelled before.
IsFresh == \A p \in Point : was[p] = 0

\* Labeling: points of different objects never have the same label, from the
\* first scan to the numbers in the picture, in whatever order labels meet;
\* so what SamplingLargeObject keeps is of one object, if the picture was not
\* labelled before (an old Label counts there as one of the new).  It takes
\* that there are no more labels than min_calc knows, and a white point.
ObjectsStayApart ==
    label_count <= MaxLabel =>
        /\ at # "sampled" =>
              \A p \in objects, q \in white \ objects :
                  label[p] # 0 /\ label[q] # 0 => label[p] # label[q]
        /\ at = "sampled" /\ label_count > 1 /\ IsFresh => objects \in {{}, white}

\* ImageUtilClass.h l.68: labels begin with 1, every white point has one, and
\* the number that is returned is above all of them; every other point keeps
\* the Label it had before.
LabelsBeginWithOne ==
    at = "done" => \A p \in Point : label[p] \in IF p \in white THEN 1 .. answer - 1 ELSE {was[p]}
=============================================================================
