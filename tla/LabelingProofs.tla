--------------------------- MODULE LabelingProofs ---------------------------
(***************************************************************************)
(* Proofs about the labelling, for pictures of any size with any objects,  *)
(* and any MaxLabel.                                                       *)
(***************************************************************************)
EXTENDS Labeling, FiniteSetTheorems, TLAPS

\* Only 0 leads to 0 in the lookup table.
Kept == lookup[0] = 0 /\ \A l \in DOMAIN lookup \ {0} : lookup[l] # 0

\* Where Lookup_update has got to.
Following == at = "resolve" => a <= h /\ (a = 0 <=> h = 0)

\* The entries that have been resolved lead straight to their ends.
Resolved ==
    /\ at = "resolve" => \A l \in 0 .. h - 1 : lookup[lookup[l]] = lookup[l]
    /\ at = "number" => \A l \in DOMAIN lookup : lookup[lookup[l]] = lookup[l]

\* The picture is still the one that was given.
Given ==
    at # "sampled" =>
        /\ \A p \in objects, q \in white : Touches(p, q) => q \in objects
        /\ label_count > 1 => white # {}
        /\ at # "done" => \A p \in Point : label[p] # 0 => p \in white

Before(p, q) == p[2] < q[2] \/ (p[2] = q[2] /\ p[1] < q[1])

\* The first scan has labelled every white point that it has passed.
Scanned ==
    /\ at = "scan" /\ k = 0 => \A p \in white : Before(p, point) => label[p] # 0
    /\ at = "scan" /\ k = 1 => \A p \in white : label[p] # 0
    /\ at \in {"resolve", "number"} => \A p \in white : label[p] # 0

\* S: the labels of the objects.  The table does not lead out of them.
Sides(S) ==
    /\ \A p \in Point : label[p] # 0 => (p \in objects <=> label[p] \in S)
    /\ \A l \in DOMAIN lookup : l \in S <=> lookup[l] \in S
    /\ at = "resolve" /\ h < label_count => (a \in S <=> h \in S)

Working == {"scan", "resolve", "number"}

Apart == at \in Working /\ label_count <= MaxLabel => \E S \in SUBSET Nat : Sides(S)

Finished == at \notin Working => LabelsBeginWithOne /\ ObjectsStayApart

IInv ==
    /\ TypeOK /\ Kept /\ Following /\ Resolved
    /\ Given /\ Scanned /\ Apart /\ Finished
-----------------------------------------------------------------------------
(* sub_table.                                                              *)

Entries(r) == {lookup[j] : j \in {j \in DOMAIN lookup : \A i \in 0 .. j : lookup[i] # r}}

\* A number is never as large as the number of entries (ImageUtil::Labeling,
\* l.1107).
LEMMA NumbersAreBounded ==
    ASSUME TypeOK, NEW l \in DOMAIN lookup
    PROVE  sub_table(lookup[l]) \in 0 .. label_count - 1
<1> DEFINE r == lookup[l]
           T == 0 .. label_count - 1
<1>1. DOMAIN lookup = T /\ label_count \in Nat \ {0} /\ r \in T
  BY DEF TypeOK
<1>2. Entries(r) \subseteq T \ {r}
  <2> SUFFICES ASSUME NEW j \in T, \A i \in 0 .. j : lookup[i] # r
               PROVE  lookup[j] \in T /\ lookup[j] # r
    BY <1>1 DEF Entries
  <2>1. j \in 0 .. j
    BY <1>1
  <2>2. lookup[j] \in Nat /\ lookup[j] <= j
    BY <1>1 DEF TypeOK
  <2> QED
    BY <2>1, <2>2, <1>1
<1>3. IsFiniteSet(T) /\ Cardinality(T) = label_count
  BY <1>1, FS_Interval
<1>4. IsFiniteSet(T \ {r}) /\ Cardinality(T \ {r}) = label_count - 1
  <2> HIDE DEF T, r
  <2> QED
    BY <1>1, <1>3, FS_RemoveElement
<1>5. IsFiniteSet(Entries(r)) /\ Cardinality(Entries(r)) <= label_count - 1
  BY <1>2, <1>4, FS_Subset
<1>6. Cardinality(Entries(r)) \in Nat
  BY <1>5, FS_CardinalityType
<1> QED
  BY <1>1, <1>5, <1>6 DEF sub_table, Entries

\* When the table is resolved, two ends have different numbers: the smaller
\* end has the smaller number (l.1104-1109).
LEMMA NumbersAreInOrder ==
    ASSUME TypeOK, NEW r \in DOMAIN lookup, lookup[r] = r,
           \A l \in DOMAIN lookup : lookup[lookup[l]] = lookup[l],
           NEW s \in DOMAIN lookup, lookup[s] = s, r < s
    PROVE  sub_table(r) < sub_table(s)
<1> DEFINE T == 0 .. label_count - 1
<1>1. DOMAIN lookup = T /\ label_count \in Nat \ {0} /\ r \in T /\ s \in T
  BY DEF TypeOK
<1>2. \A j \in T : lookup[j] \in Nat /\ lookup[j] <= j
  BY <1>1 DEF TypeOK
<1>3. Entries(r) \subseteq Entries(s)
  <2> SUFFICES ASSUME NEW j \in T, \A i \in 0 .. j : lookup[i] # r
               PROVE  \A i \in 0 .. j : lookup[i] # s
    BY <1>1 DEF Entries
  <2>1. j < r
    BY <1>1
  <2> TAKE i \in 0 .. j
  <2>2. lookup[i] <= i
    BY <1>1, <1>2
  <2> QED
    BY <2>1, <2>2, <1>1, <1>2
<1>4. r \in Entries(s)
  <2>1. \A i \in 0 .. r : lookup[i] # s
    BY <1>1, <1>2
  <2> QED
    BY <2>1, <1>1 DEF Entries
<1>5. r \notin Entries(r)
  <2> SUFFICES ASSUME NEW j \in T, \A i \in 0 .. j : lookup[i] # r
               PROVE  lookup[j] # r
    BY <1>1 DEF Entries
  <2> QED
    BY <1>1
<1>6. Entries(s) \subseteq T
  <2> SUFFICES ASSUME NEW j \in T
               PROVE  lookup[j] \in T
    BY <1>1 DEF Entries
  <2> QED
    BY <1>1, <1>2
<1>7. IsFiniteSet(Entries(s))
  <2>1. IsFiniteSet(T)
    BY <1>1, FS_Interval
  <2> HIDE DEF T
  <2> QED
    BY <1>6, <2>1, FS_Subset
<1>8. IsFiniteSet(Entries(s) \ {r}) /\ Cardinality(Entries(s) \ {r}) = Cardinality(Entries(s)) - 1
  BY <1>4, <1>7, FS_RemoveElement
<1>9. Entries(r) \subseteq Entries(s) \ {r}
  BY <1>3, <1>5
<1>10. IsFiniteSet(Entries(r)) /\ Cardinality(Entries(r)) <= Cardinality(Entries(s) \ {r})
  BY <1>8, <1>9, FS_Subset
<1>11. Cardinality(Entries(r)) \in Nat /\ Cardinality(Entries(s)) \in Nat
  BY <1>7, <1>10, FS_CardinalityType
<1> QED
  BY <1>8, <1>10, <1>11 DEF sub_table, Entries

\* Every end but 0 has a number from 1 on, below the number that is returned
\* (l.1104-1110).
LEMMA NumbersAreCounted ==
    ASSUME TypeOK, Kept, NEW l \in DOMAIN lookup, l # 0
    PROVE  sub_table(lookup[l]) \in 1 .. Cardinality({lookup[j] : j \in DOMAIN lookup}) - 1
<1> DEFINE r == lookup[l]
           T == 0 .. label_count - 1
           All == {lookup[j] : j \in DOMAIN lookup}
<1>1. DOMAIN lookup = T /\ label_count \in Nat \ {0} /\ r \in T /\ r # 0
  BY DEF TypeOK, Kept
<1>2. \A j \in T : lookup[j] \in Nat /\ lookup[j] <= j
  BY <1>1 DEF TypeOK
<1>3. All \subseteq T
  <2> SUFFICES ASSUME NEW j \in T
               PROVE  lookup[j] \in T
    BY <1>1
  <2> QED
    BY <1>1, <1>2
<1>4. IsFiniteSet(All) /\ Cardinality(All) \in Nat
  <2>1. IsFiniteSet(T)
    BY <1>1, FS_Interval
  <2> HIDE DEF T, All
  <2> QED
    BY <1>3, <2>1, FS_Subset, FS_CardinalityType
<1>5. r \in All
  BY <1>1
<1>6. Entries(r) \subseteq All \ {r}
  <2> SUFFICES ASSUME NEW j \in T, \A i \in 0 .. j : lookup[i] # r
               PROVE  lookup[j] \in All /\ lookup[j] # r
    BY <1>1 DEF Entries
  <2> QED
    BY <1>1
<1>7. IsFiniteSet(All \ {r}) /\ Cardinality(All \ {r}) = Cardinality(All) - 1
  BY <1>4, <1>5, FS_RemoveElement
<1>8. IsFiniteSet(Entries(r)) /\ Cardinality(Entries(r)) <= Cardinality(All) - 1
  BY <1>6, <1>7, FS_Subset
<1>9. 0 \in Entries(r)
  <2>1. 0 \in T /\ lookup[0] = 0 /\ \A i \in 0 .. 0 : lookup[i] # r
    BY <1>1 DEF Kept
  <2> QED
    BY <2>1, <1>1 DEF Entries
<1>10. Cardinality(Entries(r)) \in Nat /\ Cardinality(Entries(r)) # 0
  BY <1>8, <1>9, FS_CardinalityType, FS_EmptySet
<1> QED
  BY <1>4, <1>8, <1>10 DEF sub_table, Entries
-----------------------------------------------------------------------------
(* The steps.                                                              *)

USE LabelingAssumption

\* While the picture is labelled, the labels are entries of the table.
LEMMA LabelsAreEntries ==
    ASSUME TypeOK, at \in Working
    PROVE  /\ label_count \in Nat \ {0} /\ DOMAIN lookup = 0 .. label_count - 1
           /\ label \in [Point -> 0 .. label_count - 1]
<1>1. label_count \in Nat \ {0} /\ DOMAIN lookup = 0 .. label_count - 1
  BY DEF TypeOK
<1>2. label \in [Point -> Nat] /\ \A p \in Point : label[p] < label_count
  BY DEF TypeOK, Working
<1>3. \A p \in Point : label[p] \in 0 .. label_count - 1
  BY <1>1, <1>2
<1> QED
  BY <1>1, <1>2, <1>3

LEMMA Starting == Init => IInv
<1> SUFFICES ASSUME Init PROVE IInv
  OBVIOUS
<1>1. TypeOK /\ Kept /\ Following /\ Resolved
  BY DEF Init, TypeOK, Kept, Following, Resolved
<1>2. Given
  BY DEF Init, Given, IsApart
<1>3. Scanned
  <2> SUFFICES ASSUME NEW p \in white PROVE ~ Before(p, point)
    BY DEF Init, Scanned
  <2>1. p \in Point /\ point = <<1, 1>>
    BY DEF Init
  <2> QED
    BY <2>1 DEF Before, Point
<1>4. Sides({})
  BY DEF Init, Sides
<1>5. Apart /\ Finished
  BY <1>4 DEF Apart, Finished, Init, Working
<1> QED
  BY <1>1, <1>2, <1>3, <1>5 DEF IInv

\* What comes before the next point is this point or came before it.
LEMMA ScanGoesOn ==
    ASSUME TypeOK, NEW p \in white, Before(p, NextPoint(point)), p # point
    PROVE  Before(p, point)
<1>1. /\ point \in Nat \X Nat
      /\ p \in Point /\ p = <<p[1], p[2]>>
      /\ point = <<point[1], point[2]>>
  <2>1. point \in Nat \X Nat /\ p \in Point
    BY DEF TypeOK
  <2>2. p = <<p[1], p[2]>>
    BY <2>1 DEF Point
  <2>3. point = <<point[1], point[2]>>
    BY <2>1
  <2> QED
    BY <2>1, <2>2, <2>3
<1>2. p[1] \in 1 .. Width /\ p[2] \in 1 .. Height /\ point[1] \in Nat /\ point[2] \in Nat
  BY <1>1 DEF Point
<1>3. p[1] # point[1] \/ p[2] # point[2]
  BY <1>1
<1>4. CASE point[1] < Width
  <2>1. NextPoint(point)[1] = point[1] + 1 /\ NextPoint(point)[2] = point[2]
    BY <1>4 DEF NextPoint
  <2> QED
    BY <2>1, <1>2, <1>3 DEF Before
<1>5. CASE ~ (point[1] < Width)
  <2>1. NextPoint(point)[1] = 1 /\ NextPoint(point)[2] = point[2] + 1
    BY <1>5 DEF NextPoint
  <2> QED
    BY <2>1, <1>2, <1>3, <1>5 DEF Before
<1> QED
  BY <1>4, <1>5

LEMMA NextIsPair == ASSUME TypeOK PROVE NextPoint(point) \in Nat \X Nat
<1>1. point[1] \in Nat /\ point[2] \in Nat
  BY DEF TypeOK
<1> QED
  BY <1>1 DEF NextPoint

\* What is not white is passed.
LEMMA Passing == IInv /\ Skip => IInv'
<1> SUFFICES ASSUME IInv, Skip PROVE IInv'
  OBVIOUS
<1> USE DEF IInv
<1>1. TypeOK' /\ Kept' /\ Following' /\ Resolved' /\ Given'
  <2>1. TypeOK'
    BY NextIsPair DEF Skip, TypeOK
  <2>2. Kept' /\ Following'
    BY DEF Skip, Kept, Following
  <2>3. Resolved' /\ Given'
    BY DEF Skip, Resolved, Given
  <2> QED
    BY <2>1, <2>2, <2>3
<1>2. Scanned'
  BY ScanGoesOn DEF Skip, Scanned, TypeOK
<1>3. Apart'
  BY DEF Skip, Apart, Sides, Working
<1>4. Finished'
  BY DEF Skip, Finished, Working
<1> QED
  BY <1>1, <1>2, <1>3, <1>4


\* A white point with no label around it gets a new one (l.1050-1055).
LabelNew ==
    /\ LabelsAround(point) = {}
    /\ label' = [label EXCEPT ![point] = label_count]
    /\ lookup' = [l \in 0 .. label_count |-> IF l = label_count THEN l ELSE lookup[l]]
    /\ label_count' = label_count + 1

\* A white point gets the smallest label around it (l.1056-1079).
LabelOld(m) ==
    /\ IsMin(m, LabelsAround(point)) /\ LabelsAround(point) # {}
    /\ label' = [label EXCEPT ![point] = m]
    /\ lookup' = Joined(LabelsAround(point), m)
    /\ UNCHANGED label_count

\* What both have in common.
LabelBoth ==
    /\ at = "scan" /\ point \in white
    /\ point' = NextPoint(point)
    /\ UNCHANGED <<white, objects, k, at, h, a, answer, was>>

LEMMA LabelIsOneOfTwo ==
    TypeOK /\ Label => LabelBoth /\ (LabelNew \/ \E m \in Nat : LabelOld(m))
<1> SUFFICES ASSUME TypeOK, Label PROVE LabelBoth /\ (LabelNew \/ \E m \in Nat : LabelOld(m))
  OBVIOUS
<1>1. LabelBoth
  BY DEF Label, LabelBoth
<1>2. CASE LabelsAround(point) = {}
  BY <1>1, <1>2 DEF Label, LabelNew
<1>3. CASE LabelsAround(point) # {}
  <2>1. PICK m \in LabelsAround(point) \cup {MaxLabel} :
          /\ IsMin(m, LabelsAround(point))
          /\ label' = [label EXCEPT ![point] = m]
          /\ lookup' = Joined(LabelsAround(point), m)
          /\ UNCHANGED label_count
    BY <1>3 DEF Label
  <2>2. LabelOld(m)
    BY <1>3, <2>1 DEF LabelOld
  <2>3. m \in Nat
    BY <2>1 DEF LabelsAround, TypeOK
  <2> QED
    BY <1>1, <2>2, <2>3
<1> QED
  BY <1>2, <1>3

LEMMA LabellingNew ==
    ASSUME IInv, LabelBoth, LabelNew
    PROVE  IInv'
<1> USE DEF IInv
<1>1. point \in Point /\ label_count \in Nat \ {0}
  BY DEF LabelBoth, TypeOK
<1>2. /\ DOMAIN lookup = 0 .. label_count - 1 /\ DOMAIN lookup' = 0 .. label_count
      /\ lookup'[label_count] = label_count
      /\ \A l \in DOMAIN lookup : lookup'[l] = lookup[l] /\ lookup[l] \in Nat /\ lookup[l] <= l
  BY DEF LabelNew, TypeOK
<1>3. /\ label' \in [Point -> 0 .. label_count]
      /\ label'[point] = label_count
      /\ \A p \in Point : p # point => label'[p] = label[p]
      /\ label \in [Point -> 0 .. label_count - 1]
  <2>1. label \in [Point -> 0 .. label_count - 1]
    BY LabelsAreEntries DEF LabelBoth, Working
  <2>2. label' = [label EXCEPT ![point] = label_count]
    BY DEF LabelNew
  <2>3. 0 .. label_count - 1 \subseteq 0 .. label_count /\ label_count \in 0 .. label_count
    BY <1>1
  <2> QED
    BY <1>1, <2>1, <2>2, <2>3
<1>4. TypeOK'
  <2>1. lookup' \in [0 .. label_count -> Nat]
    BY <1>1, <1>2 DEF LabelNew, TypeOK
  <2>2. \A l \in DOMAIN lookup' : lookup'[l] <= l
    BY <1>1, <1>2
  <2>3. point' \in Nat \X Nat
    BY NextIsPair DEF LabelBoth
  <2>4. label_count' = label_count + 1 /\ 0 .. label_count' - 1 = 0 .. label_count
    BY <1>1 DEF LabelNew
  <2>5. UNCHANGED <<white, objects, k, at, h, a, answer, was>>
    BY DEF LabelBoth
  <2>6. label_count' \in Nat \ {0} /\ h' \in 0 .. label_count' /\ a' \in 0 .. label_count'
    BY <1>1, <2>4, <2>5 DEF TypeOK
  <2>7. lookup' \in [0 .. label_count' - 1 -> Nat]
    BY <2>1, <2>4
  <2>8. label' \in [Point -> Nat] /\ \A p \in Point : label'[p] < label_count'
    <3>1. \A p \in Point : label'[p] \in Nat /\ label'[p] < label_count'
      BY <1>1, <1>3, <2>4
    <3> QED
      BY <3>1, <1>3
  <2> QED
    BY <2>2, <2>3, <2>5, <2>6, <2>7, <2>8 DEF TypeOK
<1>5. Kept'
  BY <1>1, <1>2 DEF Kept
<1>6. Following' /\ Resolved' /\ Finished'
  BY DEF LabelBoth, Following, Resolved, Finished, Working
<1>7. Given'
  BY <1>3 DEF LabelBoth, Given
<1>8. Scanned'
  <2>1. \A p \in white : label[p] # 0 => label'[p] # 0
    BY <1>1, <1>3 DEF TypeOK
  <2> QED
    BY <1>1, <1>3, <2>1, ScanGoesOn DEF LabelBoth, Scanned, TypeOK
<1>9. ASSUME label_count' <= MaxLabel
      PROVE  \E S \in SUBSET Nat : Sides(S)'
  <2>1. label_count <= MaxLabel
    BY <1>1, <1>9 DEF LabelNew
  <2>2. PICK S \in SUBSET Nat : Sides(S)
    BY <2>1 DEF Apart, LabelBoth, Working
  <2> DEFINE new == IF point \in objects THEN {label_count} ELSE {}
             old == S \cap 0 .. label_count - 1
  <2>3. PICK S2 \in SUBSET Nat :
          /\ \A l \in 0 .. label_count - 1 : l \in S2 <=> l \in S
          /\ label_count \in S2 <=> point \in objects
    <3>1. old \cup new \in SUBSET Nat
      BY <1>1
    <3>2. \A l \in 0 .. label_count - 1 : l \in old \cup new <=> l \in S
      BY <1>1
    <3>3. label_count \in old \cup new <=> point \in objects
      BY <1>1
    <3> QED
      BY <3>1, <3>2, <3>3
  <2>5. ASSUME NEW p \in Point, label'[p] # 0
        PROVE  p \in objects <=> label'[p] \in S2
    <3>1. CASE p = point
      BY <3>1, <2>3, <1>3
    <3>2. CASE p # point
      BY <3>2, <2>2, <2>3, <2>5, <1>3 DEF Sides
    <3> QED
      BY <3>1, <3>2
  <2>6. ASSUME NEW l \in DOMAIN lookup'
        PROVE  l \in S2 <=> lookup'[l] \in S2
    <3>1. CASE l = label_count
      BY <3>1, <1>2
    <3>2. CASE l # label_count
      <4>1. l \in 0 .. label_count - 1 /\ lookup[l] \in 0 .. label_count - 1
        BY <3>2, <1>1, <1>2
      <4> QED
        BY <4>1, <2>2, <2>3, <1>2 DEF Sides
    <3> QED
      BY <3>1, <3>2
  <2>7. Sides(S2)'
    BY <2>5, <2>6 DEF Sides, LabelBoth
  <2> QED
    BY <2>7
<1>10. Apart'
  BY <1>9 DEF Apart
<1> QED
  BY <1>4, <1>5, <1>6, <1>7, <1>8, <1>10

LEMMA LabellingOld ==
    ASSUME IInv, LabelBoth, NEW m \in Nat, LabelOld(m)
    PROVE  IInv'
<1> USE DEF IInv
<1> DEFINE near == LabelsAround(point)
<1>1. point \in Point /\ label_count \in Nat \ {0}
  BY DEF LabelBoth, TypeOK
<1>2. \A l \in near : l \in 1 .. label_count - 1
  BY <1>1, LabelsAreEntries DEF LabelsAround, LabelBoth, Working
<1>3. /\ m \in 1 .. label_count - 1 /\ m \in near \cup {MaxLabel}
      /\ \A l \in near : m <= l
  <2>1. PICK l \in near : TRUE
    BY DEF LabelOld
  <2>2. m <= l /\ m \in near \cup {MaxLabel}
    BY <2>1 DEF LabelOld, IsMin
  <2> QED
    BY <1>1, <1>2, <2>1, <2>2 DEF LabelOld, IsMin
<1>4. /\ DOMAIN lookup = 0 .. label_count - 1 /\ DOMAIN lookup' = DOMAIN lookup
      /\ \A l \in DOMAIN lookup :
            lookup'[l] = lookup[l] \/ (l \in near /\ lookup'[l] = m)
      /\ \A l \in DOMAIN lookup : lookup[l] \in Nat /\ lookup[l] <= l
  BY DEF LabelOld, Joined, TypeOK
<1>5. /\ label' \in [Point -> 0 .. label_count - 1]
      /\ label'[point] = m
      /\ \A p \in Point : p # point => label'[p] = label[p]
  BY <1>1, <1>3, LabelsAreEntries DEF LabelOld, LabelBoth, Working
<1>6. TypeOK'
  <2>1. lookup' \in [0 .. label_count - 1 -> Nat]
    BY <1>1, <1>3, <1>4 DEF LabelOld, Joined, TypeOK
  <2>2. \A l \in DOMAIN lookup' : lookup'[l] <= l
    BY <1>3, <1>4
  <2>3. point' \in Nat \X Nat
    BY NextIsPair DEF LabelBoth
  <2>4. UNCHANGED <<white, objects, k, at, h, a, answer, label_count, was>>
    BY DEF LabelBoth, LabelOld
  <2>5. label' \in [Point -> Nat] /\ \A p \in Point : label'[p] < label_count
    <3>1. \A p \in Point : label'[p] \in Nat /\ label'[p] < label_count
      BY <1>1, <1>5
    <3> QED
      BY <3>1, <1>5
  <2> QED
    BY <1>1, <2>1, <2>2, <2>3, <2>4, <2>5 DEF TypeOK
<1>7. Kept'
  <2>1. lookup'[0] = 0
    BY <1>1, <1>2, <1>4 DEF Kept
  <2>2. \A l \in DOMAIN lookup' \ {0} : lookup'[l] # 0
    BY <1>1, <1>3, <1>4 DEF Kept
  <2> QED
    BY <2>1, <2>2 DEF Kept
<1>8. Following' /\ Resolved' /\ Finished'
  BY DEF LabelBoth, Following, Resolved, Finished, Working
<1>9. Given'
  BY <1>1, <1>5 DEF LabelBoth, LabelOld, Given
<1>10. Scanned'
  <2>1. \A p \in white : label[p] # 0 => label'[p] # 0
    BY <1>1, <1>3, <1>5 DEF TypeOK
  <2>2. label'[point] # 0
    BY <1>3, <1>5
  <2> QED
    BY <1>1, <2>1, <2>2, ScanGoesOn DEF LabelBoth, Scanned, TypeOK
<1>11. ASSUME label_count <= MaxLabel
       PROVE  \E S \in SUBSET Nat : Sides(S)'
  <2>1. PICK S \in SUBSET Nat : Sides(S)
    BY <1>11 DEF Apart, LabelBoth, Working
  <2>2. \A l \in near : l \in S <=> point \in objects
    <3> SUFFICES ASSUME NEW q \in Point, Touches(point, q), label[q] # 0
                 PROVE  label[q] \in S <=> point \in objects
      BY DEF LabelsAround
    <3>1. q \in white /\ point \in white
      BY DEF Given, LabelBoth
    <3>2. Touches(q, point)
      BY <1>1 DEF Touches, Point
    <3>3. q \in objects <=> point \in objects
      BY <3>1, <3>2 DEF Given, LabelBoth
    <3> QED
      BY <3>3, <2>1 DEF Sides
  <2>3. m \in near
    <3>1. PICK l \in near : TRUE
      BY DEF LabelOld
    <3> QED
      BY <3>1, <1>1, <1>2, <1>3, <1>11
  <2> HIDE DEF near
  <2>4. ASSUME NEW p \in Point, label'[p] # 0
        PROVE  p \in objects <=> label'[p] \in S
    <3>1. CASE p = point
      BY <3>1, <2>2, <2>3, <1>5
    <3>2. CASE p # point
      BY <3>2, <2>1, <2>4, <1>5 DEF Sides
    <3> QED
      BY <3>1, <3>2
  <2>5. ASSUME NEW l \in DOMAIN lookup'
        PROVE  l \in S <=> lookup'[l] \in S
    <3>1. CASE lookup'[l] = lookup[l]
      BY <3>1, <2>1, <1>4 DEF Sides
    <3>2. CASE l \in near /\ lookup'[l] = m
      BY <3>2, <2>2, <2>3
    <3> QED
      BY <3>1, <3>2, <1>4
  <2>6. Sides(S)'
    BY <2>4, <2>5 DEF Sides, LabelBoth
  <2> QED
    BY <2>6
<1>12. Apart'
  BY <1>11 DEF Apart, LabelOld
<1> QED
  BY <1>6, <1>7, <1>8, <1>9, <1>10, <1>12

LEMMA Labelling == IInv /\ Label => IInv'
  BY LabelIsOneOfTwo, LabellingNew, LabellingOld DEF IInv

LEMMA EndingTheScan == IInv /\ EndScan => IInv'
<1> SUFFICES ASSUME IInv, EndScan PROVE IInv'
  OBVIOUS
<1> USE DEF IInv
<1>1. TypeOK' /\ Kept' /\ Following' /\ Resolved' /\ Given' /\ Finished'
  <2>1. TypeOK'
    BY DEF EndScan, TypeOK
  <2>2. Kept' /\ Following' /\ Resolved'
    BY DEF EndScan, TypeOK, Kept, Following, Resolved
  <2>3. Given' /\ Finished'
    BY DEF EndScan, Given, Finished, Working
  <2> QED
    BY <2>1, <2>2, <2>3
<1>2. Scanned'
  <2> SUFFICES ASSUME NEW p \in white PROVE Before(p, point)
    BY DEF EndScan, Scanned, TypeOK
  <2>1. p[2] \in 1 .. Height /\ point[2] \in Nat /\ point[2] > Height
    BY DEF EndScan, TypeOK, Point
  <2> QED
    BY <2>1 DEF Before
<1>3. Apart'
  <2> SUFFICES ASSUME label_count <= MaxLabel
               PROVE  \E S \in SUBSET Nat : Sides(S)'
    BY DEF Apart, EndScan
  <2>1. PICK S \in SUBSET Nat : Sides(S)
    BY DEF Apart, EndScan, Working
  <2>2. Sides(S)'
    BY <2>1 DEF Sides, EndScan
  <2> QED
    BY <2>2
<1> QED
  BY <1>1, <1>2, <1>3

LEMMA GoingOn == IInv /\ Follow => IInv'
<1> SUFFICES ASSUME IInv, Follow PROVE IInv'
  OBVIOUS
<1> USE DEF IInv
<1>1. /\ a \in DOMAIN lookup /\ h \in 0 .. label_count - 1 /\ a <= h
      /\ DOMAIN lookup = 0 .. label_count - 1 /\ label_count \in Nat \ {0}
      /\ lookup[a] \in Nat /\ lookup[a] <= a /\ lookup[a] # a /\ a' = lookup[a]
      /\ at = "resolve" /\ at' = at /\ h' = h
  <2>1. /\ at = "resolve" /\ at' = at /\ h' = h /\ h < label_count
        /\ lookup[a] # a /\ a' = lookup[a]
    BY DEF Follow
  <2>2. /\ label_count \in Nat \ {0} /\ h \in 0 .. label_count /\ a \in 0 .. label_count
        /\ DOMAIN lookup = 0 .. label_count - 1
        /\ \A l \in DOMAIN lookup : lookup[l] \in Nat /\ lookup[l] <= l
    BY DEF TypeOK
  <2>3. a <= h /\ h \in 0 .. label_count - 1 /\ a \in DOMAIN lookup
    BY <2>1, <2>2 DEF Following
  <2> QED
    BY <2>1, <2>2, <2>3
<1>2. a' \in 0 .. label_count
  BY <1>1
<1>3. TypeOK'
  BY <1>2 DEF Follow, TypeOK
<1>4. Following'
  BY <1>1 DEF Following, Kept
<1>5. Kept' /\ Resolved' /\ Given' /\ Scanned' /\ Finished'
  BY DEF Follow, Kept, Resolved, Given, Scanned, Finished, Working
<1>6. Apart'
  <2> SUFFICES ASSUME label_count <= MaxLabel
               PROVE  \E S \in SUBSET Nat : Sides(S)'
    BY DEF Apart, Follow
  <2>1. PICK S \in SUBSET Nat : Sides(S)
    BY <1>1 DEF Apart, Working
  <2>2. Sides(S)'
    BY <1>1, <2>1 DEF Sides, Follow
  <2> QED
    BY <2>2
<1> QED
  BY <1>3, <1>4, <1>5, <1>6

LEMMA Storing == IInv /\ Store => IInv'
<1> SUFFICES ASSUME IInv, Store PROVE IInv'
  OBVIOUS
<1> USE DEF IInv
<1>1. /\ a \in DOMAIN lookup /\ h \in DOMAIN lookup /\ a <= h
      /\ DOMAIN lookup = 0 .. label_count - 1 /\ label_count \in Nat \ {0}
      /\ at = "resolve" /\ at' = at /\ lookup[a] = a /\ (a = 0 <=> h = 0)
      /\ h' = h + 1 /\ a' = h + 1
  BY DEF Store, TypeOK, Following
<1>2. /\ DOMAIN lookup' = DOMAIN lookup /\ lookup'[h] = a
      /\ \A l \in DOMAIN lookup : l # h => lookup'[l] = lookup[l]
      /\ \A l \in DOMAIN lookup : lookup[l] \in Nat /\ lookup[l] <= l
  BY <1>1 DEF Store, TypeOK
<1>3. TypeOK'
  <2>1. lookup' \in [0 .. label_count - 1 -> Nat]
    BY <1>1 DEF Store, TypeOK
  <2>2. \A l \in DOMAIN lookup' : lookup'[l] <= l
    BY <1>1, <1>2
  <2>3. h' \in 0 .. label_count /\ a' \in 0 .. label_count
    BY <1>1
  <2>4. UNCHANGED <<white, objects, label, label_count, k, at, point, answer, was>>
    BY DEF Store
  <2> QED
    BY <2>1, <2>2, <2>3, <2>4 DEF TypeOK
<1>4. Kept'
  <2>1. 0 \in DOMAIN lookup
    BY <1>1
  <2> QED
    BY <2>1, <1>1, <1>2 DEF Kept
<1>5. Following'
  BY <1>1 DEF Following
<1>6. Resolved'
  <2> SUFFICES ASSUME NEW l \in 0 .. h
               PROVE  lookup'[lookup'[l]] = lookup'[l]
    BY <1>1 DEF Resolved
  <2>1. CASE l = h
    BY <2>1, <1>1, <1>2
  <2>2. CASE l # h
    <3>1. l \in 0 .. h - 1 /\ l \in DOMAIN lookup
      BY <2>2, <1>1
    <3>2. lookup[lookup[l]] = lookup[l]
      BY <3>1, <1>1 DEF Resolved
    <3>3. lookup[l] # h /\ lookup[l] \in DOMAIN lookup
      <4>1. lookup[l] \in Nat /\ lookup[l] <= l
        BY <3>1, <1>2
      <4>2. h \in Nat /\ l \in Nat /\ l < h /\ h <= label_count - 1
        BY <3>1, <1>1
      <4>3. lookup[l] # h /\ lookup[l] \in 0 .. label_count - 1
        BY <4>1, <4>2, <1>1
      <4> QED
        BY <4>3, <1>1
    <3> QED
      BY <3>1, <3>2, <3>3, <1>2, <2>2
  <2> QED
    BY <2>1, <2>2
<1>7. Given' /\ Scanned' /\ Finished'
  BY DEF Store, Given, Scanned, Finished, Working
<1>8. Apart'
  <2> SUFFICES ASSUME label_count <= MaxLabel
               PROVE  \E S \in SUBSET Nat : Sides(S)'
    BY DEF Apart, Store
  <2>1. PICK S \in SUBSET Nat : Sides(S)
    BY <1>1 DEF Apart, Working
  <2>2. a \in S <=> h \in S
    BY <2>1, <1>1 DEF Sides
  <2>3. \A l \in DOMAIN lookup : l \in S <=> lookup'[l] \in S
    BY <2>1, <2>2, <1>2 DEF Sides
  <2>4. Sides(S)'
    BY <2>1, <2>3, <1>1, <1>2 DEF Sides, Store
  <2> QED
    BY <2>4
<1> QED
  BY <1>3, <1>4, <1>5, <1>6, <1>7, <1>8

LEMMA Relabelling == IInv /\ Relabel => IInv'
<1> SUFFICES ASSUME IInv, Relabel PROVE IInv'
  OBVIOUS
<1> USE DEF IInv
<1>1. /\ DOMAIN lookup = 0 .. label_count - 1 /\ label_count \in Nat \ {0}
      /\ \A l \in DOMAIN lookup : lookup[l] \in Nat /\ lookup[l] <= l
      /\ at = "resolve" /\ h = label_count
      /\ label \in [Point -> DOMAIN lookup]
  BY LabelsAreEntries DEF Relabel, TypeOK, Working
<1>2. /\ \A p \in Point : label'[p] = IF label[p] # 0 THEN lookup[label[p]] ELSE 0
      /\ \A p \in Point : label[p] # 0 <=> label'[p] # 0
      /\ DOMAIN label' = Point
  BY <1>1 DEF Relabel, Kept
<1>3. label' \in [Point -> 0 .. label_count - 1]
  <2>1. \A p \in Point : label'[p] \in 0 .. label_count - 1
    BY <1>1, <1>2
  <2> QED
    BY <2>1 DEF Relabel
<1>4. TypeOK'
  <2>1. point' \in Nat \X Nat /\ k' \in 0 .. 1
    BY DEF Relabel, TypeOK
  <2>2. at' \in {"scan", "number"}
    BY DEF Relabel
  <2>3. UNCHANGED <<white, objects, lookup, label_count, h, a, answer, was>>
    BY DEF Relabel
  <2>4. label' \in [Point -> Nat] /\ \A p \in Point : label'[p] < label_count
    <3>1. \A p \in Point : label'[p] \in Nat /\ label'[p] < label_count
      BY <1>1, <1>3
    <3> QED
      BY <3>1, <1>3
  <2> QED
    BY <2>1, <2>2, <2>3, <2>4 DEF TypeOK
<1>5. Kept' /\ Following' /\ Finished'
  BY DEF Relabel, Kept, Following, Finished, Working, TypeOK
<1>6. Resolved'
  BY <1>1 DEF Relabel, Resolved
<1>7. Given'
  BY <1>1, <1>2 DEF Relabel, Given
<1>8. Scanned'
  <2>1. \A p \in white : label'[p] # 0
    BY <1>1, <1>2 DEF Scanned, TypeOK
  <2> QED
    BY <2>1 DEF Relabel, Scanned
<1>9. Apart'
  <2> SUFFICES ASSUME label_count <= MaxLabel
               PROVE  \E S \in SUBSET Nat : Sides(S)'
    BY DEF Apart, Relabel
  <2>1. PICK S \in SUBSET Nat : Sides(S)
    BY <1>1 DEF Apart, Working
  <2>2. ASSUME NEW p \in Point, label'[p] # 0
        PROVE  p \in objects <=> label'[p] \in S
    <3>1. label[p] # 0 /\ label[p] \in DOMAIN lookup /\ label'[p] = lookup[label[p]]
      BY <2>2, <1>1, <1>2
    <3> QED
      BY <3>1, <2>1 DEF Sides
  <2>3. at' # "resolve"
    BY DEF Relabel
  <2>4. Sides(S)'
    BY <2>1, <2>2, <2>3 DEF Sides, Relabel
  <2> QED
    BY <2>4
<1> QED
  BY <1>4, <1>5, <1>6, <1>7, <1>8, <1>9

LEMMA Numbering == IInv /\ Number => IInv'
<1> SUFFICES ASSUME IInv, Number PROVE IInv'
  OBVIOUS
<1> USE DEF IInv
<1> DEFINE All == {lookup[l] : l \in DOMAIN lookup}
<1>1. /\ DOMAIN lookup = 0 .. label_count - 1 /\ label_count \in Nat \ {0}
      /\ \A l \in DOMAIN lookup : lookup[l] \in Nat /\ lookup[l] <= l
      /\ label \in [Point -> DOMAIN lookup]
      /\ at = "number" /\ at' = "done"
  BY LabelsAreEntries DEF Number, TypeOK, Working
<1>2. \A p \in Point : label'[p] = IF label[p] # 0 THEN sub_table(lookup[label[p]]) ELSE was[p]
  BY DEF Number
<1>3. label' \in [Point -> Nat]
  <2>1. was \in [Point -> Nat]
    BY DEF TypeOK
  <2>2. \A p \in Point : label'[p] \in Nat
    <3> SUFFICES ASSUME NEW p \in Point PROVE label'[p] \in Nat
      OBVIOUS
    <3>1. CASE label[p] # 0
      <4>1. label[p] \in DOMAIN lookup /\ label'[p] = sub_table(lookup[label[p]])
        BY <3>1, <1>1, <1>2
      <4>2. sub_table(lookup[label[p]]) \in 0 .. label_count - 1
        BY <4>1, NumbersAreBounded
      <4> QED
        BY <4>1, <4>2, <1>1
    <3>2. CASE label[p] = 0
      BY <3>2, <1>2, <2>1
    <3> QED
      BY <3>1, <3>2
  <2> QED
    BY <2>2 DEF Number
<1>4. Cardinality(All) \in Nat
  <2>1. All \subseteq 0 .. label_count - 1
    <3> SUFFICES ASSUME NEW l \in DOMAIN lookup PROVE lookup[l] \in 0 .. label_count - 1
      OBVIOUS
    <3> QED
      BY <1>1
  <2>2. IsFiniteSet(0 .. label_count - 1)
    BY <1>1, FS_Interval
  <2> HIDE DEF All
  <2> QED
    BY <2>1, <2>2, FS_Subset, FS_CardinalityType
<1>5. TypeOK'
  BY <1>3, <1>4 DEF Number, TypeOK
<1>6. Kept' /\ Following' /\ Resolved' /\ Scanned' /\ Apart'
  BY <1>1 DEF Number, Kept, Following, Resolved, Scanned, Apart, Working
<1>7. \A p \in Point : label[p] # 0 => label'[p] \in 1 .. Cardinality(All) - 1
  BY <1>1, <1>2, NumbersAreCounted
<1>8. \A p \in Point : label[p] # 0 <=> p \in white
  BY <1>1 DEF Given, Scanned, TypeOK
<1>9. LabelsBeginWithOne'
  BY <1>1, <1>2, <1>7, <1>8 DEF Number, LabelsBeginWithOne
<1>10. Given'
  BY <1>1 DEF Number, Given
<1>11. ASSUME label_count <= MaxLabel, NEW p \in objects, NEW q \in white \ objects
       PROVE  label'[p] # label'[q]
  <2>1. PICK S \in SUBSET Nat : Sides(S)
    BY <1>1, <1>11 DEF Apart, Working
  <2>2. /\ p \in Point /\ label[p] # 0 /\ label[p] \in DOMAIN lookup
        /\ q \in Point /\ label[q] # 0 /\ label[q] \in DOMAIN lookup
    BY <1>1, <1>8 DEF TypeOK
  <2> DEFINE r == lookup[label[p]]
             s == lookup[label[q]]
  <2>3. r \in S /\ s \notin S
    BY <2>1, <2>2 DEF Sides
  <2>4. r \in DOMAIN lookup /\ s \in DOMAIN lookup /\ lookup[r] = r /\ lookup[s] = s
    BY <2>2, <1>1 DEF Resolved
  <2>5. label'[p] = sub_table(r) /\ label'[q] = sub_table(s)
    BY <2>2, <1>2
  <2>6. sub_table(r) \in Nat /\ sub_table(s) \in Nat
    BY <2>2, <1>1, NumbersAreBounded
  <2>7. \A l \in DOMAIN lookup : lookup[lookup[l]] = lookup[l]
    BY <1>1 DEF Resolved
  <2> HIDE DEF r, s
  <2>8. r < s \/ s < r
    BY <2>3, <2>4, <1>1
  <2>9. sub_table(r) < sub_table(s) \/ sub_table(s) < sub_table(r)
    BY <2>4, <2>7, <2>8, NumbersAreInOrder
  <2> QED
    BY <2>5, <2>6, <2>9
<1>12. ObjectsStayApart'
  BY <1>1, <1>11 DEF Number, ObjectsStayApart
<1>13. Finished'
  BY <1>9, <1>12 DEF Finished
<1> QED
  BY <1>5, <1>6, <1>10, <1>13

LEMMA Sampling == IInv /\ SamplingLargeObject => IInv'
<1> SUFFICES ASSUME IInv, SamplingLargeObject PROVE IInv'
  OBVIOUS
<1> USE DEF IInv
<1> DEFINE labels == {label[p] : p \in Point} \ {0}
<1>1. /\ at = "done" /\ at' = "sampled"
      /\ white' = {p \in Point : label[p] = answer'}
      /\ objects' = objects \cap white'
      /\ UNCHANGED <<label, was, lookup, label_count, k, point, h, a>>
  BY DEF SamplingLargeObject
<1>2. answer' \in Nat /\ (labels # {} => answer' \in labels)
  <2>1. labels # {} => answer' \in labels
    BY DEF SamplingLargeObject
  <2>2. labels = {} => answer' \in {0, Junk}
    BY DEF SamplingLargeObject
  <2>3. labels \subseteq Nat
    BY DEF TypeOK
  <2>4. Junk \in Nat
    BY LabelingAssumption
  <2> HIDE DEF labels
  <2>5. CASE labels = {}
    BY <2>2, <2>4, <2>5
  <2>6. CASE labels # {}
    BY <2>1, <2>3, <2>6
  <2> QED
    BY <2>5, <2>6
<1>3. TypeOK'
  BY <1>1, <1>2 DEF TypeOK
<1>4. Kept' /\ Following' /\ Resolved' /\ Given' /\ Scanned' /\ Apart'
  BY <1>1 DEF Kept, Following, Resolved, Given, Scanned, Apart, Working
<1>5. LabelsBeginWithOne'
  BY <1>1 DEF LabelsBeginWithOne
<1>6. LabelsBeginWithOne /\ ObjectsStayApart
  BY <1>1 DEF Finished, Working
<1>7. ASSUME IsFresh
      PROVE  \A p \in Point : label[p] # 0 <=> p \in white
  <2> SUFFICES ASSUME NEW p \in Point PROVE label[p] # 0 <=> p \in white
    OBVIOUS
  <2>1. label[p] \in IF p \in white THEN 1 .. answer - 1 ELSE {was[p]}
    BY <1>1, <1>6 DEF LabelsBeginWithOne
  <2>2. was[p] = 0 /\ answer \in Nat
    BY <1>7 DEF IsFresh, TypeOK
  <2>3. CASE p \in white
    BY <2>1, <2>2, <2>3
  <2>4. CASE p \notin white
    BY <2>1, <2>2, <2>4
  <2> QED
    BY <2>3, <2>4
<1>8. ASSUME label_count <= MaxLabel, label_count > 1, IsFresh
      PROVE  objects' \in {{}, white'}
  <2>1. PICK p \in white : TRUE
    BY <1>1, <1>8 DEF Given
  <2>2. label[p] \in labels
    BY <2>1, <1>7, <1>8 DEF TypeOK
  <2>3. answer' # 0
    BY <2>2, <1>2
  <2>4. \A x \in white' : x \in Point /\ x \in white /\ label[x] = answer' /\ label[x] # 0
    BY <2>3, <1>1, <1>7, <1>8
  <2>5. objects' = {x \in objects : x \in white'}
    BY <1>1
  <2>6. \A x \in objects, y \in white \ objects :
           label[x] # 0 /\ label[y] # 0 => label[x] # label[y]
    BY <1>1, <1>6, <1>8 DEF ObjectsStayApart
  <2> QED
    BY <2>4, <2>5, <2>6
<1>9. ObjectsStayApart'
  <2>1. IsFresh' = IsFresh
    BY <1>1 DEF IsFresh
  <2> QED
    BY <1>1, <1>8, <2>1 DEF ObjectsStayApart
<1>10. Finished'
  BY <1>5, <1>9 DEF Finished
<1> QED
  BY <1>3, <1>4, <1>10

\* The old labels are put away, and the scan begins with none.
LEMMA LabellingAgain == IInv /\ Again => IInv'
<1> SUFFICES ASSUME IInv, Again PROVE IInv'
  OBVIOUS
<1> USE DEF IInv
<1>1. /\ white' = white /\ was' = label /\ objects' \subseteq white /\ IsApart(objects', white)
      /\ label' = [p \in Point |-> 0] /\ lookup' = [l \in {0} |-> 0] /\ label_count' = 1
      /\ k' = 0 /\ at' = "scan" /\ point' = <<1, 1>> /\ h' = 0 /\ a' = 0 /\ answer' = 0
  BY DEF Again
<1>2. TypeOK'
  <2>1. white \subseteq Point /\ label \in [Point -> Nat]
    BY DEF TypeOK
  <2>2. lookup' \in [0 .. label_count' - 1 -> Nat]
    BY <1>1
  <2> QED
    BY <1>1, <2>1, <2>2 DEF TypeOK
<1>3. Kept' /\ Following' /\ Resolved' /\ Given'
  BY <1>1 DEF Kept, Following, Resolved, Given, IsApart
<1>4. Scanned'
  <2> SUFFICES ASSUME NEW p \in white PROVE ~ Before(p, <<1, 1>>)
    BY <1>1 DEF Scanned
  <2>1. p \in Point
    BY DEF TypeOK
  <2> QED
    BY <2>1 DEF Before, Point
<1>5. Sides({})'
  BY <1>1 DEF Sides
<1>6. Apart' /\ Finished'
  BY <1>1, <1>5 DEF Apart, Finished, Working
<1> QED
  BY <1>2, <1>3, <1>4, <1>6

LEMMA StayingPut == IInv /\ UNCHANGED vars => IInv'
<1> SUFFICES ASSUME IInv, UNCHANGED vars PROVE IInv'
  OBVIOUS
<1> USE DEF vars
<1>1. TypeOK' /\ Kept' /\ Following' /\ Resolved' /\ Given' /\ Scanned'
  BY DEF IInv, TypeOK, Kept, Following, Resolved, Given, Scanned
<1>2. Apart'
  BY DEF IInv, Apart, Sides
<1>3. Finished'
  BY DEF IInv, Finished, LabelsBeginWithOne, ObjectsStayApart, IsFresh
<1> QED
  BY <1>1, <1>2, <1>3 DEF IInv
-----------------------------------------------------------------------------
(* The theorems.                                                           *)

\* The labels of objects stay apart until they are numbered.
LEMMA KeptApart == IInv => ObjectsStayApart
<1> SUFFICES ASSUME IInv PROVE ObjectsStayApart
  OBVIOUS
<1> USE DEF IInv
<1>1. CASE at \notin Working
  BY <1>1 DEF Finished
<1>2. CASE at \in Working
  <2> SUFFICES ASSUME label_count <= MaxLabel, NEW p \in objects, NEW q \in white \ objects,
                      label[p] # 0, label[q] # 0
               PROVE  label[p] # label[q]
    BY <1>2 DEF ObjectsStayApart, Working
  <2>1. PICK S \in SUBSET Nat : Sides(S)
    BY <1>2 DEF Apart
  <2> QED
    BY <2>1 DEF Sides, TypeOK
<1> QED
  BY <1>1, <1>2

LEMMA Invariance == Spec => []IInv
<1>1. IInv /\ [Next]_vars => IInv'
  BY Passing, Labelling, EndingTheScan, GoingOn, Storing, Relabelling, Numbering,
     Sampling, LabellingAgain, StayingPut DEF Next
<1> QED
  BY Starting, <1>1, PTL DEF Spec

\* Type correctness; entries of the lookup table never point upwards, so
\* Lookup_update comes to an end (ImageUtil::Lookup_update).
THEOREM LabelingTypeCorrect == Spec => []TypeOK
<1>1. IInv => TypeOK
  BY DEF IInv
<1> QED
  BY Invariance, <1>1, PTL

\* Points of different objects never get the same label, in pictures of any
\* size, labelled before or not, with labels meeting in any order; in one that
\* was not, what is sampled is of one object (ImageUtil::Labeling).
THEOREM ObjectsAreApart == Spec => []ObjectsStayApart
  BY Invariance, KeptApart, PTL

\* In the end the white points have labels, from 1 on and below the number
\* that is returned; the others keep what they had (ImageUtil::Labeling).
THEOREM LabelsAreCounted == Spec => []LabelsBeginWithOne
<1>1. IInv => LabelsBeginWithOne
  BY DEF IInv, Finished, LabelsBeginWithOne, Working
<1> QED
  BY Invariance, <1>1, PTL
=============================================================================
