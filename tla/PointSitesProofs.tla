-------------------------- MODULE PointSitesProofs --------------------------
(***************************************************************************)
(* Proofs about the point sites, for any names, pages and readers, and any *)
(* number of calls, of which any may be lost.                              *)
(***************************************************************************)
EXTENDS PointSites, TLAPS

\* A name that is cached is cached with its site.
CachedAreFull == \A n \in Name : cachedSite[n].is = "object" => cachedSite[n].sites # {}

\* What a reader that asks for a name has got, and what is still there for it.
ReaderKnows(r) ==
    /\ reader[r].there => reader[r].key \in Name \ {"list"} /\ Named(reader[r].key) # {}
    /\ reader[r].at = "set" => /\ reader[r].got.is = "object"
                               /\ reader[r].key # "list" => reader[r].got.sites # {}
    /\ reader[r].at = "answered" /\ reader[r].there =>
          reader[r].got.sites # {} \/ reader[r].failed

\* The calls of a page's edit.
Deletion(p) == [page |-> p, name |-> edit.site.name, version |-> 0]
Addition(p) == [page |-> p, name |-> edit.site.name, version |-> edit.site.version]

\* How far an edit is: which of its calls have been executed, and what this
\* has made of the table.
EditGoesOn ==
    edit # NoEdit => \E p \in Page :
        LET named == Named(edit.site.name) IN
        /\ table \ named = edit.others
        /\ \/ calls = {Deletion(p), Addition(p)} /\ ~ edit.overtaken
           \/ calls = {Addition(p)} /\ ~ edit.overtaken /\ named = {}
           \/ calls = {Deletion(p)} /\ edit.overtaken
           \/ calls = {} /\ named = IF edit.overtaken THEN {} ELSE {edit.site}

IInv == TypeOK /\ CachedAreFull /\ (\A r \in Reader : ReaderKnows(r)) /\ EditGoesOn
-----------------------------------------------------------------------------
LEMMA Starting == Init => IInv
<1> SUFFICES ASSUME Init PROVE IInv
  OBVIOUS
<1>1. TypeOK
  <2>1. NotCached \in Entry /\ Resting \in Reading
    BY DEF Resting, Reading, Entry, NotCached, Key
  <2>2. versions \in 0 .. MaxVersion /\ deletes \in 0 .. MaxDelete
    BY PointSitesAssumption DEF Init
  <2>3. /\ cachedList \in Entry /\ cachedSite \in [Name -> Entry]
        /\ reader \in [Reader -> Reading]
    BY <2>1 DEF Init
  <2> QED
    BY <2>2, <2>3 DEF Init, TypeOK
<1>2. CachedAreFull /\ EditGoesOn
  BY DEF Init, CachedAreFull, EditGoesOn, NotCached
<1>3. \A r \in Reader : ReaderKnows(r)
  BY DEF Init, ReaderKnows, Resting
<1> QED
  BY <1>1, <1>2, <1>3 DEF IInv

\* What a step of one reader must show: the others go on as before, since the
\* table and the page are left alone.
LEMMA OneReader ==
    ASSUME IInv, NEW r \in Reader, NEW x \in Reading,
           reader' = [reader EXCEPT ![r] = x],
           UNCHANGED <<table, calls, edit, versions, deletes>>, listed' \in BOOLEAN,
           cachedList' \in Entry, cachedSite' \in [Name -> Entry],
           CachedAreFull', ReaderKnows(r)'
    PROVE  IInv'
<1> USE DEF IInv
<1>1. TypeOK'
  <2>1. reader' \in [Reader -> Reading]
    BY DEF TypeOK
  <2> QED
    BY <2>1 DEF TypeOK
<1>2. EditGoesOn'
  BY DEF EditGoesOn, Deletion, Addition, Named
<1>3. ASSUME NEW u \in Reader PROVE ReaderKnows(u)'
  <2>1. CASE u = r
    BY <2>1
  <2>2. CASE u # r
    <3>1. reader'[u] = reader[u]
      BY <2>2 DEF TypeOK
    <3> QED
      BY <3>1 DEF ReaderKnows, Named
  <2> QED
    BY <2>1, <2>2
<1> QED
  BY <1>1, <1>2, <1>3

\* A change of one entry.
LEMMA OneEntry ==
    ASSUME TypeOK, CachedAreFull, NEW key \in Key, NEW e \in Entry, SetEntry(key, e),
           key # "list" => e = NotCached \/ e.sites # {}
    PROVE  cachedList' \in Entry /\ cachedSite' \in [Name -> Entry] /\ CachedAreFull'
<1>1. CASE key = "list"
  BY <1>1 DEF SetEntry, TypeOK, CachedAreFull
<1>2. CASE key # "list"
  <2>1. key \in Name /\ cachedSite' = [cachedSite EXCEPT ![key] = e] /\ cachedList' = cachedList
    BY <1>2 DEF Key, SetEntry
  <2>2. cachedSite' \in [Name -> Entry] /\ cachedList' \in Entry
    BY <2>1 DEF TypeOK
  <2>3. CachedAreFull'
    <3> SUFFICES ASSUME NEW n \in Name, cachedSite'[n].is = "object"
                 PROVE  cachedSite'[n].sites # {}
      BY DEF CachedAreFull
    <3>1. CASE n = key
      BY <3>1, <2>1, <1>2 DEF TypeOK, NotCached
    <3>2. CASE n # key
      BY <3>2, <2>1 DEF TypeOK, CachedAreFull
    <3> QED
      BY <3>1, <3>2
  <2> QED
    BY <2>2, <2>3
<1> QED
  BY <1>1, <1>2

\* The types that the steps of a reader are made of.
LEMMA ReaderTypes ==
    ASSUME TypeOK, NEW r \in Reader
    PROVE  /\ reader[r] \in Reading /\ reader[r].key \in Key
           /\ EntryOf(reader[r].key) \in Entry
           /\ Cached({}) \in Entry /\ NotCached \in Entry
           /\ Cached(Result(reader[r].key)) \in Entry
           /\ Resting \in Reading
<1>1. reader[r] \in Reading /\ reader[r].key \in Key
  BY DEF TypeOK, Reading
<1>2. EntryOf(reader[r].key) \in Entry
  BY <1>1 DEF TypeOK, Key, EntryOf
<1>3. Result(reader[r].key) \in SUBSET Site
  BY DEF TypeOK, Result, Named
<1>4. /\ Cached({}) \in Entry /\ NotCached \in Entry
      /\ Cached(Result(reader[r].key)) \in Entry
  BY <1>3 DEF Cached, NotCached, Entry
<1>5. Resting \in Reading
  BY <1>4 DEF Resting, Reading, Key
<1> QED
  BY <1>1, <1>2, <1>4, <1>5
-----------------------------------------------------------------------------
(* The steps of a reader.                                                  *)

LEMMA BeginningToRead ==
    ASSUME IInv, NEW r \in Reader, NEW key \in Key, StartReading(r, key)
    PROVE  IInv'
<1> DEFINE x == [at |-> "get", key |-> key, got |-> NotCached,
                 there |-> key # "list" /\ Named(key) # {}, failed |-> FALSE]
<1>1. x \in Reading
  BY DEF Reading, NotCached, Entry
<1>2. /\ reader' = [reader EXCEPT ![r] = x]
      /\ UNCHANGED <<table, calls, edit, versions, deletes, listed, cachedList, cachedSite>>
  BY DEF StartReading, cache, page
<1>3. ReaderKnows(r)'
  <2>1. reader'[r] = x /\ table' = table
    BY <1>2 DEF IInv, TypeOK
  <2>2. x.at = "get" /\ x.key = key /\ (x.there <=> key # "list" /\ Named(key) # {})
    OBVIOUS
  <2> HIDE DEF x
  <2> QED
    BY <2>1, <2>2 DEF ReaderKnows, Named, Key
<1>4. /\ cachedList' \in Entry /\ cachedSite' \in [Name -> Entry] /\ CachedAreFull'
      /\ listed' \in BOOLEAN
  BY <1>2 DEF IInv, TypeOK, CachedAreFull
<1> HIDE DEF x
<1> QED
  BY <1>1, <1>2, <1>3, <1>4, OneReader

LEMMA GettingFromCache ==
    ASSUME IInv, NEW r \in Reader, CacheGet(r)
    PROVE  IInv'
<1> DEFINE e == EntryOf(reader[r].key)
           x == IF e.is = "object" THEN [reader[r] EXCEPT !.at = "answered", !.got = e]
                ELSE [reader[r] EXCEPT !.at = "select"]
<1>0. TypeOK /\ ReaderKnows(r) /\ reader[r].at = "get"
  BY DEF IInv, CacheGet
<1>1. x \in Reading
  BY <1>0, ReaderTypes DEF Reading
<1>2. /\ reader' = [reader EXCEPT ![r] = x]
      /\ UNCHANGED <<table, calls, edit, versions, deletes, listed, cachedList, cachedSite>>
  BY DEF CacheGet, cache, page
<1>3. ReaderKnows(r)'
  <2>1. reader'[r] = x /\ table' = table
    BY <1>0, <1>2 DEF TypeOK
  <2>2. reader[r] \in Reading
    BY <1>0, ReaderTypes
  <2>3. x.there = reader[r].there /\ x.key = reader[r].key /\ x.at # "set"
    BY <2>2 DEF Reading
  <2>4. ASSUME x.at = "answered", x.there
        PROVE  x.got.sites # {}
    <3>1. e.is = "object" /\ x.got = e
      BY <2>2, <2>4 DEF Reading
    <3>2. reader[r].key \in Name /\ e = cachedSite[reader[r].key]
      BY <1>0, <2>3, <2>4 DEF ReaderKnows, EntryOf
    <3> QED
      BY <3>1, <3>2 DEF IInv, CachedAreFull
  <2> HIDE DEF x
  <2> QED
    BY <1>0, <2>1, <2>3, <2>4 DEF ReaderKnows, Named
<1>4. /\ cachedList' \in Entry /\ cachedSite' \in [Name -> Entry] /\ CachedAreFull'
      /\ listed' \in BOOLEAN
  BY <1>2 DEF IInv, TypeOK, CachedAreFull
<1> HIDE DEF x
<1> QED
  BY <1>1, <1>2, <1>3, <1>4, OneReader

LEMMA Selecting ==
    ASSUME IInv, NEW r \in Reader, Select(r)
    PROVE  IInv'
<1> DEFINE key == reader[r].key
           x == IF key = "list" \/ Named(key) # {}
                THEN [reader[r] EXCEPT !.at = "set", !.got = Cached(Result(key))]
                ELSE [reader[r] EXCEPT !.at = "answered", !.got = Cached({})]
<1>0. TypeOK /\ ReaderKnows(r) /\ reader[r] \in Reading
  BY ReaderTypes DEF IInv
<1>1. x \in Reading
  BY <1>0, ReaderTypes DEF Reading
<1>2. /\ reader' = [reader EXCEPT ![r] = x]
      /\ UNCHANGED <<table, calls, edit, versions, deletes, listed, cachedList, cachedSite>>
  BY DEF Select, cache, page
<1>3. ReaderKnows(r)'
  <2>1. reader'[r] = x /\ table' = table
    BY <1>0, <1>2 DEF TypeOK
  <2>2. x.there = reader[r].there /\ x.key = key
    BY <1>0 DEF Reading
  <2>3. CASE key = "list" \/ Named(key) # {}
    <3>1. x.at = "set" /\ x.got = Cached(Result(key))
      BY <1>0, <2>3 DEF Reading
    <3>2. x.got.is = "object" /\ (key # "list" => x.got.sites # {})
      BY <2>3, <3>1 DEF Cached, Result
    <3> HIDE DEF x, key
    <3> QED
      BY <1>0, <2>1, <2>2, <3>1, <3>2 DEF ReaderKnows, Named, key
  <2>4. CASE ~ (key = "list" \/ Named(key) # {})
    <3>1. x.at = "answered"
      BY <1>0, <2>4 DEF Reading
    <3>2. ~ reader[r].there
      BY <1>0, <2>4 DEF ReaderKnows
    <3> HIDE DEF x, key
    <3> QED
      BY <2>1, <2>2, <3>1, <3>2 DEF ReaderKnows
  <2> QED
    BY <2>3, <2>4
<1>4. /\ cachedList' \in Entry /\ cachedSite' \in [Name -> Entry] /\ CachedAreFull'
      /\ listed' \in BOOLEAN
  BY <1>2 DEF IInv, TypeOK, CachedAreFull
<1> HIDE DEF x
<1> QED
  BY <1>1, <1>2, <1>3, <1>4, OneReader

LEMMA Rests ==
    ASSUME TypeOK, NEW r \in Reader, reader' = [reader EXCEPT ![r] = Resting]
    PROVE  ReaderKnows(r)'
<1>1. reader'[r] = Resting
  BY DEF TypeOK
<1> QED
  BY <1>1 DEF ReaderKnows, Resting

LEMMA FailingToSelect ==
    ASSUME IInv, NEW r \in Reader, SelectFails(r)
    PROVE  IInv'
<1> DEFINE key == reader[r].key
           x == [reader[r] EXCEPT !.at = IF key = "list" THEN "set" ELSE "answered",
                                  !.got = Cached({}),
                                  !.failed = (key # "list")]
<1>0. TypeOK /\ ReaderKnows(r) /\ reader[r] \in Reading /\ Cached({}) \in Entry
  BY ReaderTypes DEF IInv
<1>1. x \in Reading
  BY <1>0 DEF Reading
<1>2. /\ reader' = [reader EXCEPT ![r] = x]
      /\ UNCHANGED <<table, calls, edit, versions, deletes, listed, cachedList, cachedSite>>
  BY DEF SelectFails, cache, page
<1>3. ReaderKnows(r)'
  <2>1. reader'[r] = x /\ table' = table
    BY <1>0, <1>2 DEF TypeOK
  <2>2. x.there = reader[r].there /\ x.key = key /\ (x.failed <=> key # "list")
    BY <1>0 DEF Reading
  <2>3. CASE key = "list"
    <3>1. x.at = "set" /\ x.got.is = "object"
      BY <1>0, <2>3 DEF Reading, Cached
    <3> HIDE DEF x, key
    <3> QED
      BY <1>0, <2>1, <2>2, <2>3, <3>1 DEF ReaderKnows, Named, key
  <2>4. CASE key # "list"
    <3>1. x.at = "answered"
      BY <1>0, <2>4 DEF Reading
    <3> HIDE DEF x, key
    <3> QED
      BY <1>0, <2>1, <2>2, <2>4, <3>1 DEF ReaderKnows, Named, key
  <2> QED
    BY <2>3, <2>4
<1>4. cachedList' \in Entry /\ cachedSite' \in [Name -> Entry] /\ CachedAreFull'
  BY <1>2 DEF IInv, TypeOK, CachedAreFull
<1>5. listed' \in BOOLEAN
  BY <1>0, <1>2 DEF TypeOK
<1> HIDE DEF x
<1> QED
  BY <1>1, <1>2, <1>3, <1>4, <1>5, OneReader

LEMMA SettingTheCache ==
    ASSUME IInv, NEW r \in Reader, CacheSet(r)
    PROVE  IInv'
<1> DEFINE x == [reader[r] EXCEPT !.at = "answered"]
<1>0. TypeOK /\ CachedAreFull /\ ReaderKnows(r) /\ reader[r] \in Reading /\ reader[r].key \in Key
  BY ReaderTypes DEF IInv
<1>1. x \in Reading /\ reader[r].got \in Entry
  BY <1>0 DEF Reading
<1>2. /\ reader' = [reader EXCEPT ![r] = x]
      /\ UNCHANGED <<table, calls, listed, edit, versions, deletes>>
      /\ SetEntry(reader[r].key, reader[r].got) /\ reader[r].at = "set"
  BY DEF CacheSet, page
<1>3. ReaderKnows(r)'
  <2>1. reader'[r] = x /\ table' = table
    BY <1>0, <1>2 DEF TypeOK
  <2>2. x.there = reader[r].there /\ x.key = reader[r].key /\ x.at = "answered"
        /\ x.got = reader[r].got
    BY <1>0 DEF Reading
  <2> HIDE DEF x
  <2> QED
    BY <1>0, <1>2, <2>1, <2>2 DEF ReaderKnows, Named
<1>4. cachedList' \in Entry /\ cachedSite' \in [Name -> Entry] /\ CachedAreFull'
  <2>1. reader[r].key # "list" => reader[r].got.sites # {}
    BY <1>0, <1>2 DEF ReaderKnows
  <2> QED
    BY <2>1, <1>0, <1>1, <1>2, OneEntry
<1>5. listed' \in BOOLEAN
  BY <1>0, <1>2 DEF TypeOK
<1> HIDE DEF x
<1> QED
  BY <1>1, <1>2, <1>3, <1>4, <1>5, OneReader

LEMMA Answering ==
    ASSUME IInv, NEW r \in Reader, Answered(r) \/ Die(r)
    PROVE  IInv'
<1>1. /\ reader' = [reader EXCEPT ![r] = Resting]
      /\ UNCHANGED <<table, calls, edit, versions, deletes, cachedList, cachedSite>>
  BY DEF Answered, Die, cache, page
<1>2. Resting \in Reading /\ TypeOK
  BY ReaderTypes DEF IInv
<1>3. cachedList' \in Entry /\ cachedSite' \in [Name -> Entry] /\ CachedAreFull'
  BY <1>1 DEF IInv, TypeOK, CachedAreFull
<1>4. listed' \in BOOLEAN
  BY <1>2 DEF Answered, Die, page, TypeOK
<1> QED
  BY <1>1, <1>2, <1>3, <1>4, Rests, OneReader

LEMMA Expiring ==
    ASSUME IInv, NEW key \in Key, Expire(key)
    PROVE  IInv'
<1> USE DEF IInv
<1>1. UNCHANGED <<table, reader, page>> /\ SetEntry(key, NotCached)
  BY DEF Expire
<1>2. NotCached \in Entry
  BY DEF NotCached, Entry
<1>3. cachedList' \in Entry /\ cachedSite' \in [Name -> Entry] /\ CachedAreFull'
  BY <1>1, <1>2, OneEntry
<1>4. TypeOK' /\ EditGoesOn' /\ \A r \in Reader : ReaderKnows(r)'
  BY <1>1, <1>3 DEF TypeOK, EditGoesOn, Deletion, Addition, Named, ReaderKnows, page
<1> QED
  BY <1>3, <1>4
-----------------------------------------------------------------------------
(* The page, and what the server does with its calls.                      *)

\* What only sends calls, or loses them, leaves the rest alone.
LEMMA OnlyCalls ==
    ASSUME IInv, UNCHANGED <<table, cache, reader, listed>>,
           calls' \subseteq Call, edit' \in {NoEdit} \cup Edit,
           versions' \in 0 .. MaxVersion, deletes' \in 0 .. MaxDelete,
           EditGoesOn'
    PROVE  IInv'
<1> USE DEF IInv, cache
<1>1. TypeOK' /\ CachedAreFull'
  BY DEF TypeOK, CachedAreFull
<1>2. \A r \in Reader : ReaderKnows(r)'
  BY DEF ReaderKnows, Named
<1> QED
  BY <1>1, <1>2

LEMMA Sending ==
    ASSUME IInv, NEW p \in Page, NEW n \in Name, SendNew(p, n) \/ SendDelete(p, n)
    PROVE  IInv'
<1>1. MaxVersion \in Nat /\ MaxDelete \in Nat
  BY PointSitesAssumption
<1>2. edit' = NoEdit /\ EditGoesOn' /\ UNCHANGED <<table, cache, reader, listed>>
  BY DEF SendNew, SendDelete, EditGoesOn
<1>3. versions' \in 0 .. MaxVersion /\ deletes' \in 0 .. MaxDelete
  BY <1>1 DEF SendNew, SendDelete, IInv, TypeOK
<1>4. calls' \subseteq Call
  <2>1. CASE SendNew(p, n)
    <3>1. versions + 1 \in Version
      BY <1>1, <2>1 DEF SendNew, IInv, TypeOK, Version
    <3> QED
      BY <2>1, <3>1 DEF SendNew, IInv, TypeOK, Call
  <2>2. CASE SendDelete(p, n)
    BY <2>2 DEF SendDelete, IInv, TypeOK, Call
  <2> QED
    BY <2>1, <2>2
<1> QED
  BY <1>2, <1>3, <1>4, OnlyCalls

LEMMA Editing ==
    ASSUME IInv, NEW p \in Page, NEW n \in Name, SendEdit(p, n)
    PROVE  IInv'
<1> DEFINE v == versions + 1
           both == {[page |-> p, name |-> n, version |-> w] : w \in {0, v}}
<1>1. MaxVersion \in Nat /\ v \in Version
  BY PointSitesAssumption DEF SendEdit, IInv, TypeOK, Version
<1>2. /\ UNCHANGED <<table, cache, reader, listed, deletes>>
      /\ calls' = calls \cup both /\ versions' = v
  BY DEF SendEdit
<1>3. versions' \in 0 .. MaxVersion /\ deletes' \in 0 .. MaxDelete
  BY <1>1, <1>2 DEF IInv, TypeOK, Version
<1>4. calls' \subseteq Call
  BY <1>1, <1>2 DEF IInv, TypeOK, Call
<1>5. CASE calls = {}
  <2>1. edit' = [is |-> "edit", site |-> [name |-> n, version |-> v],
                 others |-> table \ Named(n), overtaken |-> FALSE]
    BY <1>5 DEF SendEdit, EditOf
  <2>2. edit' \in Edit
    BY <1>1, <2>1 DEF Edit, Site, IInv, TypeOK
  <2>3. /\ edit'.overtaken = FALSE /\ edit'.others = table \ Named(n)
        /\ edit'.site.name = n /\ edit'.site.version = v
    BY <2>1
  <2>6. (table \ Named(edit.site.name))' = edit'.others
    BY <1>2, <2>3 DEF Named
  <2>4. calls' = {Deletion(p)', Addition(p)'}
    BY <1>2, <1>5, <2>3 DEF Deletion, Addition
  <2>5. EditGoesOn'
    BY <2>3, <2>4, <2>6 DEF EditGoesOn
  <2> QED
    BY <1>2, <1>3, <1>4, <2>2, <2>5, OnlyCalls
<1>6. CASE calls # {}
  <2>1. edit' = NoEdit
    BY <1>6 DEF SendEdit, EditOf
  <2>2. EditGoesOn'
    BY <2>1 DEF EditGoesOn
  <2> QED
    BY <1>2, <1>3, <1>4, <2>1, <2>2, OnlyCalls
<1> QED
  BY <1>5, <1>6

LEMMA Losing ==
    ASSUME IInv, NEW c \in calls, Lose(c)
    PROVE  IInv'
<1>1. edit' = NoEdit /\ EditGoesOn' /\ UNCHANGED <<table, cache, reader, listed, versions, deletes>>
  BY DEF Lose, EditGoesOn
<1>2. calls' \subseteq Call /\ versions' \in 0 .. MaxVersion /\ deletes' \in 0 .. MaxDelete
  BY <1>1 DEF Lose, IInv, TypeOK
<1> QED
  BY <1>1, <1>2, OnlyCalls

\* The two calls of an edit are not the same.
LEMMA TwoCalls ==
    ASSUME TypeOK, edit # NoEdit, NEW p \in Page
    PROVE  /\ edit \in Edit /\ edit.site \in Site
           /\ edit.site = [name |-> edit.site.name, version |-> edit.site.version]
           /\ Addition(p).version # 0 /\ Deletion(p).version = 0
           /\ Addition(p).name = edit.site.name /\ Deletion(p).name = edit.site.name
           /\ Addition(p) # Deletion(p)
<1>1. edit \in Edit /\ edit.site \in Site
  BY DEF TypeOK, Edit
<1>2. edit.site.version \in Version /\ 0 \notin Version
  BY <1>1 DEF Site, Version
<1>3. edit.site = [name |-> edit.site.name, version |-> edit.site.version]
  BY <1>1 DEF Site
<1>4. /\ Addition(p).version = edit.site.version /\ Deletion(p).version = 0
      /\ Addition(p).name = edit.site.name /\ Deletion(p).name = edit.site.name
  BY DEF Addition, Deletion
<1> QED
  BY <1>1, <1>2, <1>3, <1>4

LEMMA Adding ==
    ASSUME IInv, NEW c \in calls, Set(c)
    PROVE  IInv'
<1> DEFINE s == [name |-> c.name, version |-> c.version]
<1>0. /\ TypeOK /\ CachedAreFull /\ EditGoesOn
      /\ c \in Call /\ c.version # 0
      /\ table' = IF Named(c.name) = {} THEN table \cup {s} ELSE table
      /\ calls' = calls \ {c}
      /\ edit' = IF edit = NoEdit \/ calls = {c} THEN edit ELSE [edit EXCEPT !.overtaken = TRUE]
      /\ UNCHANGED <<cachedList, cachedSite, reader, listed, versions, deletes>>
  BY DEF IInv, TypeOK, Set, Insertable, cache
<1>1. s \in Site /\ s.name = c.name
  BY <1>0 DEF Call, Site
<1>2. edit' \in {NoEdit} \cup Edit
  BY <1>0 DEF TypeOK, Edit
<1>3. TypeOK'
  <2>1. table' \subseteq Site /\ calls' \subseteq Call
    BY <1>0, <1>1 DEF TypeOK
  <2>2. \A t, u \in table' : t.name = u.name => t = u
    BY <1>0, <1>1 DEF TypeOK, Named
  <2> QED
    BY <1>0, <1>2, <2>1, <2>2 DEF TypeOK
<1>4. CachedAreFull'
  BY <1>0 DEF CachedAreFull
<1>5. \A r \in Reader : ReaderKnows(r)'
  <2>1. table \subseteq table'
    BY <1>0
  <2> QED
    BY <2>1, <1>0 DEF IInv, ReaderKnows, Named
<1>6. EditGoesOn'
  <2> SUFFICES ASSUME edit' # NoEdit PROVE EditGoesOn'
    BY DEF EditGoesOn
  <2>1. edit # NoEdit
    BY <1>0
  <2>2. PICK p \in Page :
          /\ table \ Named(edit.site.name) = edit.others
          /\ \/ calls = {Deletion(p), Addition(p)} /\ ~ edit.overtaken
             \/ calls = {Addition(p)} /\ ~ edit.overtaken /\ Named(edit.site.name) = {}
             \/ calls = {Deletion(p)} /\ edit.overtaken
             \/ calls = {} /\ Named(edit.site.name) = IF edit.overtaken THEN {} ELSE {edit.site}
    BY <1>0, <2>1 DEF EditGoesOn
  <2>3. /\ edit \in Edit /\ edit.site \in Site
        /\ edit.site = [name |-> edit.site.name, version |-> edit.site.version]
        /\ Addition(p).version # 0 /\ Deletion(p).version = 0
        /\ Addition(p).name = edit.site.name /\ Addition(p) # Deletion(p)
    BY <1>0, <2>1, TwoCalls
  <2>4. c = Addition(p)
    BY <1>0, <2>2, <2>3
  <2>5. edit'.site = edit.site /\ edit'.others = edit.others
    BY <1>0, <2>3 DEF Edit
  <2>9. (table \ Named(edit.site.name))' = edit'.others
    <3>1. s.name = edit.site.name
      BY <2>3, <2>4
    <3>2. table' \ {t \in table' : t.name = edit.site.name}
            = table \ {t \in table : t.name = edit.site.name}
      BY <1>0, <3>1
    <3> QED
      BY <2>2, <2>5, <3>2 DEF Named
  <2>6. Deletion(p)' = Deletion(p)
    BY <2>5 DEF Deletion
  <2>7. CASE calls = {Deletion(p), Addition(p)}
    <3>1. edit'.overtaken /\ calls' = {Deletion(p)}
      BY <1>0, <2>1, <2>3, <2>4, <2>7 DEF Edit
    <3> QED
      BY <3>1, <2>6, <2>9 DEF EditGoesOn
  <2>8. CASE calls = {Addition(p)} /\ ~ edit.overtaken /\ Named(edit.site.name) = {}
    <3>1. calls' = {} /\ edit' = edit
      BY <1>0, <2>4, <2>8
    <3>2. s = edit.site
      BY <2>3, <2>4 DEF Addition
    <3>3. table' = table \cup {edit.site}
      BY <1>0, <2>3, <2>4, <2>8, <3>2
    <3>4. Named(edit.site.name)' = {edit.site}
      BY <3>1, <3>3, <2>8 DEF Named
    <3> QED
      BY <3>1, <3>4, <2>8, <2>9 DEF EditGoesOn
  <2> QED
    BY <2>2, <2>3, <2>4, <2>7, <2>8
<1> QED
  BY <1>3, <1>4, <1>5, <1>6 DEF IInv

LEMMA Deleting ==
    ASSUME IInv, NEW c \in calls, Delete(c)
    PROVE  IInv'
<1>0. /\ TypeOK /\ CachedAreFull /\ EditGoesOn
      /\ c \in Call /\ c.version = 0
      /\ table' = table \ Named(c.name)
      /\ calls' = calls \ {c}
      /\ reader' = [r \in Reader |-> IF reader[r].key = c.name
                                     THEN [reader[r] EXCEPT !.there = FALSE] ELSE reader[r]]
      /\ UNCHANGED <<cachedList, cachedSite, listed, edit, versions, deletes>>
  BY DEF IInv, TypeOK, Delete, cache
<1>1. TypeOK'
  <2>1. \A r \in Reader : reader'[r] \in Reading
    BY <1>0 DEF TypeOK, Reading
  <2>2. reader' \in [Reader -> Reading]
    BY <2>1, <1>0
  <2> QED
    BY <1>0, <2>2 DEF TypeOK
<1>2. CachedAreFull'
  BY <1>0 DEF CachedAreFull
<1>3. ASSUME NEW r \in Reader PROVE ReaderKnows(r)'
  <2>1. ReaderKnows(r) /\ reader[r] \in Reading
    BY <1>0 DEF IInv, TypeOK
  <2>2. /\ reader'[r].at = reader[r].at /\ reader'[r].key = reader[r].key
        /\ reader'[r].got = reader[r].got
    BY <1>0, <2>1 DEF Reading
  <2>3. CASE reader[r].key = c.name
    <3>1. reader'[r].there = FALSE
      BY <1>0, <2>1, <2>3 DEF Reading
    <3> QED
      BY <3>1, <2>1, <2>2 DEF ReaderKnows
  <2>4. CASE reader[r].key # c.name
    <3>1. reader'[r] = reader[r]
      BY <1>0, <2>4
    <3>2. Named(reader[r].key)' = Named(reader[r].key)
      BY <1>0, <2>4, <3>1 DEF Named
    <3> QED
      BY <3>1, <3>2, <2>1 DEF ReaderKnows
  <2> QED
    BY <2>3, <2>4
<1>4. EditGoesOn'
  <2> SUFFICES ASSUME edit' # NoEdit PROVE EditGoesOn'
    BY DEF EditGoesOn
  <2>1. edit # NoEdit
    BY <1>0
  <2>2. PICK p \in Page :
          /\ table \ Named(edit.site.name) = edit.others
          /\ \/ calls = {Deletion(p), Addition(p)} /\ ~ edit.overtaken
             \/ calls = {Addition(p)} /\ ~ edit.overtaken /\ Named(edit.site.name) = {}
             \/ calls = {Deletion(p)} /\ edit.overtaken
             \/ calls = {} /\ Named(edit.site.name) = IF edit.overtaken THEN {} ELSE {edit.site}
    BY <1>0, <2>1 DEF EditGoesOn
  <2>3. /\ Addition(p).version # 0 /\ Deletion(p).version = 0
        /\ Deletion(p).name = edit.site.name /\ Addition(p) # Deletion(p)
    BY <1>0, <2>1, TwoCalls
  <2>4. c = Deletion(p)
    BY <1>0, <2>2, <2>3
  <2>5. Named(edit.site.name)' = {}
    BY <1>0, <2>3, <2>4 DEF Named
  <2>6. Addition(p)' = Addition(p) /\ edit' = edit
    BY <1>0 DEF Addition
  <2>9. (table \ Named(edit.site.name))' = edit'.others
    <3>1. table' \ {t \in table' : t.name = edit.site.name}
            = table \ {t \in table : t.name = edit.site.name}
      BY <1>0, <2>3, <2>4 DEF Named
    <3> QED
      BY <2>2, <2>6, <3>1 DEF Named
  <2>7. CASE calls = {Deletion(p), Addition(p)} /\ ~ edit.overtaken
    <3>1. calls' = {Addition(p)}
      BY <1>0, <2>3, <2>4, <2>7
    <3> QED
      BY <3>1, <2>5, <2>6, <2>7, <2>9 DEF EditGoesOn
  <2>8. CASE calls = {Deletion(p)} /\ edit.overtaken
    <3>1. calls' = {}
      BY <1>0, <2>4, <2>8
    <3> QED
      BY <3>1, <2>5, <2>6, <2>8, <2>9 DEF EditGoesOn
  <2> QED
    BY <2>2, <2>3, <2>4, <2>7, <2>8
<1> QED
  BY <1>1, <1>2, <1>3, <1>4 DEF IInv

LEMMA StayingPut == IInv /\ UNCHANGED vars => IInv'
<1> SUFFICES ASSUME IInv, UNCHANGED vars PROVE IInv'
  OBVIOUS
<1> USE DEF IInv, vars, cache, page
<1>1. TypeOK' /\ CachedAreFull'
  BY DEF TypeOK, CachedAreFull
<1>2. EditGoesOn' /\ \A r \in Reader : ReaderKnows(r)'
  BY DEF EditGoesOn, Deletion, Addition, Named, ReaderKnows
<1> QED
  BY <1>1, <1>2
-----------------------------------------------------------------------------
(* The theorems.                                                           *)

LEMMA Invariance == Spec => []IInv
<1>1. IInv /\ [Next]_vars => IInv'
  <2> SUFFICES ASSUME IInv, [Next]_vars PROVE IInv'
    OBVIOUS
  <2>1. ASSUME NEW r \in Reader, Read(r) PROVE IInv'
    BY <2>1, GettingFromCache, Selecting, FailingToSelect, SettingTheCache, Answering DEF Read
  <2>7. ASSUME NEW r \in Reader, Die(r) PROVE IInv'
    BY <2>7, Answering
  <2>2. ASSUME NEW r \in Reader, NEW key \in Key, StartReading(r, key) PROVE IInv'
    BY <2>2, BeginningToRead
  <2>3. ASSUME NEW key \in Key, Expire(key) PROVE IInv'
    BY <2>3, Expiring
  <2>4. ASSUME NEW p \in Page, NEW n \in Name,
               SendNew(p, n) \/ SendDelete(p, n) \/ SendEdit(p, n) PROVE IInv'
    BY <2>4, Sending, Editing
  <2>5. ASSUME NEW c \in calls, Set(c) \/ Delete(c) \/ Lose(c) PROVE IInv'
    BY <2>5, Adding, Deleting, Losing
  <2>6. CASE UNCHANGED vars
    BY <2>6, StayingPut
  <2> QED
    BY <2>1, <2>2, <2>3, <2>4, <2>5, <2>6, <2>7 DEF Next
<1> QED
  BY Starting, <1>1, PTL DEF Spec

\* Type correctness; a name is never in the table twice (point_site_table).
THEOREM PointSitesTypeCorrect == Spec => []TypeOK
<1>1. IInv => TypeOK
  BY DEF IInv
<1> QED
  BY Invariance, <1>1, PTL

\* A site that is there all the time is found, however old the cache is, unless
\* the SELECT of the call itself fails (getPointSite).
THEOREM SitesAreFound == Spec => []FoundIfThere
<1>1. IInv => FoundIfThere
  BY DEF IInv, FoundIfThere, ReaderKnows
<1> QED
  BY Invariance, <1>1, PTL

\* An edit leaves the new site under the name that was sent, or none, and every
\* other site as it was (updateEditArea).
THEOREM EditsTakeEffect == Spec => []EditTakesEffect
<1>1. IInv => EditTakesEffect
  <2> SUFFICES ASSUME IInv, edit # NoEdit, calls = {}
               PROVE  table = edit.others \cup IF edit.overtaken THEN {} ELSE {edit.site}
    BY DEF EditTakesEffect
  <2>1. /\ table \ Named(edit.site.name) = edit.others
        /\ Named(edit.site.name) = IF edit.overtaken THEN {} ELSE {edit.site}
    BY DEF IInv, EditGoesOn
  <2> QED
    BY <2>1 DEF Named
<1> QED
  BY Invariance, <1>1, PTL
=============================================================================
