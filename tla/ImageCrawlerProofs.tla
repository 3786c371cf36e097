------------------------- MODULE ImageCrawlerProofs -------------------------
(***************************************************************************)
(* Proofs about the image crawler, for any pages, any images and any       *)
(* number of runs at the same time.                                        *)
(***************************************************************************)
EXTENDS ImageCrawler, FiniteSetTheorems, TLAPS

\* The number the batch counts.
LEMMA CountType ==
    ASSUME TypeOK
    PROVE  Cardinality(frontier) \in 0 .. Cardinality(Url)
<1>1. IsFiniteSet(Url) /\ frontier \subseteq Url
  BY CrawlAssumption DEF TypeOK
<1>2. /\ Cardinality(frontier) <= Cardinality(Url) /\ IsFiniteSet(frontier)
  BY <1>1, FS_Subset
<1>3. Cardinality(frontier) \in Nat /\ Cardinality(Url) \in Nat
  BY <1>1, <1>2, FS_CardinalityType
<1>4. QED
  BY <1>2, <1>3

\* SADD keeps the set and its counter in their ranges.
LEMMA EnterType ==
    ASSUME TypeOK, NEW u \in Url, Enter(u)
    PROVE  frontier' \subseteq Url /\ added' \in [Url -> Nat]
BY DEF Enter, TypeOK

\* Every step of a run keeps every variable in its range.
LEMMA CrawlType ==
    ASSUME TypeOK, NEW r \in Run, Crawl(r)
    PROVE  TypeOK'
<1> USE CrawlAssumption
<1>1. CASE Start(r)
  BY <1>1 DEF Start, TypeOK, store, batch, ghost
<1>2. CASE SPopNothing(r)
  BY <1>2 DEF SPopNothing, TypeOK, store, batch, ghost
<1>3. CASE SPop(r)
  <2>1. PICK u \in frontier :
            /\ frontier' = frontier \ {u}
            /\ url' = [url EXCEPT ![r] = u]
            /\ taken' = [taken EXCEPT ![u] = @ + 1]
            /\ lost' = IF step[r] = "dead" THEN lost \cup {u} ELSE lost
    BY <1>3 DEF SPop
  <2>2. u \in Url /\ u # NoUrl
    BY DEF TypeOK
  <2>3. taken' \in [Url -> Nat]
    BY <2>1, <2>2 DEF TypeOK
  <2>4. lost' \subseteq Url \cup Image /\ frontier' \subseteq Url
    BY <2>1, <2>2 DEF TypeOK
  <2>5. /\ url' \in [Run -> Url \cup {NoUrl}]
        /\ api' \in [Run -> {"none", "spop", "srem", "found", "failure"}]
        /\ \A q \in Run : url'[q] = NoUrl <=> api'[q] \in {"none", "spop", "failure"}
    BY <1>3, <2>1, <2>2 DEF SPop, TypeOK
  <2>6. /\ \A q \in Run : step[q] = "sends" => api'[q] = "found"
        /\ \A q \in Run : api'[q] \in {"spop", "srem"} => step[q] \in {"asks", "dead"}
    BY <1>3 DEF SPop, TypeOK
  <2>7. QED
    BY <1>3, <2>3, <2>4, <2>5, <2>6 DEF SPop, TypeOK, batch
<1>4. CASE SRem(r)
  BY <1>4 DEF SRem, TypeOK, batch
<1>5. CASE GiveUp(r)
  BY <1>5 DEF GiveUp, TypeOK, store, batch, ghost
<1>6. CASE Visit(r)
  BY <1>6 DEF Visit, TypeOK, store, batch
<1>7. CASE StoreImage(r)
  BY <1>7 DEF StoreImage, TypeOK, batch
<1>8. CASE SetLink(r)
  <2>1. PICK u \in toSet[r] :
            /\ Enter(u) \/ UNCHANGED <<frontier, added>>
            /\ toSet' = [toSet EXCEPT ![r] = @ \ {u}]
            /\ lost' \subseteq lost \cup {u}
    BY <1>8 DEF SetLink
  <2>2. u \in Url
    BY DEF TypeOK
  <2>3. frontier' \subseteq Url /\ added' \in [Url -> Nat]
    BY <2>1, <2>2, EnterType DEF TypeOK
  <2>4. QED
    BY <1>8, <2>1, <2>2, <2>3 DEF SetLink, TypeOK, batch
<1>9. CASE End(r)
  BY <1>9 DEF End, TypeOK, store, batch, ghost
<1>10. CASE Die(r)
  <2>1. Held(r) \subseteq Url \cup Image
    BY DEF Held, TypeOK
  <2>2. lost' \subseteq Url \cup Image
    BY <1>10, <2>1 DEF Die, TypeOK
  <2>3. /\ toStore' \in [Run -> SUBSET Image] /\ toSet' \in [Run -> SUBSET Url]
        /\ \A q \in Run : step'[q] # "sends" => toStore'[q] = {} /\ toSet'[q] = {}
    BY <1>10 DEF Die, TypeOK
  <2>4. /\ step' \in [Run -> {"none", "asks", "sends", "done", "dead"}]
        /\ \A q \in Run : step'[q] = "none" <=> api[q] = "none"
        /\ \A q \in Run : step'[q] = "sends" => api[q] = "found"
        /\ \A q \in Run : api[q] \in {"spop", "srem"} => step'[q] \in {"asks", "dead"}
    BY <1>10 DEF Die, Alive, TypeOK
  <2>5. QED
    BY <1>10, <2>2, <2>3, <2>4 DEF Die, TypeOK, store, batch
<1>11. QED
  BY <1>1, <1>2, <1>3, <1>4, <1>5, <1>6, <1>7, <1>8, <1>9, <1>10 DEF Crawl

LEMMA TypeStep == TypeOK /\ [Next]_vars => TypeOK'
<1> SUFFICES ASSUME TypeOK, [Next]_vars PROVE TypeOK'
  OBVIOUS
<1> USE CrawlAssumption
<1>1. ASSUME NEW u \in Url, SetNextURL(u) PROVE TypeOK'
  <2>1. frontier' \subseteq Url /\ added' \in [Url -> Nat]
    BY <1>1, EnterType DEF SetNextURL
  <2>2. QED
    BY <1>1, <2>1 DEF SetNextURL, TypeOK, run, batch
<1>2. CASE DelNextURL
  BY <1>2 DEF DelNextURL, TypeOK, run, batch
<1>3. CASE AdjustCount
  <2>1. counted' \in 0 .. Cardinality(Url)
    BY <1>3, CountType DEF AdjustCount
  <2>2. QED
    BY <1>3, <2>1 DEF AdjustCount, TypeOK, store, run, ghost
<1>4. CASE AdjustDelete
  BY <1>4 DEF AdjustDelete, TypeOK, run
<1>5. CASE UNCHANGED vars
  BY <1>5 DEF vars, TypeOK
<1>6. QED
  BY <1>1, <1>2, <1>3, <1>4, <1>5, CrawlType DEF Next

LEMMA TypeInit == Init => TypeOK
<1> SUFFICES ASSUME Init PROVE TypeOK
  OBVIOUS
<1>1. 0 \in 0 .. Cardinality(Url)
  BY CrawlAssumption, FS_CardinalityType
<1>2. QED
  BY <1>1, CrawlAssumption DEF Init, TypeOK

\* Type correctness of the crawler.
THEOREM CrawlerTypeCorrect == Spec => []TypeOK
BY TypeInit, TypeStep, PTL DEF Spec

-----------------------------------------------------------------------------
(* Each entry of the frontier is handed out once.                          *)

\* The accounts of one URL.
Balance(u) == taken[u] + (IF u \in frontier THEN 1 ELSE 0) <= added[u]

\* SADD adds an entry exactly if the URL was not in the set.
LEMMA EnterBalance ==
    ASSUME TypeOK, TakenOnce, NEW u \in Url, Enter(u), UNCHANGED taken
    PROVE  TakenOnce'
<1> SUFFICES ASSUME NEW v \in Url PROVE Balance(v)'
  BY DEF TakenOnce, Balance
<1>1. Balance(v) /\ taken[v] \in Nat /\ added[v] \in Nat
  BY DEF TakenOnce, Balance, TypeOK
<1>2. QED
  BY <1>1 DEF Enter, Balance, TypeOK

\* What only removes from the set, and hands out nothing, keeps the accounts.
LEMMA RemoveBalance ==
    ASSUME TypeOK, TakenOnce, frontier' \subseteq frontier, UNCHANGED <<taken, added>>
    PROVE  TakenOnce'
<1> SUFFICES ASSUME NEW v \in Url PROVE Balance(v)'
  BY DEF TakenOnce, Balance
<1>1. Balance(v) /\ taken[v] \in Nat /\ added[v] \in Nat
  BY DEF TakenOnce, Balance, TypeOK
<1>2. QED
  BY <1>1 DEF Balance

LEMMA TakenOnceStep == TypeOK /\ TakenOnce /\ [Next]_vars => TakenOnce'
<1> SUFFICES ASSUME TypeOK, TakenOnce, [Next]_vars PROVE TakenOnce'
  OBVIOUS
<1>1. ASSUME NEW r \in Run, SPop(r) PROVE TakenOnce'
  <2>1. PICK u \in frontier :
            /\ frontier' = frontier \ {u}
            /\ taken' = [taken EXCEPT ![u] = @ + 1]
    BY <1>1 DEF SPop
  <2> SUFFICES ASSUME NEW v \in Url PROVE Balance(v)'
    BY DEF TakenOnce, Balance
  <2>2. Balance(v) /\ taken[v] \in Nat /\ added[v] \in Nat /\ UNCHANGED added
    BY <1>1 DEF TakenOnce, Balance, TypeOK, SPop
  <2>3. QED
    BY <2>1, <2>2 DEF Balance, TypeOK
<1>2. ASSUME NEW r \in Run, SetLink(r) PROVE TakenOnce'
  <2>1. PICK u \in toSet[r] : Enter(u) \/ UNCHANGED <<frontier, added>>
    BY <1>2 DEF SetLink
  <2>2. u \in Url
    BY DEF TypeOK
  <2>3. CASE Enter(u)
    BY <1>2, <2>2, <2>3, EnterBalance DEF SetLink
  <2>4. CASE UNCHANGED <<frontier, added>>
    BY <1>2, <2>4, RemoveBalance DEF SetLink
  <2>5. QED
    BY <2>1, <2>3, <2>4
<1>3. ASSUME NEW u \in Url, SetNextURL(u) PROVE TakenOnce'
  BY <1>3, EnterBalance DEF SetNextURL
<1>4. ASSUME NEW r \in Run, Crawl(r), ~SPop(r), ~SetLink(r) PROVE TakenOnce'
  <2>1. frontier' \subseteq frontier /\ UNCHANGED <<taken, added>>
    BY <1>4 DEF Crawl, Start, SPopNothing, SRem, GiveUp, Visit, StoreImage, End, Die,
       store, ghost
  <2>2. QED
    BY <2>1, RemoveBalance
<1>5. CASE DelNextURL \/ AdjustCount \/ AdjustDelete \/ UNCHANGED vars
  <2>1. frontier' \subseteq frontier /\ UNCHANGED <<taken, added>>
    BY <1>5 DEF DelNextURL, AdjustCount, AdjustDelete, vars, store, ghost
  <2>2. QED
    BY <2>1, RemoveBalance
<1>6. QED
  BY <1>1, <1>2, <1>3, <1>4, <1>5 DEF Next

\* However many crawlers run, imageGetNextURL never hands out one entry of the
\* frontier twice.
THEOREM EntriesAreTakenOnce == Spec => []TakenOnce
<1>1. Init => TakenOnce
  BY DEF Init, TakenOnce
<1>2. QED
  BY <1>1, TakenOnceStep, CrawlerTypeCorrect, PTL DEF Spec

-----------------------------------------------------------------------------
(* Nothing is forgotten.                                                   *)

\* Where something that is owed may be.
Kept(x) == x \in frontier \cup images \cup lost \/ \E r \in Run : x \in Held(r)

LEMMA KeptIsEnough == NothingForgotten <=> \A x \in owed : Kept(x)
BY DEF NothingForgotten, Kept

\* A run's step leaves what the others hold.
LEMMA OthersHold ==
    ASSUME TypeOK, NEW r \in Run, Crawl(r), NEW q \in Run, q # r
    PROVE  Held(q)' = Held(q)
<1>1. /\ step'[q] = step[q] /\ url'[q] = url[q]
      /\ toStore'[q] = toStore[q] /\ toSet'[q] = toSet[q]
  BY DEF Crawl, Start, SPopNothing, SPop, SRem, GiveUp, Visit, StoreImage, SetLink, End,
     Die, TypeOK
<1>2. QED
  BY <1>1 DEF Held

\* A run's step keeps what is in the set, the table, or its own hands.
LEMMA CrawlKeeps ==
    ASSUME TypeOK, NEW r \in Run, Crawl(r), NEW x \in owed',
           x \in owed => x \in frontier \cup images \cup lost \cup Held(r)
    PROVE  x \in (frontier \cup images \cup lost)' \cup Held(r)'
<1> USE CrawlAssumption
<1>1. CASE Start(r)
  <2>1. url[r] = NoUrl
    BY <1>1 DEF Start, TypeOK
  <2>2. Held(r)' = Held(r)
    BY <1>1, <2>1 DEF Start, Held, TypeOK
  <2>3. QED
    BY <1>1, <2>2 DEF Start, store, ghost
<1>2. CASE SPopNothing(r)
  BY <1>2 DEF SPopNothing, Held, store, ghost
<1>3. CASE SPop(r)
  <2>1. PICK u \in frontier :
            /\ frontier' = frontier \ {u}
            /\ url' = [url EXCEPT ![r] = u]
            /\ lost' = IF step[r] = "dead" THEN lost \cup {u} ELSE lost
    BY <1>3 DEF SPop
  <2>2. u # NoUrl /\ url'[r] = u /\ url[r] = NoUrl /\ step[r] \in {"asks", "dead"}
    BY <1>3, <2>1 DEF SPop, TypeOK
  <2>3. Held(r) = toStore[r] \cup toSet[r]
    BY <2>2 DEF Held
  <2>4. Held(r)' = (IF step[r] = "asks" THEN {u} ELSE {}) \cup toStore[r] \cup toSet[r]
    BY <1>3, <2>2 DEF SPop, Held
  <2>5. UNCHANGED <<images, owed>>
    BY <1>3 DEF SPop
  <2>6. QED
    BY <2>1, <2>2, <2>3, <2>4, <2>5
<1>4. CASE SRem(r)
  <2>1. step[r] \in {"asks", "dead"} /\ url[r] # NoUrl
    BY <1>4 DEF SRem, TypeOK
  <2>2. Held(r)' = Held(r) /\ (step[r] = "asks" => url[r] \in Held(r))
    BY <1>4, <2>1 DEF SRem, Held
  <2>3. QED
    BY <1>4, <2>1, <2>2 DEF SRem
<1>5. CASE GiveUp(r)
  <2>1. url[r] = NoUrl
    BY <1>5 DEF GiveUp, TypeOK
  <2>2. Held(r)' = Held(r)
    BY <1>5, <2>1 DEF GiveUp, Held, TypeOK
  <2>3. QED
    BY <1>5, <2>2 DEF GiveUp, store, ghost
<1>6. CASE Visit(r)
  <2>1. PICK pictures \in SUBSET Image, links \in SUBSET Url :
            /\ toStore' = [toStore EXCEPT ![r] = pictures]
            /\ toSet' = [toSet EXCEPT ![r] = links]
            /\ owed' = (owed \ {url[r]}) \cup pictures \cup links
    BY <1>6 DEF Visit
  <2>2. pictures \subseteq Held(r)' /\ links \subseteq Held(r)'
    BY <2>1 DEF Held, TypeOK
  <2>3. toStore[r] = {} /\ toSet[r] = {}
    BY <1>6 DEF Visit, TypeOK
  <2>4. QED
    BY <1>6, <2>1, <2>2, <2>3 DEF Visit, Held, store
<1>7. CASE StoreImage(r)
  <2>1. PICK i \in toStore[r] :
            /\ images \cup lost \cup {i} \subseteq (images \cup lost)'
            /\ toStore' = [toStore EXCEPT ![r] = @ \ {i}]
    BY <1>7 DEF StoreImage
  <2>2. Held(r) \subseteq Held(r)' \cup {i}
    BY <1>7, <2>1 DEF StoreImage, Held, TypeOK
  <2>3. QED
    BY <1>7, <2>1, <2>2 DEF StoreImage
<1>8. CASE SetLink(r)
  <2>1. PICK u \in toSet[r] :
            /\ frontier \cup lost \cup {u} \subseteq (frontier \cup lost)'
            /\ toSet' = [toSet EXCEPT ![r] = @ \ {u}]
    BY <1>8 DEF SetLink, Enter
  <2>2. Held(r) \subseteq Held(r)' \cup {u}
    BY <1>8, <2>1 DEF SetLink, Held, TypeOK
  <2>3. QED
    BY <1>8, <2>1, <2>2 DEF SetLink
<1>9. CASE End(r)
  <2>1. Held(r)' = Held(r)
    BY <1>9 DEF End, Held, TypeOK
  <2>2. QED
    BY <1>9, <2>1 DEF End, store, ghost
<1>10. CASE Die(r)
  BY <1>10 DEF Die, store
<1>11. QED
  BY <1>1, <1>2, <1>3, <1>4, <1>5, <1>6, <1>7, <1>8, <1>9, <1>10 DEF Crawl

\* What the operator or the batch does leaves the runs alone and forgets nothing.
LEMMA OthersKeep ==
    ASSUME NothingForgotten,
           DelNextURL \/ AdjustCount \/ AdjustDelete \/ UNCHANGED vars
                \/ \E u \in Url : SetNextURL(u)
    PROVE  NothingForgotten'
<1>1. /\ UNCHANGED <<run, images>>
      /\ \A x \in owed' : x \in owed \/ x \in frontier'
      /\ frontier \cup lost \subseteq (frontier \cup lost)'
  <2>1. CASE DelNextURL
    BY <2>1 DEF DelNextURL
  <2>2. CASE AdjustCount
    BY <2>2 DEF AdjustCount, store, ghost
  <2>3. CASE AdjustDelete
    BY <2>3 DEF AdjustDelete
  <2>4. CASE UNCHANGED vars
    BY <2>4 DEF vars, run
  <2>5. CASE \E u \in Url : SetNextURL(u)
    BY <2>5 DEF SetNextURL, Enter
  <2>6. QED
    BY <2>1, <2>2, <2>3, <2>4, <2>5
<1>2. \A r \in Run : Held(r)' = Held(r)
  BY <1>1 DEF Held, run
<1>3. QED
  BY <1>1, <1>2 DEF NothingForgotten

LEMMA NothingForgottenStep ==
    TypeOK /\ NothingForgotten /\ [Next]_vars => NothingForgotten'
<1> SUFFICES ASSUME TypeOK, NothingForgotten, [Next]_vars PROVE NothingForgotten'
  OBVIOUS
<1>1. ASSUME NEW r \in Run, Crawl(r) PROVE NothingForgotten'
  <2> SUFFICES ASSUME NEW x \in owed' PROVE Kept(x)'
    BY DEF NothingForgotten, Kept
  <2>1. CASE \E q \in Run \ {r} : x \in Held(q)
    BY <1>1, <2>1, OthersHold DEF Kept
  <2>2. CASE ~ \E q \in Run \ {r} : x \in Held(q)
    <3>1. x \in owed => x \in frontier \cup images \cup lost \cup Held(r)
      BY <2>2, KeptIsEnough DEF Kept
    <3>2. x \in (frontier \cup images \cup lost)' \cup Held(r)'
      BY <1>1, <3>1, CrawlKeeps
    <3>3. QED
      BY <3>2 DEF Kept
  <2>3. QED
    BY <2>1, <2>2
<1>2. QED
  BY <1>1, OthersKeep DEF Next

\* However many crawlers run, and wherever they die, a URL or an image somebody
\* was told of is still to be visited, stored, in the hands of a run, or was
\* taken by a death, a deletion or a call that failed.
THEOREM NothingIsForgotten == Spec => []NothingForgotten
<1>1. Init => NothingForgotten
  BY DEF Init, NothingForgotten
<1>2. QED
  BY <1>1, NothingForgottenStep, CrawlerTypeCorrect, PTL DEF Spec
=============================================================================
