---------------------------- MODULE ImageCrawler ----------------------------
(***************************************************************************)
(* The image crawler: the C++ program (Project/CrawlerClass/main.cpp) that *)
(* cron starts every minute, the PHP APIs it calls, and the Redis set of   *)
(* URLs to visit.  Each run takes one URL, reads the page, and reports its *)
(* images and its links.                                                   *)
(*                                                                         *)
(* A run waits for the answer of each API call, but a call goes on when    *)
(* the run that made it dies.  imageGetNextURL is two Redis commands, so   *)
(* it has a state of its own, api[r]; the other calls are one command each *)
(* and are part of the step that makes them.                               *)
(*                                                                         *)
(* A page may show any images and any links, each time it is read, or not  *)
(* be found, which shows none.  Left out: how relative URLs are resolved.  *)
(***************************************************************************)
EXTENDS Naturals, FiniteSets

CONSTANTS Url,       \* pages
          Image,     \* image URLs
          MaxRun,    \* bound: runs that cron starts
          MaxSeed,   \* bound: URLs set, and deletions of all, by hand
          MaxAdjust  \* bound: runs of adjustLinkCount.php

Run == 1 .. MaxRun
NoUrl == "no url"

ASSUME CrawlAssumption ==
    /\ IsFiniteSet(Url) /\ NoUrl \notin Url
    /\ Url \cap Image = {}
    /\ MaxRun \in Nat /\ MaxSeed \in Nat /\ MaxAdjust \in Nat

VARIABLES
    frontier,  \* the Redis set image_crawler
    images,    \* the rows of image_url
    step,      \* how far each run is
    api,       \* how far its call of imageGetNextURL is
    url,       \* the URL that call has popped
    toStore,   \* image_list, what is still to be sent of it
    toSet,     \* link_list, what is still to be sent of it
    adjusts,   \* how many batches have begun
    counted,   \* $count of the batch at work
    deleted,   \* $i, its loop counter
    seeds,     \* how many calls were made by hand
    owed,      \* URLs set or linked to and not visited since, images seen
    lost,      \* what a death, a deletion or a failed call took, not set since
    added,     \* how many times each URL entered the frontier
    taken      \* how many times a call popped it

store == <<frontier, images>>
run == <<step, api, url, toStore, toSet>>
batch == <<adjusts, counted, deleted>>
ghost == <<owed, lost, added, taken>>
vars == <<frontier, images, step, api, url, toStore, toSet, adjusts, counted,
          deleted, seeds, owed, lost, added, taken>>

TypeOK ==
    /\ frontier \subseteq Url
    /\ images \subseteq Image
    /\ step \in [Run -> {"none", "asks", "sends", "done", "dead"}]
    /\ api \in [Run -> {"none", "spop", "srem", "found", "failure"}]
    /\ url \in [Run -> Url \cup {NoUrl}]
    /\ toStore \in [Run -> SUBSET Image]
    /\ toSet \in [Run -> SUBSET Url]
    /\ \A r \in Run : step[r] = "sends" => api[r] = "found"
    /\ \A r \in Run : api[r] \in {"spop", "srem"} => step[r] \in {"asks", "dead"}
    /\ \A r \in Run : step[r] = "none" <=> api[r] = "none"
    /\ \A r \in Run : step[r] # "sends" => toStore[r] = {} /\ toSet[r] = {}
    /\ \A r \in Run : url[r] = NoUrl <=> api[r] \in {"none", "spop", "failure"}
    /\ adjusts \in 0 .. MaxAdjust
    /\ counted \in 0 .. Cardinality(Url)
    /\ deleted \in Nat
    /\ seeds \in 0 .. MaxSeed
    /\ owed \subseteq Url \cup Image
    /\ lost \subseteq Url \cup Image
    /\ added \in [Url -> Nat]
    /\ taken \in [Url -> Nat]
-----------------------------------------------------------------------------
(* Helpers.                                                                *)

\* SADD
Enter(u) ==
    /\ frontier' = frontier \cup {u}
    /\ added' = IF u \in frontier THEN added ELSE [added EXCEPT ![u] = @ + 1]

\* what r alone knows of
Held(r) ==
    (IF step[r] = "asks" /\ url[r] # NoUrl THEN {url[r]} ELSE {})
        \cup toStore[r] \cup toSet[r]

Alive(r) == step[r] \in {"asks", "sends"}

\* the number of passes of the loop over $i < $count * 5 / 100
DelCount == (counted * 5 + 99) \div 100
-----------------------------------------------------------------------------
(* Slips that the properties below must notice; no action uses these.      *)

\* a random member that is left in the set for srem to take
SRandMember(r) ==
    /\ api[r] = "spop"
    /\ \E u \in frontier :
          /\ url' = [url EXCEPT ![r] = u]
          /\ taken' = [taken EXCEPT ![u] = @ + 1]
          /\ api' = [api EXCEPT ![r] = "srem"]
          /\ lost' = IF step[r] = "dead" THEN lost \cup {u} ELSE lost
    /\ UNCHANGED <<store, step, toStore, toSet, batch, seeds, owed, added>>

\* del, as in imageDelNextURL, for srem
DelForSRem(r) ==
    /\ api[r] = "srem"
    /\ frontier' = {}
    /\ api' = [api EXCEPT ![r] = "found"]
    /\ UNCHANGED <<images, step, url, toStore, toSet, batch, seeds, ghost>>

\* an answer whose status is not looked at
VisitNothing(r) ==
    /\ step[r] = "asks"
    /\ api[r] = "failure"
    /\ step' = [step EXCEPT ![r] = "sends"]
    /\ UNCHANGED <<store, api, url, toStore, toSet, batch, seeds, ghost>>
-----------------------------------------------------------------------------
(* A run and its call of imageGetNextURL.                                  *)

\* cron starts a run, whether or not the last one has ended.
Start(r) ==
    /\ step[r] = "none"
    /\ \A q \in 1 .. r - 1 : step[q] # "none"
    /\ step' = [step EXCEPT ![r] = "asks"]
    /\ api' = [api EXCEPT ![r] = "spop"]
    /\ UNCHANGED <<store, url, toStore, toSet, batch, seeds, ghost>>

\* spop finds the set empty: the answer is "failure".
SPopNothing(r) ==
    /\ api[r] = "spop"
    /\ frontier = {}
    /\ api' = [api EXCEPT ![r] = "failure"]
    /\ UNCHANGED <<store, step, url, toStore, toSet, batch, seeds, ghost>>

\* spop takes some URL; if the run is dead nobody will hear of it.
SPop(r) ==
    /\ api[r] = "spop"
    /\ \E u \in frontier :
          /\ frontier' = frontier \ {u}
          /\ url' = [url EXCEPT ![r] = u]
          /\ taken' = [taken EXCEPT ![u] = @ + 1]
          /\ lost' = IF step[r] = "dead" THEN lost \cup {u} ELSE lost
    /\ api' = [api EXCEPT ![r] = "srem"]
    /\ UNCHANGED <<images, step, toStore, toSet, batch, seeds, owed, added>>

\* srem of the same URL, which may have been set again by now.
SRem(r) ==
    /\ api[r] = "srem"
    /\ frontier' = frontier \ {url[r]}
    /\ lost' = IF step[r] = "dead" THEN lost \cup (frontier \cap {url[r]}) ELSE lost
    /\ api' = [api EXCEPT ![r] = "found"]
    /\ UNCHANGED <<images, step, url, toStore, toSet, batch, seeds, owed, added, taken>>

\* The run had no URL.
GiveUp(r) ==
    /\ step[r] = "asks"
    /\ api[r] = "failure"
    /\ step' = [step EXCEPT ![r] = "done"]
    /\ UNCHANGED <<store, api, url, toStore, toSet, batch, seeds, ghost>>

\* The page is read.
Visit(r) ==
    /\ step[r] = "asks"
    /\ api[r] = "found"
    /\ step' = [step EXCEPT ![r] = "sends"]
    /\ \E pictures \in SUBSET Image, links \in SUBSET Url :
          /\ toStore' = [toStore EXCEPT ![r] = pictures]
          /\ toSet' = [toSet EXCEPT ![r] = links]
          /\ owed' = (owed \ {url[r]}) \cup pictures \cup links
    /\ UNCHANGED <<store, api, url, batch, seeds, lost, added, taken>>

\* addImageURL: a row, unless url is UNIQUE and there already.  Neither the
\* answer of the call nor that of the INSERT is looked at.
StoreImage(r) ==
    /\ step[r] = "sends"
    /\ \E i \in toStore[r] :
          /\ \/ images' = images \cup {i} /\ lost' = lost \ {i}
             \/ UNCHANGED images /\ lost' = lost \cup ({i} \ images)
          /\ toStore' = [toStore EXCEPT ![r] = @ \ {i}]
    /\ UNCHANGED <<frontier, step, api, url, toSet, batch, seeds, owed, added, taken>>

\* imageSetNextURL, when all images are sent; the answer is not looked at.
SetLink(r) ==
    /\ step[r] = "sends"
    /\ toStore[r] = {}
    /\ \E u \in toSet[r] :
          /\ \/ Enter(u) /\ lost' = lost \ {u}
             \/ UNCHANGED <<frontier, added>> /\ lost' = lost \cup ({u} \ frontier)
          /\ toSet' = [toSet EXCEPT ![r] = @ \ {u}]
    /\ UNCHANGED <<images, step, api, url, toStore, batch, seeds, owed, taken>>

End(r) ==
    /\ step[r] = "sends"
    /\ toStore[r] \cup toSet[r] = {}
    /\ step' = [step EXCEPT ![r] = "done"]
    /\ UNCHANGED <<store, api, url, toStore, toSet, batch, seeds, ghost>>

\* The program crashes (main.cpp indexes lists that may be empty) or is killed.
Die(r) ==
    /\ Alive(r)
    /\ step' = [step EXCEPT ![r] = "dead"]
    /\ lost' = lost \cup Held(r)
    /\ toStore' = [toStore EXCEPT ![r] = {}]
    /\ toSet' = [toSet EXCEPT ![r] = {}]
    /\ UNCHANGED <<store, api, url, batch, seeds, owed, added, taken>>
-----------------------------------------------------------------------------
(* By hand, and the batch that trims the frontier.                         *)

\* imageSetNextURL
SetNextURL(u) ==
    /\ seeds < MaxSeed
    /\ seeds' = seeds + 1
    /\ Enter(u)
    /\ owed' = owed \cup {u}
    /\ lost' = lost \ {u}
    /\ UNCHANGED <<images, run, batch, taken>>

\* imageDelNextURL
DelNextURL ==
    /\ seeds < MaxSeed
    /\ seeds' = seeds + 1
    /\ frontier' = {}
    /\ lost' = lost \cup frontier
    /\ UNCHANGED <<images, run, batch, owed, added, taken>>

\* adjustLinkCount.php: count, then delete one at a time.
AdjustCount ==
    /\ adjusts < MaxAdjust
    /\ deleted >= DelCount
    /\ adjusts' = adjusts + 1
    /\ counted' = Cardinality(frontier)
    /\ deleted' = 0
    /\ UNCHANGED <<store, run, seeds, ghost>>

AdjustDelete ==
    /\ deleted < DelCount
    /\ deleted' = deleted + 1
    /\ \/ \E u \in frontier :
             /\ frontier' = frontier \ {u}
             /\ lost' = lost \cup {u}
       \/ frontier = {} /\ UNCHANGED <<frontier, lost>>
    /\ UNCHANGED <<images, run, adjusts, counted, seeds, owed, added, taken>>
-----------------------------------------------------------------------------
Init ==
    /\ frontier = {}
    /\ images = {}
    /\ step = [r \in Run |-> "none"]
    /\ api = [r \in Run |-> "none"]
    /\ url = [r \in Run |-> NoUrl]
    /\ toStore = [r \in Run |-> {}]
    /\ toSet = [r \in Run |-> {}]
    /\ adjusts = 0
    /\ counted = 0
    /\ deleted = 0
    /\ seeds = 0
    /\ owed = {}
    /\ lost = {}
    /\ added = [u \in Url |-> 0]
    /\ taken = [u \in Url |-> 0]

Crawl(r) ==
    \/ Start(r)
    \/ SPopNothing(r)
    \/ SPop(r)
    \/ SRem(r)
    \/ GiveUp(r)
    \/ Visit(r)
    \/ StoreImage(r)
    \/ SetLink(r)
    \/ End(r)
    \/ Die(r)

Next ==
    \/ \E r \in Run : Crawl(r)
    \/ \E u \in Url : SetNextURL(u)
    \/ DelNextURL
    \/ AdjustCount
    \/ AdjustDelete

Spec == Init /\ [][Next]_vars
-----------------------------------------------------------------------------
(* Correctness.                                                            *)

\* A URL that was set, or linked to by a page that was read, is still to be
\* visited or in the hands of a run, and an image that was seen is stored or
\* in the hands of a run, unless a death, a deletion or a call that failed
\* took it.  So the srem after the spop, which may remove a URL that was set
\* in between, loses nothing: the run that holds the URL visits it later.
NothingForgotten ==
    owed \subseteq frontier \cup images \cup lost
                       \cup UNION {Held(r) : r \in Run}

\* However many runs overlap, a URL is handed out no more often than it was
\* entered: no two of them visit it for the same entry.
TakenOnce ==
    \A u \in Url : taken[u] + (IF u \in frontier THEN 1 ELSE 0) <= added[u]
=============================================================================
