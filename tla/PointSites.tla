----------------------------- MODULE PointSites -----------------------------
(***************************************************************************)
(* The point sites of mkw: a table that the page of a manager changes by   *)
(* calls of addPointSite and deletePointSite, and that everybody reads     *)
(* through CacheModel::call, which keeps results in memcached for a while. *)
(* Calls are sent without waiting for the answers to earlier ones, so the  *)
(* server may execute them in any order.  The page shows each answer, and  *)
(* then reads the list again, in which a click opens the area for an edit. *)
(*                                                                         *)
(* A site is its name and a version that stands for its other columns.     *)
(***************************************************************************)
EXTENDS Naturals, FiniteSets

CONSTANTS Name,        \* names of sites
          Page,        \* pages of managers
          Reader,      \* processes that answer getPointSite and its list
          MaxVersion,  \* bound: sites sent to addPointSite
          MaxDelete,   \* bound: clicks that only delete
          MayLose      \* may calls be lost?

ASSUME PointSitesAssumption ==
    {MaxVersion, MaxDelete} \subseteq Nat /\ MayLose \in BOOLEAN

VARIABLES
    table,       \* point_site_table
    cachedList,  \* memcached: the result of getList
    cachedSite,  \* memcached: the result of get, by name
    reader,      \* where each reader is in CacheModel::call
    calls,       \* calls on their way to the server
    listed,      \* has a list with a site been answered?
    edit,        \* an edit to which nothing was added since (for the properties)
    versions,    \* sites sent so far
    deletes      \* clicks that only deleted so far

cache == <<cachedList, cachedSite>>
page == <<calls, listed, edit, versions, deletes>>
vars == <<table, cache, reader, page>>

Version == 1 .. MaxVersion

Site == [name : Name, version : Version]

NotCached == [is |-> "nothing", sites |-> {}]
Cached(sites) == [is |-> "object", sites |-> sites]
Entry == [is : {"nothing", "object"}, sites : SUBSET Site]

\* Which call of Method a reader makes.
Key == {"list"} \cup Name

\* of a call for a name: was the site in the table since the call began (there),
\* and did its SELECT fail (failed)?
Reading == [at : {"idle", "get", "select", "set", "answered"}, key : Key,
            got : Entry, there : BOOLEAN, failed : BOOLEAN]

\* A call is one of a click; version 0 for a deletion.
Call == [page : Page, name : Name, version : Version \cup {0}]

\* others: the sites of other names when the edit was sent; overtaken: the
\* addition was executed before the deletion.
NoEdit == [is |-> "none"]
Edit == [is : {"edit"}, site : Site, others : SUBSET Site, overtaken : BOOLEAN]

Resting == [at |-> "idle", key |-> "list", got |-> NotCached, there |-> FALSE,
            failed |-> FALSE]

TypeOK ==
    /\ table \subseteq Site
    /\ \A s, t \in table : s.name = t.name => s = t
    /\ cachedList \in Entry
    /\ cachedSite \in [Name -> Entry]
    /\ reader \in [Reader -> Reading]
    /\ calls \subseteq Call
    /\ listed \in BOOLEAN
    /\ edit \in {NoEdit} \cup Edit
    /\ versions \in 0 .. MaxVersion /\ deletes \in 0 .. MaxDelete
-----------------------------------------------------------------------------
(* Slips that the properties below must notice; no action uses these, nor  *)
(* SendEditOnce and SelectAnything below.                                  *)

NeverExpires == FALSE

\* names are compared with their versions
InsertableVersion(s) == s \notin table
-----------------------------------------------------------------------------
(* Helpers.                                                                *)

Named(n) == {s \in table : s.name = n}

\* The edit that the properties follow, if one of n is sent now.
EditOf(n, v) ==
    IF calls = {}
    THEN [is |-> "edit", site |-> [name |-> n, version |-> v],
          others |-> table \ Named(n), overtaken |-> FALSE]
    ELSE NoEdit

\* What the Method of a key answers.
Result(key) == IF key = "list" THEN table ELSE Named(key)

\* UNIQUE(name)
Insertable(s) == Named(s.name) = {}

EntryOf(key) == IF key = "list" THEN cachedList ELSE cachedSite[key]

SetEntry(key, e) ==
    IF key = "list" THEN cachedList' = e /\ UNCHANGED cachedSite
    ELSE cachedSite' = [cachedSite EXCEPT ![key] = e] /\ UNCHANGED cachedList

\* Does memcached forget after cache_call_short?  0 would be for ever.
Expires == TRUE
-----------------------------------------------------------------------------
(* Two more slips.                                                         *)

\* the second listener replaces the first
SendEditOnce(p, n) ==
    LET v == versions + 1 IN
    /\ listed
    /\ versions < MaxVersion
    /\ versions' = v
    /\ calls' = calls \cup {[page |-> p, name |-> n, version |-> v]}
    /\ edit' = EditOf(n, v)
    /\ UNCHANGED <<table, cache, reader, listed, deletes>>

\* a new PointSite without its columns is not refused
SelectAnything(r) ==
    /\ reader[r].at = "select"
    /\ reader' = [reader EXCEPT ![r].at = "set", ![r].got = Cached(Result(reader[r].key))]
    /\ UNCHANGED <<table, cache, page>>
-----------------------------------------------------------------------------
(* getPointSite and getPointSiteList.                                      *)

StartReading(r, key) ==
    /\ reader[r].at = "idle"
    /\ reader' = [reader EXCEPT ![r] = [at |-> "get", key |-> key, got |-> NotCached,
                                        there |-> key # "list" /\ Named(key) # {},
                                        failed |-> FALSE]]
    /\ UNCHANGED <<table, cache, page>>

\* The cache is asked; only what counts as true was cached.
CacheGet(r) ==
    LET e == EntryOf(reader[r].key) IN
    /\ reader[r].at = "get"
    /\ reader' = IF e.is = "object"
                 THEN [reader EXCEPT ![r].at = "answered", ![r].got = e]
                 ELSE [reader EXCEPT ![r].at = "select"]
    /\ UNCHANGED <<table, cache, page>>

\* The Method is called.  There is no PointSite without its columns: for a
\* name that is not found an exception ends the call, and nothing is cached.
Select(r) ==
    LET key == reader[r].key
        found == key = "list" \/ Named(key) # {}
    IN
    /\ reader[r].at = "select"
    /\ reader' = IF found
                 THEN [reader EXCEPT ![r].at = "set", ![r].got = Cached(Result(key))]
                 ELSE [reader EXCEPT ![r].at = "answered", ![r].got = Cached({})]
    /\ UNCHANGED <<table, cache, page>>

\* The SELECT fails.  PDO is silent about it: fetch finds nothing, so a name
\* is not found, and a list is empty, which is cached like any other.
SelectFails(r) ==
    /\ reader[r].at = "select"
    /\ reader' = [reader EXCEPT ![r].at = IF reader[r].key = "list" THEN "set" ELSE "answered",
                                 ![r].got = Cached({}),
                                 ![r].failed = (reader[r].key # "list")]
    /\ UNCHANGED <<table, cache, page>>

CacheSet(r) ==
    /\ reader[r].at = "set"
    /\ SetEntry(reader[r].key, reader[r].got)
    /\ reader' = [reader EXCEPT ![r].at = "answered"]
    /\ UNCHANGED <<table, page>>

\* A list that is answered may be a page's.
Answered(r) ==
    /\ reader[r].at = "answered"
    /\ reader' = [reader EXCEPT ![r] = Resting]
    /\ listed' = (listed \/ (reader[r].key = "list" /\ reader[r].got.sites # {}))
    /\ UNCHANGED <<table, cache, calls, edit, versions, deletes>>

\* The process ends early, without an answer.
Die(r) ==
    /\ reader[r].at # "idle"
    /\ reader' = [reader EXCEPT ![r] = Resting]
    /\ UNCHANGED <<table, cache, page>>

\* memcached forgets an entry.
Expire(key) ==
    /\ Expires
    /\ EntryOf(key).is = "object"
    /\ SetEntry(key, NotCached)
    /\ UNCHANGED <<table, reader, page>>
-----------------------------------------------------------------------------
(* The manager's page: what the send button calls.                         *)

\* In the area for a new site.
SendNew(p, n) ==
    LET v == versions + 1 IN
    /\ versions < MaxVersion
    /\ versions' = v
    /\ calls' = calls \cup {[page |-> p, name |-> n, version |-> v]}
    /\ edit' = NoEdit
    /\ UNCHANGED <<table, cache, reader, listed, deletes>>

\* In the area for a deletion.
SendDelete(p, n) ==
    /\ deletes < MaxDelete
    /\ deletes' = deletes + 1
    /\ calls' = calls \cup {[page |-> p, name |-> n, version |-> 0]}
    /\ edit' = NoEdit
    /\ UNCHANGED <<table, cache, reader, listed, versions>>

\* In the area for changes, which a click in a list opens: two listeners, a
\* deletion and an addition.  Both read the name from the form, where another
\* one may have been typed than that of the site in the list.
SendEdit(p, n) ==
    LET v == versions + 1 IN
    /\ listed
    /\ versions < MaxVersion
    /\ versions' = v
    /\ calls' = calls \cup {[page |-> p, name |-> n, version |-> w] : w \in {0, v}}
    /\ edit' = EditOf(n, v)
    /\ UNCHANGED <<table, cache, reader, listed, deletes>>

\* A call does not arrive, or its statement fails.
Lose(c) ==
    /\ MayLose
    /\ calls' = calls \ {c}
    /\ edit' = NoEdit
    /\ UNCHANGED <<table, cache, reader, listed, versions, deletes>>
-----------------------------------------------------------------------------
(* PointSiteModel.                                                         *)

\* set: the INSERT is refused if there is a site of this name.
Set(c) ==
    LET s == [name |-> c.name, version |-> c.version] IN
    /\ c.version # 0
    /\ table' = IF Insertable(s) THEN table \cup {s} ELSE table
    /\ calls' = calls \ {c}
    /\ edit' = IF edit = NoEdit \/ calls = {c} THEN edit
               ELSE [edit EXCEPT !.overtaken = TRUE]
    /\ UNCHANGED <<cache, reader, listed, versions, deletes>>

\* delete
Delete(c) ==
    /\ c.version = 0
    /\ table' = table \ Named(c.name)
    /\ reader' = [r \in Reader |-> IF reader[r].key = c.name
                                   THEN [reader[r] EXCEPT !.there = FALSE] ELSE reader[r]]
    /\ calls' = calls \ {c}
    /\ UNCHANGED <<cache, listed, edit, versions, deletes>>
-----------------------------------------------------------------------------
Init ==
    /\ table = {}
    /\ cachedList = NotCached
    /\ cachedSite = [n \in Name |-> NotCached]
    /\ reader = [r \in Reader |-> Resting]
    /\ calls = {}
    /\ listed = FALSE
    /\ edit = NoEdit
    /\ versions = 0 /\ deletes = 0

Read(r) == CacheGet(r) \/ Select(r) \/ SelectFails(r) \/ CacheSet(r) \/ Answered(r)

Next ==
    \/ \E r \in Reader : Read(r) \/ Die(r) \/ \E key \in Key : StartReading(r, key)
    \/ \E key \in Key : Expire(key)
    \/ \E p \in Page, n \in Name : SendNew(p, n) \/ SendDelete(p, n) \/ SendEdit(p, n)
    \/ \E c \in calls : Set(c) \/ Delete(c) \/ Lose(c)

Spec == Init /\ [][Next]_vars

\* Processes go on, and entries expire after cache_call_short seconds.
FairSpec ==
    /\ Spec
    /\ \A r \in Reader : WF_vars(Read(r))
    /\ \A key \in Key : WF_vars(Expire(key))
-----------------------------------------------------------------------------
(* Properties.                                                             *)

\* getPointSite: that there is no such site is never answered from the past.
\* For a site that is there all the time a call takes the answer has it, though
\* perhaps as it was, unless the SELECT of this very call has failed.
FoundIfThere ==
    \A r \in Reader :
        reader[r].at = "answered" /\ reader[r].there =>
            reader[r].got.sites # {} \/ reader[r].failed

Current(key) == EntryOf(key) \in {NotCached, Cached(Result(key))}

\* CacheModel::call: what readers are told may be old, also if the entry was
\* made of a SELECT that the change has overtaken or that has failed; but when
\* the changes and the failures have come to an end, then for ever after what
\* is cached is what is in the table.
StaleEntriesEnd ==
    <>[][~ \E r \in Reader : SelectFails(r)]_vars => <>[] \A key \in Key : Current(key)

\* updateEditArea (point_site_manage.js l.20): when both calls of an edit have
\* been executed, and nothing else was sent, the site of the name in the form
\* is as it was edited; or it is gone, if the addition was executed first.
\* Every other site is as it was, so when another name was typed than that of
\* the site in the list, that site stays as well.
EditTakesEffect ==
    edit # NoEdit /\ calls = {} =>
        table = edit.others \cup IF edit.overtaken THEN {} ELSE {edit.site}
=============================================================================
