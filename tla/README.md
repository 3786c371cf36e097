# LeftFelt: a verification project

LeftFelt is a collection of small services (PHP and JavaScript, under
`src/web/service`) and of C++ programs (under `src/cpp`). Most of the tree is
third-party code (boost, SQLite, node, Smarty). This project models the parts
in which the author's own code has something to get wrong that a test hardly
reaches: actors that interleave, state that is stale when used, steps that fail
half-way.

Seven components are modelled, model-checked and proved about:

| component | modules | what is at stake |
|---|---|---|
| paint chat server | `PaintChat`, abstract `PaintRoom`, `MCPaintChat`, `PaintChatProofs`, `PaintChatStrokesProofs` | who draws for whom, with listeners that pile up |
| account manager | `Accounts`, `MCAccounts`, `AccountsProofs` | calls of two SQL statements each, with no transaction |
| image crawler | `ImageCrawler`, `MCImageCrawler`, `ImageCrawlerProofs` | overlapping runs on one Redis set, deaths half-way |
| pattern classifier | `Clustering`, `MCClustering`, `ClusteringProofs` | two threads whose SQL answers share one static vector |
| movie upload | `MovieUpload`, `MCMovieUpload`, `MovieUploadProofs` | files rewritten without a lock, an upload of many steps, tickets |
| point sites | `PointSites`, `MCPointSites`, `PointSitesProofs` | a cache in front of a table, calls that overtake each other |
| object labelling | `Labeling`, `MCLabeling`, `LabelingProofs` | an imperative algorithm whose lookup table must not join objects |

`PROJECT.json` maps every definition to the lines it stands for.

## Inventory

### Paint chat server: `movie_upload/node_modules/paintchatServer.js`

State: `conn`, the list of all connections ever accepted, with a flag
`connected`, a flag `con.closed`, and the listeners registered on each socket.
Operations: the request handler (accept, look for a partner, connect), `connect`,
`setAction` (one message and one close listener on one socket, for one partner),
`search`, `initConnect`. It runs on the WebSocket library beside it and on the
event emitter of node 0.6.19; everything happens in their callbacks, one at a time.
Hard: `connect` never removes a listener and `initConnect` removes all, so the
set of listeners depends on the whole history of a connection, and several of
them run when it closes, each changing the flags that the next one searches; and
the library may report one close twice.
Correct if: people are paired two by two, a stroke goes to the partner only, a
partner left behind is matched again or waits, and only people who are there
are matched.

### Paint chat client: `movie_upload/public_html/websocket.js`

Buffers drawing commands, sends them every 500 ms, decodes what it receives.
Correct if decoding gives back what was drawn. Not modelled yet.

### Account manager: `account_manager`

State: `service_id_table`, one user table per service. Operations, each an API
call and a PHP process: add or delete a service, add or delete a user,
authenticate. Each is one or two SQL statements on MySQL, without transactions.
Hard: every interleaving of two calls, a failing second statement, a process that
ends in between. Correct if an answer means what it says: who was added can log
in, who was deleted cannot, a deleted service takes its users along.

### Image crawler: `cpp/Project/CrawlerClass`, `image_crawler`

State: the Redis set of URLs to visit, the table of image URLs. A C++ program
that cron starts every minute asks an API for a URL, reads the page, and sends
its images and links to two other APIs. A batch deletes 5% of the set. Hard: runs
overlap, `imageGetNextURL` is two Redis commands, a run can die anywhere, and
answers are not looked at. Correct if an entry is handed out once and nothing is
forgotten without a reason.

### Pattern classifier: `cpp/Project/Clustering`

State: the SQLite table of patterns (label, feature, priority), the static
vector `SQLite::result`, the members of the window. Operations: `Testament::learn`
takes a pattern and `ClusterRepository::commit` gives it the label of the cluster
it is like, or a new one; a click searches for the labels in an area; an input
window asks for data about a label that has none. Hard: two threads, and
`SQLite::execute` clears and copies the vector outside of SQLite's mutex; `commit`
is three statements, each of which may fail. Correct if clusters hang together
and have names of their own, and a click finds the cluster that is there.

### Movie upload: `movie_upload/public_html/thread.php`, `libs/`

State: the table of videos, the converted files, a comment file for each video,
a ticket in each session. Operations: open a page (issues a ticket), play (counts
a view), upload (insert, move, convert, thumbnail, comment file, enable), comment
(load, add, save, count), delete everything. Hard: an upload has seven steps and
ends at any of them; a comment file is read, changed and written back without a
lock. Correct if what was announced can be watched, comments stay in order and
with their video, and a ticket is spent once.

### Point sites: `mkw`, behind `common/lib/core/Cache.class.php`

State: the table of sites, cached results in memcached, calls on their way.
Operations: two cached reads, an addition, a deletion; the page's "edit" is a
deletion and an addition sent at the same time, for the name that is in the form by
then. Hard: a result may be cached after the change that makes it old; calls arrive in
any order; a SELECT that fails is an empty answer. Correct if a site that is there is
found, an edit leaves the new site or none of its name and touches no other, and
staleness ends.

### Object labelling: `ImageUtil::Labeling` of the C++ library

State: labels of points, a lookup table of labels that have met. Two rounds of
scanning and resolving, then numbering. `SamplingLargeObject` keeps the largest
object. Hard: what the table looks like depends on the order in which the picture
makes labels meet. Correct if no label is shared by two objects.

### The rest

* Login (`common/action/loginAction`): calls the account manager and sets a
  cookie. Correct if only who is authenticated is logged in.
* Framework (`common/lib`): dispatch, Redis and Memcache models.
* Change tool (`mkw_change_tool.php`): one file written under a lock.
* Cluster store (`cluster_manage`): keys and value rows in Redis.
* HTTP, XML and tag classes of the C++ library; GUI, image, sound and device
  wrappers; permissions (used by nothing); vendored code.

Interactions: the login page and the management pages call the account
manager's API; the crawler calls the crawler's APIs; the point-site pages use the
cache. The paint chat is on its own.

## The models

### PaintChat

`size` is `conn.length`; `connected`, `closed` are the flags; `onMessage[u]` and
`onClose[u]` are the listeners of connection `u` in the order of registration,
each named by the `user2` of its closure (`Base` for the request handler's own
close listener). `wire[u]` is the socket as the library sees it. An event of a
socket takes a snapshot of its listeners, as `emit` does (events.js l.86), into
`todo`; each listener is an action (`Relay`, `MarkClosed`, `Rematch`,
`Unmatch`), and the next event waits until all have run, as node does. `Request`
is the whole request handler. `ReceiveCloseFrame`, `SocketClose` and
`ReceiveMessage` are what the library does with the network, close handshake
and keepalive drop included. `inbox` records the binary frames that went out.

The library can emit 'close' twice for one connection: `handleSocketClose`
(WebSocketConnection.js l.259-279) does not stop the timer of the grace period that
an unanswered ping has started, and when that fires `drop` (l.298-327) emits
whether or not 'close' was emitted before. `late` are the closed connections whose
timer still runs, and `GraceTimer` is the second close: it calls whatever close
listeners the connection has by then. Any of them may lead to somebody who has
found another mate since, and then the search or `initConnect` done for it parts
those two on one side only. `torn`, which no action reads, remembers that this has
happened.

What holds whatever is repeated: `AtMostOneWaiting`, `ConnectedMeansListening`,
`CloseFollowsMessage`. What holds until two mates are torn apart, repeated closes that
find nobody with another mate included: `StaleListenersAreDead`,
`RelaysAreMutual`, `SurvivorIsLast`, `StrokeGoesToOne`, `AuthorsTakeTurns`, `RoomSpec`
and `SurvivorIsReleased`. No document of the repository says that a connection
closes once, so this is not among the findings.

`closed` is set by a listener, so it is not the same as `wire[u] = "closed"`:
that difference is the first finding. Likewise `Rematch` and `Unmatch` act on a
`user2` that may be gone: the second finding.

`Waiting` reads only what `search` reads; `Search(u, i)` takes the lowest index.

`PaintRoom` is the abstract specification: people enter, leave and are matched in
pairs, without sockets, listeners or flags. `PaintChat!Room` is its instance, with
`mate` defined from the newest message listener and from who is there. A waiting
user in the abstract room may stay alone for ever: that matching in fact happens
is not promised, and, as the two violated runs show, not kept.

Left out: a text message (the client sends none), malformed frames (among them
those with a reserved bit set, l.228-232), the library's own list of open
connections, and the greeting of `setAction` (l.92-94): `send` does not know a
`Uint8Array` and makes a text frame of it (WebSocketConnection.js l.529-538), of which the
client reads no byte. So nothing tells a canvas that its author is a new one;
what is left of it is `AuthorsTakeTurns`: the author before has left the chat.

### Accounts

A call `r` has what it asks (`call[r]`), how far it is (`step[r]`) and what it
answers (`answer[r]`). Each SQL statement is an action. The user table is named
by its service, since the code computes one from the other. `before[r]` is the
set of calls that were over when `r` began: properties speak of "added before it
began" with it. `users` keeps with each row the call that added it, which is how
an old row is told from a new one of the same name. With `MayFail`, each
statement may also fail for the database's own reasons; PDO is used without
exceptions there, so the result is `false`, and the code that ignores it ignores
it in the model. `Die` ends a process between two statements in any case. Names,
passwords and permissions are model values; a password is what `SecureHash` gives.
`Empty` is the empty string: `userAuth` refuses it before it asks the database
(`Refuse`, UserLogic l.86), while `addUser` stores it like any other.

### ImageCrawler

`frontier` is the Redis set, `step[r]` the C++ program and `api[r]` its call of
`imageGetNextURL`, which goes on when the program dies. A page shows any images
and any links. `owed` (what somebody was told of and nobody has visited since),
`lost`, `added` and `taken` are history variables for the properties; no guard
reads them. The trimming batch is disabled in `cron.php` (l.9) and can be run by
hand: the model lets it run, at any time.

### Clustering

A call of `SQLite::execute` is four kinds of step of a thread: `Clear` empties
`result`; `Exec` is the statement itself, atomic since `sqlite3_exec` holds the
connection's mutex; `Callback` pushes one row; the copy is part of what the caller
does next (`LearnerReturns`, `GuiReturns`). `at[t]` is where thread `t` is. The
other thread may run between any two of them, except between `Exec` and the last
callback, where the mutex keeps its `Exec` out. `Selection` is the meaning of the
grouped SELECT, with the choices that SQL leaves open. `stmt` carries the local
variables of `commit`. Features are integers and their distance stands for the
cosine similarity; what the camera or k-means delivers is any feature. `Restart`
ends the program anywhere and keeps the table.

`overlap` is for the properties: it says that a thread has touched `result`
while the other was waiting for it. The code lets that happen; then a cluster can
be extended by a pattern that is unlike it, or founded beside one that is like it,
and a click can be answered with what the learner asked for. The three properties
about similarity therefore hold up to the first overlap; `LabelNamesItsFounder` and
`DataWereAskedFor` hold in any case. The input window opens when there are no data for
a label, and also when the search for them fails, since any exception is taken for
"not found" (main.cpp l.148-158): `ShowRelation(TRUE)`. What it receives is stored
for the member `label`, which a second click may have changed (l.177), not
for the label in its title; `relation` keeps both. So a label can have data that were
typed for another one; but then (`DataWereAskedFor`) it has some of its own too.
Of equally frequent labels the code takes the first string, hence `Precedes`.

Simultaneous operations on one `std::vector` are undefined in C++. The model has
the outcomes in which they happen in some order, and a crash.

### MovieUpload

`request[s]` is the process that serves session `s`: PHP locks a session's file from
`session_start` to the end of a request, so there is at most one. Each SQL statement
and each file access is an action; `dom` is the document in memory. `Truncate`
and `Write` are the two halves of `DomDocument::save`; a file that two processes write
at a time may end up as neither document. A process may die at any step, with
its session stored (an error) or not (killed). `deleteVideoAll` runs without a session.
Its statements are sent as one, and `execute` comes back after the DELETE
(`DeleteRows`); the server resets the ids (`RestartIds`, without effect if a row was
inserted before) while `rm videos/*` and then `rm comments/*` run. `gone` are the
rows that are deleted while their ids are not used again yet.

`spent`, `told`, `stored`, `cut`, `overtook` and `ruined` are history for the properties.
What the conditions in them say of the code: of two comments saved at the same time
one may be lost (`overtook`, comments.class.php l.51); `comment_count` counts all
comments, also those that `COMMENTS_MAX` has pushed out (l.42), so it bounds the file
from above only; a request that has loaded a file before everything is deleted
writes the old comments back (`resets`); and `enable` has no WHERE
(videos.class.php l.264), so a video whose conversion failed is shown when another
upload ends: `EncodedIsWatchable` is about the videos that were announced. Their comment
file can be read, but for the time it is being saved, and after somebody died in
save or two wrote it at the same time (`Unsound`, `ruined`): the next comment's `load`
then fails, unless another request has the document in memory. `SavedIsKept` excuses
the same three cases, files full of later comments, and the comments that another
request has overtaken, and nothing else. After a deletion ids mean other videos, and a request that loaded
a file before can write it into the new video's: that the comments of a file are of its
video is claimed until the first deletion only, their order always.

### PointSites

A reader goes through `CacheModel::call`: ask the cache, else run the method, then
store what it answered. `calls` is what pages have sent; the server executes it in
any order, or never (`MayLose`). A site is a name and a version. `edit` remembers
the last edit if nothing else was on its way, and whether its addition was
executed before its deletion: then the addition is refused, since names are unique,
and the deletion leaves nothing, while the page shows the answer that comes last
(point_site_manage.js l.91). Both calls take the name from the form when they are sent
(l.53, 73), where it can be changed: an edit of any name `n` stands for the edit of another
site whose name was overtyped. Then the old site stays, which `EditTakesEffect` says
too: the other sites (`others`) are as they were.

PDO reports no error here (dbManagerModel.class.php l.23): a SELECT that fails finds
nothing (`SelectFails`). `get` then answers "no such site" and caches nothing; `getList`
makes an empty `PointSiteList`, an object, which is cached for `cache_call_short`
seconds like any other. `FoundIfThere` excuses the reader whose own SELECT failed and
no one else; `StaleEntriesEnd` is about what follows the last failure.

### Labeling

One action for each point of the scan, each call of `Lookup_update` and each loop
over the picture. `Input` is a set of pictures, each with some of its objects
(`objects`: no other white point touches them), and the properties are about any
such choice. `min_calc` begins with `MaxLabel` (0xFFFF), which matters when there
are more labels. The outermost points, which the code does not scan, are left out.
The last loop (l.1118-1126) gives a `Label` to labelled points only, and nothing ever
takes one away: `was` is what the points had before, and `Again` labels a picture a second time, as
it is after the first (`SamplingLargeObject` changes which points are white). `label` stays apart for
objects then too, but old labels count as new ones in a later
`SamplingLargeObject`, so that what it keeps is of one object only in a picture
not labelled before (`IsFresh`).

What is not claimed: that an object has one label. Two rounds do not always
suffice: when the program runs, this picture (11 by 4 points) keeps labels 1 and 2
for its left object,

    ..........#
    #....#..#.#
    #..##.##.#.
    .##........

and numbers that points lose in the second round are counted in the returned number,
so it can be too high. The run's pictures are too small for the first; the
properties allow for both.

## What the runs show

| run | instance | checks |
|---|---|---|
| `paint_chat` | 4 connections, of which 3 may close twice, 2 strokes | the safety properties of the server, the refinement of `PaintRoom`, and `SurvivorIsReleased` |
| `paint_chat_newcomer` | 4 connections | violated: `NewcomerMeetsThePresent` |
| `paint_chat_rematch` | 4 connections | violated: `RematchIsForTheSurvivor` |
| `accounts` | 1 service, 1 user, 2 passwords and the empty one, 4 calls, no failing statement | what answers mean |
| `accounts_fail` | 1 user, 1 password, 4 calls, any statement may fail | types, deleted users, unique names |
| `accounts_race` | as above, no failing statement | violated: `ServicesHaveTables` |
| `accounts_drop` | statements may fail | violated: `ServiceTakesItsUsers` |
| `image_crawler` | 2 URLs, 1 image, 2 runs, 3 calls by hand, 1 batch | `NothingForgotten`, `TakenOnce` |
| `clustering` | 3 features, 3 patterns, 3 clicks on one feature each, failures, restarts | clusters, clicks, the input window |
| `movie_upload` | 2 sessions, 2 videos, 2 pages, 3 comments for 2 places, one death or one reset | tickets, uploads, comments |
| `point_sites` | 2 names, 2 versions, 1 page, 2 readers, 1 deletion, lost calls, failing SELECTs | cache, edits, the end of staleness |
| `labeling` | all pictures of 4 by 3 points, labelled and sampled any number of times | objects and their labels |

Bounds. Four connections are needed and enough for the interesting histories of
the paint chat: two to pair, a third to be matched with the survivor, so that it
has an old and a new listener, and a fourth to be matched wrongly. Those who have
somebody after them to be torn from are the first three (`Slow`). Two strokes
are what it takes to tell a repetition from a mixture of authors. In
`Accounts` a property relates at most three calls (two additions and the
deletion between them, or an addition, a deletion and a check), and the fourth
is the one that races; services do not share anything but `service_id_table`, whose
rows are independent, so one service and one user are enough; a second password is what
`AuthIsEarned` needs, and an empty one what `userAuth` refuses and `addUser` takes. Two overlapping runs of the crawler, with
a URL that is set again while the first holds it, are what the `spop`/`srem`
window needs. `Clustering` has three features of which neighbours are alike, so that a third
pattern can be like the founders of two clusters; one click is answered while a pattern
is learned, a second opens the input window, and a third finds it open. `MovieUpload` needs two sessions for
every race on a file, three comments to overflow two places, and two videos, so that
comments and `enable` can touch one that they are not about; `MaxTrouble` = 1 lets one process
die or makes one reset, after which an id means another video. In `PointSites` two names are
what it takes to rename a site; an addition, an edit and a deletion are four calls of which
three may be on their way, a page keeps nothing that calls depend on, and two readers can fill an entry
one after the other with results of different age. In pictures of 4 by 3
points two labels of one object can meet beside another object, and `MaxLabel` = 6 is
exceeded by some of them; what the first sampling leaves is labelled again. The theorems lift the bounds for the properties they name.

The largest runs have 4.0 million states (`clustering`), 3.2 million (`movie_upload`),
3.0 million (`accounts`), 2.8 million (`accounts_fail`), and about a million each
(`point_sites`, `labeling`, `paint_chat`). With two workers the two that check liveness,
`point_sites` and `paint_chat`, take up to three minutes, the others less than two.

Deadlock is checked where the system goes on for ever (`point_sites`, `labeling`). In the
others the bounded connections, calls and runs are used up some time, and then the system
has nothing to do.

Symmetry is used for users, passwords, URLs and sessions, which are only compared. It
is not used in runs that check liveness.

### Properties

Paint chat: `AtMostOneWaiting` (search never has a choice, so the "order of
arrival" of its comment does not depend on the scan), `StaleListenersAreDead`,
`RelaysAreMutual`, `ConnectedMeansListening`, `CloseFollowsMessage`,
`SurvivorIsLast` (between two listeners of a close, the survivor is not yet
offered to anybody), `StrokeGoesToOne`, `AuthorsTakeTurns`, `RoomSpec`, and
the liveness property `SurvivorIsReleased`.

Accounts: `DeletedUserStaysGone`, `ServiceTakesItsUsers`, `NamesAreUnique`,
`AuthIsEarned`, `AddedCanLogIn`, `ServiceStands`, each a statement about the
answers of calls that were over before another began.

Crawler: `NothingForgotten` (the `srem` after the `spop` may remove a URL that
was set in between; nothing is lost, since its holder will still visit it) and
`TakenOnce`.

Classifier: `LabelNamesItsFounder` (no label is given twice), `ClustersHangTogether`,
`FoundersStandAlone`, `LabelIsOfTheArea`, `DataWereAskedFor`.

Movie upload: `TicketIsSpentOnce`, `EncodedIsWatchable`, `CountKeepsUp`,
`CommentsKeepTheirOrder` (a witness function places the comments of a file among
all that were saved), `SavedIsKept`.

Point sites: `FoundIfThere`, `EditTakesEffect`, `StaleEntriesEnd`.

Labelling: `ObjectsStayApart`, `LabelsBeginWithOne`.

Each property has a mutant, a slip in the code that breaks it: the slips stand
under "Slips" in the modules and are used by nothing.

### Fairness

The runs of the paint chat use weak fairness of `CallListener` (node runs the
listeners of an event one after the other) and of `SocketClose` for a socket whose closing handshake has begun (the
peer closes it, or the library's keepalive and grace-period timers drop it,
WebSocketConnection.js l.164-202). Nobody is assumed to come, to go, or to draw.

`point_sites` uses weak fairness of the steps of a reader (a process that has
begun goes on) and of `Expire` (memcached forgets an entry after `cache_call_short`
seconds). Nothing is assumed of pages or of the network.

The other runs check safety only: each of those programs may stop anywhere.

## Findings

1. `NewcomerMeetsThePresent` (paintchatServer.js l.113). `initConnect` removes
   the close listener that sets `closed`. Someone who is left behind and then
   leaves is never marked closed, and the next newcomer is connected to nobody.
2. `RematchIsForTheSurvivor` (l.84, 63-72). The close listeners of earlier
   partners stay. When their owner closes, they search for a partner for someone
   who has left, and the user who waits is marked connected and stranded.
3. `ServicesHaveTables` (ServiceLogic l.24-46). A service that is added while it is being
   deleted: INSERT, DELETE, DROP, CREATE leaves its user table without the service, and
   DELETE, INSERT, CREATE, DROP leaves the service without its user table.
   Which of the two TLC shows first depends on its workers.
4. `ServiceTakesItsUsers` with failing statements (ServiceLogic l.44). The
   result of `drop` is ignored: the answer is true, the users are still there, and
   are back with the service.

## What is proved

All proofs are checked by TLAPS; they hold for every value of the constants,
under the assumption named in each module (`BoundsAssumption`, `CallAssumption`,
`CrawlAssumption`: the bounds are natural numbers, `Url` is finite and distinct
from images; `ClusteringAssumption`: features are integers; `LabelingAssumption`: `Input`
consists of pictures with objects, `MaxLabel` is positive; `MovieUploadAssumption`:
`MaxVideo` and `COMMENTS_MAX` are positive, the other bounds natural; `PointSitesAssumption`: bounds are natural numbers).

`PaintChatProofs`. `TypeCorrect` first. The safety properties rest on
`ServerInvariant` (`IInv`). None of them is inductive alone: `Request` keeps
pairs apart only because at most one connection waits; that is so only because,
while a close is handled, the listener for the survivor is the last in `todo`
and the survivor still counts as connected (`SurvivorIsLast`); and this needs
what listener lists look like (`StaleCloseListeners`, `CloseFollowsMessage`,
`Pairing`, `EnteredInOrder`, `ListenersEntered`, `EventHasListeners`). The parts about
mates are excused once `torn`, and the step that makes it TRUE is the one that would break
them: as long as it stays FALSE, a repeated close has dealt with nobody who has a mate. The proof
that a step keeps `IInv` has one lemma per action. From `IInv` follow
`SearchHasNoChoice`, `RelaysArePairs`, `StaleListenersDoNoHarm`,
`FlagsFollowListeners`, `CloseReachesPartners`, `SurvivorComesLast`, and `ServerImplementsRoom`: a
request maps to `Enter`, a lost socket to `Leave`, a rematch between two people
who are there to `Match`, and everything else to a stutter; steps that tear are not claimed to.

`PaintChatStrokesProofs` goes on from there to what is sent. `StrokeGoesToOne` and
`AuthorsTakeTurns` speak of frames that went out, so the invariant `StrokesInv`
ties those to the pairs of the moment: everything sent is older than the stroke
that is being relayed (`StrokesAreOld`), of the listeners that have still to relay it
only the last can lead to somebody there (`MessageGoesOn`), and of the authors on the
canvas of someone there only its mate is there as well (`AuthorIsMate`). Hence
`StrokesGoToOne` and `AuthorsDrawInTurn`, for any number of connections and strokes.

`AccountsProofs`. `AccountsTypeCorrect`; then `IInv`: the calls in `before[r]`
are over and stay over, so a row added by one of them cannot appear again after
the deletion. From it `DeleteUserIsFinal` without further assumption, and
`DeleteServiceIsFinal` and `AddedServiceStands` for `~MayFail`, where the fourth
finding shows that the assumption is needed.
A second invariant, `KInv` (`KeptInvariant`), says what calls have left behind: a row is
there because the call it names added it (`RowsAreAdded`), and what an `addUser` or
`addService` found or stored is still there unless a removal that was not over when
it began has begun (`UsersAreKept`, `ServicesAreKept`). The properties speak of calls
that are over; `KInv` says the same already between the two statements of a call. From
it `NamesAreGivenOnce`, also when statements fail, and for `~MayFail` `LoginsAreEarned`
and `AddedUsersLogIn`: a removal may be answered with true although it left the rows
(the fourth finding), and a statement that fails refuses somebody who was added.

`ImageCrawlerProofs`. `CrawlerTypeCorrect`, and from it, directly, `EntriesAreTakenOnce`
and `NothingIsForgotten` for any number of runs. The latter splits on who holds
what: a run's step leaves alone what others hold (`OthersHold`) and keeps what is in
the set, in the table or in its own hands (`CrawlKeeps`).

`ClusteringProofs`. `IInv` adds to the types that every label anywhere
(in the table, in `result`, in a row on its way, in a statement) is the label of some
row (`LabelsAreKnown`), and that a row's label is the name of a row that has it
and came no later (`LabelsAreFounders`). With these a new label, the number of
rows plus one, is not in use, although the rows a thread sees may be the
other's answer: `LabelsAreNeverReused`. `DataAreTypedForTheirLabel` needs that while the
window is open, the label that the next Enter is about is the one in its title or
has data (`WindowAsks`). What the classifier finds
out rests on `QInv`: as long as no thread has changed an answer that the other was
waiting for, what each thread sees fits what it asked (`AnswerInOrder`), the next
statement of the learner carries a label that fits or founds a cluster where there
is none (`LearnerInOrder`), and so the table is in order (`ClustersInOrder`). Two more
conjuncts do not depend on `overlap`, because a disturbed answer may be followed by
undisturbed steps of the other thread: what SQLite has still to deliver fits
(`RestInOrder`), and the window's thread only asks (`GuiAsks`), so that the learner alone
adds rows between its own two statements. From it `PatternsJoinTheirLike`,
`ClustersAreFoundedAlone`, and, as a property of steps, `SearchesFindTheirLike`.

`LabelingProofs`. The proof of `ObjectsAreApart` invents what the algorithm does
not keep: `Apart` says that there is a set `S` of labels which the chosen objects
have and other points do not, and which the lookup table neither enters nor leaves.
A new label is put on the side of its point; a point between labels is on their side
because objects are closed. `Resolved` says how far the table has been resolved, and
the numbers of different ends differ because the entries before one are properly
contained in those before the other (`NumbersAreInOrder`, by the library's theorems on
finite sets). Old labels come in at the last step only (`was`). `LabelsAreCounted` needs `Scanned` (the points before the current
one are labelled) and `Kept` (only 0 leads to 0).

`PointSitesProofs`. `FoundIfThere` needs that a name is never cached without its
site (`CachedAreFull`) and what each reader has got so far (`ReaderKnows`); a site that
was there when the reader asked and has not been deleted since is in the table when it
selects. `EditTakesEffect` is not inductive: `EditGoesOn` says how far an edit is, by
the calls that are still on their way, and what those executed have made of the
table.

`MovieUploadProofs`. The document in memory never outgrows `COMMENTS_MAX`, so the
file does not. `TicketIsSpentOnce` needs whose a ticket is: that of a page shown to its
session (`TicketInOrder`), while a request has no other than its session's
(`RequestInOrder`); the end of a request then spends a ticket that no other session has.
Six more invariants, each on top of the ones before:

* `OInv`: file and document in memory are comments that were saved, in that order,
  and the document ends with the request's own (`Within`, `DomInOrder`); a comment is
  posted by one request, once (`Posts`). Without the latter a comment could be saved
  twice, and its places would not be in order. `CommentsAreInOrder` follows, whatever
  requests overwrite each other's files.
* `RInv`: a file that cannot be read is so for one of the reasons of `Unsound`.
* `VInv`: until all is deleted, a request that posts has a video, an upload has one
  of its own with the files of the steps it has done (`FilesAt`), and no comment file is without
  a row (`VideosInOrder`). `EncodedVideosAreWatchable` follows: no other upload can take the
  movie or the file of a video away.
* `CInv`: a document in memory may be longer by one than what is counted, as its own
  request has yet to count (`CountsInOrder`). The counts are of finite sets
  (`FewCount`), although `Session` may be infinite. `CommentsAreCounted` follows.
* `NInv`: no comment is saved twice, so that "saved later" means something.
* `DInv`: what was saved is in the file and in every document that will be written over
  it, or there were too many, or it has been overtaken (`SavesInOrder`).
  `SavedCommentsStay` follows.

Every safety and action property that a passing run checks is stated by one of these theorems. Only
model-checked are `SurvivorIsReleased` and `StaleEntriesEnd`: they are liveness under
fairness, which is beyond the prover. The properties of the four runs that show a
violation have no theorem, of course.

## Not modelled

* Vendored code is nearly all of the tree: boost, SQLite, node, Smarty and the
  device kits are about 1.8 million lines beside a few thousand of the author's. Only
  what the author's code relies on is modelled, with it.
* GUI, camera, sound, serial devices and the numerics (SURF, k-means, wavelets): they
  have no states that several steps or actors could bring into disagreement, or values
  outside of what a finite model tells apart.
* The paint chat client, login, the change tool, the cluster store, permissions, HTTP
  and HTML classes: see the notes in `PROJECT.json`. The lists of all services, which only read.
* Tags of videos, whose calls are one statement each.

## Plan

Done: all modules with their runs, and a theorem for each safety and action property
that a passing run checks.

Next, proofs: what `PaintRoom` itself promises (a pair is two people who are there), and
through `ServerImplementsRoom` of the server; the steps that `SurvivorIsReleased` and
`StaleEntriesEnd` rest on, as action properties (nothing but the
listeners' own steps shortens `todo`; an entry of the cache only ages), which leave
to TLC only that fair steps are taken.

Later, if there is room: login on top of `Accounts`; the client of the paint chat;
an abstract account directory that `Accounts` implements.

## Running

    tlc -config PaintChat.cfg MCPaintChat
    tlapm PaintChatProofs.tla

and likewise for the other configurations and proof modules.
