---------------------------- MODULE MovieUpload ----------------------------
(***************************************************************************)
(* The movie upload service: thread.php with Videos and Comments.  PHP     *)
(* holds a session's lock from session_start to the end of the request and *)
(* writes $_SESSION back then, so the requests of one session come one     *)
(* after the other, and those of different sessions interleave at their    *)
(* SQL statements and file accesses.  A comment file is read, changed in   *)
(* memory and written back: save empties the file and then fills it.       *)
(*                                                                         *)
(* Left out: tags (each call is one INSERT or DELETE), the registration of *)
(* users, and the lists, which only read.                                  *)
(***************************************************************************)
EXTENDS Integers, Sequences, FiniteSets

CONSTANTS Session,      \* logged in browsers
          MaxVideo,     \* bound: rows of videos
          MaxTicket,    \* bound: pages opened
          MaxComment,   \* bound: comments posted
          COMMENTS_MAX, \* comments a file has room for
          MaxTrouble    \* bound: processes that die, and calls of videodelete.php

ASSUME MovieUploadAssumption ==
    /\ {MaxTicket, MaxComment, MaxTrouble} \subseteq Nat
    /\ {MaxVideo, COMMENTS_MAX} \subseteq Nat \ {0}

VARIABLES
    videos,   \* the table; the id of a row is its place
    gone,     \* the first so many rows were deleted, but their ids are used up
    mp4,      \* ids for which there is a converted file
    file,     \* the comment file of each id
    ticket,   \* $_SESSION['ticket'] as it is stored, NoTicket when empty
    request,  \* what the process of each session is at
    opened,   \* to whom each page was shown; a page's ticket is its place
    posted,   \* comments posted so far
    deaths,   \* processes that have died so far
    resets,   \* calls of videodelete.php so far
    reset,    \* what the last of them has still to do
    \* What has become of requests, for the properties only.
    spent,    \* tickets whose request has ended
    told,     \* ids for which 'encoded' was answered
    stored,   \* comments that were saved, in this order
    cut,      \* saved comments whose request ended before they were counted
    overtook, \* pairs: the second had its file in memory when the first was saved
    ruined    \* ids whose file was left by one who died in save, or by two at once

store == <<videos, gone, mp4, file>>
history == <<spent, told, stored, cut, overtook, ruined>>
vars == <<store, ticket, request, opened, posted, deaths, resets, reset, history>>

Id == 1 .. MaxVideo
Ticket == 1 .. MaxTicket
NoTicket == 0

Video == [shown : BOOLEAN, view : Nat, comment_count : Nat]

\* A comment, and the video it is for.
Comment == [no : 1 .. MaxComment, id : Id]

\* A comment file: there is none, or it is not XML (emptied, or written by
\* two at a time), or it has comments.
File == [is : {"none", "unreadable", "text"}, comments : Seq(Comment)]
None == [is |-> "none", comments |-> <<>>]
Unreadable == [is |-> "unreadable", comments |-> <<>>]
Text(comments) == [is |-> "text", comments |-> comments]

\* One request: the id it is about, the ticket it has taken (if any), the
\* comments it posts (one or none), and the DOM it has in memory.
Request == [at : {"idle", "view", "load", "truncate", "write", "writeGone", "count",
                  "insert", "move", "convert", "thumbnail", "create", "enable"},
            id : Id, ticket : Ticket \cup {NoTicket},
            posts : SUBSET Comment, dom : Seq(Comment)]

Idle == [at |-> "idle", id |-> 1, ticket |-> NoTicket, posts |-> {}, dom |-> <<>>]

TypeOK ==
    /\ videos \in Seq(Video) /\ Len(videos) <= MaxVideo
    /\ mp4 \subseteq Id
    /\ file \in [Id -> File]
    /\ \A id \in Id : Len(file[id].comments) <= COMMENTS_MAX
    /\ ticket \in [Session -> Ticket \cup {NoTicket}]
    /\ request \in [Session -> Request]
    /\ opened \in Seq(Session) /\ Len(opened) <= MaxTicket
    /\ posted \in 0 .. MaxComment
    /\ deaths \in Nat /\ resets \in Nat /\ deaths + resets <= MaxTrouble
    /\ gone \in 0 .. Len(videos)
    /\ reset \subseteq {"ids", "videos", "comments"}
    /\ spent \subseteq Ticket
    /\ told \subseteq Id
    /\ stored \in Seq(Comment)
    /\ cut \subseteq Comment
    /\ overtook \subseteq Comment \X Comment
    /\ ruined \subseteq Id
-----------------------------------------------------------------------------
(* Slips that the properties below must notice; no action uses these, nor  *)
(* IncrementIfShown and ConvertUnchecked below.                            *)

\* $_SESSION['ticket'] is not emptied
EndSessionOnly(s) ==
    /\ request' = [request EXCEPT ![s] = Idle]
    /\ spent' = spent \cup ({request[s].ticket} \ {NoTicket})
    /\ UNCHANGED ticket

\* > for >=
AddedLate(comments, c) ==
    Append(IF Len(comments) <= COMMENTS_MAX THEN comments ELSE Tail(comments), c)

\* <= for <
AddedWithoutNeed(comments, c) ==
    IF Len(comments) < COMMENTS_MAX - 1 THEN Append(comments, c)
    ELSE Append(SubSeq(comments, Len(comments) - COMMENTS_MAX + 3, Len(comments)), c)

\* the new comment comes first
AddedInFront(comments, c) ==
    <<c>> \o SubSeq(comments, 1, IF Len(comments) < COMMENTS_MAX THEN Len(comments)
                                 ELSE COMMENTS_MAX - 1)
-----------------------------------------------------------------------------
(* Helpers.                                                                *)

At(s, step) == request[s].at = step

GoTo(s, step) == request' = [request EXCEPT ![s].at = step]

\* The request ends: what it made of $_SESSION is stored.
EndSession(s) ==
    LET t == request[s].ticket IN
    /\ request' = [request EXCEPT ![s] = Idle]
    /\ ticket' = IF t = NoTicket THEN ticket ELSE [ticket EXCEPT ![s] = NoTicket]
    /\ spent' = spent \cup ({t} \ {NoTicket})

\* Comments::add: the oldest go until there is room, and the new one is last.
Added(comments, c) ==
    LET n == Len(comments)
        excess == IF n < COMMENTS_MAX THEN 0 ELSE n - COMMENTS_MAX + 1
    IN Append(SubSeq(comments, excess + 1, n), c)

\* The request's ticket is the one of its session.
TakesTicket(s, t) == ticket[s] = t /\ t # NoTicket
-----------------------------------------------------------------------------
(* Two more slips.                                                         *)

\* ... where id = :id and deleted is NULL
IncrementIfShown(s) ==
    /\ At(s, "count")
    /\ videos' = [i \in DOMAIN videos |->
                    IF i = request[s].id /\ videos[i].shown
                    THEN [videos[i] EXCEPT !.comment_count = @ + 1] ELSE videos[i]]
    /\ EndSession(s)
    /\ UNCHANGED <<gone, mp4, file, opened, posted, deaths, resets, reset,
                   told, stored, cut, overtook, ruined>>

\* what convert answers is not looked at
ConvertUnchecked(s) ==
    /\ At(s, "convert")
    /\ mp4' \in {mp4, mp4 \cup {request[s].id}}
    /\ GoTo(s, "thumbnail")
    /\ UNCHANGED <<videos, gone, file, ticket, opened, posted, deaths, resets, reset, history>>
-----------------------------------------------------------------------------
(* Pages, and what they send to thread.php.                                *)

\* upload.php and viewer.php: loginCheck(true) issues a new ticket.
OpenPage(s) ==
    /\ At(s, "idle")
    /\ Len(opened) < MaxTicket
    /\ opened' = Append(opened, s)
    /\ ticket' = [ticket EXCEPT ![s] = Len(opened) + 1]
    /\ UNCHANGED <<store, request, posted, deaths, resets, reset, history>>

\* type=video, from a page that was shown to this session: its ticket is
\* taken, or refused ('expire ticket', which changes nothing).
Play(s, id, t) ==
    /\ At(s, "idle")
    /\ opened[t] = s
    /\ TakesTicket(s, t)
    /\ request' = [request EXCEPT ![s] = [Idle EXCEPT !.at = "view", !.id = id, !.ticket = t]]
    /\ UNCHANGED <<store, ticket, opened, posted, deaths, resets, reset, history>>

\* type=upload; without a file the request ends, and the ticket is gone.
Upload(s, t, isUploaded) ==
    /\ At(s, "idle")
    /\ opened[t] = s
    /\ TakesTicket(s, t)
    /\ IF isUploaded
       THEN /\ request' = [request EXCEPT ![s] = [Idle EXCEPT !.at = "insert", !.ticket = t]]
            /\ UNCHANGED <<ticket, spent>>
       ELSE /\ ticket' = [ticket EXCEPT ![s] = NoTicket]
            /\ spent' = spent \cup {t}
            /\ UNCHANGED request
    /\ UNCHANGED <<store, opened, posted, deaths, resets, reset,
                   told, stored, cut, overtook, ruined>>

\* type=comment, for a video that there was when the page was shown.
PostComment(s, id) ==
    /\ At(s, "idle")
    /\ posted < MaxComment
    /\ posted' = posted + 1
    /\ LET c == [no |-> posted + 1, id |-> id] IN
       request' = [request EXCEPT ![s] = [Idle EXCEPT !.at = "load", !.id = id, !.posts = {c}]]
    /\ UNCHANGED <<store, ticket, opened, deaths, resets, reset, history>>

\* A process is killed, or ends with an error, which stores the session.
Die(s, stores) ==
    /\ deaths + resets < MaxTrouble
    /\ ~ At(s, "idle")
    /\ deaths' = deaths + 1
    /\ IF stores THEN EndSession(s)
       ELSE request' = [request EXCEPT ![s] = Idle] /\ UNCHANGED <<ticket, spent>>
    /\ cut' = IF At(s, "count") THEN cut \cup request[s].posts ELSE cut
    /\ ruined' = IF At(s, "write") THEN ruined \cup {request[s].id} ELSE ruined
    /\ UNCHANGED <<store, opened, posted, resets, reset, told, stored, overtook>>
-----------------------------------------------------------------------------
(* The steps of a request.                                                 *)

\* Videos::incrementView
IncrementView(s) ==
    /\ At(s, "view")
    /\ videos' = [i \in DOMAIN videos |->
                    IF i = request[s].id THEN [videos[i] EXCEPT !.view = @ + 1] ELSE videos[i]]
    /\ EndSession(s)
    /\ UNCHANGED <<gone, mp4, file, opened, posted, deaths, resets, reset,
                   told, stored, cut, overtook, ruined>>

\* Comments::load and add.  A file that cannot be read leaves the document
\* without an element to add to, which is a fatal error.
LoadComments(s) ==
    LET f == file[request[s].id] IN
    /\ At(s, "load")
    /\ IF f.is = "text"
       THEN /\ \E c \in request[s].posts :
                 request' = [request EXCEPT ![s].at = "truncate", ![s].dom = Added(f.comments, c)]
            /\ UNCHANGED <<ticket, spent>>
       ELSE EndSession(s)
    /\ UNCHANGED <<store, opened, posted, deaths, resets, reset,
                   told, stored, cut, overtook, ruined>>

\* DomDocument::save opens the file, which empties it or makes it.
Truncate(s) ==
    /\ At(s, "truncate")
    /\ file' = [file EXCEPT ![request[s].id] = Unreadable]
    /\ ruined' = ruined \ {request[s].id}
    /\ GoTo(s, "write")
    /\ UNCHANGED <<videos, gone, mp4, ticket, opened, posted, deaths, resets, reset,
                   spent, told, stored, cut, overtook>>

\* The comments of those who have loaded the file and not written it yet.
HasInMemory(sessions, id) ==
    UNION {request[u].posts : u \in {u \in sessions :
             request[u].id = id /\ request[u].at \in {"truncate", "write"}}}

AfterSave(s) == IF request[s].posts = {} THEN "enable" ELSE "count"

\* It writes the document.  If another request has written since (all, or a
\* part before it died), what is longer of the other's document stays behind
\* this one.
Write(s) ==
    LET id == request[s].id IN
    /\ At(s, "write")
    /\ \/ /\ file' = [file EXCEPT ![id] = Text(request[s].dom)]
          /\ ruined' = ruined \ {id}
       \/ /\ file[id] # Unreadable \/ id \in ruined
          /\ file' = [file EXCEPT ![id] = Unreadable]
          /\ ruined' = ruined \cup {id}
    /\ GoTo(s, AfterSave(s))
    /\ IF request[s].posts = {} THEN UNCHANGED <<stored, overtook>>
       ELSE \E c \in request[s].posts :
              /\ stored' = Append(stored, c)
              /\ overtook' = overtook \cup ({c} \X HasInMemory(Session \ {s}, id))
    /\ UNCHANGED <<videos, gone, mp4, ticket, opened, posted, deaths, resets, reset, spent, told, cut>>

\* The same, when the file it has opened was removed.
WriteGone(s) ==
    /\ At(s, "writeGone")
    /\ GoTo(s, AfterSave(s))
    /\ UNCHANGED <<store, ticket, opened, posted, deaths, resets, reset, history>>

\* Videos::incrementComment_count
IncrementComment_count(s) ==
    /\ At(s, "count")
    /\ videos' = [i \in DOMAIN videos |->
                    IF i = request[s].id THEN [videos[i] EXCEPT !.comment_count = @ + 1]
                    ELSE videos[i]]
    /\ EndSession(s)
    /\ UNCHANGED <<gone, mp4, file, opened, posted, deaths, resets, reset,
                   told, stored, cut, overtook, ruined>>

\* Videos::addVideo; the schema hides a row until it is enabled.
AddVideo(s) ==
    /\ At(s, "insert")
    /\ Len(videos) < MaxVideo
    /\ videos' = Append(videos, [shown |-> FALSE, view |-> 0, comment_count |-> 0])
    /\ request' = [request EXCEPT ![s].at = "move", ![s].id = Len(videos) + 1]
    /\ UNCHANGED <<gone, mp4, file, ticket, opened, posted, deaths, resets, reset, history>>

\* move_uploaded_file succeeds, or the request ends.
MoveUploadedFile(s) ==
    /\ At(s, "move")
    /\ \/ GoTo(s, "convert") /\ UNCHANGED <<ticket, spent>>
       \/ EndSession(s)
    /\ UNCHANGED <<store, opened, posted, deaths, resets, reset,
                   told, stored, cut, overtook, ruined>>

\* ffmpeg::convert: whether there is a file afterwards is its answer, also
\* if the file is an old one that ffmpeg has not got to.
Convert(s) ==
    LET id == request[s].id IN
    /\ At(s, "convert")
    /\ mp4' \in {mp4, mp4 \cup {id}}
    /\ IF id \in mp4' THEN GoTo(s, "thumbnail") /\ UNCHANGED <<ticket, spent>>
       ELSE EndSession(s)
    /\ UNCHANGED <<videos, gone, file, opened, posted, deaths, resets, reset,
                   told, stored, cut, overtook, ruined>>

\* Videos::makeThumbnail: a movie shorter than ten seconds has no such frame,
\* and the call of toGDImage is a fatal error.
MakeThumbnail(s) ==
    /\ At(s, "thumbnail")
    /\ \/ GoTo(s, "create") /\ UNCHANGED <<ticket, spent>>
       \/ request[s].id \in mp4 /\ EndSession(s)
    /\ UNCHANGED <<store, opened, posted, deaths, resets, reset,
                   told, stored, cut, overtook, ruined>>

\* Comments::create keeps the file that there is.
CreateComments(s) ==
    /\ At(s, "create")
    /\ GoTo(s, IF file[request[s].id] = None THEN "truncate" ELSE "enable")
    /\ UNCHANGED <<store, ticket, opened, posted, deaths, resets, reset, history>>

\* Videos::enable has no WHERE; then 'encoded' is answered.
Enable(s) ==
    /\ At(s, "enable")
    /\ videos' = [i \in DOMAIN videos |-> [videos[i] EXCEPT !.shown = TRUE]]
    /\ EndSession(s)
    /\ told' = told \cup ({request[s].id} \cap DOMAIN videos)
    /\ UNCHANGED <<gone, mp4, file, opened, posted, deaths, resets, reset,
                   stored, cut, overtook, ruined>>
-----------------------------------------------------------------------------
(* Videos::deleteVideoAll, called by videodelete.php without a session.    *)

\* The three statements are sent at once, and execute comes back after the
\* first, the DELETE.  (The third is about tags.)
DeleteRows ==
    /\ reset = {}
    /\ deaths + resets < MaxTrouble
    /\ resets' = resets + 1
    /\ gone' = Len(videos)
    /\ told' = {}
    /\ reset' = {"ids", "videos", "comments"}
    /\ UNCHANGED <<videos, mp4, file, ticket, request, opened, posted, deaths,
                   spent, stored, cut, overtook, ruined>>

\* ALTER TABLE videos AUTO_INCREMENT = 0: ids begin again, unless there is a
\* new row already.
RestartIds ==
    /\ "ids" \in reset
    /\ IF gone = Len(videos) THEN videos' = <<>> /\ gone' = 0 ELSE UNCHANGED <<videos, gone>>
    /\ reset' = reset \ {"ids"}
    /\ UNCHANGED <<mp4, file, ticket, request, opened, posted, deaths, resets, history>>

\* rm videos/*  (and thumbnail/*, which is left out)
RemoveVideos ==
    /\ "videos" \in reset
    /\ mp4' = {}
    /\ reset' = reset \ {"videos"}
    /\ UNCHANGED <<videos, gone, file, ticket, request, opened, posted, deaths, resets, history>>

\* rm comments/*; a file that is open stays with those who have it open.
RemoveComments ==
    /\ "comments" \in reset /\ "videos" \notin reset
    /\ file' = [id \in Id |-> None]
    /\ request' = [s \in Session |-> IF At(s, "write")
                                     THEN [request[s] EXCEPT !.at = "writeGone"]
                                     ELSE request[s]]
    /\ reset' = reset \ {"comments"}
    /\ UNCHANGED <<videos, gone, mp4, ticket, opened, posted, deaths, resets, history>>
-----------------------------------------------------------------------------
Init ==
    /\ videos = <<>> /\ gone = 0
    /\ mp4 = {}
    /\ file = [id \in Id |-> None]
    /\ ticket = [s \in Session |-> NoTicket]
    /\ request = [s \in Session |-> Idle]
    /\ opened = <<>>
    /\ posted = 0 /\ deaths = 0 /\ resets = 0
    /\ reset = {}
    /\ spent = {} /\ told = {} /\ stored = <<>> /\ cut = {} /\ overtook = {} /\ ruined = {}

Step(s) ==
    \/ IncrementView(s)
    \/ LoadComments(s) \/ Truncate(s) \/ Write(s) \/ WriteGone(s)
    \/ IncrementComment_count(s)
    \/ AddVideo(s) \/ MoveUploadedFile(s) \/ Convert(s) \/ MakeThumbnail(s)
    \/ CreateComments(s) \/ Enable(s)

Next ==
    \/ \E s \in Session :
         \/ OpenPage(s) \/ Step(s)
         \/ \E t \in DOMAIN opened :
              \/ \E id \in DOMAIN videos : Play(s, id, t)
              \/ \E isUploaded \in BOOLEAN : Upload(s, t, isUploaded)
         \/ \E id \in DOMAIN videos : PostComment(s, id)
         \/ \E stores \in BOOLEAN : Die(s, stores)
    \/ DeleteRows \/ RestartIds \/ RemoveVideos \/ RemoveComments

Spec == Init /\ [][Next]_vars
-----------------------------------------------------------------------------
(* Properties.                                                             *)

\* thread.php (l.34, l.61): the ticket of a page is good for one view or one
\* upload, however many pages the session has open, unless the process is
\* killed before it stores the session.
TicketIsSpentOnce ==
    \A s \in Session : /\ ticket[s] \notin spent
                       /\ request[s].ticket \notin spent

\* The file of id is unreadable, and why: it is being saved, or somebody died
\* when he saved it, or two have written it at the same time.
Unsound(id) ==
    /\ file[id].is = "unreadable"
    /\ id \in ruined \/ \E s \in Session : At(s, "write") /\ request[s].id = id

\* thread.php (l.95): 'encoded' is answered for a video that people can watch,
\* and can comment on: its comment file can be read, except while it is being
\* saved, and after one has died when he saved it or two have written it at
\* the same time.  It stays so until all is deleted.
EncodedIsWatchable ==
    resets = 0 => \A id \in told : /\ videos[id].shown /\ id \in mp4
                                   /\ file[id].is = "text" \/ Unsound(id)

\* Comments::add: the comments of a file are in the order in which they were
\* saved, and none is there twice, whoever has overwritten whom; and until all
\* is deleted and ids begin again none has gone to another video.
CommentsKeepTheirOrder ==
    \A id \in Id :
        LET f == file[id].comments IN
        /\ \E place \in [DOMAIN f -> DOMAIN stored] :
             /\ \A i \in DOMAIN f : stored[place[i]] = f[i]
             /\ \A i, j \in DOMAIN f : i < j => place[i] < place[j]
        /\ resets = 0 => \A i \in DOMAIN f : f[i].id = id

\* incrementComment_count: comment_count is behind the file by no more than
\* the requests that are about to count, or were cut short.
CountKeepsUp ==
    resets = 0 => \A id \in DOMAIN videos :
        Len(file[id].comments) <= videos[id].comment_count
                                  + Cardinality({s \in Session : At(s, "count") /\ request[s].id = id})
                                  + Cardinality({c \in cut : c.id = id})

\* thread.php l.17: until all is deleted, a comment that was saved is in its
\* file, unless
\*   - the file is full of COMMENTS_MAX comments that were all saved later, or
\*   - a request that had loaded the file before it was saved has saved its own
\*     comment after it, or
\*   - the file is being saved, or one has died when he saved it, or two have
\*     written it at the same time, and nobody has written it since.
SavedIsKept ==
    resets = 0 =>
        \A i \in DOMAIN stored :
            LET f == file[stored[i].id].comments IN
            \/ \E k \in DOMAIN f : f[k] = stored[i]
            \/ /\ Len(f) = COMMENTS_MAX
               /\ \A k \in DOMAIN f, j \in 1 .. i : f[k] # stored[j]
            \/ \E j \in DOMAIN stored : <<stored[i], stored[j]>> \in overtook
            \/ Unsound(stored[i].id)
=============================================================================
