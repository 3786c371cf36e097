------------------------- MODULE MovieUploadProofs -------------------------
(***************************************************************************)
(* Proofs about the movie upload, for any sessions, and any number of      *)
(* pages, videos and comments, deaths and resets.                          *)
(***************************************************************************)
EXTENDS MovieUpload, SequenceTheorems, FiniteSetTheorems, TLAPS

\* The three parts of the types: tables and files, sessions, and the rest.
StoreTypes ==
    /\ videos \in Seq(Video) /\ Len(videos) <= MaxVideo
    /\ gone \in 0 .. Len(videos)
    /\ mp4 \subseteq Id
    /\ file \in [Id -> File]
    /\ \A id \in Id : Len(file[id].comments) <= COMMENTS_MAX

SessionTypes ==
    /\ ticket \in [Session -> Ticket \cup {NoTicket}]
    /\ request \in [Session -> Request]
    /\ opened \in Seq(Session) /\ Len(opened) <= MaxTicket
    /\ spent \subseteq Ticket

OtherTypes ==
    /\ posted \in 0 .. MaxComment
    /\ deaths \in Nat /\ resets \in Nat /\ deaths + resets <= MaxTrouble
    /\ reset \subseteq {"ids", "videos", "comments"}
    /\ told \subseteq Id
    /\ stored \in Seq(Comment)
    /\ cut \subseteq Comment
    /\ overtook \subseteq Comment \X Comment
    /\ ruined \subseteq Id

\* A document fits, a request has no ticket but its session's, and a process
\* that is idle has nothing at all.
RequestInOrder(s) ==
    /\ Len(request[s].dom) <= COMMENTS_MAX
    /\ request[s].ticket \in {NoTicket, ticket[s]}
    /\ request[s].at = "idle" => request[s] = Idle

\* A session's ticket is that of a page shown to it, and not yet spent.
TicketInOrder(s) ==
    ticket[s] # NoTicket => /\ ticket[s] \in 1 .. Len(opened)
                            /\ opened[ticket[s]] = s
                            /\ ticket[s] \notin spent

Sessions ==
    /\ SessionTypes
    /\ \A s \in Session : RequestInOrder(s) /\ TicketInOrder(s)
    /\ spent \subseteq 1 .. Len(opened)

IInv == StoreTypes /\ Sessions /\ OtherTypes
-----------------------------------------------------------------------------
LEMMA Idleness ==
    /\ Idle \in Request /\ Len(Idle.dom) = 0
    /\ Idle.at = "idle" /\ Idle.ticket = NoTicket
<1>1. 1 \in Id
  BY MovieUploadAssumption DEF Id
<1>2. <<>> \in Seq(Comment) /\ Len(<<>>) = 0
  OBVIOUS
<1> QED
  BY <1>1, <1>2 DEF Idle, Request

LEMMA Starting == Init => IInv
<1> SUFFICES ASSUME Init PROVE IInv
  OBVIOUS
<1> USE DEF Init
<1>1. StoreTypes
  <2>1. None \in File /\ Len(None.comments) = 0
    BY DEF None, File
  <2>2. videos \in Seq(Video) /\ Len(videos) = 0
    OBVIOUS
  <2> QED
    BY <2>1, <2>2, MovieUploadAssumption DEF StoreTypes
<1>2. SessionTypes
  BY Idleness, MovieUploadAssumption DEF SessionTypes, NoTicket
<1>3. ASSUME NEW s \in Session PROVE RequestInOrder(s) /\ TicketInOrder(s)
  BY Idleness, MovieUploadAssumption DEF RequestInOrder, TicketInOrder
<1>4. OtherTypes
  BY MovieUploadAssumption DEF OtherTypes
<1> QED
  BY <1>1, <1>2, <1>3, <1>4 DEF IInv, Sessions

\* A request that goes on leaves sessions in order.
LEMMA GoingOn ==
    ASSUME Sessions, NEW s \in Session, NEW x \in Request,
           request' = [request EXCEPT ![s] = x],
           Len(x.dom) <= COMMENTS_MAX, x.ticket \in {NoTicket, ticket[s]},
           x.at = "idle" => x = Idle,
           UNCHANGED <<ticket, opened, spent>>
    PROVE  Sessions'
<1>1. SessionTypes'
  BY DEF Sessions, SessionTypes
<1>2. ASSUME NEW u \in Session PROVE RequestInOrder(u)'
  <2>1. CASE u = s
    <3>1. request'[u] = x
      BY <2>1 DEF Sessions, SessionTypes
    <3> QED
      BY <3>1, <2>1 DEF RequestInOrder
  <2>2. CASE u # s
    <3>1. request'[u] = request[u]
      BY <2>2 DEF Sessions, SessionTypes
    <3> QED
      BY <3>1 DEF RequestInOrder, Sessions
  <2> QED
    BY <2>1, <2>2
<1>3. ASSUME NEW u \in Session PROVE TicketInOrder(u)'
  BY DEF TicketInOrder, Sessions
<1> QED
  BY <1>1, <1>2, <1>3 DEF Sessions

\* The same when only the place changes.
LEMMA Going ==
    ASSUME Sessions, NEW s \in Session, NEW step, GoTo(s, step), step # "idle",
           step \in {"idle", "view", "load", "truncate", "write", "writeGone", "count",
                     "insert", "move", "convert", "thumbnail", "create", "enable"},
           UNCHANGED <<ticket, opened, spent>>
    PROVE  Sessions'
<1> DEFINE x == [request[s] EXCEPT !.at = step]
<1>1. request[s] \in Request /\ RequestInOrder(s)
  BY DEF Sessions, SessionTypes
<1>2. x \in Request /\ x.at = step /\ x.dom = request[s].dom /\ x.ticket = request[s].ticket
  BY <1>1 DEF Request
<1>3. request' = [request EXCEPT ![s] = x]
  BY DEF GoTo
<1>4. Len(x.dom) <= COMMENTS_MAX /\ x.ticket \in {NoTicket, ticket[s]}
  BY <1>1, <1>2 DEF RequestInOrder
<1> HIDE DEF x
<1> QED
  BY <1>2, <1>3, <1>4, GoingOn

\* So does one that ends: its ticket is nobody else's.
LEMMA Ending ==
    ASSUME Sessions, NEW s \in Session, EndSession(s), UNCHANGED opened
    PROVE  Sessions'
<1> DEFINE t == request[s].ticket
<1> USE DEF Sessions
<1>1. request' = [request EXCEPT ![s] = Idle]
  BY DEF EndSession
<1>2. /\ t = NoTicket => ticket' = ticket /\ spent' = spent
      /\ t # NoTicket => ticket' = [ticket EXCEPT ![s] = NoTicket] /\ spent' = spent \cup {t}
  BY DEF EndSession
<1>3. t # NoTicket => /\ t = ticket[s] /\ t \in Ticket
                      /\ t \in 1 .. Len(opened) /\ opened[t] = s
  <2>1. RequestInOrder(s) /\ TicketInOrder(s)
    OBVIOUS
  <2> QED
    BY <2>1 DEF RequestInOrder, TicketInOrder, SessionTypes
<1> HIDE DEF t
<1>4. SessionTypes'
  <2>1. request' \in [Session -> Request]
    BY <1>1, Idleness DEF SessionTypes
  <2>2. ticket' \in [Session -> Ticket \cup {NoTicket}] /\ spent' \subseteq Ticket
    BY <1>2, <1>3 DEF SessionTypes
  <2> QED
    BY <2>1, <2>2 DEF SessionTypes
<1>5. spent' \subseteq 1 .. Len(opened')
  BY <1>2, <1>3
<1>6. ASSUME NEW u \in Session PROVE RequestInOrder(u)' /\ TicketInOrder(u)'
  <2>1. CASE u = s
    <3>1. request'[u] = Idle
      BY <2>1, <1>1 DEF SessionTypes
    <3>2. RequestInOrder(u)'
      BY <3>1, Idleness, MovieUploadAssumption DEF RequestInOrder
    <3>3. CASE t = NoTicket
      BY <3>2, <3>3, <1>2, <2>1 DEF TicketInOrder
    <3>4. CASE t # NoTicket
      <4>1. ticket'[u] = NoTicket
        BY <3>4, <1>2, <2>1 DEF SessionTypes
      <4> QED
        BY <4>1, <3>2 DEF TicketInOrder
    <3> QED
      BY <3>3, <3>4
  <2>2. CASE u # s
    <3>1. request'[u] = request[u] /\ ticket'[u] = ticket[u]
      BY <2>2, <1>1, <1>2 DEF SessionTypes
    <3>2. RequestInOrder(u) /\ TicketInOrder(u)
      OBVIOUS
    <3>3. ticket[u] # NoTicket => ticket[u] # t \/ t = NoTicket
      BY <3>2, <2>2, <1>3 DEF TicketInOrder
    <3>4. ticket[u] # NoTicket => ticket[u] \notin spent'
      BY <3>2, <3>3, <1>2 DEF TicketInOrder
    <3> QED
      BY <3>1, <3>2, <3>4 DEF RequestInOrder, TicketInOrder
  <2> QED
    BY <2>1, <2>2
<1> QED
  BY <1>4, <1>5, <1>6

\* What a request knows is of the right kind.
LEMMA RequestTypes ==
    ASSUME Sessions, NEW s \in Session
    PROVE  /\ request[s] \in Request /\ request[s].id \in Id
           /\ request[s].posts \subseteq Comment /\ request[s].dom \in Seq(Comment)
           /\ Len(request[s].dom) <= COMMENTS_MAX
<1>1. request[s] \in Request /\ RequestInOrder(s)
  BY DEF Sessions, SessionTypes
<1> QED
  BY <1>1 DEF Request, RequestInOrder

LEMMA RowsHaveIds ==
    ASSUME StoreTypes
    PROVE  DOMAIN videos = 1 .. Len(videos) /\ Len(videos) \in Nat /\ DOMAIN videos \subseteq Id
<1>1. videos \in Seq(Video) /\ Len(videos) <= MaxVideo
  BY DEF StoreTypes
<1>2. DOMAIN videos = 1 .. Len(videos) /\ Len(videos) \in Nat
  BY <1>1
<1> QED
  BY <1>1, <1>2, MovieUploadAssumption DEF Id
-----------------------------------------------------------------------------
(* Pages, and what they send.                                              *)

LEMMA OpeningAPage == ASSUME IInv, NEW s \in Session, OpenPage(s) PROVE IInv'
<1> DEFINE n == Len(opened) + 1
<1>1. /\ opened' = Append(opened, s) /\ ticket' = [ticket EXCEPT ![s] = n]
      /\ Len(opened) < MaxTicket /\ request[s].at = "idle"
      /\ UNCHANGED <<request, spent>>
  BY DEF OpenPage, At, history
<1>2. StoreTypes' /\ OtherTypes'
  BY DEF OpenPage, store, history, IInv, StoreTypes, OtherTypes
<1>3. /\ SessionTypes /\ Len(opened) \in Nat
      /\ spent \subseteq 1 .. Len(opened)
  BY DEF IInv, Sessions, SessionTypes
<1>4. /\ opened' \in Seq(Session) /\ Len(opened') = n /\ opened'[n] = s
      /\ \A i \in 1 .. Len(opened) : opened'[i] = opened[i]
  BY <1>1, <1>3 DEF SessionTypes
<1>5. n \in Ticket /\ n # NoTicket /\ n \notin spent /\ n \in 1 .. n /\ Len(opened) < n
  BY <1>1, <1>3, MovieUploadAssumption DEF Ticket, NoTicket
<1> HIDE DEF n
<1>6. SessionTypes'
  <2>1. Len(opened') <= MaxTicket
    BY <1>4, <1>5 DEF Ticket
  <2> QED
    BY <1>1, <1>3, <1>4, <1>5, <2>1 DEF SessionTypes
<1>7. spent' \subseteq 1 .. Len(opened')
  <2>1. n \in Nat
    BY <1>5 DEF Ticket
  <2>2. 1 .. Len(opened) \subseteq 1 .. n
    BY <1>3, <1>5, <2>1
  <2> QED
    BY <1>1, <1>3, <1>4, <2>2
<1>8. ASSUME NEW u \in Session PROVE RequestInOrder(u)' /\ TicketInOrder(u)'
  <2>1. RequestInOrder(u) /\ TicketInOrder(u)
    BY DEF IInv, Sessions
  <2>2. CASE u = s
    <3>1. ticket'[u] = n
      BY <2>2, <1>1, <1>3 DEF SessionTypes
    <3>2. RequestInOrder(u)'
      BY <2>1, <2>2, <1>1, Idleness DEF RequestInOrder
    <3> QED
      BY <3>1, <3>2, <2>2, <1>1, <1>4, <1>5 DEF TicketInOrder
  <2>3. CASE u # s
    <3>1. ticket'[u] = ticket[u]
      BY <2>3, <1>1, <1>3 DEF SessionTypes
    <3>2. RequestInOrder(u)'
      BY <2>1, <3>1, <1>1 DEF RequestInOrder
    <3>3. ticket[u] \in 1 .. Len(opened) => ticket[u] \in 1 .. Len(opened')
      <4>1. n \in Nat
        BY <1>5 DEF Ticket
      <4> QED
        BY <1>3, <1>4, <1>5, <4>1
    <3> QED
      BY <2>1, <3>1, <3>2, <3>3, <1>1, <1>4 DEF TicketInOrder
  <2> QED
    BY <2>2, <2>3
<1> QED
  BY <1>2, <1>6, <1>7, <1>8 DEF IInv, Sessions

LEMMA Playing ==
    ASSUME IInv, NEW s \in Session, NEW id \in DOMAIN videos, NEW t \in DOMAIN opened,
           Play(s, id, t)
    PROVE  IInv'
<1>1. StoreTypes' /\ OtherTypes'
  BY DEF Play, store, history, IInv, StoreTypes, OtherTypes
<1>2. /\ request' = [request EXCEPT ![s] = [Idle EXCEPT !.at = "view", !.id = id, !.ticket = t]]
      /\ UNCHANGED <<ticket, opened, spent>>
      /\ ticket[s] = t
  BY DEF Play, TakesTicket, history
<1>3. id \in Id /\ Sessions /\ t \in Ticket \cup {NoTicket}
  BY <1>2, RowsHaveIds DEF IInv, Sessions, SessionTypes
<1> DEFINE x == [Idle EXCEPT !.at = "view", !.id = id, !.ticket = t]
<1>4. x \in Request /\ x.at = "view" /\ x.ticket = t /\ Len(x.dom) <= COMMENTS_MAX
  <2>1. Idle \in Request
    BY Idleness
  <2>2. x \in Request /\ x.at = "view" /\ x.ticket = t /\ x.dom = Idle.dom
    BY <1>3, <2>1 DEF Request
  <2> QED
    BY <2>2, Idleness, MovieUploadAssumption
<1>5. request' = [request EXCEPT ![s] = x]
  BY <1>2
<1> HIDE DEF x
<1>6. Sessions'
  BY <1>2, <1>3, <1>4, <1>5, GoingOn
<1> QED
  BY <1>1, <1>6 DEF IInv

LEMMA Uploading ==
    ASSUME IInv, NEW s \in Session, NEW t \in DOMAIN opened, NEW isUploaded \in BOOLEAN,
           Upload(s, t, isUploaded)
    PROVE  IInv'
<1>1. StoreTypes' /\ OtherTypes'
  BY DEF Upload, store, IInv, StoreTypes, OtherTypes
<1>2. UNCHANGED opened /\ ticket[s] = t /\ t # NoTicket /\ request[s].at = "idle"
  BY DEF Upload, TakesTicket, At
<1>3. CASE isUploaded
  <2>1. /\ request' = [request EXCEPT ![s] = [Idle EXCEPT !.at = "insert", !.ticket = t]]
        /\ UNCHANGED <<ticket, opened, spent>>
    BY <1>3 DEF Upload
  <2> DEFINE x == [Idle EXCEPT !.at = "insert", !.ticket = t]
  <2>2. Sessions /\ t \in Ticket
    BY <1>2 DEF IInv, Sessions, SessionTypes
  <2>3. x \in Request /\ x.at = "insert" /\ x.ticket = t /\ Len(x.dom) <= COMMENTS_MAX
    <3>1. Idle \in Request
      BY Idleness
    <3>2. x \in Request /\ x.at = "insert" /\ x.ticket = t /\ x.dom = Idle.dom
      BY <2>2, <3>1 DEF Request
    <3> QED
      BY <3>2, Idleness, MovieUploadAssumption
  <2>4. request' = [request EXCEPT ![s] = x]
    BY <2>1
  <2> HIDE DEF x
  <2>5. Sessions'
    BY <1>2, <2>1, <2>2, <2>3, <2>4, GoingOn
  <2> QED
    BY <1>1, <2>5 DEF IInv
<1>4. CASE ~ isUploaded
  \* nobody else has this ticket
  <2>1. /\ ticket' = [ticket EXCEPT ![s] = NoTicket] /\ spent' = spent \cup {t}
        /\ UNCHANGED request
    BY <1>4 DEF Upload
  <2>2. Sessions
    BY DEF IInv
  <2>3. TicketInOrder(s) /\ RequestInOrder(s) /\ SessionTypes
    BY <2>2 DEF Sessions
  <2>4. t \in 1 .. Len(opened) /\ opened[t] = s /\ t \in Ticket
    BY <2>3, <1>2 DEF TicketInOrder, SessionTypes
  <2>5. SessionTypes'
    BY <2>1, <2>3, <2>4, <1>2 DEF SessionTypes
  <2>6. spent' \subseteq 1 .. Len(opened')
    BY <2>1, <2>2, <2>4, <1>2 DEF Sessions
  <2>7. ASSUME NEW u \in Session PROVE RequestInOrder(u)' /\ TicketInOrder(u)'
    <3>1. CASE u = s
      <4>1. ticket'[u] = NoTicket
        BY <3>1, <2>1, <2>3 DEF SessionTypes
      <4>2. request'[u] = Idle
        BY <3>1, <2>1, <2>3, <1>2 DEF RequestInOrder
      <4> QED
        BY <4>1, <4>2, Idleness, MovieUploadAssumption DEF RequestInOrder, TicketInOrder
    <3>2. CASE u # s
      <4>1. ticket'[u] = ticket[u]
        BY <3>2, <2>1
      <4>2. RequestInOrder(u) /\ TicketInOrder(u)
        BY <2>2 DEF Sessions
      <4>3. ticket[u] # NoTicket => ticket[u] # t
        BY <4>2, <3>2, <2>4 DEF TicketInOrder
      <4> QED
        BY <4>1, <4>2, <4>3, <2>1, <1>2 DEF RequestInOrder, TicketInOrder
    <3> QED
      BY <3>1, <3>2
  <2> QED
    BY <1>1, <2>5, <2>6, <2>7 DEF IInv, Sessions
<1> QED
  BY <1>3, <1>4

LEMMA PostingAComment ==
    ASSUME IInv, NEW s \in Session, NEW id \in DOMAIN videos, PostComment(s, id)
    PROVE  IInv'
<1> DEFINE c == [no |-> posted + 1, id |-> id]
<1>1. StoreTypes'
  BY DEF PostComment, store, IInv, StoreTypes
<1>2. id \in Id
  BY RowsHaveIds DEF IInv
<1>3. posted + 1 \in 1 .. MaxComment
  BY MovieUploadAssumption DEF PostComment, IInv, OtherTypes
<1>4. OtherTypes'
  BY <1>3 DEF PostComment, history, IInv, OtherTypes
<1>5. c \in Comment
  BY <1>2, <1>3 DEF Comment
<1>6. /\ request' = [request EXCEPT ![s] = [Idle EXCEPT !.at = "load", !.id = id, !.posts = {c}]]
      /\ UNCHANGED <<ticket, opened, spent>>
  BY DEF PostComment, history
<1> HIDE DEF c
<1> DEFINE x == [Idle EXCEPT !.at = "load", !.id = id, !.posts = {c}]
<1>7. /\ x \in Request /\ x.at = "load" /\ x.ticket = NoTicket
      /\ Len(x.dom) <= COMMENTS_MAX
  <2>1. Idle \in Request /\ Idle.ticket = NoTicket
    BY Idleness
  <2>2. x \in Request /\ x.at = "load" /\ x.ticket = NoTicket /\ x.dom = Idle.dom
    BY <1>2, <1>5, <2>1 DEF Request
  <2> QED
    BY <2>2, Idleness, MovieUploadAssumption
<1>8. request' = [request EXCEPT ![s] = x]
  BY <1>6
<1> HIDE DEF x
<1>9. Sessions'
  BY <1>6, <1>7, <1>8, GoingOn DEF IInv
<1> QED
  BY <1>1, <1>4, <1>9 DEF IInv

LEMMA Dying ==
    ASSUME IInv, NEW s \in Session, NEW stores \in BOOLEAN, Die(s, stores)
    PROVE  IInv'
<1>1. StoreTypes'
  BY DEF Die, store, IInv, StoreTypes
<1>2. OtherTypes'
  <2>1. cut' \subseteq Comment
    BY RequestTypes DEF Die, IInv, OtherTypes
  <2>2. /\ deaths' \in Nat /\ resets' \in Nat /\ deaths' + resets' <= MaxTrouble
    BY MovieUploadAssumption DEF Die, IInv, OtherTypes
  <2>3. ruined' \subseteq Id
    BY RequestTypes DEF Die, IInv, OtherTypes
  <2> QED
    BY <2>1, <2>2, <2>3 DEF Die, IInv, OtherTypes
<1>3. CASE stores
  BY <1>1, <1>2, <1>3, Ending DEF Die, IInv
<1>4. CASE ~ stores
  <2>1. request' = [request EXCEPT ![s] = Idle] /\ UNCHANGED <<ticket, opened, spent>>
    BY <1>4 DEF Die
  <2>2. Len(Idle.dom) <= COMMENTS_MAX /\ Idle.ticket \in {NoTicket, ticket[s]}
    BY Idleness, MovieUploadAssumption
  <2>3. Sessions'
    BY <2>1, <2>2, Idleness, GoingOn DEF IInv
  <2> QED
    BY <1>1, <1>2, <2>3 DEF IInv
<1> QED
  BY <1>3, <1>4
-----------------------------------------------------------------------------
(* The steps of a request.                                                 *)

\* An UPDATE of the videos.
LEMMA Updating ==
    ASSUME StoreTypes, videos' \in [DOMAIN videos -> Video], UNCHANGED <<gone, mp4, file>>
    PROVE  StoreTypes'
<1>1. videos' \in [1 .. Len(videos) -> Video] /\ Len(videos) \in Nat
  BY RowsHaveIds
<1>2. videos' \in Seq(Video) /\ Len(videos') = Len(videos)
  BY <1>1
<1> QED
  BY <1>2 DEF StoreTypes

LEMMA Rows == ASSUME StoreTypes, NEW i \in DOMAIN videos PROVE videos[i] \in Video
  BY DEF StoreTypes

LEMMA Viewing == ASSUME IInv, NEW s \in Session, IncrementView(s) PROVE IInv'
<1>1. OtherTypes'
  BY DEF IncrementView, IInv, OtherTypes
<1>2. Sessions'
  BY Ending DEF IncrementView, IInv
<1>3. videos' \in [DOMAIN videos -> Video]
  <2>1. \A v \in Video : [v EXCEPT !.view = @ + 1] \in Video
    BY DEF Video
  <2> QED
    BY <2>1, Rows DEF IncrementView, IInv
<1>4. StoreTypes'
  BY <1>3, Updating DEF IncrementView, IInv
<1> QED
  BY <1>1, <1>2, <1>4 DEF IInv

LEMMA Counting == ASSUME IInv, NEW s \in Session, IncrementComment_count(s) PROVE IInv'
<1>1. OtherTypes'
  BY DEF IncrementComment_count, IInv, OtherTypes
<1>2. Sessions'
  BY Ending DEF IncrementComment_count, IInv
<1>3. videos' \in [DOMAIN videos -> Video]
  <2>1. \A v \in Video : [v EXCEPT !.comment_count = @ + 1] \in Video
    BY DEF Video
  <2> QED
    BY <2>1, Rows DEF IncrementComment_count, IInv
<1>4. StoreTypes'
  BY <1>3, Updating DEF IncrementComment_count, IInv
<1> QED
  BY <1>1, <1>2, <1>4 DEF IInv

\* The document stays short enough, and its new comment is one.
LEMMA Adding ==
    ASSUME NEW comments \in Seq(Comment), Len(comments) <= COMMENTS_MAX, NEW c \in Comment
    PROVE  Added(comments, c) \in Seq(Comment) /\ Len(Added(comments, c)) <= COMMENTS_MAX
<1> DEFINE n == Len(comments)
           excess == IF n < COMMENTS_MAX THEN 0 ELSE n - COMMENTS_MAX + 1
           kept == SubSeq(comments, excess + 1, n)
<1>1. n \in Nat /\ COMMENTS_MAX \in Nat \ {0}
  BY MovieUploadAssumption
<1>2. excess \in Nat /\ excess <= n /\ n - excess < COMMENTS_MAX
  BY <1>1
<1>3. kept \in Seq(Comment) /\ Len(kept) = n - excess
  <2>1. \A i \in (excess + 1) .. n : comments[i] \in Comment
    BY <1>1, <1>2
  <2> HIDE DEF excess
  <2>2. SubSeq(comments, excess + 1, n) \in Seq(Comment)
    BY <1>1, <1>2, <2>1
  <2>3. Len(SubSeq(comments, excess + 1, n)) = n - excess
    BY <1>1, <1>2
  <2> QED
    BY <2>2, <2>3
<1>4. Added(comments, c) = Append(kept, c)
  BY DEF Added
<1> HIDE DEF kept, excess
<1>5. Append(kept, c) \in Seq(Comment) /\ Len(Append(kept, c)) = Len(kept) + 1
  BY <1>3
<1> QED
  BY <1>1, <1>2, <1>3, <1>4, <1>5

LEMMA Loading == ASSUME IInv, NEW s \in Session, LoadComments(s) PROVE IInv'
<1> DEFINE f == file[request[s].id]
<1>1. StoreTypes' /\ OtherTypes'
  BY DEF LoadComments, store, IInv, StoreTypes, OtherTypes
<1>2. /\ request[s] \in Request /\ request[s].id \in Id /\ request[s].posts \subseteq Comment
      /\ RequestInOrder(s) /\ Sessions
  BY RequestTypes DEF IInv, Sessions
<1>3. f.comments \in Seq(Comment) /\ Len(f.comments) <= COMMENTS_MAX
  BY <1>2 DEF IInv, StoreTypes, File
<1>4. CASE f.is = "text"
  <2>1. PICK c \in request[s].posts :
          request' = [request EXCEPT ![s].at = "truncate", ![s].dom = Added(f.comments, c)]
    BY <1>4 DEF LoadComments
  <2>2. Added(f.comments, c) \in Seq(Comment) /\ Len(Added(f.comments, c)) <= COMMENTS_MAX
    BY <1>2, <1>3, <2>1, Adding
  <2> DEFINE x == [request[s] EXCEPT !.at = "truncate", !.dom = Added(f.comments, c)]
  <2>3. /\ x \in Request /\ x.at = "truncate" /\ Len(x.dom) <= COMMENTS_MAX
        /\ x.ticket \in {NoTicket, ticket[s]}
    BY <1>2, <2>2 DEF Request, RequestInOrder
  <2>4. request' = [request EXCEPT ![s] = x] /\ UNCHANGED <<ticket, opened, spent>>
    BY <1>2, <1>4, <2>1 DEF LoadComments, Sessions, SessionTypes
  <2> HIDE DEF x
  <2>5. Sessions'
    BY <1>2, <2>3, <2>4, GoingOn
  <2> QED
    BY <1>1, <2>5 DEF IInv
<1>5. CASE f.is # "text"
  BY <1>1, <1>2, <1>5, Ending DEF LoadComments, IInv
<1> QED
  BY <1>4, <1>5

LEMMA Truncating == ASSUME IInv, NEW s \in Session, Truncate(s) PROVE IInv'
<1>1. request[s].id \in Id
  BY RequestTypes DEF IInv
<1>2. Unreadable \in File /\ Len(Unreadable.comments) = 0
  BY DEF Unreadable, File
<1>3. StoreTypes'
  BY <1>1, <1>2, MovieUploadAssumption DEF Truncate, IInv, StoreTypes
<1>4. OtherTypes'
  BY DEF Truncate, IInv, OtherTypes
<1>5. Sessions'
  BY Going DEF Truncate, IInv
<1> QED
  BY <1>3, <1>4, <1>5 DEF IInv

LEMMA Writing == ASSUME IInv, NEW s \in Session, Write(s) PROVE IInv'
<1> DEFINE id == request[s].id
<1>1. /\ id \in Id /\ request[s].posts \subseteq Comment
      /\ request[s].dom \in Seq(Comment) /\ Len(request[s].dom) <= COMMENTS_MAX
  BY RequestTypes DEF IInv
<1>2. StoreTypes'
  <2>1. /\ Unreadable \in File /\ Len(Unreadable.comments) <= COMMENTS_MAX
        /\ Text(request[s].dom) \in File /\ Len(Text(request[s].dom).comments) <= COMMENTS_MAX
    <3>1. <<>> \in Seq(Comment) /\ Len(<<>>) = 0
      OBVIOUS
    <3> QED
      BY <1>1, <3>1, MovieUploadAssumption DEF Unreadable, Text, File
  <2>2. PICK f \in {Text(request[s].dom), Unreadable} : file' = [file EXCEPT ![id] = f]
    BY DEF Write
  <2> HIDE DEF id
  <2>3. f \in File /\ Len(f.comments) <= COMMENTS_MAX
    BY <2>1, <2>2
  <2>4. UNCHANGED <<videos, gone, mp4>>
    BY DEF Write
  <2> QED
    BY <1>1, <2>2, <2>3, <2>4 DEF IInv, StoreTypes
<1>3. OtherTypes'
  <2>0. ruined' \subseteq Id
    BY <1>1 DEF Write, IInv, OtherTypes
  <2>1. CASE request[s].posts = {}
    BY <2>0, <2>1 DEF Write, IInv, OtherTypes
  <2>2. CASE request[s].posts # {}
    <3>1. PICK c \in request[s].posts :
            /\ stored' = Append(stored, c)
            /\ overtook' = overtook \cup ({c} \X HasInMemory(Session \ {s}, id))
      BY <2>2 DEF Write
    <3>2. c \in Comment
      BY <1>1
    <3>3. HasInMemory(Session \ {s}, id) \subseteq Comment
      <4>1. \A u \in Session : request[u].posts \subseteq Comment
        BY RequestTypes DEF IInv
      <4> QED
        BY <4>1 DEF HasInMemory
    <3> HIDE DEF id
    <3>4. stored' \in Seq(Comment)
      BY <3>1, <3>2 DEF IInv, OtherTypes
    <3>5. overtook' \subseteq Comment \X Comment
      BY <3>1, <3>2, <3>3 DEF IInv, OtherTypes
    <3> QED
      BY <2>0, <3>4, <3>5 DEF Write, IInv, OtherTypes
  <2> QED
    BY <2>1, <2>2
<1>4. GoTo(s, "enable") \/ GoTo(s, "count")
  BY DEF Write, AfterSave
<1>5. Sessions'
  BY <1>4, Going DEF Write, IInv
<1> QED
  BY <1>2, <1>3, <1>5 DEF IInv

LEMMA WritingWhatIsGone == ASSUME IInv, NEW s \in Session, WriteGone(s) PROVE IInv'
<1>1. StoreTypes' /\ OtherTypes'
  BY DEF WriteGone, store, history, IInv, StoreTypes, OtherTypes
<1>2. GoTo(s, "enable") \/ GoTo(s, "count")
  BY DEF WriteGone, AfterSave
<1>3. Sessions'
  BY <1>2, Going DEF WriteGone, history, IInv
<1> QED
  BY <1>1, <1>3 DEF IInv

LEMMA AddingAVideo == ASSUME IInv, NEW s \in Session, AddVideo(s) PROVE IInv'
<1> DEFINE v == [shown |-> FALSE, view |-> 0, comment_count |-> 0]
           x == [request[s] EXCEPT !.at = "move", !.id = Len(videos) + 1]
<1>1. videos' = Append(videos, v) /\ Len(videos) < MaxVideo /\ UNCHANGED <<gone, mp4, file>>
  BY DEF AddVideo
<1>2. v \in Video
  BY DEF Video
<1>3. videos \in Seq(Video) /\ Len(videos) \in Nat
  BY DEF IInv, StoreTypes
<1> HIDE DEF v
<1>4. videos' \in Seq(Video) /\ Len(videos') = Len(videos) + 1
  BY <1>1, <1>2, <1>3
<1>5. StoreTypes'
  BY <1>1, <1>3, <1>4, MovieUploadAssumption DEF IInv, StoreTypes
<1>6. OtherTypes'
  BY DEF AddVideo, history, IInv, OtherTypes
<1>7. Len(videos) + 1 \in Id
  BY <1>1, <1>3, MovieUploadAssumption DEF Id
<1>8. request[s] \in Request /\ RequestInOrder(s) /\ Sessions
  BY DEF IInv, Sessions, SessionTypes
<1>9. /\ x \in Request /\ x.at = "move" /\ Len(x.dom) <= COMMENTS_MAX
      /\ x.ticket \in {NoTicket, ticket[s]}
  BY <1>7, <1>8 DEF Request, RequestInOrder
<1>10. request' = [request EXCEPT ![s] = x] /\ UNCHANGED <<ticket, opened, spent>>
  BY <1>8 DEF AddVideo, history, Sessions, SessionTypes
<1> HIDE DEF x
<1>11. Sessions'
  BY <1>8, <1>9, <1>10, GoingOn
<1> QED
  BY <1>5, <1>6, <1>11 DEF IInv

LEMMA Moving == ASSUME IInv, NEW s \in Session, MoveUploadedFile(s) PROVE IInv'
<1>1. StoreTypes' /\ OtherTypes'
  BY DEF MoveUploadedFile, store, IInv, StoreTypes, OtherTypes
<1>2. Sessions'
  BY Going, Ending DEF MoveUploadedFile, IInv
<1> QED
  BY <1>1, <1>2 DEF IInv

LEMMA Converting == ASSUME IInv, NEW s \in Session, Convert(s) PROVE IInv'
<1>1. request[s].id \in Id
  BY RequestTypes DEF IInv
<1>2. StoreTypes' /\ OtherTypes'
  BY <1>1 DEF Convert, IInv, StoreTypes, OtherTypes
<1>3. \/ GoTo(s, "thumbnail") /\ UNCHANGED <<ticket, spent>>
      \/ EndSession(s)
  BY DEF Convert
<1>4. Sessions'
  BY <1>3, Going, Ending DEF Convert, IInv
<1> QED
  BY <1>2, <1>4 DEF IInv

LEMMA MakingAThumbnail == ASSUME IInv, NEW s \in Session, MakeThumbnail(s) PROVE IInv'
<1>1. StoreTypes' /\ OtherTypes'
  BY DEF MakeThumbnail, store, IInv, StoreTypes, OtherTypes
<1>2. Sessions'
  BY Going, Ending DEF MakeThumbnail, IInv
<1> QED
  BY <1>1, <1>2 DEF IInv

LEMMA Creating == ASSUME IInv, NEW s \in Session, CreateComments(s) PROVE IInv'
<1>1. StoreTypes' /\ OtherTypes'
  BY DEF CreateComments, store, history, IInv, StoreTypes, OtherTypes
<1>2. GoTo(s, "truncate") \/ GoTo(s, "enable")
  BY DEF CreateComments
<1>3. Sessions'
  BY <1>2, Going DEF CreateComments, history, IInv
<1> QED
  BY <1>1, <1>3 DEF IInv

LEMMA Enabling == ASSUME IInv, NEW s \in Session, Enable(s) PROVE IInv'
<1>1. OtherTypes'
  <2>1. request[s].id \in Id
    BY RequestTypes DEF IInv
  <2> QED
    BY <2>1 DEF Enable, IInv, OtherTypes
<1>2. Sessions'
  BY Ending DEF Enable, IInv
<1>3. videos' \in [DOMAIN videos -> Video]
  <2>1. \A v \in Video : [v EXCEPT !.shown = TRUE] \in Video
    BY DEF Video
  <2> QED
    BY <2>1, Rows DEF Enable, IInv
<1>4. StoreTypes'
  BY <1>3, Updating DEF Enable, IInv
<1> QED
  BY <1>1, <1>2, <1>4 DEF IInv
-----------------------------------------------------------------------------
(* Deleting all.                                                           *)

LEMMA DeletingRows == ASSUME IInv, DeleteRows PROVE IInv'
<1>1. Len(videos) \in Nat
  BY DEF IInv, StoreTypes
<1>2. StoreTypes'
  BY <1>1 DEF DeleteRows, IInv, StoreTypes
<1>3. OtherTypes'
  BY MovieUploadAssumption DEF DeleteRows, IInv, OtherTypes
<1>4. Sessions'
  BY DEF DeleteRows, IInv, Sessions, SessionTypes, RequestInOrder, TicketInOrder
<1> QED
  BY <1>2, <1>3, <1>4 DEF IInv

LEMMA RestartingIds == ASSUME IInv, RestartIds PROVE IInv'
<1>1. StoreTypes'
  <2>1. CASE gone = Len(videos)
    <3>1. <<>> \in Seq(Video) /\ Len(<<>>) = 0
      OBVIOUS
    <3>2. videos' = <<>> /\ gone' = 0
      BY <2>1 DEF RestartIds
    <3> QED
      BY <3>1, <3>2, MovieUploadAssumption DEF RestartIds, IInv, StoreTypes
  <2>2. CASE gone # Len(videos)
    BY <2>2 DEF RestartIds, IInv, StoreTypes
  <2> QED
    BY <2>1, <2>2
<1>2. OtherTypes'
  BY DEF RestartIds, history, IInv, OtherTypes
<1>3. Sessions'
  BY DEF RestartIds, history, IInv, Sessions, SessionTypes, RequestInOrder, TicketInOrder
<1> QED
  BY <1>1, <1>2, <1>3 DEF IInv

LEMMA RemovingVideos == ASSUME IInv, RemoveVideos PROVE IInv'
<1>1. StoreTypes' /\ OtherTypes'
  BY DEF RemoveVideos, history, IInv, StoreTypes, OtherTypes
<1>2. Sessions'
  BY DEF RemoveVideos, history, IInv, Sessions, SessionTypes, RequestInOrder, TicketInOrder
<1> QED
  BY <1>1, <1>2 DEF IInv

LEMMA RemovingComments == ASSUME IInv, RemoveComments PROVE IInv'
<1>1. StoreTypes'
  <2>1. None \in File /\ Len(None.comments) = 0
    BY DEF None, File
  <2> QED
    BY <2>1, MovieUploadAssumption DEF RemoveComments, IInv, StoreTypes
<1>2. OtherTypes'
  BY DEF RemoveComments, history, IInv, OtherTypes
<1>3. UNCHANGED <<ticket, opened, spent>>
  BY DEF RemoveComments, history
<1>4. ASSUME NEW s \in Session
      PROVE  /\ request'[s] \in Request /\ request'[s].dom = request[s].dom
             /\ request'[s].ticket = request[s].ticket
             /\ request'[s].at = "idle" => request'[s] = request[s] /\ request[s].at = "idle"
  <2>1. request[s] \in Request
    BY DEF IInv, Sessions, SessionTypes
  <2>2. CASE At(s, "write")
    <3>1. request'[s] = [request[s] EXCEPT !.at = "writeGone"]
      BY <2>2 DEF RemoveComments
    <3> QED
      BY <2>1, <3>1 DEF Request
  <2>3. CASE ~ At(s, "write")
    <3>1. request'[s] = request[s]
      BY <2>3 DEF RemoveComments
    <3> QED
      BY <2>1, <3>1
  <2> QED
    BY <2>2, <2>3
<1>5. request' \in [Session -> Request]
  BY <1>4 DEF RemoveComments
<1>6. Sessions'
  BY <1>3, <1>4, <1>5
  DEF IInv, Sessions, SessionTypes, RequestInOrder, TicketInOrder
<1> QED
  BY <1>1, <1>2, <1>6 DEF IInv
-----------------------------------------------------------------------------
(* All together.                                                           *)

LEMMA Stepping == ASSUME IInv, NEW s \in Session, Step(s) PROVE IInv'
  BY Viewing, Loading, Truncating, Writing, WritingWhatIsGone, Counting, AddingAVideo,
     Moving, Converting, MakingAThumbnail, Creating, Enabling
  DEF Step

LEMMA Invariance == Spec => []IInv
<1>1. IInv /\ [Next]_vars => IInv'
  <2> SUFFICES ASSUME IInv, [Next]_vars PROVE IInv'
    OBVIOUS
  <2>1. ASSUME NEW s \in Session, OpenPage(s) \/ Step(s) PROVE IInv'
    BY <2>1, OpeningAPage, Stepping
  <2>2. ASSUME NEW s \in Session, NEW t \in DOMAIN opened, NEW id \in DOMAIN videos,
               Play(s, id, t)
        PROVE  IInv'
    BY <2>2, Playing
  <2>3. ASSUME NEW s \in Session, NEW t \in DOMAIN opened, NEW isUploaded \in BOOLEAN,
               Upload(s, t, isUploaded)
        PROVE  IInv'
    BY <2>3, Uploading
  <2>4. ASSUME NEW s \in Session, NEW id \in DOMAIN videos, PostComment(s, id) PROVE IInv'
    BY <2>4, PostingAComment
  <2>5. ASSUME NEW s \in Session, NEW stores \in BOOLEAN, Die(s, stores) PROVE IInv'
    BY <2>5, Dying
  <2>6. CASE DeleteRows \/ RestartIds \/ RemoveVideos \/ RemoveComments
    BY <2>6, DeletingRows, RestartingIds, RemovingVideos, RemovingComments
  <2>7. CASE UNCHANGED vars
    BY <2>7 DEF vars, store, history, IInv, StoreTypes, OtherTypes, Sessions, SessionTypes,
                RequestInOrder, TicketInOrder
  <2> QED
    BY <2>1, <2>2, <2>3, <2>4, <2>5, <2>6, <2>7 DEF Next
<1> QED
  BY Starting, <1>1, PTL DEF Spec

\* Everything has its type, and a comment file never has more than
\* COMMENTS_MAX comments (Comments::add, comments.class.php l.42).
THEOREM MovieUploadTypeCorrect == Spec => []TypeOK
<1>1. IInv => TypeOK
  BY DEF IInv, StoreTypes, Sessions, SessionTypes, OtherTypes, TypeOK
<1> QED
  BY Invariance, <1>1, PTL

\* The ticket of a page is good for one view or one upload (thread.php l.34,
\* l.61), in any number of sessions with any number of pages open.
THEOREM TicketsAreSpentOnce == Spec => []TicketIsSpentOnce
<1>1. IInv => TicketIsSpentOnce
  <2> SUFFICES ASSUME IInv, NEW s \in Session
               PROVE  ticket[s] \notin spent /\ request[s].ticket \notin spent
    BY DEF TicketIsSpentOnce
  <2>1. NoTicket \notin spent
    BY MovieUploadAssumption DEF IInv, Sessions, SessionTypes, Ticket, NoTicket
  <2>2. ticket[s] \notin spent
    BY <2>1 DEF IInv, Sessions, TicketInOrder
  <2> QED
    BY <2>1, <2>2 DEF IInv, Sessions, RequestInOrder
<1> QED
  BY Invariance, <1>1, PTL
-----------------------------------------------------------------------------
(* The order of the comments.                                              *)

\* The comments are some of those saved, in that order, and all for id.
Within(comments, saves, id) ==
    \E place \in [DOMAIN comments -> DOMAIN saves] :
        /\ \A i \in DOMAIN comments : saves[place[i]] = comments[i] /\ comments[i].id = id
        /\ \A i, j \in DOMAIN comments : i < j => place[i] < place[j]

\* s posts at most one comment, which is for the video it is about.
PostsInOrder(s) ==
    /\ \A c \in request[s].posts : c.id = request[s].id /\ c.no <= posted
    /\ \A c, d \in request[s].posts : c = d
    /\ request[s].at \in {"load", "count"} => request[s].posts # {}
    /\ \/ request[s].at \in {"load", "truncate", "write", "writeGone", "count"}
       \/ request[s].posts = {}
    /\ request[s].posts = {} => request[s].dom = <<>>

\* No comment is posted by two, or after its request was cut short.
PostsAreNew ==
    /\ \A s, u \in Session : s # u => request[s].posts \cap request[u].posts = {}
    /\ \A s \in Session : request[s].posts \cap cut = {}
    /\ \A c \in cut : c.no <= posted

Posts == PostsAreNew /\ \A s \in Session : PostsInOrder(s)

\* s has a document in memory, with its comment.
Saves(s) == request[s].at \in {"truncate", "write"} /\ request[s].posts # {}

\* In it the comment of s comes after comments that were saved.
DomInOrder(s) ==
    Saves(s) => \E kept \in Seq(Comment), c \in request[s].posts :
        request[s].dom = Append(kept, c) /\ Within(kept, stored, request[s].id)

OInv ==
    /\ Posts
    /\ \A id \in Id : Within(file[id].comments, stored, id)
    /\ \A s \in Session : DomInOrder(s)

LEMMA WithinNothing == ASSUME NEW saves, NEW id PROVE Within(<<>>, saves, id)
<1>1. [i \in {} |-> 0] \in [DOMAIN <<>> -> DOMAIN saves]
  OBVIOUS
<1> QED
  BY <1>1 DEF Within

\* What is saved after them does no harm,
LEMMA WithinMore ==
    ASSUME NEW comments, NEW saves \in Seq(Comment), NEW c \in Comment, NEW id,
           Within(comments, saves, id)
    PROVE  Within(comments, Append(saves, c), id)
<1> DEFINE more == Append(saves, c)
<1>1. PICK place \in [DOMAIN comments -> DOMAIN saves] :
        /\ \A i \in DOMAIN comments : saves[place[i]] = comments[i] /\ comments[i].id = id
        /\ \A i, j \in DOMAIN comments : i < j => place[i] < place[j]
  BY DEF Within
<1>2. /\ DOMAIN saves = 1 .. Len(saves) /\ DOMAIN more = 1 .. Len(saves) + 1
      /\ Len(saves) \in Nat
      /\ \A i \in 1 .. Len(saves) : more[i] = saves[i]
  OBVIOUS
<1> HIDE DEF more
<1>3. place \in [DOMAIN comments -> DOMAIN more]
  BY <1>1, <1>2
<1>4. \A i \in DOMAIN comments : more[place[i]] = comments[i] /\ comments[i].id = id
  BY <1>1, <1>2
<1>5. Within(comments, more, id)
  BY <1>1, <1>3, <1>4 DEF Within
<1> QED
  BY <1>5 DEF more

\* and can be added to them;
LEMMA WithinNext ==
    ASSUME NEW comments \in Seq(Comment), NEW saves \in Seq(Comment), NEW c \in Comment,
           Within(comments, saves, c.id)
    PROVE  Within(Append(comments, c), Append(saves, c), c.id)
<1> DEFINE more == Append(saves, c)
           grown == Append(comments, c)
           n == Len(comments) + 1
           m == Len(saves) + 1
<1>1. PICK place \in [DOMAIN comments -> DOMAIN saves] :
        /\ \A i \in DOMAIN comments : saves[place[i]] = comments[i] /\ comments[i].id = c.id
        /\ \A i, j \in DOMAIN comments : i < j => place[i] < place[j]
  BY DEF Within
<1>2. /\ DOMAIN saves = 1 .. Len(saves) /\ DOMAIN more = 1 .. m /\ m \in Nat
      /\ \A i \in 1 .. Len(saves) : more[i] = saves[i] /\ i < m /\ i \in 1 .. m /\ i \in Nat
      /\ more[m] = c /\ m \in 1 .. m
  OBVIOUS
<1>3. /\ DOMAIN comments = 1 .. Len(comments) /\ DOMAIN grown = 1 .. n /\ n \in Nat
      /\ \A i \in 1 .. Len(comments) : grown[i] = comments[i] /\ i # n /\ i < n
      /\ \A i \in 1 .. n : i # n => i \in 1 .. Len(comments)
      /\ \A i \in 1 .. n : ~ n < i
      /\ grown[n] = c
  OBVIOUS
<1> DEFINE to == [i \in 1 .. n |-> IF i = n THEN m ELSE place[i]]
<1> HIDE DEF more, grown, n, m
<1>4. /\ to \in [DOMAIN grown -> DOMAIN more]
      /\ to[n] = m /\ \A i \in 1 .. Len(comments) : to[i] = place[i]
  <2>1. n \in 1 .. n /\ 1 .. Len(comments) \subseteq 1 .. n
    BY <1>3 DEF n
  <2> QED
    BY <1>1, <1>2, <1>3, <2>1
<1> HIDE DEF to
<1>5. \A i \in DOMAIN grown : more[to[i]] = grown[i] /\ grown[i].id = c.id
  BY <1>1, <1>2, <1>3, <1>4
<1>6. ASSUME NEW i \in DOMAIN grown, NEW j \in DOMAIN grown, i < j PROVE to[i] < to[j]
  <2>1. i \in 1 .. Len(comments)
    BY <1>3, <1>6
  <2>2. CASE j = n
    BY <1>1, <1>2, <1>3, <1>4, <2>1, <2>2
  <2>3. CASE j # n
    BY <1>1, <1>3, <1>4, <1>6, <2>1, <2>3
  <2> QED
    BY <2>2, <2>3
<1>7. Within(grown, more, c.id)
  BY <1>4, <1>5, <1>6 DEF Within
<1> QED
  BY <1>7 DEF grown, more

\* and the oldest may go.
LEMMA WithinLast ==
    ASSUME NEW comments \in Seq(Comment), NEW saves, NEW id, Within(comments, saves, id),
           NEW k \in Nat, k <= Len(comments)
    PROVE  /\ SubSeq(comments, k + 1, Len(comments)) \in Seq(Comment)
           /\ Len(SubSeq(comments, k + 1, Len(comments))) = Len(comments) - k
           /\ Within(SubSeq(comments, k + 1, Len(comments)), saves, id)
<1> DEFINE rest == SubSeq(comments, k + 1, Len(comments))
           n == Len(comments) - k
<1>1. /\ rest \in Seq(Comment) /\ DOMAIN rest = 1 .. n /\ n \in Nat /\ Len(rest) = n
      /\ \A i \in 1 .. n : /\ rest[i] = comments[i + k] /\ i + k \in DOMAIN comments
                           /\ i \in Nat
  <2>1. \A i \in (k + 1) .. Len(comments) : comments[i] \in Comment
    OBVIOUS
  <2>2. rest \in Seq(Comment)
    BY <2>1
  <2>3. n \in Nat /\ Len(rest) = n
    OBVIOUS
  <2>4. \A i \in 1 .. n : rest[i] = comments[i + k] /\ i + k \in DOMAIN comments
    OBVIOUS
  <2> HIDE DEF rest
  <2> QED
    BY <2>2, <2>3, <2>4
<1>2. PICK place \in [DOMAIN comments -> DOMAIN saves] :
        /\ \A i \in DOMAIN comments : saves[place[i]] = comments[i] /\ comments[i].id = id
        /\ \A i, j \in DOMAIN comments : i < j => place[i] < place[j]
  BY DEF Within
<1> DEFINE to == [i \in 1 .. n |-> place[i + k]]
<1> HIDE DEF rest, n
<1>3. to \in [DOMAIN rest -> DOMAIN saves] /\ \A i \in 1 .. n : to[i] = place[i + k]
  BY <1>1, <1>2
<1> HIDE DEF to
<1>4. \A i \in DOMAIN rest : saves[to[i]] = rest[i] /\ rest[i].id = id
  BY <1>1, <1>2, <1>3
<1>5. ASSUME NEW i \in DOMAIN rest, NEW j \in DOMAIN rest, i < j PROVE to[i] < to[j]
  <2>1. i \in Nat /\ j \in Nat /\ i + k < j + k
    BY <1>1, <1>5
  <2> QED
    BY <1>1, <1>2, <1>3, <2>1
<1>6. Within(rest, saves, id)
  BY <1>3, <1>4, <1>5 DEF Within
<1> QED
  BY <1>1, <1>6 DEF rest, n

\* Request s becomes y, which posts nothing new.
Becomes(s, y) ==
    /\ request' = [request EXCEPT ![s] = y]
    /\ y \in Request
    /\ y.posts \subseteq request[s].posts
    /\ y.posts # {} => y.id = request[s].id
    /\ y.at \in {"load", "count"} => y.posts # {}
    /\ y.at \in {"load", "truncate", "write", "writeGone", "count"} \/ y.posts = {}
    /\ y.posts = {} => y.dom = <<>>
    /\ UNCHANGED posted

\* What it posted is cut short only if it does not go on.
CutsOwn(s, y) == cut' = cut \/ (cut' = cut \cup request[s].posts /\ y.posts = {})

\* No document is made, and none is written.
Plain(s, y) ==
    /\ Becomes(s, y)
    /\ CutsOwn(s, y)
    /\ y.at \in {"truncate", "write"} /\ y.posts # {} => Saves(s) /\ y.dom = request[s].dom
    /\ \A id \in Id : file'[id] = file[id] \/ file'[id].comments = <<>>
    /\ UNCHANGED stored

LEMMA Ends ==
    ASSUME NEW s \in Session, request' = [request EXCEPT ![s] = Idle], UNCHANGED posted
    PROVE  Becomes(s, Idle) /\ Idle.posts = {} /\ Idle.at = "idle"
  BY Idleness DEF Becomes, Idle

LEMMA GoesOn ==
    ASSUME Sessions, Posts, NEW s \in Session, NEW step, GoTo(s, step), UNCHANGED posted,
           step \in {"truncate", "write", "count", "convert", "thumbnail", "create", "enable",
                     "writeGone"},
           step = "count" => request[s].posts # {},
           step \in {"truncate", "write", "writeGone", "count"} \/ request[s].posts = {}
    PROVE  \E y \in Request :
              /\ Becomes(s, y) /\ y.at = step
              /\ y.id = request[s].id /\ y.posts = request[s].posts /\ y.dom = request[s].dom
              /\ y.ticket = request[s].ticket
<1> DEFINE y == [request[s] EXCEPT !.at = step]
<1>1. request[s] \in Request /\ request \in [Session -> Request] /\ PostsInOrder(s)
  BY DEF Sessions, SessionTypes, Posts
<1>2. /\ y \in Request /\ y.at = step
      /\ y.id = request[s].id /\ y.posts = request[s].posts /\ y.dom = request[s].dom
      /\ y.ticket = request[s].ticket
  BY <1>1 DEF Request
<1>3. request' = [request EXCEPT ![s] = y]
  BY <1>1 DEF GoTo
<1> HIDE DEF y
<1>4. Becomes(s, y)
  BY <1>1, <1>2, <1>3 DEF Becomes, PostsInOrder
<1> QED
  BY <1>2, <1>4

LEMMA PostsStay ==
    ASSUME Sessions, Posts, NEW s \in Session, NEW y, Becomes(s, y), CutsOwn(s, y)
    PROVE  Posts'
<1>1. /\ request'[s] = y /\ \A u \in Session : u # s => request'[u] = request[u]
      /\ \A u \in Session : request'[u].posts \subseteq request[u].posts
  BY DEF Becomes, Sessions, SessionTypes
<1>2. \A u \in Session : PostsInOrder(u) /\ request[u].posts \cap cut = {}
  BY DEF Posts, PostsAreNew
<1>3. ASSUME NEW u \in Session PROVE PostsInOrder(u)'
  <2>1. CASE u # s
    BY <1>1, <1>2, <2>1 DEF PostsInOrder, Becomes
  <2>2. CASE u = s
    <3>1. /\ \A c \in y.posts : c.id = y.id /\ c.no <= posted
          /\ \A c, d \in y.posts : c = d
      BY <1>2, <2>2 DEF PostsInOrder, Becomes
    <3> QED
      BY <1>1, <2>2, <3>1 DEF PostsInOrder, Becomes
  <2> QED
    BY <2>1, <2>2
<1>4. \A u, v \in Session : u # v => request'[u].posts \cap request'[v].posts = {}
  BY <1>1 DEF Posts, PostsAreNew
<1>5. \A u \in Session : request'[u].posts \cap cut' = {}
  BY <1>1, <1>2, <1>4 DEF CutsOwn, Posts, PostsAreNew
<1>6. \A c \in cut' : c.no <= posted'
  BY <1>2 DEF CutsOwn, Becomes, Posts, PostsAreNew, PostsInOrder
<1> QED
  BY <1>3, <1>4, <1>5, <1>6 DEF Posts, PostsAreNew

LEMMA PlainSteps ==
    ASSUME IInv, OInv, NEW s \in Session, NEW y, Plain(s, y)
    PROVE  OInv'
<1>1. Posts'
  BY PostsStay DEF IInv, OInv, Plain
<1>2. ASSUME NEW id \in Id PROVE Within(file'[id].comments, stored', id)
  BY WithinNothing DEF OInv, Plain
<1>3. ASSUME NEW u \in Session PROVE DomInOrder(u)'
  <2>1. request'[s] = y /\ \A v \in Session : v # s => request'[v] = request[v]
    BY DEF Plain, Becomes, IInv, Sessions, SessionTypes
  <2>2. DomInOrder(u) /\ UNCHANGED stored
    BY DEF OInv, Plain
  <2>3. CASE u # s
    BY <2>1, <2>2, <2>3 DEF DomInOrder, Saves
  <2>4. CASE u = s
    <3> SUFFICES ASSUME Saves(u)'
                 PROVE  \E kept \in Seq(Comment), c \in y.posts :
                          y.dom = Append(kept, c) /\ Within(kept, stored, y.id)
      BY <2>1, <2>2, <2>4 DEF DomInOrder
    <3>1. y.posts # {} /\ Saves(s) /\ y.dom = request[s].dom /\ y.id = request[s].id
      BY <2>1, <2>4 DEF Saves, Plain, Becomes
    <3>2. PICK kept \in Seq(Comment), c \in request[s].posts :
            request[s].dom = Append(kept, c) /\ Within(kept, stored, request[s].id)
      BY <2>2, <2>4, <3>1 DEF DomInOrder
    <3>3. c \in y.posts
      BY <3>1 DEF OInv, Posts, PostsInOrder, Plain, Becomes
    <3> QED
      BY <3>1, <3>2, <3>3
  <2> QED
    BY <2>3, <2>4
<1> QED
  BY <1>1, <1>2, <1>3 DEF OInv

\* The requests that end, and those that go on without a document.
LEMMA PlainEnds ==
    ASSUME IInv, OInv, NEW s \in Session,
           \/ IncrementView(s) \/ IncrementComment_count(s) \/ Enable(s)
           \/ \E stores \in BOOLEAN : Die(s, stores)
           \/ LoadComments(s) /\ EndSession(s)
           \/ MoveUploadedFile(s) /\ EndSession(s)
           \/ Convert(s) /\ EndSession(s)
           \/ MakeThumbnail(s) /\ EndSession(s)
    PROVE  Plain(s, Idle)
<1>1. request' = [request EXCEPT ![s] = Idle] /\ UNCHANGED <<posted, file, stored>>
  BY DEF IncrementView, IncrementComment_count, Enable, Die, LoadComments, MoveUploadedFile,
         Convert, MakeThumbnail, EndSession, store
<1>2. cut' = cut \/ cut' = cut \cup request[s].posts
  BY DEF IncrementView, IncrementComment_count, Enable, Die, LoadComments, MoveUploadedFile,
         Convert, MakeThumbnail
<1> QED
  BY <1>1, <1>2, Ends DEF Plain, CutsOwn

LEMMA PlainGoing ==
    ASSUME IInv, OInv, NEW s \in Session, NEW step, GoTo(s, step),
           \/ Truncate(s)
           \/ Write(s) /\ request[s].posts = {}
           \/ WriteGone(s) \/ CreateComments(s)
           \/ MoveUploadedFile(s) /\ step = "convert"
           \/ Convert(s) /\ step = "thumbnail"
           \/ MakeThumbnail(s) /\ step = "create"
    PROVE  \E y \in Request : /\ Plain(s, y) /\ y.at = request'[s].at /\ y.id = request[s].id
                              /\ y.posts = request[s].posts /\ y.dom = request[s].dom
<1>1. request[s] \in Request /\ request \in [Session -> Request] /\ PostsInOrder(s)
  BY DEF IInv, Sessions, SessionTypes, OInv, Posts
<1>2. request'[s] = [request[s] EXCEPT !.at = step] /\ request'[s].at = step
  BY <1>1 DEF GoTo, Request
<1>3. /\ step \in {"truncate", "write", "count", "convert", "thumbnail", "create", "enable"}
      /\ step = "count" => request[s].posts # {}
      /\ step \in {"truncate", "write", "count"} \/ request[s].posts = {}
  <2>1. CASE Truncate(s)
    <3>1. step = "write"
      BY <1>1, <1>2, <2>1 DEF Truncate, GoTo, Request
    <3> QED
      BY <3>1
  <2>2. CASE (Write(s) /\ request[s].posts = {}) \/ WriteGone(s)
    <3>1. step = AfterSave(s)
      BY <1>1, <1>2, <2>2 DEF Write, WriteGone, GoTo, Request
    <3> QED
      BY <3>1 DEF AfterSave
  <2>3. CASE CreateComments(s)
    <3>1. step \in {"truncate", "enable"}
      BY <1>1, <1>2, <2>3 DEF CreateComments, GoTo, Request
    <3> QED
      BY <1>1, <2>3, <3>1 DEF CreateComments, At, PostsInOrder
  <2>4. CASE \/ MoveUploadedFile(s) /\ step = "convert"
             \/ Convert(s) /\ step = "thumbnail"
             \/ MakeThumbnail(s) /\ step = "create"
    BY <1>1, <2>4 DEF MoveUploadedFile, Convert, MakeThumbnail, At, PostsInOrder
  <2> QED
    BY <2>1, <2>2, <2>3, <2>4
<1>4. UNCHANGED <<posted, cut, stored>>
  BY DEF Truncate, Write, WriteGone, CreateComments, MoveUploadedFile, Convert,
         MakeThumbnail, history
<1>5. PICK y \in Request :
         /\ Becomes(s, y) /\ y.at = step
         /\ y.id = request[s].id /\ y.posts = request[s].posts /\ y.dom = request[s].dom
         /\ y.ticket = request[s].ticket
  BY <1>3, <1>4, GoesOn DEF IInv, OInv
<1>6. \A id \in Id : file'[id] = file[id] \/ file'[id].comments = <<>>
  <2>1. CASE UNCHANGED file
    BY <2>1
  <2>2. CASE Truncate(s)
    BY <2>2 DEF Truncate, Unreadable, IInv, StoreTypes
  <2>3. CASE Write(s) /\ request[s].posts = {}
    <3>1. request[s].dom = <<>>
      BY <1>1, <2>3 DEF PostsInOrder
    <3>2. Text(request[s].dom).comments = <<>> /\ Unreadable.comments = <<>>
      BY <3>1 DEF Text, Unreadable
    <3>3. PICK f \in {Text(request[s].dom), Unreadable} :
            file' = [file EXCEPT ![request[s].id] = f]
      BY <2>3 DEF Write
    <3> QED
      BY <3>2, <3>3 DEF IInv, StoreTypes
  <2> QED
    BY <2>1, <2>2, <2>3 DEF WriteGone, CreateComments, MoveUploadedFile, Convert,
         MakeThumbnail, store
<1>7. y.at \in {"truncate", "write"} /\ y.posts # {} => Saves(s) /\ y.dom = request[s].dom
  <2> SUFFICES ASSUME y.at \in {"truncate", "write"}, y.posts # {} PROVE Saves(s)
    BY <1>5
  <2>1. request[s].posts # {}
    BY <1>5
  <2>2. ~ WriteGone(s)
    <3>1. WriteGone(s) => request'[s].at = "count"
      BY <1>1, <2>1 DEF WriteGone, GoTo, AfterSave, Request
    <3> QED
      BY <1>2, <1>5, <3>1
  <2>3. request[s].at \notin {"create", "move", "convert", "thumbnail"}
    BY <1>1, <2>1 DEF PostsInOrder
  <2>4. Truncate(s)
    BY <2>1, <2>2, <2>3 DEF CreateComments, MoveUploadedFile, Convert, MakeThumbnail, At
  <2> QED
    BY <2>1, <2>4 DEF Truncate, At, Saves
<1>8. CutsOwn(s, y) /\ Becomes(s, y) /\ UNCHANGED stored
  <2>1. cut' = cut /\ stored' = stored
    BY <1>4
  <2>2. CutsOwn(s, y)
    BY <2>1 DEF CutsOwn
  <2>3. Becomes(s, y)
    BY <1>5
  <2> QED
    BY <2>1, <2>2, <2>3
<1>9. Plain(s, y)
  BY <1>6, <1>7, <1>8 DEF Plain
<1> QED
  BY <1>2, <1>5, <1>9

\* A request that begins without a comment, or is given its new video's id.
LEMMA PlainBeginning ==
    ASSUME IInv, OInv, NEW s \in Session,
           \/ \E t \in DOMAIN opened, id \in DOMAIN videos : Play(s, id, t)
           \/ \E t \in DOMAIN opened : Upload(s, t, TRUE)
           \/ AddVideo(s)
    PROVE  \E y \in Request : /\ Plain(s, y) /\ y.at \in {"view", "insert", "move"}
                              /\ y.posts = {} /\ y.dom = <<>>
                              /\ AddVideo(s) => y.at = "move" /\ y.id = Len(videos) + 1
                              /\ ~ AddVideo(s) => y.at # "move"
<1> DEFINE y == request'[s]
<1>1. /\ request[s] \in Request /\ request \in [Session -> Request] /\ PostsInOrder(s)
      /\ request'[s] \in Request
  <2>1. IInv'
    BY Playing, Uploading, AddingAVideo
  <2> QED
    BY <2>1 DEF IInv, Sessions, SessionTypes, OInv, Posts
<1>2. /\ Idle \in Request /\ Idle.posts = {} /\ Idle.dom = <<>>
  BY Idleness DEF Idle
<1>3. /\ y.at \in {"view", "insert", "move"} /\ y.posts = {} /\ y.dom = <<>>
      /\ AddVideo(s) => y.at = "move" /\ y.id = Len(videos) + 1
      /\ ~ AddVideo(s) => y.at # "move"
      /\ request' = [request EXCEPT ![s] = y]
  <2>1. CASE AddVideo(s)
    <3>1. /\ request' = [request EXCEPT ![s].at = "move", ![s].id = Len(videos) + 1]
          /\ request[s].at = "insert"
      BY <2>1 DEF AddVideo, At
    <3>2. request[s].posts = {} /\ request[s].dom = <<>>
      BY <1>1, <3>1 DEF PostsInOrder
    <3>3. request'[s] = [request[s] EXCEPT !.at = "move", !.id = Len(videos) + 1]
      BY <1>1, <3>1
    <3> QED
      BY <1>1, <2>1, <3>1, <3>2, <3>3 DEF Request
  <2>2. CASE \E t \in DOMAIN opened, id \in DOMAIN videos : Play(s, id, t)
    <3>1. PICK t \in DOMAIN opened, id \in DOMAIN videos :
            request' = [request EXCEPT ![s] = [Idle EXCEPT !.at = "view", !.id = id,
                                                           !.ticket = t]]
      BY <2>2 DEF Play
    <3>2. request'[s] = [Idle EXCEPT !.at = "view", !.id = id, !.ticket = t]
      BY <1>1, <3>1
    <3>3. ~ AddVideo(s)
      BY <2>2 DEF Play, AddVideo, At
    <3>4. y.at = "view" /\ y.posts = {} /\ y.dom = <<>>
      BY <1>2, <3>2 DEF Request
    <3> QED
      BY <1>1, <3>1, <3>3, <3>4
  <2>3. CASE \E t \in DOMAIN opened : Upload(s, t, TRUE)
    <3>1. PICK t \in DOMAIN opened :
            request' = [request EXCEPT ![s] = [Idle EXCEPT !.at = "insert", !.ticket = t]]
      BY <2>3 DEF Upload
    <3>2. request'[s] = [Idle EXCEPT !.at = "insert", !.ticket = t]
      BY <1>1, <3>1
    <3>3. ~ AddVideo(s)
      BY <2>3 DEF Upload, AddVideo, At
    <3>4. y.at = "insert" /\ y.posts = {} /\ y.dom = <<>>
      BY <1>2, <3>2 DEF Request
    <3> QED
      BY <1>1, <3>1, <3>3, <3>4
  <2> QED
    BY <2>1, <2>2, <2>3
<1>4. UNCHANGED <<posted, cut, stored, file>>
  BY DEF Play, Upload, AddVideo, store, history
<1> HIDE DEF y
<1>5. Plain(s, y)
  BY <1>1, <1>3, <1>4 DEF y, Plain, CutsOwn, Becomes
<1> QED
  BY <1>1, <1>3, <1>5 DEF y

\* The comment that is posted is new.
LEMMA CommentIsNew ==
    ASSUME IInv, OInv, NEW s \in Session, NEW id \in DOMAIN videos, PostComment(s, id)
    PROVE  /\ OInv'
           /\ \E c \in Comment :
                /\ c.id = id /\ c.no = posted + 1
                /\ request'[s].at = "load" /\ request'[s].id = id
                /\ request'[s].posts = {c} /\ request'[s].dom = <<>>
                /\ \A u \in Session : u # s => request'[u] = request[u]
<1> DEFINE c == [no |-> posted + 1, id |-> id]
<1>1. /\ posted' = posted + 1 /\ UNCHANGED <<cut, stored, file>>
      /\ request' = [request EXCEPT ![s] = [Idle EXCEPT !.at = "load", !.id = id, !.posts = {c}]]
  BY DEF PostComment, store, history
<1>2. id \in Id /\ posted \in Nat /\ posted + 1 \in 1 .. MaxComment
  BY RowsHaveIds, MovieUploadAssumption DEF PostComment, IInv, OtherTypes
<1>3. c \in Comment /\ c.id = id /\ c.no = posted + 1
  BY <1>2 DEF Comment
<1> HIDE DEF c
<1>4. /\ Idle \in Request /\ Idle.dom = <<>>
  BY Idleness DEF Idle
<1>5. request'[s] = [Idle EXCEPT !.at = "load", !.id = id, !.posts = {c}]
  BY <1>1 DEF IInv, Sessions, SessionTypes
<1>6. /\ request'[s].at = "load" /\ request'[s].id = id
      /\ request'[s].posts = {c} /\ request'[s].dom = <<>>
  BY <1>4, <1>5 DEF Request
<1>7. \A u \in Session : u # s => request'[u] = request[u]
  BY <1>1 DEF IInv, Sessions, SessionTypes
<1>8. \A u \in Session : /\ request[u].posts \subseteq Comment
                         /\ \A d \in request[u].posts : d.no <= posted /\ d # c
  <2>1. \A u \in Session : /\ request[u].posts \subseteq Comment
                           /\ \A d \in request[u].posts : d.no <= posted
    BY RequestTypes DEF IInv, OInv, Posts, PostsInOrder
  <2> QED
    BY <1>2, <1>3, <2>1
<1>9. cut \subseteq Comment /\ \A d \in cut : d.no <= posted /\ d # c
  BY <1>2, <1>3 DEF IInv, OtherTypes, OInv, Posts, PostsAreNew
<1>10. \A d \in Comment : d.no <= posted => d.no <= posted'
  BY <1>1, <1>2 DEF Comment
<1>11. ASSUME NEW u \in Session PROVE PostsInOrder(u)'
  <2>1. CASE u = s
    <3>1. c.no <= posted'
      BY <1>1, <1>2, <1>3
    <3> QED
      BY <1>3, <1>6, <2>1, <3>1 DEF PostsInOrder
  <2>2. CASE u # s
    BY <1>7, <1>8, <1>10, <2>2 DEF OInv, Posts, PostsInOrder
  <2> QED
    BY <2>1, <2>2
<1>12. PostsAreNew'
  <2>1. \A u, v \in Session : u # v => request'[u].posts \cap request'[v].posts = {}
    <3> SUFFICES ASSUME NEW u \in Session, NEW v \in Session, u # v
                 PROVE  request'[u].posts \cap request'[v].posts = {}
      OBVIOUS
    <3>1. request[u].posts \cap request[v].posts = {}
      BY DEF OInv, Posts, PostsAreNew
    <3> QED
      BY <1>6, <1>7, <1>8, <3>1
  <2>2. \A u \in Session : request'[u].posts \cap cut' = {}
    BY <1>1, <1>6, <1>7, <1>9 DEF OInv, Posts, PostsAreNew
  <2>3. \A d \in cut' : d.no <= posted'
    BY <1>1, <1>9, <1>10
  <2> QED
    BY <2>1, <2>2, <2>3 DEF PostsAreNew
<1>13. \A u \in Session : DomInOrder(u)'
  BY <1>1, <1>6, <1>7 DEF OInv, DomInOrder, Saves
<1>14. \A i \in Id : Within(file'[i].comments, stored', i)
  BY <1>1 DEF OInv
<1> QED
  BY <1>3, <1>6, <1>7, <1>11, <1>12, <1>13, <1>14 DEF OInv, Posts

\* A document is made of the file: the comments that stay, and the new one.
LEMMA DocumentIsMade ==
    ASSUME IInv, OInv, NEW s \in Session, LoadComments(s), ~ EndSession(s)
    PROVE  \E y \in Request, kept \in Seq(Comment), c \in request[s].posts, k \in Nat :
              LET comments == file[request[s].id].comments IN
              /\ Becomes(s, y) /\ y.at = "truncate" /\ y.id = request[s].id
              /\ y.posts = request[s].posts /\ y.dom = Append(kept, c)
              /\ file[request[s].id].is = "text"
              /\ k <= Len(comments) /\ kept = SubSeq(comments, k + 1, Len(comments))
              /\ Len(kept) = Len(comments) - k
              /\ k = 0 \/ Len(kept) + 1 = COMMENTS_MAX
              /\ k = 0 => Len(comments) < COMMENTS_MAX
              /\ Within(kept, stored, y.id)
<1> DEFINE f == file[request[s].id]
           n == Len(f.comments)
           k == IF n < COMMENTS_MAX THEN 0 ELSE n - COMMENTS_MAX + 1
           kept == SubSeq(f.comments, k + 1, n)
<1>1. /\ request[s] \in Request /\ request \in [Session -> Request] /\ PostsInOrder(s)
      /\ request[s].id \in Id /\ request[s].posts \subseteq Comment
  BY RequestTypes DEF IInv, Sessions, SessionTypes, OInv, Posts
<1>2. f.comments \in Seq(Comment) /\ Len(f.comments) <= COMMENTS_MAX
  BY <1>1 DEF IInv, StoreTypes, File
<1>3. f.is = "text"
  BY DEF LoadComments
<1>4. PICK c \in request[s].posts :
        request' = [request EXCEPT ![s].at = "truncate", ![s].dom = Added(f.comments, c)]
  BY <1>3 DEF LoadComments
<1>5. /\ k \in Nat /\ k <= n /\ n \in Nat
      /\ k = 0 \/ n - k + 1 = COMMENTS_MAX
      /\ k = 0 => n < COMMENTS_MAX
  <2>1. n \in Nat /\ n <= COMMENTS_MAX
    BY <1>2
  <2>2. COMMENTS_MAX \in Nat \ {0}
    BY MovieUploadAssumption
  <2> HIDE DEF n
  <2> QED
    BY <2>1, <2>2
<1>6. Added(f.comments, c) = Append(kept, c)
  BY DEF Added
<1>7. Within(f.comments, stored, request[s].id)
  BY <1>1 DEF OInv
<1> HIDE DEF k, f
<1>8. kept \in Seq(Comment) /\ Len(kept) = n - k /\ Within(kept, stored, request[s].id)
  BY <1>2, <1>5, <1>7, WithinLast
<1>9. c \in Comment /\ Append(kept, c) \in Seq(Comment)
  BY <1>1, <1>8
<1> HIDE DEF n
<1> DEFINE y == [request[s] EXCEPT !.at = "truncate", !.dom = Append(kept, c)]
<1>10. /\ y \in Request /\ y.at = "truncate" /\ y.id = request[s].id
       /\ y.posts = request[s].posts /\ y.dom = Append(kept, c)
  <2> HIDE DEF kept
  <2> QED
    BY <1>1, <1>9 DEF Request
<1>11. request' = [request EXCEPT ![s] = y] /\ UNCHANGED posted
  BY <1>1, <1>4, <1>6 DEF LoadComments
<1> HIDE DEF y
<1>12. Becomes(s, y)
  BY <1>1, <1>4, <1>10, <1>11 DEF Becomes, PostsInOrder
<1>13. /\ file[request[s].id].is = "text"
       /\ k <= Len(file[request[s].id].comments)
       /\ kept = SubSeq(file[request[s].id].comments, k + 1, Len(file[request[s].id].comments))
       /\ Len(kept) = Len(file[request[s].id].comments) - k
       /\ k = 0 \/ Len(kept) + 1 = COMMENTS_MAX
       /\ k = 0 => Len(file[request[s].id].comments) < COMMENTS_MAX
  BY <1>3, <1>5, <1>8 DEF f, n
<1> HIDE DEF kept
<1> QED
  BY <1>5, <1>8, <1>10, <1>12, <1>13

LEMMA LoadingKeepsOrder ==
    ASSUME IInv, OInv, NEW s \in Session, LoadComments(s), ~ EndSession(s)
    PROVE  OInv'
<1>1. PICK y \in Request, kept \in Seq(Comment), c \in request[s].posts :
         /\ Becomes(s, y) /\ y.id = request[s].id
         /\ y.posts = request[s].posts /\ y.dom = Append(kept, c)
         /\ Within(kept, stored, y.id)
  BY DocumentIsMade
<1>2. UNCHANGED <<file, stored, cut>>
  BY DEF LoadComments, store
<1>3. Posts'
  BY <1>1, <1>2, PostsStay DEF CutsOwn, IInv, OInv
<1>4. request'[s] = y /\ \A u \in Session : u # s => request'[u] = request[u]
  BY <1>1 DEF Becomes, IInv, Sessions, SessionTypes
<1>5. ASSUME NEW u \in Session PROVE DomInOrder(u)'
  <2>1. CASE u = s
    BY <1>1, <1>2, <1>4, <2>1 DEF DomInOrder
  <2>2. CASE u # s
    BY <1>2, <1>4, <2>2 DEF OInv, DomInOrder, Saves
  <2> QED
    BY <2>1, <2>2
<1> QED
  BY <1>2, <1>3, <1>5 DEF OInv

\* What is in the file is what was in memory, if it can be read at all, and
\* the comment is the last that was saved.
LEMMA CommentIsSaved ==
    ASSUME IInv, OInv, NEW s \in Session, Write(s), request[s].posts # {}
    PROVE  \E y \in Request, kept \in Seq(Comment), c \in Comment :
              /\ Becomes(s, y) /\ y.at = "count" /\ y.id = request[s].id
              /\ y.posts = {c} /\ request[s].posts = {c} /\ c.id = request[s].id
              /\ request[s].dom = Append(kept, c) /\ Within(kept, stored, c.id)
              /\ stored' = Append(stored, c)
              /\ overtook' = overtook \cup ({c} \X HasInMemory(Session \ {s}, c.id))
              /\ \E f \in {Text(request[s].dom), Unreadable} : file' = [file EXCEPT ![c.id] = f]
              /\ UNCHANGED cut
<1>1. PostsInOrder(s) /\ DomInOrder(s) /\ request[s].posts \subseteq Comment
  BY RequestTypes DEF IInv, OInv, Posts
<1>2. PICK c \in request[s].posts :
        /\ stored' = Append(stored, c)
        /\ overtook' = overtook \cup ({c} \X HasInMemory(Session \ {s}, request[s].id))
  BY DEF Write
<1>3. c \in Comment /\ request[s].posts = {c} /\ c.id = request[s].id
  BY <1>1, <1>2 DEF PostsInOrder
<1>4. Saves(s)
  BY DEF Write, At, Saves
<1>5. PICK kept \in Seq(Comment), d \in request[s].posts :
        request[s].dom = Append(kept, d) /\ Within(kept, stored, request[s].id)
  BY <1>1, <1>4 DEF DomInOrder
<1>6. d = c
  BY <1>3, <1>5
<1>7. GoTo(s, "count") /\ UNCHANGED <<posted, cut>>
  BY DEF Write, AfterSave
<1>8. PICK y \in Request :
        Becomes(s, y) /\ y.at = "count" /\ y.id = request[s].id /\ y.posts = request[s].posts
  BY <1>7, GoesOn DEF IInv, OInv
<1>9. PICK f \in {Text(request[s].dom), Unreadable} : file' = [file EXCEPT ![c.id] = f]
  BY <1>3 DEF Write
<1> QED
  BY <1>2, <1>3, <1>5, <1>6, <1>7, <1>8, <1>9

LEMMA SavingKeepsOrder ==
    ASSUME IInv, OInv, NEW s \in Session, Write(s), request[s].posts # {}
    PROVE  OInv'
<1>1. PICK y \in Request, kept \in Seq(Comment), c \in Comment :
         /\ Becomes(s, y) /\ y.at = "count"
         /\ c.id = request[s].id
         /\ request[s].dom = Append(kept, c) /\ Within(kept, stored, c.id)
         /\ stored' = Append(stored, c)
         /\ \E f \in {Text(request[s].dom), Unreadable} : file' = [file EXCEPT ![c.id] = f]
         /\ UNCHANGED cut
  BY CommentIsSaved
<1>2. Posts'
  BY <1>1, PostsStay DEF CutsOwn, IInv, OInv
<1>3. stored \in Seq(Comment) /\ c.id \in Id
  BY <1>1, RequestTypes DEF IInv, OtherTypes
<1>4. request'[s] = y /\ \A u \in Session : u # s => request'[u] = request[u]
  BY <1>1 DEF Becomes, IInv, Sessions, SessionTypes
<1>5. ASSUME NEW u \in Session PROVE DomInOrder(u)'
  <2>1. CASE u = s
    BY <1>1, <1>4, <2>1 DEF DomInOrder, Saves
  <2>2. CASE u # s
    <3> SUFFICES ASSUME Saves(u)
                 PROVE  \E k \in Seq(Comment), d \in request[u].posts :
                          request[u].dom = Append(k, d) /\ Within(k, stored', request[u].id)
      BY <1>4, <2>2 DEF DomInOrder, Saves
    <3>1. PICK k \in Seq(Comment), d \in request[u].posts :
            request[u].dom = Append(k, d) /\ Within(k, stored, request[u].id)
      BY DEF OInv, DomInOrder
    <3>2. Within(k, stored', request[u].id)
      BY <1>1, <1>3, <3>1, WithinMore
    <3> QED
      BY <3>1, <3>2
  <2> QED
    BY <2>1, <2>2
<1>6. ASSUME NEW id \in Id PROVE Within(file'[id].comments, stored', id)
  <2>1. CASE file'[id] = file[id]
    <3>1. Within(file[id].comments, stored, id)
      BY DEF OInv
    <3> QED
      BY <1>1, <1>3, <2>1, <3>1, WithinMore
  <2>2. CASE file'[id] # file[id]
    <3>1. id = c.id /\ file'[id] \in {Text(request[s].dom), Unreadable}
      BY <1>1, <1>3, <2>2 DEF IInv, StoreTypes
    <3>2. CASE file'[id] = Unreadable
      BY <3>2, WithinNothing DEF Unreadable
    <3>3. CASE file'[id] = Text(request[s].dom)
      <4>1. Within(request[s].dom, stored', c.id)
        BY <1>1, <1>3, WithinNext
      <4> QED
        BY <3>1, <3>3, <4>1 DEF Text
    <3> QED
      BY <3>1, <3>2, <3>3
  <2> QED
    BY <2>1, <2>2
<1> QED
  BY <1>2, <1>5, <1>6 DEF OInv

\* What does not touch requests and comments does no harm.
LEMMA UntouchedKeepsOrder ==
    ASSUME OInv, UNCHANGED <<request, file, posted, stored, cut>>
    PROVE  OInv'
  BY DEF OInv, Posts, PostsInOrder, PostsAreNew, DomInOrder, Saves

LEMMA RemovingKeepsOrder == ASSUME IInv, OInv, RemoveComments PROVE OInv'
<1>1. UNCHANGED <<posted, stored, cut>> /\ file' = [id \in Id |-> None]
  BY DEF RemoveComments, history
<1>2. ASSUME NEW s \in Session
      PROVE  /\ request'[s].id = request[s].id /\ request'[s].posts = request[s].posts
             /\ request'[s].dom = request[s].dom
             /\ \/ request'[s].at = request[s].at
                \/ request'[s].at = "writeGone" /\ request[s].at = "write"
  <2>1. request[s] \in Request
    BY DEF IInv, Sessions, SessionTypes
  <2>2. CASE At(s, "write")
    <3>1. request'[s] = [request[s] EXCEPT !.at = "writeGone"]
      BY <2>2 DEF RemoveComments
    <3> QED
      BY <2>1, <2>2, <3>1 DEF Request, At
  <2>3. CASE ~ At(s, "write")
    BY <2>3 DEF RemoveComments
  <2> QED
    BY <2>2, <2>3
<1>3. \A s \in Session : PostsInOrder(s)'
  BY <1>1, <1>2 DEF OInv, Posts, PostsInOrder
<1>4. PostsAreNew'
  BY <1>1, <1>2 DEF OInv, Posts, PostsAreNew
<1>5. \A s \in Session : DomInOrder(s)'
  BY <1>1, <1>2 DEF OInv, DomInOrder, Saves
<1>6. \A id \in Id : Within(file'[id].comments, stored', id)
  BY <1>1, WithinNothing DEF None
<1> QED
  BY <1>3, <1>4, <1>5, <1>6 DEF OInv, Posts

LEMMA StepsKeepOrder == ASSUME IInv, OInv, NEW s \in Session, Step(s) PROVE OInv'
<1>1. CASE LoadComments(s) /\ ~ EndSession(s)
  BY <1>1, LoadingKeepsOrder
<1>2. CASE Write(s) /\ request[s].posts # {}
  BY <1>2, SavingKeepsOrder
<1>3. CASE \/ IncrementView(s) \/ IncrementComment_count(s) \/ Enable(s)
           \/ LoadComments(s) /\ EndSession(s)
           \/ MoveUploadedFile(s) /\ EndSession(s)
           \/ Convert(s) /\ EndSession(s)
           \/ MakeThumbnail(s) /\ EndSession(s)
  BY <1>3, PlainEnds, PlainSteps
<1>4. ASSUME NEW step, GoTo(s, step),
             \/ Truncate(s)
             \/ Write(s) /\ request[s].posts = {}
             \/ WriteGone(s) \/ CreateComments(s)
             \/ MoveUploadedFile(s) /\ step = "convert"
             \/ Convert(s) /\ step = "thumbnail"
             \/ MakeThumbnail(s) /\ step = "create"
      PROVE  OInv'
  BY <1>4, PlainGoing, PlainSteps
<1>5. CASE AddVideo(s)
  BY <1>5, PlainBeginning, PlainSteps
<1>6. /\ Truncate(s) => GoTo(s, "write")
      /\ Write(s) \/ WriteGone(s) => GoTo(s, AfterSave(s))
      /\ CreateComments(s) =>
            GoTo(s, IF file[request[s].id] = None THEN "truncate" ELSE "enable")
      /\ MoveUploadedFile(s) => EndSession(s) \/ GoTo(s, "convert")
      /\ Convert(s) => EndSession(s) \/ GoTo(s, "thumbnail")
      /\ MakeThumbnail(s) => EndSession(s) \/ GoTo(s, "create")
  BY DEF Truncate, Write, WriteGone, CreateComments, MoveUploadedFile, Convert, MakeThumbnail
<1> QED
  BY <1>1, <1>2, <1>3, <1>4, <1>5, <1>6 DEF Step

LEMMA OrderInvariance == Spec => []OInv
<1>1. Init => OInv
  <2> SUFFICES ASSUME Init PROVE OInv
    OBVIOUS
  <2>1. /\ Idle.at = "idle" /\ Idle.posts = {} /\ Idle.dom = <<>> /\ None.comments = <<>>
    BY DEF Idle, None
  <2>2. Posts
    BY <2>1 DEF Init, Posts, PostsInOrder, PostsAreNew
  <2>3. \A s \in Session : DomInOrder(s)
    BY <2>1 DEF Init, DomInOrder, Saves
  <2>4. \A id \in Id : Within(file[id].comments, stored, id)
    BY <2>1, WithinNothing DEF Init
  <2> QED
    BY <2>2, <2>3, <2>4 DEF OInv
<1>2. IInv /\ OInv /\ [Next]_vars => OInv'
  <2> SUFFICES ASSUME IInv, OInv, [Next]_vars PROVE OInv'
    OBVIOUS
  <2>1. ASSUME NEW s \in Session, OpenPage(s) PROVE OInv'
    BY <2>1, UntouchedKeepsOrder DEF OpenPage, store, history
  <2>2. ASSUME NEW s \in Session, Step(s) PROVE OInv'
    BY <2>2, StepsKeepOrder
  <2>3. ASSUME NEW s \in Session, NEW t \in DOMAIN opened, NEW id \in DOMAIN videos,
               Play(s, id, t)
        PROVE  OInv'
    BY <2>3, PlainBeginning, PlainSteps
  <2>4. ASSUME NEW s \in Session, NEW t \in DOMAIN opened, NEW isUploaded \in BOOLEAN,
               Upload(s, t, isUploaded)
        PROVE  OInv'
    <3>1. CASE isUploaded = TRUE
      BY <2>4, <3>1, PlainBeginning, PlainSteps
    <3>2. CASE isUploaded = FALSE
      BY <2>4, <3>2, UntouchedKeepsOrder DEF Upload, store
    <3> QED
      BY <3>1, <3>2
  <2>5. ASSUME NEW s \in Session, NEW id \in DOMAIN videos, PostComment(s, id) PROVE OInv'
    BY <2>5, CommentIsNew
  <2>6. ASSUME NEW s \in Session, NEW stores \in BOOLEAN, Die(s, stores) PROVE OInv'
    BY <2>6, PlainEnds, PlainSteps
  <2>7. CASE DeleteRows \/ RestartIds \/ RemoveVideos
    BY <2>7, UntouchedKeepsOrder DEF DeleteRows, RestartIds, RemoveVideos, history
  <2>8. CASE RemoveComments
    BY <2>8, RemovingKeepsOrder
  <2>9. CASE UNCHANGED vars
    BY <2>9, UntouchedKeepsOrder DEF vars, store, history
  <2> QED
    BY <2>1, <2>2, <2>3, <2>4, <2>5, <2>6, <2>7, <2>8, <2>9 DEF Next
<1> QED
  BY Invariance, <1>1, <1>2, PTL DEF Spec

\* The comments of a file are in the order in which they were saved, none
\* twice (Comments::add), whoever has overwritten whom and whatever has been
\* deleted in between; and all are for its video until all is deleted, after
\* which an id is that of another video (deleteVideoAll).
THEOREM CommentsAreInOrder == Spec => []CommentsKeepTheirOrder
<1>1. OInv => CommentsKeepTheirOrder
  <2> SUFFICES ASSUME OInv, NEW id \in Id
               PROVE  LET f == file[id].comments IN
                      /\ \E place \in [DOMAIN f -> DOMAIN stored] :
                           /\ \A i \in DOMAIN f : stored[place[i]] = f[i]
                           /\ \A i, j \in DOMAIN f : i < j => place[i] < place[j]
                      /\ resets = 0 => \A i \in DOMAIN f : f[i].id = id
    BY DEF CommentsKeepTheirOrder
  <2> DEFINE f == file[id].comments
  <2>1. PICK place \in [DOMAIN f -> DOMAIN stored] :
          /\ \A i \in DOMAIN f : stored[place[i]] = f[i] /\ f[i].id = id
          /\ \A i, j \in DOMAIN f : i < j => place[i] < place[j]
    BY DEF OInv, Within
  <2> QED
    BY <2>1
<1> QED
  BY OrderInvariance, <1>1, PTL
-----------------------------------------------------------------------------
(* The videos, until all is deleted.                                       *)

\* s has put a row there, and has not answered yet.
UploadsAt(at, posts) ==
    \/ at \in {"move", "convert", "thumbnail", "create", "enable"}
    \/ at \in {"truncate", "write"} /\ posts = {}

Uploads(s) == UploadsAt(request[s].at, request[s].posts)

\* The video of s is its own, and nobody has commented on it before there was
\* a comment file.
OwnVideo(s) ==
    LET id == request[s].id IN
    /\ id \in DOMAIN videos
    /\ \A u \in Session : u # s /\ Uploads(u) => request[u].id # id
    /\ request[s].at # "enable" =>
         /\ \A u \in Session : Saves(u) => request[u].id # id
         /\ \A i \in DOMAIN stored : stored[i].id # id

\* How far a request with this place and this id has come with its files.
FilesAt(at, id, movies, files) ==
    /\ at \in {"thumbnail", "create", "truncate", "write", "enable"} => id \in movies
    /\ at \in {"move", "convert", "thumbnail", "create", "truncate"} => files[id] = None
    /\ at = "write" => files[id] = Unreadable
    /\ at = "enable" => files[id] # None

RequestsHaveVideos ==
    \A s \in Session :
        /\ request[s].at # "writeGone"
        /\ request[s].posts # {} => request[s].id \in DOMAIN videos
        /\ Uploads(s) => OwnVideo(s) /\ FilesAt(request[s].at, request[s].id, mp4, file)

Told ==
    \A id \in told : id \in DOMAIN videos /\ videos[id].shown /\ id \in mp4 /\ file[id] # None

VideosInOrder ==
    /\ RequestsHaveVideos
    /\ \A i \in DOMAIN stored : stored[i].id \in DOMAIN videos
    /\ \A id \in Id \ DOMAIN videos : file[id] = None
    /\ Told

VInv ==
    /\ reset # {} => resets > 0
    /\ resets = 0 => VideosInOrder

\* What a step of s, which becomes y, may do to files and videos.
VideosGrow(s) ==
    /\ DOMAIN videos' = DOMAIN videos
    /\ \A i \in DOMAIN videos : videos[i].shown => videos'[i].shown
    /\ mp4 \subseteq mp4'

FilesOfOwn(s) ==
    \A id \in Id : \/ file'[id] = file[id]
                   \/ id = request[s].id /\ (Uploads(s) \/ Saves(s)) /\ file'[id] # None

SavesOwn(s) ==
    \A i \in DOMAIN stored' : \/ i \in DOMAIN stored /\ stored'[i] = stored[i]
                              \/ Saves(s) /\ stored'[i].id = request[s].id

TellsRight ==
    \A id \in told' : \/ id \in told
                      \/ /\ id \in DOMAIN videos /\ videos'[id].shown
                         /\ id \in mp4 /\ file[id] # None

GoesOnUploading(s, y) ==
    UploadsAt(y.at, y.posts) =>
        /\ Uploads(s) /\ y.id = request[s].id
        /\ y.at # "enable" => request[s].at # "enable"
        /\ FilesAt(y.at, y.id, mp4', file')

LoadsOrSaves(s, y) ==
    y.at \in {"truncate", "write"} /\ y.posts # {} =>
        /\ y.id = request[s].id
        /\ Saves(s) \/ file[request[s].id].is = "text"

LEMMA VideosGoOn ==
    ASSUME IInv, OInv, VideosInOrder, NEW s \in Session, NEW y \in Request, Becomes(s, y),
           y.at # "writeGone", VideosGrow(s), FilesOfOwn(s), SavesOwn(s), TellsRight,
           GoesOnUploading(s, y), LoadsOrSaves(s, y)
    PROVE  VideosInOrder'
<1>1. /\ request'[s] = y /\ \A u \in Session : u # s => request'[u] = request[u]
      /\ \A u \in Session : request[u].id \in Id
  BY RequestTypes DEF Becomes, IInv, Sessions, SessionTypes
<1>2. /\ DOMAIN videos' = DOMAIN videos /\ DOMAIN videos \subseteq Id
      /\ mp4 \subseteq mp4'
  BY RowsHaveIds DEF VideosGrow, IInv
<1>3. /\ s \in Session /\ Uploads(s) => OwnVideo(s)
      /\ \A u \in Session : Uploads(u) => /\ OwnVideo(u)
                                          /\ FilesAt(request[u].at, request[u].id, mp4, file)
      /\ \A u \in Session : request[u].posts # {} => request[u].id \in DOMAIN videos
      /\ \A u \in Session : request[u].at # "writeGone"
  BY DEF VideosInOrder, RequestsHaveVideos
<1>4. Saves(s) => /\ request[s].id \in DOMAIN videos
                  /\ \A u \in Session : Uploads(u) /\ request[u].id = request[s].id
                                          => request[u].at = "enable"
  BY <1>3 DEF Saves, OwnVideo
\* who uploads and who saves
<1>5. /\ \A u \in Session : u # s => (Uploads(u)' <=> Uploads(u)) /\ (Saves(u)' <=> Saves(u))
      /\ Uploads(s)' => Uploads(s) /\ y.id = request[s].id
      /\ Saves(s)' => /\ y.id = request[s].id
                      /\ \A u \in Session : Uploads(u) /\ request[u].id = request[s].id
                                              => request[u].at = "enable"
  <2>1. \A u \in Session : u # s => (Uploads(u)' <=> Uploads(u)) /\ (Saves(u)' <=> Saves(u))
    BY <1>1 DEF Uploads, UploadsAt, Saves
  <2>2. Uploads(s)' => Uploads(s) /\ y.id = request[s].id
    BY <1>1 DEF Uploads, GoesOnUploading
  <2>3. ASSUME Saves(s)', NEW u \in Session, Uploads(u), request[u].id = request[s].id
        PROVE  request[u].at = "enable"
    <3>1. CASE Saves(s)
      BY <1>4, <2>3, <3>1
    <3>2. CASE file[request[s].id].is = "text"
      <4>1. /\ FilesAt(request[u].at, request[s].id, mp4, file)
            /\ UploadsAt(request[u].at, request[u].posts)
        BY <1>3, <2>3 DEF Uploads
      <4>2. file[request[s].id] # None /\ file[request[s].id] # Unreadable
        BY <3>2 DEF None, Unreadable
      <4> QED
        BY <4>1, <4>2 DEF FilesAt, UploadsAt
    <3> QED
      BY <1>1, <2>3, <3>1, <3>2 DEF LoadsOrSaves, Saves
  <2>4. Saves(s)' => y.id = request[s].id
    BY <1>1 DEF Saves, LoadsOrSaves
  <2> QED
    BY <2>1, <2>2, <2>3, <2>4
<1>6. ASSUME NEW u \in Session, Uploads(u)' PROVE OwnVideo(u)'
  <2>1. /\ Uploads(u) /\ request'[u].id = request[u].id
        /\ request'[u].at # "enable" => request[u].at # "enable"
    BY <1>1, <1>5, <1>6 DEF GoesOnUploading, Uploads
  <2>2. OwnVideo(u)
    BY <1>3, <2>1
  <2>3. request'[u].id \in DOMAIN videos'
    BY <1>2, <2>1, <2>2 DEF OwnVideo
  <2>4. ASSUME NEW v \in Session, v # u, Uploads(v)'
        PROVE  request'[v].id # request'[u].id
    <3>1. Uploads(v) /\ request'[v].id = request[v].id
      BY <1>1, <1>5, <2>4
    <3> QED
      BY <2>1, <2>2, <2>4, <3>1 DEF OwnVideo
  <2>5. ASSUME request'[u].at # "enable", NEW v \in Session, Saves(v)'
        PROVE  request'[v].id # request'[u].id
    <3>1. CASE v = s
      BY <1>1, <1>5, <2>1, <2>5, <3>1
    <3>2. CASE v # s
      BY <1>1, <1>5, <2>1, <2>2, <2>5, <3>2 DEF OwnVideo
    <3> QED
      BY <3>1, <3>2
  <2>6. ASSUME request'[u].at # "enable", NEW i \in DOMAIN stored'
        PROVE  stored'[i].id # request'[u].id
    BY <1>4, <2>1, <2>2, <2>6 DEF SavesOwn, OwnVideo
  <2> QED
    BY <2>3, <2>4, <2>5, <2>6 DEF OwnVideo
<1>7. ASSUME NEW u \in Session, Uploads(u)'
      PROVE  FilesAt(request'[u].at, request'[u].id, mp4', file')
  <2>1. CASE u = s
    BY <1>1, <1>7, <2>1 DEF GoesOnUploading, Uploads
  <2>2. CASE u # s
    <3>1. Uploads(u) /\ request'[u] = request[u] /\ request[u].id \in Id
      BY <1>1, <1>5, <1>7, <2>2
    <3>2. FilesAt(request[u].at, request[u].id, mp4, file) /\ OwnVideo(u)
      BY <1>3, <3>1
    <3>3. CASE file'[request[u].id] = file[request[u].id]
      BY <1>2, <3>1, <3>2, <3>3 DEF FilesAt
    <3>4. CASE file'[request[u].id] # file[request[u].id]
      <4>1. /\ request[u].id = request[s].id /\ (Uploads(s) \/ Saves(s))
            /\ file'[request[u].id] # None
        BY <3>1, <3>4 DEF FilesOfOwn
      <4>2. request[u].at = "enable"
        BY <1>4, <2>2, <3>1, <3>2, <4>1 DEF OwnVideo
      <4> QED
        BY <1>2, <3>1, <3>2, <4>1, <4>2 DEF FilesAt
    <3> QED
      BY <3>3, <3>4
  <2> QED
    BY <2>1, <2>2
<1>8. ASSUME NEW u \in Session
      PROVE  /\ request'[u].at # "writeGone"
             /\ request'[u].posts # {} => request'[u].id \in DOMAIN videos'
  BY <1>1, <1>2, <1>3 DEF Becomes
<1>9. RequestsHaveVideos'
  BY <1>6, <1>7, <1>8 DEF RequestsHaveVideos
<1>10. \A i \in DOMAIN stored' : stored'[i].id \in DOMAIN videos'
  BY <1>2, <1>4 DEF VideosInOrder, SavesOwn
<1>11. \A id \in Id \ DOMAIN videos' : file'[id] = None
  <2>1. Uploads(s) \/ Saves(s) => request[s].id \in DOMAIN videos
    BY <1>3, <1>4 DEF OwnVideo
  <2> QED
    BY <1>2, <2>1 DEF VideosInOrder, FilesOfOwn
<1>12. Told'
  <2> SUFFICES ASSUME NEW id \in told'
               PROVE  /\ id \in DOMAIN videos' /\ videos'[id].shown
                      /\ id \in mp4' /\ file'[id] # None
    BY DEF Told
  <2>1. id \in DOMAIN videos /\ videos'[id].shown /\ id \in mp4 /\ file[id] # None
    BY DEF VideosInOrder, Told, TellsRight, VideosGrow
  <2> QED
    BY <1>2, <2>1 DEF FilesOfOwn
<1> QED
  BY <1>9, <1>10, <1>11, <1>12 DEF VideosInOrder

\* What the three UPDATEs do to the rows.
LEMMA UpdatedRows ==
    ASSUME IInv, NEW s \in Session
    PROVE  /\ IncrementView(s) =>
                /\ DOMAIN videos' = DOMAIN videos
                /\ \A i \in DOMAIN videos :
                     /\ videos'[i].shown = videos[i].shown
                     /\ videos'[i].comment_count = videos[i].comment_count
           /\ IncrementComment_count(s) =>
                /\ DOMAIN videos' = DOMAIN videos
                /\ \A i \in DOMAIN videos :
                     /\ videos'[i].shown = videos[i].shown
                     /\ i # request[s].id => videos'[i].comment_count = videos[i].comment_count
                     /\ i = request[s].id =>
                          videos'[i].comment_count = videos[i].comment_count + 1
           /\ Enable(s) =>
                /\ DOMAIN videos' = DOMAIN videos
                /\ \A i \in DOMAIN videos :
                     /\ videos'[i].shown
                     /\ videos'[i].comment_count = videos[i].comment_count
<1>1. \A i \in DOMAIN videos : videos[i] \in Video
  BY Rows DEF IInv
<1>2. \A v \in Video :
        /\ [v EXCEPT !.view = @ + 1].shown = v.shown
        /\ [v EXCEPT !.view = @ + 1].comment_count = v.comment_count
        /\ [v EXCEPT !.comment_count = @ + 1].shown = v.shown
        /\ [v EXCEPT !.comment_count = @ + 1].comment_count = v.comment_count + 1
        /\ [v EXCEPT !.shown = TRUE].shown
        /\ [v EXCEPT !.shown = TRUE].comment_count = v.comment_count
  BY DEF Video
<1>3. CASE IncrementView(s)
  BY <1>1, <1>2, <1>3 DEF IncrementView, IncrementComment_count, Enable, At
<1>4. CASE IncrementComment_count(s)
  BY <1>1, <1>2, <1>4 DEF IncrementView, IncrementComment_count, Enable, At
<1>5. CASE Enable(s)
  BY <1>1, <1>2, <1>5 DEF IncrementView, IncrementComment_count, Enable, At
<1> QED
  BY <1>3, <1>4, <1>5

LEMMA EndingKeepsVideos ==
    ASSUME IInv, OInv, VideosInOrder, NEW s \in Session,
           \/ IncrementView(s) \/ IncrementComment_count(s) \/ Enable(s)
           \/ \E stores \in BOOLEAN : Die(s, stores)
           \/ LoadComments(s) /\ EndSession(s)
           \/ MoveUploadedFile(s) /\ EndSession(s)
           \/ Convert(s) /\ EndSession(s)
           \/ MakeThumbnail(s) /\ EndSession(s)
    PROVE  VideosInOrder'
<1>1. Plain(s, Idle) /\ Idle.at = "idle" /\ Idle \in Request
  BY PlainEnds, Idleness
<1>2. UNCHANGED <<file, stored>>
  BY DEF IncrementView, IncrementComment_count, Enable, Die, LoadComments, MoveUploadedFile,
         Convert, MakeThumbnail, store
<1>3. VideosGrow(s)
  <2>1. CASE UNCHANGED videos
    BY <2>1 DEF VideosGrow, IncrementView, IncrementComment_count, Enable, Die, LoadComments,
         MoveUploadedFile, Convert, MakeThumbnail, store
  <2>2. CASE IncrementView(s) \/ IncrementComment_count(s) \/ Enable(s)
    <3>1. UNCHANGED mp4
      BY <2>2 DEF IncrementView, IncrementComment_count, Enable
    <3> QED
      BY <2>2, <3>1, UpdatedRows DEF VideosGrow
  <2> QED
    BY <2>1, <2>2 DEF Die, LoadComments, MoveUploadedFile, Convert, MakeThumbnail, store
<1>4. TellsRight
  <2>1. CASE Enable(s)
    <3>1. FilesAt("enable", request[s].id, mp4, file)
      BY <2>1 DEF Enable, At, VideosInOrder, RequestsHaveVideos, Uploads, UploadsAt
    <3>2. \A i \in DOMAIN videos : videos'[i].shown
      BY <2>1, UpdatedRows
    <3> QED
      BY <2>1, <3>1, <3>2 DEF Enable, TellsRight, FilesAt
  <2>2. CASE UNCHANGED told
    BY <2>2 DEF TellsRight
  <2> QED
    BY <2>1, <2>2 DEF IncrementView, IncrementComment_count, Die, LoadComments,
         MoveUploadedFile, Convert, MakeThumbnail
<1>5. GoesOnUploading(s, Idle) /\ LoadsOrSaves(s, Idle)
  BY <1>1 DEF GoesOnUploading, LoadsOrSaves, UploadsAt
<1> QED
  BY <1>1, <1>2, <1>3, <1>4, <1>5, VideosGoOn DEF Plain, FilesOfOwn, SavesOwn

LEMMA GoingKeepsVideos ==
    ASSUME IInv, OInv, VideosInOrder, NEW s \in Session, NEW step, GoTo(s, step),
           \/ Truncate(s)
           \/ Write(s) /\ request[s].posts = {}
           \/ CreateComments(s)
           \/ MoveUploadedFile(s) /\ step = "convert"
           \/ Convert(s) /\ step = "thumbnail"
           \/ MakeThumbnail(s) /\ step = "create"
    PROVE  VideosInOrder'
<1> DEFINE id == request[s].id
<1>1. PICK y \in Request : /\ Plain(s, y) /\ y.at = request'[s].at /\ y.id = id
                           /\ y.posts = request[s].posts /\ y.dom = request[s].dom
  BY PlainGoing
<1>2. /\ request[s] \in Request /\ request \in [Session -> Request] /\ PostsInOrder(s)
      /\ file \in [Id -> File] /\ id \in Id
  BY RequestTypes DEF IInv, Sessions, SessionTypes, StoreTypes, OInv, Posts
<1>3. y.at = step
  BY <1>1, <1>2 DEF GoTo, Request
<1>4. UNCHANGED <<videos, stored, told>> /\ mp4 \subseteq mp4'
  BY DEF Truncate, Write, CreateComments, MoveUploadedFile, Convert, MakeThumbnail, store,
         history
<1>5. VideosGrow(s) /\ TellsRight /\ SavesOwn(s)
  BY <1>4 DEF VideosGrow, TellsRight, SavesOwn
<1>6. Uploads(s) => FilesAt(request[s].at, id, mp4, file)
  BY DEF VideosInOrder, RequestsHaveVideos
<1>7. CASE Truncate(s)
  <2>1. /\ request[s].at = "truncate" /\ step = "write"
        /\ file' = [file EXCEPT ![id] = Unreadable] /\ UNCHANGED mp4
    BY <1>2, <1>3, <1>1, <1>7 DEF Truncate, At, GoTo, Request
  <2>2. Unreadable # None
    BY DEF Unreadable, None
  <2>3. Uploads(s) \/ Saves(s)
    BY <2>1 DEF Uploads, UploadsAt, Saves
  <2>4. FilesOfOwn(s)
    BY <1>2, <2>1, <2>2, <2>3 DEF FilesOfOwn
  <2>5. GoesOnUploading(s, y)
    BY <1>1, <1>2, <1>3, <1>6, <2>1, <2>2
    DEF GoesOnUploading, Uploads, UploadsAt, FilesAt
  <2>6. LoadsOrSaves(s, y) /\ y.at # "writeGone"
    BY <1>1, <1>3, <2>1 DEF LoadsOrSaves, Saves
  <2> QED
    BY <1>1, <1>5, <2>4, <2>5, <2>6, VideosGoOn DEF Plain
<1>8. CASE Write(s) /\ request[s].posts = {}
  <2>1. /\ request[s].at = "write" /\ step = "enable" /\ UNCHANGED mp4
    BY <1>1, <1>2, <1>3, <1>8 DEF Write, At, AfterSave, GoTo, Request
  <2>2. Text(request[s].dom) # None /\ Unreadable # None
    BY DEF Text, Unreadable, None
  <2>3. PICK f \in {Text(request[s].dom), Unreadable} : file' = [file EXCEPT ![id] = f]
    BY <1>8 DEF Write
  <2>4. Uploads(s) /\ f # None
    BY <1>8, <2>1, <2>2 DEF Uploads, UploadsAt
  <2>5. FilesOfOwn(s)
    BY <1>2, <2>3, <2>4 DEF FilesOfOwn
  <2>6. GoesOnUploading(s, y)
    BY <1>1, <1>2, <1>3, <1>6, <2>1, <2>3, <2>4 DEF GoesOnUploading, FilesAt
  <2>7. LoadsOrSaves(s, y) /\ y.at # "writeGone"
    BY <1>3, <2>1 DEF LoadsOrSaves
  <2> QED
    BY <1>1, <1>5, <2>5, <2>6, <2>7, VideosGoOn DEF Plain
<1>9. CASE \/ CreateComments(s)
           \/ MoveUploadedFile(s) /\ step = "convert"
           \/ Convert(s) /\ step = "thumbnail"
           \/ MakeThumbnail(s) /\ step = "create"
  <2>1. /\ request[s].at \in {"move", "convert", "thumbnail", "create"}
        /\ Uploads(s) /\ request[s].posts = {} /\ UNCHANGED file
    BY <1>2, <1>9 DEF CreateComments, MoveUploadedFile, Convert, MakeThumbnail, At, store,
         Uploads, UploadsAt, PostsInOrder
  <2>2. \/ step = "convert"
        \/ step = "thumbnail" /\ id \in mp4'
        \/ step = "create" /\ request[s].at = "thumbnail"
        \/ step = "truncate" /\ request[s].at = "create"
        \/ step = "enable" /\ request[s].at = "create" /\ file[id] # None
    <3>1. CASE CreateComments(s)
      BY <1>1, <1>2, <1>3, <3>1 DEF CreateComments, At, GoTo, Request
    <3>2. CASE Convert(s) /\ step = "thumbnail"
      <4>1. request'[s].at = "thumbnail"
        BY <1>1, <1>3, <3>2
      <4>2. EndSession(s) => request'[s].at = "idle"
        BY <1>2, Idleness DEF EndSession
      <4> QED
        BY <3>2, <4>1, <4>2 DEF Convert
    <3> QED
      BY <1>9, <3>1, <3>2 DEF MakeThumbnail, At
  <2>3. GoesOnUploading(s, y)
    BY <1>1, <1>3, <1>4, <1>6, <2>1, <2>2 DEF GoesOnUploading, FilesAt
  <2>4. FilesOfOwn(s) /\ LoadsOrSaves(s, y) /\ y.at # "writeGone"
    BY <1>1, <1>3, <2>1, <2>2 DEF FilesOfOwn, LoadsOrSaves
  <2> QED
    BY <1>1, <1>5, <2>3, <2>4, VideosGoOn DEF Plain
<1> QED
  BY <1>7, <1>8, <1>9

LEMMA CommentingKeepsVideos ==
    ASSUME IInv, OInv, VideosInOrder, NEW s \in Session,
           \/ LoadComments(s) /\ ~ EndSession(s)
           \/ Write(s) /\ request[s].posts # {}
    PROVE  VideosInOrder'
<1>1. UNCHANGED <<videos, mp4, told>>
  BY DEF LoadComments, Write, store
<1>2. VideosGrow(s) /\ TellsRight
  BY <1>1 DEF VideosGrow, TellsRight
<1>3. CASE LoadComments(s) /\ ~ EndSession(s)
  <2>1. PICK y \in Request :
          /\ Becomes(s, y) /\ y.at = "truncate" /\ y.id = request[s].id
          /\ y.posts = request[s].posts /\ file[request[s].id].is = "text"
    BY <1>3, DocumentIsMade
  <2>2. UNCHANGED <<file, stored>> /\ request[s].posts # {}
    BY <1>3 DEF LoadComments, store, At, OInv, Posts, PostsInOrder
  <2>3. FilesOfOwn(s) /\ SavesOwn(s) /\ GoesOnUploading(s, y) /\ LoadsOrSaves(s, y)
    BY <2>1, <2>2 DEF FilesOfOwn, SavesOwn, GoesOnUploading, LoadsOrSaves, UploadsAt
  <2> QED
    BY <1>2, <2>1, <2>3, VideosGoOn
<1>4. CASE Write(s) /\ request[s].posts # {}
  <2>1. PICK y \in Request, c \in Comment :
          /\ Becomes(s, y) /\ y.at = "count" /\ c.id = request[s].id
          /\ stored' = Append(stored, c)
          /\ \E f \in {Text(request[s].dom), Unreadable} : file' = [file EXCEPT ![c.id] = f]
    BY <1>4, CommentIsSaved
  <2>2. Saves(s) /\ stored \in Seq(Comment) /\ file \in [Id -> File] /\ c.id \in Id
    BY <1>4, <2>1, RequestTypes
    DEF Write, At, Saves, IInv, OtherTypes, StoreTypes
  <2>3. FilesOfOwn(s)
    BY <2>1, <2>2 DEF FilesOfOwn, Text, Unreadable, None
  <2>4. SavesOwn(s)
    <3>1. /\ DOMAIN stored' = 1 .. Len(stored) + 1 /\ DOMAIN stored = 1 .. Len(stored)
          /\ Len(stored) \in Nat
          /\ stored'[Len(stored) + 1] = c
          /\ \A i \in 1 .. Len(stored) : stored'[i] = stored[i]
      BY <2>1, <2>2
    <3>2. \A i \in DOMAIN stored' : i \in DOMAIN stored \/ i = Len(stored) + 1
      BY <3>1
    <3> QED
      BY <2>1, <2>2, <3>1, <3>2 DEF SavesOwn
  <2>5. GoesOnUploading(s, y) /\ LoadsOrSaves(s, y)
    BY <2>1 DEF GoesOnUploading, LoadsOrSaves, UploadsAt
  <2> QED
    BY <1>2, <2>1, <2>3, <2>4, <2>5, VideosGoOn
<1> QED
  BY <1>3, <1>4

LEMMA PlayingKeepsVideos ==
    ASSUME IInv, OInv, VideosInOrder, NEW s \in Session, ~ AddVideo(s),
           \/ \E t \in DOMAIN opened, id \in DOMAIN videos : Play(s, id, t)
           \/ \E t \in DOMAIN opened : Upload(s, t, TRUE)
    PROVE  VideosInOrder'
<1>1. PICK y \in Request : /\ Plain(s, y) /\ y.at \in {"view", "insert", "move"}
                           /\ y.posts = {} /\ y.at # "move"
  BY PlainBeginning
<1>2. UNCHANGED <<videos, mp4, file, stored, told>>
  BY DEF Play, Upload, store, history
<1>3. VideosGrow(s) /\ FilesOfOwn(s) /\ SavesOwn(s) /\ TellsRight
  BY <1>2 DEF VideosGrow, FilesOfOwn, SavesOwn, TellsRight
<1>4. GoesOnUploading(s, y) /\ LoadsOrSaves(s, y) /\ y.at # "writeGone"
  BY <1>1 DEF GoesOnUploading, LoadsOrSaves, UploadsAt
<1> QED
  BY <1>1, <1>3, <1>4, VideosGoOn DEF Plain

LEMMA PostingKeepsVideos ==
    ASSUME IInv, OInv, VideosInOrder, NEW s \in Session, NEW id \in DOMAIN videos,
           PostComment(s, id)
    PROVE  VideosInOrder'
<1>1. /\ request'[s].at = "load" /\ request'[s].id = id
      /\ \A u \in Session : u # s => request'[u] = request[u]
  BY CommentIsNew
<1>2. UNCHANGED <<videos, mp4, file, stored, told>>
  BY DEF PostComment, store, history
<1>3. \A u \in Session : /\ Uploads(u)' => u # s /\ Uploads(u)
                         /\ Saves(u)' => u # s /\ Saves(u)
  BY <1>1 DEF Uploads, UploadsAt, Saves
<1>4. ASSUME NEW u \in Session, Uploads(u)' PROVE OwnVideo(u)'
  <2>1. u # s /\ OwnVideo(u) /\ request'[u] = request[u]
    BY <1>1, <1>3, <1>4 DEF VideosInOrder, RequestsHaveVideos
  <2> QED
    BY <1>1, <1>2, <1>3, <2>1 DEF OwnVideo
<1>5. RequestsHaveVideos'
  BY <1>1, <1>2, <1>3, <1>4 DEF VideosInOrder, RequestsHaveVideos
<1> QED
  BY <1>2, <1>5 DEF VideosInOrder, Told

\* The new row has a new id, of which nothing is left.
LEMMA AddingKeepsVideos ==
    ASSUME IInv, OInv, VideosInOrder, NEW s \in Session, AddVideo(s)
    PROVE  VideosInOrder'
<1> DEFINE n == Len(videos) + 1
<1>1. PICK y \in Request : /\ Plain(s, y) /\ y.at = "move" /\ y.posts = {} /\ y.id = n
  BY PlainBeginning
<1>2. /\ request'[s] = y /\ \A u \in Session : u # s => request'[u] = request[u]
  BY <1>1 DEF Plain, Becomes, IInv, Sessions, SessionTypes
<1>3. /\ UNCHANGED <<mp4, file, stored, told>>
      /\ DOMAIN videos = 1 .. Len(videos) /\ DOMAIN videos' = 1 .. n
      /\ n \in Id /\ n \notin DOMAIN videos /\ n \in 1 .. n
      /\ \A i \in DOMAIN videos : videos'[i] = videos[i] /\ i \in 1 .. n
      /\ \A i \in 1 .. n : i = n \/ i \in DOMAIN videos
  <2>1. /\ videos' = Append(videos, [shown |-> FALSE, view |-> 0, comment_count |-> 0])
        /\ Len(videos) < MaxVideo /\ UNCHANGED <<mp4, file, stored, told>>
    BY DEF AddVideo, history
  <2>2. videos \in Seq(Video) /\ DOMAIN videos = 1 .. Len(videos) /\ Len(videos) \in Nat
    BY DEF IInv, StoreTypes
  <2>3. [shown |-> FALSE, view |-> 0, comment_count |-> 0] \in Video
    BY DEF Video
  <2>4. DOMAIN videos' = 1 .. n /\ \A i \in 1 .. Len(videos) : videos'[i] = videos[i]
    BY <2>1, <2>2, <2>3
  <2>5. n \in Id /\ n \notin 1 .. Len(videos) /\ n \in 1 .. n
    BY <2>1, <2>2, MovieUploadAssumption DEF Id
  <2>6. /\ \A i \in 1 .. Len(videos) : i \in 1 .. n
        /\ \A i \in 1 .. n : i = n \/ i \in 1 .. Len(videos)
    BY <2>2
  <2> QED
    BY <2>1, <2>2, <2>4, <2>5, <2>6
<1> HIDE DEF n
<1>4. \A u \in Session : /\ u # s => (Uploads(u)' <=> Uploads(u))
                         /\ Saves(u)' => u # s /\ Saves(u)
  BY <1>1, <1>2 DEF Uploads, UploadsAt, Saves
<1>5. \A u \in Session : /\ Uploads(u) => request[u].id # n
                         /\ request[u].posts # {} => request[u].id # n
  BY <1>3 DEF VideosInOrder, RequestsHaveVideos, OwnVideo
<1>6. ASSUME NEW u \in Session, Uploads(u)' PROVE OwnVideo(u)'
  <2>1. CASE u = s
    <3>1. request'[u].id = n
      BY <1>1, <1>2, <2>1
    <3>2. \A v \in Session : v # u /\ Uploads(v)' => request'[v].id # n
      BY <1>2, <1>4, <1>5, <2>1
    <3>3. \A v \in Session : Saves(v)' => request'[v].id # n
      BY <1>2, <1>4, <1>5 DEF Saves
    <3>4. \A i \in DOMAIN stored' : stored'[i].id # n
      BY <1>3 DEF VideosInOrder
    <3> QED
      BY <1>3, <3>1, <3>2, <3>3, <3>4 DEF OwnVideo
  <2>2. CASE u # s
    <3>1. OwnVideo(u) /\ Uploads(u) /\ request'[u] = request[u]
      BY <1>2, <1>4, <1>6, <2>2 DEF VideosInOrder, RequestsHaveVideos
    <3>2. \A v \in Session : v # u /\ Uploads(v)' => request'[v].id # request[u].id
      BY <1>1, <1>2, <1>4, <1>5, <3>1 DEF OwnVideo
    <3>3. request[u].at # "enable" =>
            \A v \in Session : Saves(v)' => request'[v].id # request[u].id
      BY <1>2, <1>4, <3>1 DEF OwnVideo
    <3> QED
      BY <1>3, <3>1, <3>2, <3>3 DEF OwnVideo
  <2> QED
    BY <2>1, <2>2
<1>7. ASSUME NEW u \in Session, Uploads(u)'
      PROVE  FilesAt(request'[u].at, request'[u].id, mp4', file')
  <2>1. CASE u = s
    BY <1>1, <1>2, <1>3, <2>1 DEF FilesAt, VideosInOrder
  <2>2. CASE u # s
    BY <1>2, <1>3, <1>4, <1>7, <2>2 DEF VideosInOrder, RequestsHaveVideos
  <2> QED
    BY <2>1, <2>2
<1>8. ASSUME NEW u \in Session
      PROVE  /\ request'[u].at # "writeGone"
             /\ request'[u].posts # {} => request'[u].id \in DOMAIN videos'
  BY <1>1, <1>2, <1>3 DEF VideosInOrder, RequestsHaveVideos
<1>9. RequestsHaveVideos'
  BY <1>6, <1>7, <1>8 DEF RequestsHaveVideos
<1>10. Told'
  BY <1>3 DEF VideosInOrder, Told
<1>11. /\ \A i \in DOMAIN stored' : stored'[i].id \in DOMAIN videos'
       /\ \A id \in Id \ DOMAIN videos' : file'[id] = None
  BY <1>3 DEF VideosInOrder
<1> QED
  BY <1>9, <1>10, <1>11 DEF VideosInOrder

LEMMA StepsKeepVideos ==
    ASSUME IInv, OInv, VideosInOrder, NEW s \in Session, Step(s)
    PROVE  VideosInOrder'
<1>1. CASE \/ LoadComments(s) /\ ~ EndSession(s)
           \/ Write(s) /\ request[s].posts # {}
  BY <1>1, CommentingKeepsVideos
<1>2. CASE \/ IncrementView(s) \/ IncrementComment_count(s) \/ Enable(s)
           \/ LoadComments(s) /\ EndSession(s)
           \/ MoveUploadedFile(s) /\ EndSession(s)
           \/ Convert(s) /\ EndSession(s)
           \/ MakeThumbnail(s) /\ EndSession(s)
  BY <1>2, EndingKeepsVideos
<1>3. ASSUME NEW step, GoTo(s, step),
             \/ Truncate(s)
             \/ Write(s) /\ request[s].posts = {}
             \/ CreateComments(s)
             \/ MoveUploadedFile(s) /\ step = "convert"
             \/ Convert(s) /\ step = "thumbnail"
             \/ MakeThumbnail(s) /\ step = "create"
      PROVE  VideosInOrder'
  BY <1>3, GoingKeepsVideos
<1>4. CASE AddVideo(s)
  BY <1>4, AddingKeepsVideos
<1>5. ~ WriteGone(s)
  BY DEF WriteGone, At, VideosInOrder, RequestsHaveVideos
<1>6. /\ Truncate(s) => GoTo(s, "write")
      /\ Write(s) => GoTo(s, AfterSave(s))
      /\ CreateComments(s) =>
            GoTo(s, IF file[request[s].id] = None THEN "truncate" ELSE "enable")
      /\ MoveUploadedFile(s) => EndSession(s) \/ GoTo(s, "convert")
      /\ Convert(s) => EndSession(s) \/ GoTo(s, "thumbnail")
      /\ MakeThumbnail(s) => EndSession(s) \/ GoTo(s, "create")
  BY DEF Truncate, Write, CreateComments, MoveUploadedFile, Convert, MakeThumbnail
<1> QED
  BY <1>1, <1>2, <1>3, <1>4, <1>5, <1>6 DEF Step

LEMMA UntouchedKeepsVideos ==
    ASSUME VideosInOrder, UNCHANGED <<videos, mp4, file, request, told, stored>>
    PROVE  VideosInOrder'
  BY DEF VideosInOrder, RequestsHaveVideos, OwnVideo, Uploads, Saves, Told

\* One request at a time moves.
SessionActs(s) ==
    \/ OpenPage(s) \/ Step(s)
    \/ \E t \in DOMAIN opened :
         \/ \E id \in DOMAIN videos : Play(s, id, t)
         \/ \E isUploaded \in BOOLEAN : Upload(s, t, isUploaded)
    \/ \E id \in DOMAIN videos : PostComment(s, id)
    \/ \E stores \in BOOLEAN : Die(s, stores)

\* It does not touch the deletion.
LEMMA SessionsDoNotReset ==
    ASSUME NEW s \in Session, SessionActs(s)
    PROVE  UNCHANGED <<reset, resets>>
<1>1. Step(s) => UNCHANGED <<reset, resets>>
  BY DEF Step, IncrementView, LoadComments, Truncate, Write, WriteGone, IncrementComment_count,
         AddVideo, MoveUploadedFile, Convert, MakeThumbnail, CreateComments, Enable
<1> QED
  BY <1>1 DEF SessionActs, OpenPage, Play, Upload, PostComment, Die

LEMMA VideosInvariance == Spec => []VInv
<1>1. Init => VInv
  <2> SUFFICES ASSUME Init PROVE VideosInOrder
    BY DEF Init, VInv
  <2>1. Idle.at = "idle" /\ Idle.posts = {}
    BY DEF Idle
  <2> QED
    BY <2>1 DEF Init, VideosInOrder, RequestsHaveVideos, Uploads, UploadsAt, Told
<1>2. IInv /\ OInv /\ VInv /\ [Next]_vars => VInv'
  <2> SUFFICES ASSUME IInv, OInv, VInv, [Next]_vars PROVE VInv'
    OBVIOUS
  <2>1. ASSUME NEW s \in Session, SessionActs(s) PROVE VInv'
    <3> SUFFICES ASSUME VideosInOrder PROVE VideosInOrder'
      BY <2>1, SessionsDoNotReset DEF VInv
    <3>1. CASE OpenPage(s)
      BY <3>1, UntouchedKeepsVideos DEF OpenPage, store, history
    <3>2. CASE Step(s)
      BY <3>2, StepsKeepVideos
    <3>3. ASSUME NEW t \in DOMAIN opened, NEW id \in DOMAIN videos, Play(s, id, t)
          PROVE  VideosInOrder'
      <4>1. ~ AddVideo(s)
        BY <3>3 DEF Play, AddVideo, At
      <4> QED
        BY <3>3, <4>1, PlayingKeepsVideos
    <3>4. ASSUME NEW t \in DOMAIN opened, NEW isUploaded \in BOOLEAN, Upload(s, t, isUploaded)
          PROVE  VideosInOrder'
      <4>1. CASE isUploaded = TRUE
        <5>1. ~ AddVideo(s)
          BY <3>4 DEF Upload, AddVideo, At
        <5> QED
          BY <3>4, <4>1, <5>1, PlayingKeepsVideos
      <4>2. CASE isUploaded = FALSE
        BY <3>4, <4>2, UntouchedKeepsVideos DEF Upload, store
      <4> QED
        BY <4>1, <4>2
    <3>5. ASSUME NEW id \in DOMAIN videos, PostComment(s, id) PROVE VideosInOrder'
      BY <3>5, PostingKeepsVideos
    <3>6. ASSUME NEW stores \in BOOLEAN, Die(s, stores) PROVE VideosInOrder'
      BY <3>6, EndingKeepsVideos
    <3> QED
      BY <2>1, <3>1, <3>2, <3>3, <3>4, <3>5, <3>6 DEF SessionActs
  <2>2. resets \in Nat
    BY DEF IInv, OtherTypes
  <2>3. CASE DeleteRows
    BY <2>2, <2>3 DEF DeleteRows, VInv
  <2>4. CASE RestartIds \/ RemoveVideos \/ RemoveComments
    BY <2>2, <2>4 DEF RestartIds, RemoveVideos, RemoveComments, VInv
  <2>5. CASE UNCHANGED vars
    BY <2>5, UntouchedKeepsVideos DEF vars, store, history, VInv
  <2> QED
    BY <2>1, <2>3, <2>4, <2>5 DEF Next, SessionActs
<1> QED
  BY Invariance, OrderInvariance, <1>1, <1>2, PTL DEF Spec

-----------------------------------------------------------------------------
(* Why a file cannot be read.                                              *)

RInv ==
    \A id \in Id : /\ file[id].is = "unreadable" => Unsound(id)
                   /\ file[id].is = "none" => file[id] = None

\* A step of s that leaves the file, or is out of save with it.
LEMMA CausesStay ==
    ASSUME IInv, RInv, NEW s \in Session,
           \A u \in Session : u # s => request'[u] = request[u],
           UNCHANGED file,
           \/ ~ At(s, "write") /\ ruined' = ruined
           \/ ruined' = ruined \cup {request[s].id}
    PROVE  RInv'
<1> SUFFICES ASSUME NEW id \in Id, file[id].is = "unreadable" PROVE Unsound(id)'
  BY DEF RInv
<1>1. id \in ruined \/ \E u \in Session : At(u, "write") /\ request[u].id = id
  BY DEF RInv, Unsound
<1>2. CASE id \in ruined
  BY <1>2 DEF Unsound
<1>3. CASE \E u \in Session : At(u, "write") /\ request[u].id = id
  BY <1>3 DEF Unsound, At
<1> QED
  BY <1>1, <1>2, <1>3

LEMMA TruncatingHasCause == ASSUME IInv, RInv, NEW s \in Session, Truncate(s) PROVE RInv'
<1>1. /\ file' = [file EXCEPT ![request[s].id] = Unreadable] /\ file \in [Id -> File]
      /\ ruined' = ruined \ {request[s].id}
      /\ request[s] \in Request /\ request[s].at = "truncate"
      /\ request' = [request EXCEPT ![s].at = "write"] /\ request \in [Session -> Request]
  BY DEF Truncate, GoTo, At, IInv, StoreTypes, Sessions, SessionTypes
<1>2. /\ request'[s].at = "write" /\ request'[s].id = request[s].id
      /\ \A u \in Session : u # s => request'[u] = request[u]
  BY <1>1 DEF Request
<1> SUFFICES ASSUME NEW id \in Id
             PROVE  /\ file'[id].is = "unreadable" => Unsound(id)'
                    /\ file'[id].is = "none" => file'[id] = None
  BY DEF RInv
<1>3. CASE id = request[s].id
  BY <1>1, <1>2, <1>3 DEF Unsound, At, Unreadable
<1>4. CASE id # request[s].id
  <2>1. file'[id] = file[id] /\ (id \in ruined => id \in ruined')
    BY <1>1, <1>4
  <2>2. \A u \in Session : At(u, "write") => request'[u] = request[u]
    BY <1>1, <1>2 DEF At
  <2> QED
    BY <2>1, <2>2 DEF RInv, Unsound, At
<1> QED
  BY <1>3, <1>4

LEMMA WritingHasCause == ASSUME IInv, RInv, NEW s \in Session, Write(s) PROVE RInv'
<1>1. /\ file \in [Id -> File] /\ request[s].at = "write"
      /\ \A u \in Session : u # s => request'[u] = request[u]
  BY DEF Write, GoTo, At, IInv, StoreTypes, Sessions, SessionTypes
<1>2. \/ /\ file' = [file EXCEPT ![request[s].id] = Text(request[s].dom)]
         /\ ruined' = ruined \ {request[s].id}
      \/ /\ file' = [file EXCEPT ![request[s].id] = Unreadable]
         /\ ruined' = ruined \cup {request[s].id}
  BY DEF Write
<1> SUFFICES ASSUME NEW id \in Id
             PROVE  /\ file'[id].is = "unreadable" => Unsound(id)'
                    /\ file'[id].is = "none" => file'[id] = None
  BY DEF RInv
<1>3. CASE id = request[s].id
  BY <1>1, <1>2, <1>3 DEF Unsound, Text, Unreadable
<1>4. CASE id # request[s].id
  <2>1. file'[id] = file[id] /\ (id \in ruined => id \in ruined')
    BY <1>1, <1>2, <1>4
  <2>2. \A u \in Session : request[u].id = id => request'[u] = request[u]
    BY <1>1, <1>4
  <2> QED
    BY <2>1, <2>2 DEF RInv, Unsound, At
<1> QED
  BY <1>3, <1>4

LEMMA StepsHaveCause ==
    ASSUME IInv, RInv, NEW s \in Session, Step(s), ~ Truncate(s), ~ Write(s)
    PROVE  RInv'
<1>1. UNCHANGED file /\ ~ At(s, "write") /\ ruined' = ruined
  BY DEF Step, IncrementView, LoadComments, WriteGone, IncrementComment_count, AddVideo,
         MoveUploadedFile, Convert, MakeThumbnail, CreateComments, Enable, At, store, history
<1>2. \A u \in Session : u # s => request'[u] = request[u]
  BY DEF Step, IncrementView, LoadComments, WriteGone, IncrementComment_count, AddVideo,
         MoveUploadedFile, Convert, MakeThumbnail, CreateComments, Enable, EndSession, GoTo,
         IInv, Sessions, SessionTypes
<1> QED
  BY <1>1, <1>2, CausesStay

LEMMA CausesInvariance == Spec => []RInv
<1>1. Init => RInv
  BY DEF Init, RInv, None
<1>2. IInv /\ RInv /\ [Next]_vars => RInv'
  <2> SUFFICES ASSUME IInv, RInv, [Next]_vars PROVE RInv'
    OBVIOUS
  <2>0. request \in [Session -> Request]
    BY DEF IInv, Sessions, SessionTypes
  <2>1. ASSUME NEW s \in Session, Step(s) PROVE RInv'
    BY <2>1, StepsHaveCause, TruncatingHasCause, WritingHasCause
  <2>2. ASSUME NEW s \in Session,
               \/ OpenPage(s)
               \/ \E t \in DOMAIN opened, id \in DOMAIN videos : Play(s, id, t)
               \/ \E t \in DOMAIN opened, isUploaded \in BOOLEAN : Upload(s, t, isUploaded)
               \/ \E id \in DOMAIN videos : PostComment(s, id)
        PROVE  RInv'
    <3>1. UNCHANGED <<file, ruined>> /\ ~ At(s, "write")
      BY <2>2 DEF OpenPage, Play, Upload, PostComment, At, store, history
    <3>2. \A u \in Session : u # s => request'[u] = request[u]
      BY <2>0, <2>2 DEF OpenPage, Play, Upload, PostComment
    <3> QED
      BY <3>1, <3>2, CausesStay
  <2>3. ASSUME NEW s \in Session, NEW stores \in BOOLEAN, Die(s, stores) PROVE RInv'
    <3>1. /\ UNCHANGED file
          /\ \/ ~ At(s, "write") /\ ruined' = ruined
             \/ ruined' = ruined \cup {request[s].id}
      BY <2>3 DEF Die, store
    <3>2. \A u \in Session : u # s => request'[u] = request[u]
      BY <2>0, <2>3 DEF Die, EndSession
    <3> QED
      BY <3>1, <3>2, CausesStay
  <2>4. CASE DeleteRows \/ RestartIds \/ RemoveVideos
    BY <2>4 DEF DeleteRows, RestartIds, RemoveVideos, history, RInv, Unsound, At
  <2>5. CASE RemoveComments
    <3>1. \A id \in Id : file'[id] = None
      BY <2>5 DEF RemoveComments
    <3> QED
      BY <3>1 DEF RInv, None
  <2>6. CASE UNCHANGED vars
    BY <2>6 DEF vars, store, history, RInv, Unsound, At
  <2> QED
    BY <2>1, <2>2, <2>3, <2>4, <2>5, <2>6 DEF Next
<1> QED
  BY Invariance, <1>1, <1>2, PTL DEF Spec

\* Until all is deleted, a video for which 'encoded' was answered (thread.php
\* l.95) is shown, has its movie, and has a comment file that can be read,
\* except while it is being saved, and after a death in save or two saves at
\* the same time; whatever other requests do and wherever they die.
THEOREM EncodedVideosAreWatchable == Spec => []EncodedIsWatchable
<1>1. IInv /\ VInv /\ RInv => EncodedIsWatchable
  <2> SUFFICES ASSUME IInv, VInv, RInv, resets = 0, NEW id \in told
               PROVE  /\ videos[id].shown /\ id \in mp4
                      /\ file[id].is = "text" \/ Unsound(id)
    BY DEF EncodedIsWatchable
  <2>1. id \in Id /\ videos[id].shown /\ id \in mp4 /\ file[id] # None
    BY DEF VInv, VideosInOrder, Told, IInv, OtherTypes
  <2>2. file[id].is \in {"none", "unreadable", "text"}
    BY <2>1 DEF IInv, StoreTypes, File
  <2> QED
    BY <2>1, <2>2 DEF RInv
<1> QED
  BY Invariance, VideosInvariance, CausesInvariance, <1>1, PTL
-----------------------------------------------------------------------------
(* The counts, until all is deleted.                                       *)

Counters == {s \in Session : At(s, "count")}

CountersOf(id) == {s \in Session : At(s, "count") /\ request[s].id = id}

CutOf(id) == {c \in cut : c.id = id}

\* What comment_count is, or would be if nobody had been cut short.
Counted(id) ==
    videos[id].comment_count + Cardinality(CountersOf(id)) + Cardinality(CutOf(id))

FInv == IsFiniteSet(Counters) /\ IsFiniteSet(cut)

CountsInOrder ==
    /\ \A id \in DOMAIN videos : Len(file[id].comments) <= Counted(id)
    /\ \A s \in Session : Saves(s) => Len(request[s].dom) <= Counted(request[s].id) + 1

CInv == resets = 0 => CountsInOrder

LEMMA OthersWait ==
    ASSUME IInv, NEW s \in Session, SessionActs(s)
    PROVE  /\ \A u \in Session : u # s => request'[u] = request[u]
           /\ cut' = cut \/ cut' = cut \cup request[s].posts
<1>1. request \in [Session -> Request]
  BY DEF IInv, Sessions, SessionTypes
<1>2. ASSUME NEW y, request' = [request EXCEPT ![s] = y]
      PROVE  \A u \in Session : u # s => request'[u] = request[u]
  BY <1>1, <1>2
<1>3. \A at : GoTo(s, at) => \A u \in Session : u # s => request'[u] = request[u]
  BY <1>1 DEF GoTo
<1>4. EndSession(s) => \A u \in Session : u # s => request'[u] = request[u]
  BY <1>2 DEF EndSession
<1>5. CASE Step(s)
  <2>1. UNCHANGED cut
    BY <1>5 DEF Step, IncrementView, LoadComments, Truncate, Write, WriteGone,
         IncrementComment_count, AddVideo, MoveUploadedFile, Convert, MakeThumbnail,
         CreateComments, Enable, history
  <2>2. LoadComments(s) => \A u \in Session : u # s => request'[u] = request[u]
    BY <1>1, <1>4 DEF LoadComments
  <2>3. AddVideo(s) => \A u \in Session : u # s => request'[u] = request[u]
    BY <1>1 DEF AddVideo
  <2> QED
    BY <1>3, <1>4, <1>5, <2>1, <2>2, <2>3
    DEF Step, IncrementView, Truncate, Write, WriteGone, IncrementComment_count,
        MoveUploadedFile, Convert, MakeThumbnail, CreateComments, Enable
<1>6. CASE \E stores \in BOOLEAN : Die(s, stores)
  BY <1>2, <1>4, <1>6 DEF Die
<1>7. CASE OpenPage(s) \/ \E id \in DOMAIN videos : PostComment(s, id)
  BY <1>2, <1>7 DEF OpenPage, PostComment, history
<1>8. CASE \E t \in DOMAIN opened :
             \/ \E id \in DOMAIN videos : Play(s, id, t)
             \/ \E isUploaded \in BOOLEAN : Upload(s, t, isUploaded)
  BY <1>2, <1>8 DEF Play, Upload, history
<1> QED
  BY <1>5, <1>6, <1>7, <1>8 DEF SessionActs

LEMMA FewCount == Spec => []FInv
<1>1. Init => FInv
  <2> SUFFICES ASSUME Init PROVE Counters = {} /\ cut = {}
    BY FS_EmptySet DEF FInv
  <2> QED
    BY DEF Init, Counters, At, Idle
<1>2. IInv /\ OInv /\ FInv /\ [Next]_vars => FInv'
  <2> SUFFICES ASSUME IInv, OInv, FInv, [Next]_vars PROVE FInv'
    OBVIOUS
  <2>1. ASSUME NEW s \in Session, SessionActs(s) PROVE FInv'
    <3>1. Counters' \subseteq Counters \cup {s}
      BY <2>1, OthersWait DEF Counters, At
    <3>2. IsFiniteSet(Counters \cup {s})
      BY FS_AddElement DEF FInv
    <3>3. IsFiniteSet(Counters')
      BY <3>1, <3>2, FS_Subset
    <3>4. request[s].posts = {} \/ \E c : request[s].posts = {c}
      <4>1. \A c, d \in request[s].posts : c = d
        BY DEF OInv, Posts, PostsInOrder
      <4>2. ASSUME NEW c \in request[s].posts PROVE request[s].posts = {c}
        BY <4>1
      <4> QED
        BY <4>2
    <3>5. \A c : IsFiniteSet(cut \cup {c})
      BY FS_AddElement DEF FInv
    <3>6. IsFiniteSet(cut')
      BY <2>1, <3>4, <3>5, OthersWait DEF FInv
    <3> QED
      BY <3>3, <3>6 DEF FInv
  <2>2. CASE DeleteRows \/ RestartIds \/ RemoveVideos \/ UNCHANGED vars
    BY <2>2 DEF DeleteRows, RestartIds, RemoveVideos, vars, history, FInv, Counters, At
  <2>3. CASE RemoveComments
    <3>1. UNCHANGED cut
      BY <2>3 DEF RemoveComments, history
    <3>2. \A s \in Session : At(s, "count")' => At(s, "count")
      <4> SUFFICES ASSUME NEW s \in Session, request'[s].at = "count"
                   PROVE  request[s].at = "count"
        BY DEF At
      <4>1. request[s] \in Request
        BY DEF IInv, Sessions, SessionTypes
      <4>2. CASE At(s, "write")
        <5>1. request'[s] = [request[s] EXCEPT !.at = "writeGone"]
          BY <2>3, <4>2 DEF RemoveComments
        <5> QED
          BY <4>1, <5>1 DEF Request
      <4>3. CASE ~ At(s, "write")
        BY <2>3, <4>3 DEF RemoveComments
      <4> QED
        BY <4>2, <4>3
    <3>3. Counters' \subseteq Counters
      BY <3>2 DEF Counters
    <3> QED
      BY <3>1, <3>3, FS_Subset DEF FInv
  <2> QED
    BY <2>1, <2>2, <2>3 DEF Next, SessionActs
<1> QED
  BY Invariance, OrderInvariance, <1>1, <1>2, PTL DEF Spec

LEMMA CountedIsNat ==
    ASSUME IInv, FInv, NEW id \in DOMAIN videos
    PROVE  /\ videos[id].comment_count \in Nat
           /\ IsFiniteSet(CountersOf(id)) /\ Cardinality(CountersOf(id)) \in Nat
           /\ IsFiniteSet(CutOf(id)) /\ Cardinality(CutOf(id)) \in Nat
           /\ Counted(id) \in Nat
<1>1. videos[id].comment_count \in Nat
  BY Rows DEF IInv, Video
<1>2. IsFiniteSet(CountersOf(id)) /\ IsFiniteSet(CutOf(id))
  <2>1. CountersOf(id) \in SUBSET Counters /\ CutOf(id) \in SUBSET cut
    BY DEF CountersOf, Counters, CutOf
  <2> QED
    BY <2>1, FS_Subset DEF FInv
<1>3. Cardinality(CountersOf(id)) \in Nat /\ Cardinality(CutOf(id)) \in Nat
  BY <1>2, FS_CardinalityType
<1> QED
  BY <1>1, <1>2, <1>3 DEF Counted

\* A request that does not count, and does not begin to, changes no count.
LEMMA NobodyCounts ==
    ASSUME IInv, FInv, NEW s \in Session,
           \A u \in Session : u # s => request'[u] = request[u],
           ~ At(s, "count"), request'[s].at # "count", UNCHANGED cut,
           NEW id \in DOMAIN videos, videos'[id].comment_count = videos[id].comment_count
    PROVE  Counted(id)' = Counted(id)
<1>1. CountersOf(id)' = CountersOf(id)
  BY DEF CountersOf, At
<1>2. CutOf(id)' = CutOf(id)
  BY DEF CutOf
<1> QED
  BY <1>1, <1>2 DEF Counted

\* A comment that is saved will be counted.
LEMMA SavedIsCounted ==
    ASSUME IInv, FInv, NEW s \in Session,
           \A u \in Session : u # s => request'[u] = request[u],
           ~ At(s, "count"), request'[s].at = "count", UNCHANGED <<cut, videos>>,
           NEW id \in DOMAIN videos
    PROVE  /\ request'[s].id = id => Counted(id)' = Counted(id) + 1
           /\ request'[s].id # id => Counted(id)' = Counted(id)
<1>1. CutOf(id)' = CutOf(id) /\ videos'[id] = videos[id]
  BY DEF CutOf
<1>2. /\ IsFiniteSet(CountersOf(id)) /\ Cardinality(CountersOf(id)) \in Nat
      /\ Cardinality(CutOf(id)) \in Nat /\ videos[id].comment_count \in Nat
  BY CountedIsNat
<1>3. ASSUME request'[s].id = id PROVE Counted(id)' = Counted(id) + 1
  <2>1. CountersOf(id)' = CountersOf(id) \cup {s} /\ s \notin CountersOf(id)
    BY <1>3 DEF CountersOf, At
  <2>2. Cardinality(CountersOf(id)') = Cardinality(CountersOf(id)) + 1
    BY <1>2, <2>1, FS_AddElement
  <2> QED
    BY <1>1, <1>2, <2>2 DEF Counted
<1>4. ASSUME request'[s].id # id PROVE Counted(id)' = Counted(id)
  <2>1. CountersOf(id)' = CountersOf(id)
    BY <1>4 DEF CountersOf, At
  <2> QED
    BY <1>1, <2>1 DEF Counted
<1> QED
  BY <1>3, <1>4

\* It is counted, or its request is cut short.
LEMMA CountingCounts ==
    ASSUME IInv, OInv, FInv, NEW s \in Session,
           \A u \in Session : u # s => request'[u] = request[u],
           At(s, "count"), request'[s].at # "count",
           NEW id \in DOMAIN videos,
           \/ /\ UNCHANGED cut
              /\ id # request[s].id => videos'[id].comment_count = videos[id].comment_count
              /\ id = request[s].id =>
                    videos'[id].comment_count = videos[id].comment_count + 1
           \/ /\ UNCHANGED videos
              /\ cut' = cut \cup request[s].posts
    PROVE  Counted(id)' = Counted(id)
<1>1. /\ IsFiniteSet(CountersOf(id)) /\ Cardinality(CountersOf(id)) \in Nat
      /\ IsFiniteSet(CutOf(id)) /\ Cardinality(CutOf(id)) \in Nat
      /\ videos[id].comment_count \in Nat
  BY CountedIsNat
<1>2. PICK c : request[s].posts = {c} /\ c.id = request[s].id /\ c \notin cut
  BY DEF OInv, Posts, PostsInOrder, PostsAreNew, At
<1>3. CASE id = request[s].id
  <2>1. CountersOf(id)' = CountersOf(id) \ {s} /\ s \in CountersOf(id)
    BY <1>3 DEF CountersOf, At
  <2>2. Cardinality(CountersOf(id)') = Cardinality(CountersOf(id)) - 1
    BY <1>1, <2>1, FS_RemoveElement
  <2>3. CASE UNCHANGED cut /\ videos'[id].comment_count = videos[id].comment_count + 1
    <3>1. CutOf(id)' = CutOf(id)
      BY <2>3 DEF CutOf
    <3> QED
      BY <1>1, <2>2, <2>3, <3>1 DEF Counted
  <2>4. CASE UNCHANGED videos /\ cut' = cut \cup request[s].posts
    <3>1. CutOf(id)' = CutOf(id) \cup {c} /\ c \notin CutOf(id)
      BY <1>2, <1>3, <2>4 DEF CutOf
    <3>2. Cardinality(CutOf(id)') = Cardinality(CutOf(id)) + 1
      BY <1>1, <3>1, FS_AddElement
    <3> QED
      BY <1>1, <2>2, <2>4, <3>2 DEF Counted
  <2> QED
    BY <1>3, <2>3, <2>4
<1>4. CASE id # request[s].id
  <2>1. CountersOf(id)' = CountersOf(id) /\ CutOf(id)' = CutOf(id)
    BY <1>2, <1>4 DEF CountersOf, CutOf, At
  <2>2. videos'[id].comment_count = videos[id].comment_count
    BY <1>4
  <2> QED
    BY <2>1, <2>2 DEF Counted
<1> QED
  BY <1>3, <1>4

\* Counts never go back, and a file or a document that is longer than before
\* is as long as they allow.
LEMMA CountsGoOn ==
    ASSUME IInv, FInv, VideosInOrder, CountsInOrder, NEW s \in Session,
           \A u \in Session : u # s => request'[u] = request[u],
           DOMAIN videos' = DOMAIN videos,
           \A id \in DOMAIN videos : Counted(id)' = Counted(id) \/ Counted(id)' = Counted(id) + 1,
           \A id \in DOMAIN videos : \/ file'[id] = file[id] \/ file'[id].comments = <<>>
                                     \/ Len(file'[id].comments) <= Counted(id)',
           Saves(s)' =>
               /\ request'[s].id = request[s].id /\ request[s].posts # {}
               /\ \/ Saves(s) /\ request'[s].dom = request[s].dom
                  \/ Len(request'[s].dom) <= Counted(request[s].id) + 1
    PROVE  CountsInOrder'
<1>1. /\ \A id \in DOMAIN videos : Counted(id) \in Nat /\ Counted(id)' \in Nat
      /\ \A id \in DOMAIN videos : Len(file[id].comments) \in Nat
  <2>1. \A id \in DOMAIN videos : file[id] \in File
    BY RowsHaveIds DEF IInv, StoreTypes
  <2>2. \A id \in DOMAIN videos : Counted(id) \in Nat
    BY CountedIsNat
  <2> QED
    BY <2>1, <2>2 DEF File
<1>2. ASSUME NEW id \in DOMAIN videos PROVE (Len(file[id].comments) <= Counted(id))'
  <2>1. Len(file[id].comments) <= Counted(id)
    BY DEF CountsInOrder
  <2>2. CASE file'[id] = file[id]
    BY <1>1, <2>1, <2>2
  <2>3. CASE file'[id].comments = <<>>
    BY <1>1, <2>3
  <2> QED
    BY <2>2, <2>3
<1>3. ASSUME NEW u \in Session, Saves(u)'
      PROVE  (Len(request[u].dom) <= Counted(request[u].id) + 1)'
  <2>1. request[u].posts # {} /\ request'[u].id = request[u].id
    BY <1>3 DEF Saves
  <2>2. request[u].id \in DOMAIN videos
    BY <2>1 DEF VideosInOrder, RequestsHaveVideos
  <2>3. PICK id \in DOMAIN videos : id = request[u].id
    BY <2>2
  <2>4. Len(request'[u].dom) <= Counted(id) + 1
    <3>1. Saves(u) => Len(request[u].dom) <= Counted(id) + 1
      BY <2>3 DEF CountsInOrder
    <3> QED
      BY <1>3, <2>3, <3>1 DEF Saves
  <2>5. /\ Counted(id) \in Nat /\ Counted(id)' \in Nat
        /\ Counted(id)' = Counted(id) \/ Counted(id)' = Counted(id) + 1
        /\ Len(request'[u].dom) \in Int
    <3>1. CASE Saves(u) /\ request'[u].dom = request[u].dom
      BY <1>1, <3>1, RequestTypes DEF IInv
    <3> QED
      BY <1>1
  <2>6. Len(request'[u].dom) <= Counted(id)' + 1
    BY <2>4, <2>5
  <2> QED
    BY <2>1, <2>3, <2>6
<1> QED
  BY <1>2, <1>3 DEF CountsInOrder

LEMMA EndingKeepsCounts ==
    ASSUME IInv, OInv, FInv, VideosInOrder, CountsInOrder, NEW s \in Session,
           \/ IncrementView(s) \/ IncrementComment_count(s) \/ Enable(s)
           \/ \E stores \in BOOLEAN : Die(s, stores)
           \/ LoadComments(s) /\ EndSession(s)
           \/ MoveUploadedFile(s) /\ EndSession(s)
           \/ Convert(s) /\ EndSession(s)
           \/ MakeThumbnail(s) /\ EndSession(s)
    PROVE  CountsInOrder'
<1>1. Plain(s, Idle) /\ Idle.at = "idle"
  BY PlainEnds, Idleness
<1>2. request'[s] = Idle /\ \A u \in Session : u # s => request'[u] = request[u]
  BY <1>1 DEF Plain, Becomes, IInv, Sessions, SessionTypes
<1>3. UNCHANGED file
  BY DEF IncrementView, IncrementComment_count, Enable, Die, LoadComments, MoveUploadedFile,
         Convert, MakeThumbnail, store
<1>4. DOMAIN videos' = DOMAIN videos
  BY UpdatedRows DEF Die, LoadComments, MoveUploadedFile, Convert, MakeThumbnail, store
<1>5. ASSUME NEW id \in DOMAIN videos PROVE Counted(id)' = Counted(id)
  <2>1. CASE At(s, "count")
    <3>1. CASE IncrementComment_count(s)
      <4>1. UNCHANGED cut
        BY <3>1 DEF IncrementComment_count
      <4> QED
        BY <1>1, <1>2, <2>1, <3>1, <4>1, UpdatedRows, CountingCounts
    <3>2. CASE \E stores \in BOOLEAN : Die(s, stores)
      <4>1. UNCHANGED videos /\ cut' = cut \cup request[s].posts
        BY <2>1, <3>2 DEF Die, store
      <4> QED
        BY <1>1, <1>2, <2>1, <4>1, CountingCounts
    <3> QED
      BY <2>1, <3>1, <3>2
      DEF IncrementView, Enable, LoadComments, MoveUploadedFile, Convert, MakeThumbnail, At
  <2>2. CASE ~ At(s, "count")
    <3>1. UNCHANGED cut /\ ~ IncrementComment_count(s)
      BY <2>2 DEF IncrementView, IncrementComment_count, Enable, Die, LoadComments,
           MoveUploadedFile, Convert, MakeThumbnail
    <3>2. videos'[id].comment_count = videos[id].comment_count
      BY <3>1, UpdatedRows DEF Die, LoadComments, MoveUploadedFile, Convert, MakeThumbnail, store
    <3> QED
      BY <1>1, <1>2, <2>2, <3>1, <3>2, NobodyCounts
  <2> QED
    BY <2>1, <2>2
<1>6. ~ Saves(s)'
  BY <1>1, <1>2 DEF Saves
<1> QED
  BY <1>2, <1>3, <1>4, <1>5, <1>6, CountsGoOn

LEMMA GoingKeepsCounts ==
    ASSUME IInv, OInv, FInv, VideosInOrder, CountsInOrder, NEW s \in Session, NEW step,
           GoTo(s, step),
           \/ Truncate(s)
           \/ Write(s) /\ request[s].posts = {}
           \/ CreateComments(s)
           \/ MoveUploadedFile(s) /\ step = "convert"
           \/ Convert(s) /\ step = "thumbnail"
           \/ MakeThumbnail(s) /\ step = "create"
    PROVE  CountsInOrder'
<1>1. PICK y \in Request : /\ Plain(s, y) /\ y.at = request'[s].at /\ y.id = request[s].id
                           /\ y.posts = request[s].posts /\ y.dom = request[s].dom
  BY PlainGoing
<1>2. /\ request'[s] = y /\ \A u \in Session : u # s => request'[u] = request[u]
      /\ request[s] \in Request /\ request \in [Session -> Request]
  BY <1>1 DEF Plain, Becomes, IInv, Sessions, SessionTypes
<1>3. UNCHANGED <<videos, cut>> /\ ~ At(s, "count")
  BY DEF Truncate, Write, CreateComments, MoveUploadedFile, Convert, MakeThumbnail, store,
         history, At
<1>4. y.at # "count"
  <2>1. CASE Truncate(s)
    BY <1>1, <1>2, <2>1 DEF Truncate, GoTo, Request
  <2>2. CASE ~ Truncate(s)
    <3>1. request[s].posts = {}
      BY <2>2 DEF Write, CreateComments, MoveUploadedFile, Convert, MakeThumbnail, At, OInv,
           Posts, PostsInOrder
    <3> QED
      BY <1>1, <3>1 DEF Plain, Becomes
  <2> QED
    BY <2>1, <2>2
<1>5. \A id \in DOMAIN videos : Counted(id)' = Counted(id)
  BY <1>2, <1>3, <1>4, NobodyCounts
<1>6. \A id \in DOMAIN videos : file'[id] = file[id] \/ file'[id].comments = <<>>
  BY <1>1, RowsHaveIds DEF Plain, IInv
<1>7. Saves(s)' => /\ request'[s].id = request[s].id /\ request[s].posts # {}
                   /\ Saves(s) /\ request'[s].dom = request[s].dom
  BY <1>1, <1>2 DEF Saves, Plain
<1> QED
  BY <1>2, <1>3, <1>5, <1>6, <1>7, CountsGoOn

LEMMA LoadingKeepsCounts ==
    ASSUME IInv, OInv, FInv, VideosInOrder, CountsInOrder, NEW s \in Session,
           LoadComments(s), ~ EndSession(s)
    PROVE  CountsInOrder'
<1>1. PICK y \in Request, kept \in Seq(Comment), c \in request[s].posts, k \in Nat :
        /\ Becomes(s, y) /\ y.at = "truncate" /\ y.id = request[s].id
        /\ y.posts = request[s].posts /\ y.dom = Append(kept, c)
        /\ Len(kept) = Len(file[request[s].id].comments) - k
  BY DocumentIsMade
<1>2. request'[s] = y /\ \A u \in Session : u # s => request'[u] = request[u]
  BY <1>1 DEF Becomes, IInv, Sessions, SessionTypes
<1>3. UNCHANGED <<videos, file, cut>> /\ ~ At(s, "count") /\ request[s].posts # {}
  BY DEF LoadComments, store, At, OInv, Posts, PostsInOrder
<1>4. \A id \in DOMAIN videos : Counted(id)' = Counted(id)
  BY <1>1, <1>2, <1>3, NobodyCounts
<1>5. PICK id \in DOMAIN videos : id = request[s].id
  BY <1>3 DEF VideosInOrder, RequestsHaveVideos
<1>6. Len(request'[s].dom) <= Counted(id) + 1
  <2>1. Len(file[id].comments) <= Counted(id) /\ Counted(id) \in Nat
    BY CountedIsNat DEF CountsInOrder
  <2>2. file[id] \in File
    BY RowsHaveIds DEF IInv, StoreTypes
  <2>3. Len(file[id].comments) \in Nat
    BY <2>2 DEF File
  <2>4. Len(Append(kept, c)) = Len(kept) + 1
    <3>1. c \in Comment
      BY RequestTypes DEF IInv
    <3> QED
      BY <3>1
  <2> HIDE DEF Counted
  <2> QED
    BY <1>1, <1>2, <1>5, <2>1, <2>3, <2>4
<1> QED
  BY <1>1, <1>2, <1>3, <1>4, <1>5, <1>6, CountsGoOn

LEMMA SavingKeepsCounts ==
    ASSUME IInv, OInv, FInv, VideosInOrder, CountsInOrder, NEW s \in Session,
           Write(s), request[s].posts # {}
    PROVE  CountsInOrder'
<1>1. PICK y \in Request, c \in Comment :
        /\ Becomes(s, y) /\ y.at = "count" /\ y.id = request[s].id
        /\ c.id = request[s].id
        /\ \E f \in {Text(request[s].dom), Unreadable} : file' = [file EXCEPT ![c.id] = f]
        /\ UNCHANGED cut
  BY CommentIsSaved
<1>2. request'[s] = y /\ \A u \in Session : u # s => request'[u] = request[u]
  BY <1>1 DEF Becomes, IInv, Sessions, SessionTypes
<1>3. UNCHANGED videos /\ ~ At(s, "count") /\ Saves(s)
  BY DEF Write, At, Saves
<1>4. \A id \in DOMAIN videos : /\ request[s].id = id => Counted(id)' = Counted(id) + 1
                                /\ request[s].id # id => Counted(id)' = Counted(id)
  BY <1>1, <1>2, <1>3, SavedIsCounted
<1>5. ASSUME NEW id \in DOMAIN videos
      PROVE  \/ file'[id] = file[id] \/ file'[id].comments = <<>>
             \/ Len(file'[id].comments) <= Counted(id)'
  <2>1. PICK f \in {Text(request[s].dom), Unreadable} : file' = [file EXCEPT ![c.id] = f]
    BY <1>1
  <2>2. file \in [Id -> File] /\ id \in Id
    BY RowsHaveIds DEF IInv, StoreTypes
  <2>3. CASE id = c.id
    <3>1. Len(request[s].dom) <= Counted(id) + 1 /\ Counted(id)' = Counted(id) + 1
      BY <1>1, <1>3, <1>4, <2>3 DEF CountsInOrder
    <3>2. file'[id] = f
      BY <2>1, <2>2, <2>3
    <3>3. Unreadable.comments = <<>> /\ Text(request[s].dom).comments = request[s].dom
      BY DEF Unreadable, Text
    <3>4. f = Unreadable \/ f = Text(request[s].dom)
      OBVIOUS
    <3> QED
      BY <3>1, <3>2, <3>3, <3>4
  <2>4. CASE id # c.id
    BY <2>1, <2>2, <2>4
  <2> QED
    BY <2>3, <2>4
<1>6. ~ Saves(s)'
  BY <1>1, <1>2 DEF Saves
<1> QED
  BY <1>2, <1>3, <1>4, <1>5, <1>6, CountsGoOn

\* A request that begins has nothing to count yet.
LEMMA BeginningKeepsCounts ==
    ASSUME IInv, OInv, FInv, VideosInOrder, CountsInOrder, NEW s \in Session,
           \/ \E t \in DOMAIN opened, id \in DOMAIN videos : Play(s, id, t)
           \/ \E t \in DOMAIN opened : Upload(s, t, TRUE)
           \/ \E id \in DOMAIN videos : PostComment(s, id)
    PROVE  CountsInOrder'
<1>1. UNCHANGED <<videos, file, cut>> /\ ~ At(s, "count")
  BY DEF Play, Upload, PostComment, store, history, At
<1>2. /\ request'[s].at \in {"view", "insert", "load", "move"}
      /\ \A u \in Session : u # s => request'[u] = request[u]
  <2>1. CASE \E id \in DOMAIN videos : PostComment(s, id)
    BY <2>1, CommentIsNew
  <2>2. CASE \/ \E t \in DOMAIN opened, id \in DOMAIN videos : Play(s, id, t)
             \/ \E t \in DOMAIN opened : Upload(s, t, TRUE)
    <3>1. PICK y \in Request : Plain(s, y) /\ y.at \in {"view", "insert", "move"}
      BY <2>2, PlainBeginning
    <3> QED
      BY <3>1 DEF Plain, Becomes, IInv, Sessions, SessionTypes
  <2> QED
    BY <2>1, <2>2
<1>3. \A id \in DOMAIN videos : Counted(id)' = Counted(id)
  BY <1>1, <1>2, NobodyCounts
<1>4. ~ Saves(s)'
  BY <1>2 DEF Saves
<1> QED
  BY <1>1, <1>2, <1>3, <1>4, CountsGoOn

\* A new row has no comments to be behind of.
LEMMA AddingKeepsCounts ==
    ASSUME IInv, OInv, FInv, FInv', VideosInOrder, CountsInOrder, NEW s \in Session, AddVideo(s)
    PROVE  CountsInOrder'
<1>1. PICK y \in Request : Plain(s, y) /\ y.at = "move" /\ y.posts = {}
  BY PlainBeginning
<1>2. request'[s] = y /\ \A u \in Session : u # s => request'[u] = request[u]
  BY <1>1 DEF Plain, Becomes, IInv, Sessions, SessionTypes
<1>3. UNCHANGED <<file, cut>> /\ ~ At(s, "count")
  BY DEF AddVideo, history, At
<1>4. \A id \in DOMAIN videos : id \in DOMAIN videos' /\ videos'[id] = videos[id]
  BY DEF AddVideo, IInv, StoreTypes
<1>5. \A id \in DOMAIN videos : Counted(id)' = Counted(id)
  BY <1>1, <1>2, <1>3, <1>4, NobodyCounts
<1>6. ASSUME NEW id \in DOMAIN videos' PROVE (Len(file[id].comments) <= Counted(id))'
  <2>1. CASE id \in DOMAIN videos
    BY <1>3, <1>5, <2>1 DEF CountsInOrder
  <2>2. CASE id \notin DOMAIN videos
    <3>1. /\ videos' \in Seq(Video) /\ Len(videos') <= MaxVideo
          /\ IsFiniteSet(Counters') /\ IsFiniteSet(cut')
      BY AddingAVideo DEF IInv, StoreTypes, FInv
    <3>2. id \in Id /\ videos'[id] \in Video
      BY <3>1, MovieUploadAssumption DEF Id
    <3>3. file'[id] = None
      BY <1>3, <2>2, <3>2 DEF VideosInOrder
    <3>4. Counted(id)' \in Nat
      <4>1. CountersOf(id)' \in SUBSET Counters' /\ CutOf(id)' \in SUBSET cut'
        BY DEF CountersOf, Counters, CutOf
      <4>2. IsFiniteSet(CountersOf(id)') /\ IsFiniteSet(CutOf(id)')
        BY <3>1, <4>1, FS_Subset
      <4>3. Cardinality(CountersOf(id)') \in Nat /\ Cardinality(CutOf(id)') \in Nat
        BY <4>2, FS_CardinalityType
      <4>4. videos'[id].comment_count \in Nat
        BY <3>2 DEF Video
      <4> QED
        BY <4>3, <4>4 DEF Counted
    <3> QED
      BY <3>3, <3>4 DEF None
  <2> QED
    BY <2>1, <2>2
<1>7. ASSUME NEW u \in Session, Saves(u)'
      PROVE  (Len(request[u].dom) <= Counted(request[u].id) + 1)'
  <2>1. u # s /\ Saves(u) /\ request'[u] = request[u]
    BY <1>1, <1>2, <1>7 DEF Saves
  <2>2. PICK id \in DOMAIN videos : id = request[u].id
    BY <2>1 DEF VideosInOrder, RequestsHaveVideos, Saves
  <2>3. Len(request[u].dom) <= Counted(id) + 1 /\ Counted(id)' = Counted(id)
    BY <1>5, <2>1, <2>2 DEF CountsInOrder
  <2> QED
    BY <2>1, <2>2, <2>3
<1> QED
  BY <1>6, <1>7 DEF CountsInOrder

LEMMA UntouchedKeepsCounts ==
    ASSUME CountsInOrder, UNCHANGED <<videos, file, request, cut>>
    PROVE  CountsInOrder'
<1>1. \A id : Counted(id)' = Counted(id)
  BY DEF Counted, CountersOf, CutOf, At
<1> QED
  BY <1>1 DEF CountsInOrder, Saves

LEMMA SessionsKeepCounts ==
    ASSUME IInv, OInv, FInv, FInv', VideosInOrder, CountsInOrder,
           NEW s \in Session, SessionActs(s)
    PROVE  CountsInOrder'
<1>1. CASE Step(s)
  <2>1. CASE \/ IncrementView(s) \/ IncrementComment_count(s) \/ Enable(s)
             \/ LoadComments(s) /\ EndSession(s)
             \/ MoveUploadedFile(s) /\ EndSession(s)
             \/ Convert(s) /\ EndSession(s)
             \/ MakeThumbnail(s) /\ EndSession(s)
    BY <2>1, EndingKeepsCounts
  <2>2. ASSUME NEW step, GoTo(s, step),
               \/ Truncate(s)
               \/ Write(s) /\ request[s].posts = {}
               \/ CreateComments(s)
               \/ MoveUploadedFile(s) /\ step = "convert"
               \/ Convert(s) /\ step = "thumbnail"
               \/ MakeThumbnail(s) /\ step = "create"
        PROVE  CountsInOrder'
    BY <2>2, GoingKeepsCounts
  <2>3. ~ WriteGone(s)
    BY DEF WriteGone, At, VideosInOrder, RequestsHaveVideos
  <2>4. /\ Truncate(s) => GoTo(s, "write")
        /\ Write(s) => GoTo(s, AfterSave(s))
        /\ CreateComments(s) =>
              GoTo(s, IF file[request[s].id] = None THEN "truncate" ELSE "enable")
        /\ MoveUploadedFile(s) => EndSession(s) \/ GoTo(s, "convert")
        /\ Convert(s) => EndSession(s) \/ GoTo(s, "thumbnail")
        /\ MakeThumbnail(s) => EndSession(s) \/ GoTo(s, "create")
    BY DEF Truncate, Write, CreateComments, MoveUploadedFile, Convert, MakeThumbnail
  <2> QED
    BY <1>1, <2>1, <2>2, <2>3, <2>4, LoadingKeepsCounts, SavingKeepsCounts, AddingKeepsCounts
    DEF Step
<1>2. CASE OpenPage(s)
  BY <1>2, UntouchedKeepsCounts DEF OpenPage, store, history
<1>3. CASE \E stores \in BOOLEAN : Die(s, stores)
  BY <1>3, EndingKeepsCounts
<1>4. ASSUME NEW t \in DOMAIN opened, NEW isUploaded \in BOOLEAN, Upload(s, t, isUploaded)
      PROVE  CountsInOrder'
  <2>1. CASE isUploaded = TRUE
    BY <1>4, <2>1, BeginningKeepsCounts
  <2>2. CASE isUploaded = FALSE
    BY <1>4, <2>2, UntouchedKeepsCounts DEF Upload, store
  <2> QED
    BY <2>1, <2>2
<1>5. CASE \/ \E t \in DOMAIN opened, id \in DOMAIN videos : Play(s, id, t)
           \/ \E id \in DOMAIN videos : PostComment(s, id)
  BY <1>5, BeginningKeepsCounts
<1> QED
  BY <1>1, <1>2, <1>3, <1>4, <1>5 DEF SessionActs

LEMMA CountsInvariance == Spec => []CInv
<1>1. Init => CInv
  <2> SUFFICES ASSUME Init PROVE CountsInOrder
    BY DEF CInv
  <2>1. DOMAIN videos = {}
    BY DEF Init
  <2> QED
    BY <2>1 DEF Init, CountsInOrder, Saves, Idle
<1>2. IInv /\ OInv /\ VInv /\ FInv /\ FInv' /\ CInv /\ [Next]_vars => CInv'
  <2> SUFFICES ASSUME IInv, OInv, VInv, FInv, FInv', CInv, [Next]_vars PROVE CInv'
    OBVIOUS
  <2>1. ASSUME NEW s \in Session, SessionActs(s) PROVE CInv'
    <3>1. UNCHANGED resets
      BY <2>1, SessionsDoNotReset
    <3> QED
      BY <2>1, <3>1, SessionsKeepCounts DEF CInv, VInv
  <2>2. resets \in Nat
    BY DEF IInv, OtherTypes
  <2>3. CASE DeleteRows
    BY <2>2, <2>3 DEF DeleteRows, CInv
  <2>4. CASE RestartIds \/ RemoveVideos \/ RemoveComments
    BY <2>2, <2>4 DEF RestartIds, RemoveVideos, RemoveComments, VInv, CInv
  <2>5. CASE UNCHANGED vars
    BY <2>5, UntouchedKeepsCounts DEF vars, store, history, CInv
  <2> QED
    BY <2>1, <2>3, <2>4, <2>5 DEF Next, SessionActs
<1> QED
  BY Invariance, OrderInvariance, VideosInvariance, FewCount, <1>1, <1>2, PTL DEF Spec

\* Until all is deleted, comment_count is behind the comments of the file by
\* no more than the requests that are about to call incrementComment_count or
\* were cut short before, wherever requests overwrite each other's files.
THEOREM CommentsAreCounted == Spec => []CountKeepsUp
<1>1. CInv => CountKeepsUp
  BY DEF CInv, CountsInOrder, Counted, CountersOf, CutOf, CountKeepsUp
<1> QED
  BY CountsInvariance, <1>1, PTL
-----------------------------------------------------------------------------
(* The comments that were saved, until all is deleted.                     *)

\* No comment is saved twice, or is posted again after it was saved.
NInv ==
    /\ \A i, j \in DOMAIN stored : stored[i] = stored[j] => i = j
    /\ \A i \in DOMAIN stored : stored[i].no <= posted
    /\ \A s \in Session : request[s].at # "count" =>
         \A i \in DOMAIN stored : stored[i] \notin request[s].posts

LEMMA NoneAgain ==
    ASSUME NInv, NEW s \in Session, UNCHANGED <<stored, posted>>,
           \A u \in Session : u # s => request'[u] = request[u],
           \/ request'[s].posts = {}
           \/ request'[s].posts = request[s].posts /\ request[s].at # "count"
    PROVE  NInv'
<1>1. ASSUME NEW u \in Session, request'[u].at # "count", NEW i \in DOMAIN stored
      PROVE  stored[i] \notin request'[u].posts
  BY <1>1 DEF NInv
<1> QED
  BY <1>1 DEF NInv

LEMMA SavingNoneAgain ==
    ASSUME IInv, OInv, NInv, NEW s \in Session, Write(s), request[s].posts # {}
    PROVE  NInv'
<1>1. PICK y \in Request, c \in Comment :
        /\ Becomes(s, y) /\ y.at = "count" /\ request[s].posts = {c}
        /\ stored' = Append(stored, c)
  BY CommentIsSaved
<1>2. /\ request'[s] = y /\ \A u \in Session : u # s => request'[u] = request[u]
      /\ posted' = posted
  BY <1>1 DEF Becomes, IInv, Sessions, SessionTypes
<1>3. c.no <= posted /\ \A i \in DOMAIN stored : stored[i] # c
  BY <1>1 DEF Write, At, NInv, OInv, Posts, PostsInOrder
<1>4. \A u \in Session : u # s => c \notin request[u].posts
  BY <1>1 DEF OInv, Posts, PostsAreNew
<1>5. PICK n \in Nat : n = Len(stored)
  BY DEF IInv, OtherTypes
<1>6. /\ DOMAIN stored = 1 .. n /\ DOMAIN stored' = 1 .. n + 1
      /\ stored'[n + 1] = c /\ \A i \in 1 .. n : stored'[i] = stored[i]
      /\ \A i \in 1 .. n + 1 : i = n + 1 \/ i \in 1 .. n
  BY <1>1, <1>5 DEF IInv, OtherTypes
<1>7. \A i, j \in DOMAIN stored' : stored'[i] = stored'[j] => i = j
  BY <1>3, <1>6 DEF NInv
<1>8. \A i \in DOMAIN stored' : stored'[i].no <= posted'
  BY <1>2, <1>3, <1>6 DEF NInv
<1>9. ASSUME NEW u \in Session, request'[u].at # "count", NEW i \in DOMAIN stored'
      PROVE  stored'[i] \notin request'[u].posts
  <2>1. u # s /\ request'[u] = request[u]
    BY <1>1, <1>2, <1>9
  <2> QED
    BY <1>4, <1>6, <1>9, <2>1 DEF NInv
<1> QED
  BY <1>7, <1>8, <1>9 DEF NInv

LEMMA PostingNoneAgain ==
    ASSUME IInv, OInv, NInv, NEW s \in Session, NEW id \in DOMAIN videos, PostComment(s, id)
    PROVE  NInv'
<1>1. PICK c \in Comment :
        /\ c.no = posted + 1 /\ request'[s].posts = {c}
        /\ \A u \in Session : u # s => request'[u] = request[u]
  BY CommentIsNew
<1>2. posted' = posted + 1 /\ UNCHANGED stored /\ posted \in Nat
  BY DEF PostComment, history, IInv, OtherTypes
<1>3. \A i \in DOMAIN stored : /\ stored[i].no <= posted /\ stored[i].no \in Nat
                               /\ stored[i] # c
  <2>1. \A i \in DOMAIN stored : stored[i] \in Comment
    BY DEF IInv, OtherTypes
  <2>2. \A i \in DOMAIN stored : stored[i].no <= posted /\ stored[i].no \in Nat
    BY <2>1, MovieUploadAssumption DEF NInv, Comment
  <2> QED
    BY <1>1, <1>2, <2>2
<1>4. \A i \in DOMAIN stored' : stored'[i].no <= posted'
  BY <1>2, <1>3
<1>5. ASSUME NEW u \in Session, request'[u].at # "count", NEW i \in DOMAIN stored'
      PROVE  stored'[i] \notin request'[u].posts
  BY <1>1, <1>2, <1>3, <1>5 DEF NInv
<1> QED
  BY <1>2, <1>4, <1>5 DEF NInv

LEMMA NoneAgainInvariance == Spec => []NInv
<1>1. Init => NInv
  BY DEF Init, NInv
<1>2. IInv /\ OInv /\ NInv /\ [Next]_vars => NInv'
  <2> SUFFICES ASSUME IInv, OInv, NInv, [Next]_vars PROVE NInv'
    OBVIOUS
  <2>1. ASSUME NEW s \in Session,
               \/ IncrementView(s) \/ IncrementComment_count(s) \/ Enable(s)
               \/ \E stores \in BOOLEAN : Die(s, stores)
               \/ LoadComments(s) /\ EndSession(s)
               \/ MoveUploadedFile(s) /\ EndSession(s)
               \/ Convert(s) /\ EndSession(s)
               \/ MakeThumbnail(s) /\ EndSession(s)
        PROVE  NInv'
    <3>1. Plain(s, Idle) /\ Idle.posts = {}
      BY <2>1, PlainEnds DEF Idle
    <3>2. /\ request'[s] = Idle /\ \A u \in Session : u # s => request'[u] = request[u]
          /\ UNCHANGED <<stored, posted>>
      BY <3>1 DEF Plain, Becomes, IInv, Sessions, SessionTypes
    <3> QED
      BY <3>1, <3>2, NoneAgain
  <2>2. ASSUME NEW s \in Session, NEW step, GoTo(s, step),
               \/ Truncate(s)
               \/ Write(s) /\ request[s].posts = {}
               \/ WriteGone(s) \/ CreateComments(s)
               \/ MoveUploadedFile(s) /\ step = "convert"
               \/ Convert(s) /\ step = "thumbnail"
               \/ MakeThumbnail(s) /\ step = "create"
        PROVE  NInv'
    <3>1. PICK y \in Request : Plain(s, y) /\ y.posts = request[s].posts
      BY <2>2, PlainGoing
    <3>2. /\ request'[s] = y /\ \A u \in Session : u # s => request'[u] = request[u]
          /\ UNCHANGED <<stored, posted>>
      BY <3>1 DEF Plain, Becomes, IInv, Sessions, SessionTypes
    <3>3. request[s].at # "count"
      BY <2>2 DEF Truncate, Write, WriteGone, CreateComments, MoveUploadedFile, Convert,
                  MakeThumbnail, At
    <3> QED
      BY <3>1, <3>2, <3>3, NoneAgain
  <2>3. ASSUME NEW s \in Session,
               \/ \E t \in DOMAIN opened, id \in DOMAIN videos : Play(s, id, t)
               \/ \E t \in DOMAIN opened : Upload(s, t, TRUE)
               \/ AddVideo(s)
        PROVE  NInv'
    <3>1. PICK y \in Request : Plain(s, y) /\ y.posts = {}
      BY <2>3, PlainBeginning
    <3>2. /\ request'[s] = y /\ \A u \in Session : u # s => request'[u] = request[u]
          /\ UNCHANGED <<stored, posted>>
      BY <3>1 DEF Plain, Becomes, IInv, Sessions, SessionTypes
    <3> QED
      BY <3>1, <3>2, NoneAgain
  <2>4. ASSUME NEW s \in Session, LoadComments(s), ~ EndSession(s) PROVE NInv'
    <3>1. PICK y \in Request : Becomes(s, y) /\ y.posts = request[s].posts
      BY <2>4, DocumentIsMade
    <3>2. /\ request'[s] = y /\ \A u \in Session : u # s => request'[u] = request[u]
          /\ UNCHANGED <<stored, posted>> /\ request[s].at # "count"
      BY <2>4, <3>1 DEF Becomes, LoadComments, At, IInv, Sessions, SessionTypes
    <3> QED
      BY <3>1, <3>2, NoneAgain
  <2>5. /\ \A s \in Session : Write(s) /\ request[s].posts # {} => NInv'
        /\ \A s \in Session : \A id \in DOMAIN videos : PostComment(s, id) => NInv'
    BY SavingNoneAgain, PostingNoneAgain
  <2>6. CASE \/ \E s \in Session : OpenPage(s)
             \/ \E s \in Session : \E t \in DOMAIN opened : Upload(s, t, FALSE)
             \/ DeleteRows \/ RestartIds \/ RemoveVideos \/ UNCHANGED vars
    <3>1. UNCHANGED <<request, stored, posted>>
      BY <2>6 DEF OpenPage, Upload, DeleteRows, RestartIds, RemoveVideos, vars, history
    <3> QED
      BY <3>1 DEF NInv
  <2>7. CASE RemoveComments
    <3>1. UNCHANGED <<stored, posted>> /\ request \in [Session -> Request]
      BY <2>7 DEF RemoveComments, history, IInv, Sessions, SessionTypes
    <3>2. ASSUME NEW u \in Session
          PROVE  /\ request'[u].posts = request[u].posts
                 /\ request'[u].at # "count" => request[u].at # "count"
      <4>1. CASE At(u, "write")
        <5>1. request'[u] = [request[u] EXCEPT !.at = "writeGone"] /\ request[u].at = "write"
          BY <2>7, <4>1 DEF RemoveComments, At
        <5> QED
          BY <3>1, <5>1 DEF Request
      <4>2. CASE ~ At(u, "write")
        BY <2>7, <4>2 DEF RemoveComments
      <4> QED
        BY <4>1, <4>2
    <3> QED
      BY <3>1, <3>2 DEF NInv
  <2>8. ASSUME NEW s \in Session, Step(s) PROVE NInv'
    <3>1. /\ Truncate(s) => GoTo(s, "write")
          /\ Write(s) \/ WriteGone(s) => GoTo(s, AfterSave(s))
          /\ CreateComments(s) =>
                GoTo(s, IF file[request[s].id] = None THEN "truncate" ELSE "enable")
          /\ MoveUploadedFile(s) => EndSession(s) \/ GoTo(s, "convert")
          /\ Convert(s) => EndSession(s) \/ GoTo(s, "thumbnail")
          /\ MakeThumbnail(s) => EndSession(s) \/ GoTo(s, "create")
      BY DEF Truncate, Write, WriteGone, CreateComments, MoveUploadedFile, Convert,
             MakeThumbnail
    <3> QED
      BY <2>1, <2>2, <2>3, <2>4, <2>5, <2>8, <3>1 DEF Step
  <2>9. ASSUME NEW s \in Session, NEW t \in DOMAIN opened, NEW isUploaded \in BOOLEAN,
               Upload(s, t, isUploaded)
        PROVE  NInv'
    BY <2>3, <2>6, <2>9
  <2> QED
    BY <2>1, <2>3, <2>5, <2>6, <2>7, <2>8, <2>9 DEF Next
<1> QED
  BY Invariance, OrderInvariance, <1>1, <1>2, PTL DEF Spec

\* The i-th comment that was saved is there, or the document is full of later
\* ones, or one who had loaded the file before has saved, or is about to.
Holds(comments, i, saves, pairs, own) ==
    \/ \E k \in DOMAIN comments : comments[k] = saves[i]
    \/ /\ Len(comments) = COMMENTS_MAX
       /\ \A k \in DOMAIN comments, j \in 1 .. i : comments[k] # saves[j]
    \/ \E j \in DOMAIN saves : <<saves[i], saves[j]>> \in pairs
    \/ \E d \in own : <<saves[i], d>> \in pairs

\* What was saved is in the file, and in the documents that will be written.
SavesInOrder ==
    \A i \in DOMAIN stored :
        /\ file[stored[i].id] # None
        /\ file[stored[i].id].is = "text" =>
             Holds(file[stored[i].id].comments, i, stored, overtook, {})
        /\ \A s \in Session : Saves(s) /\ request[s].id = stored[i].id =>
             Holds(request[s].dom, i, stored, overtook, request[s].posts)

DInv == resets = 0 => SavesInOrder

\* A step that saves no comment: the file it makes is one that nobody has
\* commented on yet.
LEMMA SavesGoOn ==
    ASSUME IInv, SavesInOrder, NEW s \in Session, UNCHANGED <<stored, overtook>>,
           \A u \in Session : u # s => request'[u] = request[u],
           \A id \in Id : \/ file'[id] = file[id]
                          \/ file'[id].is # "text" /\ file'[id] # None
                          \/ \A i \in DOMAIN stored : stored[i].id # id,
           Saves(s)' =>
               /\ request'[s].id = request[s].id /\ request'[s].posts = request[s].posts
               /\ \/ Saves(s) /\ request'[s].dom = request[s].dom
                  \/ \A i \in DOMAIN stored : stored[i].id = request[s].id =>
                        Holds(request'[s].dom, i, stored, overtook, request[s].posts)
    PROVE  SavesInOrder'
<1> SUFFICES ASSUME NEW i \in DOMAIN stored
             PROVE  /\ file'[stored[i].id] # None
                    /\ file'[stored[i].id].is = "text" =>
                         Holds(file'[stored[i].id].comments, i, stored, overtook, {})
                    /\ \A u \in Session : Saves(u)' /\ request'[u].id = stored[i].id =>
                         Holds(request'[u].dom, i, stored, overtook, request'[u].posts)
  BY DEF SavesInOrder
<1>1. stored[i].id \in Id
  <2>1. stored[i] \in Comment
    BY DEF IInv, OtherTypes
  <2> QED
    BY <2>1 DEF Comment
<1>2. /\ file'[stored[i].id] # None
      /\ file'[stored[i].id].is = "text" =>
           Holds(file'[stored[i].id].comments, i, stored, overtook, {})
  BY <1>1 DEF SavesInOrder
<1>3. ASSUME NEW u \in Session, Saves(u)', request'[u].id = stored[i].id
      PROVE  Holds(request'[u].dom, i, stored, overtook, request'[u].posts)
  <2>1. CASE u = s
    BY <1>3, <2>1 DEF SavesInOrder
  <2>2. CASE u # s
    <3>1. Saves(u) /\ request[u].id = stored[i].id /\ request'[u] = request[u]
      BY <1>3, <2>2 DEF Saves
    <3> QED
      BY <3>1 DEF SavesInOrder
  <2> QED
    BY <2>1, <2>2
<1> QED
  BY <1>2, <1>3

\* The requests that end, begin, or are given their video.
LEMMA OtherStepsKeepSaves ==
    ASSUME IInv, OInv, SavesInOrder, NEW s \in Session,
           \/ IncrementView(s) \/ IncrementComment_count(s) \/ Enable(s)
           \/ \E stores \in BOOLEAN : Die(s, stores)
           \/ LoadComments(s) /\ EndSession(s)
           \/ MoveUploadedFile(s) /\ EndSession(s)
           \/ Convert(s) /\ EndSession(s)
           \/ MakeThumbnail(s) /\ EndSession(s)
           \/ \E t \in DOMAIN opened, id \in DOMAIN videos : Play(s, id, t)
           \/ \E t \in DOMAIN opened : Upload(s, t, TRUE)
           \/ \E id \in DOMAIN videos : PostComment(s, id)
           \/ AddVideo(s)
    PROVE  SavesInOrder'
<1>1. UNCHANGED <<file, stored, overtook>>
  BY DEF IncrementView, IncrementComment_count, Enable, Die, LoadComments, MoveUploadedFile,
         Convert, MakeThumbnail, Play, Upload, PostComment, AddVideo, store, history
<1>2. /\ request'[s].at \in {"idle", "view", "insert", "load", "move"}
      /\ \A u \in Session : u # s => request'[u] = request[u]
  <2>1. CASE \E id \in DOMAIN videos : PostComment(s, id)
    BY <2>1, CommentIsNew
  <2>2. CASE \/ \E t \in DOMAIN opened, id \in DOMAIN videos : Play(s, id, t)
             \/ \E t \in DOMAIN opened : Upload(s, t, TRUE)
             \/ AddVideo(s)
    <3>1. PICK y \in Request : Plain(s, y) /\ y.at \in {"view", "insert", "move"}
      BY <2>2, PlainBeginning
    <3> QED
      BY <3>1 DEF Plain, Becomes, IInv, Sessions, SessionTypes
  <2>3. CASE \/ IncrementView(s) \/ IncrementComment_count(s) \/ Enable(s)
             \/ \E stores \in BOOLEAN : Die(s, stores)
             \/ LoadComments(s) /\ EndSession(s)
             \/ MoveUploadedFile(s) /\ EndSession(s)
             \/ Convert(s) /\ EndSession(s)
             \/ MakeThumbnail(s) /\ EndSession(s)
    <3>1. Plain(s, Idle) /\ Idle.at = "idle"
      BY <2>3, PlainEnds, Idleness
    <3> QED
      BY <3>1 DEF Plain, Becomes, IInv, Sessions, SessionTypes
  <2> QED
    BY <2>1, <2>2, <2>3
<1>3. ~ Saves(s)'
  BY <1>2 DEF Saves
<1> QED
  BY <1>1, <1>2, <1>3, SavesGoOn

LEMMA GoingKeepsSaves ==
    ASSUME IInv, OInv, VideosInOrder, SavesInOrder, NEW s \in Session, NEW step,
           GoTo(s, step),
           \/ Truncate(s)
           \/ Write(s) /\ request[s].posts = {}
           \/ CreateComments(s)
           \/ MoveUploadedFile(s) /\ step = "convert"
           \/ Convert(s) /\ step = "thumbnail"
           \/ MakeThumbnail(s) /\ step = "create"
    PROVE  SavesInOrder'
<1>1. PICK y \in Request : /\ Plain(s, y) /\ y.at = request'[s].at /\ y.id = request[s].id
                           /\ y.posts = request[s].posts /\ y.dom = request[s].dom
  BY PlainGoing
<1>2. request'[s] = y /\ \A u \in Session : u # s => request'[u] = request[u]
  BY <1>1 DEF Plain, Becomes, IInv, Sessions, SessionTypes
<1>3. UNCHANGED <<stored, overtook>>
  BY DEF Truncate, Write, CreateComments, MoveUploadedFile, Convert, MakeThumbnail, history
<1>4. ASSUME NEW id \in Id
      PROVE  \/ file'[id] = file[id]
             \/ file'[id].is # "text" /\ file'[id] # None
             \/ \A i \in DOMAIN stored : stored[i].id # id
  <2>1. file \in [Id -> File]
    BY DEF IInv, StoreTypes
  <2>2. CASE Truncate(s)
    BY <2>1, <2>2 DEF Truncate, Unreadable, None
  <2>3. CASE Write(s) /\ request[s].posts = {}
    <3>1. Uploads(s) /\ request[s].at # "enable"
      BY <2>3 DEF Write, At, Uploads, UploadsAt
    <3>2. \A i \in DOMAIN stored : stored[i].id # request[s].id
      BY <3>1 DEF VideosInOrder, RequestsHaveVideos, OwnVideo
    <3> QED
      BY <2>1, <2>3, <3>2 DEF Write
  <2>4. CASE UNCHANGED file
    BY <2>4
  <2> QED
    BY <2>2, <2>3, <2>4 DEF CreateComments, MoveUploadedFile, Convert, MakeThumbnail, store
<1>5. Saves(s)' => /\ request'[s].id = request[s].id /\ request'[s].posts = request[s].posts
                   /\ Saves(s) /\ request'[s].dom = request[s].dom
  BY <1>1, <1>2 DEF Saves, Plain
<1> QED
  BY <1>2, <1>3, <1>4, <1>5, SavesGoOn

\* What goes for the new comment leaves the document full, and what stays was
\* saved later.
LEMMA LaterStay ==
    ASSUME NInv, NEW comments \in Seq(Comment), stored \in Seq(Comment), NEW id,
           Within(comments, stored, id),
           NEW i \in DOMAIN stored, NEW k \in Nat, k <= Len(comments),
           NEW m \in DOMAIN comments, comments[m] = stored[i], m <= k
    PROVE  \A q \in DOMAIN comments : q > k =>
             \A j \in 1 .. i : comments[q] # stored[j]
<1>1. PICK place \in [DOMAIN comments -> DOMAIN stored] :
        /\ \A q \in DOMAIN comments : stored[place[q]] = comments[q]
        /\ \A p, q \in DOMAIN comments : p < q => place[p] < place[q]
  BY DEF Within
<1>2. place[m] = i
  BY <1>1 DEF NInv
<1> SUFFICES ASSUME NEW q \in DOMAIN comments, q > k, NEW j \in 1 .. i,
                    comments[q] = stored[j]
             PROVE  FALSE
  OBVIOUS
<1>3. DOMAIN stored = 1 .. Len(stored) /\ Len(stored) \in Nat /\ m \in Nat /\ q \in Nat
  OBVIOUS
<1>4. j \in DOMAIN stored /\ j <= i
  BY <1>3
<1>5. place[q] = j
  BY <1>1, <1>4 DEF NInv
<1>6. m < q
  BY <1>3
<1>7. place[m] < place[q]
  BY <1>1, <1>6
<1> QED
  BY <1>2, <1>3, <1>4, <1>5, <1>7

LEMMA WhatStays ==
    ASSUME NEW comments \in Seq(Comment), NEW k \in Nat, k <= Len(comments)
    PROVE  \A q \in 1 .. Len(comments) - k :
             SubSeq(comments, k + 1, Len(comments))[q] = comments[q + k]
  OBVIOUS

LEMMA Appended ==
    ASSUME NEW kept \in Seq(Comment), NEW c
    PROVE  /\ Len(Append(kept, c)) = Len(kept) + 1 /\ Append(kept, c)[Len(kept) + 1] = c
           /\ DOMAIN Append(kept, c) = 1 .. Len(kept) + 1
           /\ \A q \in 1 .. Len(kept) : Append(kept, c)[q] = kept[q]
  OBVIOUS

LEMMA AddingKeepsWhatItHolds ==
    ASSUME NInv, stored \in Seq(Comment), NEW comments \in Seq(Comment), NEW id,
           Within(comments, stored, id), NEW i \in DOMAIN stored,
           Holds(comments, i, stored, overtook, {}),
           NEW c \in Comment, \A j \in DOMAIN stored : stored[j] # c,
           NEW k \in Nat, k <= Len(comments), NEW kept \in Seq(Comment),
           kept = SubSeq(comments, k + 1, Len(comments)), Len(kept) = Len(comments) - k,
           k = 0 \/ Len(kept) + 1 = COMMENTS_MAX,
           k = 0 => Len(comments) < COMMENTS_MAX, NEW own
    PROVE  Holds(Append(kept, c), i, stored, overtook, own)
<1> DEFINE n == Len(comments)
           dom == Append(kept, c)
<1>1. n \in Nat /\ DOMAIN comments = 1 .. n /\ Len(kept) = n - k /\ k <= n
  OBVIOUS
<1>2. \A q \in 1 .. n - k : kept[q] = comments[q + k]
  BY WhatStays
<1> HIDE DEF n
<1>3. /\ n \in Nat /\ DOMAIN comments = 1 .. n /\ Len(kept) = n - k
      /\ \A q \in 1 .. n - k : kept[q] = comments[q + k] /\ q + k \in 1 .. n /\ q + k > k
      /\ \A m \in 1 .. n : m > k => m - k \in 1 .. n - k /\ (m - k) + k = m
  <2>1. \A q \in 1 .. n - k : q + k \in 1 .. n /\ q + k > k
    BY <1>1
  <2>2. \A m \in 1 .. n : m > k => m - k \in 1 .. n - k /\ (m - k) + k = m
    BY <1>1
  <2> QED
    BY <1>1, <1>2, <2>1, <2>2
<1>4. /\ Len(dom) = n - k + 1 /\ DOMAIN dom = 1 .. n - k + 1
      /\ dom[n - k + 1] = c /\ \A q \in 1 .. n - k : dom[q] = kept[q]
      /\ \A q \in 1 .. n - k + 1 : q = n - k + 1 \/ q \in 1 .. n - k
      /\ \A q \in 1 .. n - k : q \in 1 .. n - k + 1
  <2>1. n - k \in Nat
    BY <1>1
  <2>2. \A p \in Nat : /\ \A q \in 1 .. p + 1 : q = p + 1 \/ q \in 1 .. p
                       /\ \A q \in 1 .. p : q \in 1 .. p + 1
    OBVIOUS
  <2>3. PICK p \in Nat : p = n - k
    BY <2>1
  <2>4. /\ Len(dom) = p + 1 /\ DOMAIN dom = 1 .. p + 1
        /\ dom[p + 1] = c /\ \A q \in 1 .. p : dom[q] = kept[q]
    <3>1. p = Len(kept)
      BY <1>1, <2>3
    <3>2. /\ Len(dom) = Len(kept) + 1 /\ DOMAIN dom = 1 .. Len(kept) + 1
          /\ dom[Len(kept) + 1] = c /\ \A q \in 1 .. Len(kept) : dom[q] = kept[q]
      BY Appended
    <3> HIDE DEF dom
    <3> QED
      BY <3>1, <3>2
  <2> QED
    BY <2>2, <2>3, <2>4
<1>5. /\ DOMAIN stored = 1 .. Len(stored) /\ Len(stored) \in Nat
      /\ \A j \in 1 .. i : j \in DOMAIN stored
  OBVIOUS
<1>6. k # 0 => Len(dom) = COMMENTS_MAX
  BY <1>3, <1>4
<1> HIDE DEF dom
\* what is later than the i-th is so in the document as well
<1>7. ASSUME \A q \in DOMAIN comments : q > k => \A j \in 1 .. i : comments[q] # stored[j]
      PROVE  \A q \in DOMAIN dom, j \in 1 .. i : dom[q] # stored[j]
  <2> SUFFICES ASSUME NEW q \in DOMAIN dom, NEW j \in 1 .. i PROVE dom[q] # stored[j]
    OBVIOUS
  <2>1. CASE q = n - k + 1
    BY <1>4, <1>5, <2>1
  <2>2. CASE q # n - k + 1
    <3>1. q \in 1 .. n - k
      BY <1>4, <2>2
    <3>2. dom[q] = comments[q + k] /\ q + k \in DOMAIN comments /\ q + k > k
      BY <1>3, <1>4, <3>1
    <3> QED
      BY <1>7, <3>2
  <2> QED
    BY <2>1, <2>2
<1>8. CASE \E m \in DOMAIN comments : comments[m] = stored[i]
  <2>1. PICK m \in DOMAIN comments : comments[m] = stored[i]
    BY <1>8
  <2>2. CASE m > k
    <3>1. m \in 1 .. n /\ k \in Nat /\ n \in Nat /\ m > k
      BY <1>3, <2>1, <2>2
    <3>2. PICK q \in 1 .. n - k : m = q + k
      <4>1. m - k \in 1 .. n - k /\ m = (m - k) + k
        BY <3>1
      <4> QED
        BY <4>1
    <3>3. q \in DOMAIN dom /\ dom[q] = stored[i]
      BY <1>4, <2>1, <3>2
    <3> QED
      BY <3>3 DEF Holds, dom
  <2>3. CASE ~ m > k
    <3>1. m <= k /\ k # 0
      BY <1>3, <2>3
    <3>2. \A q \in DOMAIN comments : q > k => \A j \in 1 .. i : comments[q] # stored[j]
      BY <2>1, <3>1, LaterStay
    <3> QED
      BY <1>6, <1>7, <3>1, <3>2 DEF Holds, dom
  <2> QED
    BY <2>2, <2>3
<1>9. CASE /\ Len(comments) = COMMENTS_MAX
           /\ \A q \in DOMAIN comments, j \in 1 .. i : comments[q] # stored[j]
  <2>1. k # 0
    BY <1>3, <1>9
  <2> QED
    BY <1>6, <1>7, <1>9, <2>1 DEF Holds, dom
<1>10. CASE \E j \in DOMAIN stored : <<stored[i], stored[j]>> \in overtook
  BY <1>10 DEF Holds
<1> QED
  BY <1>8, <1>9, <1>10 DEF Holds

LEMMA LoadingKeepsSaves ==
    ASSUME IInv, OInv, NInv, SavesInOrder, NEW s \in Session, LoadComments(s),
           ~ EndSession(s)
    PROVE  SavesInOrder'
<1>1. PICK y \in Request, kept \in Seq(Comment), c \in request[s].posts, k \in Nat :
        LET comments == file[request[s].id].comments IN
        /\ Becomes(s, y) /\ y.id = request[s].id /\ y.posts = request[s].posts
        /\ y.dom = Append(kept, c)
        /\ file[request[s].id].is = "text"
        /\ k <= Len(comments) /\ kept = SubSeq(comments, k + 1, Len(comments))
        /\ Len(kept) = Len(comments) - k
        /\ k = 0 \/ Len(kept) + 1 = COMMENTS_MAX
        /\ k = 0 => Len(comments) < COMMENTS_MAX
  BY DocumentIsMade
<1>2. request'[s] = y /\ \A u \in Session : u # s => request'[u] = request[u]
  BY <1>1 DEF Becomes, IInv, Sessions, SessionTypes
<1>3. UNCHANGED <<file, stored, overtook>>
  BY DEF LoadComments, store
<1>4. PICK comments \in Seq(Comment) : comments = file[request[s].id].comments
  <2>1. file[request[s].id] \in File
    BY RequestTypes DEF IInv, StoreTypes
  <2> QED
    BY <2>1 DEF File
<1>5. /\ stored \in Seq(Comment) /\ request[s].id \in Id
      /\ c \in Comment /\ \A j \in DOMAIN stored : stored[j] # c
  <2>1. request[s].at # "count"
    BY DEF LoadComments, At
  <2> QED
    BY <2>1, RequestTypes DEF NInv, IInv, OtherTypes
<1>6. Within(comments, stored, request[s].id)
  BY <1>4, <1>5 DEF OInv
<1>7. ASSUME NEW i \in DOMAIN stored, stored[i].id = request[s].id
      PROVE  Holds(y.dom, i, stored, overtook, request[s].posts)
  <2>1. Holds(comments, i, stored, overtook, {})
    BY <1>1, <1>4, <1>7 DEF SavesInOrder
  <2>2. /\ k <= Len(comments) /\ kept = SubSeq(comments, k + 1, Len(comments))
        /\ Len(kept) = Len(comments) - k
        /\ k = 0 \/ Len(kept) + 1 = COMMENTS_MAX
        /\ k = 0 => Len(comments) < COMMENTS_MAX
    BY <1>1, <1>4
  <2>3. Holds(Append(kept, c), i, stored, overtook, request[s].posts)
    BY <1>5, <1>6, <2>1, <2>2, AddingKeepsWhatItHolds
  <2> QED
    BY <1>1, <2>3
<1> QED
  BY <1>1, <1>2, <1>3, <1>7, SavesGoOn

\* The others who have the file in memory do not know of the new comment:
\* they are noted in overtook.
LEMMA SavingKeepsSaves ==
    ASSUME IInv, OInv, SavesInOrder, NEW s \in Session, Write(s), request[s].posts # {}
    PROVE  SavesInOrder'
<1>1. PICK y \in Request, kept \in Seq(Comment), c \in Comment :
        /\ Becomes(s, y) /\ y.at = "count" /\ y.id = request[s].id
        /\ y.posts = {c} /\ request[s].posts = {c} /\ c.id = request[s].id
        /\ request[s].dom = Append(kept, c) /\ Within(kept, stored, c.id)
        /\ stored' = Append(stored, c)
        /\ overtook' = overtook \cup ({c} \X HasInMemory(Session \ {s}, c.id))
        /\ \E f \in {Text(request[s].dom), Unreadable} : file' = [file EXCEPT ![c.id] = f]
        /\ UNCHANGED cut
  BY CommentIsSaved
<1>2. request'[s] = y /\ \A u \in Session : u # s => request'[u] = request[u]
  BY <1>1 DEF Becomes, IInv, Sessions, SessionTypes
<1>3. /\ stored \in Seq(Comment) /\ file \in [Id -> File] /\ c.id \in Id
      /\ Saves(s) /\ overtook \subseteq overtook'
  BY <1>1 DEF IInv, OtherTypes, StoreTypes, Comment, Write, At, Saves
<1>4. PICK n \in Nat :
        /\ DOMAIN stored = 1 .. n /\ DOMAIN stored' = 1 .. n + 1
        /\ stored'[n + 1] = c /\ \A i \in 1 .. n : stored'[i] = stored[i]
        /\ \A i \in 1 .. n + 1 : i = n + 1 \/ i \in 1 .. n
        /\ n + 1 \in 1 .. n + 1 /\ \A i \in 1 .. n : i \in 1 .. n + 1
        /\ \A i \in 1 .. n : \A j \in 1 .. i : j \in 1 .. n
  <2>1. Len(stored) \in Nat
    BY <1>3
  <2> QED
    BY <1>1, <1>3, <2>1
\* what they hold they go on holding, once the comment of s is saved
<1>5. ASSUME NEW comments, NEW i \in 1 .. n, NEW own,
             Holds(comments, i, stored, overtook, own)
      PROVE  /\ Holds(comments, i, stored', overtook', own)
             /\ own \subseteq {c} => Holds(comments, i, stored', overtook', {})
  <2>1. CASE \E k \in DOMAIN comments : comments[k] = stored[i]
    BY <1>4, <2>1 DEF Holds
  <2>2. CASE /\ Len(comments) = COMMENTS_MAX
             /\ \A k \in DOMAIN comments, j \in 1 .. i : comments[k] # stored[j]
    <3>1. \A j \in 1 .. i : stored'[j] = stored[j]
      BY <1>4
    <3> QED
      BY <2>2, <3>1 DEF Holds
  <2>3. CASE \E j \in DOMAIN stored : <<stored[i], stored[j]>> \in overtook
    <3>1. PICK j \in 1 .. n : <<stored[i], stored[j]>> \in overtook
      BY <1>4, <2>3
    <3>2. j \in DOMAIN stored' /\ <<stored'[i], stored'[j]>> \in overtook'
      BY <1>3, <1>4, <3>1
    <3> QED
      BY <3>2 DEF Holds
  <2>4. CASE \E d \in own : <<stored[i], d>> \in overtook
    <3>1. PICK d \in own : <<stored'[i], d>> \in overtook'
      BY <1>3, <1>4, <2>4
    <3>2. d = c => n + 1 \in DOMAIN stored' /\ <<stored'[i], stored'[n + 1]>> \in overtook'
      BY <1>4, <3>1
    <3> QED
      BY <3>1, <3>2 DEF Holds
  <2> QED
    BY <1>5, <2>1, <2>2, <2>3, <2>4 DEF Holds
<1>6. ASSUME NEW id \in Id
      PROVE  /\ file[id] # None => file'[id] # None
             /\ file'[id].is = "text" =>
                  file'[id] = file[id] \/ (id = c.id /\ file'[id].comments = request[s].dom)
             /\ file'[c.id] # None
             /\ file'[c.id].is = "text" => file'[c.id].comments = request[s].dom
  BY <1>1, <1>3, <1>6 DEF Text, Unreadable, None
<1>7. ASSUME NEW u \in Session, Saves(u)'
      PROVE  u # s /\ Saves(u) /\ request'[u] = request[u]
  BY <1>1, <1>2, <1>7 DEF Saves
\* the comments that were saved before
<1>8. ASSUME NEW i \in 1 .. n
      PROVE  /\ file'[stored[i].id] # None
             /\ file'[stored[i].id].is = "text" =>
                  Holds(file'[stored[i].id].comments, i, stored', overtook', {})
             /\ \A u \in Session : Saves(u)' /\ request'[u].id = stored[i].id =>
                  Holds(request'[u].dom, i, stored', overtook', request'[u].posts)
  <2>1. stored[i].id \in Id
    <3>1. stored[i] \in Comment
      BY <1>3, <1>4
    <3> QED
      BY <3>1 DEF Comment
  <2>2. file'[stored[i].id] # None
    BY <1>4, <1>6, <2>1 DEF SavesInOrder
  <2>3. ASSUME file'[stored[i].id].is = "text"
        PROVE  Holds(file'[stored[i].id].comments, i, stored', overtook', {})
    <3>1. CASE file'[stored[i].id] = file[stored[i].id]
      <4>1. Holds(file[stored[i].id].comments, i, stored, overtook, {})
        BY <1>4, <2>3, <3>1 DEF SavesInOrder
      <4> QED
        BY <1>5, <3>1, <4>1
    <3>2. CASE stored[i].id = c.id /\ file'[stored[i].id].comments = request[s].dom
      <4>1. Holds(request[s].dom, i, stored, overtook, request[s].posts)
        BY <1>1, <1>3, <1>4, <3>2 DEF SavesInOrder
      <4> QED
        BY <1>1, <1>5, <3>2, <4>1
    <3> QED
      BY <1>6, <2>1, <2>3, <3>1, <3>2
  <2>4. ASSUME NEW u \in Session, Saves(u)', request'[u].id = stored[i].id
        PROVE  Holds(request'[u].dom, i, stored', overtook', request'[u].posts)
    <3>1. Saves(u) /\ request'[u] = request[u]
      BY <1>7, <2>4
    <3>2. Holds(request[u].dom, i, stored, overtook, request[u].posts)
      BY <1>4, <2>4, <3>1 DEF SavesInOrder
    <3> QED
      BY <1>5, <3>1, <3>2
  <2> QED
    BY <2>2, <2>3, <2>4
\* the new one
<1>9. file'[c.id].is = "text" => Holds(file'[c.id].comments, n + 1, stored', overtook', {})
  <2>1. \E k \in DOMAIN request[s].dom : request[s].dom[k] = c
    <3>1. Len(kept) + 1 \in DOMAIN Append(kept, c) /\ Append(kept, c)[Len(kept) + 1] = c
      BY <1>1
    <3> QED
      BY <1>1, <3>1
  <2> QED
    BY <1>3, <1>4, <1>6, <2>1 DEF Holds
<1>10. ASSUME NEW u \in Session, Saves(u)', request'[u].id = c.id
       PROVE  Holds(request'[u].dom, n + 1, stored', overtook', request'[u].posts)
  <2>1. u \in Session \ {s} /\ Saves(u) /\ request'[u] = request[u] /\ request[u].id = c.id
    BY <1>7, <1>10
  <2>2. PICK d : d \in request[u].posts
    BY <2>1 DEF Saves
  <2>3. d \in HasInMemory(Session \ {s}, c.id)
    BY <2>1, <2>2 DEF HasInMemory, Saves
  <2>4. <<stored'[n + 1], d>> \in overtook' /\ d \in request'[u].posts
    BY <1>1, <1>4, <2>1, <2>2, <2>3
  <2> QED
    BY <2>4 DEF Holds
<1>11. ASSUME NEW i \in DOMAIN stored'
       PROVE  /\ file'[stored'[i].id] # None
              /\ file'[stored'[i].id].is = "text" =>
                   Holds(file'[stored'[i].id].comments, i, stored', overtook', {})
              /\ \A u \in Session : Saves(u)' /\ request'[u].id = stored'[i].id =>
                   Holds(request'[u].dom, i, stored', overtook', request'[u].posts)
  <2>1. CASE i \in 1 .. n
    BY <1>4, <1>8, <2>1
  <2>2. CASE i = n + 1
    BY <1>3, <1>4, <1>6, <1>9, <1>10, <2>2
  <2> QED
    BY <1>4, <1>11, <2>1, <2>2
<1> QED
  BY <1>11 DEF SavesInOrder

LEMMA UntouchedKeepsSaves ==
    ASSUME SavesInOrder, UNCHANGED <<file, request, stored, overtook>>
    PROVE  SavesInOrder'
  BY DEF SavesInOrder, Saves

LEMMA SessionsKeepSaves ==
    ASSUME IInv, OInv, NInv, VideosInOrder, SavesInOrder, NEW s \in Session, SessionActs(s)
    PROVE  SavesInOrder'
<1>1. CASE \/ IncrementView(s) \/ IncrementComment_count(s) \/ Enable(s)
           \/ \E stores \in BOOLEAN : Die(s, stores)
           \/ LoadComments(s) /\ EndSession(s)
           \/ MoveUploadedFile(s) /\ EndSession(s)
           \/ Convert(s) /\ EndSession(s)
           \/ MakeThumbnail(s) /\ EndSession(s)
           \/ \E t \in DOMAIN opened, id \in DOMAIN videos : Play(s, id, t)
           \/ \E t \in DOMAIN opened : Upload(s, t, TRUE)
           \/ \E id \in DOMAIN videos : PostComment(s, id)
           \/ AddVideo(s)
  BY <1>1, OtherStepsKeepSaves
<1>2. ASSUME NEW step, GoTo(s, step),
             \/ Truncate(s)
             \/ Write(s) /\ request[s].posts = {}
             \/ CreateComments(s)
             \/ MoveUploadedFile(s) /\ step = "convert"
             \/ Convert(s) /\ step = "thumbnail"
             \/ MakeThumbnail(s) /\ step = "create"
      PROVE  SavesInOrder'
  BY <1>2, GoingKeepsSaves
<1>3. CASE \/ LoadComments(s) /\ ~ EndSession(s)
           \/ Write(s) /\ request[s].posts # {}
  BY <1>3, LoadingKeepsSaves, SavingKeepsSaves
<1>4. CASE OpenPage(s)
  BY <1>4, UntouchedKeepsSaves DEF OpenPage, store, history
<1>5. ASSUME NEW t \in DOMAIN opened, NEW isUploaded \in BOOLEAN, Upload(s, t, isUploaded)
      PROVE  SavesInOrder'
  <2>1. CASE isUploaded = TRUE
    BY <1>1, <1>5, <2>1
  <2>2. CASE isUploaded = FALSE
    BY <1>5, <2>2, UntouchedKeepsSaves DEF Upload, store
  <2> QED
    BY <2>1, <2>2
<1>6. ~ WriteGone(s)
  BY DEF WriteGone, At, VideosInOrder, RequestsHaveVideos
<1>7. /\ Truncate(s) => GoTo(s, "write")
      /\ Write(s) => GoTo(s, AfterSave(s))
      /\ CreateComments(s) =>
            GoTo(s, IF file[request[s].id] = None THEN "truncate" ELSE "enable")
      /\ MoveUploadedFile(s) => EndSession(s) \/ GoTo(s, "convert")
      /\ Convert(s) => EndSession(s) \/ GoTo(s, "thumbnail")
      /\ MakeThumbnail(s) => EndSession(s) \/ GoTo(s, "create")
  BY DEF Truncate, Write, CreateComments, MoveUploadedFile, Convert, MakeThumbnail
<1>8. CASE Step(s)
  BY <1>1, <1>2, <1>3, <1>6, <1>7, <1>8 DEF Step
<1> QED
  BY <1>1, <1>4, <1>5, <1>8 DEF SessionActs

LEMMA SavesInvariance == Spec => []DInv
<1>1. Init => DInv
  BY DEF Init, DInv, SavesInOrder
<1>2. IInv /\ OInv /\ NInv /\ VInv /\ DInv /\ [Next]_vars => DInv'
  <2> SUFFICES ASSUME IInv, OInv, NInv, VInv, DInv, [Next]_vars PROVE DInv'
    OBVIOUS
  <2>1. ASSUME NEW s \in Session, SessionActs(s) PROVE DInv'
    <3>1. UNCHANGED resets
      BY <2>1, SessionsDoNotReset
    <3> QED
      BY <2>1, <3>1, SessionsKeepSaves DEF DInv, VInv
  <2>2. resets \in Nat
    BY DEF IInv, OtherTypes
  <2>3. CASE DeleteRows
    BY <2>2, <2>3 DEF DeleteRows, DInv
  <2>4. CASE RestartIds \/ RemoveVideos \/ RemoveComments
    BY <2>2, <2>4 DEF RestartIds, RemoveVideos, RemoveComments, VInv, DInv
  <2>5. CASE UNCHANGED vars
    BY <2>5, UntouchedKeepsSaves DEF vars, store, history, DInv
  <2> QED
    BY <2>1, <2>3, <2>4, <2>5 DEF Next, SessionActs
<1> QED
  BY Invariance, OrderInvariance, NoneAgainInvariance, VideosInvariance, <1>1, <1>2, PTL
  DEF Spec

\* Until all is deleted, a comment that was saved (thread.php l.17) is in its
\* file, unless the file is full of comments that were saved later, or a
\* request that had loaded the file before has saved its own after, or the
\* file cannot be read: it is being saved, or somebody died when he saved it,
\* or two have written it at the same time.
THEOREM SavedCommentsStay == Spec => []SavedIsKept
<1>1. IInv /\ DInv /\ RInv => SavedIsKept
  <2> SUFFICES ASSUME IInv, DInv, RInv, resets = 0, NEW i \in DOMAIN stored
               PROVE  LET f == file[stored[i].id].comments IN
                      \/ \E k \in DOMAIN f : f[k] = stored[i]
                      \/ /\ Len(f) = COMMENTS_MAX
                         /\ \A k \in DOMAIN f, j \in 1 .. i : f[k] # stored[j]
                      \/ \E j \in DOMAIN stored : <<stored[i], stored[j]>> \in overtook
                      \/ Unsound(stored[i].id)
    BY DEF SavedIsKept
  <2>1. stored[i].id \in Id
    <3>1. stored[i] \in Comment
      BY DEF IInv, OtherTypes
    <3> QED
      BY <3>1 DEF Comment
  <2>2. /\ file[stored[i].id] # None
        /\ file[stored[i].id].is = "text" =>
             Holds(file[stored[i].id].comments, i, stored, overtook, {})
    BY DEF DInv, SavesInOrder
  <2>3. file[stored[i].id].is \in {"none", "unreadable", "text"}
    BY <2>1 DEF IInv, StoreTypes, File
  <2>4. CASE file[stored[i].id].is = "text"
    BY <2>2, <2>4 DEF Holds
  <2>5. CASE file[stored[i].id].is # "text"
    BY <2>1, <2>2, <2>3, <2>5 DEF RInv
  <2> QED
    BY <2>4, <2>5
<1> QED
  BY Invariance, SavesInvariance, CausesInvariance, <1>1, PTL
=============================================================================
