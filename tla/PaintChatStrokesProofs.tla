----------------------- MODULE PaintChatStrokesProofs -----------------------
(***************************************************************************)
(* Proofs about what the paint chat server sends, for any number of        *)
(* connections and strokes: until a repeated close tears two mates apart,  *)
(* each stroke is drawn on one canvas only, and people draw on a canvas    *)
(* one after another.                                                      *)
(***************************************************************************)
EXTENDS PaintChatProofs

\* While a message is relayed, the listeners that are left belong to its
\* author, and only the last of them can lead to somebody there.
MessageGoesOn ==
    turn.event = "message" =>
        /\ turn.user \in There
        /\ todo # <<>>
        /\ Range(todo) \subseteq Range(onMessage[turn.user])
        /\ \A k \in 1 .. Len(todo) : todo[k] \in There => k = Len(todo)

\* What was sent came from messages before, and nothing yet of the message
\* that is being relayed.
StrokesAreOld ==
    \A u \in User : \A k \in DOMAIN inbox[u] :
        /\ inbox[u][k].nr <= strokes
        /\ turn.event = "message" => inbox[u][k].nr < strokes

\* Strokes go from and to connections that have been accepted.
FramesEntered ==
    \A u \in User : \A k \in DOMAIN inbox[u] :
        wire[u] # "none" /\ wire[inbox[u][k].from] # "none"

\* Of the authors on the canvas of someone there, only the mate is there too.
AuthorIsMate ==
    \A u \in User : \A k \in DOMAIN inbox[u] :
        Present(u) /\ Present(inbox[u][k].from) => inbox[u][k].from = Mate(u)

SentInOrder ==
    /\ StrokesAreOld
    /\ FramesEntered
    /\ AuthorIsMate
    /\ StrokeGoesToOne
    /\ AuthorsTakeTurns

StrokesInv == torn \/ (MessageGoesOn /\ SentInOrder)
-----------------------------------------------------------------------------
\* A sequence and one more element.
LEMMA OneMore ==
    ASSUME NEW S, NEW s \in Seq(S), NEW e \in S
    PROVE  /\ Len(s) \in Nat /\ DOMAIN s = 1 .. Len(s)
           /\ Len(Append(s, e)) = Len(s) + 1
           /\ DOMAIN Append(s, e) = 1 .. Len(s) + 1
           /\ \A k \in 1 .. Len(s) : Append(s, e)[k] = s[k]
           /\ Append(s, e)[Len(s) + 1] = e
BY AppendProperties

LEMMA InboxType ==
    ASSUME TypeOK, NEW u \in User
    PROVE  /\ inbox[u] \in Seq(Frame) /\ Len(inbox[u]) \in Nat
           /\ DOMAIN inbox[u] = 1 .. Len(inbox[u])
           /\ \A k \in DOMAIN inbox[u] : inbox[u][k] \in Frame
<1>1. inbox[u] \in Seq(Frame)
  BY DEF TypeOK
<1> DEFINE s == inbox[u]
<1>2. s \in Seq(Frame)
  BY <1>1
<1> HIDE DEF s
<1>3. Len(s) \in Nat /\ DOMAIN s = 1 .. Len(s) /\ \A k \in DOMAIN s : s[k] \in Frame
  BY <1>2
<1> QED
  BY <1>2, <1>3 DEF s

LEMMA FrameParts ==
    ASSUME TypeOK, NEW u \in User, NEW k \in DOMAIN inbox[u]
    PROVE  inbox[u][k].from \in User /\ inbox[u][k].nr \in Nat
<1>1. inbox[u][k] \in Frame
  BY InboxType
<1> QED
  BY <1>1, BoundsAssumption DEF Frame, Stroke

\* What the library does with a frame.
LEMMA Delivery ==
    ASSUME NEW box \in [User -> Seq(Frame)], NEW u \in User, NEW frame \in Frame
    PROVE  /\ wire[u] = "open" => Deliver(box, u, frame)[u] = Append(box[u], frame)
           /\ wire[u] # "open" => Deliver(box, u, frame) = box
           /\ \A x \in User : x # u => Deliver(box, u, frame)[x] = box[x]
BY DEF Deliver

\* A step that sends nothing, and takes nobody from a mate who stays.
LEMMA SilentStep ==
    ASSUME TypeOK, TypeOK', ~torn, SentInOrder, UNCHANGED inbox,
           strokes <= strokes',
           turn'.event = "message" => strokes < strokes' \/ turn.event = "message",
           \A x \in User : wire[x] # "none" =>
               wire'[x] # "none" /\ (Present(x)' => Present(x)),
           \A x \in User : \/ Mate(x)' = Mate(x)
                           \/ Mate(x) = Base
                           \/ ~ ({x, Mate(x)} \subseteq There')
    PROVE  SentInOrder'
<1>1. StrokesAreOld'
  <2> SUFFICES ASSUME NEW u \in User, NEW k \in DOMAIN inbox[u]
               PROVE  /\ inbox[u][k].nr <= strokes'
                      /\ turn'.event = "message" => inbox[u][k].nr < strokes'
    BY DEF StrokesAreOld
  <2>1. strokes \in Nat /\ strokes' \in Nat /\ inbox[u][k].nr \in Nat
    BY FrameParts, BoundsAssumption DEF TypeOK
  <2>2. /\ inbox[u][k].nr <= strokes
        /\ turn.event = "message" => inbox[u][k].nr < strokes
    BY DEF SentInOrder, StrokesAreOld
  <2> QED
    BY <2>1, <2>2
<1>2. ASSUME NEW u \in User, NEW k \in DOMAIN inbox[u]
      PROVE  /\ inbox[u][k].from \in User
             /\ wire[u] # "none" /\ wire[inbox[u][k].from] # "none"
  BY FrameParts DEF SentInOrder, FramesEntered
<1>3. FramesEntered'
  BY <1>2 DEF FramesEntered
<1>4. AuthorIsMate'
  <2> SUFFICES ASSUME NEW u \in User, NEW k \in DOMAIN inbox[u], NEW a \in User,
                      a = inbox[u][k].from, Present(u)', Present(a)'
               PROVE  a = Mate(u)'
    BY <1>2 DEF AuthorIsMate, Present
  <2>1. Present(u) /\ Present(a)
    BY <1>2
  <2>2. a = Mate(u)
    BY <2>1 DEF SentInOrder, AuthorIsMate
  <2>3. a # Base /\ a \in There' /\ u \in There'
    BY BaseIsNoUser DEF There
  <2> QED
    BY <2>2, <2>3
<1>5. StrokeGoesToOne'
  BY DEF SentInOrder, StrokeGoesToOne
<1>6. AuthorsTakeTurns'
  <2> SUFFICES ASSUME NEW u \in User, NEW j \in DOMAIN inbox[u], NEW k \in DOMAIN inbox[u],
                      j < k, inbox[u][j].from # inbox[u][k].from,
                      NEW a \in User, a = inbox[u][j].from, Present(a)'
               PROVE  FALSE
    BY <1>2 DEF AuthorsTakeTurns, Present
  <2>1. Present(a)
    BY <1>2
  <2> QED
    BY <2>1 DEF SentInOrder, AuthorsTakeTurns
<1> QED
  BY <1>1, <1>3, <1>4, <1>5, <1>6 DEF SentInOrder

LEMMA StrokesNumbered == ASSUME TypeOK PROVE strokes \in Nat
BY BoundsAssumption DEF TypeOK

\* A newcomer is nobody's mate yet, and joins with somebody who has none.
LEMMA SentRequest ==
    ASSUME IInv, TypeOK', ~torn, SentInOrder, Request
    PROVE  SentInOrder'
<1>1. PICK u : u = size + 1
  OBVIOUS
<1>2. /\ u \in User /\ ~Present(u) /\ Mate(u) = Base
      /\ wire' = [wire EXCEPT ![u] = "open"] /\ wire[u] = "none"
  <2>1. u \in User /\ u > size
    BY <1>1, NewcomerFacts
  <2>2. QED
    BY <1>1, <2>1, NewcomerFacts DEF IInv, EnteredInOrder
<1>3. UNCHANGED <<turn, strokes, inbox>> /\ TypeOK /\ strokes \in Nat
  BY StrokesNumbered DEF Request, IInv
<1>4. \A x \in User : wire[x] # "none" => wire'[x] = wire[x]
  BY <1>2, <1>3 DEF TypeOK
<1>5. \A x \in User : wire[x] # "none" => wire'[x] # "none" /\ (Present(x)' => Present(x))
  BY <1>4 DEF Present
<1>6. CASE /\ SearchFails(u)
           /\ onClose' = [onClose EXCEPT ![u] = Append(@, Base)]
           /\ UNCHANGED <<connected, onMessage>>
  <2>1. \A x \in User : Mate(x)' = Mate(x)
    BY <1>1, <1>6, RequestAloneInv
  <2> QED
    BY <1>3, <1>5, <2>1, SilentStep
<1>7. ASSUME NEW m \in User, Search(u, m), Connect(m, u),
             onClose' = [Listen(onClose, m, u) EXCEPT ![u] = Append(@, Base)]
      PROVE  SentInOrder'
  <2>1. /\ Mate(m) = Base /\ Mate(u) = Base
        /\ \A x \in User : x # m /\ x # u => Mate(x)' = Mate(x)
    BY <1>1, <1>7, RequestPairInv
  <2> QED
    BY <1>3, <1>5, <2>1, SilentStep
<1> QED
  BY <1>1, <1>6, <1>7 DEF Request

LEMMA SentRematch ==
    ASSUME IInv, TypeOK', ~torn, ~torn', SentInOrder, todo # <<>>,
           NEW v \in User, Head(todo) = v, Rematch(v)
    PROVE  SentInOrder'
<1>1. TypeOK /\ strokes \in Nat
  BY StrokesNumbered DEF IInv
<1>2. /\ UNCHANGED <<wire, strokes, inbox>>
      /\ turn'.event = "message" => turn.event = "message"
  BY DEF Rematch, Return, NoEvent
<1>3. \A x \in User : Mate(x)' = Mate(x) \/ Mate(x) = Base
  <2>1. PICK m \in User :
          /\ Mate(m) = Base /\ Mate(v) = Base
          /\ \A x \in User : x # m /\ x # v => Mate(x)' = Mate(x)
    BY RematchInv
  <2> QED
    BY <2>1
<1>4. \A x \in User : wire[x] # "none" => wire'[x] # "none" /\ (Present(x)' => Present(x))
  BY <1>2 DEF Present
<1> QED
  BY <1>1, <1>2, <1>3, <1>4, SilentStep
-----------------------------------------------------------------------------
(* Relaying.                                                               *)

\* A stroke is delivered to the mate of its author, and to nobody after that.
LEMMA LastListener ==
    ASSUME IInv, ~torn, MessageGoesOn, todo # <<>>, NEW v \in User, Head(todo) = v,
           turn.event = "message", v \in There
    PROVE  /\ Len(todo) = 1
           /\ turn.user \in User /\ Mate(v) = turn.user
<1>1. todo \in Seq(Listener)
  BY DEF IInv, TypeOK
<1>2. /\ Len(todo) \in Nat /\ 1 \in 1 .. Len(todo) /\ Head(todo) = todo[1]
      /\ Range(todo) = {todo[k] : k \in 1 .. Len(todo)}
  BY <1>1, RangeEquality
<1>3. Len(todo) = 1
  BY <1>2 DEF MessageGoesOn
<1> DEFINE a == turn.user
<1>4. a \in There /\ v \in Range(onMessage[a])
  BY <1>2 DEF MessageGoesOn
<1>5. a \in User /\ Present(a) /\ Present(v)
  BY <1>4 DEF There
<1> HIDE DEF a
<1>6. onMessage[a] \in Seq(User)
  BY <1>5, TypeLists DEF IInv
<1>7. PICK k \in 1 .. Len(onMessage[a]) : onMessage[a][k] = v
  <2>1. Range(onMessage[a]) = {onMessage[a][k] : k \in 1 .. Len(onMessage[a])}
    BY <1>6, RangeEquality
  <2> QED
    BY <1>4, <2>1
<1>8. Mate(a) = v
  BY <1>5, <1>7, PresentListenerIsMate DEF IInv, Pairing
<1>9. Mate(v) = a
  BY <1>5, <1>8 DEF IInv, Pairing, RelaysAreMutual
<1> QED
  BY <1>3, <1>5, <1>9 DEF a

LEMMA SentRelay ==
    ASSUME IInv, TypeOK', ~torn, MessageGoesOn, SentInOrder, todo # <<>>,
           NEW v \in User, Head(todo) = v, Relay(v)
    PROVE  SentInOrder'
<1> DEFINE f == [from |-> turn.user, nr |-> strokes]
           n == Len(inbox[v]) + 1
<1>1. /\ TypeOK /\ SentInOrder /\ turn.event = "message"
      /\ strokes \in Nat /\ strokes \in Stroke
  BY StrokesNumbered DEF Relay, IInv, TypeOK
<1>2. /\ UNCHANGED <<size, wire, connected, closed, onMessage, onClose, strokes, torn>>
      /\ inbox' = Deliver(inbox, v, f)
      /\ turn' = IF Len(todo) = 1 THEN NoEvent ELSE turn
      /\ \A x \in User : Mate(x)' = Mate(x) /\ (Present(x)' <=> Present(x))
  BY DEF Relay, Return, server, Mate, Partner, Present
<1>3. CASE wire[v] # "open"
  <2>1. UNCHANGED inbox
    BY <1>2, <1>3 DEF Deliver
  <2>2. turn'.event = "message" => turn.event = "message"
    BY <1>1
  <2> QED
    BY <1>1, <1>2, <2>1, <2>2, SilentStep
<1>4. CASE wire[v] = "open"
  <2>1. v \in There
    BY <1>4 DEF There, Present
  <2>2. Len(todo) = 1 /\ turn.user \in User /\ Mate(v) = turn.user
    BY <1>1, <2>1, LastListener
  <2>3. turn'.event # "message"
    BY <1>2, <2>2 DEF NoEvent
  <2>4. f \in Frame /\ f.nr = strokes /\ f.from = turn.user
    BY <1>1, <2>2, BoundsAssumption DEF Frame, Stroke
  <2>5. inbox'[v] = Append(inbox[v], f) /\ \A x \in User : x # v => inbox'[x] = inbox[x]
    <3>1. inbox \in [User -> Seq(Frame)]
      BY <1>1 DEF TypeOK
    <3> QED
      BY <1>2, <1>4, <2>4, <3>1, Delivery
  <2>6. /\ n \in Nat /\ Len(inbox[v]) \in Nat /\ DOMAIN inbox[v] = 1 .. n - 1
        /\ Len(inbox'[v]) = n /\ DOMAIN inbox'[v] = 1 .. n
        /\ inbox'[v][n] = f /\ \A k \in 1 .. n - 1 : inbox'[v][k] = inbox[v][k]
    <3> DEFINE s == inbox[v]
    <3>1. s \in Seq(Frame)
      BY <1>1, InboxType
    <3> HIDE DEF s, f
    <3>2. /\ Len(s) \in Nat /\ DOMAIN s = 1 .. Len(s)
          /\ Len(Append(s, f)) = Len(s) + 1
          /\ DOMAIN Append(s, f) = 1 .. Len(s) + 1
          /\ \A k \in 1 .. Len(s) : Append(s, f)[k] = s[k]
          /\ Append(s, f)[Len(s) + 1] = f
      BY <2>4, <3>1, OneMore
    <3>3. inbox'[v] = Append(s, f)
      BY <2>5 DEF s
    <3> QED
      BY <3>2, <3>3 DEF s
  <2> HIDE DEF f, n
  \* every frame but the new one was there before, and is of an older stroke
  <2>7. ASSUME NEW x \in User, NEW k \in DOMAIN inbox'[x], x # v \/ k # n
        PROVE  /\ k \in DOMAIN inbox[x] /\ inbox'[x][k] = inbox[x][k]
               /\ inbox[x][k].nr < strokes /\ inbox[x][k].nr \in Nat
    <3>1. k \in DOMAIN inbox[x] /\ inbox'[x][k] = inbox[x][k]
      <4>1. CASE x # v
        BY <2>5, <4>1
      <4>2. CASE x = v
        <5>1. k \in 1 .. n - 1
          BY <2>6, <2>7, <4>2
        <5> QED
          BY <2>6, <4>2, <5>1
      <4> QED
        BY <4>1, <4>2
    <3>2. inbox[x][k].nr \in Nat
      BY <1>1, <3>1, FrameParts
    <3> QED
      BY <1>1, <3>1, <3>2 DEF SentInOrder, StrokesAreOld
  <2>8. StrokesAreOld'
    <3> SUFFICES ASSUME NEW x \in User, NEW k \in DOMAIN inbox'[x]
                 PROVE  inbox'[x][k].nr <= strokes'
      BY <2>3 DEF StrokesAreOld
    <3>1. CASE x = v /\ k = n
      BY <1>1, <1>2, <2>4, <2>6, <3>1
    <3>2. CASE x # v \/ k # n
      BY <1>1, <1>2, <2>7, <3>2
    <3> QED
      BY <3>1, <3>2
  <2>9. StrokeGoesToOne'
    <3> SUFFICES ASSUME NEW x \in User, NEW y \in User,
                        NEW j \in DOMAIN inbox'[x], NEW k \in DOMAIN inbox'[y],
                        inbox'[x][j] = inbox'[y][k]
                 PROVE  x = y /\ j = k
      BY DEF StrokeGoesToOne
    <3>1. CASE (x = v /\ j = n) /\ (y = v /\ k = n)
      BY <3>1
    <3>2. CASE (x = v /\ j = n) /\ ~ (y = v /\ k = n)
      BY <1>1, <2>4, <2>6, <2>7, <3>2
    <3>3. CASE ~ (x = v /\ j = n) /\ (y = v /\ k = n)
      BY <1>1, <2>4, <2>6, <2>7, <3>3
    <3>4. CASE ~ (x = v /\ j = n) /\ ~ (y = v /\ k = n)
      BY <1>1, <2>7, <3>4 DEF SentInOrder, StrokeGoesToOne
    <3> QED
      BY <3>1, <3>2, <3>3, <3>4
  <2>10. FramesEntered'
    <3> SUFFICES ASSUME NEW x \in User, NEW k \in DOMAIN inbox'[x]
                 PROVE  wire[x] # "none" /\ wire[inbox'[x][k].from] # "none"
      BY <1>2 DEF FramesEntered
    <3>1. CASE x = v /\ k = n
      <4>1. wire[turn.user] # "none"
        BY <1>1 DEF MessageGoesOn, There, Present
      <4> QED
        BY <1>4, <2>4, <2>6, <3>1, <4>1
    <3>2. CASE x # v \/ k # n
      BY <1>1, <2>7, <3>2 DEF SentInOrder, FramesEntered
    <3> QED
      BY <3>1, <3>2
  <2>11. AuthorIsMate'
    <3> SUFFICES ASSUME NEW x \in User, NEW k \in DOMAIN inbox'[x],
                        Present(x), Present(inbox'[x][k].from)
                 PROVE  inbox'[x][k].from = Mate(x)
      BY <1>2 DEF AuthorIsMate, Present
    <3>1. CASE x = v /\ k = n
      BY <2>2, <2>4, <2>6, <3>1
    <3>2. CASE x # v \/ k # n
      BY <1>1, <2>7, <3>2 DEF SentInOrder, AuthorIsMate
    <3> QED
      BY <3>1, <3>2
  <2>12. AuthorsTakeTurns'
    <3> SUFFICES ASSUME NEW x \in User,
                        NEW j \in DOMAIN inbox'[x], NEW k \in DOMAIN inbox'[x],
                        j < k, inbox'[x][j].from # inbox'[x][k].from,
                        Present(inbox'[x][j].from)
                 PROVE  FALSE
      BY <1>2 DEF AuthorsTakeTurns, Present
    <3>1. CASE x # v
      BY <1>1, <2>5, <3>1 DEF SentInOrder, AuthorsTakeTurns
    <3>2. CASE x = v /\ k # n
      <4>1. k \in 1 .. n - 1 /\ j \in 1 .. n - 1
        BY <2>6, <3>2
      <4>2. /\ j \in DOMAIN inbox[v] /\ inbox'[v][j] = inbox[v][j]
            /\ k \in DOMAIN inbox[v] /\ inbox'[v][k] = inbox[v][k]
        BY <2>6, <4>1
      <4> QED
        BY <1>1, <3>2, <4>2 DEF SentInOrder, AuthorsTakeTurns
    <3>3. CASE x = v /\ k = n
      <4>1. j \in 1 .. n - 1
        BY <2>6, <3>3
      <4>2. j \in DOMAIN inbox[v] /\ inbox'[v][j] = inbox[v][j]
        BY <2>6, <4>1
      <4>3. inbox[v][j].from = Mate(v)
        BY <1>1, <2>1, <3>3, <4>2 DEF SentInOrder, AuthorIsMate, There
      <4> QED
        BY <2>2, <2>4, <2>6, <3>3, <4>2, <4>3
    <3> QED
      BY <3>1, <3>2, <3>3
  <2> QED
    BY <2>8, <2>9, <2>10, <2>11, <2>12 DEF SentInOrder
<1> QED
  BY <1>3, <1>4
-----------------------------------------------------------------------------
(* All together.                                                           *)

\* A message goes to the listeners of its author.
LEMMA MessageStarts ==
    ASSUME IInv, ~torn, TypeOK', NEW u \in User, ReceiveMessage(u)
    PROVE  MessageGoesOn'
<1> SUFFICES ASSUME turn'.event = "message" PROVE MessageGoesOn'
  BY DEF MessageGoesOn
<1>1. /\ todo' = onMessage[u] /\ todo' # <<>> /\ turn'.user = u
      /\ UNCHANGED <<wire, onMessage>> /\ wire[u] = "open"
  BY DEF ReceiveMessage, Emit, NoEvent, server
<1>2. There' = There /\ u \in There
  BY <1>1 DEF There, Present
<1>3. \A k \in 1 .. Len(onMessage[u]) : onMessage[u][k] \in There => k = Len(onMessage[u])
  BY <1>2 DEF IInv, Pairing, StaleListenersAreDead, There
<1> QED
  BY <1>1, <1>2, <1>3 DEF MessageGoesOn

\* The listeners that are left after one of them.
LEMMA MessageContinues ==
    ASSUME IInv, TypeOK', MessageGoesOn, todo # <<>>, NEW v \in User, Relay(v)
    PROVE  MessageGoesOn'
<1> SUFFICES ASSUME turn'.event = "message" PROVE MessageGoesOn'
  BY DEF MessageGoesOn
<1>1. /\ turn.event = "message" /\ todo' = Tail(todo) /\ turn' = turn /\ Len(todo) # 1
      /\ UNCHANGED <<wire, onMessage>>
  BY DEF Relay, Return, NoEvent, server
<1>2. todo \in Seq(Listener)
  BY DEF IInv, TypeOK
<1>3. /\ todo' \in Seq(Listener) /\ Len(todo) \in Nat /\ Len(todo') = Len(todo) - 1
      /\ \A k \in 1 .. Len(todo') : todo'[k] = todo[k + 1]
  BY <1>1, <1>2
<1>4. todo' # <<>>
  <2>1. Len(todo) > 0
    BY <1>2
  <2>2. Len(todo') > 0
    BY <1>1, <1>3, <2>1
  <2>3. Len(<<>>) = 0
    OBVIOUS
  <2> QED
    BY <2>2, <2>3
<1>5. Range(todo') \subseteq Range(todo)
  BY <1>1, AfterReturn DEF Relay
<1>6. There' = There
  BY <1>1 DEF There, Present
<1>7. ASSUME NEW k \in 1 .. Len(todo'), todo'[k] \in There PROVE k = Len(todo')
  <2>1. k + 1 \in 1 .. Len(todo) /\ todo[k + 1] \in There
    BY <1>3, <1>7
  <2>2. k + 1 = Len(todo)
    BY <1>1, <2>1 DEF MessageGoesOn
  <2> QED
    BY <1>3, <2>2
<1> QED
  BY <1>1, <1>4, <1>5, <1>6, <1>7 DEF MessageGoesOn

LEMMA StrokesInductive ==
    ASSUME IInv, TypeOK', ~torn, ~torn', MessageGoesOn, SentInOrder, [Next]_vars
    PROVE  MessageGoesOn' /\ SentInOrder'
<1>1. TypeOK /\ strokes \in Nat
  BY StrokesNumbered DEF IInv
<1>2. Idle => turn.event # "message"
  BY DEF Idle, IInv, EventHasListeners, NoEvent
<1>3. CASE Request
  <2>1. MessageGoesOn'
    BY <1>2, <1>3 DEF Request, MessageGoesOn
  <2> QED
    BY <1>1, <1>3, <2>1, SentRequest
<1>4. ASSUME NEW u \in User, ReceiveCloseFrame(u) PROVE MessageGoesOn' /\ SentInOrder'
  <2>1. UNCHANGED <<turn, strokes, inbox>> /\ turn.event # "message"
    BY <1>2, <1>4 DEF ReceiveCloseFrame, server
  <2>2. \A x \in User : wire[x] # "none" => wire'[x] # "none" /\ (Present(x)' => Present(x))
    BY <1>1, <1>4 DEF ReceiveCloseFrame, TypeOK, Present
  <2>3. \A x \in User : Mate(x)' = Mate(x)
    BY <1>4, CloseFrameInv
  <2>4. SentInOrder'
    BY <1>1, <2>1, <2>2, <2>3, SilentStep
  <2> QED
    BY <2>1, <2>4 DEF MessageGoesOn
<1>5. ASSUME NEW u \in User, SocketClose(u) PROVE MessageGoesOn' /\ SentInOrder'
  <2>1. UNCHANGED <<strokes, inbox>> /\ turn'.event # "message"
    BY <1>5 DEF SocketClose, Emit, NoEvent
  <2>2. \A x \in User : wire[x] # "none" => wire'[x] # "none" /\ (Present(x)' => Present(x))
    BY <1>1, <1>5 DEF SocketClose, TypeOK, Present
  <2>3. ASSUME NEW x \in User
        PROVE  Mate(x)' = Mate(x) \/ Mate(x) = Base \/ ~ ({x, Mate(x)} \subseteq There')
    BY <1>5, SocketCloseInv
  <2>4. SentInOrder'
    BY <1>1, <2>1, <2>2, <2>3, SilentStep
  <2> QED
    BY <2>1, <2>4 DEF MessageGoesOn
<1>6. ASSUME NEW u \in User, GraceTimer(u) PROVE MessageGoesOn' /\ SentInOrder'
  <2>1. UNCHANGED <<wire, onMessage, strokes, inbox>> /\ turn'.event # "message"
    BY <1>6 DEF GraceTimer, server, Emit, NoEvent
  <2>2. \A x \in User : Mate(x)' = Mate(x) /\ (Present(x)' <=> Present(x))
    BY <2>1 DEF Mate, Partner, Present
  <2>3. SentInOrder'
    BY <1>1, <2>1, <2>2, SilentStep
  <2> QED
    BY <2>1, <2>3 DEF MessageGoesOn
<1>7. ASSUME NEW u \in User, ReceiveMessage(u) PROVE MessageGoesOn' /\ SentInOrder'
  <2>1. UNCHANGED <<onMessage, wire, inbox>> /\ strokes' = strokes + 1
    BY <1>7 DEF ReceiveMessage, server
  <2>2. \A x \in User : Mate(x)' = Mate(x) /\ (Present(x)' <=> Present(x))
    BY <2>1 DEF Mate, Partner, Present
  <2>3. SentInOrder'
    BY <1>1, <2>1, <2>2, SilentStep
  <2> QED
    BY <1>7, <2>3, MessageStarts
<1>8. ASSUME todo # <<>>, MarkClosed PROVE MessageGoesOn' /\ SentInOrder'
  <2>1. UNCHANGED <<onMessage, wire, strokes, inbox>> /\ turn'.event # "message"
    BY <1>8 DEF MarkClosed, Closing, Return, NoEvent
  <2>2. \A x \in User : Mate(x)' = Mate(x) /\ (Present(x)' <=> Present(x))
    BY <2>1 DEF Mate, Partner, Present
  <2>3. SentInOrder'
    BY <1>1, <2>1, <2>2, SilentStep
  <2> QED
    BY <2>1, <2>3 DEF MessageGoesOn
<1>9. ASSUME todo # <<>>, NEW v \in User, Head(todo) = v, Relay(v)
      PROVE  MessageGoesOn' /\ SentInOrder'
  BY <1>9, SentRelay, MessageContinues
<1>10. ASSUME todo # <<>>, NEW v \in User, Head(todo) = v, Rematch(v)
       PROVE  MessageGoesOn' /\ SentInOrder'
  <2>1. turn'.event # "message"
    BY <1>10 DEF Rematch, Closing, Return, NoEvent
  <2> QED
    BY <1>10, <2>1, SentRematch DEF MessageGoesOn
<1>11. ASSUME todo # <<>>, NEW v \in User, Head(todo) = v, Unmatch(v)
       PROVE  MessageGoesOn' /\ SentInOrder'
  <2>1. UNCHANGED <<wire, strokes, inbox>> /\ turn'.event # "message"
    BY <1>11 DEF Unmatch, Closing, Return, NoEvent
  <2>2. \A x \in User : Mate(x)' = Mate(x)
    BY <1>11, UnmatchInv
  <2>3. \A x \in User : Present(x)' <=> Present(x)
    BY <2>1 DEF Present
  <2>4. SentInOrder'
    BY <1>1, <2>1, <2>2, <2>3, SilentStep
  <2> QED
    BY <2>1, <2>4 DEF MessageGoesOn
<1>12. CASE UNCHANGED vars
  <2>1. UNCHANGED <<wire, onMessage, strokes, inbox, turn, todo>>
    BY <1>12 DEF vars
  <2>2. \A x \in User : Mate(x)' = Mate(x) /\ (Present(x)' <=> Present(x))
    BY <2>1 DEF Mate, Partner, Present
  <2>3. SentInOrder'
    BY <1>1, <2>1, <2>2, SilentStep
  <2>4. MessageGoesOn'
    BY <2>1 DEF MessageGoesOn, There, Present
  <2> QED
    BY <2>3, <2>4
<1> QED
  BY <1>3, <1>4, <1>5, <1>6, <1>7, <1>8, <1>9, <1>10, <1>11, <1>12 DEF Next, CallListener

LEMMA StrokesInvariant == Spec => []StrokesInv
<1>1. Init => StrokesInv
  <2> SUFFICES ASSUME Init PROVE StrokesInv
    OBVIOUS
  <2>1. turn.event # "message" /\ \A u \in User : DOMAIN inbox[u] = {}
    BY DEF Init, NoEvent
  <2> QED
    BY <2>1 DEF StrokesInv, MessageGoesOn, SentInOrder, StrokesAreOld, FramesEntered,
                AuthorIsMate, StrokeGoesToOne, AuthorsTakeTurns
<1>2. IInv /\ IInv' /\ StrokesInv /\ [Next]_vars => StrokesInv'
  <2> SUFFICES ASSUME IInv, TypeOK', StrokesInv, [Next]_vars, ~torn'
               PROVE  MessageGoesOn' /\ SentInOrder'
    BY DEF IInv, StrokesInv
  <2>1. ~torn
    BY TornStays DEF IInv
  <2> QED
    BY <2>1, StrokesInductive DEF StrokesInv
<1> QED
  BY <1>1, <1>2, ServerInvariant, PTL DEF Spec

\* A stroke is drawn at most once, and on one canvas only, however many message
\* listeners connect (l.63-80) has left on its author's connection, until a
\* repeated close tears two mates apart.
THEOREM StrokesGoToOne == Spec => []StrokeGoesToOne
<1>1. StrokesInv => StrokeGoesToOne
  BY DEF StrokesInv, SentInOrder, StrokeGoesToOne
<1> QED
  BY <1>1, StrokesInvariant, PTL

\* In any history of people who come, draw and leave, whoever draws next on a
\* canvas (l.76-80) does so after the one who drew there before has left, until
\* a repeated close tears two mates apart.
THEOREM AuthorsDrawInTurn == Spec => []AuthorsTakeTurns
<1>1. StrokesInv => AuthorsTakeTurns
  BY DEF StrokesInv, SentInOrder, AuthorsTakeTurns
<1> QED
  BY <1>1, StrokesInvariant, PTL
=============================================================================
