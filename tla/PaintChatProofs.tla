-------------------------- MODULE PaintChatProofs --------------------------
(***************************************************************************)
(* Proofs about the paint chat server, for any number of connections and   *)
(* strokes: type correctness, the inductive invariant behind the pairing   *)
(* properties, and the implementation of PaintRoom.                        *)
(***************************************************************************)
EXTENDS PaintChat, SequenceTheorems, TLAPS

-----------------------------------------------------------------------------
(* Type correctness.                                                       *)

\* Writing a frame to a socket keeps the record of frames well typed.
LEMMA DeliverType ==
    ASSUME NEW box \in [User -> Seq(Frame)], NEW u \in User, NEW frame \in Frame
    PROVE  Deliver(box, u, frame) \in [User -> Seq(Frame)]
BY DEF Deliver

\* setAction adds one user to each of two lists of listeners.
LEMMA ListenType ==
    ASSUME NEW S, User \subseteq S, NEW table \in [User -> Seq(S)],
           NEW m \in User, NEW u \in User
    PROVE  Listen(table, m, u) \in [User -> Seq(S)]
<1>1. Append(table[u], m) \in Seq(S)
  OBVIOUS
<1>2. Append(table[m], u) \in Seq(S)
  OBVIOUS
<1>3. QED
  BY <1>1, <1>2 DEF Listen

\* Emitting an event to well-typed listeners.
LEMMA EmitType ==
    ASSUME NEW kind \in {"message", "close", "again"}, NEW u \in User,
           NEW listeners \in Seq(Listener), Emit(kind, u, listeners)
    PROVE  /\ todo' \in Seq(Listener)
           /\ turn' \in Event
           /\ turn'.event = "message" => kind = "message"
BY DEF Emit, Event, NoEvent

\* A listener that returns leaves the others to be called.
LEMMA ReturnType ==
    ASSUME TypeOK, todo # <<>>, Return
    PROVE  /\ todo' \in Seq(Listener)
           /\ turn' \in Event
           /\ turn'.event = "message" => strokes \in Stroke
BY DEF Return, TypeOK, Event, NoEvent

\* Every step of the server keeps every variable in its range (paintchatServer
\* .js: the conn array, its flags, its listeners and what was sent).
LEMMA TypeStep == TypeOK /\ [Next]_vars => TypeOK'
<1> SUFFICES ASSUME TypeOK, [Next]_vars PROVE TypeOK'
  OBVIOUS
<1> USE BoundsAssumption
<1>1. CASE Request
  <2> DEFINE u == size + 1
  <2>1. u \in User /\ size' \in 0 .. MaxConn
    BY <1>1 DEF Request, TypeOK, User
  <2>2. wire' \in [User -> {"none", "open", "closing", "closed"}]
    BY <1>1, <2>1 DEF Request, TypeOK
  <2>3. UNCHANGED <<closed, late, turn, todo, strokes, inbox, torn>>
    BY <1>1 DEF Request
  <2>4. Base \in Listener /\ User \subseteq Listener
    BY DEF Listener
  <2>5. CASE /\ SearchFails(u)
             /\ onClose' = [onClose EXCEPT ![u] = Append(@, Base)]
             /\ UNCHANGED <<connected, onMessage>>
    BY <2>1, <2>2, <2>3, <2>4, <2>5 DEF TypeOK
  <2>6. ASSUME NEW m \in User, Connect(m, u),
               onClose' = [Listen(onClose, m, u) EXCEPT ![u] = Append(@, Base)]
        PROVE  TypeOK'
    <3>1. onMessage' \in [User -> Seq(User)]
      BY <2>1, <2>6, ListenType DEF Connect, TypeOK
    <3>2. Listen(onClose, m, u) \in [User -> Seq(Listener)]
      BY <2>1, <2>4, <2>6, ListenType DEF TypeOK
    <3>3. onClose' \in [User -> Seq(Listener)]
      BY <2>1, <2>4, <2>6, <3>2
    <3>4. connected' \in [User -> BOOLEAN]
      BY <2>1, <2>6 DEF Connect, TypeOK
    <3>5. QED
      BY <2>1, <2>2, <2>3, <3>1, <3>3, <3>4 DEF TypeOK
  <2>7. QED
    BY <1>1, <2>5, <2>6 DEF Request
<1>2. ASSUME NEW u \in User, ReceiveCloseFrame(u) PROVE TypeOK'
  BY <1>2 DEF ReceiveCloseFrame, server, TypeOK
<1>3. ASSUME NEW u \in User, SocketClose(u) PROVE TypeOK'
  <2>1. onClose[u] \in Seq(Listener)
    BY DEF TypeOK
  <2>2. /\ todo' \in Seq(Listener)
        /\ turn' \in Event
        /\ turn'.event # "message"
    BY <1>3, <2>1, EmitType DEF SocketClose
  <2>3. late' \subseteq User
    BY <1>3 DEF SocketClose, TypeOK
  <2>4. QED
    BY <1>3, <2>2, <2>3 DEF SocketClose, server, TypeOK
<1>10. ASSUME NEW u \in User, GraceTimer(u) PROVE TypeOK'
  <2>1. onClose[u] \in Seq(Listener)
    BY DEF TypeOK
  <2>2. /\ todo' \in Seq(Listener)
        /\ turn' \in Event
        /\ turn'.event # "message"
    BY <1>10, <2>1, EmitType DEF GraceTimer
  <2>3. QED
    BY <1>10, <2>2 DEF GraceTimer, server, TypeOK
<1>4. ASSUME NEW u \in User, ReceiveMessage(u) PROVE TypeOK'
  <2>1. onMessage[u] \in Seq(Listener)
    BY DEF TypeOK, Listener
  <2>2. /\ todo' \in Seq(Listener)
        /\ turn' \in Event
    BY <1>4, <2>1, EmitType DEF ReceiveMessage
  <2>3. strokes' \in 0 .. MaxStrokes /\ strokes' \in Stroke
    BY <1>4 DEF ReceiveMessage, TypeOK, Stroke
  <2>4. QED
    BY <1>4, <2>2, <2>3 DEF ReceiveMessage, server, TypeOK
<1>5. ASSUME todo # <<>>, MarkClosed PROVE TypeOK'
  <2>1. turn.user \in User
    BY <1>5 DEF MarkClosed, Closing, TypeOK, Event, NoEvent
  <2>2. closed' \in [User -> BOOLEAN]
    BY <1>5, <2>1 DEF MarkClosed, TypeOK
  <2>3. QED
    BY <1>5, <2>2, ReturnType DEF MarkClosed, TypeOK
<1>6. ASSUME todo # <<>>, NEW v \in User, Relay(v) PROVE TypeOK'
  <2>1. turn.user \in User
    BY <1>6 DEF Relay, TypeOK, Event, NoEvent
  <2>2. [from |-> turn.user, nr |-> strokes] \in Frame
    BY <1>6, <2>1 DEF Relay, Frame, TypeOK
  <2>3. inbox' \in [User -> Seq(Frame)]
    BY <1>6, <2>2, DeliverType DEF Relay, TypeOK
  <2>4. /\ todo' \in Seq(Listener)
        /\ turn' \in Event
        /\ turn'.event = "message" => strokes \in Stroke
    BY <1>6, ReturnType DEF Relay
  <2>5. UNCHANGED <<size, wire, late, connected, closed, onMessage, onClose, strokes, torn>>
    BY <1>6 DEF Relay, server
  <2>6. QED
    BY <2>3, <2>4, <2>5 DEF TypeOK
<1>7. ASSUME todo # <<>>, NEW v \in User, Rematch(v) PROVE TypeOK'
  <2>1. PICK m \in User : /\ Connect(m, v)
                          /\ onClose' = Listen(onClose, m, v)
    BY <1>7 DEF Rematch
  <2>2. onMessage' \in [User -> Seq(User)] /\ connected' \in [User -> BOOLEAN]
    BY <2>1, ListenType DEF Connect, TypeOK
  <2>3. onClose' \in [User -> Seq(Listener)]
    BY <2>1, ListenType DEF TypeOK, Listener
  <2>4. torn' \in BOOLEAN
    BY <1>7 DEF Rematch, Tears, TypeOK
  <2>5. QED
    BY <1>7, <2>2, <2>3, <2>4, ReturnType DEF Rematch, TypeOK
<1>8. ASSUME todo # <<>>, NEW v \in User, Unmatch(v) PROVE TypeOK'
  <2>1. torn' \in BOOLEAN
    BY <1>8 DEF Unmatch, Tears, TypeOK
  <2>2. QED
    BY <1>8, <2>1, ReturnType DEF Unmatch, InitConnect, TypeOK
<1>9. CASE UNCHANGED vars
  BY <1>9 DEF vars, TypeOK
<1>11. QED
  BY <1>1, <1>2, <1>3, <1>4, <1>5, <1>6, <1>7, <1>8, <1>9, <1>10 DEF Next, CallListener

LEMMA TypeInit == Init => TypeOK
<1> SUFFICES ASSUME Init PROVE TypeOK
  OBVIOUS
<1>1. late \subseteq User /\ torn \in BOOLEAN
  BY DEF Init
<1>2. turn \in Event /\ turn.event # "message" /\ todo \in Seq(Listener)
  BY DEF Init, Event, NoEvent
<1>3. onMessage \in [User -> Seq(User)] /\ onClose \in [User -> Seq(Listener)]
  BY DEF Init
<1>4. inbox \in [User -> Seq(Frame)] /\ size \in 0 .. MaxConn /\ strokes \in 0 .. MaxStrokes
  BY BoundsAssumption DEF Init
<1>5. QED
  BY <1>1, <1>2, <1>3, <1>4 DEF Init, TypeOK

\* Type correctness of the paint chat server.
THEOREM TypeCorrect == Spec => []TypeOK
BY TypeInit, TypeStep, PTL DEF Spec

-----------------------------------------------------------------------------
(* The inductive invariant.                                                *)

\* conn grows by one with each request; what is not in conn yet is blank.
EnteredInOrder ==
    \A u \in User :
        /\ wire[u] = "none" <=> u > size
        /\ u > size => ~connected[u] /\ onMessage[u] = <<>> /\ onClose[u] = <<>>

\* Listeners lead to connections that have been accepted.
ListenersEntered ==
    /\ \A u \in User : \A v \in Range(onMessage[u]) : v <= size
    /\ \A u \in User : \A v \in Range(onClose[u]) : v <= size
    /\ \A v \in Range(todo) : v <= size

\* A close listener that leads to someone present is the newest of its kind.
StaleCloseListeners == torn \/ \A u \in There : NewestOnly(onClose[u], There)

\* Node is between two events exactly if no listener is left.
EventHasListeners == todo = <<>> <=> turn = NoEvent

Pairing ==
    /\ StaleListenersAreDead
    /\ RelaysAreMutual

IInv ==
    /\ TypeOK
    /\ EventHasListeners
    /\ EnteredInOrder
    /\ ListenersEntered
    /\ AtMostOneWaiting
    /\ Pairing
    /\ ConnectedMeansListening
    /\ CloseFollowsMessage
    /\ StaleCloseListeners
    /\ SurvivorIsLast

-----------------------------------------------------------------------------
(* Facts about lists of listeners and about mates.                         *)

LEMMA BaseIsNoUser == Base \notin User
BY DEF Base, User

\* A table of lists, one entry.
LEMMA SeqFacts ==
    ASSUME NEW S, NEW table \in [User -> Seq(S)], NEW u \in User
    PROVE  /\ table[u] \in Seq(S)
           /\ Len(table[u]) \in Nat
           /\ \A k \in 1 .. Len(table[u]) : table[u][k] \in S
           /\ table[u] = <<>> <=> Len(table[u]) = 0
           /\ table[u] # <<>> => Len(table[u]) \in 1 .. Len(table[u])
<1> DEFINE s == table[u]
<1>1. s \in Seq(S)
  OBVIOUS
<1> HIDE DEF s
<1>2. /\ s \in Seq(S)
      /\ Len(s) \in Nat
      /\ \A k \in 1 .. Len(s) : s[k] \in S
      /\ s = <<>> <=> Len(s) = 0
      /\ s # <<>> => Len(s) \in 1 .. Len(s)
  BY <1>1
<1>3. QED
  BY <1>2 DEF s

\* What a table of lists leads to.
LEMMA RangeType ==
    ASSUME NEW S, NEW table \in [User -> Seq(S)], NEW u \in User,
           NEW v \in Range(table[u])
    PROVE  v \in S
<1> DEFINE s == table[u]
<1>1. s \in Seq(S) /\ v \in Range(s)
  OBVIOUS
<1> HIDE DEF s
<1>2. v \in {s[k] : k \in 1 .. Len(s)}
  BY <1>1, RangeEquality
<1>3. QED
  BY <1>1, <1>2

\* The people a list with one more entry leads to.
LEMMA RangeOfAppend ==
    ASSUME NEW s \in Seq(Listener), NEW e \in Listener
    PROVE  Range(Append(s, e)) = Range(s) \cup {e}
<1> DEFINE t == Append(s, e)
<1>1. /\ t \in Seq(Listener)
      /\ Len(t) = Len(s) + 1
      /\ \A k \in 1 .. Len(s) : t[k] = s[k]
      /\ t[Len(s) + 1] = e
  BY AppendProperties
<1> HIDE DEF t
<1>2. Range(s) = {s[k] : k \in 1 .. Len(s)} /\ Range(t) = {t[k] : k \in 1 .. Len(t)}
  BY <1>1, RangeEquality
<1>3. Len(s) \in Nat
  OBVIOUS
<1>4. Range(t) = Range(s) \cup {e}
  BY <1>1, <1>2, <1>3
<1>5. QED
  BY <1>4 DEF t

\* A list whose entries lead to nobody there may be given any new entry.
LEMMA NewestAppend ==
    ASSUME NEW s \in Seq(Listener), NEW e \in Listener, NEW there,
           Range(s) \cap there = {}
    PROVE  NewestOnly(Append(s, e), there)
<1> DEFINE t == Append(s, e)
<1>1. Len(t) = Len(s) + 1 /\ \A k \in 1 .. Len(s) : t[k] = s[k]
  BY AppendProperties
<1>2. \A k \in 1 .. Len(s) : s[k] \notin there
  BY RangeEquality
<1> HIDE DEF t
<1>3. Len(s) \in Nat
  OBVIOUS
<1>4. NewestOnly(t, there)
  BY <1>1, <1>2, <1>3 DEF NewestOnly
<1>5. QED
  BY <1>4 DEF t

\* The base listener of the newcomer comes after the partner's.
LEMMA NewestAppendBase ==
    ASSUME NEW s \in Seq(Listener), NEW there, Base \notin there,
           NewestOnly(s, there)
    PROVE  NewestOnly(Append(s, Base), there)
<1> DEFINE t == Append(s, Base)
<1>1. /\ Len(t) = Len(s) + 1
      /\ \A k \in 1 .. Len(s) : t[k] = s[k]
      /\ t[Len(s) + 1] = Base
  BY AppendProperties DEF Listener
<1> HIDE DEF t
<1>2. Len(s) \in Nat
  OBVIOUS
<1>3. NewestOnly(t, there)
  BY <1>1, <1>2 DEF NewestOnly
<1>4. QED
  BY <1>3 DEF t

\* Fewer people there: fewer listeners that matter.
LEMMA NewestShrinks ==
    ASSUME NEW s \in Seq(Listener), NEW there, NEW fewer,
           Range(s) \cap fewer \subseteq there, NewestOnly(s, there)
    PROVE  NewestOnly(s, fewer)
BY RangeEquality DEF NewestOnly

\* After a listener has run.
LEMMA NewestTail ==
    ASSUME NEW s \in Seq(Listener), s # <<>>, NEW there, NewestOnly(s, there)
    PROVE  /\ NewestOnly(Tail(s), there)
           /\ Range(Tail(s)) \subseteq Range(s)
           /\ Head(s) \in Range(s)
           /\ Head(s) \in there => Range(Tail(s)) \subseteq {Base}
<1> DEFINE t == Tail(s)
<1>1. /\ t \in Seq(Listener)
      /\ Len(t) = Len(s) - 1
      /\ \A k \in 1 .. Len(t) : t[k] = s[k + 1]
      /\ Len(s) \in Nat \ {0}
      /\ Head(s) = s[1]
  OBVIOUS
<1>2. Range(s) = {s[k] : k \in 1 .. Len(s)} /\ Range(t) = {t[k] : k \in 1 .. Len(t)}
  <2>1. Range(s) = {s[k] : k \in 1 .. Len(s)}
    BY RangeEquality
  <2> HIDE DEF t
  <2>2. Range(t) = {t[k] : k \in 1 .. Len(t)}
    BY <1>1, RangeEquality
  <2> QED
    BY <2>1, <2>2
<1> HIDE DEF t
<1>3. NewestOnly(t, there)
  <2> SUFFICES ASSUME NEW k \in 1 .. Len(t), t[k] \in there, NEW j \in k + 1 .. Len(t)
               PROVE  t[j] = Base
    BY DEF NewestOnly
  <2>1. /\ k + 1 \in 1 .. Len(s) /\ j + 1 \in (k + 1) + 1 .. Len(s)
        /\ j \in 1 .. Len(t)
    BY <1>1
  <2>2. t[k] = s[k + 1] /\ t[j] = s[j + 1]
    BY <1>1, <2>1
  <2> QED
    BY <2>1, <2>2 DEF NewestOnly
<1>4. Range(t) \subseteq Range(s) /\ Head(s) \in Range(s)
  BY <1>1, <1>2
<1>5. Head(s) \in there => Range(t) \subseteq {Base}
  <2>1. \A k \in 1 .. Len(t) : k + 1 \in 1 + 1 .. Len(s)
    BY <1>1
  <2>2. 1 \in 1 .. Len(s)
    BY <1>1
  <2>3. Head(s) \in there => \A j \in 1 + 1 .. Len(s) : s[j] = Base
    BY <1>1, <2>2 DEF NewestOnly
  <2>4. Head(s) \in there => \A k \in 1 .. Len(t) : t[k] = Base
    BY <1>1, <2>1, <2>3
  <2>5. QED
    BY <1>2, <2>4
<1>6. QED
  BY <1>3, <1>4, <1>5 DEF t

\* What setAction does to two different connections.
LEMMA ListenEntries ==
    ASSUME NEW S, NEW table \in [User -> Seq(S)], NEW m \in User, NEW u \in User,
           m # u
    PROVE  /\ Listen(table, m, u)[u] = Append(table[u], m)
           /\ Listen(table, m, u)[m] = Append(table[m], u)
           /\ \A x \in User : x # u /\ x # m => Listen(table, m, u)[x] = table[x]
BY DEF Listen

LEMMA TypeLists ==
    ASSUME TypeOK
    PROVE  /\ onMessage \in [User -> Seq(User)]
           /\ onClose \in [User -> Seq(Listener)]
BY DEF TypeOK

\* The list of message listeners that setAction leaves.
LEMMA NewEntry ==
    ASSUME TypeOK, NEW x \in User, NEW y \in User,
           onMessage'[x] = Append(onMessage[x], y)
    PROVE  /\ Len(onMessage'[x]) = Len(onMessage[x]) + 1
           /\ \A k \in 1 .. Len(onMessage[x]) : onMessage'[x][k] = onMessage[x][k]
           /\ onMessage'[x][Len(onMessage'[x])] = y
           /\ onMessage'[x] # <<>>
<1> DEFINE s == onMessage[x]
           after == onMessage'[x]
<1>1. s \in Seq(User)
  BY TypeLists
<1>2. after = Append(s, y)
  OBVIOUS
<1> HIDE DEF s, after
<1>3. /\ Len(after) = Len(s) + 1
      /\ \A k \in 1 .. Len(s) : after[k] = s[k]
      /\ after[Len(after)] = y
      /\ after # <<>>
  BY <1>1, <1>2
<1>4. QED
  BY <1>3 DEF s, after

\* The partner of someone with listeners is a user.
LEMMA PartnerFacts ==
    ASSUME TypeOK, NEW u \in User
    PROVE  /\ onMessage[u] = <<>> => Partner(u) = Base
           /\ onMessage[u] # <<>> =>
                 /\ Partner(u) \in User
                 /\ Partner(u) = onMessage[u][Len(onMessage[u])]
                 /\ Len(onMessage[u]) \in 1 .. Len(onMessage[u])
<1>1. onMessage \in [User -> Seq(User)]
  BY TypeLists
<1>2. QED
  BY <1>1, SeqFacts DEF Partner

\* A mate is somebody present whose listener is the newest.
LEMMA MateIsPresent ==
    ASSUME TypeOK, NEW u \in User, Mate(u) # Base
    PROVE  /\ Mate(u) \in User
           /\ Present(u) /\ Present(Mate(u))
           /\ Mate(u) = Partner(u)
           /\ onMessage[u] # <<>>
BY PartnerFacts DEF Mate

\* A listener that leads to someone present makes that person the mate.
LEMMA PresentListenerIsMate ==
    ASSUME TypeOK, ~torn, StaleListenersAreDead, NEW u \in User, Present(u),
           NEW k \in 1 .. Len(onMessage[u]), Present(onMessage[u][k])
    PROVE  Mate(u) = onMessage[u][k]
<1>1. k = Len(onMessage[u])
  BY DEF StaleListenersAreDead
<1>2. onMessage[u] # <<>>
  BY TypeLists, SeqFacts
<1>3. Partner(u) = onMessage[u][k] /\ Partner(u) \in User
  BY <1>1, <1>2, PartnerFacts
<1>4. QED
  BY <1>3, BaseIsNoUser DEF Mate

\* Who has no mate has no listener that leads to someone present.
LEMMA NoMateNoPresentListener ==
    ASSUME TypeOK, ~torn, StaleListenersAreDead, NEW u \in User, Present(u),
           Mate(u) = Base, NEW k \in 1 .. Len(onMessage[u])
    PROVE  ~Present(onMessage[u][k])
<1>1. onMessage[u][k] \in User
  BY TypeLists, SeqFacts
<1>2. QED
  BY <1>1, PresentListenerIsMate, BaseIsNoUser

\* connect joins two people who have no mate, and changes nothing for others.
LEMMA ConnectPairs ==
    ASSUME TypeOK, onMessage' \in [User -> Seq(User)], ~torn, Pairing,
           NEW m \in User, NEW u \in User, m # u,
           Mate(m) = Base, Mate(u) = Base,
           onMessage' = Listen(onMessage, m, u),
           \A x \in User : onMessage[x] # <<>> => (Present(x)' <=> Present(x)),
           \A x \in User : \A k \in 1 .. Len(onMessage[x]) :
               wire'[onMessage[x][k]] \in {"open", "closing"} <=> Present(onMessage[x][k])
    PROVE  /\ Mate(m)' = IF Present(m)' /\ Present(u)' THEN u ELSE Base
           /\ Mate(u)' = IF Present(m)' /\ Present(u)' THEN m ELSE Base
           /\ \A x \in User : x # m /\ x # u => Mate(x)' = Mate(x)
           /\ Pairing'
<1>1. /\ onMessage'[u] = Append(onMessage[u], m)
      /\ onMessage'[m] = Append(onMessage[m], u)
      /\ \A x \in User : x # u /\ x # m => onMessage'[x] = onMessage[x]
  <2>1. onMessage \in [User -> Seq(User)]
    BY TypeLists
  <2>2. QED
    BY <2>1 DEF Listen
<1>2. ASSUME NEW x \in User, NEW y \in User, onMessage'[x] = Append(onMessage[x], y)
      PROVE  /\ Len(onMessage'[x]) = Len(onMessage[x]) + 1
             /\ \A k \in 1 .. Len(onMessage[x]) : onMessage'[x][k] = onMessage[x][k]
             /\ onMessage'[x][Len(onMessage'[x])] = y
             /\ onMessage'[x] # <<>>
  BY <1>2, NewEntry
<1>3. Partner(u)' = m /\ Partner(m)' = u
  BY <1>1, <1>2 DEF Partner
<1>4. /\ Mate(m)' = IF Present(m)' /\ Present(u)' THEN u ELSE Base
      /\ Mate(u)' = IF Present(m)' /\ Present(u)' THEN m ELSE Base
  BY <1>3, BaseIsNoUser DEF Mate, Present
<1>6. ASSUME NEW x \in User, x # m, x # u PROVE Mate(x)' = Mate(x)
  <2>1. onMessage'[x] = onMessage[x]
    BY <1>1, <1>6
  <2>2. Partner(x)' = Partner(x)
    BY <2>1 DEF Partner
  <2>3. CASE onMessage[x] = <<>>
    BY <2>2, <2>3, PartnerFacts DEF Mate
  <2>4. CASE onMessage[x] # <<>>
    <3>1. Present(x)' <=> Present(x)
      BY <2>4
    <3>2. PICK k \in 1 .. Len(onMessage[x]) : Partner(x) = onMessage[x][k]
      BY <2>4, PartnerFacts
    <3>3. wire'[onMessage[x][k]] \in {"open", "closing"} <=> Present(onMessage[x][k])
      OBVIOUS
    <3>4. wire'[Partner(x)] \in {"open", "closing"} <=> wire[Partner(x)] \in {"open", "closing"}
      BY <2>1, <3>2, <3>3 DEF Present
    <3>5. QED
      BY <2>2, <3>1, <3>4 DEF Mate, Present
  <2>5. QED
    BY <2>3, <2>4
<1>7. StaleListenersAreDead'
  <2> SUFFICES ASSUME NEW x \in User, Present(x)',
                      NEW k \in 1 .. Len(onMessage'[x]), Present(onMessage[x][k])'
               PROVE  k = Len(onMessage'[x])
    BY DEF StaleListenersAreDead
  <2>1. CASE x # m /\ x # u
    <3>1. onMessage'[x] = onMessage[x] /\ k \in 1 .. Len(onMessage[x])
      BY <1>1, <2>1
    <3>2. onMessage[x] # <<>>
      BY <3>1, TypeLists, SeqFacts
    <3>3. Present(x) /\ Present(onMessage[x][k])
      BY <3>1, <3>2 DEF Present
    <3>4. QED
      BY <3>1, <3>3 DEF Pairing, StaleListenersAreDead
  <2>2. CASE x = m \/ x = u
    <3>1. SUFFICES ASSUME k # Len(onMessage'[x]) PROVE FALSE
      OBVIOUS
    <3>2. Len(onMessage[x]) \in Nat /\ Len(onMessage'[x]) = Len(onMessage[x]) + 1
      <4>1. Len(onMessage[x]) \in Nat
        BY TypeLists, SeqFacts
      <4>2. QED
        BY <1>1, <1>2, <2>2, <4>1
    <3>3. k \in 1 .. Len(onMessage[x])
      BY <3>1, <3>2
    <3>4. onMessage'[x][k] = onMessage[x][k]
      <4>1. PICK y \in User : onMessage'[x] = Append(onMessage[x], y)
        BY <1>1, <2>2
      <4>2. \A j \in 1 .. Len(onMessage[x]) : onMessage'[x][j] = onMessage[x][j]
        BY <1>2, <4>1
      <4>3. QED
        BY <3>3, <4>2
    <3>5. onMessage[x] # <<>>
      BY <3>3, TypeLists, SeqFacts
    <3>6. Present(x) /\ Present(onMessage[x][k])
      <4>1. Present(x)
        BY <3>5
      <4>2. wire'[onMessage[x][k]] \in {"open", "closing"}
        BY <3>4 DEF Present
      <4>3. wire'[onMessage[x][k]] \in {"open", "closing"} <=> Present(onMessage[x][k])
        BY <3>3
      <4>4. QED
        BY <4>1, <4>2, <4>3 DEF Present
    <3>7. QED
      BY <2>2, <3>3, <3>6, NoMateNoPresentListener DEF Pairing
  <2>3. QED
    BY <2>1, <2>2
<1>8. RelaysAreMutual'
  <2> SUFFICES ASSUME NEW x \in User, NEW y \in User, Mate(x)' = y
               PROVE  Mate(y)' = x
    BY DEF RelaysAreMutual
  <2>1. CASE x = m \/ x = u
    BY <1>4, <2>1, BaseIsNoUser
  <2>2. CASE x # m /\ x # u
    <3>1. Mate(x) = y /\ Mate(y) = x
      BY <1>6, <2>2 DEF Pairing, RelaysAreMutual
    <3>2. y # m /\ y # u
      BY <3>1, BaseIsNoUser
    <3>3. QED
      BY <1>6, <3>1, <3>2
  <2>3. QED
    BY <2>1, <2>2
<1>9. QED
  BY <1>4, <1>6, <1>7, <1>8 DEF Pairing

-----------------------------------------------------------------------------
(* The invariant is preserved, one lemma per action.                       *)

\* What depends on the sockets, the flags and the listeners alone.
LEMMA ListsUnchanged ==
    ASSUME IInv, UNCHANGED <<size, wire, connected, onMessage, onClose, torn>>
    PROVE  /\ EnteredInOrder' /\ Pairing' /\ ConnectedMeansListening'
           /\ CloseFollowsMessage' /\ StaleCloseListeners'
           /\ There' = There
           /\ \A u \in User : Mate(u)' = Mate(u)
           /\ \A u \in User : \A v \in Range(onMessage'[u]) : v <= size'
           /\ \A u \in User : \A v \in Range(onClose'[u]) : v <= size'
<1>1. EnteredInOrder' /\ ConnectedMeansListening'
  BY DEF IInv, EnteredInOrder, ConnectedMeansListening, Present
<1>2. There' = There
  BY DEF There, Present
<1>3. \A u \in User : Mate(u)' = Mate(u)
  BY DEF Mate, Partner, Present
<1>4. Pairing'
  BY <1>3 DEF IInv, Pairing, StaleListenersAreDead, RelaysAreMutual, Present
<1>5. CloseFollowsMessage' /\ StaleCloseListeners'
  BY <1>2 DEF IInv, CloseFollowsMessage, StaleCloseListeners, NewestOnly
<1>6. QED
  BY <1>1, <1>2, <1>3, <1>4, <1>5 DEF IInv, ListenersEntered

\* What a listener that returns leaves to be done.
LEMMA AfterReturn ==
    ASSUME IInv, todo # <<>>, Return
    PROVE  /\ EventHasListeners'
           /\ Head(todo) \in Range(todo)
           /\ Range(todo') \subseteq Range(todo)
           /\ turn'.event = "close" => turn.event = "close"
           /\ ~torn /\ turn.event = "close" =>
                 /\ NewestOnly(todo', There)
                 /\ Head(todo) \in There => Range(todo') \subseteq {Base}
<1>1. todo \in Seq(Listener)
  BY DEF IInv, TypeOK
<1>2. Range(todo') \subseteq Range(todo) /\ Head(todo) \in Range(todo)
  <2>1. Range(Tail(todo)) = {Tail(todo)[k] : k \in 1 .. Len(todo) - 1}
    <3>1. Tail(todo) \in Seq(Listener) /\ Len(Tail(todo)) = Len(todo) - 1
      BY <1>1
    <3>2. QED
      BY <3>1, RangeEquality
  <2>2. Range(todo) = {todo[k] : k \in 1 .. Len(todo)}
    BY <1>1, RangeEquality
  <2>3. QED
    BY <1>1, <2>1, <2>2 DEF Return
<1>3. ~torn /\ turn.event = "close" =>
        /\ NewestOnly(todo', There)
        /\ Head(todo) \in There => Range(todo') \subseteq {Base}
  <2>1. ~torn /\ turn.event = "close" => NewestOnly(todo, There)
    BY DEF IInv, SurvivorIsLast
  <2>2. QED
    BY <1>1, <2>1, NewestTail DEF Return
<1>4. turn'.event = "close" => turn.event = "close"
  BY DEF Return, NoEvent
<1>5. EventHasListeners'
  <2>1. todo' = <<>> <=> Len(todo) = 1
    <3> DEFINE t == Tail(todo)
    <3>1. t \in Seq(Listener)
      BY <1>1
    <3>2. Len(t) = Len(todo) - 1 /\ Len(todo) \in Nat
      BY <1>1
    <3> HIDE DEF t
    <3>3. t = <<>> <=> Len(t) = 0
      BY <3>1
    <3>4. t = <<>> <=> Len(todo) = 1
      BY <3>2, <3>3
    <3>5. QED
      BY <3>4 DEF Return, t
  <2>2. turn # NoEvent
    BY DEF IInv, EventHasListeners
  <2>3. QED
    BY <2>1, <2>2 DEF Return, EventHasListeners
<1>6. QED
  BY <1>2, <1>3, <1>4, <1>5

LEMMA MessageInv ==
    ASSUME IInv, TypeOK', NEW u \in User, ReceiveMessage(u)
    PROVE  IInv'
<1>1. UNCHANGED <<size, wire, connected, closed, onMessage, onClose, torn>>
  BY DEF ReceiveMessage, server
<1>2. todo' = onMessage[u] /\ turn'.event # "close"
  BY DEF ReceiveMessage, Emit, NoEvent
<1>3. EventHasListeners'
  BY DEF ReceiveMessage, Emit, EventHasListeners, NoEvent
<1>4. AtMostOneWaiting'
  BY <1>1 DEF IInv, AtMostOneWaiting
<1>5. ListenersEntered'
  BY <1>1, <1>2, ListsUnchanged DEF IInv, ListenersEntered
<1>6. QED
  BY <1>1, <1>2, <1>3, <1>4, <1>5, ListsUnchanged DEF IInv, SurvivorIsLast

LEMMA RelayInv ==
    ASSUME IInv, TypeOK', todo # <<>>, NEW v \in User, Relay(v)
    PROVE  IInv'
<1>1. UNCHANGED <<size, wire, connected, closed, onMessage, onClose, torn>>
  BY DEF Relay, server
<1>2. Return /\ turn.event # "close"
  BY DEF Relay
<1>3. turn'.event # "close" /\ Range(todo') \subseteq Range(todo) /\ EventHasListeners'
  BY <1>2, AfterReturn
<1>4. AtMostOneWaiting'
  BY <1>1 DEF IInv, AtMostOneWaiting
<1>5. ListenersEntered'
  BY <1>1, <1>3, ListsUnchanged DEF IInv, ListenersEntered
<1>6. QED
  BY <1>1, <1>3, <1>4, <1>5, ListsUnchanged DEF IInv, SurvivorIsLast

LEMMA MarkClosedInv ==
    ASSUME IInv, TypeOK', todo # <<>>, MarkClosed
    PROVE  IInv'
<1>1. UNCHANGED <<size, wire, connected, onMessage, onClose, torn>> /\ Return
  BY DEF MarkClosed
<1>2. Range(todo') \subseteq Range(todo) /\ EventHasListeners'
  BY <1>1, AfterReturn
<1>3. AtMostOneWaiting'
  <2>1. \A x \in User : closed[x] => closed'[x]
    BY DEF MarkClosed, IInv, TypeOK
  <2>2. QED
    BY <1>1, <2>1 DEF IInv, AtMostOneWaiting
<1>4. ListenersEntered'
  BY <1>1, <1>2, ListsUnchanged DEF IInv, ListenersEntered
<1>5. ASSUME ~torn, turn'.event = "close"
      PROVE  /\ NewestOnly(todo, There)'
             /\ \A x \in Range(todo') \cap There' : connected'[x] /\ Mate(x)' = Base
  <2>1. There' = There /\ \A x \in User : Mate(x)' = Mate(x)
    BY <1>1, ListsUnchanged
  <2>2. turn.event = "close" /\ NewestOnly(todo', There)
    BY <1>1, <1>5, AfterReturn
  <2>3. NewestOnly(todo, There)'
    BY <2>1, <2>2 DEF NewestOnly
  <2>4. \A x \in Range(todo') \cap There : connected[x] /\ Mate(x) = Base
    BY <1>2, <1>5, <2>2 DEF IInv, SurvivorIsLast
  <2>5. ASSUME NEW x \in Range(todo') \cap There' PROVE connected'[x] /\ Mate(x)' = Base
    BY <1>1, <2>1, <2>4 DEF There
  <2>6. QED
    BY <2>3, <2>5
<1>6. SurvivorIsLast'
  BY <1>1, <1>5 DEF SurvivorIsLast
<1>7. QED
  BY <1>1, <1>2, <1>3, <1>4, <1>6, ListsUnchanged DEF IInv

\* The library answers a close frame: nobody leaves the room yet.
LEMMA CloseFrameInv ==
    ASSUME IInv, TypeOK', NEW u \in User, ReceiveCloseFrame(u)
    PROVE  IInv' /\ There' = There /\ \A x \in User : Mate(x)' = Mate(x)
<1>1. UNCHANGED <<size, connected, closed, onMessage, onClose, turn, todo, torn>>
  BY DEF ReceiveCloseFrame, server
<1>2. \A x \in User : (Present(x)' <=> Present(x)) /\ (wire'[x] = "none" <=> wire[x] = "none")
  BY DEF ReceiveCloseFrame, Present, IInv, TypeOK
<1>3. There' = There
  BY <1>2 DEF There
<1>4. \A x \in User : Mate(x)' = Mate(x)
  <2> SUFFICES ASSUME NEW x \in User PROVE Mate(x)' = Mate(x)
    OBVIOUS
  <2>1. Partner(x)' = Partner(x)
    BY <1>1 DEF Partner
  <2>2. CASE Partner(x) = Base
    BY <2>1, <2>2 DEF Mate
  <2>3. CASE Partner(x) \in User
    <3>1. Present(Partner(x))' <=> Present(Partner(x))
      BY <1>2, <2>1, <2>3 DEF Present
    <3>2. QED
      BY <1>2, <2>1, <3>1 DEF Mate, Present
  <2>4. QED
    BY <2>2, <2>3, PartnerFacts DEF IInv
<1>5. EnteredInOrder'
  BY <1>1, <1>2 DEF IInv, EnteredInOrder
<1>6. StaleListenersAreDead'
  <2> SUFFICES ASSUME ~torn, NEW x \in User, Present(x)',
                      NEW k \in 1 .. Len(onMessage[x]), Present(onMessage[x][k])'
               PROVE  k = Len(onMessage[x])
    BY <1>1 DEF StaleListenersAreDead
  <2>1. onMessage[x][k] \in User
    BY TypeLists, SeqFacts DEF IInv
  <2>2. Present(x) /\ Present(onMessage[x][k])
    BY <1>1, <1>2, <2>1 DEF Present
  <2>3. QED
    BY <2>2 DEF IInv, Pairing, StaleListenersAreDead
<1>7. RelaysAreMutual'
  BY <1>1, <1>4 DEF IInv, Pairing, RelaysAreMutual
<1>8. ConnectedMeansListening' /\ AtMostOneWaiting' /\ ListenersEntered' /\ EventHasListeners'
  BY <1>1, <1>2 DEF IInv, ConnectedMeansListening, AtMostOneWaiting, ListenersEntered,
                    EventHasListeners
<1>9. CloseFollowsMessage' /\ StaleCloseListeners'
  BY <1>1, <1>3 DEF IInv, CloseFollowsMessage, StaleCloseListeners, NewestOnly
<1>10. SurvivorIsLast'
  <2>1. turn = NoEvent
    BY DEF ReceiveCloseFrame, Idle, IInv, EventHasListeners
  <2>2. QED
    BY <1>1, <2>1 DEF SurvivorIsLast, NoEvent
<1>11. QED
  BY <1>3, <1>4, <1>5, <1>6, <1>7, <1>8, <1>9, <1>10 DEF IInv, Pairing

\* Somebody leaves: the mate is the only one present that the close listeners
\* lead to.
LEMMA SocketCloseInv ==
    ASSUME IInv, TypeOK', NEW u \in User, SocketClose(u)
    PROVE  /\ IInv'
           /\ There' = There \ {u} /\ u \in There
           /\ \A x \in User : Mate(x)' = IF x = u \/ Mate(x) = u THEN Base ELSE Mate(x)
<1>1. UNCHANGED <<size, connected, closed, onMessage, onClose, torn>>
  BY DEF SocketClose, server
<1>2. /\ \A x \in User : Present(x)' <=> Present(x) /\ x # u
      /\ \A x \in User : wire'[x] = "none" <=> wire[x] = "none"
      /\ Present(u)
  BY DEF SocketClose, Present, IInv, TypeOK
<1>3. There' = There \ {u} /\ u \in There
  BY <1>2 DEF There
<1>4. \A x \in User : Mate(x)' = IF x = u \/ Mate(x) = u THEN Base ELSE Mate(x)
  <2> SUFFICES ASSUME NEW x \in User
               PROVE  Mate(x)' = IF x = u \/ Mate(x) = u THEN Base ELSE Mate(x)
    OBVIOUS
  <2>1. Partner(x)' = Partner(x)
    BY <1>1 DEF Partner
  <2>2. CASE Partner(x) = Base
    BY <2>1, <2>2 DEF Mate
  <2>3. CASE Partner(x) \in User
    <3>1. Present(Partner(x))' <=> Present(Partner(x)) /\ Partner(x) # u
      BY <1>2, <2>1, <2>3 DEF Present
    <3>2. Present(x)' <=> Present(x) /\ x # u
      BY <1>2
    <3>3. QED
      BY <1>2, <2>1, <2>3, <3>1, <3>2, BaseIsNoUser DEF Mate, Present
  <2>4. QED
    BY <2>2, <2>3, PartnerFacts DEF IInv
<1>5. EnteredInOrder'
  BY <1>1, <1>2 DEF IInv, EnteredInOrder
<1>6. StaleListenersAreDead'
  <2> SUFFICES ASSUME ~torn, NEW x \in User, Present(x)',
                      NEW k \in 1 .. Len(onMessage[x]), Present(onMessage[x][k])'
               PROVE  k = Len(onMessage[x])
    BY <1>1 DEF StaleListenersAreDead
  <2>1. onMessage[x][k] \in User
    BY TypeLists, SeqFacts DEF IInv
  <2>2. Present(x) /\ Present(onMessage[x][k])
    BY <1>1, <1>2, <2>1 DEF Present
  <2>3. QED
    BY <2>2 DEF IInv, Pairing, StaleListenersAreDead
<1>7. RelaysAreMutual'
  BY <1>1, <1>4, BaseIsNoUser DEF IInv, Pairing, RelaysAreMutual
<1>8. ConnectedMeansListening' /\ AtMostOneWaiting'
  BY <1>1, <1>2 DEF IInv, ConnectedMeansListening, AtMostOneWaiting
<1>9. CloseFollowsMessage'
  BY <1>1, <1>3 DEF IInv, CloseFollowsMessage
<1>10. StaleCloseListeners'
  <2> SUFFICES ASSUME ~torn, NEW x \in There' PROVE NewestOnly(onClose[x], There \ {u})
    BY <1>1, <1>3 DEF StaleCloseListeners, NewestOnly
  <2>1. x \in There /\ x \in User
    BY <1>3 DEF There
  <2>2. NewestOnly(onClose[x], There)
    BY <2>1 DEF IInv, StaleCloseListeners
  <2>3. QED
    BY <2>2 DEF NewestOnly
<1>11. EventHasListeners'
  BY DEF SocketClose, Emit, EventHasListeners, NoEvent
<1>12. todo' = onClose[u]
  BY DEF SocketClose, Emit
<1>13. ListenersEntered'
  BY <1>1, <1>12 DEF IInv, ListenersEntered
<1>14. SurvivorIsLast'
  <2> SUFFICES ASSUME ~torn
               PROVE  /\ NewestOnly(todo', There')
                      /\ \A v \in Range(todo') \cap There' : connected[v] /\ Mate(v)' = Base
    BY <1>1 DEF SurvivorIsLast, NewestOnly, There
  <2>1. NewestOnly(todo', There')
    BY <1>3, <1>12 DEF IInv, StaleCloseListeners, NewestOnly
  <2>2. ASSUME NEW v \in Range(onClose[u]) \cap There' PROVE connected[v] /\ Mate(v)' = Base
    <3>1. v \in User /\ Present(v) /\ v # u /\ v # Base
      BY <1>3, BaseIsNoUser DEF There
    <3>2. v \in Range(onMessage[u])
      BY <1>3, <3>1 DEF IInv, CloseFollowsMessage
    <3>3. PICK k \in 1 .. Len(onMessage[u]) : onMessage[u][k] = v
      BY <3>2, TypeLists, RangeEquality DEF IInv
    <3>4. Mate(u) = v
      BY <1>2, <3>1, <3>3, PresentListenerIsMate DEF IInv, Pairing
    <3>5. Mate(v) = u
      BY <3>1, <3>4 DEF IInv, Pairing, RelaysAreMutual
    <3>6. onMessage[v] # <<>>
      BY <3>1, <3>5, BaseIsNoUser, MateIsPresent DEF IInv
    <3>7. QED
      BY <1>4, <3>1, <3>5, <3>6 DEF IInv, ConnectedMeansListening
  <2>3. QED
    BY <1>12, <2>1, <2>2
<1>15. QED
  BY <1>3, <1>4, <1>5, <1>6, <1>7, <1>8, <1>9, <1>10, <1>11, <1>13, <1>14 DEF IInv, Pairing

\* A close that is emitted again calls listeners that lead to anybody.
LEMMA GraceTimerInv ==
    ASSUME IInv, TypeOK', NEW u \in User, GraceTimer(u)
    PROVE  IInv'
<1>1. UNCHANGED <<size, wire, connected, closed, onMessage, onClose, torn>>
  BY DEF GraceTimer, server
<1>2. todo' = onClose[u] /\ turn'.event # "close"
  BY DEF GraceTimer, Emit, NoEvent
<1>3. EventHasListeners'
  BY DEF GraceTimer, Emit, EventHasListeners, NoEvent
<1>4. AtMostOneWaiting'
  BY <1>1 DEF IInv, AtMostOneWaiting
<1>5. ListenersEntered'
  BY <1>1, <1>2, ListsUnchanged DEF IInv, ListenersEntered
<1>6. QED
  BY <1>1, <1>2, <1>3, <1>4, <1>5, ListsUnchanged DEF IInv, SurvivorIsLast

\* Who has no mate has no close listener that leads to someone present.
LEMMA NoMateNoCloseListener ==
    ASSUME IInv, ~torn, NEW u \in User, Present(u), Mate(u) = Base
    PROVE  Range(onClose[u]) \cap There = {}
<1>1. \A k \in 1 .. Len(onMessage[u]) : ~Present(onMessage[u][k])
  BY NoMateNoPresentListener DEF IInv, Pairing
<1>2. \A v \in Range(onMessage[u]) : ~Present(v)
  <2>1. Range(onMessage[u]) = {onMessage[u][k] : k \in 1 .. Len(onMessage[u])}
    BY TypeLists, RangeEquality DEF IInv
  <2> QED
    BY <1>1, <2>1
<1>3. Range(onClose[u]) \ {Base} = Range(onMessage[u])
  BY DEF IInv, CloseFollowsMessage, There
<1>4. QED
  BY <1>2, <1>3, BaseIsNoUser DEF There

\* What the close listener of setAction knows of user2 (l.82-90), unless it
\* tears user2 from a mate.
LEMMA SurvivorFacts ==
    ASSUME IInv, todo # <<>>, Closing, NEW v \in User, Head(todo) = v,
           Return, torn' = Tears(v)
    PROVE  /\ v <= size
           /\ ~torn' => ~torn /\ Mate(v) = Base
<1>1. v \in Range(todo)
  BY AfterReturn
<1>2. torn \in BOOLEAN /\ torn' = (torn \/ (turn.event = "again" /\ Mate(v) # Base))
  BY DEF IInv, TypeOK, Tears
<1>3. ASSUME ~torn' PROVE ~torn /\ Mate(v) = Base
  <2>1. ~torn /\ (turn.event = "again" => Mate(v) = Base)
    BY <1>2, <1>3
  <2>2. turn.event = "close" /\ v \in There => Mate(v) = Base
    BY <1>1, <2>1 DEF IInv, SurvivorIsLast
  <2>3. v \notin There => Mate(v) = Base
    BY DEF There, Mate
  <2>4. QED
    BY <2>1, <2>2, <2>3 DEF Closing
<1>4. QED
  BY <1>1, <1>3 DEF IInv, ListenersEntered

\* search returns somebody without a mate.
LEMMA SearchFacts ==
    ASSUME IInv, NEW u \in Nat, NEW m \in User, Search(u, m)
    PROVE  /\ m # u /\ m <= size
           /\ ~connected[m] /\ ~closed[m]
           /\ Mate(m) = Base
<1>1. m # u /\ m <= size /\ ~connected[m] /\ ~closed[m]
  BY DEF Search, Waiting, IInv, TypeOK
<1>2. Mate(m) = Base
  BY <1>1, MateIsPresent DEF IInv, ConnectedMeansListening
<1>3. QED
  BY <1>1, <1>2

LEMMA UnmatchInv ==
    ASSUME IInv, TypeOK', todo # <<>>, NEW v \in User, Head(todo) = v, Unmatch(v)
    PROVE  /\ IInv'
           /\ There' = There
           /\ ~torn' => \A x \in User : Mate(x)' = Mate(x)
<1>1. /\ UNCHANGED <<size, closed, wire>> /\ Return /\ Closing /\ torn' = Tears(v)
      /\ connected' = [connected EXCEPT ![v] = FALSE]
      /\ onMessage' = [onMessage EXCEPT ![v] = <<>>]
      /\ onClose' = [onClose EXCEPT ![v] = <<>>]
      /\ SearchFails(v)
  BY DEF Unmatch, InitConnect
<1>2. /\ connected'[v] = FALSE /\ \A x \in User : x # v => connected'[x] = connected[x]
      /\ onMessage'[v] = <<>> /\ \A x \in User : x # v => onMessage'[x] = onMessage[x]
      /\ onClose'[v] = <<>> /\ \A x \in User : x # v => onClose'[x] = onClose[x]
  BY <1>1 DEF IInv, TypeOK
<1>3. v <= size /\ (~torn' => ~torn /\ Mate(v) = Base)
  BY <1>1, SurvivorFacts
<1>4. There' = There /\ \A x \in User : Present(x)' <=> Present(x)
  BY <1>1 DEF There, Present
<1>5. ~torn' => \A x \in User : Mate(x)' = Mate(x)
  <2> SUFFICES ASSUME ~torn', NEW x \in User PROVE Mate(x)' = Mate(x)
    OBVIOUS
  <2>1. CASE x = v
    BY <1>2, <1>3, <2>1 DEF Mate, Partner
  <2>2. CASE x # v
    <3>1. onMessage'[x] = onMessage[x]
      BY <1>2, <2>2
    <3>2. QED
      BY <1>1, <3>1 DEF Mate, Partner, Present
  <2>3. QED
    BY <2>1, <2>2
<1>6. Range(<<>>) = {}
  BY DEF Range
<1>7. EnteredInOrder'
  <2>1. \A x \in User : x > size => x # v
    BY <1>3 DEF IInv, TypeOK, User
  <2>2. QED
    BY <1>1, <1>2, <2>1 DEF IInv, EnteredInOrder
<1>8. StaleListenersAreDead'
  <2> SUFFICES ASSUME ~torn', NEW x \in User, Present(x)',
                      NEW k \in 1 .. Len(onMessage'[x]), Present(onMessage[x][k])'
               PROVE  k = Len(onMessage'[x])
    BY DEF StaleListenersAreDead
  <2>1. x # v
    BY <1>2
  <2>2. onMessage'[x] = onMessage[x]
    BY <1>2, <2>1
  <2>3. Present(x) /\ Present(onMessage[x][k])
    BY <1>1, <2>2 DEF Present
  <2>4. QED
    BY <1>3, <2>2, <2>3 DEF IInv, Pairing, StaleListenersAreDead
<1>9. RelaysAreMutual'
  BY <1>3, <1>5 DEF IInv, Pairing, RelaysAreMutual
<1>10. ConnectedMeansListening'
  BY <1>2, <1>4 DEF IInv, ConnectedMeansListening
<1>11. AtMostOneWaiting'
  <2>1. ASSUME NEW x \in User, x <= size, ~closed[x], ~connected[x] PROVE x = v
    <3>1. x \in 1 .. size
      BY <2>1 DEF IInv, TypeOK, User
    <3>2. x \notin Waiting(v)
      BY <1>1 DEF SearchFails
    <3>3. QED
      BY <2>1, <3>1, <3>2 DEF Waiting
  <2>2. QED
    BY <1>1, <1>2, <2>1 DEF AtMostOneWaiting
<1>12. CloseFollowsMessage'
  BY <1>2, <1>4, <1>6 DEF IInv, CloseFollowsMessage, There
<1>13. StaleCloseListeners'
  <2> SUFFICES ASSUME ~torn', NEW x \in There PROVE NewestOnly(onClose'[x], There)
    BY <1>4 DEF StaleCloseListeners, NewestOnly
  <2>1. x \in User
    BY DEF There
  <2>2. CASE x = v
    BY <1>2, <2>2 DEF NewestOnly
  <2>3. CASE x # v
    BY <1>2, <1>3, <2>1, <2>3 DEF IInv, StaleCloseListeners
  <2>4. QED
    BY <2>2, <2>3
<1>14. EventHasListeners' /\ Range(todo') \subseteq Range(todo)
  BY <1>1, AfterReturn
<1>15. ListenersEntered'
  BY <1>1, <1>2, <1>6, <1>14 DEF IInv, ListenersEntered
<1>16. SurvivorIsLast'
  <2> SUFFICES ASSUME ~torn', turn'.event = "close"
               PROVE  /\ NewestOnly(todo', There)
                      /\ \A x \in Range(todo') \cap There : connected'[x] /\ Mate(x)' = Base
    BY <1>4 DEF SurvivorIsLast, NewestOnly
  <2>3. ~torn /\ turn.event = "close"
    BY <1>1, <1>3, AfterReturn
  <2>1. NewestOnly(todo', There) /\ (v \in There => Range(todo') \subseteq {Base})
    BY <1>1, <2>3, AfterReturn
  <2>2. ASSUME NEW x \in Range(todo') \cap There PROVE connected'[x] /\ Mate(x)' = Base
    <3>1. x \in User /\ x # Base
      BY BaseIsNoUser DEF There
    <3>2. x # v
      BY <2>1, <3>1
    <3>3. connected[x] /\ Mate(x) = Base
      BY <1>14, <2>3 DEF IInv, SurvivorIsLast
    <3>4. QED
      BY <1>2, <1>5, <3>1, <3>2, <3>3
  <2>4. QED
    BY <2>1, <2>2
<1>17. QED
  BY <1>4, <1>5, <1>7, <1>8, <1>9, <1>10, <1>11, <1>12, <1>13, <1>14, <1>15, <1>16 DEF IInv, Pairing

LEMMA RematchInv ==
    ASSUME IInv, TypeOK', todo # <<>>, NEW v \in User, Head(todo) = v, Rematch(v)
    PROVE  /\ IInv'
           /\ There' = There
           /\ ~torn' => \E m \in User :
                 /\ m # v /\ Mate(m) = Base /\ Mate(v) = Base
                 /\ Mate(m)' = IF Present(m) /\ Present(v) THEN v ELSE Base
                 /\ Mate(v)' = IF Present(m) /\ Present(v) THEN m ELSE Base
                 /\ \A x \in User : x # m /\ x # v => Mate(x)' = Mate(x)
<1>1. PICK m \in User : /\ Search(v, m) /\ Connect(m, v)
                        /\ onClose' = Listen(onClose, m, v)
  BY DEF Rematch
<1>2. UNCHANGED <<size, closed, wire>> /\ Return /\ Closing /\ torn' = Tears(v)
  BY DEF Rematch
<1>3. /\ connected'[v] /\ connected'[m]
      /\ \A x \in User : x # v /\ x # m => connected'[x] = connected[x]
  BY <1>1 DEF Connect, IInv, TypeOK
<1>4. v <= size /\ (~torn' => ~torn /\ Mate(v) = Base)
  BY <1>2, SurvivorFacts
<1>5. m # v /\ m <= size /\ ~connected[m] /\ Mate(m) = Base
  BY <1>1, SearchFacts DEF User
<1>6. There' = There /\ \A x \in User : Present(x)' <=> Present(x)
  BY <1>2 DEF There, Present
<1>7. ASSUME ~torn'
      PROVE  /\ Mate(m)' = IF Present(m)' /\ Present(v)' THEN v ELSE Base
             /\ Mate(v)' = IF Present(m)' /\ Present(v)' THEN m ELSE Base
             /\ \A x \in User : x # m /\ x # v => Mate(x)' = Mate(x)
             /\ Pairing'
  <2>1. onMessage' = Listen(onMessage, m, v)
    BY <1>1 DEF Connect
  <2>2. onMessage' \in [User -> Seq(User)]
    BY DEF TypeOK
  <2>3. \A x \in User : \A k \in 1 .. Len(onMessage[x]) :
            wire'[onMessage[x][k]] \in {"open", "closing"} <=> Present(onMessage[x][k])
    BY <1>2 DEF Present
  <2>4. QED
    BY <1>4, <1>5, <1>6, <1>7, <2>1, <2>2, <2>3, ConnectPairs DEF IInv
<1>8. /\ onMessage'[v] = Append(onMessage[v], m) /\ onMessage'[m] = Append(onMessage[m], v)
      /\ \A x \in User : x # v /\ x # m => onMessage'[x] = onMessage[x]
      /\ onClose'[v] = Append(onClose[v], m) /\ onClose'[m] = Append(onClose[m], v)
      /\ \A x \in User : x # v /\ x # m => onClose'[x] = onClose[x]
  <2>1. onMessage' = Listen(onMessage, m, v) /\ onClose' = Listen(onClose, m, v)
    BY <1>1 DEF Connect
  <2>2. onMessage \in [User -> Seq(User)] /\ onClose \in [User -> Seq(Listener)]
    BY TypeLists DEF IInv
  <2>3. QED
    BY <1>5, <2>1, <2>2 DEF Listen
<1>9. ASSUME NEW x \in User
      PROVE  /\ onMessage[x] \in Seq(Listener) /\ onClose[x] \in Seq(Listener)
             /\ x \in Listener
  BY TypeLists DEF IInv, Listener
<1>10. /\ Range(onMessage'[v]) = Range(onMessage[v]) \cup {m}
       /\ Range(onMessage'[m]) = Range(onMessage[m]) \cup {v}
       /\ Range(onClose'[v]) = Range(onClose[v]) \cup {m}
       /\ Range(onClose'[m]) = Range(onClose[m]) \cup {v}
  BY <1>8, <1>9, RangeOfAppend
<1>11. EnteredInOrder'
  <2>1. \A x \in User : x > size => x # v /\ x # m
    BY <1>4, <1>5 DEF IInv, TypeOK, User
  <2>2. QED
    BY <1>2, <1>3, <1>8, <2>1 DEF IInv, EnteredInOrder
<1>12. ConnectedMeansListening'
  <2>1. onMessage'[v] # <<>> /\ onMessage'[m] # <<>>
    BY <1>8, NewEntry DEF IInv
  <2>2. QED
    BY <1>3, <1>6, <1>8, <2>1 DEF IInv, ConnectedMeansListening
<1>13. AtMostOneWaiting'
  BY <1>2, <1>3 DEF IInv, AtMostOneWaiting
<1>14. CloseFollowsMessage'
  <2> SUFFICES ASSUME NEW x \in There
               PROVE  Range(onClose'[x]) \ {Base} = Range(onMessage'[x])
    BY <1>6 DEF CloseFollowsMessage
  <2>1. x \in User /\ Range(onClose[x]) \ {Base} = Range(onMessage[x])
    BY DEF IInv, CloseFollowsMessage, There
  <2>2. CASE x = v
    BY <1>10, <2>1, <2>2, BaseIsNoUser
  <2>3. CASE x = m
    BY <1>10, <2>1, <2>3, BaseIsNoUser
  <2>4. CASE x # v /\ x # m
    BY <1>8, <2>1, <2>4
  <2>5. QED
    BY <2>2, <2>3, <2>4
<1>15. StaleCloseListeners'
  <2> SUFFICES ASSUME ~torn', NEW x \in There PROVE NewestOnly(onClose'[x], There)
    BY <1>6 DEF StaleCloseListeners, NewestOnly
  <2>1. x \in User /\ Present(x)
    BY DEF There
  <2>2. CASE x = v \/ x = m
    <3>1. Range(onClose[x]) \cap There = {}
      BY <1>4, <1>5, <2>1, <2>2, NoMateNoCloseListener
    <3>2. PICK y \in User : onClose'[x] = Append(onClose[x], y)
      BY <1>8, <2>2
    <3>3. NewestOnly(Append(onClose[x], y), There)
      BY <1>9, <2>1, <3>1, NewestAppend
    <3>4. QED
      BY <3>2, <3>3
  <2>3. CASE x # v /\ x # m
    BY <1>4, <1>8, <2>1, <2>3 DEF IInv, StaleCloseListeners
  <2>4. QED
    BY <2>2, <2>3
<1>16. EventHasListeners' /\ Range(todo') \subseteq Range(todo)
  BY <1>2, AfterReturn
<1>17. ListenersEntered'
  <2>1. /\ \A x \in User : \A y \in Range(onMessage'[x]) : y <= size
        /\ \A x \in User : \A y \in Range(onClose'[x]) : y <= size
    <3> SUFFICES ASSUME NEW x \in User
                 PROVE  /\ \A y \in Range(onMessage'[x]) : y <= size
                        /\ \A y \in Range(onClose'[x]) : y <= size
      OBVIOUS
    <3>1. /\ \A y \in Range(onMessage[x]) : y <= size
          /\ \A y \in Range(onClose[x]) : y <= size
      BY DEF IInv, ListenersEntered
    <3>2. CASE x = v \/ x = m
      BY <1>4, <1>5, <1>10, <3>1, <3>2
    <3>3. CASE x # v /\ x # m
      BY <1>8, <3>1, <3>3
    <3> QED
      BY <3>2, <3>3
  <2>2. QED
    BY <1>2, <1>16, <2>1 DEF IInv, ListenersEntered
<1>18. SurvivorIsLast'
  <2> SUFFICES ASSUME ~torn', turn'.event = "close"
               PROVE  /\ NewestOnly(todo', There)
                      /\ \A x \in Range(todo') \cap There : connected'[x] /\ Mate(x)' = Base
    BY <1>6 DEF SurvivorIsLast, NewestOnly
  <2>3. ~torn /\ turn.event = "close"
    BY <1>2, <1>4, AfterReturn
  <2>1. NewestOnly(todo', There) /\ (v \in There => Range(todo') \subseteq {Base})
    BY <1>2, <2>3, AfterReturn
  <2>2. ASSUME NEW x \in Range(todo') \cap There PROVE connected'[x] /\ Mate(x)' = Base
    <3>1. x \in User /\ x # Base
      BY BaseIsNoUser DEF There
    <3>2. connected[x] /\ Mate(x) = Base
      BY <1>16, <2>3 DEF IInv, SurvivorIsLast
    <3>3. x # v /\ x # m
      BY <1>5, <2>1, <3>1, <3>2
    <3>4. QED
      BY <1>3, <1>7, <3>1, <3>2, <3>3
  <2>4. QED
    BY <2>1, <2>2
<1>19. ASSUME ~torn' PROVE \E w \in User :
          /\ w # v /\ Mate(w) = Base /\ Mate(v) = Base
          /\ Mate(w)' = IF Present(w) /\ Present(v) THEN v ELSE Base
          /\ Mate(v)' = IF Present(w) /\ Present(v) THEN w ELSE Base
          /\ \A x \in User : x # w /\ x # v => Mate(x)' = Mate(x)
  <2> WITNESS m \in User
  <2>1. QED
    BY <1>4, <1>5, <1>6, <1>7, <1>19
<1>20. Pairing'
  BY <1>7 DEF Pairing, StaleListenersAreDead, RelaysAreMutual
<1>21. QED
  BY <1>6, <1>19, <1>20, <1>11, <1>12, <1>13, <1>14, <1>15, <1>16, <1>17, <1>18 DEF IInv

\* What is known of the index a request is about to use (conn.length).
LEMMA NewcomerFacts ==
    ASSUME IInv, TypeOK', NEW u, u = size + 1, Request
    PROVE  /\ u \in User /\ u \in Nat /\ size' = u /\ size \in Nat
           /\ ~connected[u] /\ onMessage[u] = <<>> /\ onClose[u] = <<>>
           /\ ~Present(u) /\ Mate(u) = Base
           /\ wire' = [wire EXCEPT ![u] = "open"]
           /\ There' = There \cup {u}
           /\ \A x \in User : Present(x)' <=> Present(x) \/ x = u
           /\ \A x \in User : u \notin Range(onMessage[x]) /\ u \notin Range(onClose[x])
           /\ turn = NoEvent /\ UNCHANGED <<closed, turn, todo, torn>>
<1>1. u \in User /\ u \in Nat /\ size' = u /\ size \in Nat
  BY BoundsAssumption DEF Request, IInv, TypeOK, User
<1>2. u > size /\ ~(u <= size)
  BY <1>1
<1>3. wire[u] = "none" /\ ~connected[u] /\ onMessage[u] = <<>> /\ onClose[u] = <<>>
  BY <1>1, <1>2 DEF IInv, EnteredInOrder
<1>4. ~Present(u)
  BY <1>3 DEF Present
<1>5. Mate(u) = Base
  BY <1>4 DEF Mate
<1>6. wire' = [wire EXCEPT ![u] = "open"]
  BY DEF Request
<1>7. \A x \in User : Present(x)' <=> Present(x) \/ x = u
  BY <1>6 DEF Present, IInv, TypeOK
<1>8. There' = There \cup {u}
  BY <1>1, <1>7 DEF There
<1>9. \A x \in User : u \notin Range(onMessage[x]) /\ u \notin Range(onClose[x])
  BY <1>2 DEF IInv, ListenersEntered
<1>10. turn = NoEvent /\ UNCHANGED <<closed, turn, todo, torn>>
  BY DEF Request, Idle, IInv, EventHasListeners
<1>11. QED
  BY <1>1, <1>3, <1>4, <1>5, <1>6, <1>7, <1>8, <1>9, <1>10

\* Message listeners of those in conn see the same people as before.
LEMMA NewcomerUnknown ==
    ASSUME IInv, TypeOK', NEW u, u = size + 1, Request
    PROVE  /\ \A x \in User : onMessage[x] # <<>> => (Present(x)' <=> Present(x))
           /\ \A x \in User : \A k \in 1 .. Len(onMessage[x]) :
                 wire'[onMessage[x][k]] \in {"open", "closing"} <=> Present(onMessage[x][k])
<1>1. ASSUME NEW x \in User, onMessage[x] # <<>> PROVE Present(x)' <=> Present(x)
  BY <1>1, NewcomerFacts
<1>2. ASSUME NEW x \in User, NEW k \in 1 .. Len(onMessage[x])
      PROVE  wire'[onMessage[x][k]] \in {"open", "closing"} <=> Present(onMessage[x][k])
  <2>1. onMessage[x][k] \in Range(onMessage[x]) /\ onMessage[x][k] \in User
    BY TypeLists, RangeEquality, SeqFacts DEF IInv
  <2>2. onMessage[x][k] # u
    BY <2>1, NewcomerFacts
  <2>3. wire'[onMessage[x][k]] = wire[onMessage[x][k]]
    BY <2>1, <2>2, NewcomerFacts DEF IInv, TypeOK
  <2>4. QED
    BY <2>3 DEF Present
<1>3. QED
  BY <1>1, <1>2

\* Who has been accepted comes before the newcomer.
LEMMA EnteredBefore ==
    ASSUME IInv, TypeOK', NEW u, u = size + 1, Request
    PROVE  /\ \A x \in User : \A v \in Range(onMessage[x]) : v <= u
           /\ \A x \in User : \A v \in Range(onClose[x]) : v <= u
           /\ todo = <<>> /\ Base <= u
<1>1. size \in Nat /\ u \in Nat
  BY NewcomerFacts
<1>2. ASSUME NEW x \in User, NEW v \in Range(onMessage[x]) PROVE v <= u
  <2>1. v \in User
    BY TypeLists, RangeType DEF IInv
  <2>2. v \in Nat /\ v <= size
    BY <2>1, BoundsAssumption DEF User, IInv, ListenersEntered
  <2>3. QED
    BY <1>1, <2>1, <2>2
<1>3. ASSUME NEW x \in User, NEW v \in Range(onClose[x]) PROVE v <= u
  <2>1. v \in Listener
    BY TypeLists, RangeType DEF IInv
  <2>2. v \in Nat
    BY <2>1 DEF Listener, User, Base
  <2>3. v <= size
    BY DEF IInv, ListenersEntered
  <2>4. QED
    BY <1>1, <2>2, <2>3
<1>4. todo = <<>> /\ Base <= u
  BY <1>1 DEF Request, Idle, Base
<1>5. QED
  BY <1>2, <1>3, <1>4

\* The room for a newcomer whom nobody waits for.
LEMMA RequestAloneInv ==
    ASSUME IInv, TypeOK', NEW u, u = size + 1, Request, SearchFails(u),
           onClose' = [onClose EXCEPT ![u] = Append(@, Base)],
           UNCHANGED <<connected, onMessage>>
    PROVE  IInv' /\ \A x \in User : Mate(x)' = Mate(x)
<1>1. /\ u \in User /\ u \in Nat /\ size' = u /\ size \in Nat
      /\ ~connected[u] /\ onMessage[u] = <<>> /\ onClose[u] = <<>>
      /\ ~Present(u) /\ Mate(u) = Base
      /\ wire' = [wire EXCEPT ![u] = "open"]
      /\ There' = There \cup {u}
      /\ \A x \in User : Present(x)' <=> Present(x) \/ x = u
      /\ \A x \in User : u \notin Range(onMessage[x]) /\ u \notin Range(onClose[x])
      /\ turn = NoEvent /\ UNCHANGED <<closed, turn, todo, torn>>
  BY NewcomerFacts
<1>2. onClose'[u] = <<Base>> /\ \A x \in User : x # u => onClose'[x] = onClose[x]
  BY <1>1 DEF IInv, TypeOK
<1>3. /\ Range(<<>>) = {} /\ Range(<<Base>>) = {Base}
  BY DEF Range
<1>4. \A x \in User : Mate(x)' = Mate(x)
  <2> SUFFICES ASSUME NEW x \in User PROVE Mate(x)' = Mate(x)
    OBVIOUS
  <2>1. Partner(x)' = Partner(x)
    BY DEF Partner
  <2>2. CASE onMessage[x] = <<>>
    BY <2>1, <2>2, PartnerFacts DEF Mate, IInv
  <2>3. CASE onMessage[x] # <<>>
    <3>1. Present(x)' <=> Present(x)
      BY <2>3, NewcomerUnknown
    <3>2. PICK k \in 1 .. Len(onMessage[x]) : Partner(x) = onMessage[x][k]
      BY <2>3, PartnerFacts DEF IInv
    <3>3. wire'[Partner(x)] \in {"open", "closing"} <=> wire[Partner(x)] \in {"open", "closing"}
      BY <3>2, NewcomerUnknown DEF Present
    <3>4. QED
      BY <2>1, <3>1, <3>3 DEF Mate, Present
  <2>4. QED
    BY <2>2, <2>3
<1>5. StaleListenersAreDead'
  <2> SUFFICES ASSUME ~torn, NEW x \in User, Present(x)',
                      NEW k \in 1 .. Len(onMessage[x]), Present(onMessage[x][k])'
               PROVE  k = Len(onMessage[x])
    BY <1>1 DEF StaleListenersAreDead
  <2>1. onMessage[x] # <<>>
    BY TypeLists, SeqFacts DEF IInv
  <2>2. Present(x)
    BY <2>1, NewcomerUnknown
  <2>3. Present(onMessage[x][k])
    <3>1. wire'[onMessage[x][k]] \in {"open", "closing"}
      BY DEF Present
    <3>2. QED
      BY <3>1, NewcomerUnknown
  <2>4. QED
    BY <2>2, <2>3 DEF IInv, Pairing, StaleListenersAreDead
<1>6. RelaysAreMutual'
  BY <1>1, <1>4 DEF IInv, Pairing, RelaysAreMutual
<1>7. EnteredInOrder'
  <2> SUFFICES ASSUME NEW x \in User
               PROVE  /\ wire'[x] = "none" <=> x > u
                      /\ x > u => ~connected[x] /\ onMessage[x] = <<>> /\ onClose'[x] = <<>>
    BY <1>1 DEF EnteredInOrder
  <2>1. x \in Nat /\ (x > u <=> x > size /\ x # u)
    BY <1>1 DEF User
  <2>2. wire'[x] = "none" <=> wire[x] = "none" /\ x # u
    BY <1>1 DEF IInv, TypeOK
  <2>3. QED
    BY <1>2, <2>1, <2>2 DEF IInv, EnteredInOrder
<1>8. ConnectedMeansListening'
  BY <1>1 DEF IInv, ConnectedMeansListening
<1>9. AtMostOneWaiting'
  <2>1. ASSUME NEW x \in User, x <= u, ~connected[x], ~closed[x] PROVE x = u
    <3>1. x \in 1 .. size \/ x = u
      BY <1>1, <2>1 DEF User
    <3>2. QED
      BY <2>1, <3>1 DEF SearchFails, Waiting
  <2>2. QED
    BY <1>1, <2>1 DEF AtMostOneWaiting
<1>10. CloseFollowsMessage'
  <2> SUFFICES ASSUME NEW x \in There \cup {u}
               PROVE  Range(onClose'[x]) \ {Base} = Range(onMessage[x])
    BY <1>1 DEF CloseFollowsMessage
  <2>1. CASE x = u
    BY <1>1, <1>2, <1>3, <2>1
  <2>2. CASE x # u
    BY <1>2, <2>2 DEF IInv, CloseFollowsMessage, There
  <2>3. QED
    BY <2>1, <2>2
<1>11. StaleCloseListeners'
  <2> SUFFICES ASSUME ~torn, NEW x \in There \cup {u}
               PROVE  NewestOnly(onClose'[x], There \cup {u})
    BY <1>1 DEF StaleCloseListeners, NewestOnly
  <2>1. CASE x = u
    BY <1>1, <1>2, <2>1, BaseIsNoUser DEF NewestOnly, There
  <2>2. CASE x # u
    <3>1. x \in User /\ NewestOnly(onClose[x], There) /\ onClose[x] \in Seq(Listener)
      BY <2>2, TypeLists DEF IInv, StaleCloseListeners, There
    <3>2. Range(onClose[x]) \cap (There \cup {u}) \subseteq There
      BY <1>1, <3>1
    <3>3. NewestOnly(onClose[x], There \cup {u})
      BY <3>1, <3>2, NewestShrinks
    <3>4. QED
      BY <1>2, <2>2, <3>1, <3>3
  <2>3. QED
    BY <2>1, <2>2
<1>12. EventHasListeners'
  BY <1>1 DEF IInv, EventHasListeners
<1>13. ListenersEntered'
  <2>1. /\ \A x \in User : \A v \in Range(onMessage[x]) : v <= u
        /\ \A x \in User : \A v \in Range(onClose[x]) : v <= u
        /\ todo = <<>> /\ Base <= u
    BY <1>1, EnteredBefore
  <2>2. ASSUME NEW x \in User, NEW v \in Range(onClose'[x]) PROVE v <= u
    BY <1>2, <1>3, <2>1, <2>2
  <2>3. QED
    BY <1>1, <1>3, <2>1, <2>2 DEF ListenersEntered
<1>14. SurvivorIsLast'
  BY <1>1 DEF SurvivorIsLast, NoEvent
<1>15. QED
  BY <1>4, <1>5, <1>6, <1>7, <1>8, <1>9, <1>10, <1>11, <1>12, <1>13, <1>14 DEF IInv, Pairing

\* The room for a newcomer and the one who waited.
LEMMA RequestPairInv ==
    ASSUME IInv, TypeOK', NEW u, u = size + 1, Request,
           NEW m \in User, Search(u, m), Connect(m, u),
           onClose' = [Listen(onClose, m, u) EXCEPT ![u] = Append(@, Base)]
    PROVE  /\ IInv'
           /\ Mate(m) = Base /\ Mate(u) = Base /\ m # u
           /\ ~torn =>
                 /\ Present(m) => Mate(m)' = u /\ Mate(u)' = m
                 /\ ~Present(m) => Mate(m)' = Base /\ Mate(u)' = Base
                 /\ \A x \in User : x # m /\ x # u => Mate(x)' = Mate(x)
<1>1. /\ u \in User /\ u \in Nat /\ size' = u /\ size \in Nat
      /\ ~connected[u] /\ onMessage[u] = <<>> /\ onClose[u] = <<>>
      /\ ~Present(u) /\ Mate(u) = Base
      /\ wire' = [wire EXCEPT ![u] = "open"]
      /\ There' = There \cup {u}
      /\ \A x \in User : Present(x)' <=> Present(x) \/ x = u
      /\ \A x \in User : u \notin Range(onMessage[x]) /\ u \notin Range(onClose[x])
      /\ turn = NoEvent /\ UNCHANGED <<closed, turn, todo, torn>>
  BY NewcomerFacts
<1>2. m # u /\ m <= size /\ ~connected[m] /\ Mate(m) = Base
  BY <1>1, SearchFacts DEF User
<1>3. /\ connected'[u] /\ connected'[m]
      /\ \A x \in User : x # u /\ x # m => connected'[x] = connected[x]
  BY <1>1 DEF Connect, IInv, TypeOK
<1>4. ASSUME ~torn
      PROVE  /\ Mate(m)' = IF Present(m)' /\ Present(u)' THEN u ELSE Base
             /\ Mate(u)' = IF Present(m)' /\ Present(u)' THEN m ELSE Base
             /\ \A x \in User : x # m /\ x # u => Mate(x)' = Mate(x)
             /\ Pairing'
  <2>1. onMessage' \in [User -> Seq(User)]
    BY DEF TypeOK
  <2>2. /\ \A x \in User : onMessage[x] # <<>> => (Present(x)' <=> Present(x))
        /\ \A x \in User : \A k \in 1 .. Len(onMessage[x]) :
               wire'[onMessage[x][k]] \in {"open", "closing"} <=> Present(onMessage[x][k])
    BY NewcomerUnknown
  <2>3. QED
    BY <1>1, <1>2, <1>4, <2>1, <2>2, ConnectPairs DEF IInv, Connect
<1>5. ASSUME ~torn
      PROVE  /\ Present(m) => Mate(m)' = u /\ Mate(u)' = m
             /\ ~Present(m) => Mate(m)' = Base /\ Mate(u)' = Base
  BY <1>1, <1>2, <1>4, <1>5
<1>6. /\ onMessage'[u] = Append(onMessage[u], m) /\ onMessage'[m] = Append(onMessage[m], u)
      /\ \A x \in User : x # u /\ x # m => onMessage'[x] = onMessage[x]
      /\ onClose'[u] = Append(Append(<<>>, m), Base)
      /\ onClose'[m] = Append(onClose[m], u)
      /\ \A x \in User : x # u /\ x # m => onClose'[x] = onClose[x]
  <2>1. onMessage \in [User -> Seq(User)] /\ onClose \in [User -> Seq(Listener)]
    BY TypeLists DEF IInv
  <2>2. QED
    BY <1>1, <1>2, <2>1 DEF Connect, Listen
<1>7. /\ Base \in Listener
      /\ \A x \in User : x \in Listener /\ onMessage[x] \in Seq(Listener)
                                      /\ onClose[x] \in Seq(Listener)
  BY TypeLists DEF IInv, Listener
<1>8. /\ Append(<<>>, m) \in Seq(Listener) /\ <<>> \in Seq(Listener)
      /\ Range(<<>>) = {}
  BY <1>7 DEF Range
<1>9. /\ Range(onMessage'[u]) = {m}
      /\ Range(onMessage'[m]) = Range(onMessage[m]) \cup {u}
      /\ Range(Append(<<>>, m)) = {m}
      /\ Range(onClose'[u]) = {m, Base}
      /\ Range(onClose'[m]) = Range(onClose[m]) \cup {u}
  <2>1. Range(Append(<<>>, m)) = {m}
    BY <1>7, <1>8, RangeOfAppend
  <2>2. Range(onClose'[u]) = {m, Base}
    <3>1. Range(Append(Append(<<>>, m), Base)) = Range(Append(<<>>, m)) \cup {Base}
      BY <1>7, <1>8, RangeOfAppend
    <3>2. QED
      BY <1>6, <2>1, <3>1
  <2>3. /\ Range(Append(onMessage[m], u)) = Range(onMessage[m]) \cup {u}
        /\ Range(Append(onClose[m], u)) = Range(onClose[m]) \cup {u}
    BY <1>1, <1>7, RangeOfAppend
  <2>4. QED
    BY <1>1, <1>6, <2>1, <2>2, <2>3
<1>10. EnteredInOrder'
  <2> SUFFICES ASSUME NEW x \in User
               PROVE  /\ wire'[x] = "none" <=> x > u
                      /\ x > u => ~connected'[x] /\ onMessage'[x] = <<>> /\ onClose'[x] = <<>>
    BY <1>1 DEF EnteredInOrder
  <2>1. x \in Nat /\ (x > u <=> x > size /\ x # u) /\ (x > u => x # m)
    BY <1>1, <1>2 DEF User
  <2>2. wire'[x] = "none" <=> wire[x] = "none" /\ x # u
    BY <1>1 DEF IInv, TypeOK
  <2>3. QED
    BY <1>3, <1>6, <2>1, <2>2 DEF IInv, EnteredInOrder
<1>11. ConnectedMeansListening'
  <2>1. onMessage'[u] # <<>> /\ onMessage'[m] # <<>>
    BY <1>1, <1>6, NewEntry DEF IInv
  <2> SUFFICES ASSUME NEW x \in User, Present(x)'
               PROVE  connected'[x] <=> onMessage'[x] # <<>>
    BY DEF ConnectedMeansListening
  <2>2. CASE x = u \/ x = m
    BY <1>3, <2>1, <2>2
  <2>3. CASE x # u /\ x # m
    <3>1. Present(x)
      BY <1>1, <2>3
    <3>2. connected[x] <=> onMessage[x] # <<>>
      BY <3>1 DEF IInv, ConnectedMeansListening
    <3>3. connected'[x] = connected[x] /\ onMessage'[x] = onMessage[x]
      BY <1>3, <1>6, <2>3
    <3> QED
      BY <3>2, <3>3
  <2> QED
    BY <2>2, <2>3
<1>12. AtMostOneWaiting'
  <2>1. ASSUME NEW x \in User, x <= u, ~connected'[x], ~closed[x]
        PROVE  x <= size /\ ~connected[x] /\ ~closed[x]
    <3>1. x # u /\ x # m
      BY <1>3, <2>1
    <3>2. x <= size
      BY <1>1, <2>1, <3>1 DEF User
    <3>3. connected'[x] = connected[x]
      BY <1>3, <3>1
    <3>4. QED
      BY <2>1, <3>2, <3>3
  <2>2. QED
    BY <1>1, <2>1 DEF IInv, AtMostOneWaiting
<1>13. CloseFollowsMessage'
  <2> SUFFICES ASSUME NEW x \in There \cup {u}
               PROVE  Range(onClose'[x]) \ {Base} = Range(onMessage'[x])
    BY <1>1 DEF CloseFollowsMessage
  <2>1. CASE x = u
    BY <1>9, <2>1, BaseIsNoUser
  <2>2. CASE x # u /\ x = m
    <3>1. Range(onClose[x]) \ {Base} = Range(onMessage[x])
      BY <2>2 DEF IInv, CloseFollowsMessage, There
    <3>2. QED
      BY <1>1, <1>9, <2>2, <3>1, BaseIsNoUser
  <2>3. CASE x # u /\ x # m
    BY <1>6, <2>3 DEF IInv, CloseFollowsMessage, There
  <2>4. QED
    BY <2>1, <2>2, <2>3
<1>14. StaleCloseListeners'
  <2> SUFFICES ASSUME ~torn, NEW x \in There \cup {u}
               PROVE  NewestOnly(onClose'[x], There \cup {u})
    BY <1>1 DEF StaleCloseListeners, NewestOnly
  <2>1. CASE x = u
    <3>1. Base \notin There \cup {u}
      BY <1>1, BaseIsNoUser DEF There
    <3>2. NewestOnly(Append(<<>>, m), There \cup {u})
      BY <1>7, <1>8, NewestAppend
    <3>3. NewestOnly(Append(Append(<<>>, m), Base), There \cup {u})
      BY <1>8, <3>1, <3>2, NewestAppendBase
    <3>4. QED
      BY <1>6, <2>1, <3>3
  <2>2. CASE x # u /\ x = m
    <3>1. Range(onClose[m]) \cap There = {}
      BY <1>2, <2>2, NoMateNoCloseListener DEF There
    <3>2. Range(onClose[m]) \cap (There \cup {u}) = {}
      BY <1>1, <3>1
    <3>3. NewestOnly(Append(onClose[m], u), There \cup {u})
      BY <1>1, <1>7, <3>2, NewestAppend
    <3>4. QED
      BY <1>6, <2>2, <3>3
  <2>3. CASE x # u /\ x # m
    <3>1. x \in User /\ NewestOnly(onClose[x], There) /\ onClose[x] \in Seq(Listener)
      BY <1>7, <2>3 DEF IInv, StaleCloseListeners, There
    <3>2. Range(onClose[x]) \cap (There \cup {u}) \subseteq There
      BY <1>1, <3>1
    <3>3. NewestOnly(onClose[x], There \cup {u})
      BY <3>1, <3>2, NewestShrinks
    <3>4. QED
      BY <1>6, <2>3, <3>1, <3>3
  <2>4. QED
    BY <2>1, <2>2, <2>3
<1>15. EventHasListeners'
  BY <1>1 DEF IInv, EventHasListeners
<1>16. ListenersEntered'
  <2>1. /\ \A x \in User : \A v \in Range(onMessage[x]) : v <= u
        /\ \A x \in User : \A v \in Range(onClose[x]) : v <= u
        /\ todo = <<>> /\ Base <= u /\ u <= u /\ m <= u
    BY <1>1, <1>2, EnteredBefore DEF User
  <2>2. ASSUME NEW x \in User, NEW v \in Range(onClose'[x]) PROVE v <= u
    <3>1. CASE x = u
      BY <1>9, <2>1, <2>2, <3>1
    <3>2. CASE x = m
      BY <1>9, <2>1, <2>2, <3>2
    <3>3. CASE x # u /\ x # m
      BY <1>6, <2>1, <2>2, <3>3
    <3>4. QED
      BY <3>1, <3>2, <3>3
  <2>3. ASSUME NEW x \in User, NEW v \in Range(onMessage'[x]) PROVE v <= u
    <3>1. CASE x = u
      BY <1>9, <2>1, <2>3, <3>1
    <3>2. CASE x = m
      BY <1>9, <2>1, <2>3, <3>2
    <3>3. CASE x # u /\ x # m
      BY <1>6, <2>1, <2>3, <3>3
    <3>4. QED
      BY <3>1, <3>2, <3>3
  <2>4. QED
    BY <1>1, <1>8, <2>1, <2>2, <2>3 DEF ListenersEntered
<1>17. SurvivorIsLast'
  BY <1>1 DEF SurvivorIsLast, NoEvent
<1>18. Pairing'
  BY <1>1, <1>4 DEF Pairing, StaleListenersAreDead, RelaysAreMutual
<1>19. IInv'
  BY <1>10, <1>11, <1>12, <1>13, <1>14, <1>15, <1>16, <1>17, <1>18 DEF IInv
<1>20. QED
  BY <1>1, <1>2, <1>4, <1>5, <1>19

-----------------------------------------------------------------------------
(* The pairing properties.                                                 *)

\* Every step of the server keeps the inductive invariant.
LEMMA Inductive == IInv /\ [Next]_vars => IInv'
<1> SUFFICES ASSUME IInv, [Next]_vars PROVE IInv'
  OBVIOUS
<1>1. TypeOK'
  BY TypeStep DEF IInv
<1>2. CASE Request
  <2> DEFINE u == size + 1
  <2>1. CASE /\ SearchFails(u)
             /\ onClose' = [onClose EXCEPT ![u] = Append(@, Base)]
             /\ UNCHANGED <<connected, onMessage>>
    <3>1. u = size + 1
      OBVIOUS
    <3> HIDE DEF u
    <3>2. QED
      BY <1>1, <1>2, <2>1, <3>1, RequestAloneInv
  <2>2. ASSUME NEW m \in User, Search(u, m), Connect(m, u),
               onClose' = [Listen(onClose, m, u) EXCEPT ![u] = Append(@, Base)]
        PROVE  IInv'
    <3>1. u = size + 1
      OBVIOUS
    <3> HIDE DEF u
    <3>2. QED
      BY <1>1, <1>2, <2>2, <3>1, RequestPairInv
  <2>3. QED
    BY <1>2, <2>1, <2>2 DEF Request
<1>3. ASSUME NEW u \in User,
             \/ ReceiveCloseFrame(u) \/ SocketClose(u)
             \/ GraceTimer(u) \/ ReceiveMessage(u)
      PROVE  IInv'
  BY <1>1, <1>3, CloseFrameInv, SocketCloseInv, GraceTimerInv, MessageInv
<1>4. CASE CallListener
  <2>1. todo # <<>>
    BY <1>4 DEF CallListener
  <2>2. CASE MarkClosed
    BY <1>1, <2>1, <2>2, MarkClosedInv
  <2>3. ASSUME NEW v \in User, Head(todo) = v, Relay(v) \/ Rematch(v) \/ Unmatch(v)
        PROVE  IInv'
    BY <1>1, <2>1, <2>3, RelayInv, RematchInv, UnmatchInv
  <2>4. QED
    BY <1>4, <2>2, <2>3 DEF CallListener
<1>5. CASE UNCHANGED vars
  <2>1. UNCHANGED <<size, wire, connected, closed, onMessage, onClose, turn, todo, torn>>
    BY <1>5 DEF vars
  <2>2. There' = There /\ \A x \in User : Mate(x)' = Mate(x)
    BY <2>1, ListsUnchanged DEF IInv
  <2>3. EventHasListeners' /\ ListenersEntered' /\ AtMostOneWaiting'
    BY <2>1 DEF IInv, EventHasListeners, ListenersEntered, AtMostOneWaiting
  <2>4. SurvivorIsLast'
    <3> SUFFICES ASSUME ~torn, turn.event = "close"
                 PROVE  /\ NewestOnly(todo, There)
                        /\ \A v \in Range(todo) \cap There : connected[v] /\ Mate(v)' = Base
      BY <2>1, <2>2 DEF SurvivorIsLast, NewestOnly
    <3>1. \A v \in Range(todo) \cap There : v \in User
      BY DEF There
    <3>2. QED
      BY <2>2, <3>1 DEF IInv, SurvivorIsLast
  <2>5. QED
    BY <1>1, <2>1, <2>3, <2>4, ListsUnchanged DEF IInv
<1>6. QED
  BY <1>2, <1>3, <1>4, <1>5 DEF Next

\* The invariant holds of the empty room.
LEMMA InitInv == Init => IInv
<1> SUFFICES ASSUME Init PROVE IInv
  OBVIOUS
<1>1. TypeOK
  BY TypeInit
<1>2. /\ \A u \in User : ~Present(u) /\ Mate(u) = Base
      /\ There = {} /\ Range(<<>>) = {}
  BY DEF Init, Present, Mate, There, Range
<1>3. EnteredInOrder /\ AtMostOneWaiting
  BY DEF Init, EnteredInOrder, AtMostOneWaiting, User
<1>4. ListenersEntered /\ EventHasListeners
  BY <1>2 DEF Init, ListenersEntered, EventHasListeners
<1>5. Pairing /\ ConnectedMeansListening
  BY <1>2, BaseIsNoUser DEF Pairing, StaleListenersAreDead, RelaysAreMutual, ConnectedMeansListening
<1>6. CloseFollowsMessage /\ StaleCloseListeners /\ SurvivorIsLast
  BY <1>2 DEF CloseFollowsMessage, StaleCloseListeners, SurvivorIsLast, Init, NoEvent
<1>7. QED
  BY <1>1, <1>3, <1>4, <1>5, <1>6 DEF IInv

\* At every moment of every execution the inductive invariant holds.
THEOREM ServerInvariant == Spec => []IInv
BY InitInv, Inductive, PTL DEF Spec

\* search (paintchatServer.js l.98) never has two candidates.
THEOREM SearchHasNoChoice == Spec => []AtMostOneWaiting
<1>1. IInv => AtMostOneWaiting
  BY DEF IInv
<1>2. QED
  BY <1>1, ServerInvariant, PTL

\* The relay of setAction (l.76-80) joins people in pairs, until a repeated
\* close tears two mates apart.
THEOREM RelaysArePairs == Spec => []RelaysAreMutual
<1>1. IInv => RelaysAreMutual
  BY DEF IInv, Pairing
<1>2. QED
  BY <1>1, ServerInvariant, PTL

\* The listeners that connect leaves behind (l.63-72) do no harm, until a
\* repeated close tears two mates apart.
THEOREM StaleListenersDoNoHarm == Spec => []StaleListenersAreDead
<1>1. IInv => StaleListenersAreDead
  BY DEF IInv, Pairing
<1>2. QED
  BY <1>1, ServerInvariant, PTL

\* connected (l.64-65, l.110) tells who relays.
THEOREM FlagsFollowListeners == Spec => []ConnectedMeansListening
<1>1. IInv => ConnectedMeansListening
  BY DEF IInv
<1>2. QED
  BY <1>1, ServerInvariant, PTL

\* setAction (l.76-90) registers both kinds of listener or none: whoever is
\* relayed to will be told of the close.
THEOREM CloseReachesPartners == Spec => []CloseFollowsMessage
<1>1. IInv => CloseFollowsMessage
  BY DEF IInv
<1>2. QED
  BY <1>1, ServerInvariant, PTL

\* While the first close of a connection is handled (l.82-90), the one left
\* behind comes last, unless a repeated one has torn two mates apart before.
THEOREM SurvivorComesLast == Spec => []SurvivorIsLast
<1>1. IInv => SurvivorIsLast
  BY DEF IInv
<1>2. QED
  BY <1>1, ServerInvariant, PTL

-----------------------------------------------------------------------------
(* The server implements the paint room.                                   *)

MateOf == [u \in User |-> Mate(u)]
Gone == {u \in User : wire[u] = "closed"}

\* A step that moves nobody and changes no mate is not seen in the room.
LEMMA SameRoom ==
    ASSUME There' = There, Gone' = Gone, \A x \in User : Mate(x)' = Mate(x)
    PROVE  UNCHANGED Room!vars
<1>1. MateOf' = MateOf
  BY DEF MateOf
<1>2. QED
  BY <1>1 DEF Room!vars, MateOf, Gone

\* Two mates-to-be, as PaintRoom joins them.
LEMMA RoomJoin ==
    ASSUME NEW p \in User, NEW q \in User, p # q,
           Mate(p)' = q, Mate(q)' = p,
           \A x \in User : x # p /\ x # q => Mate(x)' = Mate(x)
    PROVE  Room!Join(p, q)
<1>1. MateOf' = [MateOf EXCEPT ![p] = q, ![q] = p]
  BY DEF MateOf
<1>2. QED
  BY <1>1 DEF Room!Join, MateOf

\* Only a socket's end moves its user to those who have gone.
LEMMA GoneUnchanged ==
    ASSUME TypeOK, UNCHANGED wire \/ \E u \in User : ReceiveCloseFrame(u)
    PROVE  Gone' = Gone
<1>1. CASE UNCHANGED wire
  BY <1>1 DEF Gone
<1>2. ASSUME NEW u \in User, ReceiveCloseFrame(u) PROVE Gone' = Gone
  BY <1>2 DEF ReceiveCloseFrame, Gone, TypeOK
<1>3. QED
  BY <1>1, <1>2

\* A request is somebody entering, alone or to draw with the one alone.
LEMMA RequestEnters ==
    ASSUME IInv, ~torn, TypeOK', Request
    PROVE  Room!Next
<1>1. PICK u : u = size + 1
  OBVIOUS
<1>2. /\ u \in User /\ ~Present(u) /\ Mate(u) = Base
      /\ wire' = [wire EXCEPT ![u] = "open"]
      /\ There' = There \cup {u} /\ wire[u] = "none"
  <2>1. u \in User /\ u > size
    BY <1>1, NewcomerFacts
  <2>2. QED
    BY <1>1, <2>1, NewcomerFacts DEF IInv, EnteredInOrder
<1>3. Gone' = Gone /\ u \notin There \cup Gone
  BY <1>2 DEF Gone, There, IInv, TypeOK
<1>4. (\/ MateOf' = MateOf
       \/ \E q \in User : q \in There /\ Mate(q) = Base /\ Room!Join(u, q))
      => Room!Enter(u)
  BY <1>2, <1>3 DEF Room!Enter, Room!Alone, Room!Nobody, Room!Person, Base, User, MateOf, Gone
<1>5. CASE /\ SearchFails(u)
           /\ onClose' = [onClose EXCEPT ![u] = Append(@, Base)]
           /\ UNCHANGED <<connected, onMessage>>
  <2>1. \A x \in User : Mate(x)' = Mate(x)
    BY <1>1, <1>5, RequestAloneInv
  <2>2. MateOf' = MateOf
    BY <2>1 DEF MateOf
  <2>3. QED
    BY <1>2, <1>4, <2>2 DEF Room!Next, Room!Person, User
<1>6. ASSUME NEW m \in User, Search(u, m), Connect(m, u),
             onClose' = [Listen(onClose, m, u) EXCEPT ![u] = Append(@, Base)]
      PROVE  Room!Next
  <2>1. /\ Mate(m) = Base /\ Mate(u) = Base /\ m # u
        /\ Present(m) => Mate(m)' = u /\ Mate(u)' = m
        /\ ~Present(m) => Mate(m)' = Base /\ Mate(u)' = Base
        /\ \A x \in User : x # m /\ x # u => Mate(x)' = Mate(x)
    BY <1>1, <1>6, RequestPairInv
  <2>2. CASE Present(m)
    <3>1. Room!Join(u, m)
      BY <1>2, <2>1, <2>2, RoomJoin
    <3>2. m \in There
      BY <2>2 DEF There
    <3>3. QED
      BY <1>2, <1>4, <2>1, <3>1, <3>2 DEF Room!Next, Room!Person, User
  <2>3. CASE ~Present(m)
    <3>1. \A x \in User : Mate(x)' = Mate(x)
      BY <2>1, <2>3
    <3>2. MateOf' = MateOf
      BY <3>1 DEF MateOf
    <3>3. QED
      BY <1>2, <1>4, <3>2 DEF Room!Next, Room!Person, User
  <2>4. QED
    BY <2>2, <2>3
<1>7. QED
  BY <1>1, <1>5, <1>6 DEF Request

\* A socket that ends is somebody leaving.
LEMMA SocketCloseLeaves ==
    ASSUME IInv, TypeOK', NEW u \in User, SocketClose(u)
    PROVE  Room!Next
<1>1. /\ There' = There \ {u} /\ u \in There
      /\ \A x \in User : Mate(x)' = IF x = u \/ Mate(x) = u THEN Base ELSE Mate(x)
  BY SocketCloseInv
<1>2. Gone' = Gone \cup {u}
  BY DEF SocketClose, Gone, IInv, TypeOK
<1>3. MateOf' = [q \in User |-> IF q = u \/ MateOf[q] = u THEN Base ELSE MateOf[q]]
  BY <1>1 DEF MateOf
<1>4. Room!Leave(u)
  BY <1>1, <1>2, <1>3 DEF Room!Leave, Room!Person, Room!Nobody, User, Base, MateOf, Gone
<1>5. QED
  BY <1>4 DEF Room!Next, Room!Person, User

\* The close listener that finds someone waiting brings two people together,
\* or, if one of them has left, does nothing that can be seen.
LEMMA RematchMatches ==
    ASSUME IInv, TypeOK', ~torn', todo # <<>>, NEW v \in User, Head(todo) = v, Rematch(v)
    PROVE  Room!Next \/ UNCHANGED Room!vars
<1>1. There' = There /\ Gone' = Gone
  BY RematchInv, GoneUnchanged DEF Rematch, IInv
<1>2. PICK m \in User :
          /\ m # v /\ Mate(m) = Base /\ Mate(v) = Base
          /\ Mate(m)' = IF Present(m) /\ Present(v) THEN v ELSE Base
          /\ Mate(v)' = IF Present(m) /\ Present(v) THEN m ELSE Base
          /\ \A x \in User : x # m /\ x # v => Mate(x)' = Mate(x)
  BY RematchInv
<1>3. CASE Present(m) /\ Present(v)
  <2>1. Room!Join(v, m)
    BY <1>2, <1>3, RoomJoin
  <2>2. m \in There /\ v \in There
    BY <1>3 DEF There
  <2>3. Room!Match(v, m)
    BY <1>1, <1>2, <2>1, <2>2 DEF Room!Match, Room!Alone, Room!Nobody, Base, Gone
  <2>4. QED
    BY <2>3 DEF Room!Next, Room!Person, User
<1>4. CASE ~(Present(m) /\ Present(v))
  <2>1. \A x \in User : Mate(x)' = Mate(x)
    BY <1>2, <1>4
  <2>2. QED
    BY <1>1, <2>1, SameRoom
<1>5. QED
  BY <1>3, <1>4

\* What is torn once stays so.
LEMMA TornStays == TypeOK /\ [Next]_vars /\ torn => torn'
BY DEF TypeOK, Next, vars, Request, ReceiveCloseFrame, SocketClose, GraceTimer, ReceiveMessage,
       CallListener, MarkClosed, Relay, Rematch, Unmatch, Tears

\* Every step of the server is a step of the paint room, or is not seen there,
\* or is, or follows, a repeated close that tears two mates apart.
LEMMA StepInRoom == IInv /\ [Next]_vars => RoomStep
<1> SUFFICES ASSUME IInv, [Next]_vars, ~torn' PROVE Room!Next \/ UNCHANGED Room!vars
  BY DEF RoomStep
<1>1. TypeOK /\ TypeOK' /\ ~torn
  BY TypeStep, TornStays DEF IInv
<1>2. CASE Request
  BY <1>1, <1>2, RequestEnters
<1>3. ASSUME NEW u \in User, ReceiveCloseFrame(u) PROVE UNCHANGED Room!vars
  BY <1>1, <1>3, CloseFrameInv, GoneUnchanged, SameRoom
<1>4. ASSUME NEW u \in User, SocketClose(u) PROVE Room!Next
  BY <1>1, <1>4, SocketCloseLeaves
<1>5. ASSUME UNCHANGED <<size, wire, connected, onMessage, onClose, torn>>
      PROVE  UNCHANGED Room!vars
  BY <1>1, <1>5, ListsUnchanged, GoneUnchanged, SameRoom
<1>6. ASSUME NEW u \in User, GraceTimer(u) \/ ReceiveMessage(u) \/ Relay(u) \/ MarkClosed
      PROVE  UNCHANGED <<size, wire, connected, onMessage, onClose, torn>>
  BY <1>6 DEF GraceTimer, ReceiveMessage, Relay, MarkClosed, server
<1>7. ASSUME todo # <<>>, NEW v \in User, Head(todo) = v, Rematch(v)
      PROVE  Room!Next \/ UNCHANGED Room!vars
  BY <1>1, <1>7, RematchMatches
<1>8. ASSUME todo # <<>>, NEW v \in User, Head(todo) = v, Unmatch(v)
      PROVE  UNCHANGED Room!vars
  BY <1>1, <1>8, UnmatchInv, GoneUnchanged, SameRoom DEF Unmatch
<1>9. CASE UNCHANGED vars
  BY <1>5, <1>9 DEF vars
<1>10. 1 \in User
  BY BoundsAssumption DEF User
<1>11. CASE CallListener
  BY <1>5, <1>6, <1>7, <1>8, <1>10, <1>11 DEF CallListener
<1>12. QED
  BY <1>2, <1>3, <1>4, <1>5, <1>6, <1>9, <1>11 DEF Next

\* The server starts with an empty room.
LEMMA RoomInit == Init => Room!Init
<1> SUFFICES ASSUME Init PROVE Room!Init
  OBVIOUS
<1>1. There = {} /\ Gone = {}
  BY DEF Init, There, Present, Gone
<1>2. MateOf = [p \in User |-> Base]
  BY DEF Init, MateOf, Mate, Present
<1>3. QED
  BY <1>1, <1>2 DEF Room!Init, Room!Person, Room!Nobody, User, Base, MateOf, Gone

\* paintchatServer.js implements the paint room until a repeated close tears
\* two mates apart: mates are made of two people alone in the room, and are
\* parted only when one of them leaves.
THEOREM ServerImplementsRoom == Spec => RoomSpec
<1>1. Spec => []IInv
  BY ServerInvariant
<1>2. Init => Room!Init
  BY RoomInit
<1>3. IInv /\ [Next]_vars => [RoomStep]_vars
  BY StepInRoom
<1>4. QED
  BY <1>1, <1>2, <1>3, PTL DEF Spec, RoomSpec
=============================================================================
