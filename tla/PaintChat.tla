----------------------------- MODULE PaintChat -----------------------------
(***************************************************************************)
(* The paint chat server of movie_upload (node_modules/paintchatServer.js) *)
(* on the websocket library beside it.                                     *)
(*                                                                         *)
(* Node runs one callback at a time.  An event of a socket (a message, its *)
(* close) calls the listeners that were registered for it when it was      *)
(* emitted, in order; no other event starts before the last one returns.   *)
(* Here "turn" is the event being emitted and "todo" the listeners still   *)
(* to be called; each listener is one action, and every event waits for    *)
(* todo to be empty.                                                       *)
(*                                                                         *)
(* The library can emit 'close' twice for one connection: when the socket  *)
(* closes while the grace period of an unanswered ping runs, that timer is *)
(* not stopped, and drop emits again when it fires.  "late" are the        *)
(* connections that this awaits; "torn" is a history variable that no      *)
(* action reads, TRUE once such a second close has taken somebody from a   *)
(* mate who is there.                                                      *)
(*                                                                         *)
(* Left out, since the code never changes or reads them: originIsAllowed   *)
(* (always true), the room (always 0), state.wait and the log.  So is the  *)
(* greeting of setAction: send makes a text frame of the Uint8Array, of    *)
(* which the client reads nothing; strokes are sent as binary frames.      *)
(***************************************************************************)
EXTENDS Naturals, Sequences, Functions

CONSTANTS MaxConn,      \* bound: connections accepted in a behaviour
          MaxStrokes,   \* bound: messages received in a behaviour
          Slow          \* bound: the connections that may close while the
                        \* grace period of an unanswered ping runs

ASSUME BoundsAssumption ==
    /\ MaxConn \in Nat \ {0}
    /\ MaxStrokes \in Nat
    /\ Slow \subseteq 1 .. MaxConn

User == 1 .. MaxConn        \* an index of the conn array, plus one
Stroke == 1 .. MaxStrokes   \* a message, named by its order of arrival

VARIABLES
    size,       \* conn.length
    wire,       \* the socket as the library sees it
    late,       \* closed sockets whose grace period timer still runs
    connected,  \* conn[i].connected
    closed,     \* conn[i].con.closed, set by the first close listener
    onMessage,  \* the user2 of each 'message' listener of conn[i].con
    onClose,    \* the user2 of each 'close' listener, Base for the first one
    turn,       \* the event being emitted, NoEvent when node is idle
    todo,       \* its listeners that have not run yet
    strokes,    \* how many messages have been received
    inbox,      \* the binary frames that went out to each user, in order
    torn        \* history: a repeated close has parted two mates

server == <<size, connected, closed, onMessage, onClose>>
vars == <<size, wire, late, connected, closed, onMessage, onClose, turn, todo,
          strokes, inbox, torn>>

Base == 0                       \* the close listener of the request handler
Listener == User \cup {Base}

NoEvent == [event |-> "none", user |-> Base]
Event == [event : {"message", "close", "again"}, user : User] \cup {NoEvent}
Frame == [from : User, nr : Stroke]

Present(u) == wire[u] \in {"open", "closing"}
There == {u \in User : Present(u)}

\* user2 of u's newest message listener: the partner u believes it has
Partner(u) == IF onMessage[u] = <<>> THEN Base ELSE onMessage[u][Len(onMessage[u])]

\* the partner, if it is still there
Mate(u) ==
    IF Present(u) /\ Partner(u) # Base /\ Present(Partner(u))
    THEN Partner(u) ELSE Base

TypeOK ==
    /\ size \in 0 .. MaxConn
    /\ wire \in [User -> {"none", "open", "closing", "closed"}]
    /\ late \subseteq User
    /\ connected \in [User -> BOOLEAN]
    /\ closed \in [User -> BOOLEAN]
    /\ onMessage \in [User -> Seq(User)]
    /\ onClose \in [User -> Seq(Listener)]
    /\ turn \in Event
    /\ todo \in Seq(Listener)
    /\ strokes \in 0 .. MaxStrokes
    /\ turn.event = "message" => strokes \in Stroke
    /\ inbox \in [User -> Seq(Frame)]
    /\ torn \in BOOLEAN
-----------------------------------------------------------------------------
(* Slips that the properties below must notice; no action uses these.      *)

\* search without its test of connected: a pair can be joined by a third
WaitingOrPaired(u) == {i \in 1 .. size : ~closed[i] /\ i # u}

\* search that stops at its own index
WaitingBefore(u) == {i \in 1 .. size : ~closed[i] /\ i < u /\ ~connected[i]}

\* connect that gives listeners to the newcomer only
ListenOneWay(table, m, u) == [table EXCEPT ![u] = Append(@, m)]

\* setAction with an index where conn.length was meant
ListenOffByOne(table, m, u) ==
    [table EXCEPT ![u] = Append(@, m - 1), ![m] = Append(@, u - 1)]

\* initConnect that keeps the message listeners
InitConnectKeepMessage(u) ==
    /\ connected' = [connected EXCEPT ![u] = FALSE]
    /\ onClose' = [onClose EXCEPT ![u] = <<>>]
    /\ UNCHANGED onMessage

\* initConnect that keeps the close listeners
InitConnectKeepClose(u) ==
    /\ connected' = [connected EXCEPT ![u] = FALSE]
    /\ onMessage' = [onMessage EXCEPT ![u] = <<>>]
    /\ UNCHANGED onClose

\* initConnect forgotten in the else branch
InitConnectSkipped(u) == UNCHANGED <<connected, onMessage, onClose>>

\* emit that calls the newest listener first
EmitNewestFirst(kind, u, listeners) ==
    /\ todo' = [k \in DOMAIN listeners |-> listeners[Len(listeners) + 1 - k]]
    /\ turn' = IF listeners = <<>> THEN NoEvent ELSE [event |-> kind, user |-> u]
-----------------------------------------------------------------------------
(* Helpers of the server.                                                  *)

Waiting(u) == {i \in 1 .. size : ~closed[i] /\ i # u /\ ~connected[i]}

\* search(u) returns i
Search(u, i) == i \in Waiting(u) /\ \A j \in Waiting(u) : i <= j

\* search(u) returns -1
SearchFails(u) == Waiting(u) = {}

\* a frame reaches the client only while the socket is open; after the
\* closing handshake began the library writes to an ended socket
Deliver(box, u, frame) ==
    IF wire[u] = "open" THEN [box EXCEPT ![u] = Append(@, frame)] ELSE box

\* setAction(u, m) and setAction(m, u) on a table of listeners
Listen(table, m, u) ==
    [table EXCEPT ![u] = Append(@, m), ![m] = Append(@, u)]

\* connect(m, u), but for the close listeners
Connect(m, u) ==
    /\ connected' = [connected EXCEPT ![m] = TRUE, ![u] = TRUE]
    /\ onMessage' = Listen(onMessage, m, u)

\* initConnect(u): waiting again, with neither kind of listener
InitConnect(u) ==
    /\ connected' = [connected EXCEPT ![u] = FALSE]
    /\ onMessage' = [onMessage EXCEPT ![u] = <<>>]
    /\ onClose' = [onClose EXCEPT ![u] = <<>>]

\* EventEmitter.emit: the listeners registered now are the ones to be called
Emit(kind, u, listeners) ==
    /\ todo' = listeners
    /\ turn' = IF listeners = <<>> THEN NoEvent ELSE [event |-> kind, user |-> u]

\* a listener returns
Return ==
    /\ todo' = Tail(todo)
    /\ turn' = IF Len(todo) = 1 THEN NoEvent ELSE turn

Idle == todo = <<>>
-----------------------------------------------------------------------------
(* Events.                                                                 *)

\* 'request': accept the socket, look for a partner, connect, then register
\* the listener that will mark the connection closed.
Request ==
    LET u == size + 1 IN
    /\ Idle
    /\ size < MaxConn
    /\ size' = u
    /\ wire' = [wire EXCEPT ![u] = "open"]
    /\ \/ /\ SearchFails(u)
          /\ onClose' = [onClose EXCEPT ![u] = Append(@, Base)]
          /\ UNCHANGED <<connected, onMessage>>
       \/ \E m \in User :
             /\ Search(u, m)
             /\ Connect(m, u)
             /\ onClose' = [Listen(onClose, m, u) EXCEPT ![u] = Append(@, Base)]
    /\ UNCHANGED <<closed, late, turn, todo, strokes, inbox, torn>>

\* The client's close frame: the library answers it and ends the socket; the
\* server hears nothing yet.
ReceiveCloseFrame(u) ==
    /\ Idle
    /\ wire[u] = "open"
    /\ wire' = [wire EXCEPT ![u] = "closing"]
    /\ UNCHANGED <<server, late, turn, todo, strokes, inbox, torn>>

\* The socket is gone, after the handshake, by itself, or dropped by the
\* library when a ping is not answered: 'close' is emitted.  Of the two timers
\* handleSocketClose stops that of the next ping only: if a ping had been sent
\* since the last data, its grace period runs on.
SocketClose(u) ==
    /\ Idle
    /\ Present(u)
    /\ wire' = [wire EXCEPT ![u] = "closed"]
    /\ late' \in {late, late \cup ({u} \cap Slow)}
    /\ Emit("close", u, onClose[u])
    /\ UNCHANGED <<server, strokes, inbox, torn>>

\* The grace period of a closed socket ends: drop does not ask whether 'close'
\* was emitted, and calls whatever close listeners there are now.
GraceTimer(u) ==
    /\ Idle
    /\ u \in late
    /\ late' = late \ {u}
    /\ Emit("again", u, onClose[u])
    /\ UNCHANGED <<server, wire, strokes, inbox, torn>>

\* A complete binary frame: 'message' is emitted.
ReceiveMessage(u) ==
    /\ Idle
    /\ wire[u] = "open"
    /\ strokes < MaxStrokes
    /\ strokes' = strokes + 1
    /\ Emit("message", u, onMessage[u])
    /\ UNCHANGED <<server, wire, late, inbox, torn>>
-----------------------------------------------------------------------------
(* Listeners.                                                              *)

\* The message listener that setAction(turn.user, user2) registered.
Relay(user2) ==
    /\ turn.event = "message"
    /\ inbox' = Deliver(inbox, user2, [from |-> turn.user, nr |-> strokes])
    /\ Return
    /\ UNCHANGED <<server, wire, late, strokes, torn>>

Closing == turn.event \in {"close", "again"}

\* The close listener of the request handler.
MarkClosed ==
    /\ Closing
    /\ closed' = [closed EXCEPT ![turn.user] = TRUE]
    /\ Return
    /\ UNCHANGED <<size, connected, onMessage, onClose, wire, late, strokes,
                   inbox, torn>>

\* whether dealing with user2 parts it from a mate, now or before
Tears(user2) == torn \/ (turn.event = "again" /\ Mate(user2) # Base)

\* The close listener of setAction(turn.user, user2): someone waits, and is
\* connected to user2.
Rematch(user2) ==
    /\ Closing
    /\ \E m \in User :
          /\ Search(user2, m)
          /\ Connect(m, user2)
          /\ onClose' = Listen(onClose, m, user2)
    /\ torn' = Tears(user2)
    /\ Return
    /\ UNCHANGED <<size, closed, wire, late, strokes, inbox>>

\* The same listener when nobody waits: user2 is put back to waiting.
Unmatch(user2) ==
    /\ Closing
    /\ SearchFails(user2)
    /\ InitConnect(user2)
    /\ torn' = Tears(user2)
    /\ Return
    /\ UNCHANGED <<size, closed, wire, late, strokes, inbox>>

CallListener ==
    /\ todo # <<>>
    /\ \/ Head(todo) = Base /\ MarkClosed
       \/ \E v \in User :
             /\ Head(todo) = v
             /\ Relay(v) \/ Rematch(v) \/ Unmatch(v)
-----------------------------------------------------------------------------
Init ==
    /\ size = 0
    /\ wire = [u \in User |-> "none"]
    /\ late = {}
    /\ connected = [u \in User |-> FALSE]
    /\ closed = [u \in User |-> FALSE]
    /\ onMessage = [u \in User |-> <<>>]
    /\ onClose = [u \in User |-> <<>>]
    /\ turn = NoEvent
    /\ todo = <<>>
    /\ strokes = 0
    /\ inbox = [u \in User |-> <<>>]
    /\ torn = FALSE

Next ==
    \/ Request
    \/ \E u \in User : \/ ReceiveCloseFrame(u) \/ SocketClose(u)
                        \/ GraceTimer(u) \/ ReceiveMessage(u)
    \/ CallListener

Spec == Init /\ [][Next]_vars

\* Callbacks run to their end, and a socket whose closing handshake has begun
\* is closed at last: by the peer, or by the library's keepalive timer.
FairSpec ==
    /\ Spec
    /\ WF_vars(CallListener)
    /\ \A u \in User : WF_vars(wire[u] = "closing" /\ SocketClose(u))
-----------------------------------------------------------------------------
(* Correctness.  What a close does to pairs, the code gets right when every *)
(* connection closes once; a close repeated by GraceTimer is harmless only *)
(* as long as it finds nobody who has another mate by then.  "torn \/"     *)
(* marks the properties that such a case ends; the others hold in any case.*)

\* search (l.98) can never have a choice: at any time, also between two
\* listeners of one event, at most one connection counts as waiting.  So the
\* order in which search walks conn does not matter.
AtMostOneWaiting ==
    \A u, v \in User :
        u <= size /\ v <= size /\ ~connected[u] /\ ~connected[v]
            /\ ~closed[u] /\ ~closed[v] => u = v

\* Of the listeners that pile up on a connection that outlives its partners
\* (connect never removes the old ones), only the newest can lead to somebody
\* who is still there, until a repeated close tears two mates apart.
StaleListenersAreDead ==
    torn \/ \A u \in User : Present(u) =>
        \A k \in 1 .. Len(onMessage[u]) :
            Present(onMessage[u][k]) => k = Len(onMessage[u])

\* Two people who are there relay to each other or not at all, until a
\* repeated close tears two mates apart.
RelaysAreMutual == torn \/ \A u, p \in User : Mate(u) = p => Mate(p) = u

\* Someone there is marked connected exactly if it has message listeners: a
\* waiting user's strokes go nowhere, and search never offers one who relays.
ConnectedMeansListening ==
    \A u \in User : Present(u) => (connected[u] <=> onMessage[u] # <<>>)

\* In a list of close listeners, the one that leads to somebody in "there" is
\* the newest that leads to anybody.
NewestOnly(list, there) ==
    \A k \in 1 .. Len(list) :
        list[k] \in there => \A j \in k + 1 .. Len(list) : list[j] = Base

\* While the first close of a connection is being handled, a user2 that is
\* still there is the last one to be dealt with, counts as connected, and has
\* no other mate: search cannot offer it to somebody else first, and no mate of
\* it is lost.  Other connections may have closed twice before.
SurvivorIsLast ==
    torn \/ (turn.event = "close" =>
        /\ NewestOnly(todo, There)
        /\ \A v \in Range(todo) \cap There : connected[v] /\ Mate(v) = Base)

\* The close listeners of someone there lead to the same people as its
\* message listeners, so nobody it relays to is forgotten when it leaves.
CloseFollowsMessage ==
    \A u \in There : Range(onClose[u]) \ {Base} = Range(onMessage[u])

\* A stroke is drawn at most once, and on one person's canvas only, however
\* many listeners relay it, until a repeated close tears two mates apart.
StrokeGoesToOne ==
    torn \/ \A u, v \in User : \A j \in DOMAIN inbox[u], k \in DOMAIN inbox[v] :
        inbox[u][j] = inbox[v][k] => u = v /\ j = k

\* People draw on a canvas one after another: when strokes of a second author
\* arrive, the first one has left the chat, until a repeated close tears two
\* mates apart.
AuthorsTakeTurns ==
    torn \/ \A u \in User : \A j, k \in DOMAIN inbox[u] :
        j < k /\ inbox[u][j].from # inbox[u][k].from
            => ~Present(inbox[u][j].from)

\* The paint room the server implements until a repeated close tears two mates
\* apart: nobody else ever sees two mates part or a third one join.
Room == INSTANCE PaintRoom WITH
            present <- There,
            left <- {u \in User : wire[u] = "closed"},
            mate <- [u \in User |-> Mate(u)]

RoomStep == torn' \/ [Room!Next]_Room!vars

RoomSpec == Room!Init /\ [][RoomStep]_vars

\* When somebody goes, whoever drew with it is told: a time comes when nobody
\* who is there counts on it as a partner (they wait, or were given someone
\* else), or a repeated close tears two mates apart.
SurvivorIsReleased ==
    \A p \in User :
        wire[p] = "closing" ~> torn \/ \A u \in There : Partner(u) # p

\* l.47, 97: a newcomer is connected to someone who is there.
NewcomerMeetsThePresent ==
    [][\A u \in User : wire[u] = "none" /\ connected'[u] => Mate(u)' # Base]_vars

\* l.84: "find the next one to connect among those who wait": what a close
\* does, it does for someone who is still there.
RematchIsForTheSurvivor ==
    [][\A u \in User : turn.event = "close" /\ ~connected[u] /\ connected'[u]
            /\ Present(u) => Mate(u)' # Base]_vars
=============================================================================
