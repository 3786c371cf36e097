----------------------------- MODULE PaintRoom -----------------------------
(***************************************************************************)
(* What the paint chat promises, without sockets, listeners or flags:      *)
(* people come and go, and whoever draws draws for at most one other       *)
(* person.  Two people become mates only when both are in the room and     *)
(* neither has a mate, and they stay mates until one of them leaves.       *)
(***************************************************************************)
EXTENDS Naturals

CONSTANT MaxConn   \* how many people may ever enter

Person == 1 .. MaxConn
Nobody == 0

VARIABLES present,   \* the people in the room
          left,      \* the people who have gone (nobody comes back)
          mate       \* each person's mate, or Nobody

vars == <<present, left, mate>>

Alone(p) == p \in present /\ mate[p] = Nobody

Init ==
    /\ present = {}
    /\ left = {}
    /\ mate = [p \in Person |-> Nobody]

Join(p, q) == mate' = [mate EXCEPT ![p] = q, ![q] = p]

\* A newcomer stays alone, or draws with one person who was alone.
Enter(p) ==
    /\ p \notin present \cup left
    /\ present' = present \cup {p}
    /\ \/ UNCHANGED mate
       \/ \E q \in Person : Alone(q) /\ Join(p, q)
    /\ UNCHANGED left

\* Someone goes; a mate left behind is alone.
Leave(p) ==
    /\ p \in present
    /\ present' = present \ {p}
    /\ left' = left \cup {p}
    /\ mate' = [q \in Person |-> IF q = p \/ mate[q] = p THEN Nobody ELSE mate[q]]

\* Two people who are both alone are brought together.
Match(p, q) ==
    /\ p # q
    /\ Alone(p)
    /\ Alone(q)
    /\ Join(p, q)
    /\ UNCHANGED <<present, left>>

Next == \E p \in Person : Enter(p) \/ Leave(p) \/ \E q \in Person : Match(p, q)

Spec == Init /\ [][Next]_vars
=============================================================================
