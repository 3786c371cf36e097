---------------------------- MODULE MCLabeling -----------------------------
(* All pictures of a small size, each with every choice of its objects.    *)
EXTENDS Labeling

MCInput ==
    {c \in UNION {[white : {w}, objects : SUBSET w] : w \in SUBSET Point} :
        IsApart(c.objects, c.white)}
=============================================================================
