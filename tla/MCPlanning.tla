------------------------------ MODULE MCPlanning -----------------------------
(* One core fund (1), its safe asset (2) and a holding of an earlier       *)
(* strategy (3) for which no close is known, at prices around $10.         *)
EXTENDS Planning

Quote(bid, ask) == [quality |-> "good", bid |-> bid, ask |-> ask, last |-> ask]

(* Tight, risen, wide, too wide, one-sided, crossed, unusable, unknown. *)
MCQuotes ==
    {Quote(95000, 95300), Quote(111000, 111300), Quote(99500, 100500), Quote(98000, 102000),
     Quote(NoPrice, 95300), Quote(95300, 95000),
     [quality |-> "bad", bid |-> 0, ask |-> 0, last |-> 0],
     [quality |-> "unresolved", bid |-> 0, ask |-> 0, last |-> 0]}
=============================================================================
