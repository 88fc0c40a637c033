------------------------------ MODULE MCWeapons ------------------------------
EXTENDS Weapons

Item(kind, stack, capacity) ==
    [w |-> 1, h |-> 1, rotatable |-> FALSE, stack |-> stack, perish |-> 0, inner |-> <<>>,
     kind |-> kind, calibre |-> "545", capacity |-> capacity]

MCDef == [rifle |-> [Item("weapon", 1, 0) EXCEPT !.h = 2, !.rotatable = TRUE],
          mag   |-> Item("magazine", 1, 2),
          drum  |-> [Item("magazine", 1, 2) EXCEPT !.w = 2],
          fmj   |-> Item("ammo", 2, 0),
          ap    |-> Item("ammo", 2, 0)]

MCCond == [new |-> 2, jams |-> 2]

Some(id, n) == [kind |-> "ItemPickedUp", id |-> id, count |-> n]
Worn == [id |-> "mag", count |-> 1, tick |-> 0, mag |-> <<[rounds |-> 2, variant |-> "ap"]>>]
MCStarts ==
    {[gun |-> <<>>, load |-> <<Some("rifle", 1), Some("mag", 1), Some("fmj", 2)>>],
     [gun |-> <<>>, load |-> <<Some("rifle", 1), Some("fmj", 1), Some("mag", 1), Some("ap", 1)>>],
     [gun |-> <<[mag |-> <<Worn>>, jammed |-> FALSE, cond |-> 1]>>,
      load |-> <<Some("drum", 1), Some("fmj", 1), Some("mag", 1)>>]}
=============================================================================
