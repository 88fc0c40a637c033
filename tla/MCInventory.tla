----------------------------- MODULE MCInventory -----------------------------
EXTENDS Inventory

MCDef ==
    [bolt |-> [w |-> 1, h |-> 1, rotatable |-> FALSE, stack |-> 2, perish |-> 0, inner |-> <<>>,
               consumable |-> FALSE, slots |-> {}, salvage |-> {}, value |-> 1],
     stew |-> [w |-> 1, h |-> 1, rotatable |-> FALSE, stack |-> 2, perish |-> 2, inner |-> <<>>,
               consumable |-> TRUE, slots |-> {"belt"}, salvage |-> {}, value |-> 1],
     pack |-> [w |-> 1, h |-> 2, rotatable |-> TRUE, stack |-> 1, perish |-> 0, inner |-> <<1, 1>>,
               consumable |-> FALSE, slots |-> {"back"}, value |-> 2,
               salvage |-> {<<[id |-> "bolt", count |-> n]>> : n \in 1 .. 2}]]

MCSlots == {"belt", "back"}
MCRecipe == [cook |-> [inputs |-> <<[id |-> "bolt", count |-> 1]>>,
                       outputs |-> <<[id |-> "stew", count |-> 1]>>, time |-> 2]]

Some(id, n) == [id |-> id, count |-> n]
MCLoads == {<<Some("bolt", 2), Some("pack", 1)>>, <<Some("stew", 1), Some("bolt", 3)>>}

(* Room for one more bolt only. *)
FullLoads == {<<Some("bolt", 7)>>}
OneBolt == {<<Some("bolt", 1)>>}
NoRecipe == [r \in {} |-> <<>>]
=============================================================================
