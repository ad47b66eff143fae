------------------------------ MODULE MCTrade ------------------------------
(* Instances of Trade for TLC. *)
EXTENDS Trade

CONSTANTS ann, bob, cid, sword, ale

Pair == {ann, bob}
Three == {ann, bob, cid}

\* Ann cannot pay a copper without changing her platinum; Bob's next copper
\* carries through three denominations.
Purses ==
  [p \in Player |->
     CASE p = ann -> [plat |-> 1, gold |-> 0, silver |-> 0, copper |-> 0]
       [] p = bob -> [plat |-> 0, gold |-> 99, silver |-> 99, copper |-> 99]
       [] OTHER -> [plat |-> 0, gold |-> 0, silver |-> 1, copper |-> 0]]

\* Both have ale; the sword is a lore item.
Bags ==
  [p \in Player |->
     CASE p = ann -> [k \in Kind |-> IF k = sword THEN 1 ELSE 2]
       [] p = bob -> [k \in Kind |-> 1]
       [] OTHER -> [k \in Kind |-> 0]]
=============================================================================
