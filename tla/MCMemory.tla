------------------------------- MODULE MCMemory -------------------------------
(* Memory on a small instance: an npc that is talked to on two days, and      *)
(* another one on the earlier of them.                                        *)
EXTENDS Memory

CONSTANTS n1, n2

MCTalk == {[npc |-> n1, day |-> 1], [npc |-> n1, day |-> 2], [npc |-> n2, day |-> 1]}
=============================================================================
