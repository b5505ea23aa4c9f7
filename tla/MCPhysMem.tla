------------------------------ MODULE MCPhysMem ------------------------------
(* Words of three bits and descriptors of two, no and three pages: words   *)
(* and descriptors end at different positions.                             *)
EXTENDS PhysMem

MCfreemap == <<[addr |-> 8, blocks |-> 2], [addr |-> 20, blocks |-> 0],
               [addr |-> 24, blocks |-> 3]>>

(* The memory after the last descriptor of freemap is anything; here it    *)
(* reads as one descriptor of a page outside the pool and one inside.      *)
MCbeyond == <<[addr |-> 40, blocks |-> 2], [addr |-> 8, blocks |-> 1]>>
=============================================================================
