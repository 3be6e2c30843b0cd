---- MODULE MCRegistry ----
(* Instances of Registry for TLC. *)
EXTENDS Registry

\* Addresses do not come in the order of creation, and two of them collide.
Scrambled(c, owner, id, height) == ((2 * id + height) % 4) + 1

AllOrActiveOfOne ==
  {[owner |-> NONE, status |-> NONE],
   [owner |-> CHOOSE o \in Owners : TRUE, status |-> "active"]}
====
