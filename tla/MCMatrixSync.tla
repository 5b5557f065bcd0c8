---------------------------- MODULE MCMatrixSync ----------------------------
(* Instances of MatrixSync for TLC, in one run: events with few changes of   *)
(* device lists, and changes alone. `part` names the instance.               *)
EXTENDS MatrixSync, TLC

CONSTANT d1

VARIABLE part

ToOne == [t \in Txns |-> {d1}]

ListsOnly == INSTANCE MatrixSync WITH Txns <- {}, Targets <- <<>>, MaxChanges <- 3, MaxFaults <- 2

EventsStep == part = "events" /\ Next /\ UNCHANGED part
ListsStep == part = "lists" /\ ListsOnly!Next /\ UNCHANGED part

PartsInit == Init /\ part \in {"events", "lists"}
PartsNext == EventsStep \/ ListsStep
PartsSpec == PartsInit /\ [][PartsNext]_<<vars, part>>

TxnSymmetry == Permutations(Txns)
=============================================================================
