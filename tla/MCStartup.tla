----------------------------- MODULE MCStartup ------------------------------
(* Startup on small instances. *)
EXTENDS Startup, TLC

(* Users, one table whose rows can all be deleted (bridges, inspections    *)
(* and defects are seeded by the same code) and the decisions, some of     *)
(* whose seeds are final.                                                  *)
MCOrder == <<"users", "bridges", "decisions">>
MCKept == [t \in {"users", "bridges", "decisions"} |->
             IF t = "decisions" THEN {"S2"} ELSE {}]

(* Instances differ by name only. *)
InstanceSymmetry == Permutations(Instances)
=============================================================================
