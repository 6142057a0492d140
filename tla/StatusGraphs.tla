---------------------------- MODULE StatusGraphs ----------------------------
(***************************************************************************)
(* The status graphs of the four aggregates, from                          *)
(* backend/internal/constants/status.go, and the status each aggregate is  *)
(* created in (backend/internal/model).  A graph maps a status to the set  *)
(* of statuses it may move to; the map[string]bool of the source holds     *)
(* only true entries, so a set says the same.                              *)
(***************************************************************************)

BridgeAssetTransitions ==
  [ active     |-> {"restricted", "closed"},
    restricted |-> {"closed", "retired", "active"},
    closed     |-> {"retired", "restricted"},
    retired    |-> {"closed"} ]

InspectionRoundTransitions ==
  [ planned   |-> {"running", "review"},
    running   |-> {"review", "completed", "planned"},
    review    |-> {"completed", "running"},
    completed |-> {"review"} ]

DefectFindingTransitions ==
  [ new        |-> {"verified", "monitoring"},
    verified   |-> {"monitoring", "mitigated", "new"},
    monitoring |-> {"mitigated", "closed", "verified"},
    mitigated  |-> {"closed", "monitoring"},
    closed     |-> {"mitigated"} ]

PriorityDecisionTransitions ==
  [ draft    |-> {"observe", "restrict", "urgent"},
    observe  |-> {},
    restrict |-> {},
    urgent   |-> {} ]

PriorityDecisionInitialStatus == "draft"

AllPriorityLevel == {"observe", "restrict", "urgent"}

(* The three aggregates without revisions. *)
Kinds == {"bridge", "inspection", "defect"}

RecordTransitions ==
  [ bridge     |-> BridgeAssetTransitions,
    inspection |-> InspectionRoundTransitions,
    defect     |-> DefectFindingTransitions ]

RecordInitialStatus == [bridge |-> "active", inspection |-> "planned", defect |-> "new"]

(* Mutation: only the target is looked up, so a final status can be left. *)
CanTransitionFromAnywhere(graph, from, to) == to \in UNION {graph[s] : s \in DOMAIN graph}

(* A status outside the graph has no targets: the lookup of a missing key  *)
(* of the source gives exists = false.                                     *)
CanTransition(graph, from, to) == from \in DOMAIN graph /\ to \in graph[from]
=============================================================================
