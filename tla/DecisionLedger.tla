--------------------------- MODULE DecisionLedger ---------------------------
(***************************************************************************)
(* What the service promises of priority decisions, with no requests,      *)
(* versions, tables or audit log: each decision is a chain of entries that *)
(* only grows.  A draft is written by its preparer and amended by the      *)
(* preparer or an administrator; one independent review closes the chain   *)
(* with a level, on the evidence of the last entry, and nothing follows.   *)
(* A decision may be withdrawn, which hides it and stops its chain.        *)
(***************************************************************************)
EXTENDS Sequences, Naturals, StatusGraphs

CONSTANTS
  Decisions,      \* the decisions, named by their code
  Users,          \* the people who act on them
  Role,           \* [Users -> roles]
  Evidence,       \* the evidence a draft may rest on
  SeedPreparer,   \* the preparer and the reviewer of the decisions a
  SeedReviewer    \* fresh database starts with

VARIABLES
  chain,          \* [Decisions -> Seq of entries], oldest first
  withdrawn       \* the decisions taken out of use

ledgerVars == <<chain, withdrawn>>

Entry(status, evidence, actor) ==
  [status |-> status, evidence |-> evidence, actor |-> actor]

Latest(d) == chain[d][Len(chain[d])]

Preparer(d) == chain[d][1].actor

(* A decision that can still be amended, reviewed or withdrawn as a draft. *)
Open(d) ==
  /\ d \notin withdrawn
  /\ chain[d] # <<>>
  /\ Latest(d).status = PriorityDecisionInitialStatus

Opened(evidence) ==
  <<Entry(PriorityDecisionInitialStatus, evidence, SeedPreparer)>>

SeededChains ==
  {<<>>}
    \cup {Opened(e) : e \in Evidence}
    \cup {Append(Opened(e), Entry(level, e, SeedReviewer)) :
            e \in Evidence, level \in AllPriorityLevel}

LedgerInit ==
  /\ chain \in [Decisions -> SeededChains]
  /\ withdrawn = {}

Draft(d, u, e) ==
  /\ chain[d] = <<>>
  /\ chain' = [chain EXCEPT ![d] = <<Entry(PriorityDecisionInitialStatus, e, u)>>]
  /\ UNCHANGED withdrawn

Amend(d, u, e) ==
  /\ Open(d)
  /\ u = Preparer(d) \/ Role[u] = "admin"
  /\ chain' = [chain EXCEPT ![d] = Append(@, Entry(PriorityDecisionInitialStatus, e, u))]
  /\ UNCHANGED withdrawn

Finalize(d, u, level) ==
  /\ Open(d)
  /\ u # Preparer(d)
  /\ Role[u] \in {"reviewer", "admin"}
  /\ chain' = [chain EXCEPT ![d] = Append(@, Entry(level, Latest(d).evidence, u))]
  /\ UNCHANGED withdrawn

Withdraw(d) ==
  /\ chain[d] # <<>>
  /\ d \notin withdrawn
  /\ withdrawn' = withdrawn \cup {d}
  /\ UNCHANGED chain

LedgerNext ==
  \E d \in Decisions :
    \/ \E u \in Users :
         \/ \E e \in Evidence : Draft(d, u, e) \/ Amend(d, u, e)
         \/ \E level \in AllPriorityLevel : Finalize(d, u, level)
    \/ Withdraw(d)

LedgerSpec == LedgerInit /\ [][LedgerNext]_ledgerVars
=============================================================================
