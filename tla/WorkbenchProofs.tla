--------------------------- MODULE WorkbenchProofs --------------------------
(***************************************************************************)
(* Proofs about Workbench, for any users and accounts, any lifetime of a   *)
(* token, any number of clicks and any versions others write.              *)
(***************************************************************************)
EXTENDS Workbench, TLAPS

(* A record of the page's kind. *)
ItemsOf == [status : DOMAIN Graphs[path], version : Nat \ {0}, preparedBy : Users]

(* A copy of the record is no newer than it, and is it if it is no older.  *)
SoundItem(i) ==
  \/ i = Nothing
  \/ /\ i \in ItemsOf
     /\ row # Nothing => i.version <= row.version /\ (i.version = row.version => i = row)

SoundDialog(d) ==
  \/ d = Closed
  \/ d \in [item : ItemsOf, status : DOMAIN Graphs[path]] /\ SoundItem(d.item)

(* The version a record was moved from is behind it. *)
SoundFrom(n) == n \in Nat /\ (row # Nothing => n < row.version)

(* A token says what its account says, or the account has changed since    *)
(* the server looked.                                                      *)
SoundToken(k) ==
  \/ k = NoToken
  \/ /\ k \in Tokens
     /\ k.read <= k.issued
     /\ k.issued <= clock
     /\ \/ account[k.user].active /\ account[k.user].role = k.role
        \/ k.read <= account[k.user].changed

SoundStage(s) ==
  \/ s = New
  \/ /\ s \in [at : {"posted", "lost"}, kind : {"move", "create"}, dialog : Dialogs,
               expected : Nat, token : Tokens \cup {NoToken}, sent : Nat,
               mounted : BOOLEAN]
     /\ SoundDialog(s.dialog)
     /\ SoundToken(s.token)
     /\ s.expected = s.dialog.item.version
     /\ s.kind = "move" <=> s.dialog # Closed
  \/ /\ s \in [at : {"answered"}, from : Nat, ok : BOOLEAN, mounted : BOOLEAN]
     /\ s.ok => SoundFrom(s.from)
  \/ /\ s \in [at : {"listing"}, from : Nat, token : Tokens \cup {NoToken}, sent : Nat,
               mounted : BOOLEAN]
     /\ SoundFrom(s.from)
  \/ /\ s \in [at : {"listed"}, from : Nat, ok : BOOLEAN, found : Items, mounted : BOOLEAN]
     /\ SoundFrom(s.from)
     /\ SoundItem(s.found)
     /\ s.ok /\ s.found # Nothing => s.from < s.found.version
  \/ s \in [at : {"done"}, from : Nat] /\ SoundFrom(s.from)

SoundSessions ==
  /\ clock \in 0 .. LastTime
  /\ account \in [Users -> [role : AllRoles, active : BOOLEAN, changed : 0 .. LastTime]]
  /\ \A u \in Users : account[u].changed <= clock
  /\ SoundToken(stored)
  /\ SoundToken(session)

SoundPage ==
  /\ path \in DOMAIN Graphs
  /\ row \in ItemsOf \cup {Nothing}
  /\ SoundItem(items)
  /\ SoundDialog(pending)
  /\ pending # Closed => session # NoToken
  /\ loading \in BOOLEAN
  /\ error \in BOOLEAN

SoundTasks ==
  /\ task = [t \in Tasks |-> task[t]]
  /\ \A t \in Tasks : SoundStage(task[t])

IInv == SoundSessions /\ SoundPage /\ SoundTasks /\ MovedOnce /\ SpinnerStops

-----------------------------------------------------------------------------
(* The graphs: the page's table is the server's, and edges stay inside.    *)

LEMMA GraphKinds == DOMAIN Graphs = {"bridge", "inspection", "defect", "decision"}
  BY DEF Graphs, Kinds

LEMMA GraphOf ==
  /\ Graphs["bridge"] = BridgeAssetTransitions
  /\ Graphs["inspection"] = InspectionRoundTransitions
  /\ Graphs["defect"] = DefectFindingTransitions
  /\ Graphs["decision"] = PriorityDecisionTransitions
  BY DEF Graphs, Kinds, RecordTransitions

LEMMA Mirrored ==
  ASSUME NEW k \in DOMAIN Graphs, NEW s \in DOMAIN Graphs[k]
  PROVE  allowedTargets[k][s] = Graphs[k][s]
<1>1. CASE k = "bridge"
  BY <1>1, GraphOf DEF allowedTargets, BridgeAssetTransitions
<1>2. CASE k = "inspection"
  BY <1>2, GraphOf DEF allowedTargets, InspectionRoundTransitions
<1>3. CASE k = "defect"
  BY <1>3, GraphOf DEF allowedTargets, DefectFindingTransitions
<1>4. CASE k = "decision"
  BY <1>4, GraphOf DEF allowedTargets, PriorityDecisionTransitions
<1>5. QED
  BY <1>1, <1>2, <1>3, <1>4, GraphKinds

LEMMA EdgesStay ==
  ASSUME NEW k \in DOMAIN Graphs, NEW s \in DOMAIN Graphs[k]
  PROVE  Graphs[k][s] \subseteq DOMAIN Graphs[k]
<1>1. CASE k = "bridge"
  BY <1>1, GraphOf DEF BridgeAssetTransitions
<1>2. CASE k = "inspection"
  BY <1>2, GraphOf DEF InspectionRoundTransitions
<1>3. CASE k = "defect"
  BY <1>3, GraphOf DEF DefectFindingTransitions
<1>4. CASE k = "decision"
  BY <1>4, GraphOf DEF PriorityDecisionTransitions
<1>5. QED
  BY <1>1, <1>2, <1>3, <1>4, GraphKinds

LEMMA FirstStatus ==
  ASSUME NEW k \in DOMAIN Graphs
  PROVE  InitialStatus(k) \in DOMAIN Graphs[k]
<1>1. CASE k = "bridge"
  BY <1>1, GraphOf DEF BridgeAssetTransitions, InitialStatus, RecordInitialStatus
<1>2. CASE k = "inspection"
  BY <1>2, GraphOf DEF InspectionRoundTransitions, InitialStatus, RecordInitialStatus
<1>3. CASE k = "defect"
  BY <1>3, GraphOf DEF DefectFindingTransitions, InitialStatus, RecordInitialStatus
<1>4. CASE k = "decision"
  BY <1>4, GraphOf DEF PriorityDecisionTransitions, InitialStatus, PriorityDecisionInitialStatus
<1>5. QED
  BY <1>1, <1>2, <1>3, <1>4, GraphKinds

LEMMA Statused ==
  ASSUME NEW k \in DOMAIN Graphs
  PROVE  DOMAIN Graphs[k] \subseteq Statuses
  BY DEF Statuses

-----------------------------------------------------------------------------
(* What changes outside the page leaves sound what is in it. *)

RowStep ==
  \/ row' = row
  \/ row' = Nothing
  \/ row # Nothing /\ row' \in ItemsOf /\ row'.version = row.version + 1

AccountStep ==
  /\ clock' >= clock
  /\ \A u \in Users : account'[u] = account[u] \/ account'[u].changed >= clock

LEMMA NothingType ==
  /\ Nothing \notin ItemsOf
  /\ Nothing.version = 0
  /\ Closed.item = Nothing
  /\ ItemsOf \subseteq [status : DOMAIN Graphs[path], version : Nat \ {0}, preparedBy : Users]
  BY DEF Nothing, ItemsOf, Closed

LEMMA ItemKept ==
  ASSUME SoundPage, path' = path, RowStep, NEW i, SoundItem(i)
  PROVE  SoundItem(i)'
<1>1. CASE i = Nothing
  BY <1>1 DEF SoundItem
<1>2. CASE i # Nothing
  <2>1. i \in ItemsOf /\ ItemsOf' = ItemsOf
    BY <1>2 DEF SoundItem, ItemsOf
  <2>2. row' # Nothing => i.version <= row'.version /\ (i.version = row'.version => i = row')
    <3>1. i.version \in Nat
      BY <2>1 DEF ItemsOf
    <3>2. CASE row' = row
      BY <1>2, <3>2 DEF SoundItem
    <3>3. CASE row # Nothing /\ row' \in ItemsOf /\ row'.version = row.version + 1
      <4>1. row.version \in Nat
        BY <3>3 DEF SoundPage, ItemsOf
      <4>2. i.version <= row.version
        BY <1>2, <3>3 DEF SoundItem
      <4>3. QED
        BY <3>1, <3>3, <4>1, <4>2
    <3>4. QED
      BY <3>2, <3>3 DEF RowStep
  <2>3. QED
    BY <2>1, <2>2 DEF SoundItem
<1>3. QED
  BY <1>1, <1>2

LEMMA DialogKept ==
  ASSUME SoundPage, path' = path, RowStep, NEW d, SoundDialog(d)
  PROVE  SoundDialog(d)'
<1>1. CASE d = Closed
  BY <1>1 DEF SoundDialog
<1>2. CASE d # Closed
  <2>1. SoundItem(d.item)'
    BY <1>2, ItemKept DEF SoundDialog
  <2>2. QED
    BY <1>2, <2>1 DEF SoundDialog, ItemsOf
<1>3. QED
  BY <1>1, <1>2

LEMMA FromKept ==
  ASSUME SoundPage, path' = path, RowStep, NEW n, SoundFrom(n)
  PROVE  SoundFrom(n)'
<1>1. row # Nothing => row.version \in Nat
  BY DEF SoundPage, ItemsOf
<1>2. QED
  BY <1>1 DEF SoundFrom, RowStep

LEMMA TokenKept ==
  ASSUME SoundSessions, SoundSessions', AccountStep, NEW k, SoundToken(k)
  PROVE  SoundToken(k)'
  BY DEF SoundToken, AccountStep, SoundSessions, Tokens

LEMMA StageKept ==
  ASSUME SoundPage, SoundSessions, SoundSessions', path' = path, RowStep, AccountStep,
         NEW s, SoundStage(s)
  PROVE  SoundStage(s)'
<1>1. \A i : SoundItem(i) => SoundItem(i)'
  BY ItemKept
<1>2. \A d : SoundDialog(d) => SoundDialog(d)'
  BY DialogKept
<1>3. \A n : SoundFrom(n) => SoundFrom(n)'
  BY FromKept
<1>4. \A k : SoundToken(k) => SoundToken(k)'
  BY TokenKept
<1>5. QED
  BY <1>1, <1>2, <1>3, <1>4 DEF SoundStage

LEMMA RowTyped ==
  ASSUME SoundPage, path' = path, RowStep
  PROVE  row' \in (ItemsOf \cup {Nothing})'
  BY DEF SoundPage, RowStep, ItemsOf

-----------------------------------------------------------------------------
(* One task moves on. *)

FromOf(s) ==
  IF s.at \in {"new", "posted", "lost"} \/ (s.at = "answered" /\ ~s.ok) THEN 0 ELSE s.from

LEMMA TasksKept ==
  ASSUME SoundPage, SoundSessions, SoundSessions', SoundTasks,
         path' = path, RowStep, AccountStep,
         NEW t \in Tasks, NEW s, task' = [task EXCEPT ![t] = s], SoundStage(s)'
  PROVE  SoundTasks'
<1>1. \A u : SoundStage(u) => SoundStage(u)'
  BY StageKept
<1>2. \A u \in Tasks : task'[u] = IF u = t THEN s ELSE task[u]
  BY DEF SoundTasks
<1>3. task' = [u \in Tasks |-> task'[u]]
  BY DEF SoundTasks
<1>4. \A u \in Tasks : SoundStage(task[u])'
  <2>1. TAKE u \in Tasks
  <2>2. CASE u = t
    BY <1>2, <2>2 DEF SoundStage
  <2>3. CASE u # t
    <3>1. task'[u] = task[u]
      BY <1>2, <2>3
    <3>2. SoundStage(task[u])
      BY DEF SoundTasks
    <3>3. QED
      BY <1>1, <3>1, <3>2 DEF SoundStage
  <2>4. QED
    BY <2>2, <2>3
<1>5. QED
  BY <1>3, <1>4 DEF SoundTasks

LEMMA MovedKept ==
  ASSUME SoundTasks, MovedOnce, NEW t \in Tasks, NEW s, task' = [task EXCEPT ![t] = s],
         FromOf(s) \in {0, MovedFrom(t)}
  PROVE  MovedOnce'
<1>1. \A u \in Tasks : task'[u] = IF u = t THEN s ELSE task[u]
  BY DEF SoundTasks
<1>2. \A u \in Tasks : u # t => MovedFrom(u)' = MovedFrom(u)
  BY <1>1 DEF MovedFrom
<1>3. MovedFrom(t)' = FromOf(s)
  BY <1>1 DEF MovedFrom, FromOf
<1>4. QED
  BY <1>2, <1>3 DEF MovedOnce

(* A step of task t that leaves the record and the accounts alone.         *)
LEMMA PageKept ==
  ASSUME SoundPage, UNCHANGED <<path, row>>,
         SoundItem(items)', SoundDialog(pending)', pending' # Closed => session' # NoToken,
         loading' \in BOOLEAN, error' \in BOOLEAN
  PROVE  SoundPage'
  BY DEF SoundPage, ItemsOf

LEMMA SessionsKept ==
  ASSUME SoundSessions, UNCHANGED sessions
  PROVE  SoundSessions' /\ AccountStep
<1>1. clock \in Nat
  BY SessionsAssumption DEF SoundSessions
<1>2. QED
  BY <1>1 DEF SoundSessions, SoundToken, sessions, AccountStep

LEMMA ClockRuns ==
  ASSUME IInv
  PROVE  clock \in Nat
  BY SessionsAssumption DEF IInv, SoundSessions

LEMMA StartKeeps ==
  ASSUME IInv, NEW t \in Tasks, NEW s, Start(t, s), SoundStage(s)', FromOf(s) = 0,
         s.at \in {"posted", "listing"},
         SoundSessions', AccountStep, UNCHANGED <<path, row, items, pending>>,
         pending # Closed => session' # NoToken
  PROVE  IInv'
<1> USE DEF IInv
<1>1. task' = [task EXCEPT ![t] = s] /\ loading' = TRUE /\ error' = FALSE
  BY DEF Start
<1>2. RowStep
  BY DEF RowStep
<1>3. SoundItem(items)' /\ SoundDialog(pending)'
  BY <1>2, ItemKept, DialogKept DEF SoundPage, SoundItem, SoundDialog, ItemsOf
<1>4. SoundPage'
  BY <1>1, <1>3, PageKept
<1>5. SoundTasks'
  BY <1>1, <1>2, TasksKept
<1>6. MovedOnce'
  BY <1>1, MovedKept
<1>7. SpinnerStops'
  <2>1. task'[t] = s
    BY <1>1 DEF SoundTasks
  <2>2. QED
    BY <2>1 DEF SpinnerStops, UnderWay
<1>8. QED
  BY <1>4, <1>5, <1>6, <1>7

LEMMA LoadKeeps ==
  ASSUME IInv, NEW t \in Tasks, Load(t)
  PROVE  IInv'
<1>0. PICK s : s = Listing(0, stored, TRUE)
  OBVIOUS
<1>1. SoundSessions' /\ AccountStep
  BY SessionsKept DEF IInv, Load
<1>2. SoundFrom(0)'
  BY DEF IInv, SoundPage, SoundFrom, ItemsOf, Load
<1>3. stored \in Tokens \cup {NoToken}
  BY DEF IInv, SoundSessions, SoundToken
<1>4. SoundStage(s)' /\ FromOf(s) = 0 /\ s.at = "listing"
  BY <1>0, <1>2, <1>3, ClockRuns DEF SoundStage, Listing, FromOf
<1>5. Start(t, s) /\ UNCHANGED <<path, row, items, pending>> /\ session' = session
  BY <1>0 DEF Load, sessions
<1>6. pending # Closed => session' # NoToken
  BY <1>5 DEF IInv, SoundPage
<1>7. QED
  BY <1>1, <1>4, <1>5, <1>6, StartKeeps

LEMMA PostStarts ==
  ASSUME IInv, NEW t \in Tasks, NEW kind \in {"move", "create"},
         NEW d, SoundDialog(d), kind = "move" <=> d # Closed,
         Start(t, Posted(kind, d, d.item.version)),
         UNCHANGED <<path, row, items, pending, sessions>>
  PROVE  IInv'
<1>0. PICK s : s = Posted(kind, d, d.item.version)
  OBVIOUS
<1>1. SoundSessions' /\ AccountStep
  BY SessionsKept DEF IInv
<1>2. stored \in Tokens \cup {NoToken} /\ SoundToken(stored)
  BY DEF IInv, SoundSessions, SoundToken
<1>3. d \in Dialogs /\ d.item.version \in Nat
  BY Statused, NothingType DEF IInv, SoundPage, SoundDialog, Dialogs, Items, ItemsOf
<1>4. SoundStage(s)
  BY <1>0, <1>2, <1>3, ClockRuns DEF SoundStage, Posted
<1>5. SoundStage(s)'
  BY <1>1, <1>4, StageKept DEF IInv, RowStep
<1>6. FromOf(s) = 0 /\ s.at = "posted"
  BY <1>0 DEF FromOf, Posted
<1>7. Start(t, s) /\ (pending # Closed => session' # NoToken)
  BY <1>0 DEF sessions, IInv, SoundPage
<1>8. QED
  BY <1>1, <1>5, <1>6, <1>7, StartKeeps

LEMMA ConfirmKeeps ==
  ASSUME IInv, NEW t \in Tasks, Confirm(t)
  PROVE  IInv'
<1>1. PICK d : d = pending
  OBVIOUS
<1>2. SoundDialog(d) /\ d # Closed /\ Start(t, Posted("move", d, d.item.version))
  BY <1>1 DEF Confirm, IInv, SoundPage
<1>3. UNCHANGED <<path, row, items, pending, sessions>>
  BY DEF Confirm
<1>4. QED
  BY <1>2, <1>3, PostStarts

LEMMA CreateDemoKeeps ==
  ASSUME IInv, NEW t \in Tasks, CreateDemo(t)
  PROVE  IInv'
<1>1. SoundDialog(Closed) /\ Closed.item.version = 0
  BY NothingType DEF SoundDialog
<1>2. Start(t, Posted("create", Closed, Closed.item.version))
  BY <1>1 DEF CreateDemo
<1>3. UNCHANGED <<path, row, items, pending, sessions>>
  BY DEF CreateDemo
<1>4. QED
  BY <1>1, <1>2, <1>3, PostStarts

-----------------------------------------------------------------------------
(* Accounts and logins. *)

LEMMA SignedSound ==
  ASSUME SoundSessions, NEW u \in Users, NEW k \in Signed(u)
  PROVE  SoundToken(k) /\ k # NoToken
<1>1. /\ k \in Tokens /\ k.user = u /\ k.issued = clock /\ k.read <= clock
      /\ k.role \in FoundAt(u, k.read)
  BY DEF Signed
<1>2. k # NoToken
  <2>1. "" \notin AllRoles
    BY DEF AllRoles, roleRank
  <2>2. NoToken.role = ""
    BY DEF NoToken
  <2>3. NoToken.role \notin AllRoles
    BY <2>1, <2>2
  <2>4. k.role \in AllRoles
    BY <1>1 DEF Tokens
  <2>5. QED
    BY <2>3, <2>4
<1>3. \/ account[u].active /\ account[u].role = k.role
      \/ k.read <= account[u].changed
  BY <1>1 DEF FoundAt
<1>4. k.issued \in Nat
  BY <1>1, SessionsAssumption DEF SoundSessions
<1>5. QED
  BY <1>1, <1>2, <1>3, <1>4 DEF SoundToken

LEMMA LoginKeeps ==
  ASSUME SoundSessions, NEW u \in Users, Login(u)
  PROVE  SoundSessions' /\ AccountStep /\ stored' # NoToken /\ session' # NoToken
<1>1. PICK k \in Signed(u) : stored' = k
  BY DEF Login
<1>2. SoundToken(k) /\ k # NoToken
  BY SignedSound
<1>3. SoundToken(k)'
  BY <1>2 DEF SoundToken, Login
<1>4. stored' = k /\ session' = k
  BY <1>1 DEF Login
<1>5. clock \in Nat
  BY SessionsAssumption DEF SoundSessions
<1>6. QED
  BY <1>1, <1>2, <1>3, <1>4, <1>5 DEF SoundSessions, SoundToken, AccountStep, Login

LEMMA LogoutKeeps ==
  ASSUME SoundSessions, Logout
  PROVE  SoundSessions' /\ AccountStep
<1>1. clock \in Nat
  BY SessionsAssumption DEF SoundSessions
<1>2. QED
  BY <1>1 DEF SoundSessions, SoundToken, AccountStep, Logout

LEMMA ElsewhereKeeps ==
  ASSUME SoundSessions, Elsewhere
  PROVE  SoundSessions' /\ AccountStep
<1>1. PICK k : k = stored'
  OBVIOUS
<1>2. SoundToken(k)
  <2>1. CASE k = NoToken
    BY <2>1 DEF SoundToken
  <2>2. CASE k # NoToken
    BY <1>1, <2>2, SignedSound DEF Elsewhere
  <2>3. QED
    BY <2>1, <2>2
<1>3. clock \in Nat
  BY SessionsAssumption DEF SoundSessions
<1>4. QED
  BY <1>1, <1>2, <1>3 DEF SoundSessions, SoundToken, AccountStep, Elsewhere

LEMMA ChangeKeeps ==
  ASSUME SoundSessions, NEW u \in Users, ChangeAccount(u)
  PROVE  SoundSessions' /\ AccountStep
<1>1. clock \in Nat /\ "viewer" \in AllRoles
  BY SessionsAssumption DEF SoundSessions, AllRoles, roleRank
<1>2. account'[u].changed = clock
  BY DEF ChangeAccount, SoundSessions
<1>3. \A v \in Users : v # u => account'[v] = account[v]
  BY DEF ChangeAccount, SoundSessions
<1>4. account' \in [Users -> [role : AllRoles, active : BOOLEAN, changed : 0 .. LastTime]]
  <2>1. PICK entry \in [role : AllRoles, active : BOOLEAN, changed : 0 .. LastTime] :
          entry = account[u]
    BY DEF SoundSessions
  <2>2. clock \in 0 .. LastTime
    BY DEF SoundSessions
  <2>3. \/ account' = [account EXCEPT ![u] = [entry EXCEPT !.active = FALSE, !.changed = clock]]
        \/ account' = [account EXCEPT ![u] = [entry EXCEPT !.role = "viewer", !.changed = clock]]
    BY <2>1 DEF ChangeAccount, SoundSessions
  <2>4. /\ [entry EXCEPT !.active = FALSE, !.changed = clock]
             \in [role : AllRoles, active : BOOLEAN, changed : 0 .. LastTime]
        /\ [entry EXCEPT !.role = "viewer", !.changed = clock]
             \in [role : AllRoles, active : BOOLEAN, changed : 0 .. LastTime]
    BY <1>1, <2>2
  <2>5. QED
    BY <2>3, <2>4 DEF SoundSessions
<1>5. AccountStep
  BY <1>1, <1>2, <1>3 DEF AccountStep, ChangeAccount
<1>6. \A v \in Users : account'[v].changed <= clock'
  BY <1>1, <1>2, <1>3 DEF SoundSessions, ChangeAccount
<1>7. \A k : SoundToken(k) => SoundToken(k)'
  <2>1. TAKE k
  <2>2. UNCHANGED clock
    BY DEF ChangeAccount
  <2>3. CASE k = NoToken
    BY <2>3 DEF SoundToken
  <2>4. CASE k # NoToken /\ SoundToken(k)
    <3>1. k \in Tokens /\ k.read <= k.issued /\ k.issued <= clock
      BY <2>4 DEF SoundToken
    <3>2. k.user \in Users /\ k.read \in Nat /\ k.issued \in Nat /\ k.read <= clock
      BY <1>1, <3>1, SessionsAssumption DEF Tokens
    <3>3. \/ account'[k.user].active /\ account'[k.user].role = k.role
          \/ k.read <= account'[k.user].changed
      BY <1>1, <1>2, <1>3, <2>4, <3>1, <3>2 DEF SoundToken
    <3>4. QED
      BY <2>2, <3>1, <3>3 DEF SoundToken
  <2>5. QED
    BY <2>3, <2>4
<1>8. SoundToken(stored)' /\ SoundToken(session)'
  <2>1. PICK k, l : k = stored /\ l = session
    OBVIOUS
  <2>2. stored' = k /\ session' = l
    BY <2>1 DEF ChangeAccount
  <2>3. SoundToken(k)' /\ SoundToken(l)'
    BY <1>7, <2>1 DEF SoundSessions
  <2>4. QED
    BY <2>2, <2>3 DEF SoundToken
<1>9. QED
  BY <1>4, <1>5, <1>6, <1>8 DEF SoundSessions, ChangeAccount

LEMMA TickKeeps ==
  ASSUME SoundSessions, Tick
  PROVE  SoundSessions' /\ AccountStep
<1>1. clock \in Nat /\ clock' \in 0 .. LastTime /\ clock' >= clock
  BY SessionsAssumption DEF SoundSessions, Tick
<1>2. AccountStep
  BY <1>1 DEF AccountStep, Tick
<1>3. SoundToken(stored)' /\ SoundToken(session)'
  BY <1>1 DEF SoundToken, SoundSessions, Tick, Tokens
<1>4. \A u \in Users : account[u].changed \in Nat
  BY SessionsAssumption DEF SoundSessions
<1>5. QED
  BY <1>1, <1>2, <1>3, <1>4 DEF SoundSessions, Tick

LEMMA SignInKeeps ==
  ASSUME IInv, NEW t \in Tasks, SignIn(t)
  PROVE  IInv'
<1>0. PICK s : s = Listing(0, stored', TRUE)
  OBVIOUS
<1>1. SoundSessions' /\ AccountStep /\ stored' # NoToken /\ session' # NoToken
  BY LoginKeeps DEF SignIn, IInv
<1>2. SoundFrom(0)'
  BY DEF IInv, SoundPage, SoundFrom, ItemsOf, SignIn
<1>3. stored' \in Tokens
  BY <1>1 DEF SoundSessions, SoundToken
<1>4. SoundStage(s)' /\ FromOf(s) = 0 /\ s.at = "listing"
  BY <1>0, <1>2, <1>3, ClockRuns DEF SoundStage, Listing, FromOf
<1>5. Start(t, s) /\ UNCHANGED <<path, row, items, pending>>
  BY <1>0 DEF SignIn
<1>6. QED
  BY <1>1, <1>4, <1>5, StartKeeps

-----------------------------------------------------------------------------
(* The server and its answers. *)

LEMMA StageFields ==
  ASSUME NEW s, SoundStage(s)
  PROVE  /\ s.at \in {"new", "posted", "lost", "answered", "listing", "listed", "done"}
         /\ s.at \in {"posted", "lost"} =>
              /\ SoundDialog(s.dialog) /\ SoundToken(s.token)
              /\ s.kind \in {"move", "create"} /\ s.mounted \in BOOLEAN
              /\ s.dialog \in Dialogs /\ s.token \in Tokens \cup {NoToken}
              /\ s.expected \in Nat /\ s.sent \in Nat
              /\ s.expected = s.dialog.item.version
              /\ s.kind = "move" <=> s.dialog # Closed
         /\ s.at \in {"listing", "listed", "done"} => SoundFrom(s.from)
         /\ s.at = "answered" /\ s.ok => SoundFrom(s.from)
         /\ s.at \in {"answered", "listing", "listed"} => s.mounted \in BOOLEAN
         /\ s.at \in {"answered", "listed"} => s.ok \in BOOLEAN
         /\ s.at = "listing" => s.token \in Tokens \cup {NoToken}
         /\ s.at = "listed" =>
              /\ SoundItem(s.found)
              /\ s.ok /\ s.found # Nothing => s.from < s.found.version
  BY DEF SoundStage, New

LEMMA SpinsOn ==
  ASSUME SoundTasks, SpinnerStops, NEW t \in Tasks, NEW s, task' = [task EXCEPT ![t] = s],
         loading' => \/ s.at \notin {"new", "lost", "done"}
                     \/ loading /\ ~UnderWay(t)
  PROVE  SpinnerStops'
<1>1. \A u \in Tasks : task'[u] = IF u = t THEN s ELSE task[u]
  BY DEF SoundTasks
<1>2. CASE loading' /\ s.at \notin {"new", "lost", "done"}
  BY <1>1, <1>2 DEF SpinnerStops, UnderWay
<1>3. CASE loading /\ ~UnderWay(t)
  <2>1. PICK u \in Tasks : UnderWay(u)
    BY <1>3 DEF SpinnerStops
  <2>2. u # t
    BY <1>3, <2>1
  <2>3. QED
    BY <1>1, <2>1, <2>2 DEF SpinnerStops, UnderWay
<1>4. QED
  BY <1>2, <1>3 DEF SpinnerStops

(* A step of task t that leaves the record and the sessions alone.         *)
LEMMA TaskMoves ==
  ASSUME IInv, NEW t \in Tasks, NEW s, task' = [task EXCEPT ![t] = s],
         UNCHANGED <<path, row, sessions>>,
         SoundStage(s), FromOf(s) \in {0, MovedFrom(t)},
         SoundItem(items'), pending' \in {pending, Closed},
         loading' \in BOOLEAN, error' \in BOOLEAN,
         loading' => \/ s.at \notin {"new", "lost", "done"}
                     \/ loading /\ ~UnderWay(t)
  PROVE  IInv'
<1> USE DEF IInv
<1>1. SoundSessions' /\ AccountStep
  BY SessionsKept
<1>2. RowStep
  BY DEF RowStep
<1>3. SoundStage(s)'
  BY <1>1, <1>2, StageKept
<1>4. SoundTasks'
  BY <1>1, <1>2, <1>3, TasksKept
<1>5. MovedOnce'
  BY MovedKept
<1>6. SpinnerStops'
  BY SpinsOn
<1>7. SoundItem(items)'
  BY DEF SoundItem, ItemsOf
<1>8. SoundDialog(pending)'
  BY DEF SoundPage, SoundDialog, SoundItem, ItemsOf
<1>9. SoundPage'
  BY <1>7, <1>8, PageKept DEF SoundPage, sessions
<1>10. QED
  BY <1>1, <1>4, <1>5, <1>6, <1>9

LEMMA TaskSound ==
  ASSUME IInv, NEW t \in Tasks
  PROVE  SoundStage(task[t])
  BY DEF IInv, SoundTasks

LEMMA PageSound ==
  ASSUME IInv
  PROVE  SoundItem(items) /\ loading \in BOOLEAN /\ error \in BOOLEAN /\ SoundFrom(0)
  BY DEF IInv, SoundPage, SoundFrom, ItemsOf

LEMMA CreateKeeps ==
  ASSUME IInv, NEW t \in Tasks, Create(t)
  PROVE  IInv'
<1>1. PICK arrived \in ArrivalTimes(t) : Answer(t, MayCreate(task[t].token, arrived))
  BY DEF Create
<1>2. PICK ok \in BOOLEAN : ok = MayCreate(task[t].token, arrived)
  BY DEF MayCreate, Authentic, RequireMinimumRole
<1>3. task[t].at \in {"posted", "lost"} /\ task[t].kind = "create"
  BY DEF Create, Sent
<1>4. task[t].dialog.item.version = 0 /\ task[t].mounted \in BOOLEAN
  BY <1>3, TaskSound, StageFields, NothingType
<1>5. PICK s : s = IF task[t].at = "lost" THEN Done(0) ELSE Answered(0, ok, task[t].mounted)
  OBVIOUS
<1>6. task' = [task EXCEPT ![t] = s]
  BY <1>1, <1>2, <1>4, <1>5 DEF Answer
<1>7. SoundStage(s) /\ FromOf(s) = 0
  BY <1>2, <1>4, <1>5, PageSound DEF SoundStage, Done, Answered, FromOf
<1>8. loading' => s.at \notin {"new", "lost", "done"} \/ (loading /\ ~UnderWay(t))
  BY <1>3, <1>5 DEF Create, Answered, UnderWay
<1>9. QED
  BY <1>6, <1>7, <1>8, PageSound, TaskMoves DEF Create

LEMMA ListKeeps ==
  ASSUME IInv, NEW t \in Tasks, List(t)
  PROVE  IInv'
<1>0. PICK ok \in BOOLEAN :
        task' = [task EXCEPT ![t] = Listed(@.from, ok, IF ok THEN row ELSE Nothing, @.mounted)]
  BY DEF List, Authentic
<1>1. PICK s : s = Listed(task[t].from, ok, IF ok THEN row ELSE Nothing, task[t].mounted)
  OBVIOUS
<1>2. task' = [task EXCEPT ![t] = s] /\ task[t].at = "listing"
  BY <1>0, <1>1 DEF List
<1>3. SoundFrom(task[t].from) /\ task[t].mounted \in BOOLEAN
  BY <1>2, TaskSound, StageFields
<1>4. SoundItem(row) /\ SoundItem(Nothing) /\ row \in Items /\ Nothing \in Items
  BY Statused DEF IInv, SoundPage, SoundItem, Items, ItemsOf
<1>6. SoundStage(s)
  BY <1>0, <1>1, <1>3, <1>4 DEF SoundStage, Listed, SoundFrom
<1>7. FromOf(s) = MovedFrom(t) /\ s.at = "listed"
  BY <1>1, <1>2 DEF FromOf, MovedFrom, Listed
<1>8. QED
  BY <1>2, <1>6, <1>7, PageSound, TaskMoves DEF List

LEMMA AcceptedKeeps ==
  ASSUME IInv, NEW t \in Tasks, Accepted(t)
  PROVE  IInv'
<1>1. PICK s : s = Listing(task[t].from, stored, task[t].mounted)
  OBVIOUS
<1>2. task' = [task EXCEPT ![t] = s] /\ task[t].at = "answered" /\ task[t].ok
  BY <1>1 DEF Accepted
<1>3. SoundFrom(task[t].from) /\ task[t].mounted \in BOOLEAN
  BY <1>2, TaskSound, StageFields
<1>4. stored \in Tokens \cup {NoToken}
  BY DEF IInv, SoundSessions, SoundToken
<1>5. SoundStage(s)
  BY <1>1, <1>3, <1>4, ClockRuns DEF SoundStage, Listing, SoundFrom
<1>6. FromOf(s) = MovedFrom(t) /\ s.at = "listing"
  BY <1>1, <1>2 DEF FromOf, MovedFrom, Listing
<1>7. QED
  BY <1>2, <1>5, <1>6, PageSound, TaskMoves DEF Accepted

LEMMA RefusedKeeps ==
  ASSUME IInv, NEW t \in Tasks, Refused(t)
  PROVE  IInv'
<1>1. SoundStage(Done(0)) /\ FromOf(Done(0)) = 0
  BY PageSound DEF SoundStage, Done, FromOf
<1>2. loading' = FALSE /\ error' = TRUE
  BY DEF Refused, Fails
<1>3. QED
  BY <1>1, <1>2, PageSound, TaskMoves DEF Refused, Done

LEMMA ListArrivesKeeps ==
  ASSUME IInv, NEW t \in Tasks, ListArrives(t)
  PROVE  IInv'
<1>1. PICK s : s = Done(task[t].from)
  OBVIOUS
<1>2. task' = [task EXCEPT ![t] = s] /\ task[t].at = "listed"
  BY <1>1 DEF ListArrives
<1>3. SoundFrom(task[t].from) /\ SoundItem(task[t].found)
  BY <1>2, TaskSound, StageFields
<1>4. SoundStage(s) /\ FromOf(s) = MovedFrom(t)
  BY <1>1, <1>2, <1>3 DEF SoundStage, Done, SoundFrom, FromOf, MovedFrom
<1>5. loading' = FALSE /\ error' \in BOOLEAN /\ SoundItem(items')
  BY <1>3, PageSound DEF ListArrives, Fails
<1>6. pending' \in {pending, Closed}
  BY DEF ListArrives, Returns
<1>7. QED
  BY <1>2, <1>4, <1>5, <1>6, TaskMoves DEF ListArrives

LEMMA NetworkFailsKeeps ==
  ASSUME IInv, NEW t \in Tasks, NetworkFails(t)
  PROVE  IInv'
<1>1. loading' = FALSE /\ error' = TRUE /\ UNCHANGED <<path, row, items, sessions>>
  BY DEF NetworkFails, Fails
<1>2. pending' \in {pending, Closed}
  BY DEF NetworkFails, Returns
<1>3. CASE task[t].at = "posted"
  <2>1. PICK s : s = [task[t] EXCEPT !.at = "lost"]
    OBVIOUS
  <2>2. task' = [task EXCEPT ![t] = s]
    BY <1>3, <2>1 DEF NetworkFails
  <2>3. SoundStage(s)
    BY <1>3, <2>1, TaskSound DEF SoundStage, New
  <2>4. s.at = "lost"
    BY <1>3, <2>1, TaskSound DEF SoundStage, New
  <2>5. QED
    BY <1>1, <1>2, <2>2, <2>3, <2>4, PageSound, TaskMoves DEF FromOf
<1>4. CASE task[t].at = "answered"
  <2>1. PICK s : s = Done(IF task[t].ok THEN task[t].from ELSE 0)
    OBVIOUS
  <2>2. task' = [task EXCEPT ![t] = s]
    BY <1>4, <2>1 DEF NetworkFails
  <2>3. task[t].ok => SoundFrom(task[t].from)
    BY <1>4, TaskSound, StageFields
  <2>4. SoundStage(s) /\ FromOf(s) = MovedFrom(t)
    BY <1>4, <2>1, <2>3, PageSound DEF SoundStage, Done, SoundFrom, FromOf, MovedFrom
  <2>5. QED
    BY <1>1, <1>2, <2>2, <2>4, PageSound, TaskMoves
<1>5. CASE task[t].at \in {"listing", "listed"}
  <2>1. PICK s : s = Done(task[t].from)
    OBVIOUS
  <2>2. task' = [task EXCEPT ![t] = s]
    BY <1>5, <2>1 DEF NetworkFails
  <2>3. SoundFrom(task[t].from)
    BY <1>5, TaskSound, StageFields
  <2>4. SoundStage(s) /\ FromOf(s) = MovedFrom(t)
    BY <1>5, <2>1, <2>3 DEF SoundStage, Done, SoundFrom, FromOf, MovedFrom
  <2>5. QED
    BY <1>1, <1>2, <2>2, <2>4, PageSound, TaskMoves
<1>6. QED
  BY <1>3, <1>4, <1>5 DEF NetworkFails

(* What the server has checked when it moves a record.                     *)
LEMMA VerdictOk ==
  ASSUME NEW k, NEW a, NEW e, NEW s
  PROVE  MoveVerdict(k, a, e, s) = "ok" <=>
           /\ Authentic(k, a)
           /\ RequireMinimumRole(k.role, "operator")
           /\ row # Nothing
           /\ path = "decision" => /\ RequireRoles(k.role, {"reviewer", "admin"})
                                  /\ k.user # row.preparedBy
           /\ CanTransition(Graphs[path], row.status, s)
           /\ row.version = e
  BY DEF MoveVerdict

(* One edge of the graph and one version; the record's kind is kept.       *)
LEMMA MovedItem ==
  ASSUME SoundPage, row # Nothing, NEW target, CanTransition(Graphs[path], row.status, target)
  PROVE  /\ Moved(row, target) \in ItemsOf
         /\ Moved(row, target).version = row.version + 1
         /\ Moved(row, target).status = target
         /\ Moved(row, target) # Nothing
<1>1. row \in ItemsOf
  BY DEF SoundPage
<1>2. target \in DOMAIN Graphs[path]
  BY <1>1, EdgesStay DEF SoundPage, CanTransition
<1>3. QED
  BY <1>1, <1>2, NothingType DEF Moved, ItemsOf

LEMMA MovedFromSound ==
  ASSUME IInv, NEW t \in Tasks
  PROVE  SoundFrom(MovedFrom(t))
<1>1. SoundStage(task[t])
  BY TaskSound
<1>2. CASE task[t].at \in {"new", "posted", "lost"} \/ (task[t].at = "answered" /\ ~task[t].ok)
  BY <1>2, PageSound DEF MovedFrom
<1>3. CASE ~(task[t].at \in {"new", "posted", "lost"} \/ (task[t].at = "answered" /\ ~task[t].ok))
  BY <1>1, <1>3, StageFields DEF MovedFrom
<1>4. QED
  BY <1>2, <1>3

(* A transition whose token was good when it arrived is made. *)
Made(t, arrived) ==
  /\ arrived \in ArrivalTimes(t)
  /\ MoveVerdict(task[t].token, arrived, task[t].expected, task[t].dialog.status) = "ok"
  /\ row' = Moved(row, task[t].dialog.status)

LEMMA MoveMade ==
  ASSUME IInv, NEW t \in Tasks, Sent(t, "move"), NEW arrived, Made(t, arrived)
  PROVE  /\ row # Nothing /\ row' = Moved(row, task[t].dialog.status)
         /\ RowStep
         /\ row' # Nothing /\ row'.version = row.version + 1
         /\ row.version = task[t].dialog.item.version
         /\ row.status = task[t].dialog.item.status
         /\ row'.status = task[t].dialog.status
<1>1. /\ row # Nothing /\ row' = Moved(row, task[t].dialog.status)
      /\ CanTransition(Graphs[path], row.status, task[t].dialog.status)
      /\ row.version = task[t].expected
  BY VerdictOk DEF Made
<1>2. SoundDialog(task[t].dialog) /\ task[t].dialog # Closed
        /\ task[t].expected = task[t].dialog.item.version
  BY TaskSound, StageFields DEF Sent
<1>3. SoundItem(task[t].dialog.item) /\ task[t].dialog.item # Nothing
  BY <1>2, NothingType DEF SoundDialog
<1>4. task[t].dialog.item = row
  BY <1>1, <1>2, <1>3 DEF SoundItem
<1>5. QED
  BY <1>1, <1>2, <1>4, MovedItem DEF IInv, RowStep

LEMMA MoveKeeps ==
  ASSUME IInv, NEW t \in Tasks, Move(t)
  PROVE  IInv'
<1>0. PICK arrived \in ArrivalTimes(t) :
        LET made == MoveVerdict(task[t].token, arrived, task[t].expected,
                                task[t].dialog.status) = "ok"
        IN /\ Answer(t, made)
           /\ row' = IF made THEN Moved(row, task[t].dialog.status) ELSE row
  BY DEF Move
<1>1. PICK ok : ok = (MoveVerdict(task[t].token, arrived, task[t].expected,
                                  task[t].dialog.status) = "ok")
  OBVIOUS
<1>2. PICK from : from = task[t].dialog.item.version
  OBVIOUS
<1>3. /\ task[t].at \in {"posted", "lost"}
      /\ task[t].mounted \in BOOLEAN
      /\ from \in Nat
  BY <1>2, TaskSound, StageFields DEF Move, Sent
<1>4. PICK s : s = IF task[t].at = "lost" THEN Done(IF ok THEN from ELSE 0)
                   ELSE Answered(from, ok, task[t].mounted)
  OBVIOUS
<1>5. task' = [task EXCEPT ![t] = s]
  BY <1>0, <1>1, <1>2, <1>4 DEF Answer
<1>6. s.at \notin {"new", "lost", "done"} \/ ~UnderWay(t)
  BY <1>3, <1>4 DEF Answered, UnderWay
<1>7. UNCHANGED <<path, items, pending, loading, error, sessions>>
  BY DEF Move
<1>8. CASE ~ok
  <2>1. row' = row
    BY <1>0, <1>1, <1>8
  <2>2. SoundStage(s) /\ FromOf(s) = 0
    <3>1. CASE task[t].at = "lost"
      <4>1. s = Done(0)
        BY <1>4, <1>8, <3>1
      <4>2. QED
        BY <4>1, PageSound DEF SoundStage, Done, FromOf
    <3>2. CASE task[t].at # "lost"
      <4>1. s = Answered(from, FALSE, task[t].mounted)
        BY <1>1, <1>4, <1>8, <3>2
      <4>2. QED
        BY <1>3, <4>1 DEF SoundStage, Answered, FromOf
    <3>3. QED
      BY <3>1, <3>2
  <2>3. QED
    BY <1>5, <1>6, <1>7, <2>1, <2>2, PageSound, TaskMoves
<1>9. CASE ok
  <2>1. /\ row # Nothing /\ RowStep /\ row' # Nothing /\ row'.version = row.version + 1
        /\ row.version = from
    BY <1>0, <1>1, <1>2, <1>9, MoveMade DEF Made, Move
  <2>2. SoundSessions' /\ AccountStep
    BY <1>7, SessionsKept DEF IInv
  <2>3. SoundFrom(from)'
    BY <1>3, <2>1 DEF SoundFrom
  <2>4. SoundStage(s)' /\ FromOf(s) = from
    BY <1>3, <1>4, <1>9, <2>3 DEF SoundStage, Done, Answered, FromOf
  <2>5. SoundTasks'
    BY <1>5, <1>7, <2>1, <2>2, <2>4, TasksKept DEF IInv
  <2>6. SoundPage'
    <3>1. SoundItem(items)' /\ SoundDialog(pending)'
      BY <1>7, <2>1, ItemKept, DialogKept DEF IInv, SoundPage, SoundItem, SoundDialog, ItemsOf
    <3>2. row' \in (ItemsOf \cup {Nothing})' /\ path' \in DOMAIN Graphs
      BY <1>7, <2>1, RowTyped DEF IInv, SoundPage
    <3>3. QED
      BY <1>7, <3>1, <3>2 DEF IInv, SoundPage, sessions
  <2>7. MovedOnce'
    <3>1. \A u \in Tasks : task'[u] = IF u = t THEN s ELSE task[u]
      BY <1>5 DEF IInv, SoundTasks
    <3>2. MovedFrom(t)' = from
      BY <2>4, <3>1 DEF MovedFrom, FromOf
    <3>3. \A u \in Tasks : u # t => MovedFrom(u)' = MovedFrom(u) /\ MovedFrom(u) < from
      BY <2>1, <3>1, MovedFromSound DEF MovedFrom, SoundFrom
    <3>4. \A u \in Tasks : MovedFrom(u) \in Nat
      BY MovedFromSound DEF SoundFrom
    <3>5. QED
      BY <1>3, <3>2, <3>3, <3>4 DEF MovedOnce, IInv
  <2>8. SpinnerStops'
    BY <1>5, <1>6, <1>7, SpinsOn DEF IInv
  <2>9. QED
    BY <2>2, <2>5, <2>6, <2>7, <2>8 DEF IInv
<1>10. ok \in BOOLEAN
  BY <1>1
<1>11. QED
  BY <1>8, <1>9, <1>10

-----------------------------------------------------------------------------
(* The dialog, the others, and the invariant. *)

LEMMA TasksStay ==
  ASSUME IInv, SoundSessions', path' = path, RowStep, AccountStep, UNCHANGED <<task, loading>>
  PROVE  SoundTasks' /\ MovedOnce' /\ SpinnerStops'
<1>1. \A s : SoundStage(s) => SoundStage(s)'
  BY StageKept DEF IInv
<1>2. \A t \in Tasks : SoundStage(task[t])'
  <2>1. TAKE t \in Tasks
  <2>2. PICK s : s = task[t]
    OBVIOUS
  <2>3. SoundStage(s)'
    BY <1>1, <2>2 DEF IInv, SoundTasks
  <2>4. task'[t] = s
    BY <2>2
  <2>5. QED
    BY <2>3, <2>4 DEF SoundStage
<1>3. SoundTasks'
  BY <1>2 DEF IInv, SoundTasks
<1>4. MovedOnce'
  BY DEF IInv, MovedOnce, MovedFrom
<1>5. SpinnerStops'
  BY DEF IInv, SpinnerStops, UnderWay
<1>6. QED
  BY <1>3, <1>4, <1>5

LEMMA CopiesStay ==
  ASSUME IInv, path' = path, RowStep, UNCHANGED <<items, pending>>
  PROVE  /\ SoundItem(items)' /\ SoundDialog(pending)'
         /\ row' \in (ItemsOf \cup {Nothing})' /\ path' \in DOMAIN Graphs
<1>1. SoundItem(items)'
  BY ItemKept DEF IInv, SoundPage, SoundItem, ItemsOf
<1>2. SoundDialog(pending)'
  <2>1. PICK d : d = pending
    OBVIOUS
  <2>2. SoundDialog(d)'
    BY <2>1, DialogKept DEF IInv, SoundPage
  <2>3. QED
    BY <2>1, <2>2 DEF SoundDialog, SoundItem, ItemsOf
<1>3. QED
  BY <1>1, <1>2, RowTyped DEF IInv, SoundPage

LEMMA ChooseKeeps ==
  ASSUME IInv, Choose
  PROVE  IInv'
<1>1. UNCHANGED <<path, row, items, loading, error, task, sessions>>
  BY DEF Choose
<1>2. PICK target \in targetsFor(items) : pending' = [item |-> items, status |-> target]
  BY DEF Choose
<1>3. /\ items # Nothing /\ session # NoToken
      /\ target \in allowedTargets[path][items.status]
  BY <1>2 DEF targetsFor, CanAtLeast
<1>4. items \in ItemsOf /\ items.status \in DOMAIN Graphs[path]
  BY <1>3 DEF IInv, SoundPage, SoundItem, ItemsOf
<1>5. target \in DOMAIN Graphs[path]
  BY <1>3, <1>4, Mirrored, EdgesStay DEF IInv, SoundPage
<1>6. SoundDialog(pending)'
  BY <1>1, <1>2, <1>4, <1>5 DEF SoundDialog, SoundItem, ItemsOf, IInv, SoundPage
<1>7. SoundSessions' /\ AccountStep /\ RowStep
  BY <1>1, SessionsKept DEF IInv, RowStep
<1>8. SoundItem(items)'
  BY <1>1 DEF IInv, SoundPage, SoundItem, ItemsOf
<1>9. SoundPage'
  BY <1>1, <1>3, <1>6, <1>8, PageKept DEF IInv, SoundPage, sessions
<1>10. QED
  BY <1>1, <1>7, <1>9, TasksStay DEF IInv

LEMMA CancelKeeps ==
  ASSUME IInv, Cancel
  PROVE  IInv'
<1>1. UNCHANGED <<path, row, items, loading, error, task, sessions>> /\ pending' = Closed
  BY DEF Cancel
<1>2. SoundSessions' /\ AccountStep /\ RowStep
  BY <1>1, SessionsKept DEF IInv, RowStep
<1>3. SoundDialog(pending)' /\ SoundItem(items)'
  BY <1>1 DEF IInv, SoundPage, SoundItem, ItemsOf, SoundDialog
<1>4. SoundPage'
  BY <1>1, <1>3, PageKept DEF IInv, SoundPage
<1>5. QED
  BY <1>1, <1>2, <1>4, TasksStay DEF IInv

LEMMA OutsideKeeps ==
  ASSUME IInv, Outside
  PROVE  IInv'
<1>1. SoundSessions' /\ AccountStep /\ session' = session
  <2>1. CASE Elsewhere
    BY <2>1, ElsewhereKeeps DEF IInv, Elsewhere
  <2>2. CASE Tick
    BY <2>2, TickKeeps DEF IInv, Tick
  <2>3. CASE \E u \in Users : ChangeAccount(u)
    BY <2>3, ChangeKeeps DEF IInv, ChangeAccount
  <2>4. QED
    BY <2>1, <2>2, <2>3 DEF Outside
<1>2. UNCHANGED <<path, row, items, pending, loading, error, task>> /\ RowStep
  BY DEF Outside, RowStep
<1>3. SoundPage'
  BY <1>1, <1>2, CopiesStay, PageKept DEF IInv, SoundPage
<1>4. QED
  BY <1>1, <1>2, <1>3, TasksStay DEF IInv

LEMMA OthersKeep ==
  ASSUME IInv, OthersWrite
  PROVE  IInv'
<1>1. UNCHANGED <<path, items, pending, loading, error, task, sessions>> /\ row # Nothing
  BY DEF OthersWrite
<1>2. row \in ItemsOf
  BY <1>1 DEF IInv, SoundPage
<1>3. RowStep
  <2>1. CASE row' = [row EXCEPT !.version = @ + 1]
    BY <1>1, <1>2, <2>1 DEF RowStep, ItemsOf
  <2>2. CASE row' = Nothing
    BY <2>2 DEF RowStep
  <2>3. CASE row' \in {Moved(row, target) : target \in Graphs[path][row.status]}
    <3>1. PICK target \in Graphs[path][row.status] : row' = Moved(row, target)
      BY <2>3
    <3>2. CanTransition(Graphs[path], row.status, target)
      BY <1>2 DEF CanTransition, ItemsOf
    <3>3. QED
      BY <1>1, <3>1, <3>2, MovedItem DEF IInv, RowStep
  <2>4. QED
    BY <2>1, <2>2, <2>3 DEF OthersWrite
<1>4. SoundSessions' /\ AccountStep
  BY <1>1, SessionsKept DEF IInv
<1>5. SoundPage'
  BY <1>1, <1>3, CopiesStay DEF IInv, SoundPage, sessions
<1>6. QED
  BY <1>1, <1>3, <1>4, <1>5, TasksStay DEF IInv

(* A page that goes away takes its hands off its tasks, and no more.       *)
LEMMA MountedCleared ==
  ASSUME NEW s, SoundStage(s), s.at \notin {"new", "done"},
         NEW r, r = [s EXCEPT !.mounted = FALSE]
  PROVE  /\ SoundStage(r) /\ r.at = s.at
         /\ s.at = "answered" => r.ok = s.ok
         /\ s.at \in {"answered", "listing", "listed"} => r.from = s.from
<1>1. CASE s \in [at : {"posted", "lost"}, kind : {"move", "create"}, dialog : Dialogs,
                  expected : Nat, token : Tokens \cup {NoToken}, sent : Nat,
                  mounted : BOOLEAN]
  <2>1. r \in [at : {"posted", "lost"}, kind : {"move", "create"}, dialog : Dialogs,
               expected : Nat, token : Tokens \cup {NoToken}, sent : Nat,
               mounted : BOOLEAN]
    BY <1>1
  <2>2. /\ r.at = s.at /\ r.kind = s.kind /\ r.dialog = s.dialog
        /\ r.expected = s.expected /\ r.token = s.token
    BY <1>1
  <2>3. /\ SoundDialog(s.dialog) /\ SoundToken(s.token)
        /\ s.expected = s.dialog.item.version
        /\ s.kind = "move" <=> s.dialog # Closed
    BY <1>1, StageFields
  <2>4. QED
    BY <2>1, <2>2, <2>3 DEF SoundStage
<1>2. CASE /\ s \in [at : {"answered"}, from : Nat, ok : BOOLEAN, mounted : BOOLEAN]
           /\ s.ok => SoundFrom(s.from)
  <2>1. r \in [at : {"answered"}, from : Nat, ok : BOOLEAN, mounted : BOOLEAN]
    BY <1>2
  <2>2. r.at = s.at /\ r.from = s.from /\ r.ok = s.ok
    BY <1>2
  <2>3. QED
    BY <1>2, <2>1, <2>2 DEF SoundStage
<1>3. CASE /\ s \in [at : {"listing"}, from : Nat, token : Tokens \cup {NoToken},
                     sent : Nat, mounted : BOOLEAN]
           /\ SoundFrom(s.from)
  <2>1. r \in [at : {"listing"}, from : Nat, token : Tokens \cup {NoToken}, sent : Nat,
               mounted : BOOLEAN]
    BY <1>3
  <2>2. r.at = s.at /\ r.from = s.from
    BY <1>3
  <2>3. QED
    BY <1>3, <2>1, <2>2 DEF SoundStage
<1>4. CASE /\ s \in [at : {"listed"}, from : Nat, ok : BOOLEAN, found : Items,
                     mounted : BOOLEAN]
           /\ SoundFrom(s.from)
           /\ SoundItem(s.found)
           /\ s.ok /\ s.found # Nothing => s.from < s.found.version
  <2>1. r \in [at : {"listed"}, from : Nat, ok : BOOLEAN, found : Items, mounted : BOOLEAN]
    BY <1>4
  <2>2. r.at = s.at /\ r.from = s.from /\ r.ok = s.ok /\ r.found = s.found
    BY <1>4
  <2>3. QED
    BY <1>4, <2>1, <2>2 DEF SoundStage
<1>5. QED
  BY <1>1, <1>2, <1>3, <1>4 DEF SoundStage, New

LEMMA Unmounted ==
  ASSUME NEW s, SoundStage(s)
  PROVE  /\ SoundStage(Unmount(s)) /\ Unmount(s).at = s.at
         /\ s.at = "answered" => Unmount(s).ok = s.ok
         /\ s.at \in {"answered", "listing", "listed", "done"} => Unmount(s).from = s.from
<1>1. CASE s.at \in {"new", "done"}
  BY <1>1 DEF Unmount
<1>2. CASE s.at \notin {"new", "done"}
  BY <1>2, MountedCleared DEF Unmount
<1>3. QED
  BY <1>1, <1>2

LEMMA SignOutKeeps ==
  ASSUME IInv, NEW q \in Tasks, SignOut(q)
  PROVE  IInv'
<1>1. /\ UNCHANGED <<path, row, items>> /\ pending' = Closed /\ RowStep
      /\ loading' = TRUE /\ error' = FALSE
  BY DEF SignOut, RowStep
<1>2. SoundSessions' /\ AccountStep
  BY LogoutKeeps DEF SignOut, IInv
<1>3. SoundDialog(pending)' /\ SoundItem(items)'
  BY <1>1 DEF IInv, SoundPage, SoundItem, ItemsOf, SoundDialog
<1>4. SoundPage'
  BY <1>1, <1>3, PageKept DEF IInv, SoundPage
<1>5. PICK first : first = Listing(0, stored', FALSE)
  OBVIOUS
<1>6. /\ task'[q] = first
       /\ \A t \in Tasks : t # q => task'[t] = Unmount(task[t])
  BY <1>5 DEF SignOut
<1>7. first.at = "listing" /\ FromOf(first) = 0 /\ SoundStage(first)'
  <2>1. stored' = NoToken
    BY DEF SignOut, Logout
  <2>2. SoundFrom(0)'
    BY <1>1, PageSound DEF SoundFrom
  <2>3. QED
    BY <1>5, <2>1, <2>2, ClockRuns DEF Listing, FromOf, SoundStage
<1>8. \A t \in Tasks : SoundStage(task[t])'
  <2>1. TAKE t \in Tasks
  <2>2. CASE t = q
    BY <1>6, <1>7, <2>2 DEF SoundStage
  <2>3. CASE t # q
    <3>1. PICK s : s = Unmount(task[t])
      OBVIOUS
    <3>2. SoundStage(s)
      BY <3>1, TaskSound, Unmounted
    <3>3. SoundStage(s)'
      BY <1>1, <1>2, <3>2, StageKept DEF IInv
    <3>4. QED
      BY <1>6, <2>3, <3>1, <3>3 DEF SoundStage
  <2>4. QED
    BY <2>2, <2>3
<1>9. SoundTasks'
  BY <1>8 DEF SoundTasks, SignOut
<1>10. MovedFrom(q)' = 0 /\ \A t \in Tasks : t # q => MovedFrom(t)' = MovedFrom(t)
  <2>1. MovedFrom(q)' = 0
    BY <1>6, <1>7 DEF MovedFrom, FromOf
  <2>2. ASSUME NEW t \in Tasks, t # q
        PROVE  MovedFrom(t)' = MovedFrom(t)
    <3>1. SoundStage(task[t])
      BY TaskSound
    <3>2. task'[t] = Unmount(task[t])
      BY <1>6, <2>2
    <3>3. /\ Unmount(task[t]).at = task[t].at
          /\ task[t].at = "answered" => Unmount(task[t]).ok = task[t].ok
          /\ task[t].at \in {"answered", "listing", "listed", "done"} =>
               Unmount(task[t]).from = task[t].from
      BY <3>1, Unmounted
    <3>4. QED
      BY <3>1, <3>2, <3>3, StageFields DEF MovedFrom
  <2>3. QED
    BY <2>1, <2>2
<1>11. MovedOnce'
  BY <1>10 DEF IInv, MovedOnce
<1>12. SpinnerStops'
  BY <1>6, <1>7 DEF SpinnerStops, UnderWay
<1>13. QED
  BY <1>2, <1>4, <1>9, <1>11, <1>12 DEF IInv

LEMMA InitSound ==
  ASSUME Init
  PROVE  IInv
<1>1. SoundSessions
  <2>1. /\ clock \in 0 .. LastTime
        /\ account \in [Users -> [role : AllRoles, active : BOOLEAN, changed : 0 .. LastTime]]
        /\ \A u \in Users : account[u].changed <= clock /\ account[u].active
    BY SessionsAssumption DEF Init, SessionsInit
  <2>2. PICK u \in Users : stored = [user |-> u, role |-> Hired[u], read |-> 0, issued |-> 0]
    BY DEF Init, SessionsInit
  <2>3. stored \in Tokens /\ session = stored /\ clock = 0
    BY <2>2, SessionsAssumption DEF Init, SessionsInit, Tokens
  <2>4. account[u].active /\ account[u].role = Hired[u]
    BY DEF Init, SessionsInit
  <2>5. SoundToken(stored)
    BY <2>2, <2>3, <2>4 DEF SoundToken
  <2>6. QED
    BY <2>1, <2>3, <2>5 DEF SoundSessions
<1>2. SoundPage
  <2>1. PICK u \in Users : row = [status |-> InitialStatus(path), version |-> 1, preparedBy |-> u]
    BY DEF Init
  <2>2. path \in DOMAIN Graphs /\ row \in ItemsOf
    BY <2>1, FirstStatus DEF Init, ItemsOf
  <2>3. SoundItem(items)
    BY <2>2 DEF Init, SoundItem, ItemsOf
  <2>4. QED
    BY <2>2, <2>3 DEF Init, SoundPage, SoundDialog
<1>3. SoundTasks
  BY DEF Init, SoundTasks, SoundStage
<1>4. MovedOnce /\ SpinnerStops
  BY DEF Init, MovedOnce, MovedFrom, SpinnerStops, New
<1>5. QED
  BY <1>1, <1>2, <1>3, <1>4 DEF IInv

LEMMA NextSound ==
  ASSUME IInv, [Next]_vars
  PROVE  IInv'
<1>1. ASSUME NEW t \in Tasks, Click(t) \/ Serve(t) \/ Arrives(t)
      PROVE  IInv'
  <2>1. CASE Click(t)
    BY <2>1, LoadKeeps, ConfirmKeeps, CreateDemoKeeps, SignInKeeps, SignOutKeeps DEF Click
  <2>2. CASE Serve(t)
    BY <2>2, MoveKeeps, CreateKeeps, ListKeeps DEF Serve
  <2>3. CASE Arrives(t)
    BY <2>3, AcceptedKeeps, RefusedKeeps, ListArrivesKeeps, NetworkFailsKeeps DEF Arrives
  <2>4. QED
    BY <1>1, <2>1, <2>2, <2>3
<1>2. CASE Choose \/ Cancel \/ Outside \/ OthersWrite
  BY <1>2, ChooseKeeps, CancelKeeps, OutsideKeeps, OthersKeep
<1>3. CASE UNCHANGED vars
  <2>1. UNCHANGED <<path, row, items, pending, loading, error, task, sessions>>
    BY <1>3 DEF vars
  <2>2. SoundSessions' /\ AccountStep /\ RowStep
    BY <2>1, SessionsKept DEF IInv, RowStep
  <2>3. SoundPage'
    BY <2>1, <2>2, CopiesStay DEF IInv, SoundPage, sessions
  <2>4. QED
    BY <2>1, <2>2, <2>3, TasksStay DEF IInv
<1>4. QED
  BY <1>1, <1>2, <1>3 DEF Next

LEMMA Sound == Spec => []IInv
<1>1. Init => IInv
  BY InitSound
<1>2. IInv /\ [Next]_vars => IInv'
  BY NextSound
<1>3. QED
  BY <1>1, <1>2, PTL DEF Spec

-----------------------------------------------------------------------------
(* Invariants. *)

LEMMA TypesFollow ==
  ASSUME IInv
  PROVE  TypeOK
<1>1. \A i : SoundItem(i) => i \in Items
  BY Statused DEF IInv, SoundPage, SoundItem, ItemsOf, Items
<1>2. row \in Items /\ items \in Items
  BY <1>1, Statused DEF IInv, SoundPage, ItemsOf, Items
<1>3. pending \in Dialogs
  BY Statused, NothingType DEF IInv, SoundPage, SoundDialog, Dialogs, Items, ItemsOf
<1>4. task \in [Tasks -> TaskStates]
  <2>1. \A t \in Tasks : task[t] \in TaskStates
    BY TaskSound DEF SoundStage, TaskStates, SoundFrom
  <2>2. QED
    BY <2>1 DEF IInv, SoundTasks
<1>5. SessionsTypeOK
  BY DEF IInv, SoundSessions, SessionsTypeOK, SoundToken
<1>6. QED
  BY <1>2, <1>3, <1>4, <1>5 DEF TypeOK, IInv, SoundPage

(* Every variable of the page, its store and its sessions keeps its type,  *)
(* and a dialog is open only while the tab is logged in.                   *)
THEOREM TypeCorrect == Spec => []TypeOK
<1>1. IInv => TypeOK
  BY TypesFollow
<1>2. QED
  BY <1>1, Sound, PTL

(* The page keeps the other half of what EchoClients assumes: a version it *)
(* sends was shown, whatever answers came in whatever order.               *)
THEOREM VersionsWereShown == Spec => []EchoesShown
<1>1. IInv => EchoesShown
  <2>1. SUFFICES ASSUME IInv, NEW t \in Tasks, Sent(t, "move"), row # Nothing
                 PROVE  task[t].expected <= row.version
    BY DEF EchoesShown
  <2>2. /\ SoundDialog(task[t].dialog) /\ task[t].dialog # Closed
        /\ task[t].expected = task[t].dialog.item.version
    BY <2>1, TaskSound, StageFields DEF Sent
  <2>3. SoundItem(task[t].dialog.item) /\ task[t].dialog.item # Nothing
    BY <2>2, NothingType DEF SoundDialog
  <2>4. QED
    BY <2>1, <2>2, <2>3 DEF SoundItem
<1>2. QED
  BY <1>1, Sound, PTL

(* No two clicks move a record from the same version.                      *)
THEOREM ConfirmedOnce == Spec => []MovedOnce
<1>1. IInv => MovedOnce
  BY DEF IInv
<1>2. QED
  BY <1>1, Sound, PTL

(* The page's flag is on only while something is under way.                *)
THEOREM SpinnerIsDue == Spec => []SpinnerStops
<1>1. IInv => SpinnerStops
  BY DEF IInv
<1>2. QED
  BY <1>1, Sound, PTL

(* While the record is as shown, the buttons are the moves the server      *)
(* would accept from the user the tab shows.                               *)
THEOREM ButtonsAreRoutes == Spec => []ButtonsMatchRoutes
<1>1. IInv => ButtonsMatchRoutes
  <2>1. SUFFICES ASSUME IInv, row # Nothing, items.version = row.version,
                        Authentic(session, clock)
                 PROVE  targetsFor(items)
                          = {s \in Statuses : MoveVerdict(session, clock, row.version, s) = "ok"}
    BY DEF ButtonsMatchRoutes
  <2>2. row \in ItemsOf /\ path \in DOMAIN Graphs
    BY <2>1 DEF IInv, SoundPage
  <2>3. items = row
    BY <2>1, <2>2, NothingType DEF IInv, SoundPage, SoundItem, ItemsOf
  <2>4. session # NoToken /\ session.role \in AllRoles
    BY <2>1 DEF Authentic, IInv, SoundSessions, SoundToken, Tokens
  <2>5. row.status \in DOMAIN Graphs[path]
    BY <2>2 DEF ItemsOf
  <2>6. /\ allowedTargets[path][row.status] = Graphs[path][row.status]
        /\ Graphs[path][row.status] \subseteq Statuses
    BY <2>2, <2>5, Mirrored, EdgesStay, Statused
  <2>7. CanAtLeast("operator") <=> RequireMinimumRole(session.role, "operator")
    BY <2>4 DEF CanAtLeast
  <2>8. CanAtLeast("reviewer") <=>
          /\ RequireMinimumRole(session.role, "operator")
          /\ RequireRoles(session.role, {"reviewer", "admin"})
    BY <2>4 DEF CanAtLeast, RequireMinimumRole, RequireRoles, AllRoles, roleRank
  <2>9. \A s : MoveVerdict(session, clock, row.version, s) = "ok" <=>
          /\ IF path = "decision" THEN CanAtLeast("reviewer") /\ row.preparedBy # session.user
             ELSE CanAtLeast("operator")
          /\ s \in Graphs[path][row.status]
    BY <2>1, <2>5, <2>7, <2>8, VerdictOk DEF CanTransition
  <2>10. QED
    BY <2>1, <2>3, <2>6, <2>9 DEF targetsFor
<1>2. QED
  BY <1>1, Sound, PTL

-----------------------------------------------------------------------------
(* Steps. *)

(* The record changes by a move the server makes, or by others.            *)
LEMMA RowChanges ==
  ASSUME [Next]_vars, row' # row
  PROVE  OthersWrite \/ \E u \in Tasks : Move(u) /\ \E arrived : Made(u, arrived)
<1>1. ASSUME NEW u \in Tasks, Click(u) \/ Serve(u) \/ Arrives(u)
      PROVE  Move(u) /\ \E arrived : Made(u, arrived)
  <2>1. ~Click(u)
    BY DEF Click, Load, Confirm, CreateDemo, SignIn, SignOut
  <2>2. ~Arrives(u)
    BY DEF Arrives, Accepted, Refused, ListArrives, NetworkFails
  <2>3. ~Create(u) /\ ~List(u)
    BY DEF Create, List
  <2>4. QED
    BY <1>1, <2>1, <2>2, <2>3 DEF Serve, Move, Made
<1>2. ~(Choose \/ Cancel \/ Outside)
  BY DEF Choose, Cancel, Outside
<1>3. QED
  BY <1>1, <1>2 DEF Next, vars

LEMMA HandledByMove ==
  ASSUME IInv, [Next]_vars, NEW t \in Tasks, Handled(t), row' # row
  PROVE  \E arrived : Made(t, arrived)
<1>1. task'[t] # task[t]
  BY DEF Handled, Sent
<1>2. ~OthersWrite
  BY <1>1 DEF OthersWrite
<1>3. PICK u \in Tasks : Move(u) /\ \E arrived : Made(u, arrived)
  BY <1>2, RowChanges
<1>4. u = t
  BY <1>1, <1>3 DEF Move, Answer, IInv, SoundTasks
<1>5. QED
  BY <1>3, <1>4

(* A confirmed move takes the record from the status the user saw to the   *)
(* one the dialog named, or does nothing.                                  *)
THEOREM ConfirmedAsShown == Spec => MovesAsShown
<1>1. IInv /\ [Next]_vars =>
        [\A t \in Tasks : Handled(t) /\ row' # row =>
           /\ row.status = task[t].dialog.item.status
           /\ row'.status = task[t].dialog.status]_vars
  BY HandledByMove, MoveMade DEF Handled
<1>2. QED
  BY <1>1, Sound, PTL DEF Spec, MovesAsShown

(* A change takes effect with the authority its user has, or had when it   *)
(* was asked for, but for the lifetime of a token and the time of a login. *)
THEOREM AuthorityStaysRecent == Spec => AuthorityIsRecent
<1>1. ASSUME IInv, [Next]_vars, NEW t \in Tasks, Handled(t), row' # row
      PROVE  Current(task[t].token, task[t].sent)
  <2>1. PICK arrived \in ArrivalTimes(t) : Authentic(task[t].token, arrived)
    BY <1>1, HandledByMove, VerdictOk DEF Made
  <2>2. SoundToken(task[t].token) /\ task[t].token # NoToken /\ task[t].sent \in Nat
    BY <1>1, <2>1, TaskSound, StageFields DEF Handled, Sent, Authentic
  <2>3. PICK k, sent : k = task[t].token /\ sent = task[t].sent
    OBVIOUS
  <2>4. /\ k \in Tokens
        /\ arrived < k.issued + TTL
        /\ \/ account[k.user].active /\ account[k.user].role = k.role
           \/ k.read <= account[k.user].changed
    BY <2>1, <2>2, <2>3 DEF SoundToken, Authentic
  <2>5. /\ k.issued \in Nat /\ k.read \in Nat /\ TTL \in Nat
        /\ account[k.user].changed \in Nat /\ clock \in Nat
    BY <1>1, <2>4, SessionsAssumption DEF Tokens, IInv, SoundSessions
  <2>6. sent \in Nat /\ arrived \in Nat /\ sent <= arrived
    BY <2>1, <2>2, <2>3, <2>5 DEF ArrivalTimes
  <2>7. Current(k, sent)
    <3>1. CASE account[k.user].active /\ account[k.user].role = k.role
      BY <3>1 DEF Current
    <3>2. CASE k.read <= account[k.user].changed
      <4> DEFINE changed == account[k.user].changed
                 read == k.read
                 issued == k.issued
      <4>1. /\ changed \in Nat /\ read \in Nat /\ issued \in Nat
            /\ read <= changed /\ arrived < issued + TTL
        BY <2>4, <2>5, <3>2
      <4>2. sent < changed + TTL + (issued - read)
        <5> HIDE DEF changed, read, issued
        <5> QED
          BY <2>5, <2>6, <4>1
      <4>3. QED
        BY <4>2 DEF Current
    <3>3. QED
      BY <2>4, <3>1, <3>2
  <2>8. QED
    BY <2>3, <2>7
<1>2. IInv /\ [Next]_vars =>
        [\A t \in Tasks :
           Handled(t) /\ row' # row => Current(task[t].token, task[t].sent)]_vars
  BY <1>1
<1>3. QED
  BY <1>2, Sound, PTL DEF Spec, AuthorityIsRecent

LEMMA SignOutKeepsStages ==
  ASSUME IInv, NEW q \in Tasks, SignOut(q), NEW t \in Tasks, UnderWay(t)
  PROVE  task'[t].at = task[t].at
<1>1. SoundStage(task[t]) /\ t # q
  BY TaskSound DEF UnderWay, SignOut, New
<1>2. task'[t] = Unmount(task[t])
  BY <1>1 DEF SignOut
<1>3. QED
  BY <1>1, <1>2, Unmounted

(* When the end of a move closes a dialog, whichever it is, the list under *)
(* it is of a later version than the one that was moved, or there is an    *)
(* error.                                                                  *)
THEOREM MovesEndOnNews == Spec => MoveEndsOnNews
<1>1. ASSUME IInv, [Next]_vars, NEW t \in Tasks,
             UnderWay(t), task'[t].at # task[t].at, pending # pending', ~error'
      PROVE  items' = Nothing \/ items'.version > task[t].from
  <2>1. ~(Choose \/ Cancel \/ Outside \/ OthersWrite)
    BY <1>1 DEF Choose, Cancel, Outside, OthersWrite
  <2>2. PICK u \in Tasks : Click(u) \/ Serve(u) \/ Arrives(u)
    BY <1>1, <2>1 DEF Next, vars
  <2>3. ~Click(u) /\ ~Serve(u)
    BY <1>1, SignOutKeepsStages
       DEF Click, Load, Confirm, CreateDemo, SignIn, Serve, Move, Create, List
  <2>4. ~Accepted(u) /\ ~Refused(u) /\ ~NetworkFails(u)
    BY <1>1 DEF Accepted, Refused, NetworkFails, Fails
  <2>5. ListArrives(u)
    BY <2>2, <2>3, <2>4 DEF Arrives
  <2>6. u = t
    BY <1>1, <2>5 DEF ListArrives, IInv, SoundTasks
  <2>7. task[t].at = "listed" /\ task[t].ok /\ items' = task[t].found
    BY <1>1, <2>5, <2>6 DEF ListArrives, Fails
  <2>8. SoundFrom(task[t].from) /\ SoundItem(task[t].found)
          /\ (task[t].found # Nothing => task[t].from < task[t].found.version)
    BY <1>1, <2>7, TaskSound, StageFields
  <2>9. QED
    BY <2>7, <2>8 DEF SoundItem, SoundFrom, ItemsOf
<1>2. IInv /\ [Next]_vars =>
        [\A t \in Tasks :
           UnderWay(t) /\ task'[t].at # task[t].at /\ pending # pending' /\ ~error' =>
             items' = Nothing \/ items'.version > task[t].from]_vars
  BY <1>1
<1>3. QED
  BY <1>2, Sound, PTL DEF Spec, MoveEndsOnNews
=============================================================================
