------------------------------ MODULE ReadsProofs -----------------------------
(***************************************************************************)
(* What answers of several statements say while others write, for any      *)
(* number of rows and writes, any page size and any times.                 *)
(***************************************************************************)
EXTENDS Reads, FiniteSetTheorems, FunctionTheorems, TLAPS

DomainRow ==
  [stamp : Times, live : BOOLEAN, matches : BOOLEAN, version : 1 .. LastVersion,
   revisions : SUBSET (1 .. LastVersion)]

Entry ==
  [stamp : Times, live : {TRUE}, matches : {TRUE},
   actor : Actors, action : Actions, entity : EntityTypes]

RowOf(kind) == IF kind \in Domain THEN DomainRow ELSE Entry

(* A client that turns the pages of a listing. *)
Listers ==
  {r \in [kind : Kinds \ {"summary"}, page : Nat \ {0}, asked : Nat \ {0}, size : 1 .. MaxSize] :
     r.size <= r.asked}

(* The question, and the rows it is about.                                 *)
Asking ==
  /\ reader \in Listers \cup [kind : {"summary"}, since : Times]
  /\ rows \in Seq(RowOf(reader.kind))

(* What the statements of a listing have returned so far.                  *)
ListingAnswer ==
  Listing =>
    /\ at >= 1 => answer["count"] \in Nat
    /\ at >= 2 =>
         /\ DOMAIN answer["find"] \subseteq DOMAIN rows
         /\ IsFiniteSet(DOMAIN answer["find"])
         /\ Cardinality(DOMAIN answer["find"]) <= reader.size

(* The number of statements. *)
Length(kind) == IF kind = "summary" THEN 5 ELSE IF kind = "decision" THEN 3 ELSE 2

Account ==
  /\ at \in 0 .. Length(reader.kind)
  /\ DOMAIN answer = {Plan(reader.kind)[n] : n \in 1 .. at}
  /\ seen \subseteq DOMAIN rows
  /\ unchanged \subseteq Selected(rows)
  /\ slipped \in Nat
  /\ entered \in Nat

Typed == Asking /\ Account /\ ListingAnswer

-----------------------------------------------------------------------------

LEMMA Constants ==
  /\ LastTime \in Nat /\ LastId \in Nat /\ LastVersion \in Nat /\ LastVersion >= 1
  /\ MaxSize \in Nat /\ DefaultSize \in 1 .. MaxSize
  /\ 1 \in 1 .. LastVersion
BY ReadsAssumption

LEMMA Plans ==
  ASSUME NEW kind \in Kinds
  PROVE  /\ kind \in {"record", "audit"} => Plan(kind) = <<"count", "find">>
         /\ kind = "decision" => Plan(kind) = <<"count", "find", "revisions">>
         /\ kind = "summary" =>
              Plan(kind) = <<"total", "transitions", "actors", "actions", "entities">>
BY DEF Kinds, Plan

LEMMA PlanLengths ==
  ASSUME NEW kind \in Kinds
  PROVE  Len(Plan(kind)) = Length(kind)
BY Plans DEF Kinds, Length

(* The statements by their number. *)
LEMMA Statements ==
  ASSUME NEW kind \in Kinds
  PROVE  /\ kind # "summary" => Plan(kind)[1] = "count" /\ Plan(kind)[2] = "find"
         /\ kind = "decision" => Plan(kind)[3] = "revisions"
         /\ kind = "summary" =>
              /\ Plan(kind)[1] = "total" /\ Plan(kind)[2] = "transitions"
              /\ Plan(kind)[3] = "actors" /\ Plan(kind)[4] = "actions"
              /\ Plan(kind)[5] = "entities"
BY Plans DEF Kinds

LEMMA RowsFinite ==
  ASSUME NEW S, NEW t \in Seq(S), NEW T \in SUBSET DOMAIN t
  PROVE  IsFiniteSet(T) /\ Cardinality(T) \in Nat
<1>1. DOMAIN t = 1 .. Len(t) /\ Len(t) \in Nat
  OBVIOUS
<1>2. IsFiniteSet(DOMAIN t)
  BY <1>1, FS_Interval
<1> QED BY <1>2, FS_Subset, FS_CardinalityType

LEMMA SelectedRows ==
  ASSUME Asking
  PROVE  /\ Selected(rows) \subseteq DOMAIN rows
         /\ IsFiniteSet(Selected(rows)) /\ Cardinality(Selected(rows)) \in Nat
<1>1. Selected(rows) \in SUBSET DOMAIN rows
  BY DEF Selected
<1> QED BY <1>1, RowsFinite DEF Asking

LEMMA RowFields ==
  ASSUME Asking, NEW i \in DOMAIN rows
  PROVE  /\ i \in Nat \ {0}
         /\ rows[i] \in RowOf(reader.kind)
         /\ rows[i].stamp \in Times /\ rows[i].stamp \in Nat
<1>1. i \in Nat \ {0} /\ rows[i] \in RowOf(reader.kind)
  BY DEF Asking
<1>2. rows[i] \in DomainRow \/ rows[i] \in Entry
  BY <1>1 DEF RowOf
<1>3. rows[i].stamp \in Times
  BY <1>2 DEF DomainRow, Entry
<1> QED BY <1>1, <1>3, Constants DEF Times

LEMMA NewEntries ==
  ASSUME NEW s \in Times, NEW a \in Actors, NEW c \in Actions, NEW e \in EntityTypes
  PROVE  NewEntry(s, a, c, e) \in Entry
BY DEF NewEntry, Entry

LEMMA NewRows ==
  ASSUME NEW kind \in Kinds, NEW row \in Rows(kind)
  PROVE  /\ row \in RowOf(kind)
         /\ kind \in Domain => row.version = 1 /\ row.revisions = {1}
<1>1. CASE kind \in Domain
  <2>0. Rows(kind) = {NewRow(s, m) : s \in Times, m \in BOOLEAN}
    BY <1>1 DEF Rows, Domain
  <2>1. PICK s \in Times : \E m \in BOOLEAN : row = NewRow(s, m)
    BY <2>0
  <2>2. row.version = 1 /\ row.revisions = {1}
    BY <2>1 DEF NewRow
  <2>3. row \in DomainRow
    BY <2>1, Constants DEF NewRow, DomainRow
  <2> QED BY <1>1, <2>2, <2>3 DEF RowOf
<1>2. CASE kind = "audit"
  <2>1. PICK a \in Actors, e \in EntityTypes :
          a = (CHOOSE b \in Actors : TRUE) /\ e = (CHOOSE f \in EntityTypes : TRUE)
    BY ReadsAssumption
  <2>2. Rows(kind) = {NewEntry(s, a, "transition", e) : s \in Times}
    BY <1>2, <2>1 DEF Rows, Domain
  <2>3. row \in Entry
    BY <2>2, NewEntries, ReadsAssumption
  <2> QED BY <1>2, <2>3 DEF RowOf, Domain
<1>3. CASE kind = "summary"
  <2>1. Rows(kind) = {NewEntry(s, a, c, e) : s \in Times, a \in Actors, c \in Actions,
                                             e \in EntityTypes}
    BY <1>3 DEF Rows, Domain
  <2>2. row \in Entry
    BY <2>1, NewEntries
  <2> QED BY <1>3, <2>2 DEF RowOf, Domain
<1> QED BY <1>1, <1>2, <1>3 DEF Kinds, Domain

LEMMA Sizes ==
  ASSUME NEW size \in Nat \ {0}
  PROVE  /\ normalizePageSize(bindPageSize(size)) \in 1 .. MaxSize
         /\ normalizePageSize(bindPageSize(size)) <= size
<1>1. CASE size > MaxSize
  <2>1. bindPageSize(size) = DefaultSize
    BY <1>1, Constants DEF bindPageSize
  <2> QED BY <1>1, <2>1, Constants DEF normalizePageSize
<1>2. CASE size <= MaxSize
  <2>1. bindPageSize(size) = size
    BY <1>2, Constants DEF bindPageSize
  <2> QED BY <1>2, <2>1, Constants DEF normalizePageSize
<1> QED BY <1>1, <1>2, Constants

-----------------------------------------------------------------------------
(* The writers. *)

(* What an insert, a write and a delete have in common: one row is another *)
(* or new.                                                                 *)
Wrote(w) ==
  /\ w \in DOMAIN rows' /\ DOMAIN rows' = DOMAIN rows \cup {w}
  /\ rows' \in Seq(RowOf(reader.kind))
  /\ \A j \in DOMAIN rows \ {w} : rows'[j] = rows[j]
  /\ w \in DOMAIN rows =>
       /\ reader.kind \in Domain
       /\ \/ rows'[w].version = rows[w].version /\ rows'[w].revisions = rows[w].revisions
          \/ /\ rows'[w].version = rows[w].version + 1
             /\ rows'[w].revisions = rows[w].revisions \cup {rows[w].version + 1}
  /\ w \notin DOMAIN rows /\ reader.kind \in Domain =>
       rows'[w].version = 1 /\ rows'[w].revisions = {1}
  /\ Noticed(w)

LEMMA InsertWrote ==
  ASSUME Asking, Insert
  PROVE  \E w : Wrote(w)
<1>1. PICK new \in Rows(reader.kind) : rows' = Append(rows, new)
  BY DEF Insert
<1>2. reader.kind \in Kinds
  BY DEF Asking, Kinds, Listers
<1>3. new \in RowOf(reader.kind) /\ (reader.kind \in Domain => new.version = 1 /\ new.revisions = {1})
  BY <1>1, <1>2, NewRows
<1>4. PICK S : S = RowOf(reader.kind)
  OBVIOUS
<1>5. rows \in Seq(S) /\ new \in S
  BY <1>3, <1>4 DEF Asking
<1>6. /\ rows' \in Seq(S) /\ Len(rows') = Len(rows) + 1
      /\ DOMAIN rows' = DOMAIN rows \cup {Len(rows')}
      /\ Len(rows') \in DOMAIN rows' /\ Len(rows') \notin DOMAIN rows
      /\ rows'[Len(rows')] = new
      /\ \A j \in DOMAIN rows : rows'[j] = rows[j]
  BY <1>1, <1>5
<1>7. Noticed(Len(rows'))
  BY DEF Insert
<1>8. PICK w : w = Len(rows')
  OBVIOUS
<1>9. Wrote(w)
  BY <1>3, <1>4, <1>6, <1>7, <1>8 DEF Wrote, Noticed
<1> QED BY <1>9

LEMMA WriteWrote ==
  ASSUME Asking, NEW i \in DOMAIN rows, Write(i)
  PROVE  Wrote(i)
<1>1. PICK stamp \in Times, matches \in BOOLEAN :
        rows' = [rows EXCEPT ![i] = Rewritten(rows[i], stamp, matches)]
  BY DEF Write
<1>2. /\ rows[i] \in DomainRow /\ reader.kind \in Domain /\ rows[i].version < LastVersion
      /\ rows \in Seq(DomainRow)
  BY RowFields DEF Write, RowOf, Asking
<1> DEFINE row == Rewritten(rows[i], stamp, matches)
<1>3. /\ rows[i].version + 1 \in 1 .. LastVersion
      /\ rows[i].revisions \cup {rows[i].version + 1} \in SUBSET (1 .. LastVersion)
      /\ rows[i].live \in BOOLEAN
  BY <1>2, Constants DEF DomainRow
<1>4. /\ row \in DomainRow
      /\ row.version = rows[i].version + 1
      /\ row.revisions = rows[i].revisions \cup {rows[i].version + 1}
  BY <1>1, <1>3 DEF DomainRow, Rewritten
<1> HIDE DEF row
<1>5. /\ rows' \in Seq(DomainRow) /\ DOMAIN rows' = DOMAIN rows /\ rows'[i] = row
      /\ \A j \in DOMAIN rows \ {i} : rows'[j] = rows[j]
  BY <1>1, <1>2, <1>4 DEF row
<1>6. RowOf(reader.kind) = DomainRow /\ Noticed(i)
  BY <1>2 DEF RowOf, Write
<1> QED BY <1>2, <1>4, <1>5, <1>6 DEF Wrote

LEMMA DeleteWrote ==
  ASSUME Asking, NEW i \in DOMAIN rows, Delete(i)
  PROVE  Wrote(i)
<1>1. rows[i] \in DomainRow /\ reader.kind \in Domain /\ rows \in Seq(DomainRow)
  BY RowFields DEF Delete, RowOf, Asking
<1> DEFINE row == [rows[i] EXCEPT !.live = FALSE]
<1>2. /\ row \in DomainRow /\ row.version = rows[i].version
      /\ row.revisions = rows[i].revisions
  BY <1>1 DEF DomainRow
<1>3. rows' = [rows EXCEPT ![i] = row]
  BY DEF Delete
<1> HIDE DEF row
<1>4. /\ rows' \in Seq(DomainRow) /\ DOMAIN rows' = DOMAIN rows /\ rows'[i] = row
      /\ \A j \in DOMAIN rows \ {i} : rows'[j] = rows[j]
  BY <1>1, <1>2, <1>3
<1>5. RowOf(reader.kind) = DomainRow /\ Noticed(i)
  BY <1>1 DEF RowOf, Delete
<1>6. rows'[i].version = rows[i].version /\ rows'[i].revisions = rows[i].revisions
  BY <1>2, <1>4
<1>7. /\ i \in DOMAIN rows' /\ DOMAIN rows' = DOMAIN rows \cup {i}
      /\ rows' \in Seq(RowOf(reader.kind))
  BY <1>4, <1>5
<1> QED BY <1>1, <1>4, <1>5, <1>6, <1>7 DEF Wrote

(* Every step of the others is a write of some row. *)
LEMMA Writers ==
  ASSUME Asking, Insert \/ (\E i \in DOMAIN rows : Write(i) \/ Delete(i))
  PROVE  \E w : Wrote(w)
BY InsertWrote, WriteWrote, DeleteWrote

(* The rows that leave the selection, or sink in it. *)
Slipping ==
  (Selected(rows) \ Selected(rows'))
    \cup {j \in Selected(rows) \cap Selected(rows') : rows'[j].stamp < rows[j].stamp}

LEMMA SlippingCounted ==
  ASSUME Asking, NEW w, Wrote(w)
  PROVE  /\ slipped' = slipped + Cardinality(Slipping)
         /\ IsFiniteSet(Slipping) /\ Cardinality(Slipping) \in Nat
         /\ Slipping \subseteq {w}
<1>1. slipped' = slipped + Cardinality(Slipping)
  BY DEF Wrote, Noticed, Slipping
<1>2. Slipping \in SUBSET DOMAIN rows
  BY DEF Slipping, Selected
<1>3. Slipping \subseteq {w}
  <2> SUFFICES ASSUME NEW j \in Slipping, j # w PROVE FALSE
    OBVIOUS
  <2>1. j \in DOMAIN rows /\ rows[j].stamp \in Nat
    BY <1>2, RowFields
  <2>2. rows'[j] = rows[j] /\ j \in DOMAIN rows'
    BY <2>1 DEF Wrote
  <2> QED BY <2>1, <2>2 DEF Slipping, Selected
<1> QED BY <1>1, <1>2, <1>3, RowsFinite DEF Asking

LEMMA WroteTyped ==
  ASSUME Typed, NEW w, Wrote(w)
  PROVE  Typed'
<1>1. UNCHANGED <<reader, at, answer, seen>>
  BY DEF Wrote, Noticed
<1>2. Asking'
  BY <1>1 DEF Typed, Asking, Wrote
<1>3. DOMAIN rows \subseteq DOMAIN rows'
  BY DEF Wrote
<1>4. ListingAnswer'
  BY <1>1, <1>3 DEF Typed, ListingAnswer, Listing
<1>5. unchanged' \subseteq Selected(rows')
  BY DEF Wrote, Noticed, Typed, Account, Selected
<1>6. Cardinality(Selected(rows') \ Selected(rows)) \in Nat
  <2>1. Selected(rows') \ Selected(rows) \in SUBSET DOMAIN rows'
    BY DEF Selected
  <2>2. PICK S : rows' \in Seq(S)
    BY DEF Wrote
  <2> QED BY <2>1, <2>2, RowsFinite
<1>7. slipped' \in Nat /\ entered' \in Nat
  <2>1. slipped' \in Nat
    BY SlippingCounted DEF Typed, Account
  <2> QED BY <2>1, <1>6 DEF Wrote, Noticed, Typed, Account
<1> QED BY <1>1, <1>2, <1>3, <1>4, <1>5, <1>7 DEF Typed, Account

-----------------------------------------------------------------------------
(* The statements. *)

LEMMA Question ==
  ASSUME Asking
  PROVE  /\ reader.kind \in Kinds
         /\ Listing => /\ reader.page \in Nat \ {0} /\ reader.size \in 1 .. MaxSize
                       /\ reader.size \in Nat \ {0}
                       /\ reader.asked \in Nat \ {0} /\ reader.size <= reader.asked
         /\ ~Listing => reader.since \in Times
<1>1. CASE reader \in Listers
  BY <1>1, Constants DEF Listing, Listers
<1>2. CASE reader \in [kind : {"summary"}, since : Times]
  BY <1>2 DEF Listing, Kinds
<1> QED BY <1>1, <1>2 DEF Asking

(* A query answers the next statement and keeps the other answers. *)
LEMMA QueryAnswers ==
  ASSUME Typed, Query, NEW st, st = Plan(reader.kind)[at + 1]
  PROVE  /\ at' = at + 1 /\ at \in Nat /\ at < Length(reader.kind)
         /\ UNCHANGED <<rows, reader, seen, unchanged, slipped, entered>>
         /\ answer'[st] \in Returned(st)
         /\ DOMAIN answer' = DOMAIN answer \cup {st}
         /\ \A s \in DOMAIN answer \ {st} : answer'[s] = answer[s]
<1>1. at \in Nat /\ at < Length(reader.kind)
  <2>1. Len(Plan(reader.kind)) = Length(reader.kind)
    BY Question, PlanLengths DEF Typed
  <2>2. at # Length(reader.kind)
    BY <2>1 DEF Query, Answered
  <2> QED BY <2>2 DEF Typed, Account, Length
<1>2. PICK result \in Returned(st) :
        answer' = [s \in DOMAIN answer \cup {st} |-> IF s = st THEN result ELSE answer[s]]
  BY DEF Query
<1> QED BY <1>1, <1>2 DEF Query

LEMMA OrderedOnce ==
  ASSUME Asking, NEW s \in Orders, NEW N, N = Cardinality(Selected(rows))
  PROVE  /\ N \in Nat /\ DOMAIN s = 1 .. N
         /\ \A n \in 1 .. N : s[n] \in Selected(rows)
         /\ \A m, n \in 1 .. N : m # n => s[m] # s[n]
         /\ \A i \in Selected(rows) : \E n \in 1 .. N : s[n] = i
         /\ \A m, n \in 1 .. N : m < n => Before(s[m], s[n])
<1> DEFINE S == Selected(rows)
<1>1. N \in Nat /\ IsFiniteSet(S)
  BY SelectedRows
<1>2. /\ s \in [1 .. N -> S] /\ \A m, n \in 1 .. N : m # n => s[m] # s[n]
      /\ \A m \in DOMAIN s, n \in DOMAIN s : m < n => Before(s[m], s[n])
  BY DEF Orders, SetToSeqs
<1> HIDE DEF S
<1>3. s \in Injection(1 .. N, S)
  BY <1>2 DEF Injection, IsInjective
<1>4. N = Cardinality(S) /\ Cardinality(1 .. N) = N
  BY <1>1, FS_Interval DEF S
<1>5. s \in Surjection(1 .. N, S)
  BY <1>1, <1>3, <1>4, FS_Injection
<1>6. \A i \in S : \E n \in 1 .. N : s[n] = i
  BY <1>5 DEF Surjection
<1> QED BY <1>1, <1>2, <1>6 DEF S

(* A page is a part of the selection, no larger than its size. *)
LEMMA PageFacts ==
  ASSUME Asking, Listing, NEW s \in Orders
  PROVE  /\ PageOf(s) \subseteq Selected(rows)
         /\ IsFiniteSet(PageOf(s)) /\ Cardinality(PageOf(s)) <= reader.size
<1> DEFINE N == Cardinality(Selected(rows))
           p == reader.page
           z == reader.size
           D == DOMAIN s \cap ((p - 1) * z + 1 .. p * z)
<1> HIDE DEF N, p, z
<1>1. /\ N \in Nat /\ DOMAIN s = 1 .. N
      /\ \A n \in 1 .. N : s[n] \in Selected(rows)
  BY OrderedOnce DEF N
<1>2. p \in Nat \ {0} /\ z \in Nat \ {0}
  BY Question DEF p, z
<1>3. PageOf(s) = {s[n] : n \in D}
  BY DEF PageOf, p, z
<1>4. /\ IsFiniteSet((p - 1) * z + 1 .. p * z)
      /\ Cardinality((p - 1) * z + 1 .. p * z) = z
  <2>1. p * z = (p - 1) * z + z /\ (p - 1) * z \in Nat
    BY <1>2
  <2>2. PICK a \in Nat : a = (p - 1) * z
    BY <2>1
  <2>3. p * z = a + z
    BY <2>1, <2>2
  <2>4. IsFiniteSet(a + 1 .. a + z) /\ Cardinality(a + 1 .. a + z) = z
    BY <1>2, FS_Interval
  <2> QED BY <2>2, <2>3, <2>4
<1>5. IsFiniteSet(D) /\ Cardinality(D) <= z /\ Cardinality(D) \in Nat
  <2> DEFINE places == (p - 1) * z + 1 .. p * z
  <2>1. D \in SUBSET places
    OBVIOUS
  <2>2. IsFiniteSet(places) /\ Cardinality(places) = z
    BY <1>4
  <2> HIDE DEF D, places
  <2>3. IsFiniteSet(D) /\ Cardinality(D) <= z
    BY <2>1, <2>2, FS_Subset
  <2> QED BY <2>3, FS_CardinalityType
<1> DEFINE f == [n \in D |-> s[n]]
<1>6. f \in Surjection(D, PageOf(s))
  BY <1>3 DEF Surjection
<1>7. IsFiniteSet(PageOf(s)) /\ Cardinality(PageOf(s)) <= Cardinality(D)
  BY <1>5, <1>6, FS_Surjection
<1>8. Cardinality(PageOf(s)) <= z
  BY <1>5, <1>7, FS_CardinalityType, <1>2
<1>9. PageOf(s) \subseteq Selected(rows)
  BY <1>1, <1>3
<1> QED BY <1>7, <1>8, <1>9 DEF z

(* What the statements of a listing return. *)
LEMMA Returns ==
  /\ Returned("count") = {Cardinality(Selected(rows))}
  /\ Returned("find") = {[i \in PageOf(s) |-> rows[i]] : s \in Orders}
  /\ Returned("revisions") = {[i \in DOMAIN rows |-> rows[i].revisions]}
  /\ Returned("total") = {Cardinality(Window)}
  /\ Returned("transitions") = {Cardinality({i \in Window : rows[i].action = "transition"})}
  /\ Returned("actors") = {Cardinality({rows[i].actor : i \in Window})}
  /\ Returned("actions") = {GroupBy("action", Actions)}
  /\ Returned("entities") = {GroupBy("entity", EntityTypes)}
BY DEF Returned

LEMMA QueryTyped ==
  ASSUME Typed, Query
  PROVE  Typed'
<1> DEFINE kind == reader.kind
           st == Plan(kind)[at + 1]
<1> HIDE DEF st
<1>1. /\ at' = at + 1 /\ at \in Nat /\ at < Length(kind)
      /\ UNCHANGED <<rows, reader, seen, unchanged, slipped, entered>>
      /\ answer'[st] \in Returned(st)
      /\ DOMAIN answer' = DOMAIN answer \cup {st}
      /\ \A s \in DOMAIN answer \ {st} : answer'[s] = answer[s]
  BY QueryAnswers DEF st
<1>2. Asking'
  BY <1>1 DEF Typed, Asking
<1>3. kind \in Kinds
  BY Question DEF Typed
<1>4. Account'
  <2>1. 1 .. at + 1 = 1 .. at \cup {at + 1}
    BY <1>1
  <2>2. DOMAIN answer' = {Plan(kind)[n] : n \in 1 .. at + 1}
    BY <1>1, <2>1 DEF Typed, Account, st
  <2>3. /\ at' \in 0 .. Length(reader'.kind)
        /\ DOMAIN answer' = {Plan(reader'.kind)[n] : n \in 1 .. at'}
    BY <1>1, <1>3, <2>2 DEF Length
  <2>4. unchanged' \subseteq Selected(rows')
    BY <1>1 DEF Typed, Account, Selected
  <2> QED BY <1>1, <2>3, <2>4 DEF Typed, Account
<1>5. ListingAnswer'
  <2> SUFFICES ASSUME Listing PROVE ListingAnswer'
    BY <1>1 DEF ListingAnswer, Listing
  <2>0. Plan(kind)[1] = "count" /\ Plan(kind)[2] = "find" /\ kind # "summary"
    BY <1>3, Statements DEF Listing
  <2>1. CASE at = 0
    <3>1. st = "count"
      BY <2>0, <2>1 DEF st
    <3>2. answer'["count"] \in Nat
      BY <1>1, <3>1, Returns, SelectedRows DEF Typed
    <3> QED BY <3>2, <2>1, <1>1 DEF ListingAnswer
  <2>2. CASE at = 1
    <3>1. st = "find" /\ "count" \in DOMAIN answer
      BY <2>0, <2>2 DEF st, Typed, Account
    <3>2. answer'["count"] = answer["count"]
      BY <3>1, <1>1
    <3>3. PICK s \in Orders : answer'["find"] = [i \in PageOf(s) |-> rows[i]]
      BY <1>1, <3>1, Returns
    <3>4. DOMAIN answer'["find"] = PageOf(s)
      BY <3>3
    <3>5. /\ PageOf(s) \subseteq DOMAIN rows
          /\ IsFiniteSet(PageOf(s)) /\ Cardinality(PageOf(s)) <= reader.size
      BY PageFacts, SelectedRows DEF Typed
    <3> QED BY <3>2, <3>4, <3>5, <2>2, <1>1 DEF ListingAnswer, Typed
  <2>3. CASE at >= 2
    <3>1. at = 2 /\ kind = "decision"
      BY <1>1, <2>0, <2>3 DEF Length
    <3>2. st = "revisions"
      BY <3>1, <1>3, Statements DEF st
    <3>3. 1 \in 1 .. at /\ 2 \in 1 .. at
      BY <3>1
    <3>4. {"count", "find"} \subseteq DOMAIN answer
      BY <3>3, <2>0 DEF Typed, Account
    <3>5. answer'["count"] = answer["count"] /\ answer'["find"] = answer["find"]
      BY <3>2, <3>4, <1>1
    <3> QED BY <3>1, <3>5, <1>1 DEF ListingAnswer, Typed
  <2> QED BY <1>1, <2>1, <2>2, <2>3
<1> QED BY <1>2, <1>4, <1>5 DEF Typed

LEMMA TurnPageTyped ==
  ASSUME Typed, TurnPage
  PROVE  /\ Typed'
         /\ Listing /\ at >= 2
<1>0. /\ UNCHANGED <<rows, unchanged, slipped>> /\ seen' = seen \cup DOMAIN answer["find"]
      /\ reader' = [reader EXCEPT !.page = @ + 1] /\ at' = 0 /\ answer' = <<>> /\ entered' = 0
  BY DEF TurnPage
<1>1. Listing /\ at = Length(reader.kind)
  BY Question, PlanLengths DEF TurnPage, Over, Answered, Typed
<1>2. reader \in Listers
  BY <1>1 DEF Typed, Asking, Listing
<1>3. at >= 2 /\ at \in Nat
  BY <1>1 DEF Length, Listing
<1>4. /\ reader' \in Listers
      /\ reader'.kind = reader.kind
  BY <1>0, <1>2 DEF Listers
<1>5. Asking'
  BY <1>0, <1>4 DEF Typed, Asking
<1>6. ListingAnswer'
  BY <1>0 DEF ListingAnswer
<1>7. Account'
  <2>1. at' \in 0 .. Length(reader'.kind)
    BY <1>0, <1>4, <1>1, <1>3
  <2>2. DOMAIN answer' = {} /\ {Plan(reader'.kind)[n] : n \in 1 .. at'} = {}
    BY <1>0
  <2>3. seen' \subseteq DOMAIN rows'
    BY <1>0, <1>1, <1>3 DEF Typed, Account, ListingAnswer
  <2>4. unchanged' \subseteq Selected(rows')
    BY <1>0 DEF Typed, Account, Selected
  <2> QED BY <1>0, <2>1, <2>2, <2>3, <2>4 DEF Typed, Account
<1> QED BY <1>1, <1>3, <1>5, <1>6, <1>7 DEF Typed

LEMMA InitTyped == Init => Typed
<1> SUFFICES ASSUME Init PROVE Typed
  OBVIOUS
<1>1. reader \in Listers \cup [kind : {"summary"}, since : Times]
  <2>1. \A size \in Asked : /\ size \in Nat \ {0}
                            /\ normalizePageSize(bindPageSize(size)) \in 1 .. MaxSize
                            /\ normalizePageSize(bindPageSize(size)) <= size
    BY Sizes, ReadsAssumption
  <2> QED BY <2>1 DEF Init, Readers, Listers
<1>2. reader.kind \in Kinds
  BY <1>1 DEF Kinds, Listers
<1>3. rows \in Seq(RowOf(reader.kind))
  <2>1. PICK n \in Nat : n = FirstRows[reader.kind]
    BY <1>2, ReadsAssumption
  <2>2. rows \in [1 .. n -> Rows(reader.kind)]
    BY <2>1 DEF Init
  <2>3. PICK S : S = RowOf(reader.kind)
    OBVIOUS
  <2>4. \A row \in Rows(reader.kind) : row \in S
    BY <1>2, <2>3, NewRows
  <2>5. rows \in [1 .. n -> S]
    BY <2>2, <2>4
  <2> QED BY <2>3, <2>5
<1>4. Asking
  BY <1>1, <1>3 DEF Asking
<1>5. at = 0 /\ answer = <<>> /\ seen = {} /\ unchanged = Selected(rows) /\ slipped = 0 /\ entered = 0
  BY DEF Init
<1>6. Account
  <2>1. DOMAIN answer = {} /\ {Plan(reader.kind)[n] : n \in 1 .. at} = {}
    BY <1>5
  <2>2. at \in 0 .. Length(reader.kind)
    BY <1>5 DEF Length
  <2> QED BY <1>5, <2>1, <2>2 DEF Account
<1>7. ListingAnswer
  BY <1>5 DEF ListingAnswer
<1> QED BY <1>4, <1>6, <1>7 DEF Typed

LEMMA TypedStep ==
  ASSUME Typed, [Next]_vars
  PROVE  Typed'
<1>1. CASE UNCHANGED vars
  BY <1>1 DEF vars, Typed, Asking, Account, ListingAnswer, Listing, Selected
<1>2. CASE Insert \/ (\E i \in DOMAIN rows : Write(i) \/ Delete(i))
  BY <1>2, Writers, WroteTyped DEF Typed
<1>3. CASE Query
  BY <1>3, QueryTyped
<1>4. CASE TurnPage
  BY <1>4, TurnPageTyped
<1> QED BY <1>1, <1>2, <1>3, <1>4 DEF Next

LEMMA TypeInvariance == Spec => []Typed
BY InitTyped, TypedStep, PTL DEF Spec

(* Every variable keeps its type; a page holds no more rows than were      *)
(* asked for, and never more than MaxSize, whatever was asked.             *)
THEOREM TypeCorrect == Spec => []TypeOK
<1>1. Typed => TypeOK
  <2> SUFFICES ASSUME Typed PROVE TypeOK
    OBVIOUS
  <2>1. rows \in Seq(Row)
    <3>1. RowOf(reader.kind) \subseteq Row
      BY DEF RowOf, DomainRow, Entry, Row
    <3>2. PICK S : S = RowOf(reader.kind)
      OBVIOUS
    <3> QED BY <3>1, <3>2 DEF Typed, Asking
  <2>2. "find" \in DOMAIN answer => Listing /\ at >= 2
    <3> SUFFICES ASSUME "find" \in DOMAIN answer PROVE Listing /\ at >= 2
      OBVIOUS
    <3>1. PICK n \in 1 .. at : Plan(reader.kind)[n] = "find"
      BY DEF Typed, Account
    <3>2. reader.kind \in Kinds /\ at \in 0 .. Length(reader.kind)
      BY Question DEF Typed, Account
    <3>3. CASE reader.kind = "summary"
      <4>1. n \in {1, 2, 3, 4, 5}
        BY <3>2, <3>3 DEF Length
      <4> QED BY <3>1, <3>2, <3>3, <4>1, Statements
    <3>4. CASE reader.kind # "summary"
      <4>1. n # 1
        BY <3>1, <3>2, <3>4, Statements
      <4> QED BY <4>1, <3>2, <3>4 DEF Length, Listing
    <3> QED BY <3>3, <3>4
  <2>3. at \in 0 .. Len(Plan(reader.kind))
    BY Question, PlanLengths DEF Typed, Account
  <2> QED BY <2>1, <2>2, <2>3, Question DEF Typed, Account, ListingAnswer, TypeOK
<1> QED BY <1>1, TypeInvariance, PTL

-----------------------------------------------------------------------------
(* Revisions. *)

ShownRevised ==
  \A i \in DOMAIN answer["find"] :
    /\ i \in DOMAIN answer["revisions"]
    /\ 1 .. answer["find"][i].version \subseteq answer["revisions"][i]

(* Every version of a row has its revision, and a version that was shown   *)
(* is still there, or a later one.                                         *)
Revised ==
  reader.kind = "decision" =>
    /\ \A i \in DOMAIN rows : 1 .. rows[i].version \subseteq rows[i].revisions
    /\ at >= 2 => \A i \in DOMAIN answer["find"] :
         1 .. answer["find"][i].version \subseteq rows[i].revisions
    /\ at = 3 => ShownRevised

LEMMA WroteRevised ==
  ASSUME Typed, Revised, reader.kind = "decision", NEW w, Wrote(w)
  PROVE  /\ \A i \in DOMAIN rows' : 1 .. rows'[i].version \subseteq rows'[i].revisions
         /\ \A i \in DOMAIN rows : rows[i].revisions \subseteq rows'[i].revisions
<1>0. /\ DOMAIN rows' = DOMAIN rows \cup {w}
      /\ \A j \in DOMAIN rows \ {w} : rows'[j] = rows[j]
      /\ \A i \in DOMAIN rows : 1 .. rows[i].version \subseteq rows[i].revisions
      /\ reader.kind \in Domain
  BY DEF Wrote, Revised, Domain
<1>1. CASE w \in DOMAIN rows
  <2>1. \/ rows'[w].version = rows[w].version /\ rows'[w].revisions = rows[w].revisions
        \/ /\ rows'[w].version = rows[w].version + 1
           /\ rows'[w].revisions = rows[w].revisions \cup {rows[w].version + 1}
    BY <1>1 DEF Wrote
  <2>2. rows[w].version \in Nat
    <3>1. rows[w] \in DomainRow
      BY <1>0, <1>1, RowFields DEF Typed, RowOf
    <3> QED BY <3>1, Constants DEF DomainRow
  <2>3. 1 .. rows[w].version + 1 = 1 .. rows[w].version \cup {rows[w].version + 1}
    BY <2>2
  <2>4. 1 .. rows'[w].version \subseteq rows'[w].revisions
    BY <1>0, <1>1, <2>1, <2>3
  <2>5. rows[w].revisions \subseteq rows'[w].revisions
    BY <2>1
  <2> QED BY <1>0, <1>1, <2>4, <2>5
<1>2. CASE w \notin DOMAIN rows
  <2>1. rows'[w].version = 1 /\ rows'[w].revisions = {1}
    BY <1>0, <1>2 DEF Wrote
  <2>2. 1 .. rows'[w].version \subseteq rows'[w].revisions
    BY <2>1
  <2> QED BY <1>0, <1>2, <2>2
<1> QED BY <1>1, <1>2

LEMMA RevisedStep ==
  ASSUME Typed, Revised, [Next]_vars
  PROVE  Revised'
<1> SUFFICES ASSUME reader'.kind = "decision" PROVE Revised'
  BY DEF Revised
<1>0. reader.kind = "decision" /\ Listing
  <2>1. reader'.kind = reader.kind
    <3>1. CASE TurnPage
      <4>1. reader \in Listers
        BY <3>1, TurnPageTyped DEF Typed, Asking, Listing
      <4> QED BY <3>1, <4>1 DEF TurnPage
    <3>2. CASE ~TurnPage
      <4>1. ASSUME NEW w, Wrote(w) PROVE reader' = reader
        BY <4>1 DEF Wrote, Noticed
      <4> QED BY <3>2, <4>1, Writers DEF Next, Query, vars, Typed
    <3> QED BY <3>1, <3>2
  <2> QED BY <2>1 DEF Listing
<1>1. /\ \A i \in DOMAIN rows : 1 .. rows[i].version \subseteq rows[i].revisions
      /\ at >= 2 => \A i \in DOMAIN answer["find"] :
           1 .. answer["find"][i].version \subseteq rows[i].revisions
      /\ at = 3 => ShownRevised
      /\ at \in Nat /\ at <= 3
      /\ at >= 2 => DOMAIN answer["find"] \subseteq DOMAIN rows
  BY <1>0 DEF Revised, Typed, Account, ListingAnswer, Length
<1>2. CASE UNCHANGED vars
  BY <1>2, <1>1 DEF vars, Revised, ShownRevised
<1>3. ASSUME NEW w, Wrote(w)
      PROVE  Revised'
  <2>1. UNCHANGED <<at, answer>>
    BY <1>3 DEF Wrote, Noticed
  <2>2. /\ \A i \in DOMAIN rows' : 1 .. rows'[i].version \subseteq rows'[i].revisions
        /\ \A i \in DOMAIN rows : rows[i].revisions \subseteq rows'[i].revisions
    BY <1>0, <1>3, WroteRevised
  <2> QED BY <1>1, <2>1, <2>2 DEF Revised, ShownRevised
<1>4. CASE Query
  <2> DEFINE st == Plan(reader.kind)[at + 1]
  <2> HIDE DEF st
  <2>1. /\ at' = at + 1 /\ at < 3
        /\ UNCHANGED <<rows, reader>>
        /\ answer'[st] \in Returned(st)
        /\ DOMAIN answer' = DOMAIN answer \cup {st}
        /\ \A s \in DOMAIN answer \ {st} : answer'[s] = answer[s]
    BY <1>0, <1>4, QueryAnswers DEF st, Length
  <2>2. /\ Plan(reader.kind)[1] = "count" /\ Plan(reader.kind)[2] = "find"
        /\ Plan(reader.kind)[3] = "revisions"
    BY <1>0, Statements DEF Kinds
  <2>3. CASE at = 0
    BY <1>1, <2>1, <2>3 DEF Revised
  <2>4. CASE at = 1
    <3>1. PICK s \in Orders : answer'["find"] = [i \in PageOf(s) |-> rows[i]]
      BY <2>1, <2>2, <2>4, Returns DEF st
    <3>2. PageOf(s) \subseteq DOMAIN rows
      BY <1>0, PageFacts, SelectedRows DEF Typed
    <3> QED BY <1>1, <2>1, <2>4, <3>1, <3>2 DEF Revised
  <2>5. CASE at = 2
    <3>1. st = "revisions" /\ answer'["revisions"] = [i \in DOMAIN rows |-> rows[i].revisions]
      BY <2>1, <2>2, <2>5, Returns DEF st
    <3>2. "find" \in DOMAIN answer
      <4>1. 2 \in 1 .. at
        BY <2>5
      <4> QED BY <4>1, <2>2 DEF Typed, Account
    <3>3. answer'["find"] = answer["find"]
      BY <2>1, <3>1, <3>2
    <3> QED BY <1>1, <2>1, <2>5, <3>1, <3>3 DEF Revised, ShownRevised
  <2> QED BY <1>1, <2>1, <2>3, <2>4, <2>5
<1>5. CASE TurnPage
  BY <1>1, <1>5 DEF TurnPage, Revised
<1> QED BY <1>2, <1>3, <1>4, <1>5, Writers DEF Next, Typed

(* A decision is answered with the revision that led to the version shown, *)
(* whatever is written between the statement that reads the row and the    *)
(* one that reads its revisions.                                           *)
THEOREM ShownWithItsRevision == Spec => []RevisionsReachVersion
<1>1. Init => Revised
  <2> SUFFICES ASSUME Init, reader.kind = "decision"
               PROVE  /\ \A i \in DOMAIN rows : 1 .. rows[i].version \subseteq rows[i].revisions
                      /\ at = 0
    BY DEF Revised
  <2>1. rows \in [1 .. FirstRows["decision"] -> Rows("decision")] /\ at = 0
    BY DEF Init
  <2>2. \A row \in Rows("decision") : row.version = 1 /\ row.revisions = {1}
    BY NewRows DEF Kinds, Domain
  <2> QED BY <2>1, <2>2
<1>2. Typed /\ Revised /\ [Next]_vars => Revised'
  BY RevisedStep
<1>3. Typed /\ Revised => RevisionsReachVersion
  <2> SUFFICES ASSUME Typed, Revised, Over, reader.kind = "decision"
               PROVE  ShownRevised
    BY DEF RevisionsReachVersion, ShownRevised
  <2>1. at = Length(reader.kind)
    BY Question, PlanLengths DEF Over, Answered, Typed
  <2> QED BY <2>1 DEF Revised, Length
<1> QED BY <1>1, <1>2, <1>3, TypeInvariance, PTL DEF Spec

-----------------------------------------------------------------------------
(* The summary. *)

(* The groups of a finite set by a function on it count it.                *)
LEMMA GroupsCount ==
  ASSUME NEW W, IsFiniteSet(W), NEW V, NEW f \in [W -> V]
  PROVE  Sum([v \in V |-> Cardinality({i \in W : f[i] = v})]) = Cardinality(W)
<1> DEFINE G(v) == {i \in W : f[i] = v}
           U == UNION {{v} \X (1 .. Cardinality(G(v))) : v \in V}
           b == [v \in V |-> CHOOSE g : g \in Bijection(1 .. Cardinality(G(v)), G(v))]
<1>1. ASSUME NEW v \in V
      PROVE  /\ Cardinality(G(v)) \in Nat
             /\ b[v] \in Bijection(1 .. Cardinality(G(v)), G(v))
  <2>1. G(v) \in SUBSET W
    OBVIOUS
  <2>2. IsFiniteSet(G(v))
    BY <2>1, FS_Subset
  <2>3. /\ Cardinality(G(v)) \in Nat
        /\ ExistsBijection(1 .. Cardinality(G(v)), G(v))
    BY <2>2, FS_CardinalityType
  <2>4. \E g : g \in Bijection(1 .. Cardinality(G(v)), G(v))
    BY <2>3 DEF ExistsBijection
  <2> QED BY <2>3, <2>4
<1>2. Sum([v \in V |-> Cardinality(G(v))]) = Cardinality(U)
  BY DEF Sum
<1> DEFINE C == [v \in V |-> Cardinality(G(v))]
           h == [u \in U |-> b[u[1]][u[2]]]
<1> HIDE DEF G, b
<1>a. ASSUME NEW u \in U
      PROVE  u[1] \in V /\ u[2] \in 1 .. Cardinality(G(u[1])) /\ u = <<u[1], u[2]>>
  <2>1. PICK v \in V : u \in {v} \X (1 .. Cardinality(G(v)))
    OBVIOUS
  <2> QED BY <2>1
<1>b. ASSUME NEW v \in V, NEW n \in 1 .. Cardinality(G(v))
      PROVE  <<v, n>> \in U
  <2>1. <<v, n>> \in {v} \X (1 .. Cardinality(G(v)))
    OBVIOUS
  <2> QED BY <2>1
<1>c. ASSUME NEW v \in V
      PROVE  /\ \A n \in 1 .. Cardinality(G(v)) : b[v][n] \in W /\ f[b[v][n]] = v
             /\ \A m, n \in 1 .. Cardinality(G(v)) : b[v][m] = b[v][n] => m = n
             /\ \A i \in W : f[i] = v => \E n \in 1 .. Cardinality(G(v)) : b[v][n] = i
  BY <1>1 DEF Bijection, Injection, Surjection, IsInjective, G
<1> HIDE DEF U
<1>3. h \in [U -> W]
  BY <1>a, <1>c
<1>4. \A u, w \in U : h[u] = h[w] => u = w
  <2> SUFFICES ASSUME NEW u \in U, NEW w \in U, h[u] = h[w] PROVE u = w
    OBVIOUS
  <2>0. h[u] = b[u[1]][u[2]] /\ h[w] = b[w[1]][w[2]]
    OBVIOUS
  <2>1. f[h[u]] = u[1] /\ f[h[w]] = w[1]
    BY <2>0, <1>a, <1>c
  <2>2. u[1] = w[1]
    BY <2>1
  <2>3. u[2] = w[2]
    BY <2>0, <2>2, <1>a, <1>c
  <2> QED BY <2>2, <2>3, <1>a
<1>5. \A i \in W : \E u \in U : h[u] = i
  <2> SUFFICES ASSUME NEW i \in W PROVE \E u \in U : h[u] = i
    OBVIOUS
  <2>1. f[i] \in V
    OBVIOUS
  <2>2. PICK n \in 1 .. Cardinality(G(f[i])) : b[f[i]][n] = i
    BY <2>1, <1>c
  <2>3. <<f[i], n>> \in U
    BY <2>1, <1>b
  <2>4. h[<<f[i], n>>] = b[f[i]][n]
    BY <2>3
  <2> QED BY <2>2, <2>3, <2>4
<1>6. h \in Bijection(U, W)
  <2> HIDE DEF h
  <2> QED BY <1>3, <1>4, <1>5 DEF Bijection, Injection, Surjection, IsInjective
<1>7. ExistsBijection(W, U)
  BY <1>6, Fun_ExistsBijSymmetric DEF ExistsBijection
<1>8. Cardinality(U) = Cardinality(W)
  BY <1>7, FS_Bijection
<1> QED BY <1>2, <1>8 DEF G

-----------------------------------------------------------------------------

Transitions == {i \in Window : rows[i].action = "transition"}

(* Each number of a summary is at most what the log holds now, and at most *)
(* what was counted after it.                                              *)
Summed ==
  ~Listing =>
    /\ at >= 1 => answer["total"] \in Nat /\ answer["total"] <= Cardinality(Window)
    /\ at >= 2 =>
         answer["transitions"] \in Nat /\ answer["transitions"] <= Cardinality(Transitions)
    /\ at >= 3 => answer["actors"] \in Nat /\ answer["actors"] <= Cardinality(Window)
    /\ at >= 4 =>
         /\ Sum(answer["actions"]) \in Nat /\ Sum(answer["actions"]) <= Cardinality(Window)
         /\ answer["transitions"] <= answer["actions"]["transition"]
         /\ answer["total"] <= Sum(answer["actions"])
         /\ answer["actors"] <= Sum(answer["actions"])
    /\ at >= 5 => Sum(answer["actions"]) <= Sum(answer["entities"])

LEMMA Entries ==
  ASSUME Asking, ~Listing
  PROVE  /\ \A i \in DOMAIN rows :
              /\ rows[i].actor \in Actors /\ rows[i].action \in Actions
              /\ rows[i].entity \in EntityTypes
         /\ IsFiniteSet(Window) /\ Cardinality(Window) \in Nat
         /\ IsFiniteSet(Transitions) /\ Cardinality(Transitions) \in Nat
<1>1. RowOf(reader.kind) = Entry
  BY DEF RowOf, Listing, Domain
<1>2. \A i \in DOMAIN rows : rows[i] \in Entry
  BY <1>1, RowFields
<1>3. Window \in SUBSET DOMAIN rows /\ Transitions \in SUBSET DOMAIN rows
  BY DEF Window, Transitions
<1>4. /\ IsFiniteSet(Window) /\ Cardinality(Window) \in Nat
      /\ IsFiniteSet(Transitions) /\ Cardinality(Transitions) \in Nat
  BY <1>3, RowsFinite DEF Asking
<1> QED BY <1>2, <1>4 DEF Entry

(* The groups account for every entry of the window. *)
LEMMA GroupsAddUp ==
  ASSUME Asking, ~Listing
  PROVE  /\ Sum(GroupBy("action", Actions)) = Cardinality(Window)
         /\ Sum(GroupBy("entity", EntityTypes)) = Cardinality(Window)
         /\ GroupBy("action", Actions)["transition"] = Cardinality(Transitions)
<1> DEFINE f == [i \in Window |-> rows[i].action]
           g == [i \in Window |-> rows[i].entity]
<1>1. f \in [Window -> Actions] /\ g \in [Window -> EntityTypes] /\ IsFiniteSet(Window)
  BY Entries DEF Window
<1>2. GroupBy("action", Actions) = [v \in Actions |-> Cardinality({i \in Window : f[i] = v})]
  <2>1. \A v : {i \in Window : f[i] = v} = {i \in Window : rows[i].action = v}
    OBVIOUS
  <2> HIDE DEF f
  <2> QED BY <2>1 DEF GroupBy
<1>3. GroupBy("entity", EntityTypes) =
        [v \in EntityTypes |-> Cardinality({i \in Window : g[i] = v})]
  <2>1. \A v : {i \in Window : g[i] = v} = {i \in Window : rows[i].entity = v}
    OBVIOUS
  <2> HIDE DEF g
  <2> QED BY <2>1 DEF GroupBy
<1>4. GroupBy("action", Actions)["transition"] = Cardinality(Transitions)
  BY ReadsAssumption DEF GroupBy, Transitions
<1> HIDE DEF f, g
<1>5. Sum(GroupBy("action", Actions)) = Cardinality(Window)
  BY <1>1, <1>2, GroupsCount
<1>6. Sum(GroupBy("entity", EntityTypes)) = Cardinality(Window)
  BY <1>1, <1>3, GroupsCount
<1> QED BY <1>4, <1>5, <1>6

LEMMA FewActors ==
  ASSUME Asking, ~Listing
  PROVE  /\ Cardinality({rows[i].actor : i \in Window}) \in Nat
         /\ Cardinality({rows[i].actor : i \in Window}) <= Cardinality(Window)
<1> DEFINE A == {rows[i].actor : i \in Window}
           f == [i \in Window |-> rows[i].actor]
<1>1. f \in Surjection(Window, A)
  BY DEF Surjection
<1>2. IsFiniteSet(A) /\ Cardinality(A) <= Cardinality(Window)
  BY <1>1, Entries, FS_Surjection
<1> QED BY <1>2, FS_CardinalityType

LEMMA WindowGrows ==
  ASSUME Typed, ~Listing, NEW w, Wrote(w)
  PROVE  /\ Cardinality(Window) <= Cardinality(Window')
         /\ Cardinality(Transitions) <= Cardinality(Transitions')
<1>1. UNCHANGED reader /\ DOMAIN rows \subseteq DOMAIN rows' /\ \A i \in DOMAIN rows : rows'[i] = rows[i]
  BY DEF Wrote, Noticed, Listing, Domain
<1>2. Window \in SUBSET Window' /\ Transitions \in SUBSET Transitions'
  BY <1>1 DEF Window, Transitions
<1>3. IsFiniteSet(Window') /\ IsFiniteSet(Transitions')
  <2>1. Window' \in SUBSET DOMAIN rows' /\ Transitions' \in SUBSET DOMAIN rows'
    BY DEF Window, Transitions
  <2>2. PICK S : rows' \in Seq(S)
    BY DEF Wrote
  <2> QED BY <2>1, <2>2, RowsFinite
<1> QED BY <1>2, <1>3, FS_Subset

LEMMA SummedStep ==
  ASSUME Typed, Summed, [Next]_vars
  PROVE  Summed'
<1>1. CASE UNCHANGED vars
  BY <1>1 DEF vars, Summed, Listing, Window, Transitions
<1>2. CASE TurnPage
  BY <1>2, TurnPageTyped DEF TurnPage, Summed
<1>3. ASSUME NEW w, Wrote(w)
      PROVE  Summed'
  <2>1. UNCHANGED <<reader, at, answer>>
    BY <1>3 DEF Wrote, Noticed
  <2> SUFFICES ASSUME ~Listing PROVE Summed'
    BY <2>1 DEF Summed, Listing
  <2>2. /\ Cardinality(Window) \in Nat /\ Cardinality(Window') \in Nat
        /\ Cardinality(Transitions) \in Nat /\ Cardinality(Transitions') \in Nat
        /\ Cardinality(Window) <= Cardinality(Window')
        /\ Cardinality(Transitions) <= Cardinality(Transitions')
    <3>1. Asking' /\ ~Listing'
      BY <1>3, <2>1, WroteTyped DEF Typed, Listing
    <3>2. Cardinality(Window') \in Nat /\ Cardinality(Transitions') \in Nat
      <4>1. Window' \in SUBSET DOMAIN rows' /\ Transitions' \in SUBSET DOMAIN rows'
        BY DEF Window, Transitions
      <4>2. PICK S : rows' \in Seq(S)
        BY <1>3 DEF Wrote
      <4> QED BY <4>1, <4>2, RowsFinite
    <3> QED BY <1>3, <3>2, Entries, WindowGrows DEF Typed
  <2> QED BY <2>1, <2>2 DEF Summed
<1>4. CASE Query
  <2> DEFINE st == Plan(reader.kind)[at + 1]
  <2> HIDE DEF st
  <2>1. /\ at' = at + 1 /\ at \in Nat /\ at < Length(reader.kind)
        /\ UNCHANGED <<rows, reader>>
        /\ answer'[st] \in Returned(st)
        /\ DOMAIN answer' = DOMAIN answer \cup {st}
        /\ \A s \in DOMAIN answer \ {st} : answer'[s] = answer[s]
    BY <1>4, QueryAnswers DEF st
  <2> SUFFICES ASSUME ~Listing PROVE Summed'
    BY <2>1 DEF Summed, Listing
  <2>2. /\ Plan(reader.kind)[1] = "total" /\ Plan(reader.kind)[2] = "transitions"
        /\ Plan(reader.kind)[3] = "actors" /\ Plan(reader.kind)[4] = "actions"
        /\ Plan(reader.kind)[5] = "entities"
    BY Statements DEF Kinds, Listing
  <2>3. /\ Cardinality(Window)' = Cardinality(Window)
        /\ Cardinality(Transitions)' = Cardinality(Transitions)
        /\ Cardinality(Window) \in Nat /\ Cardinality(Transitions) \in Nat
    BY <2>1, Entries DEF Window, Transitions, Typed
  <2>4. DOMAIN answer = {Plan(reader.kind)[n] : n \in 1 .. at}
    BY DEF Typed, Account
  <2>5. at \in 0 .. 4
    BY <2>1 DEF Length, Listing
  <2>6. CASE at = 0
    <3>1. answer'["total"] = Cardinality(Window)
      BY <2>1, <2>2, <2>6, Returns DEF st
    <3> QED BY <3>1, <2>1, <2>3, <2>6 DEF Summed
  <2>7. CASE at = 1
    <3>1. answer'["transitions"] = Cardinality(Transitions)
      BY <2>1, <2>2, <2>7, Returns DEF st, Transitions
    <3>2. answer'["total"] = answer["total"]
      BY <2>1, <2>2, <2>4, <2>7 DEF st
    <3> QED BY <3>1, <3>2, <2>1, <2>3, <2>7 DEF Summed
  <2>8. CASE at = 2
    <3>1. answer'["actors"] = Cardinality({rows[i].actor : i \in Window})
      BY <2>1, <2>2, <2>8, Returns DEF st
    <3>2. answer'["total"] = answer["total"] /\ answer'["transitions"] = answer["transitions"]
      BY <2>1, <2>2, <2>4, <2>8 DEF st
    <3>3. answer'["actors"] \in Nat /\ answer'["actors"] <= Cardinality(Window)
      BY <3>1, FewActors DEF Typed
    <3> QED BY <3>2, <3>3, <2>1, <2>3, <2>8 DEF Summed
  <2>9. CASE at = 3
    <3>1. answer'["actions"] = GroupBy("action", Actions)
      BY <2>1, <2>2, <2>9, Returns DEF st
    <3>2. /\ answer'["total"] = answer["total"] /\ answer'["transitions"] = answer["transitions"]
          /\ answer'["actors"] = answer["actors"]
      BY <2>1, <2>2, <2>4, <2>9 DEF st
    <3>3. /\ Sum(answer'["actions"]) = Cardinality(Window)
          /\ answer'["actions"]["transition"] = Cardinality(Transitions)
      BY <3>1, GroupsAddUp DEF Typed
    <3> QED BY <3>2, <3>3, <2>1, <2>3, <2>9 DEF Summed
  <2>10. CASE at = 4
    <3>1. answer'["entities"] = GroupBy("entity", EntityTypes)
      BY <2>1, <2>2, <2>10, Returns DEF st
    <3>2. /\ answer'["total"] = answer["total"] /\ answer'["transitions"] = answer["transitions"]
          /\ answer'["actors"] = answer["actors"] /\ answer'["actions"] = answer["actions"]
      BY <2>1, <2>2, <2>4, <2>10 DEF st
    <3>3. Sum(answer'["entities"]) = Cardinality(Window)
      BY <3>1, GroupsAddUp DEF Typed
    <3> QED BY <3>2, <3>3, <2>1, <2>3, <2>10 DEF Summed
  <2> QED BY <2>5, <2>6, <2>7, <2>8, <2>9, <2>10
<1> QED BY <1>1, <1>2, <1>3, <1>4, Writers DEF Next, Typed

(* The groups of a summary account for everything counted before them, for *)
(* any actors, actions and entities, and however the log grows meanwhile.  *)
THEOREM GroupsCoverTotals == Spec => []SummaryAddsUp
<1>1. Init => Summed
  BY DEF Init, Summed
<1>2. Typed /\ Summed /\ [Next]_vars => Summed'
  BY SummedStep
<1>3. Typed /\ Summed => SummaryAddsUp
  <2> SUFFICES ASSUME Typed, Summed, Over, ~Listing PROVE SummaryAddsUp
    BY DEF SummaryAddsUp
  <2>1. at = Length(reader.kind)
    BY Question, PlanLengths DEF Over, Answered, Typed
  <2>2. at = 5
    BY <2>1 DEF Length, Listing
  <2> QED BY <2>2 DEF Summed, SummaryAddsUp
<1> QED BY <1>1, <1>2, <1>3, TypeInvariance, PTL DEF Spec

-----------------------------------------------------------------------------
(* The pages. *)

(* Those that come before i; their number is the place of i in the order.  *)
Above(i) == {j \in Selected(rows) \ {i} : Before(j, i)}

Rank(i) == Cardinality(Above(i))

(* The rows a reader may count on: there all the time, and, where the time *)
(* alone decides on the order, alone with their time.                      *)
Kept == IF reader.kind = "audit" THEN unchanged \cap Alone ELSE unchanged

Unseen == Kept \ (seen \cup IF at >= 2 THEN DOMAIN answer["find"] ELSE {})

(* How many places the pages have passed.                                  *)
Passed == (IF at >= 2 THEN reader.page ELSE reader.page - 1) * reader.size

(* Unseen rows on places that no later page will show.                     *)
Late == {i \in Unseen : Rank(i) < Passed}

(* A row comes late only when another has left the selection or sunk in    *)
(* it; what is beyond the last page came in after the last count.          *)
Paged ==
  Listing =>
    /\ Cardinality(Late) <= slipped
    /\ at = 1 => Cardinality(Selected(rows)) <= answer["count"] + entered
    /\ at >= 2 /\ reader.page * reader.size >= answer["count"] =>
         Cardinality(Unseen) <= slipped + entered

LEMMA KeptRows ==
  ASSUME Typed
  PROVE  /\ Late \subseteq Unseen /\ Unseen \subseteq Kept /\ Kept \subseteq unchanged
         /\ unchanged \subseteq Selected(rows) /\ Selected(rows) \subseteq DOMAIN rows
         /\ IsFiniteSet(Late) /\ Cardinality(Late) \in Nat
         /\ IsFiniteSet(Unseen) /\ Cardinality(Unseen) \in Nat
<1>1. /\ Late \subseteq Unseen /\ Unseen \subseteq Kept /\ Kept \subseteq unchanged
      /\ unchanged \subseteq Selected(rows) /\ Selected(rows) \subseteq DOMAIN rows
  BY SelectedRows DEF Late, Unseen, Kept, Typed, Account
<1>2. Late \in SUBSET DOMAIN rows /\ Unseen \in SUBSET DOMAIN rows
  BY <1>1
<1> QED BY <1>1, <1>2, RowsFinite DEF Typed, Asking

LEMMA AboveFinite ==
  ASSUME Asking, NEW i
  PROVE  IsFiniteSet(Above(i)) /\ Rank(i) \in Nat
<1>1. Above(i) \in SUBSET DOMAIN rows
  BY DEF Above, Selected
<1> QED BY <1>1, RowsFinite DEF Asking, Rank

LEMMA PassedNatural ==
  ASSUME Asking, Listing
  PROVE  Passed \in Nat
BY Question DEF Passed

(* Kept rows have a place of their own: nothing comes both before and      *)
(* after them.                                                             *)
LEMMA KeptOrdered ==
  ASSUME Typed, NEW i \in Kept, NEW j \in Selected(rows), i # j
  PROVE  ~(Before(i, j) /\ Before(j, i))
<1>1. i \in DOMAIN rows /\ j \in DOMAIN rows /\ i \in Nat /\ j \in Nat
  BY KeptRows, RowFields DEF Typed
<1>2. rows[i].stamp \in Nat /\ rows[j].stamp \in Nat
  BY <1>1, RowFields DEF Typed
<1>3. reader.kind = "audit" => rows[i].stamp # rows[j].stamp
  BY <1>1 DEF Kept, Alone
<1> QED BY <1>1, <1>2, <1>3 DEF Before

(* In a listing of the domain no two rows share a place. *)
LEMMA RanksDiffer ==
  ASSUME Asking, reader.kind \in Domain, NEW i \in Selected(rows), NEW k \in Selected(rows), i # k
  PROVE  Rank(i) # Rank(k)
<1>1. ASSUME NEW a \in Selected(rows), NEW b \in Selected(rows), a # b, Before(a, b)
      PROVE  Rank(a) < Rank(b)
  <2>1. \A j \in Selected(rows) : j \in Nat /\ rows[j].stamp \in Nat
    BY SelectedRows, RowFields
  <2>2. Above(a) \cup {a} \in SUBSET Above(b)
    BY <1>1, <2>1 DEF Above, Before, Domain
  <2>3. a \notin Above(a)
    BY DEF Above
  <2>4. /\ IsFiniteSet(Above(a) \cup {a})
        /\ Cardinality(Above(a) \cup {a}) = Cardinality(Above(a)) + 1
    BY <2>3, AboveFinite, FS_AddElement
  <2>5. Cardinality(Above(a) \cup {a}) <= Cardinality(Above(b))
    BY <2>2, AboveFinite, FS_Subset
  <2> QED BY <2>4, <2>5, AboveFinite DEF Rank
<1>2. Before(i, k) \/ Before(k, i)
  <2>1. i \in Nat /\ k \in Nat /\ rows[i].stamp \in Nat /\ rows[k].stamp \in Nat
    BY SelectedRows, RowFields
  <2> QED BY <2>1 DEF Before
<1>3. Rank(i) \in Nat /\ Rank(k) \in Nat
  BY AboveFinite
<1> QED BY <1>1, <1>2, <1>3

(* The place in an order is the rank. *)
LEMMA RankIsPlace ==
  ASSUME Typed, NEW s \in Orders, NEW n \in DOMAIN s, s[n] \in Kept
  PROVE  n \in Nat \ {0} /\ Rank(s[n]) = n - 1
<1> DEFINE N == Cardinality(Selected(rows))
<1>1. /\ N \in Nat /\ DOMAIN s = 1 .. N
      /\ \A m \in 1 .. N : s[m] \in Selected(rows)
      /\ \A l, m \in 1 .. N : l # m => s[l] # s[m]
      /\ \A i \in Selected(rows) : \E m \in 1 .. N : s[m] = i
      /\ \A l, m \in 1 .. N : l < m => Before(s[l], s[m])
  BY OrderedOnce DEF Typed
<1> HIDE DEF N
<1>2. n \in 1 .. N
  BY <1>1
<1>3. Above(s[n]) = {s[m] : m \in 1 .. n - 1}
  <2>1. ASSUME NEW m \in 1 .. n - 1
        PROVE  s[m] \in Above(s[n])
    <3>1. m \in 1 .. N /\ m < n
      BY <1>1, <1>2
    <3> QED BY <3>1, <1>1, <1>2 DEF Above
  <2>2. ASSUME NEW j \in Above(s[n])
        PROVE  j \in {s[m] : m \in 1 .. n - 1}
    <3>1. PICK m \in 1 .. N : s[m] = j
      BY <1>1 DEF Above
    <3>2. m # n /\ Before(s[m], s[n])
      BY <3>1 DEF Above
    <3>3. ~(n < m)
      <4>1. s[m] \in Selected(rows) /\ s[n] # s[m]
        BY <1>1, <1>2, <3>2
      <4>2. ~Before(s[n], s[m])
        BY <3>2, <4>1, KeptOrdered
      <4> QED BY <4>2, <1>1, <1>2
    <3>4. m \in 1 .. n - 1
      BY <3>2, <3>3, <1>1, <1>2
    <3> QED BY <3>1, <3>4
  <2> QED BY <2>1, <2>2
<1> DEFINE f == [m \in 1 .. n - 1 |-> s[m]]
<1>4. f \in Bijection(1 .. n - 1, Above(s[n]))
  <2>1. f \in [1 .. n - 1 -> Above(s[n])]
    BY <1>3
  <2>2. \A l, m \in 1 .. n - 1 : f[l] = f[m] => l = m
    BY <1>1, <1>2
  <2>3. \A j \in Above(s[n]) : \E m \in 1 .. n - 1 : f[m] = j
    BY <1>3
  <2> HIDE DEF f
  <2> QED BY <2>1, <2>2, <2>3 DEF Bijection, Injection, Surjection, IsInjective
<1>5. n - 1 \in Nat
  BY <1>1, <1>2
<1>6. Cardinality(Above(s[n])) = n - 1
  BY <1>4, <1>5, FS_CountingElements DEF ExistsBijection
<1> QED BY <1>1, <1>2, <1>6 DEF Rank

-----------------------------------------------------------------------------
(* Writes under the reader. *)

(* No row becomes unseen by a write, and the one written is not counted on *)
(* any longer.                                                             *)
LEMMA WroteUnseen ==
  ASSUME Typed, Listing, NEW w, Wrote(w)
  PROVE  /\ UNCHANGED <<reader, at, answer, seen>> /\ Passed' = Passed
         /\ Unseen' \subseteq Unseen \ {w}
<1>1. UNCHANGED <<reader, at, answer, seen>> /\ unchanged' = unchanged \ {w}
  BY DEF Wrote, Noticed
<1>2. Kept' \subseteq Kept \ {w}
  <2>1. CASE reader.kind = "audit"
    <3>1. /\ w \notin DOMAIN rows /\ DOMAIN rows \subseteq DOMAIN rows'
          /\ \A j \in DOMAIN rows : rows'[j] = rows[j]
      BY <2>1 DEF Wrote, Domain
    <3>2. \A i \in DOMAIN rows : i \in Alone' => i \in Alone
      BY <3>1 DEF Alone
    <3>3. unchanged \subseteq DOMAIN rows
      BY KeptRows
    <3> QED BY <1>1, <2>1, <3>2, <3>3 DEF Kept
  <2>2. CASE reader.kind # "audit"
    BY <1>1, <2>2 DEF Kept
  <2> QED BY <2>1, <2>2
<1> QED BY <1>1, <1>2 DEF Unseen, Passed

(* A write leaves above a row whatever was there, unless it takes it out   *)
(* of the selection or down in it.                                         *)
LEMMA WroteAbove ==
  ASSUME Typed, Listing, NEW w, Wrote(w), NEW i \in Unseen'
  PROVE  /\ Above(i) \ {w} \subseteq Above(i)'
         /\ w \notin Slipping => Above(i) \subseteq Above(i)'
<1>1. /\ UNCHANGED reader /\ i \in Unseen /\ i # w
  BY WroteUnseen
<1>2. i \in Selected(rows) /\ i \in DOMAIN rows
  BY <1>1, KeptRows
<1>3. \A j \in DOMAIN rows \ {w} : rows'[j] = rows[j] /\ j \in DOMAIN rows'
  BY DEF Wrote
<1>4. rows'[i] = rows[i]
  BY <1>1, <1>2, <1>3
<1>5. Above(i) \ {w} \subseteq Above(i)'
  <2> SUFFICES ASSUME NEW j \in Above(i), j # w PROVE j \in Above(i)'
    OBVIOUS
  <2>1. j \in Selected(rows) /\ j # i /\ Before(j, i) /\ j \in DOMAIN rows
    BY DEF Above, Selected
  <2>2. rows'[j] = rows[j] /\ j \in DOMAIN rows'
    BY <1>3, <2>1
  <2>3. j \in Selected(rows')
    BY <2>1, <2>2 DEF Selected
  <2>4. Before(j, i)'
    BY <1>1, <1>4, <2>1, <2>2 DEF Before
  <2> QED BY <2>1, <2>3, <2>4 DEF Above
<1>6. ASSUME w \notin Slipping, w \in Above(i)
      PROVE  w \in Above(i)'
  <2>1. w \in DOMAIN rows /\ w \in Selected(rows) /\ w # i /\ Before(w, i)
    BY <1>6 DEF Above, Selected
  <2>2. /\ reader.kind # "audit"
        /\ w \in Selected(rows') /\ ~(rows'[w].stamp < rows[w].stamp)
    BY <1>6, <2>1 DEF Wrote, Domain, Slipping
  <2>3. rows[w].stamp \in Nat /\ rows[i].stamp \in Nat /\ rows'[w].stamp \in Nat
    <3>1. Asking' /\ w \in DOMAIN rows'
      BY WroteTyped DEF Typed, Wrote
    <3>2. rows'[w].stamp \in Nat
      <4>1. rows' \in Seq(RowOf(reader.kind)) /\ w \in DOMAIN rows'
        BY DEF Wrote
      <4>2. rows'[w] \in RowOf(reader.kind)
        BY <4>1
      <4>3. rows'[w].stamp \in Times
        BY <4>2 DEF RowOf, DomainRow, Entry
      <4> QED BY <4>3, Constants DEF Times
    <3> QED BY <3>2, <2>1, <1>2, RowFields DEF Typed
  <2>4. Before(w, i)'
    BY <1>1, <1>4, <2>1, <2>2, <2>3 DEF Before
  <2> QED BY <2>1, <2>2, <2>4 DEF Above
<1> QED BY <1>5, <1>6

LEMMA WroteLate ==
  ASSUME Typed, Paged, Listing, NEW w, Wrote(w)
  PROVE  Cardinality(Late)' <= slipped'
<1>0. /\ Typed' /\ Asking /\ Asking'
      /\ Cardinality(Late) <= slipped /\ slipped \in Nat
      /\ Passed \in Nat /\ Passed' = Passed
      /\ Unseen' \subseteq Unseen \ {w}
  BY WroteTyped, WroteUnseen, PassedNatural DEF Typed, Account, Paged
<1>1. /\ slipped' = slipped + Cardinality(Slipping)
      /\ IsFiniteSet(Slipping) /\ Cardinality(Slipping) \in Nat
      /\ w \in Slipping => w \in DOMAIN rows
  BY <1>0, SlippingCounted DEF Slipping, Selected
<1>2. IsFiniteSet(Late) /\ Cardinality(Late) \in Nat
  BY KeptRows
<1>3. \A i : IsFiniteSet(Above(i)') /\ Rank(i)' \in Nat
  <2> SUFFICES ASSUME NEW i PROVE IsFiniteSet(Above(i)') /\ Rank(i)' \in Nat
    OBVIOUS
  <2>1. Above(i)' \in SUBSET DOMAIN rows'
    BY DEF Above, Selected
  <2>2. PICK S : rows' \in Seq(S)
    BY DEF Wrote
  <2> QED BY <2>1, <2>2, RowsFinite DEF Rank
<1>4. CASE w \notin Slipping
  <2>1. ASSUME NEW i \in Late' PROVE i \in Late
    <3>1. i \in Unseen' /\ i \in Unseen /\ Rank(i)' < Passed
      BY <1>0 DEF Late
    <3>2. Above(i) \in SUBSET Above(i)'
      BY <1>4, <3>1, WroteAbove
    <3>3. Rank(i) <= Rank(i)'
      BY <3>2, <1>3, FS_Subset DEF Rank
    <3>4. Rank(i) < Passed
      BY <3>1, <3>3, <1>0, <1>3, AboveFinite
    <3> QED BY <3>1, <3>4 DEF Late
  <2>2. Late' \in SUBSET Late
    BY <2>1
  <2>3. Cardinality(Late') <= Cardinality(Late) /\ Cardinality(Late') \in Nat
    BY <2>2, <1>2, FS_Subset, FS_CardinalityType
  <2> QED BY <2>3, <1>0, <1>1, <1>2
<1>5. CASE w \in Slipping
  <2> DEFINE Edge == {i \in Unseen : Rank(i) = Passed}
  <2>1. reader.kind \in Domain
    BY <1>1, <1>5 DEF Wrote
  <2>2. \A i, k \in Edge : i = k
    BY <2>1, <1>0, RanksDiffer, KeptRows
  <2>3. PICK e : Edge \subseteq {e}
    BY <2>2
  <2>4. ASSUME NEW i \in Late' PROVE i \in Late \cup Edge
    <3>1. i \in Unseen' /\ i \in Unseen /\ Rank(i)' < Passed
      BY <1>0 DEF Late
    <3>2. Above(i) \ {w} \in SUBSET Above(i)'
      BY <3>1, WroteAbove
    <3>3. Cardinality(Above(i) \ {w}) <= Cardinality(Above(i)')
      BY <3>2, <1>3, FS_Subset
    <3>4. Cardinality(Above(i) \ {w}) >= Cardinality(Above(i)) - 1
      BY <1>0, AboveFinite, FS_RemoveElement DEF Rank
    <3>5. Cardinality(Above(i) \ {w}) \in Nat
      BY <1>0, AboveFinite, FS_RemoveElement, FS_CardinalityType
    <3>6. Rank(i) <= Passed
      BY <3>1, <3>3, <3>4, <3>5, <1>0, <1>3, AboveFinite DEF Rank
    <3>7. Rank(i) \in Nat
      BY <1>0, AboveFinite
    <3> QED BY <3>1, <3>6, <3>7, <1>0 DEF Late
  <2>5. Late' \in SUBSET (Late \cup {e})
    BY <2>3, <2>4
  <2>6. /\ IsFiniteSet(Late \cup {e}) /\ Cardinality(Late \cup {e}) <= Cardinality(Late) + 1
        /\ Cardinality(Late \cup {e}) \in Nat
    BY <1>2, FS_AddElement, FS_CardinalityType
  <2>7. Cardinality(Late') <= Cardinality(Late) + 1 /\ Cardinality(Late') \in Nat
    BY <2>5, <2>6, <1>2, FS_Subset, FS_CardinalityType
  <2>8. Cardinality(Slipping) >= 1
    <3>1. Slipping # {}
      BY <1>5
    <3> QED BY <3>1, <1>1, FS_EmptySet
  <2> QED BY <2>7, <2>8, <1>0, <1>1, <1>2
<1> QED BY <1>4, <1>5

LEMMA WrotePaged ==
  ASSUME Typed, Paged, NEW w, Wrote(w)
  PROVE  Paged'
<1>1. UNCHANGED <<reader, at, answer>>
  BY DEF Wrote, Noticed
<1> SUFFICES ASSUME Listing PROVE Paged'
  BY <1>1 DEF Paged, Listing
<1> DEFINE before == Selected(rows)
           after  == Selected(rows')
<1>2. Cardinality(Late)' <= slipped'
  BY WroteLate
<1>3. /\ slipped \in Nat /\ entered \in Nat
      /\ slipped' = slipped + Cardinality(Slipping) /\ Cardinality(Slipping) \in Nat
      /\ entered' = entered + IF at = 1 THEN Cardinality(after \ before) ELSE 0
  BY SlippingCounted DEF Wrote, Noticed, Typed, Account
<1>4. /\ IsFiniteSet(after \ before) /\ Cardinality(after \ before) \in Nat
      /\ IsFiniteSet(after) /\ Cardinality(after) \in Nat
      /\ IsFiniteSet(before) /\ Cardinality(before) \in Nat
  <2>1. before \in SUBSET DOMAIN rows
    BY DEF Selected
  <2>2. after \ before \in SUBSET DOMAIN rows' /\ after \in SUBSET DOMAIN rows'
    BY DEF Selected
  <2>3. PICK S : rows \in Seq(S) /\ rows' \in Seq(S)
    BY DEF Typed, Asking, Wrote
  <2> QED BY <2>1, <2>2, <2>3, RowsFinite
<1>5. at = 1 => Cardinality(after) <= answer["count"] + entered'
  <2> SUFFICES ASSUME at = 1 PROVE Cardinality(after) <= answer["count"] + entered'
    OBVIOUS
  <2> HIDE DEF before, after
  <2>1. after \in SUBSET (before \cup (after \ before))
    OBVIOUS
  <2>2. /\ IsFiniteSet(before \cup (after \ before))
        /\ Cardinality(before \cup (after \ before)) =
             Cardinality(before) + Cardinality(after \ before)
               - Cardinality(before \cap (after \ before))
    BY <1>4, FS_Union
  <2>3. before \cap (after \ before) = {}
    OBVIOUS
  <2>4. Cardinality(before \cup (after \ before)) = Cardinality(before) + Cardinality(after \ before)
    <3>1. Cardinality(before \cap (after \ before)) = 0
      BY <2>3, FS_EmptySet
    <3> QED BY <3>1, <2>2, <1>4
  <2>5. Cardinality(after) <= Cardinality(before) + Cardinality(after \ before)
    BY <2>1, <2>2, <2>4, FS_Subset
  <2>6. answer["count"] \in Nat /\ Cardinality(before) <= answer["count"] + entered
    BY DEF Typed, ListingAnswer, Paged, before
  <2> QED BY <2>5, <2>6, <1>3, <1>4
<1>6. ASSUME at >= 2, reader.page * reader.size >= answer["count"]
      PROVE  Cardinality(Unseen)' <= slipped' + entered'
  <2>1. Cardinality(Unseen) <= slipped + entered
    BY <1>6 DEF Paged
  <2>2. Unseen' \in SUBSET Unseen
    BY WroteUnseen
  <2>3. Cardinality(Unseen') <= Cardinality(Unseen) /\ Cardinality(Unseen') \in Nat
    BY <2>2, KeptRows, FS_Subset, FS_CardinalityType
  <2>4. Cardinality(Unseen) \in Nat
    BY KeptRows
  <2> QED BY <2>1, <2>3, <2>4, <1>3, <1>4
<1> QED BY <1>1, <1>2, <1>5, <1>6 DEF Paged

-----------------------------------------------------------------------------
(* The steps of the reader. *)

(* The next page shows the rows on its places, so that those still unseen  *)
(* came late before, or are beyond it.                                     *)
LEMMA PageShows ==
  ASSUME Typed, Listing, NEW s \in Orders, NEW i \in Kept, i \notin PageOf(s),
         NEW n \in DOMAIN s, s[n] = i
  PROVE  Rank(i) < (reader.page - 1) * reader.size \/ n > reader.page * reader.size
<1> DEFINE p == reader.page
           z == reader.size
<1>1. p \in Nat \ {0} /\ z \in Nat \ {0}
  BY Question DEF Typed
<1>2. n \in Nat \ {0} /\ Rank(i) = n - 1
  BY RankIsPlace
<1>3. n \notin ((p - 1) * z + 1 .. p * z)
  BY DEF PageOf
<1> HIDE DEF p, z
<1>4. PICK a, b : a = (p - 1) * z /\ b = p * z
  OBVIOUS
<1>5. a \in Nat /\ b \in Nat
  BY <1>1, <1>4
<1>6. n < a + 1 \/ n > b
  BY <1>2, <1>3, <1>4, <1>5
<1> QED BY <1>2, <1>4, <1>5, <1>6 DEF p, z

LEMMA FindPaged ==
  ASSUME Typed, Paged, Listing, at = 1, NEW s \in Orders,
         at' = 2, UNCHANGED <<rows, reader, seen, unchanged, slipped, entered>>,
         answer'["find"] = [i \in PageOf(s) |-> rows[i]],
         answer'["count"] = answer["count"]
  PROVE  Paged'
<1> DEFINE p == reader.page
           z == reader.size
           N == Cardinality(Selected(rows))
<1>0. /\ Kept' = Kept /\ (\A i : Rank(i)' = Rank(i)) /\ (Listing' <=> Listing)
      /\ Passed = (p - 1) * z /\ Passed' = p * z
  BY DEF Kept, Alone, Rank, Above, Before, Selected, Listing, Passed
<1>1. Unseen' = Unseen \ PageOf(s)
  BY <1>0 DEF Unseen
<1>2. /\ p \in Nat \ {0} /\ z \in Nat \ {0} /\ (p - 1) * z \in Nat /\ p * z \in Nat
      /\ slipped \in Nat /\ entered \in Nat /\ answer["count"] \in Nat
      /\ N <= answer["count"] + entered /\ Cardinality(Late) <= slipped
  BY Question DEF Typed, Account, ListingAnswer, Paged
<1>3. /\ N \in Nat /\ DOMAIN s = 1 .. N
      /\ \A i \in Selected(rows) : \E n \in 1 .. N : s[n] = i
  BY OrderedOnce DEF Typed
<1>4. IsFiniteSet(Late) /\ Cardinality(Late) \in Nat
  BY KeptRows
<1> HIDE DEF p, z, N
<1>5. ASSUME NEW i \in Unseen'
      PROVE  \E n \in 1 .. N : /\ s[n] = i /\ i \in Unseen
                               /\ Rank(i) = n - 1
                               /\ i \in Late \/ n > p * z
  <2>1. i \in Unseen /\ i \notin PageOf(s) /\ i \in Kept
    BY <1>1, KeptRows
  <2>2. PICK n \in 1 .. N : s[n] = i
    BY <1>3, <2>1, KeptRows
  <2>3. Rank(i) < (p - 1) * z \/ n > p * z
    BY <1>3, <2>1, <2>2, PageShows DEF p, z
  <2>4. Rank(i) = n - 1
    BY <1>3, <2>1, <2>2, RankIsPlace
  <2> QED BY <1>0, <2>1, <2>2, <2>3, <2>4 DEF Late
<1>6. Cardinality(Late') <= slipped
  <2>1. ASSUME NEW i \in Late' PROVE i \in Late
    <3>1. i \in Unseen' /\ Rank(i) < p * z
      BY <1>0 DEF Late
    <3>2. PICK n \in 1 .. N : Rank(i) = n - 1 /\ (i \in Late \/ n > p * z)
      BY <3>1, <1>5
    <3>3. ~(n > p * z)
      BY <3>1, <3>2, <1>2, <1>3
    <3> QED BY <3>2, <3>3
  <2>2. Late' \in SUBSET Late
    BY <2>1
  <2>3. Cardinality(Late') <= Cardinality(Late) /\ Cardinality(Late') \in Nat
    BY <2>2, <1>4, FS_Subset, FS_CardinalityType
  <2> QED BY <2>3, <1>2, <1>4
<1>7. ASSUME p * z >= answer["count"]
      PROVE  Cardinality(Unseen') <= slipped + entered
  <2> DEFINE D == p * z + 1 .. N
             Beyond == {s[n] : n \in D}
             f == [n \in D |-> s[n]]
  <2>1. IsFiniteSet(D) /\ Cardinality(D) <= entered /\ Cardinality(D) \in Nat
    <3>1. PICK b \in Nat : b = p * z
      BY <1>2
    <3>2. /\ IsFiniteSet(b + 1 .. N)
          /\ Cardinality(b + 1 .. N) = IF b + 1 > N THEN 0 ELSE N - (b + 1) + 1
      BY <1>3, FS_Interval
    <3>3. N <= b + entered
      BY <1>2, <1>3, <1>7, <3>1
    <3>4. D = b + 1 .. N
      BY <3>1
    <3>5. IsFiniteSet(D) /\ Cardinality(D) = IF b + 1 > N THEN 0 ELSE N - (b + 1) + 1
      BY <3>2, <3>4
    <3>6. b + 1 > N \/ (N - (b + 1) + 1 <= entered /\ N - (b + 1) + 1 \in Nat)
      BY <3>3, <1>2, <1>3
    <3> HIDE DEF D
    <3> QED BY <3>5, <3>6, <1>2
  <2>2. f \in Surjection(D, Beyond)
    BY DEF Surjection
  <2>3. IsFiniteSet(Beyond) /\ Cardinality(Beyond) <= Cardinality(D)
    BY <2>1, <2>2, FS_Surjection
  <2>4. ASSUME NEW i \in Unseen' PROVE i \in Late \cup Beyond
    <3>1. PICK n \in 1 .. N : s[n] = i /\ (i \in Late \/ n > p * z)
      BY <1>5
    <3>2. n > p * z => n \in D
      BY <1>2, <1>3
    <3> QED BY <3>1, <3>2
  <2>5. Unseen' \in SUBSET (Late \cup Beyond)
    BY <2>4
  <2> HIDE DEF Beyond, D
  <2>6. /\ IsFiniteSet(Late \cup Beyond)
        /\ Cardinality(Late \cup Beyond) =
             Cardinality(Late) + Cardinality(Beyond) - Cardinality(Late \cap Beyond)
    BY <1>4, <2>3, FS_Union
  <2>7. Cardinality(Beyond) \in Nat /\ Cardinality(Late \cap Beyond) \in Nat
    <3>1. Late \cap Beyond \in SUBSET Late
      OBVIOUS
    <3>2. IsFiniteSet(Late \cap Beyond)
      BY <3>1, <1>4, FS_Subset
    <3> QED BY <2>3, <3>2, FS_CardinalityType
  <2>8. Cardinality(Unseen') <= Cardinality(Late \cup Beyond) /\ Cardinality(Unseen') \in Nat
    BY <2>5, <2>6, FS_Subset, FS_CardinalityType
  <2>9. Cardinality(Late \cup Beyond) <= Cardinality(Late) + Cardinality(Beyond)
    BY <2>6, <2>7, <1>4
  <2>10. Cardinality(Late) + Cardinality(Beyond) <= slipped + entered
    BY <2>1, <2>3, <2>7, <1>2, <1>4
  <2> QED BY <2>6, <2>7, <2>8, <2>9, <2>10, <1>2, <1>4, FS_CardinalityType
<1> QED BY <1>0, <1>6, <1>7 DEF Paged, p, z

LEMMA QueryPaged ==
  ASSUME Typed, Paged, Query
  PROVE  Paged'
<1> DEFINE st == Plan(reader.kind)[at + 1]
<1> HIDE DEF st
<1>1. /\ at' = at + 1 /\ at \in Nat /\ at < Length(reader.kind)
      /\ UNCHANGED <<rows, reader, seen, unchanged, slipped, entered>>
      /\ answer'[st] \in Returned(st)
      /\ DOMAIN answer' = DOMAIN answer \cup {st}
      /\ \A s \in DOMAIN answer \ {st} : answer'[s] = answer[s]
  BY QueryAnswers DEF st
<1> SUFFICES ASSUME Listing PROVE Paged'
  BY <1>1 DEF Paged, Listing
<1>2. /\ Plan(reader.kind)[1] = "count" /\ Plan(reader.kind)[2] = "find"
      /\ reader.kind = "decision" => Plan(reader.kind)[3] = "revisions"
      /\ DOMAIN answer = {Plan(reader.kind)[n] : n \in 1 .. at}
  BY Question, Statements DEF Listing, Typed, Account
<1>3. Kept' = Kept /\ (\A i : Rank(i)' = Rank(i)) /\ Selected(rows)' = Selected(rows)
  BY <1>1 DEF Kept, Alone, Rank, Above, Before, Selected
<1>4. CASE at = 0
  <2>1. answer'["count"] = Cardinality(Selected(rows))
    BY <1>1, <1>2, <1>4, Returns DEF st
  <2>2. Late' = Late
    BY <1>1, <1>3, <1>4 DEF Late, Unseen, Passed
  <2>3. Cardinality(Selected(rows)) \in Nat /\ entered \in Nat
    BY SelectedRows DEF Typed, Account
  <2> QED BY <2>1, <2>2, <2>3, <1>1, <1>3, <1>4 DEF Paged
<1>5. CASE at = 1
  <2>1. PICK s \in Orders : answer'["find"] = [i \in PageOf(s) |-> rows[i]]
    BY <1>1, <1>2, <1>5, Returns DEF st
  <2>2. answer'["count"] = answer["count"]
    BY <1>1, <1>2, <1>5 DEF st
  <2>3. at' = 2
    BY <1>1, <1>5
  <2> QED BY <2>1, <2>2, <2>3, <1>1, <1>5, FindPaged
<1>6. CASE at >= 2
  <2>1. at = 2 /\ reader.kind = "decision"
    BY <1>1, <1>6 DEF Length, Listing
  <2>2. st = "revisions"
    BY <2>1, <1>2 DEF st
  <2>3. 1 \in 1 .. at /\ 2 \in 1 .. at
    BY <2>1
  <2>4. "count" \in DOMAIN answer /\ "find" \in DOMAIN answer
    BY <2>3, <1>2
  <2>5. answer'["count"] = answer["count"] /\ answer'["find"] = answer["find"]
    BY <1>1, <2>2, <2>4
  <2>6. Unseen' = Unseen /\ Passed' = Passed
    BY <1>1, <1>3, <2>1, <2>5 DEF Unseen, Passed
  <2>7. Late' = Late
    BY <1>3, <2>6 DEF Late
  <2> QED BY <2>1, <2>5, <2>6, <2>7, <1>1 DEF Paged
<1> QED BY <1>1, <1>4, <1>5, <1>6

LEMMA TurnPaged ==
  ASSUME Typed, Paged, TurnPage
  PROVE  Paged'
<1>1. /\ UNCHANGED <<rows, unchanged, slipped>> /\ seen' = seen \cup DOMAIN answer["find"]
      /\ reader' = [reader EXCEPT !.page = @ + 1] /\ at' = 0
      /\ Listing /\ at >= 2
  BY TurnPageTyped DEF TurnPage
<1>2. reader \in Listers
  BY <1>1 DEF Typed, Asking, Listing
<1>3. reader'.kind = reader.kind /\ reader'.page = reader.page + 1 /\ reader'.size = reader.size
  BY <1>1, <1>2 DEF Listers
<1>4. Kept' = Kept /\ (\A i : Rank(i)' = Rank(i))
  BY <1>1, <1>3 DEF Kept, Alone, Rank, Above, Before, Selected
<1>5. Unseen' = Unseen
  BY <1>1, <1>4 DEF Unseen
<1>6. Passed' = Passed
  <2>1. reader.page \in Nat
    BY <1>2 DEF Listers
  <2>2. Passed = reader.page * reader.size
    BY <1>1 DEF Passed
  <2>3. Passed' = (reader'.page - 1) * reader'.size
    <3>1. ~(at' >= 2)
      BY <1>1
    <3> QED BY <3>1 DEF Passed
  <2>4. reader'.page - 1 = reader.page
    BY <2>1, <1>3
  <2> QED BY <2>2, <2>3, <2>4, <1>3
<1>7. Late' = Late
  BY <1>4, <1>5, <1>6 DEF Late
<1> QED BY <1>1, <1>7 DEF Paged

(* Of the rows that nobody touched while all pages were read, no more are  *)
(* missed than others left the selection, sank in it or came in between    *)
(* the last count and its page: for any table, any number of writes with   *)
(* times in any order, and any size of pages that the server applies.      *)
THEOREM PagesMissFew == Spec => []PagesMissOnlyWhatSlipped
<1>1. Init => Paged
  <2> SUFFICES ASSUME Init, Listing
               PROVE  Cardinality(Late) <= slipped /\ at = 0
    BY DEF Paged
  <2>1. Typed /\ at = 0 /\ slipped = 0 /\ reader.page = 1
    BY InitTyped DEF Init, Readers, Listing
  <2>2. reader.size \in Nat
    BY <2>1, Question DEF Typed
  <2>3. Passed = 0
    BY <2>1, <2>2 DEF Passed
  <2>4. Late = {}
    BY <2>1, <2>3, AboveFinite DEF Late, Typed
  <2> QED BY <2>1, <2>4, FS_EmptySet
<1>2. Typed /\ Paged /\ [Next]_vars => Paged'
  <2>1. ASSUME UNCHANGED vars, Paged PROVE Paged'
    BY <2>1 DEF vars, Paged, Late, Unseen, Kept, Alone, Rank, Above, Before, Selected, Passed,
                Listing
  <2> QED BY <2>1, WrotePaged, QueryPaged, TurnPaged, Writers DEF Next, Typed
<1>3. Typed /\ Paged => PagesMissOnlyWhatSlipped
  <2> SUFFICES ASSUME Typed, Paged, Over, Listing, reader.size = reader.asked
               PROVE  Cardinality(Missed) <= slipped + entered
    BY DEF PagesMissOnlyWhatSlipped
  <2>1. at = Length(reader.kind)
    BY Question, PlanLengths DEF Over, Answered, Typed
  <2>2. at >= 2
    BY <2>1 DEF Length, Listing
  <2>3. Missed = Unseen
    BY <2>2 DEF Missed, Unseen, Kept
  <2> QED BY <2>2, <2>3 DEF Paged, Over
<1> QED BY <1>1, <1>2, <1>3, TypeInvariance, PTL DEF Spec
=============================================================================
