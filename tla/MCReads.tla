------------------------------- MODULE MCReads -------------------------------
(* Reads on small instances. *)
EXTENDS Reads

(* What a summary is about may as well be written before its statements.   *)
MCFirstRows == [record |-> 3, decision |-> 2, audit |-> 3, summary |-> 0]

MostWrites == [record |-> 2, decision |-> 2, audit |-> 1, summary |-> 3]

WritesTo(i) == rows'[i].version - 1 + IF rows'[i].live THEN 0 ELSE 1

(* Few rows are written while the client reads. *)
FewWrites ==
  LET inserted == Len(rows') - FirstRows[reader.kind]
      written == IF reader.kind \in Domain THEN MapThenSumSet(WritesTo, DOMAIN rows') ELSE 0
  IN inserted + written <= MostWrites[reader.kind]
=============================================================================
