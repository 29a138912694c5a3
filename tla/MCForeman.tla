----------------------------- MODULE MCForeman ------------------------------
(* Batches of queries on which Foreman is model-checked. *)
EXTENDS Foreman

CONSTANTS q1, q2, ddl1, ddl2

(* Two queries and a statement without work orders at once, two of which wait; *)
(* then such a statement on its own.                                           *)
QueueingBatches == << <<q1, q2, ddl1>>, <<ddl2>> >>
=============================================================================
