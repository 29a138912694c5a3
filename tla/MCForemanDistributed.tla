----------------------- MODULE MCForemanDistributed -------------------------
(* Plans, statements and nodes on which ForemanDistributed is model-checked.    *)
EXTENDS ForemanDistributed

CONSTANTS c1, c2, join, column, rows, insert, empty, scan, create

ClientsRun == {c1, c2}
QueriesRun == {join, column, rows, insert, empty, scan, create}

OpOf(work, rebuild, key, uses) ==
  [work |-> work, stream |-> FALSE, rebuild |-> rebuild, key |-> key, lip |-> None,
   located |-> TRUE, uses |-> uses]
Filtered(op, filter) == [op EXCEPT !.lip = filter]
Streaming(op) == [op EXCEPT !.work = 0, !.stream = TRUE]

(* join: two nested filter joins (BuildLIPFilter of f, BuildLIPFilter of g that   *)
(* tests f, a Select that tests g) under an aggregation of the Select's blocks;   *)
(* column and rows: aggregate and finalize, of an ANALYZE statement; insert: an   *)
(* INSERT; scan: a Select of two blocks; empty: a Select on an empty relation;    *)
(* create: a CREATE TABLE, which has no work order and no output to rebuild.      *)
PlanRun ==
  (join :> <<Filtered(OpOf(1, FALSE, None, {"f"}), "f"),
             Filtered(OpOf(1, FALSE, None, {"f", "g"}), "g"),
             Filtered(OpOf(2, TRUE, None, {"g"}), "g"),
             Streaming(OpOf(0, FALSE, "aggr", {"aggr"}))>>)
  @@ [q \in {column, rows} |-> <<OpOf(1, FALSE, "aggr", {"aggr"}), OpOf(1, TRUE, "aggr", {"aggr"})>>]
  @@ (insert :> <<[OpOf(1, TRUE, None, {}) EXCEPT !.located = FALSE]>>)
  @@ (empty :> <<OpOf(0, TRUE, None, {})>>)
  @@ (scan :> <<OpOf(2, TRUE, None, {})>>)
  @@ (create :> <<OpOf(0, FALSE, None, {})>>)

ScenariosRun ==
  {[nodes |-> 2, script |-> (c1 :> << <<join>> >>) @@ (c2 :> << >>)],
   [nodes |-> 2, script |-> (c1 :> << <<scan>> >>) @@ (c2 :> << >>)],
   [nodes |-> 2, script |-> (c1 :> << <<insert>> >>) @@ (c2 :> << <<empty>> >>)],
   [nodes |-> 2, script |-> (c1 :> << <<create>> >>) @@ (c2 :> << <<empty>> >>)],
   [nodes |-> 1, script |-> (c1 :> << <<column, rows>> >>) @@ (c2 :> << <<insert>> >>)]}
DeploymentsRun == [q \in QueriesRun |-> IF q = join THEN << {"f"}, {"f", "g"}, {"g"} >> ELSE << >>]
MaxBlocksRun == [q \in QueriesRun |-> IF q \in {join, scan} THEN 2 ELSE 1]
AnalyzeRun == [q \in QueriesRun |->
  CASE q = column -> "attribute" [] q = rows -> "tuples" [] OTHER -> "no"]

(* Two joins: BuildHash without a filter, BuildHash that builds one, and the      *)
(* HashJoin on the first hash table, which tests that filter.                    *)
PlanTwoJoins == (join :>
  <<OpOf(1, FALSE, "hash", {"hash"}),
    Filtered(OpOf(1, FALSE, "hash2", {"hash2", "f"}), "f"),
    OpOf(1, TRUE, "hash", {"hash", "f"})>>)
ScenariosTwoJoins == {[nodes |-> 2, script |-> (c1 :> << <<join>> >>)]}
DeploymentsTwoJoins == (join :> << {"f"}, {"f"} >>)
MaxBlocksTwoJoins == (join :> 1)
AnalyzeTwoJoins == (join :> "no")
=============================================================================
