--------------------------- MODULE MCQueryManager ---------------------------
(* Query plans, as ExecutionGenerator builds them, on which QueryManager is    *)
(* model-checked.  A plan lists its operators' kinds, stored work orders and   *)
(* streamed inputs in index order.                                             *)
EXTENDS QueryManager, TLC

FromZero(s) == [o \in 0 .. Len(s) - 1 |-> s[o + 1]]

(* The edges in the order in which the planner creates them. *)
Edges(links) == {links[i] : i \in DOMAIN links}
CreationOrder(links) == [e \in Edges(links) |-> CHOOSE i \in DOMAIN links : links[i] = e]

(* A hash join of two selections: build side (0), BuildHash (1), probe side    *)
(* (2), HashJoin (3), DestroyHash (4), DropTable of the build side (5).        *)
JoinLinks   == << <<0, 1>>, <<0, 3>>, <<2, 3>>, <<1, 3>>, <<3, 4>>, <<1, 5>>, <<3, 5>> >>
JoinLink    == Edges(JoinLinks)
JoinBreaker == JoinLink \ {<<0, 1>>, <<2, 3>>}
JoinOrder   == CreationOrder(JoinLinks)
JoinKind    == FromZero(<<"stored", "stream", "stored", "probe", "stored", "stored">>)
JoinStored  == FromZero(<<1, 0, 1, 0, 1, 1>>)
JoinInput   == FromZero(<<{}, {0}, {}, {2}, {}, {}>>)

(* UNION ALL of two selections (0, 1) and a stored relation (2); the DropTable *)
(* of the first selection's output (3).                                        *)
UnionLinks   == << <<0, 2>>, <<1, 2>>, <<2, 3>> >>
UnionLink    == Edges(UnionLinks)
UnionBreaker == {<<2, 3>>}
UnionOrder   == CreationOrder(UnionLinks)
UnionKind    == FromZero(<<"stored", "stored", "union", "stored">>)
UnionStored  == FromZero(<<1, 1, 1, 1>>)
UnionInput   == FromZero(<<{}, {}, {0, 1}, {}>>)

(* A hash join whose probe side, an empty stored relation, is filtered with    *)
(* the build side's LIP filter: BuildHash (0), Select (1), HashJoin (2),       *)
(* DestroyHash (3).  LIPFilterGenerator adds the edge <<0, 1>> last.           *)
LipLinks   == << <<1, 2>>, <<0, 2>>, <<2, 3>>, <<0, 1>> >>
LipLink    == Edges(LipLinks)
LipBreaker == LipLink \ {<<1, 2>>}
LipOrder   == CreationOrder(LipLinks)
LipKind    == FromZero(<<"stored", "stored", "probe", "stored">>)
LipStored  == FromZero(<<1, 0, 0, 1>>)
LipInput   == FromZero(<<{}, {}, {1}, {}>>)

(* Transitive closure of a streamed edge relation (0) from a streamed start    *)
(* relation (1): BuildTransitiveClosure (2), TransitiveClosure (3).            *)
ClosureLinks   == << <<1, 2>>, <<0, 2>>, <<2, 3>> >>
ClosureLink    == Edges(ClosureLinks)
ClosureBreaker == {<<2, 3>>}
ClosureOrder   == CreationOrder(ClosureLinks)
ClosureKind    == FromZero(<<"stored", "stored", "closure", "stored">>)
ClosureStored  == FromZero(<<1, 1, 0, 1>>)
ClosureInput   == FromZero(<<{}, {}, {0, 1}, {}>>)

(* The join and the union are plans that the theorems on the end of operators  *)
(* apply to; in the plan with the LIP filter BuildHash reaches Select, upstream *)
(* of HashJoin, first, and the closure has two inputs for one flag.            *)
ASSUME OrderedPlans ==
  <<Link, Kind>> \in {<<JoinLink, JoinKind>>, <<UnionLink, UnionKind>>} =>
    OrderedPlan /\ InputsPipelined
ASSUME UnorderedPlan == <<Link, Kind>> = <<LipLink, LipKind>> => WellFormedPlan /\ ~DownstreamFirst

WorkerSymmetry == Permutations(Worker)
=============================================================================
