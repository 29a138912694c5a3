---------------------- MODULE QueryManagerDistributed -----------------------
(* The query manager of the distributed version, as functions of its state:    *)
(* QueryManagerDistributed, with the parts of QueryManagerBase it runs and the  *)
(* rebuild status that QueryExecutionState keeps for several shiftbosses.  The  *)
(* module QueryManager shows what general plans do; here a plan is a chain of   *)
(* operators, each of which streams from the one before it or waits for its end. *)
EXTENDS Integers, SequencesExt

CONSTANTS
  Query,
  Plan,        \* Plan[q]: the operators of query q, first to last
  Deployments, \* Deployments[q]: its LIP filter deployments, each the set of its filters
  None

Op == UNION {{<<q, i>> : i \in DOMAIN Plan[q]} : q \in Query}
Info(o) == Plan[o[1]][o[2]]
OpsOf(q) == {o \in Op : o[1] = q}

(* work: work orders an operator generates once its input is complete;          *)
(* stream: it generates one for every block of the operator before it instead;  *)
(* rebuild: it has an insert destination.  The other fields are about placement. *)
ASSUME PlanAssumption ==
  \A q \in Query : \A i \in DOMAIN Plan[q] :
    /\ Plan[q][i].work \in Nat
    /\ Plan[q][i].stream \in BOOLEAN /\ Plan[q][i].rebuild \in BOOLEAN
    /\ i = 1 => ~Plan[q][i].stream

OpState ==
  [pending : Nat, queued : Nat, doneGen : BOOLEAN, finished : BOOLEAN,
   initiated : BOOLEAN, rebuilds : Int, rebuilt : SUBSET Nat]

NewOp == [pending |-> 0, queued |-> 0, doneGen |-> FALSE, finished |-> FALSE,
          initiated |-> FALSE, rebuilds |-> 0, rebuilt |-> {}]

Executed(ops, q) == \A o \in OpsOf(q) : ops[o].finished

-----------------------------------------------------------------------------
(* A handler takes and returns the states of the operators and, in "out", the   *)
(* operators whose rebuild it has broadcast.                                    *)

(* Mutant: work orders at the shiftbosses are not waited for. *)
NothingPending(s) == s.pending = 0 /\ s.doneGen

CheckNormalExecutionOver(s) == s.pending = 0 /\ s.queued = 0 /\ s.doneGen

(* Mutant: the shiftbosses that have answered are not counted. *)
NoRebuildLeft(s, n) == s.rebuilds = 0

(* hasRebuildFinished(): every one of the n shiftbosses has said how many       *)
(* rebuild work orders it has, and all of them are done.                        *)
HasRebuildFinished(s, n) == Cardinality(s.rebuilt) = n /\ s.rebuilds = 0

InitiateRebuild(r, o) ==
  [ops |-> [r.ops EXCEPT ![o].initiated = TRUE, ![o].rebuilds = 0], out |-> Append(r.out, o)]

(* fetchNormalWorkOrders() of an operator whose input is complete. *)
FetchNormalWorkOrders(ops, o) ==
  [ops EXCEPT ![o].doneGen = TRUE,
              ![o].pending = @ + (IF Info(o).stream THEN 0 ELSE Info(o).work)]

RECURSIVE MarkOperatorFinished(_, _)

(* What becomes of an operator that has no work left to wait for. *)
EndWithoutWork(r, o) ==
  IF Info(o).rebuild THEN InitiateRebuild(r, o) ELSE MarkOperatorFinished(r, o)

MarkOperatorFinished(r, o) ==
  LET done == [r.ops EXCEPT ![o].finished = TRUE]
      next == <<o[1], o[2] + 1>>
      fetched == FetchNormalWorkOrders(done, next)
  IN IF next \notin Op THEN [r EXCEPT !.ops = done]
     ELSE IF ~CheckNormalExecutionOver(fetched[next]) THEN [r EXCEPT !.ops = fetched]
     ELSE EndWithoutWork([r EXCEPT !.ops = fetched], next)

(* The constructor. *)
Construct(ops, q) ==
  LET first == <<q, 1>>
      r == [ops |-> FetchNormalWorkOrders(ops, first), out |-> << >>]
  IN IF Info(first).work > 0 THEN r ELSE EndWithoutWork(r, first)

ProcessWorkOrderComplete(ops, o) ==
  LET r == [ops |-> [ops EXCEPT ![o].queued = @ - 1], out |-> << >>]
  IN IF CheckNormalExecutionOver(r.ops[o]) THEN EndWithoutWork(r, o) ELSE r

ProcessRebuildWorkOrderComplete(ops, o, n) ==
  LET r == [ops |-> [ops EXCEPT ![o].rebuilds = @ - 1], out |-> << >>]
  IN IF r.ops[o].initiated /\ HasRebuildFinished(r.ops[o], n) THEN MarkOperatorFinished(r, o) ELSE r

(* Mutant: a response that starts no rebuild work order is not looked at again. *)
RecordInitiateRebuildResponse(ops, o, num, index, n) ==
  [ops |-> [ops EXCEPT ![o].rebuilds = @ + num, ![o].rebuilt = @ \cup {index}], out |-> << >>]

ProcessInitiateRebuildResponse(ops, o, num, index, n) ==
  LET r == [ops |-> [ops EXCEPT ![o].rebuilds = @ + num, ![o].rebuilt = @ \cup {index}], out |-> << >>]
  IN IF HasRebuildFinished(r.ops[o], n) THEN MarkOperatorFinished(r, o) ELSE r

(* processDataPipelineMessage(): a block of o for the operator that streams it. *)
ProcessDataPipeline(ops, o) ==
  LET next == <<o[1], o[2] + 1>>
  IN IF next \in Op /\ Info(next).stream THEN [ops EXCEPT ![next].pending = @ + 1] ELSE ops

(* getNextWorkOrderMessage(), called until it returns null or "share" work      *)
(* orders of the query are collected: operators with lower index first.         *)
Lower(ops, o) == MapThenSumSet(LAMBDA p : ops[p].pending, {p \in OpsOf(o[1]) : p[2] < o[2]})
NextWorkOrders(ops, o, share) == Max({0, Min({ops[o].pending, share - Lower(ops, o)})})

-----------------------------------------------------------------------------
(* computeLipFilterEquivalenceClasses(): the group of each filter.  Groups are   *)
(* merged into the one with the lowest index, which the filters of the present   *)
(* deployment get.                                                              *)
LipFilterGroups ==
  LET Deploy(r, ids) ==
        LET known == {r.index[f] : f \in ids \cap DOMAIN r.index}
            group == IF known = {} THEN Cardinality(r.groups) ELSE Min(known)
        IN [index |-> [f \in ids \cup DOMAIN r.index |-> IF f \in ids THEN group ELSE r.index[f]],
            groups |-> (r.groups \ known) \cup {group}]
  IN [q \in Query |-> FoldLeft(Deploy, [index |-> << >>, groups |-> {}], Deployments[q]).index]

(* What has an entry in shiftboss_indexes_for_*: the hash table, aggregation     *)
(* state or nested loops join of a work order, and the group of its first filter. *)
StateOf(o) == <<o[1], Info(o).key>>
GroupOf(o) == <<o[1], "lip", LipFilterGroups[o[1]][Info(o).lip]>>
Placed == {StateOf(o) : o \in {p \in Op : Info(p).key # None}}
            \cup {GroupOf(o) : o \in {p \in Op : Info(p).lip # None}}

(* The entries of a work order of o: the first that is set decides where it goes, *)
(* and if none of the state's own is, both are set.                             *)
Entries(o) == ({StateOf(o)} \cap Placed) \cup (IF Info(o).lip = None THEN {} ELSE {GroupOf(o)})
=============================================================================
