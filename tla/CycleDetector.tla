---------------------------- MODULE CycleDetector ---------------------------
(* The choice of deadlock victims: StronglyConnectedComponents and             *)
(* CycleDetector on the wait-for graph (DirectedGraph) of a DeadLockDetector.  *)
(* The graph is any graph on the nodes; the run of the algorithm is one step   *)
(* for the components and one per test of hasCycle().                          *)
EXTENDS Integers, Sequences, FiniteSets, SequencesExt

CONSTANTS
  NumNodes,    \* getNumNodes()
  SelfLoops    \* whether a node may wait for itself

Node == 0 .. NumNodes - 1

ASSUME NodesAssumption == NumNodes \in Nat \ {0} /\ SelfLoops \in BOOLEAN

VARIABLES
  edges,       \* outgoing_edges_ of all nodes
  component,   \* component_ids_, once they are computed
  victims,     \* nodes_to_kill
  closed       \* component ids chooseVictimsInComponent() has returned from

vars == <<edges, component, victims, closed>>

Unknown == [v \in Node |-> NumNodes]

(* Component ids, victims and the set of components done are in range.         *)
TypeOK ==
  /\ edges \in SUBSET (Node \X Node)
  /\ component \in [Node -> Node] \cup {Unknown}
  /\ victims \in SUBSET Node
  /\ closed \in SUBSET Node

Init ==
  /\ edges \in SUBSET {e \in Node \X Node : SelfLoops \/ e[1] # e[2]}
  /\ component = Unknown
  /\ victims = {}
  /\ closed = {}

(* An unordered_set is iterated in an order the code does not control: one of  *)
(* the permutations of the nodes.                                              *)
Orders == SetToSeqs(Node)
Ordered(S, p) == SelectSeq(p, LAMBDA v : v \in S)
AdjacentNodes(v) == {w \in Node : <<v, w>> \in edges}

-----------------------------------------------------------------------------
(* StronglyConnectedComponents *)

NothingMarked ==
  [marked |-> {}, component |-> Unknown, low |-> [v \in Node |-> 0],
   preorder |-> 0, components |-> 0, stack |-> << >>]

Enter(s, v) ==
  [s EXCEPT !.marked = @ \cup {v}, !.low[v] = s.preorder, !.preorder = @ + 1,
            !.stack = <<v>> \o @]

(* Mutant: the nodes of a finished component keep their low ids. *)
CloseComponentKeepLow(s, v) ==
  LET depth == CHOOSE i \in DOMAIN s.stack : s.stack[i] = v
      popped == {s.stack[i] : i \in 1 .. depth}
  IN [s EXCEPT !.stack = SubSeq(@, depth + 1, Len(@)),
               !.component = [w \in Node |-> IF w \in popped THEN s.components ELSE @[w]],
               !.components = @ + 1]

(* v is the root of a component: the nodes down to v leave the stack. *)
CloseComponent(s, v) ==
  LET depth == CHOOSE i \in DOMAIN s.stack : s.stack[i] = v
      popped == {s.stack[i] : i \in 1 .. depth}
  IN [s EXCEPT !.stack = SubSeq(@, depth + 1, Len(@)),
               !.component = [w \in Node |-> IF w \in popped THEN s.components ELSE @[w]],
               !.low = [w \in Node |-> IF w \in popped THEN NumNodes ELSE @[w]],
               !.components = @ + 1]

RECURSIVE DepthFirstSearch(_, _, _)
DepthFirstSearch(s, v, p) ==
  LET Visit(acc, w) ==
        LET t == IF w \in acc.s.marked THEN acc.s ELSE DepthFirstSearch(acc.s, w, p)
        IN [s |-> t, min |-> IF t.low[w] < acc.min THEN t.low[w] ELSE acc.min]
      r == FoldLeft(Visit, [s |-> Enter(s, v), min |-> s.preorder],
                    Ordered(AdjacentNodes(v), p))
  IN IF r.min < r.s.low[v] THEN [r.s EXCEPT !.low[v] = r.min]
                           ELSE CloseComponent(r.s, v)

ComponentIds(p) ==
  LET Search(s, v) == IF v \in s.marked THEN s ELSE DepthFirstSearch(s, v, p)
  IN FoldLeft(Search, NothingMarked, [i \in 1 .. NumNodes |-> i - 1]).component

FindStronglyConnectedComponents ==
  /\ component = Unknown
  /\ \E p \in Orders : component' = ComponentIds(p)
  /\ UNCHANGED <<edges, victims, closed>>

-----------------------------------------------------------------------------
(* CycleDetector *)

(* An adjacent node that was visited, v included, is taken for a cycle. *)
ClosesCycle(v, visited) == AdjacentNodes(v) \cap visited # {}

(* The loops of hasCycle(): toVisit is the stack, its top first. *)
RECURSIVE Explore(_, _, _, _)
Explore(toVisit, visited, nodes, p) ==
  IF toVisit # << >>
  THEN LET v == Head(toVisit)
           seen == visited \cup {v}
       IN IF ClosesCycle(v, seen) THEN TRUE
          ELSE Explore(Reverse(Ordered(AdjacentNodes(v) \cap nodes, p)) \o Tail(toVisit),
                       seen, nodes, p)
  ELSE LET left == Ordered(nodes \ visited, p)
       IN IF left = << >> THEN FALSE ELSE Explore(<<Head(left)>>, visited, nodes, p)

HasCycle(nodes, p) == Explore(<< >>, {}, nodes, p)

(* Mutant: the list of a component also has the nodes of the ones before it. *)
ComponentsUpTo(c) == {v \in Node : component[v] <= c}

Component(c) == {v \in Node : component[v] = c}

(* Mutant: two nodes do not make a cycle. *)
LargeCycle(nodes, p) == Cardinality(nodes) > 2 /\ HasCycle(nodes, p)

(* The loop goes on: there is a cycle left. *)
KeepTrying(nodes, p) == HasCycle(nodes, p)

(* chooseVictimsInComponent(): test, and remove the first node of the set or   *)
(* return.                                                                     *)
ChooseVictimsInComponent(c) ==
  /\ c \notin closed
  /\ Cardinality(Component(c)) > 1
  /\ \E p \in Orders :
       LET nodes == Component(c) \ victims
       IN IF KeepTrying(nodes, p)
          THEN victims' = victims \cup {Head(Ordered(nodes, p))} /\ UNCHANGED closed
          ELSE closed' = closed \cup {c} /\ UNCHANGED victims
  /\ UNCHANGED <<edges, component>>

(* chooseVictimsToBreakCycle() has nothing to do for a component of one node. *)
Finished ==
  component # Unknown
    /\ \A v \in Node : Cardinality(Component(component[v])) > 1 => component[v] \in closed

Next ==
  \/ FindStronglyConnectedComponents
  \/ \E c \in Node : ChooseVictimsInComponent(c)
  \/ Finished /\ UNCHANGED vars

Spec == Init /\ [][Next]_vars

-----------------------------------------------------------------------------
(* Properties. *)

(* A non-empty path from v to w inside the set S: w is in every set that has   *)
(* what v waits for and what its members wait for.                             *)
Path(S, v, w) ==
  \A T \in SUBSET S :
    (\A x \in T \cup {v} : AdjacentNodes(x) \cap S \subseteq T) => w \in T
OnCycle(S) == {v \in S : Path(S, v, v)}

(* depthFirstSearch() assigns two nodes the same component id exactly if there *)
(* is a path from each to the other, whatever order the edges are visited in.  *)
ComponentsCorrect ==
  component # Unknown =>
    \A v, w \in Node :
      component[v] = component[w] <=> v = w \/ (Path(Node, v, w) /\ Path(Node, w, v))

(* chooseVictimsToBreakCycle(): "Calculate which nodes should be killed to     *)
(* eliminate all cycles in the graph."                                         *)
AllCyclesBroken == Finished => OnCycle(Node \ victims) = {}

(* Only transactions that take part in a deadlock are killed. *)
VictimsDeadlocked == \A v \in victims : v \in OnCycle(Node)
=============================================================================
