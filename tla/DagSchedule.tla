----------------------------- MODULE DagSchedule -----------------------------
(* What a query manager promises about a query plan, without work orders,      *)
(* blocks, messages or workers: an operator starts working only after its      *)
(* blocking producers are done, and is done only after all its producers are.  *)
CONSTANTS Op, Link, Breaker
VARIABLES active, done

Init == active = {} /\ done = {}

Start(S) ==
  /\ \A o \in S : \A p \in Op : <<p, o>> \in Breaker => p \in done
  /\ active' = active \cup S
  /\ UNCHANGED done

Finish(o) ==
  /\ \A p \in Op : <<p, o>> \in Link => p \in done
  /\ active' = active \cup {o}
  /\ done' = done \cup {o}

Next == (\E S \in SUBSET Op : Start(S)) \/ (\E o \in Op : Finish(o))

Spec == Init /\ [][Next]_<<active, done>>
=============================================================================
