---------------------------- MODULE MCLockManager ---------------------------
(* Instances of LockManager: a database with two relations.                    *)
EXTENDS LockManager

T1 == 1
T2 == 2
Db == <<0>>
A == <<0, 1>>
B == <<0, 2>>

Ask(t, r, m) == [tid |-> t, rid |-> r, mode |-> m]

(* Two transactions that lock two relations in opposite orders, in shared,     *)
(* intention and exclusive mode.                                               *)
TwoRelations == {Db, A, B}
Crossing == {Ask(T1, A, "S"), Ask(T1, B, "X"), Ask(T2, B, "S"), Ask(T2, A, "IX")}
=============================================================================
