------------------------------ MODULE MCSiloTxn -----------------------------
(* Instances of SiloTxn for TLC.                                           *)
EXTENDS SiloTxn

Op1(op, k) == [op |-> op, key |-> k]
Txn(ops) == [ro |-> FALSE, ops |-> ops]
Snap(ops) == [ro |-> TRUE, ops |-> ops]

MCLoaded == <<"a">>
GetPut == Txn(<<Op1("get", "a"), Op1("put", "b")>>)
GetGrow == Txn(<<Op1("get", "b"), Op1("grow", "a")>>)
Removes == Txn(<<Op1("remove", "b"), Op1("remove", "a")>>)
GetBoth == Snap(<<Op1("get", "a"), Op1("get", "b")>>)

(* Two cores that conflict in every way.                                   *)
Conflicting == << <<{GetPut, Removes}, {GetPut}>>, <<{GetGrow, GetBoth}>>, <<>> >>

(* The key is deleted and collected on one core, while a second core       *)
(* inserts it again with another key and a third one reads both.           *)
RemoveA == Txn(<<Op1("remove", "a")>>)
Reinsert == Txn(<<Op1("put", "a"), Op1("put", "b")>>)
ReadBoth == Txn(<<Op1("get", "a"), Op1("get", "b")>>)

Collecting == << <<{RemoveA}>>, <<{Reinsert}>>, <<{ReadBoth}>> >>

MCWorkloads == {Conflicting, Collecting}
ReapWorkloads == {Collecting}
=============================================================================
