---------------------------- MODULE MCTaskStore ----------------------------
(* Instances of TaskStore for TLC. *)
EXTENDS TaskStore, TLC

CONSTANTS p1, p2, a1, a2

Interchangeable == Permutations({p1, p2})

Input(i) == [id |-> i, owner |-> "keep", status |-> "keep",
             addBlocks |-> {}, addBlockedBy |-> {}]

\* Hand over, complete, delete; one new dependency in each direction between
\* the first two tasks; a task that names itself; one named in both lists.
SmallRequests ==
    {[Input(1) EXCEPT !.owner = a1],
     [Input(1) EXCEPT !.status = "completed"],
     [Input(1) EXCEPT !.status = "deleted"],
     [Input(2) EXCEPT !.status = "deleted"],
     [Input(1) EXCEPT !.addBlocks = {2}],
     [Input(1) EXCEPT !.addBlocks = {3}],
     [Input(2) EXCEPT !.addBlockedBy = {1}, !.status = "in_progress"],
     [Input(1) EXCEPT !.addBlocks = {1}, !.owner = a2],
     [Input(1) EXCEPT !.addBlocks = {2}, !.addBlockedBy = {2}]}
=============================================================================
