----------------------------- MODULE MCEventLoop -----------------------------
(* Model-checking instances of EventLoop. *)
EXTENDS EventLoop, TLC

\* Posters of plain tasks, and the tasks of the loop, are interchangeable.
Symm == Permutations(Task) \cup Permutations(LoopTask)
=============================================================================
