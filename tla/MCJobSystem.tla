----------------------------- MODULE MCJobSystem -----------------------------
(***************************************************************************)
(* Instances of JobSystem for TLC.                                         *)
(***************************************************************************)
EXTENDS JobSystem, TLC

CONSTANTS j1, j2, t1, t2, t3, th1, th2, c1, c2

\* One job with a task for each of two things.
OneJob == (t1 :> j1) @@ (t2 :> j1)
TwoThings == (t1 :> th1) @@ (t2 :> th2)

\* Two jobs, the second one with two tasks.
TwoJobs == (t1 :> j1) @@ (t2 :> j2) @@ (t3 :> j2)
ThreeTasks == (t1 :> th1) @@ (t2 :> th1) @@ (t3 :> th2)

\* With OneJob and TwoThings the tasks can be exchanged together with their
\* things, and the callers with each other: no other constant tells them apart.
TasksAlike == {(t1 :> t2) @@ (t2 :> t1) @@ (th1 :> th2) @@ (th2 :> th1)}
CallersAlike == Permutations({c1, c2})
Alike == TasksAlike \union CallersAlike
=============================================================================
