------------------------------- MODULE JobRepo -------------------------------
(***************************************************************************)
(* The tables job and job_task (job/entity.go, job/repo.go) and the        *)
(* statements the job package runs on them.                                *)
(*                                                                         *)
(* Only the status columns are kept: they are the columns that the         *)
(* scheduler reads back.  The store is SQLite with one connection (db/),   *)
(* so a statement, and a function passed to ExecWithTx, is one step; two   *)
(* statements outside ExecWithTx are two steps.                            *)
(*                                                                         *)
(* A job id is created at most once and its tasks are the ones JobOf gives *)
(* it, one for each thing of its target config.                            *)
(***************************************************************************)
EXTENDS Naturals, FiniteSets

CONSTANTS
  Jobs,          \* job ids
  Tasks,         \* task ids
  Things,        \* thing ids
  JobOf,         \* JobOf[t]: the job of task t
  ThingOf,       \* ThingOf[t]: the thing that task t is for
  DirectJobs     \* the jobs whose operation is $directMethod/...; the
                 \* operation of the other ones is $updateShadow/...

ASSUME RepoAssumption ==
  /\ IsFiniteSet(Jobs) /\ IsFiniteSet(Tasks)
  /\ JobOf \in [Tasks -> Jobs]
  /\ ThingOf \in [Tasks -> Things]
  /\ DirectJobs \subseteq Jobs

VARIABLES
  job,           \* job[j]: column status of job j, NoRow when there is no row
  task,          \* task[t]: column status of task t, NoRow when there is no row
  jobTimeout     \* the jobs whose column timeout_config is set

repoVars == <<job, task, jobTimeout>>
-----------------------------------------------------------------------------
NoRow == "NO_ROW"

\* The value of the Go type Status that is none of its constants.
NoStatus == ""

\* A *JobContext that is nil.
NoContext == "NIL"

JobStatus == {"WAITING", "IN_PROGRESS", "CANCELING", "CANCELED", "COMPLETED",
              "REMOVING"}

TaskStatus == {"QUEUED", "SENT", "IN_PROGRESS", "FAILED", "SUCCEEDED",
               "CANCELED", "TIMED_OUT", "REJECTED"}

IsJobToTerminal(s) == s \in {"CANCELING", "CANCELED", "REMOVING", "COMPLETED"}

IsJobTerminal(s) == s \in {"CANCELED", "COMPLETED"}

IsTaskTerminal(s) ==
  s \in {"FAILED", "SUCCEEDED", "TIMED_OUT", "REJECTED", "CANCELED"}

IsTaskOngoing(s) == s \in {"SENT", "IN_PROGRESS"}

TasksOf(j) == {t \in Tasks : JobOf[t] = j}

\* A Task value in memory (toTask): the id, and the status that the row had
\* when it was read.  No code updates the status of a Task value afterwards.
TaskCopy == Tasks \X TaskStatus

IdOf(m) == m[1]
StatusOf(m) == m[2]
JobOfCopy(m) == JobOf[m[1]]

CopiesOf(j, ms) == {m \in ms : JobOfCopy(m) = j}

\* ongoingTasks
OngoingTasks(ms) == {m \in ms : IsTaskOngoing(StatusOf(m))}

-----------------------------------------------------------------------------
(* Statements.                                                             *)

\* CreateJob: the insert, refused when the id exists; status has the
\* column's default.
InsertJob(j) ==
  /\ job[j] = NoRow
  /\ job' = [job EXCEPT ![j] = "WAITING"]

\* UpdateJob with a status: an UPDATE by primary key, so a job that has no
\* row stays without one.
JobWritten(j, s) == [job EXCEPT ![j] = IF @ = NoRow THEN NoRow ELSE s]

\* CreateTasks, its first statement: all rows of the job in one INSERT.
TasksInserted(j) ==
  [t \in Tasks |-> IF JobOf[t] = j THEN "QUEUED" ELSE task[t]]

\* Mutant of TasksCanceled: the WHERE on the status is forgotten.
TasksCanceledAll(j, force) ==
  [t \in Tasks |-> IF JobOf[t] = j /\ task[t] # NoRow
                   THEN "CANCELED" ELSE task[t]]

\* CancelTasks.
TasksCanceled(j, force) ==
  LET cancelable == IF force THEN {"QUEUED", "SENT", "IN_PROGRESS"}
                             ELSE {"QUEUED"}
  IN  [t \in Tasks |-> IF JobOf[t] = j /\ task[t] \in cancelable
                       THEN "CANCELED" ELSE task[t]]

\* The rows of job j with a status in ss, as Task values: GetTasksOfJob, the
\* second statement of CreateTasks, and the preload in GetPendingJobs.
ReadTasks(j, ss) ==
  {m \in TaskCopy : JobOfCopy(m) = j /\ task[IdOf(m)] = StatusOf(m)
                    /\ StatusOf(m) \in ss}

\* DELETE of a job's tasks (SQLite has no cascade here: a statement of its own).
TasksDeleted(j) ==
  [t \in Tasks |-> IF JobOf[t] = j THEN NoRow ELSE task[t]]

\* CountTaskStatus, as checkFinishJob uses the counts.
AllTasksTerminal(j) ==
  \A t \in TasksOf(j) : task[t] # NoRow => IsTaskTerminal(task[t])

\* GetPendingJobs: the jobs that a starting center picks up.
PendingRows ==
  {j \in Jobs : job[j] \in {"WAITING", "IN_PROGRESS", "CANCELING", "REMOVING"}}
=============================================================================
