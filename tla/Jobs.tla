--------------------------------- MODULE Jobs --------------------------------
(***************************************************************************)
(* The bulk dossier job: a Celery task (app/workers/tasks.py) that renders *)
(* a dossier for each student, packs and stores them, and keeps its state  *)
(* in a Redis key that the archive route polls (routes/archive.py).        *)
(*                                                                         *)
(*   POST /archive/dossiers/bulk         Start                             *)
(*   generate_bulk_dossiers_task         Take, Render, Pack, Upload,       *)
(*                                       Report                            *)
(*   GET  /archive/dossiers/jobs/{id}    Polled                            *)
(*                                                                         *)
(* A student that cannot be rendered queues the whole task again, with the *)
(* next number of retries; the exception by which Celery would end the run *)
(* is swallowed, and the run goes on.  The broker redelivers the task of a *)
(* worker that was lost (task_acks_late), or counts it as failed.          *)
(***************************************************************************)
EXTENDS Integers, FiniteSets

CONSTANTS
  Workers,      \* worker processes
  Dossiers,     \* how many students the job is about
  Faulty,       \* positions of students that may fail to render
  MaxRetries,   \* of the task (3 in the code)
  MaxCrashes    \* bound on the workers lost

ASSUME JobsAssumption ==
  /\ IsFiniteSet(Workers) /\ Dossiers \in Nat \ {0}
  /\ Faulty \subseteq 1..Dossiers
  /\ MaxRetries \in Nat /\ MaxCrashes \in Nat

VARIABLES
  queue,     \* number of retries |-> messages of the job that carry it
  run,       \* worker |-> the run it is in
  state,     \* the Redis key of the job, or "none"
  file,      \* the ZIP is in the bucket
  runs,      \* history: runs that were begun
  crashes,   \* workers lost so far
  broken     \* history: a run ended without a last word

vars == <<queue, run, state, file, runs, crashes, broken>>

Levels == 0..MaxRetries
Runs == [pc: {"idle", "render", "upload", "report"}, retries: Levels,
         next: Nat, rendered: Nat]
Resting == [pc |-> "idle", retries |-> 0, next |-> 1, rendered |-> 0]
Running == {w \in Workers : run[w].pc # "idle"}
Queued == {k \in Levels : queue[k] > 0}
Ended(w) == [run EXCEPT ![w] = Resting]

Init ==
  /\ queue = [k \in Levels |-> 0]
  /\ run = [w \in Workers |-> Resting]
  /\ state = "none" /\ file = FALSE
  /\ runs = 0 /\ crashes = 0 /\ broken = FALSE

-----------------------------------------------------------------------------
(* delay(): the job id is new, and nothing is known of it yet.             *)
Start ==
  /\ runs = 0 /\ Queued = {}
  /\ queue' = [queue EXCEPT ![0] = 1]
  /\ UNCHANGED <<run, state, file, runs, crashes, broken>>

(* A worker takes one message at a time (worker_prefetch_multiplier).      *)
Take(w) ==
  /\ run[w].pc = "idle"
  /\ \E k \in Queued :
       /\ queue' = [queue EXCEPT ![k] = @ - 1]
       /\ run' = [run EXCEPT ![w] = [Resting EXCEPT !.pc = "render", !.retries = k]]
  /\ state' = "RUNNING"
  /\ runs' = runs + 1
  /\ UNCHANGED <<file, crashes, broken>>

\* Mutant: one retry more than max_retries.
MayRetryOnceMore(w) == run[w].retries <= MaxRetries
(* self.retry: beyond max_retries it raises the exception it was given.    *)
MayRetry(w) == run[w].retries < MaxRetries
Requeued(w) == [queue EXCEPT ![IF run[w].retries < MaxRetries THEN run[w].retries + 1
                               ELSE MaxRetries] = @ + 1]

(* The next student: rendered, or failed and the task queued again.        *)
Render(w) ==
  /\ run[w].pc = "render" /\ run[w].next <= Dossiers
  /\ \/ /\ run' = [run EXCEPT ![w].next = @ + 1, ![w].rendered = @ + 1]
        /\ state' = "RUNNING"
        /\ UNCHANGED queue
     \/ /\ run[w].next \in Faulty
        /\ run' = [run EXCEPT ![w].next = @ + 1]
        /\ queue' = IF MayRetry(w) THEN Requeued(w) ELSE queue
        /\ UNCHANGED state
  /\ UNCHANGED <<file, runs, crashes, broken>>

\* Mutant: a run without a dossier just returns.
PackSilently(w) ==
  /\ run[w].pc = "render" /\ run[w].next > Dossiers
  /\ run' = IF run[w].rendered = 0 THEN Ended(w) ELSE [run EXCEPT ![w].pc = "upload"]
  /\ UNCHANGED <<queue, state, file, runs, crashes, broken>>
(* Without a dossier the job has failed; otherwise they are packed.        *)
Pack(w) ==
  /\ run[w].pc = "render" /\ run[w].next > Dossiers
  /\ IF run[w].rendered = 0
     THEN run' = Ended(w) /\ state' = "FAILED"
     ELSE run' = [run EXCEPT ![w].pc = "upload"] /\ UNCHANGED state
  /\ UNCHANGED <<queue, file, runs, crashes, broken>>

\* Mutant: the state is reported before the upload.
UploadReported(w) ==
  /\ run[w].pc = "upload"
  /\ \/ /\ run' = [run EXCEPT ![w].pc = "report"] /\ file' = TRUE
        /\ UNCHANGED broken
     \/ run' = Ended(w) /\ broken' = TRUE /\ UNCHANGED file
  /\ state' = "DONE"
  /\ UNCHANGED <<queue, runs, crashes>>
(* upload_bytes stores the ZIP under the key of the job, or raises: then   *)
(* the run ends and leaves the state as it was.                            *)
Upload(w) ==
  /\ run[w].pc = "upload"
  /\ \/ /\ run' = [run EXCEPT ![w].pc = "report"] /\ file' = TRUE
        /\ UNCHANGED broken
     \/ run' = Ended(w) /\ broken' = TRUE /\ UNCHANGED file
  /\ UNCHANGED <<queue, state, runs, crashes>>

Report(w) ==
  /\ run[w].pc = "report"
  /\ run' = Ended(w)
  /\ state' = "DONE"
  /\ UNCHANGED <<queue, file, runs, crashes, broken>>

-----------------------------------------------------------------------------
(* A worker is lost: its message is delivered again, or given up.          *)
Crash(w) ==
  /\ w \in Running /\ crashes < MaxCrashes
  /\ crashes' = crashes + 1
  /\ run' = Ended(w)
  /\ \/ queue' = [queue EXCEPT ![run[w].retries] = @ + 1] /\ UNCHANGED broken
     \/ broken' = TRUE /\ UNCHANGED queue
  /\ UNCHANGED <<state, file, runs>>

(* JOB_TTL after the last word the key expires.                            *)
Expire ==
  /\ state # "none" /\ state' = "none"
  /\ UNCHANGED <<queue, run, file, runs, crashes, broken>>

Next ==
  \/ Start \/ Expire
  \/ \E w \in Workers : \/ Take(w) \/ Render(w) \/ Pack(w) \/ Upload(w)
                        \/ Report(w) \/ Crash(w)

Spec == Init /\ [][Next]_vars
-----------------------------------------------------------------------------
(* get_dossier_job_status: not known before a worker has begun, and not    *)
(* any more after the time to live (404).                                  *)
Polled == IF state = "none" THEN "404" ELSE state

TypeOK ==
  /\ queue \in [Levels -> Nat] /\ runs \in Nat /\ crashes \in 0..MaxCrashes
  /\ run \in [Workers -> Runs]
  /\ state \in {"none", "RUNNING", "DONE", "FAILED"}
  /\ file \in BOOLEAN /\ broken \in BOOLEAN

(* Who is told that the job is done finds its file, whichever of its runs  *)
(* says so, and while others go on or fail.                                *)
DoneHasFile == Polled = "DONE" => file

(* A run is named by the failing students that led to it, one for each of  *)
(* its retries.                                                            *)
Retried == UNION {[1..k -> Faulty] : k \in Levels}
(* Each failing student of each run queues the task once more: the runs    *)
(* are the nodes of a tree of depth max_retries, and not more, for each    *)
(* delivery.                                                               *)
RunsAreBounded == runs <= (1 + crashes) * Cardinality(Retried)

(* When all runs have ended the job says DONE or FAILED until it is        *)
(* forgotten, however its runs overlapped; it stays RUNNING only if a run  *)
(* was lost or could not upload.                                           *)
SettledInTheEnd ==
  Running = {} /\ Queued = {} /\ ~broken => Polled # "RUNNING"
==============================================================================
