------------------------------ MODULE VideoJobs ------------------------------
(***************************************************************************)
(* Video jobs of the HTTP server (entrypoints/openai/video_api.py): the    *)
(* handler that creates a job, the background task that has it generated   *)
(* by a replica and records its result in the store, deletion, and         *)
(* shutdown, beside the control calls of SchedulerClient.  Every step      *)
(* ends at an await: between two awaits nothing else runs.                 *)
(***************************************************************************)
EXTENDS SchedulerClient

CONSTANTS
    Jobs,
    Cloud,          \* whether cloud storage is enabled
    Budgets         \* how many faults, control calls and jobs a behaviour has

ASSUME JobsAssumption ==
    Cloud \in BOOLEAN /\ Budgets \subseteq [faults : Nat, calls : Nat, creates : Nat]

VARIABLES
    job,            \* handler and task of each job, its record and its files
    counter,        \* _replica_counter, modulo N
    up,             \* FALSE once shutdown_video_jobs has run
    creates         \* how many more jobs there may be

vars == <<worker, hung, client, faults, job, counter, up, creates>>

\* Where a job can be: in create_video ("saving", "enhancing", "preparing"), in
\* its task ("queued" until the task first runs), or over.  "left" and "cut"
\* are a handler and a task that ended without removing the temporary
\* directories.
Creating == {"saving", "enhancing", "preparing"}
Running  == {"queued", "generating", "validating", "uploading", "cleaning"}
Over     == {"refused", "left", "ended", "cut"}

\* store: the status of the record in VIDEO_STORE.  temp: temporary directories
\* on disk.  stuck: those that could not be removed.  file: the output is on disk.
\* keep: output_persistent.  late: what became of a generation that its task no
\* longer waits for.
NoJob == [pc |-> "none", store |-> "absent", deleted |-> FALSE, temp |-> {}, stuck |-> {},
          file |-> FALSE, url |-> FALSE, keep |-> FALSE, at |-> 0, late |-> "no"]

Init ==
    /\ ClientInit
    /\ \E b \in Budgets : faults = b.faults /\ calls = b.calls /\ creates = b.creates
    /\ job = [j \in Jobs |-> NoJob] /\ counter = 0 /\ up = TRUE

Set(j, r)  == job' = [job EXCEPT ![j] = r]
aside      == <<client, creates>>

\* rmtree with ignore_errors: a directory may stay, with what it holds.
Clean(r) == {[r EXCEPT !.temp = stuck, !.stuck = stuck,
                       !.file = @ /\ (r.keep \/ "output" \in stuck)] : stuck \in SUBSET r.temp}
-----------------------------------------------------------------------------
\* create_video up to its first await: the input directory is there.
Create(j) ==
    /\ up /\ job[j].pc = "none" /\ creates > 0
    /\ \E keep \in BOOLEAN :
         Set(j, [job[j] EXCEPT !.pc = "saving", !.temp = {"input"}, !.keep = keep])
    /\ creates' = creates - 1
    /\ UNCHANGED <<worker, hung, client, faults, counter, up>>

\* The inputs have been saved; without an output path there is a temporary one.
Saved(j) ==
    /\ job[j].pc = "saving"
    /\ Set(j, [job[j] EXCEPT !.pc = "enhancing",
                             !.temp = IF job[j].keep THEN @ ELSE @ \cup {"output"}])
    /\ UNCHANGED <<worker, hung, aside, faults, counter, up>>

\* A bad source or body, or the request is cancelled: nothing is removed.
SaveFails(j) ==
    /\ job[j].pc = "saving" /\ Set(j, [job[j] EXCEPT !.pc = "left"])
    /\ UNCHANGED <<worker, hung, aside, faults, counter, up>>

\* maybe_enhance_prompt and the sampling parameters.  The directories are removed
\* after the exceptions that the clause names, and after no other.
Enhanced(j) ==
    /\ job[j].pc = "enhancing"
    /\ \/ Set(j, [job[j] EXCEPT !.pc = "preparing"])
       \/ \E r \in Clean(job[j]) : Set(j, [r EXCEPT !.pc = "refused"])
       \/ Set(j, [job[j] EXCEPT !.pc = "left"])
    /\ UNCHANGED <<worker, hung, aside, faults, counter, up>>

\* prepare_video_request_for_queue; then the record and the task.  An exception
\* is cleaned up after, a cancellation is not.
Prepared(j) ==
    /\ job[j].pc = "preparing"
    /\ \/ Set(j, [job[j] EXCEPT !.pc = "queued", !.store = "queued"])
       \/ \E r \in Clean(job[j]) : Set(j, [r EXCEPT !.pc = "refused"])
       \/ Set(j, [job[j] EXCEPT !.pc = "left"])
    /\ UNCHANGED <<worker, hung, aside, faults, counter, up>>
-----------------------------------------------------------------------------
\* update_fields does nothing for a record that is gone.
RecordedAnyway(r, status) == [r EXCEPT !.store = status]
Recorded(r, status) == [r EXCEPT !.store = IF @ = "absent" THEN @ ELSE status]

\* The task runs for the first time: forward picks a replica and sends.
Dispatch(j) ==
    /\ job[j].pc = "queued"
    /\ Set(j, [job[j] EXCEPT !.pc = "generating", !.at = counter + 1])
    /\ counter' = (counter + 1) % N
    /\ UNCHANGED <<worker, hung, aside, faults, up>>

\* The replica generates, writes the output, which makes its directory if it is
\* not there, and answers.  Saving may raise when the output has been written.
Written(r) == [r EXCEPT !.file = TRUE,
                        !.temp = IF r.keep THEN @ ELSE @ \cup {"output"}]
Wrote(r, o) == IF o.ok THEN {Written(r)} ELSE IF o.fault THEN {r, Written(r)} ELSE {r}
Generated(j) ==
    /\ job[j].pc = "generating"
    /\ \E o \in Generates(job[j].at) :
         /\ Generation(job[j].at, o)
         /\ IF ~o.answers THEN UNCHANGED job
            ELSE \E r \in Wrote(job[j], o) :
                   IF o.ok THEN Set(j, [r EXCEPT !.pc = "validating"])
                   ELSE Set(j, [Recorded(r, "failed") EXCEPT !.pc = "cleaning"])
    /\ UNCHANGED <<aside, counter, up>>

\* No answer in time; the replica still has the request, or never got it.
GenerationTimeoutAgain(j) ==
    /\ job[j].pc = "generating" /\ TimesOut(job[j].at)
    /\ UNCHANGED <<worker, hung, aside, job, counter, up>>
GenerationTimeout(j) ==
    /\ job[j].pc = "generating" /\ TimesOut(job[j].at)
    /\ \E l \in {"no", "sent"} :
         Set(j, [Recorded(job[j], "failed") EXCEPT !.pc = "cleaning", !.late = l])
    /\ UNCHANGED <<worker, hung, aside, counter, up>>

GeneratedLate(j) ==
    /\ job[j].late = "sent"
    /\ \E o \in Generates(job[j].at) :
         /\ Generation(job[j].at, o)
         /\ \E r \in Wrote(job[j], o) :
              Set(j, [r EXCEPT !.late = IF r = job[j] THEN "no" ELSE "ran"])
    /\ UNCHANGED <<aside, counter, up>>

\* validate_video_final_outputs.  An output it rejects is removed, or, if that
\* raises, logged.
Validated(j) ==
    /\ job[j].pc = "validating"
    /\ \/ Set(j, [job[j] EXCEPT !.pc = "uploading"])
       \/ \E stays \in BOOLEAN :
            Set(j, [Recorded(job[j], "failed") EXCEPT !.pc = "cleaning", !.file = stays])
    /\ UNCHANGED <<worker, hung, aside, faults, counter, up>>

\* upload_and_cleanup: without cloud storage, or if it fails, there is no URL and
\* the file stays.
Uploaded(j) ==
    /\ job[j].pc = "uploading"
    /\ \E url \in {FALSE, Cloud} :
         Set(j, [Recorded(job[j], "completed") EXCEPT !.pc = "cleaning", !.url = url,
                                                     !.file = @ /\ ~url])
    /\ UNCHANGED <<worker, hung, aside, faults, counter, up>>

\* The finally clause: cleanup_video_request, then the directories.
Cleaned(j) ==
    /\ job[j].pc = "cleaning" /\ \E r \in Clean(job[j]) : Set(j, [r EXCEPT !.pc = "ended"])
    /\ UNCHANGED <<worker, hung, aside, faults, counter, up>>
-----------------------------------------------------------------------------
\* delete_video takes the record out of the store; the task goes on.
Delete(j) ==
    /\ up /\ job[j].store # "absent"
    /\ Set(j, [job[j] EXCEPT !.store = "absent", !.deleted = TRUE])
    /\ UNCHANGED <<worker, hung, aside, faults, counter, up>>

\* shutdown_video_jobs cancels every task at the await where it is.  One that has
\* never run does not run its finally clause, and one that is cancelled in that
\* clause does not finish it.
Cancelled(r) ==
    IF r.pc \in {"queued", "cleaning"} THEN {[r EXCEPT !.pc = "cut"]}
    ELSE IF r.pc = "generating"
    THEN {[r EXCEPT !.pc = "cleaning", !.late = l] : l \in {"no", "sent"}}
    ELSE IF r.pc \in {"validating", "uploading"} THEN {[r EXCEPT !.pc = "cleaning"]}
    ELSE {r}
Shutdown ==
    /\ up /\ \A j \in Jobs : job[j].pc \notin Creating
    /\ job' \in {f \in [Jobs -> UNION {Cancelled(job[j]) : j \in Jobs}] :
                    \A j \in Jobs : f[j] \in Cancelled(job[j])}
    /\ up' = FALSE
    /\ UNCHANGED <<worker, hung, aside, faults, counter>>
-----------------------------------------------------------------------------
Serves(j) == \/ Dispatch(j) \/ Generated(j) \/ GenerationTimeout(j)
             \/ Validated(j) \/ Uploaded(j) \/ Cleaned(j)

Next ==
    \/ up /\ ClientNext /\ UNCHANGED <<job, counter, up, creates>>
    \/ \E j \in Jobs : \/ Create(j) \/ Saved(j) \/ SaveFails(j) \/ Enhanced(j) \/ Prepared(j)
                       \/ Serves(j) \/ GeneratedLate(j) \/ Delete(j)
    \/ Shutdown

\* Awaits in a task end: a replica answers, or its socket times out if it has a
\* timeout, and the worker threads end.
Spec == Init /\ [][Next]_vars /\ \A j \in Jobs : WF_vars(Serves(j))

-----------------------------------------------------------------------------
\* The account of a job.  When its handler or its task has ended in the regular
\* way no temporary directory is left but those that could not be removed, unless
\* a generation that the task gave up wrote one again; a job that is deleted stays
\* deleted, although its task still updates it; a task that ends while the server
\* is up has settled the job; a completed job can be downloaded, if it was to be
\* kept; and an output that nobody asked to keep, rejected, late or half saved, is
\* never anywhere but in a temporary directory.
JobsAccounted ==
    \A j \in Jobs :
        LET r == job[j]
        IN /\ r.pc \in {"refused", "ended"} /\ r.late # "ran" => r.temp = r.stuck
           /\ r.deleted => r.store = "absent"
           /\ r.pc = "ended" /\ up => r.deleted \/ r.store \in {"completed", "failed"}
           /\ r.store = "completed" /\ r.keep => r.url \/ r.file
           /\ r.file /\ ~r.keep => "output" \in r.temp

\* With scheduler_rpc_timeout set, every job that is answered "queued" comes to the
\* end of its task, also while workers sleep, fail and change their weights, and
\* when its replica hangs because only some of its ranks have.
JobsSettle == RpcTimeout =>
    \A j \in Jobs : job[j].pc = "queued" ~> job[j].pc \in {"ended", "cut"}
=============================================================================
