---------------------------- MODULE MediaWorker ----------------------------
(***************************************************************************)
(* MediaWorker: one thread that runs the drive's status, TOC, eject, stop, *)
(* speed, probe and C2 assessment calls off the session thread, one at a   *)
(* time, under the device observation generation they were asked for.      *)
(*                                                                         *)
(* current(generation) first compares the worker's own generation and then *)
(* asks the observer; neither answer turns from no to yes, so both hold at *)
(* the moment of the first, and one step stands for the two reads.         *)
(***************************************************************************)
EXTENDS Naturals, Sequences, FiniteSets

CONSTANTS
    PlainWorks,  \* what request() takes: probe_drive, observe, read_toc, ...
    MaxJobs      \* bound: C2 jobs

ASSUME MediaConstants ==
    /\ {"none", "assess_c2"} \cap PlainWorks = {}
    /\ MaxJobs \in Nat

VARIABLES
    pending,     \* pending_, with its C2 job
    cancelled,   \* c2_cancelled_
    observed,    \* observation_generation_
    task,        \* what the thread works on: work, job, running_generation_
    stage,       \* where the thread is; busy_ is stage # "idle"
    executed,    \* the operation ran; after Judge: the result may be delivered
    outcome,     \* what it returned
    spoilt,      \* history: permission was lost while the operation ran
    results,
    closing,
    drive,       \* DriveAccessCoordinator: who holds the drive
    permitted    \* the generation the observer and the session both accept

requestVars == <<pending, cancelled, observed>>
runVars == <<task, stage, executed, outcome, spoilt>>
mediaVars == <<requestVars, runVars, results, closing>>
vars == <<mediaVars, drive, permitted>>

Works == PlainWorks \cup {"assess_c2"}
Outcomes == {"ok", "error"}
Nothing == [work |-> "none", job |-> 0]
NoTask == [work |-> "none", job |-> 0, gen |-> 0]

MediaInit ==
    /\ pending = Nothing /\ cancelled = FALSE /\ observed = 0
    /\ task = NoTask /\ stage = "idle" /\ executed = FALSE /\ outcome = "ok" /\ spoilt = FALSE
    /\ results = <<>> /\ closing = FALSE

Busy == stage \notin {"idle", "exited"}

Idle == ~Busy /\ pending = Nothing /\ results = <<>>
Retiring == Busy /\ task.gen # observed

Current(g) == ~closing /\ g = observed /\ g = permitted

-----------------------------------------------------------------------------
(* The session thread.                                                     *)

Request(work) ==
    /\ Idle /\ ~closing
    /\ work \in PlainWorks
    /\ pending' = [work |-> work, job |-> 0]
    /\ UNCHANGED <<cancelled, observed, runVars, results, closing>>

RequestC2(job) ==
    /\ Idle /\ ~closing
    /\ pending' = [work |-> "assess_c2", job |-> job]
    /\ cancelled' = FALSE
    /\ UNCHANGED <<observed, runVars, results, closing>>

\* The results of other work, in their order: what the erase() leaves.
OtherResults ==
    LET kept == {i \in DOMAIN results : results[i].work # "assess_c2"}
        before(i) == {j \in kept : j < i}
    IN  [k \in 1..Cardinality(kept) |->
            results[CHOOSE i \in kept : Cardinality(before(i)) = k - 1]]

CancelC2 ==
    /\ cancelled' = TRUE
    /\ pending' = IF pending.work = "assess_c2" THEN Nothing ELSE pending
    /\ results' = OtherResults
    /\ UNCHANGED <<observed, runVars, closing>>

Pop ==
    /\ results # <<>>
    /\ results' = Tail(results)
    /\ UNCHANGED <<requestVars, runVars, closing>>

\* invalidate(): the same generation again is no change.
Invalidate(g) ==
    IF g = observed
    THEN UNCHANGED mediaVars
    ELSE /\ observed' = g
         /\ pending' = Nothing /\ cancelled' = TRUE /\ results' = <<>>
         /\ UNCHANGED <<runVars, closing>>

Destroy ==
    /\ ~closing
    /\ closing' = TRUE
    /\ UNCHANGED <<requestVars, runVars, results>>

-----------------------------------------------------------------------------
(* The worker thread: run().                                               *)

Goto(label) == stage' = label /\ UNCHANGED <<task, executed, outcome, spoilt>>

Take ==
    /\ stage = "idle" /\ ~closing /\ pending # Nothing
    /\ stage' = "check"
    /\ task' = [work |-> pending.work, job |-> pending.job, gen |-> observed]
    /\ executed' = FALSE /\ outcome' = "ok" /\ spoilt' = FALSE
    /\ pending' = Nothing
    /\ UNCHANGED <<cancelled, observed, results, closing, drive>>

Exit ==
    /\ stage = "idle" /\ closing
    /\ Goto("exited")
    /\ UNCHANGED <<requestVars, results, closing, drive>>

\* A stale request does not wait for the drive.
CheckBeforeDrive ==
    /\ stage = "check"
    /\ Goto(IF Current(task.gen) THEN "wait" ELSE "judge")
    /\ UNCHANGED <<requestVars, results, closing, drive>>

Acquire ==
    /\ stage = "wait" /\ drive = "free"
    /\ drive' = "media"
    /\ Goto("admit")
    /\ UNCHANGED <<requestVars, results, closing>>

\* Mutant: a cancellation counts only before the request is taken.
AdmissibleThoughCancelled == Current(task.gen)

\* Mutant: what was current before the wait for the drive still is.
AdmissibleAsBefore == ~(task.work = "assess_c2" /\ cancelled)

\* What may start once the drive is held.
Admissible == Current(task.gen) /\ ~(task.work = "assess_c2" /\ cancelled)

AdmitOperation ==
    /\ stage = "admit" /\ Admissible
    /\ executed' = TRUE /\ stage' = "operate"
    /\ UNCHANGED <<task, outcome, spoilt, requestVars, results, closing, drive>>

RefuseOperation ==
    /\ stage = "admit" /\ ~Admissible
    /\ drive' = "free"
    /\ Goto("judge")
    /\ UNCHANGED <<requestVars, results, closing>>

\* The operation returns result o; the drive is free again.
Operate(o) ==
    /\ stage = "operate"
    /\ outcome' = o
    /\ drive' = "free"
    /\ stage' = "judge"
    /\ spoilt' = ~Current(task.gen)
    /\ UNCHANGED <<task, executed, requestVars, results, closing>>

\* Mutant: what an operation returned counts whatever happened meanwhile.
JudgeExecuted == executed

Deliverable == executed /\ Current(task.gen)

Judge ==
    /\ stage = "judge"
    /\ executed' = Deliverable
    /\ stage' = "finish"
    /\ UNCHANGED <<task, outcome, spoilt, requestVars, results, closing, drive>>

\* Under the lock once more: is the result still wanted?
Wanted ==
    /\ ~closing /\ task.gen = observed /\ executed
    /\ ~(task.work = "assess_c2" /\ cancelled)

Result == [work |-> task.work, job |-> task.job, gen |-> task.gen, outcome |-> outcome, spoilt |-> spoilt]

Finish ==
    /\ stage = "finish"
    /\ stage' = "idle" /\ task' = NoTask /\ executed' = FALSE /\ outcome' = "ok" /\ spoilt' = FALSE
    /\ results' = IF Wanted THEN Append(results, Result) ELSE results
    /\ UNCHANGED <<requestVars, closing, drive>>

\* Every step of the thread but the operation itself.
MediaStep ==
    \/ Take \/ Exit \/ CheckBeforeDrive \/ Acquire
    \/ AdmitOperation \/ RefuseOperation \/ Judge \/ Finish

-----------------------------------------------------------------------------
(* What this is to the session: MediaRequests.                             *)

\* The request that is with the worker; a pending one is of the generation
\* that is observed, since another would have cleared it.
Asked ==
    CASE pending # Nothing -> [work |-> pending.work, job |-> pending.job, gen |-> observed]
      [] pending = Nothing /\ Busy -> task
      [] OTHER -> NoTask

Phase ==
    CASE pending # Nothing \/ stage \in {"check", "wait", "admit"} -> "asked"
      [] stage = "operate" -> "running"
      [] stage \in {"judge", "finish"} /\ ~executed -> "refused"
      [] stage = "judge" /\ executed -> "returned"
      [] stage = "finish" /\ executed -> "kept"
      [] OTHER -> "none"

Standing ==
    /\ Phase # "none" /\ ~closing /\ Asked.gen = observed
    /\ ~(Asked.work = "assess_c2" /\ cancelled)

Allowed == Phase # "none" /\ Asked.gen = permitted

Answered == [i \in DOMAIN results |->
                [work |-> results[i].work, job |-> results[i].job, gen |-> results[i].gen]]

Promise == INSTANCE MediaRequests WITH
    Requests <- [work : Works, job : Nat, gen : Nat], NoRequest <- NoTask,
    request <- Asked, phase <- Phase, standing <- Standing, allowed <- Allowed, answers <- Answered

\* The worker keeps its promise: however requests, cancellations, device
\* changes and run() interleave, an operation begins only for a request that
\* stands and is allowed; its result is delivered, once, if the device did not
\* change until it was judged and nobody withdrew it until it is handed over;
\* and no other request is dropped without an answer.
ImplementsRequests == Promise!Spec
=============================================================================
