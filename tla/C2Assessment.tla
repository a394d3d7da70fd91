---------------------------- MODULE C2Assessment ----------------------------
(***************************************************************************)
(* C2AssessmentSession on top of the media worker: the session thread      *)
(* starts an assessment of the drive's C2 pointers against a reference,    *)
(* may interrupt or cancel it, takes its result and shows the evidence     *)
(* only in the context it was gathered in.  The raw run itself (open,      *)
(* seek and read each reference sector, compare) is one operation of the   *)
(* worker; it looks at its cancellation and its deadline all along and     *)
(* once more at its end.                                                   *)
(***************************************************************************)
EXTENDS MediaWorker

CONSTANTS
    MaxContexts     \* bound: device generations, and disc or policy revisions

ASSUME ContextBound == MaxContexts \in Nat \ {0}

VARIABLES
    device,     \* device_observation.generation, as the session applied it
    revision,   \* disc_generation and policy_revision, in one number
    ready,      \* the device context was validated and its disc is loaded
    quiet,      \* gate.ready() and capture_idle: nothing plays or captures, and
                \* neither has a reader on the drive
    active, released, state,
    job,        \* job_, also next_job_
    reference,  \* is there a reference_?
    scope,      \* the device and revision the job was started under
    staged,     \* staged_: none or one result
    flag        \* flag_: none, or the evidence a completed run gave

contextVars == <<device, revision, ready, quiet, permitted>>
assessVars == <<active, released, state, job, reference, scope, staged, flag>>
c2Vars == <<vars, device, revision, ready, quiet, assessVars>>

NoEvidence == [known |-> FALSE, device |-> 0, revision |-> 0]
States == {"IDLE", "RUNNING", "CANCELLED", "INVALIDATED", "FAILED", "TIMED_OUT", "COMPLETE"}
RunOutcomes == {"complete", "cancelled", "timed_out", "failed", "error"}

Init ==
    /\ MediaInit /\ drive = "free" /\ permitted = 0
    /\ device = 0 /\ revision = 0 /\ ready = FALSE /\ quiet = TRUE
    /\ active = FALSE /\ released = TRUE /\ state = "IDLE" /\ job = 0
    /\ reference = FALSE /\ scope = NoEvidence /\ staged = <<>> /\ flag = NoEvidence

DeviceCurrent == ready /\ permitted = device

-----------------------------------------------------------------------------
(* The assessment's own operations; x is quiet or not, as the caller's     *)
(* context says.                                                           *)

\* Mutant: only the device is compared, not the disc and the policy.
SameDeviceOnly == reference /\ DeviceCurrent /\ scope.device = device

\* context_current()
ContextCurrent ==
    reference /\ DeviceCurrent /\ scope.device = device /\ scope.revision = revision

CanStart == ~active /\ DeviceCurrent /\ quiet /\ Idle

Start ==
    /\ CanStart /\ job < MaxJobs
    /\ RequestC2(job + 1)
    /\ job' = job + 1
    /\ reference' = TRUE
    /\ scope' = [known |-> TRUE, device |-> device, revision |-> revision]
    /\ staged' = <<>> /\ flag' = NoEvidence
    /\ state' = "RUNNING" /\ active' = TRUE /\ released' = FALSE
    /\ UNCHANGED <<contextVars, drive>>

\* Mutant: an interrupted run counts as released at once.
InterruptReleasing ==
    IF active
    THEN /\ CancelC2
         /\ staged' = <<>> /\ flag' = NoEvidence /\ state' = "CANCELLED"
         /\ released' = TRUE /\ active' = FALSE
    ELSE UNCHANGED <<mediaVars, staged, flag, state, released, active>>

\* interrupt(): whether the worker is done decides whether it is released.
Interrupt ==
    IF active
    THEN /\ CancelC2
         /\ staged' = <<>> /\ flag' = NoEvidence /\ state' = "CANCELLED"
         /\ released' = Idle' /\ active' = ~Idle'
    ELSE UNCHANGED <<mediaVars, staged, flag, state, released, active>>

\* cancel() of the present job; a finished one loses its evidence.
Cancel ==
    /\ job > 0
    /\ IF active
       THEN CancelC2 /\ released' = Idle' /\ active' = ~Idle'
       ELSE UNCHANGED <<mediaVars, released, active>>
    /\ flag' = NoEvidence /\ reference' = FALSE /\ staged' = <<>> /\ state' = "CANCELLED"
    /\ UNCHANGED <<job, scope, contextVars, drive>>

\* The session pops a result and offers it.
Offer ==
    /\ Pop
    /\ LET r == Head(results) IN
         IF r.work = "assess_c2" /\ r.job = job
         THEN /\ released' = TRUE
              /\ staged' = IF active /\ state = "RUNNING" /\ r.gen = scope.device
                           THEN <<r>> ELSE staged
         ELSE UNCHANGED <<released, staged>>
    /\ UNCHANGED <<active, state, job, reference, scope, flag, contextVars, drive>>

\* poll(), by what it finds.
Outdated == reference /\ (~ContextCurrent \/ (active /\ ~quiet))

PollOutdated ==
    /\ Outdated
    /\ IF active
       THEN CancelC2 /\ released' = Idle' /\ active' = ~Idle'
            /\ state' = IF Idle' THEN "INVALIDATED" ELSE "CANCELLED"
       ELSE UNCHANGED <<mediaVars, released, active>> /\ state' = "INVALIDATED"
    /\ reference' = FALSE /\ flag' = NoEvidence /\ staged' = <<>>
    /\ UNCHANGED <<job, scope, contextVars, drive>>

\* Mutant: only a result that comes back releases an interrupted run.
PollReleasingOnReport ==
    /\ ~Outdated /\ active /\ state = "CANCELLED" /\ released
    /\ active' = FALSE
    /\ UNCHANGED <<mediaVars, state, job, reference, scope, staged, flag, released, contextVars, drive>>

PollReleasing ==
    /\ ~Outdated /\ active /\ state = "CANCELLED"
    /\ released \/ Idle
    /\ active' = FALSE /\ released' = TRUE
    /\ UNCHANGED <<mediaVars, state, job, reference, scope, staged, flag, contextVars, drive>>

StateOf(o) ==
    CASE o = "complete" -> "COMPLETE" [] o = "cancelled" -> "CANCELLED"
      [] o = "timed_out" -> "TIMED_OUT" [] OTHER -> "FAILED"

PollStaged ==
    /\ ~Outdated /\ active /\ state # "CANCELLED" /\ staged # <<>>
    /\ staged' = <<>> /\ active' = FALSE /\ released' = TRUE
    /\ LET o == Head(staged).outcome IN
         /\ state' = IF ContextCurrent THEN StateOf(o) ELSE "INVALIDATED"
         /\ flag' = IF ContextCurrent /\ o = "complete" THEN scope ELSE flag
    /\ UNCHANGED <<mediaVars, job, reference, scope, contextVars, drive>>

-----------------------------------------------------------------------------
(* What the rest of the session does to an assessment.                     *)

\* The observer sees the device change: nothing is permitted any more.
DeviceChanges ==
    /\ permitted = device
    /\ permitted' = MaxContexts + 1
    /\ UNCHANGED <<mediaVars, device, revision, ready, quiet, assessVars, drive>>

\* apply_device_observation: interrupt, then invalidate.
InterruptThenInvalidate ==
    /\ observed' = device + 1
    /\ pending' = Nothing /\ cancelled' = TRUE /\ results' = <<>>
    /\ UNCHANGED <<runVars, closing>>
    /\ IF active
       THEN /\ staged' = <<>> /\ flag' = NoEvidence /\ state' = "CANCELLED"
            /\ released' = (stage = "idle") /\ active' = (stage # "idle")
       ELSE UNCHANGED <<staged, flag, state, released, active>>

ApplyDevice ==
    /\ permitted # device /\ device < MaxContexts
    /\ InterruptThenInvalidate
    /\ device' = device + 1 /\ permitted' = device + 1 /\ ready' = FALSE
    /\ UNCHANGED <<revision, quiet, job, reference, scope, drive>>

\* Media is polled and a TOC is read only while no assessment is busy; a
\* newly loaded disc has a generation of its own, and may start to play.
LoadDisc ==
    /\ ~active /\ released /\ permitted = device /\ revision < MaxContexts
    /\ ready' = TRUE /\ revision' = revision + 1
    /\ quiet' = quiet \/ quiet' = FALSE
    /\ UNCHANGED <<mediaVars, device, permitted, assessVars, drive>>

\* The disc is found to be loading or gone.
LoseDisc ==
    /\ ~active /\ released /\ ready
    /\ ready' = FALSE
    /\ UNCHANGED <<mediaVars, device, revision, quiet, permitted, assessVars, drive>>

\* A playback or policy command interrupts and is refused while the
\* interrupted run is being released; a policy is a new revision.
Command ==
    /\ Interrupt
    /\ IF active'
       THEN UNCHANGED <<quiet, revision>>
       ELSE \/ drive # "other" /\ quiet' = ~quiet /\ UNCHANGED revision
            \/ revision < MaxContexts /\ revision' = revision + 1 /\ UNCHANGED quiet
    /\ UNCHANGED <<device, ready, permitted, job, reference, scope, drive>>

\* Another user of the drive: the complete-PCM worker or the PCM reader.
OtherTakesDrive ==
    /\ ~quiet /\ drive = "free" /\ drive' = "other"
    /\ UNCHANGED <<mediaVars, contextVars, assessVars>>
OtherReturnsDrive ==
    /\ drive = "other" /\ drive' = "free"
    /\ UNCHANGED <<mediaVars, contextVars, assessVars>>

\* run_c2_assessment_with_toc: a run is complete only if it was still
\* allowed after its last sector, and its TOC check then passed.
Run ==
    /\ \E o \in RunOutcomes :
         /\ o = "complete" => Current(task.gen) /\ ~cancelled
         /\ Operate(o)
    /\ UNCHANGED <<contextVars, assessVars>>

Thread == (MediaStep /\ UNCHANGED <<contextVars, assessVars>>) \/ Run

Session == Start \/ Cancel \/ Offer \/ PollOutdated \/ PollReleasing \/ PollStaged
           \/ ApplyDevice \/ LoadDisc \/ LoseDisc \/ Command

\* The daemon goes away: the destructor waits for the thread.
Shutdown == Destroy /\ UNCHANGED <<contextVars, assessVars, drive>>

Next == (~closing /\ (Session \/ DeviceChanges \/ Shutdown)) \/ OtherTakesDrive \/ OtherReturnsDrive \/ Thread

Spec == Init /\ [][Next]_c2Vars

\* The worker runs, a drive operation returns, and the session takes results
\* and polls in every round of its loop.
C2Fairness ==
    /\ WF_c2Vars(Thread)
    /\ WF_c2Vars(~closing /\ (Offer \/ PollOutdated \/ PollReleasing \/ PollStaged))
    /\ WF_c2Vars(~closing /\ ApplyDevice)

FairSpec == Spec /\ C2Fairness

-----------------------------------------------------------------------------
\* Every variable holds a value of its type.
TypeOK ==
    /\ pending \in [work : {"none", "assess_c2"}, job : 0..MaxJobs]
    /\ task \in [work : {"none", "assess_c2"}, job : 0..MaxJobs, gen : 0..MaxContexts]
    /\ stage \in {"idle", "check", "wait", "admit", "operate", "judge", "finish", "exited"}
    /\ {cancelled, executed, spoilt, closing, active, released, reference, ready, quiet} \subseteq BOOLEAN
    /\ drive \in {"free", "media", "other"}
    /\ observed = device /\ {device, revision} \subseteq 0..MaxContexts
    /\ permitted \in 0..(MaxContexts + 1) /\ outcome \in Outcomes \cup RunOutcomes
    /\ state \in States /\ job \in 0..MaxJobs
    /\ flag \in [known : BOOLEAN, device : 0..MaxContexts, revision : 0..MaxContexts]

\* What is reported as released is: no assessment of this session holds a
\* reader on the drive, or is about to open one.  Capture, playback and the
\* media polls are let onto the drive on the strength of it.
ReleasedIsReal == released => ~(Busy /\ executed /\ stage = "operate")

\* A running job is never forgotten: its work is with the worker, its result
\* is waiting, or the device has changed and the session will interrupt it.
RunningHasWork ==
    (active /\ state = "RUNNING" /\ permitted = device /\ ~closing) =>
        \/ pending.work = "assess_c2" \/ Busy
        \/ results # <<>> \/ staged # <<>>

\* Only a result that nothing spoilt, of the last job and not cancelled, can
\* ever be taken from the worker.
ResultsAreWanted ==
    \A i \in DOMAIN results :
        /\ ~results[i].spoilt /\ results[i].gen = observed
        /\ results[i].job = job /\ ~cancelled

\* At most one thing is asked of the worker and not answered for.
OneAtATime ==
    Len(results) + (IF pending # Nothing THEN 1 ELSE 0) + (IF Busy THEN 1 ELSE 0) <= 1

\* flag() and response() show the evidence.
Shown == state = "COMPLETE" /\ ContextCurrent

\* The evidence that is shown was gathered on this device, this disc and
\* under this policy.
EvidenceInScope ==
    Shown => flag.known /\ flag.device = device /\ flag.revision = revision

\* What the session reports of its assessment is so: there is work behind a
\* running one and no reader behind a released one, and what the worker hands
\* over was asked for, once.
AssessmentIsTracked ==
    TypeOK /\ ReleasedIsReal /\ RunningHasWork /\ ResultsAreWanted /\ OneAtATime

\* An assessment ends, however it was disturbed: the session is free again
\* unless it is closing.  (The last disjunct is the bound on devices.)
AssessmentEnds == []<>(~active \/ closing \/ (permitted # device /\ device = MaxContexts))
=============================================================================
