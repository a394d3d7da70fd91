-------------------------- MODULE CompletePcmProofs --------------------------
(***************************************************************************)
(* Proofs about CompletePcm: for every length of the disc, size of a read  *)
(* and number of jobs, swaps and context changes, a result that is served  *)
(* is a whole disc, and a job that was stopped begins no call.             *)
(*                                                                         *)
(* CaptureInv is the inductive invariant.  What is served is decided at    *)
(* the end of a job, by its state; so the proof has to say of every moment *)
(* before what that state stands for: a job that still runs was not taken  *)
(* back (RunInv), the frames consumed are those of the discs read so far,  *)
(* and they are of disc 0 alone once the last TOC was the plan's (ReadInv, *)
(* ResultInv).  ShapeInv ties together the fields of a status, and what    *)
(* the session fetched last to what the worker has become; PlaceInv ties   *)
(* them to the place of the thread, its reader and the drive.              *)
(***************************************************************************)
EXTENDS CompletePcm, TLAPS

Places == {"idle", "ask", "wait", "reserve", "inflight", "returned", "finalize", "confirm", "end", "exited"}

SessionTypes ==
    /\ status \in Statuses
    /\ context \in 1..MaxContexts /\ plan \in 0..MaxContexts /\ jobs \in 0..MaxJobs
    /\ current \in BOOLEAN /\ gate \in BOOLEAN /\ mediaIdle \in BOOLEAN /\ manifest \in BOOLEAN

ThreadTypes ==
    /\ pc \in Places /\ call \in Calls /\ reader \in BOOLEAN /\ prepared \in BOOLEAN
    /\ nextLba \in 0..Length /\ toc \in 0..MaxSwaps

WorldTypes ==
    /\ queued \in BOOLEAN /\ closing \in BOOLEAN /\ jobOver \in BOOLEAN /\ callOver \in BOOLEAN
    /\ disc \in 0..MaxSwaps /\ content \subseteq 0..disc /\ disturbed \in BOOLEAN /\ late = FALSE
    /\ drive \in {"free", "capture", "other"}

\* The fields of a status: a job is busy until its reader is released, and
\* after that only while its result waits to be confirmed.
Shape(w) ==
    /\ w \in Statuses
    /\ w.pending <=> w.state = "prepared"
    /\ w.result <=> w.state = "complete"
    /\ w.phase = "prepared" <=> w.state = "prepared"
    /\ w.busy <=> ~w.released \/ w.state = "prepared"
    /\ w.state \in {"none", "prepared", "complete"} => w.released
    /\ w.state = "collecting" => ~w.released
    /\ w.inflight => ~w.released

ShapeInv ==
    /\ Shape(worker) /\ Shape(status)
    /\ ~worker.released => ~status.released
    /\ worker.state = "complete" <=> status.state = "complete"

\* A job is queued, or the thread is at it.
Active == queued \/ pc \notin {"idle", "exited"}

PlaceInv ==
    /\ worker.released <=> ~Active
    /\ queued => pc = "idle"
    /\ worker.inflight <=> pc = "inflight"
    /\ drive = "capture" <=> pc \in {"reserve", "inflight"}
    /\ reader => /\ pc \in {"ask", "wait", "reserve", "inflight", "returned", "finalize"}
                 /\ pc = "returned" => ~Cleanup
    /\ pc = "finalize" => call = "reading"
    /\ pc = "exited" => closing

\* A job that the session took back, or whose worker is destroyed, runs no
\* more and has no result.
RunInv ==
    /\ worker.state \in {"collecting", "prepared", "complete"} => ~disturbed
    /\ closing => ~Running(worker)

\* What was read so far.  A job that is only queued has read nothing yet.
ReadInv ==
    /\ pc = "finalize" \/ call = "final_toc" \/ prepared => nextLba = Length
    /\ prepared => Cleanup
    /\ prepared /\ pc \in {"end", "idle", "exited"} => TocMatches
    /\ ~queued /\ nextLba > 0 => content # {}
    /\ pc = "returned" /\ call = "reading" => content # {}
    /\ ~queued /\ (prepared \/ (pc = "returned" /\ call = "final_toc")) /\ TocMatches => content \subseteq {0}

ResultInv == worker.state \in {"prepared", "complete"} => prepared

TypeInv == SessionTypes /\ ThreadTypes /\ WorldTypes

CaptureInv == TypeInv /\ ShapeInv /\ PlaceInv /\ RunInv /\ ReadInv /\ ResultInv

-----------------------------------------------------------------------------
(* The status of a job, and what a function may leave of it.               *)

\* The part of a status that only the thread changes.
SameHold(w, v) == v.released = w.released /\ v.inflight = w.inflight /\ v.waiting = w.waiting

\* v is w, or w was stopped.
Eased(w, v) ==
    /\ Shape(v) /\ SameHold(w, v)
    /\ v = w \/ v.state \in {"incomplete", "invalid"}

\* stop_locked() leaves a status that is stopped, and the reader to the thread.
LEMMA StopEases ==
    ASSUME NEW w, Shape(w), NEW to \in {"incomplete", "invalid"}
    PROVE  /\ Eased(w, Stop(w, to)) /\ ~Running(Stop(w, to))
           /\ w.state # "complete" \/ to = "invalid" => Stop(w, to).state # "complete"
           /\ w.state = "complete" /\ to = "incomplete" => Stop(w, to) = w
<1>1. CASE ~Stops(w, to)
  <2>1. Stop(w, to) = w
    BY <1>1 DEF Stop
  <2> QED
    BY <1>1, <2>1 DEF Eased, SameHold, Stops, Running, Shape
<1>2. CASE Stops(w, to)
  <2> DEFINE busy == w.busy /\ w.phase # "prepared"
             phase == IF w.phase = "prepared" THEN "finished" ELSE w.phase
             v == [w EXCEPT !.state = to, !.pending = FALSE, !.result = FALSE, !.busy = busy, !.phase = phase]
  <2>1. Stop(w, to) = v
    BY <1>2 DEF Stop
  <2>2. w \in Statuses /\ to \in InputStates
    BY DEF Shape, InputStates
  <2>3. busy \in BOOLEAN /\ phase \in Phases /\ phase # "prepared"
    BY <2>2 DEF Statuses, Phases
  <2>4. busy <=> ~w.released
    BY DEF Shape
  <2> HIDE DEF busy, phase
  <2>5. /\ v \in Statuses /\ v.state = to /\ v.pending = FALSE /\ v.result = FALSE /\ v.busy = busy /\ v.phase = phase
        /\ v.released = w.released /\ v.waiting = w.waiting /\ v.inflight = w.inflight
    BY <2>2, <2>3 DEF Statuses
  <2> HIDE DEF v
  <2>6. Shape(v)
    BY <2>3, <2>4, <2>5 DEF Shape
  <2> QED
    BY <1>2, <2>1, <2>5, <2>6 DEF Eased, SameHold, Running, Stops
<1> QED
  BY <1>1, <1>2

\* Stopping twice is stopping.
LEMMA EasedTwice ==
    ASSUME NEW u, NEW v, NEW w, Eased(u, v), Eased(v, w)
    PROVE  Eased(u, w)
BY DEF Eased, SameHold

\* A worker is eased by no change at all.
LEMMA EasedSame == ASSUME NEW w, Shape(w) PROVE Eased(w, w)
BY DEF Eased, SameHold

\* What an eased status still says.
LEMMA EasedMeans ==
    ASSUME NEW w, NEW v, Shape(w), Eased(w, v)
    PROVE  /\ Shape(v) /\ SameHold(w, v)
           /\ v.state = "complete" => w.state = "complete" /\ v = w
           /\ v.state \in {"collecting", "prepared"} => v = w
           /\ Running(v) => v = w
           /\ ~w.released => v.busy /\ v.state # "prepared" /\ v.state # "complete" /\ v.state # "none"
BY DEF Eased, SameHold, Running, Shape

\* refresh_locked() may only stop, and a job that is still allowed after it
\* has not overrun its call.
LEMMA RefreshEases ==
    ASSUME NEW w, Shape(w)
    PROVE  /\ Eased(w, Refresh(w))
           /\ Running(Refresh(w)) => Refresh(w) = w /\ ~(w.inflight /\ callOver)
           /\ w.state = "complete" => Refresh(w) = w
<1> DEFINE over == w.busy /\ Running(w) /\ (jobOver \/ (w.inflight /\ callOver))
<1>1. CASE over
  <2>1. Refresh(w) = Stop(w, "incomplete")
    BY <1>1 DEF Refresh
  <2> QED
    BY <1>1, <2>1, StopEases DEF Running
<1>2. CASE ~over
  <2>1. Refresh(w) = w
    BY <1>2 DEF Refresh
  <2>2. Running(w) /\ w.inflight => w.busy
    BY DEF Shape
  <2> QED
    BY <1>2, <2>1, <2>2, EasedSame
<1> QED
  BY <1>1, <1>2

\* update_locked() may only stop.
LEMMA UpdateEases == ASSUME NEW w, Shape(w) PROVE Eased(w, Update(w))
<1> DEFINE u == IF context # plan THEN Stop(w, "invalid") ELSE w
           v == IF ~gate /\ u.busy THEN Stop(u, "invalid") ELSE u
<1>1. Eased(w, u)
  BY StopEases, EasedSame
<1>2. Shape(u)
  BY <1>1 DEF Eased
<1> HIDE DEF u
<1>3. Eased(u, v)
  BY <1>2, StopEases, EasedSame
<1>4. Shape(v) /\ Eased(w, v)
  BY <1>1, <1>3, EasedTwice DEF Eased
<1>5. Update(w) = Refresh(v)
  BY DEF Update, u
<1> HIDE DEF v
<1> QED
  BY <1>4, <1>5, RefreshEases, EasedTwice

\* confirm() makes a prepared result complete, or may only stop.
LEMMA ConfirmMeans ==
    ASSUME NEW w, Shape(w)
    PROVE  \/ Eased(w, Confirm(w))
           \/ /\ w.state = "prepared" /\ Shape(Confirm(w)) /\ SameHold(w, Confirm(w))
              /\ Confirm(w).state = "complete"
<1> DEFINE u == Update(w)
           v == [u EXCEPT !.pending = FALSE, !.result = TRUE,
                          !.state = "complete", !.phase = "finished", !.busy = FALSE]
           confirmed == u.busy /\ u.phase = "prepared" /\ u.state = "prepared" /\ u.released /\ u.pending
<1>1. Eased(w, u) /\ Shape(u)
  BY UpdateEases DEF Eased
<1>2. Confirm(w) = IF confirmed THEN v ELSE u
  BY DEF Confirm
<1> HIDE DEF u
<1>3. CASE confirmed
  <2>1. u = w /\ w.state = "prepared"
    BY <1>1, <1>3, EasedMeans
  <2>2. u \in Statuses /\ "complete" \in InputStates /\ "finished" \in Phases
    BY <1>1 DEF Shape, InputStates, Phases
  <2>3. /\ v \in Statuses /\ v.state = "complete" /\ v.pending = FALSE /\ v.result = TRUE /\ v.busy = FALSE
        /\ v.phase = "finished" /\ v.released = u.released /\ v.waiting = u.waiting /\ v.inflight = u.inflight
    BY <2>2 DEF Statuses
  <2>4. u.released /\ ~u.inflight
    BY <1>1, <1>3 DEF Shape
  <2> HIDE DEF v
  <2>5. Shape(v) /\ SameHold(w, v)
    BY <2>1, <2>3, <2>4 DEF Shape, SameHold
  <2> QED
    BY <1>2, <1>3, <2>1, <2>3, <2>5
<1>4. CASE ~confirmed
  BY <1>1, <1>2, <1>4
<1> QED
  BY <1>3, <1>4

\* poll() confirms a prepared result, or may only stop.
LEMMA PolledMeans ==
    ASSUME Shape(worker)
    PROVE  \/ Eased(worker, Polled)
           \/ worker.state = "prepared" /\ Shape(Polled) /\ SameHold(worker, Polled) /\ Polled.state = "complete"
<1> DEFINE valid == IF ~SessionCurrent \/ (status.busy /\ ~mediaIdle) THEN Stop(worker, "invalid") ELSE worker
           w == Update(valid)
<1>1. Eased(worker, valid)
  BY StopEases, EasedSame
<1>2. Shape(valid)
  BY <1>1 DEF Eased
<1>3. Polled = IF w.phase = "prepared" /\ SessionCurrent THEN Confirm(w) ELSE w
  BY DEF Polled
<1> HIDE DEF valid
<1>4. Eased(worker, w) /\ Shape(w)
  BY <1>1, <1>2, UpdateEases, EasedTwice DEF Eased
<1> HIDE DEF w
<1>5. CASE w.phase = "prepared" /\ SessionCurrent
  <2>1. CASE Eased(w, Confirm(w))
    BY <1>3, <1>4, <1>5, <2>1, EasedTwice
  <2>2. CASE w.state = "prepared" /\ Shape(Confirm(w)) /\ SameHold(w, Confirm(w)) /\ Confirm(w).state = "complete"
    <3>1. w = worker
      BY <1>4, <2>2, EasedMeans
    <3> QED
      BY <1>3, <1>5, <2>2, <3>1
  <2> QED
    BY <1>4, <2>1, <2>2, ConfirmMeans
<1>6. CASE ~(w.phase = "prepared" /\ SessionCurrent)
  BY <1>3, <1>4, <1>6
<1> QED
  BY <1>5, <1>6

-----------------------------------------------------------------------------
(* The session.                                                            *)

\* The parts that a step which leaves the thread and the disc alone keeps.
LEMMA ThreadKept ==
    ASSUME CaptureInv, UNCHANGED threadVars
    PROVE  ThreadTypes' /\ UNCHANGED <<pc, call, reader, prepared, nextLba, toc>>
BY DEF CaptureInv, TypeInv, ThreadTypes, threadVars

\* What was read stays so while the thread's place and its reads do.
LEMMA ReadKept == ReadInv /\ UNCHANGED <<pc, call, prepared, nextLba, toc, queued, content>> => ReadInv'
BY DEF ReadInv, Cleanup, TocMatches

\* The session may stop the job, or confirm a prepared one, and fetches what
\* it has made of it.
LEMMA SessionStepKeeps ==
    ASSUME CaptureInv, SessionTypes', status' = worker', disturbed' \in BOOLEAN,
           UNCHANGED <<queued, closing, clockVars, threadVars, drive, disc, content, late>>,
           \/ Eased(worker, worker')
           \/ /\ worker.state = "prepared" /\ Shape(worker') /\ SameHold(worker, worker')
              /\ worker'.state = "complete",
           disturbed' = disturbed \/ worker'.state \notin {"collecting", "prepared", "complete"}
    PROVE  CaptureInv'
<1>1. /\ ThreadTypes' /\ UNCHANGED <<pc, call, reader, prepared, nextLba, toc>>
      /\ UNCHANGED <<queued, closing, jobOver, callOver, drive, disc, content, late>>
  BY ThreadKept DEF clockVars
<1>2. WorldTypes'
  BY <1>1 DEF CaptureInv, TypeInv, WorldTypes
<1>3. Shape(worker) /\ Shape(worker') /\ SameHold(worker, worker')
  BY EasedMeans DEF CaptureInv, ShapeInv
<1>4. worker' = worker \/ worker'.state \in {"incomplete", "invalid", "complete"}
  BY DEF Eased
<1>5. worker'.state = "complete" => worker' = worker \/ worker.state = "prepared"
  BY DEF Eased
<1>6. ShapeInv'
  BY <1>3 DEF ShapeInv
<1>7. PlaceInv'
  <2>1. PlaceInv /\ worker'.released = worker.released /\ worker'.inflight = worker.inflight
    BY <1>3 DEF CaptureInv, SameHold
  <2> QED
    BY <1>1, <2>1 DEF PlaceInv, Active, Cleanup
<1>8. RunInv'
  <2>1. RunInv
    BY DEF CaptureInv
  <2>2. worker.state = "prepared" => ~disturbed
    BY <2>1 DEF RunInv
  <2>3. worker'.state \in {"collecting", "prepared", "complete"} => ~disturbed'
    BY <1>4, <1>5, <2>1, <2>2 DEF RunInv
  <2>4. closing' => ~Running(worker')
    BY <1>1, <1>4, <2>1 DEF RunInv, Running
  <2> QED
    BY <2>3, <2>4 DEF RunInv, Running
<1>9. ReadInv'
  BY <1>1, ReadKept DEF CaptureInv
<1>10. ResultInv'
  BY <1>1, <1>4, <1>5 DEF CaptureInv, ResultInv
<1> QED
  BY <1>1, <1>2, <1>6, <1>7, <1>8, <1>9, <1>10 DEF CaptureInv, TypeInv

\* A job is started: it has read nothing, and nothing disturbed it.
LEMMA StartKeeps == ASSUME CaptureInv, Start PROVE CaptureInv'
<1> DEFINE w == [NoJob EXCEPT !.state = "collecting", !.phase = "queued", !.busy = TRUE, !.released = FALSE]
<1>1. /\ ~worker.busy /\ drive # "other" /\ ~closing /\ jobs < MaxJobs /\ jobs' = jobs + 1
      /\ worker' = w /\ queued' = TRUE /\ plan' = context /\ manifest' = FALSE /\ status' = worker'
      /\ jobOver' = FALSE /\ callOver' = FALSE /\ disc' = 0 /\ content' = {} /\ disturbed' = FALSE /\ late' = FALSE
      /\ UNCHANGED <<context, current, gate, mediaIdle, closing, threadVars, drive>>
  BY DEF Start, CanStart
<1>2. NoJob \in Statuses /\ NoJob.inflight = FALSE /\ NoJob.pending = FALSE /\ NoJob.result = FALSE
  BY DEF NoJob, Statuses, InputStates, Phases
<1>3. "collecting" \in InputStates /\ "queued" \in Phases
  BY DEF InputStates, Phases
<1>4. /\ w \in Statuses /\ w.state = "collecting" /\ w.phase = "queued" /\ w.busy = TRUE /\ w.released = FALSE
      /\ w.inflight = FALSE /\ w.pending = FALSE /\ w.result = FALSE
  BY <1>2, <1>3 DEF Statuses
<1> HIDE DEF w
<1>5. Shape(w)
  BY <1>4 DEF Shape
<1>6. worker.released
  BY <1>1 DEF CaptureInv, ShapeInv, Shape
<1>7. pc \in {"idle", "exited"} /\ ~queued /\ ~worker.inflight /\ drive # "capture" /\ ~reader
  BY <1>6 DEF CaptureInv, PlaceInv, Active
<1>8. pc = "idle"
  <2>1. pc = "exited" => closing
    BY <1>1, <1>7 DEF CaptureInv, PlaceInv
  <2> QED
    BY <1>1, <1>7, <2>1
<1>9. UNCHANGED <<pc, call, reader, prepared, nextLba, toc>> /\ ThreadTypes'
  BY <1>1, ThreadKept
<1>10. SessionTypes'
  <2>1. jobs' \in 0..MaxJobs /\ plan' \in 0..MaxContexts
    BY <1>1, CaptureConstants DEF CaptureInv, TypeInv, SessionTypes
  <2> QED
    BY <1>1, <1>4, <2>1 DEF CaptureInv, TypeInv, SessionTypes
<1>11. WorldTypes'
  <2>1. 0 \in 0..MaxSwaps /\ drive \in {"free", "capture", "other"} /\ closing \in BOOLEAN
    BY CaptureConstants DEF CaptureInv, TypeInv, WorldTypes
  <2>2. disc' \in 0..MaxSwaps /\ content' \subseteq 0..disc'
    BY <1>1, <2>1
  <2> QED
    BY <1>1, <2>1, <2>2 DEF WorldTypes
<1>12. ShapeInv'
  BY <1>1, <1>4, <1>5 DEF ShapeInv
<1>13. PlaceInv'
  BY <1>1, <1>4, <1>7, <1>8, <1>9 DEF PlaceInv, Active
<1>14. RunInv' /\ ResultInv'
  BY <1>1, <1>4 DEF RunInv, ResultInv
<1>15. ReadInv'
  BY <1>1, <1>8, <1>9 DEF CaptureInv, ReadInv, Cleanup, TocMatches
<1> QED
  BY <1>9, <1>10, <1>11, <1>12, <1>13, <1>14, <1>15 DEF CaptureInv, TypeInv

\* Every other step of the session.
LEMMA SessionKeeps == ASSUME CaptureInv, Session PROVE CaptureInv'
<1>1. /\ Shape(worker) /\ Shape(status) /\ (worker.state = "complete" <=> status.state = "complete")
      /\ status.busy => status.state # "complete"
  BY DEF CaptureInv, ShapeInv, Shape
<1>2. /\ SessionTypes /\ disturbed \in BOOLEAN /\ closing \in BOOLEAN
      /\ context \in 1..MaxContexts /\ plan \in 0..MaxContexts /\ MaxContexts \in Nat
  BY CaptureConstants DEF CaptureInv, TypeInv, SessionTypes, WorldTypes
<1>3. CASE Cancel
  <2> DEFINE stopped == Stop(worker, "incomplete")
  <2>1. /\ worker' = IF status.busy THEN stopped ELSE Stop(stopped, "invalid")
        /\ manifest' = FALSE /\ status' = worker' /\ disturbed' = TRUE
        /\ UNCHANGED <<context, current, gate, mediaIdle, plan, jobs>>
        /\ UNCHANGED <<queued, closing, clockVars, threadVars, drive, disc, content, late>>
    BY <1>3 DEF Cancel
  <2>2. Eased(worker, stopped) /\ ~Running(stopped) /\ (worker.state # "complete" => stopped.state # "complete")
    BY <1>1, StopEases
  <2>3. Shape(stopped)
    BY <2>2 DEF Eased
  <2> HIDE DEF stopped
  <2>4. Eased(stopped, Stop(stopped, "invalid")) /\ ~Running(Stop(stopped, "invalid"))
        /\ Stop(stopped, "invalid").state # "complete"
    BY <2>3, StopEases
  <2>5. Eased(worker, worker') /\ worker'.state \notin {"collecting", "prepared", "complete"}
    BY <1>1, <2>1, <2>2, <2>4, EasedTwice DEF Running
  <2>6. SessionTypes'
    BY <1>2, <2>1, <2>5 DEF SessionTypes, Eased, Shape
  <2> QED
    BY <2>1, <2>5, <2>6, SessionStepKeeps
<1>4. CASE ChangeContext \/ Command
  <2>1. /\ worker' = Stop(worker, "invalid") /\ manifest' = FALSE /\ status' = worker' /\ disturbed' = TRUE
        /\ UNCHANGED <<plan, jobs, queued, closing, clockVars, threadVars, drive, disc, content, late>>
    BY <1>4 DEF ChangeContext, Command, Interrupt
  <2>2. Eased(worker, worker') /\ worker'.state \notin {"collecting", "prepared", "complete"}
    BY <1>1, <2>1, StopEases DEF Running
  <2>3. /\ context' = context \/ (context' = context + 1 /\ context < MaxContexts)
        /\ current' \in BOOLEAN /\ gate' \in BOOLEAN /\ mediaIdle' \in BOOLEAN
    <3>1. CASE ChangeContext
      BY <3>1 DEF ChangeContext
    <3>2. CASE Command
      <4>1. context' = context \/ (context' = context + 1 /\ context < MaxContexts)
        BY <3>2 DEF Command
      <4>2. gate' = gate \/ gate' = ~gate
        BY <3>2 DEF Command
      <4>3. current' = current /\ mediaIdle' = mediaIdle
        BY <3>2 DEF Command
      <4> QED
        <5>1. gate \in BOOLEAN /\ current \in BOOLEAN /\ mediaIdle \in BOOLEAN
          BY <1>2 DEF SessionTypes
        <5>2. gate' \in BOOLEAN
          BY <4>2, <5>1
        <5> QED
          BY <4>1, <4>3, <5>1, <5>2
    <3> QED
      BY <1>4, <3>1, <3>2
  <2>4. context' \in 1..MaxContexts
    BY <1>2, <2>3
  <2>5. SessionTypes'
    BY <1>2, <2>1, <2>2, <2>3, <2>4 DEF SessionTypes, Eased, Shape
  <2> QED
    BY <2>1, <2>2, <2>5, SessionStepKeeps
<1>5. CASE Poll
  <2>1. /\ status' = worker' /\ UNCHANGED <<context, current, gate, mediaIdle, plan, jobs>>
        /\ UNCHANGED <<queued, closing, clockVars, threadVars, drive, disc, content, disturbed, late>>
    BY <1>5 DEF Poll
  <2>2. worker' = Polled \/ (Polled.state = "complete" /\ worker' = Stop(Polled, "invalid"))
    BY <1>5 DEF Poll
  <2>3. manifest' \in BOOLEAN
    BY <1>5 DEF Poll
  <2>4. \/ Eased(worker, Polled)
        \/ worker.state = "prepared" /\ Shape(Polled) /\ SameHold(worker, Polled) /\ Polled.state = "complete"
    BY <1>1, PolledMeans
  <2>5. Shape(Polled) /\ SameHold(worker, Polled)
    BY <2>4 DEF Eased
  <2>6. \/ Eased(worker, worker')
        \/ worker.state = "prepared" /\ Shape(worker') /\ SameHold(worker, worker') /\ worker'.state = "complete"
    <3>1. CASE worker' = Polled
      BY <2>4, <3>1
    <3>2. CASE worker' = Stop(Polled, "invalid")
      <4>1. Eased(Polled, worker') /\ ~Running(worker') /\ worker'.state # "complete"
        BY <2>5, <3>2, StopEases
      <4>2. Shape(worker') /\ SameHold(worker, worker')
        BY <2>5, <4>1 DEF Eased, SameHold
      <4> QED
        BY <2>2, <2>4, <2>5, <3>1, <4>1, <4>2 DEF Eased
    <3> QED
      BY <2>2, <3>1, <3>2
  <2>7. Shape(worker')
    BY <2>6 DEF Eased
  <2>8. SessionTypes'
    BY <1>2, <2>1, <2>3, <2>7 DEF SessionTypes, Shape
  <2> QED
    BY <1>2, <2>1, <2>6, <2>8, SessionStepKeeps
<1>6. CASE LoseDevice \/ PollMedia
  <2>1. /\ UNCHANGED <<context, gate, status, plan, manifest, jobs, worker, queued, closing, clockVars, threadVars>>
        /\ UNCHANGED <<drive, disc, content, disturbed, late>>
        /\ \/ current' = FALSE /\ mediaIdle' = mediaIdle
           \/ mediaIdle' = ~mediaIdle /\ current' = current
    BY <1>6 DEF LoseDevice, PollMedia
  <2>2. current' \in BOOLEAN /\ mediaIdle' \in BOOLEAN
    BY <1>2, <2>1 DEF SessionTypes
  <2>3. SessionTypes'
    BY <1>2, <2>1, <2>2 DEF SessionTypes
  <2>4. /\ ThreadTypes' /\ UNCHANGED <<pc, call, reader, prepared, nextLba, toc>> /\ UNCHANGED <<jobOver, callOver>>
    BY <2>1, ThreadKept DEF clockVars
  <2>5. WorldTypes' /\ ShapeInv' /\ PlaceInv' /\ RunInv' /\ ResultInv'
    BY <2>1, <2>4 DEF CaptureInv, TypeInv, WorldTypes, ShapeInv, PlaceInv, Active, Cleanup, RunInv, Running, ResultInv
  <2>6. ReadInv'
    BY <2>1, <2>4, ReadKept DEF CaptureInv
  <2> QED
    BY <2>3, <2>4, <2>5, <2>6 DEF CaptureInv, TypeInv
<1>7. CASE Destroy
  <2>1. /\ closing' = TRUE /\ worker' = Stop(worker, "incomplete")
        /\ UNCHANGED <<sessionVars, queued, clockVars, threadVars, drive, disc, content, disturbed, late>>
    BY <1>7 DEF Destroy
  <2>2. /\ UNCHANGED <<context, current, gate, mediaIdle, status, plan, manifest, jobs>>
        /\ UNCHANGED <<queued, jobOver, callOver, drive, disc, content, disturbed, late>>
        /\ ThreadTypes' /\ UNCHANGED <<pc, call, reader, prepared, nextLba, toc>>
    BY <2>1, ThreadKept DEF sessionVars, clockVars
  <2>3. /\ Eased(worker, worker') /\ ~Running(worker') /\ (worker'.state = "complete" <=> worker.state = "complete")
        /\ Shape(worker') /\ worker'.released = worker.released /\ worker'.inflight = worker.inflight
    BY <1>1, <2>1, StopEases DEF Eased, SameHold
  <2>4. SessionTypes' /\ WorldTypes'
    BY <2>1, <2>2 DEF CaptureInv, TypeInv, SessionTypes, WorldTypes
  <2>5. ShapeInv' /\ PlaceInv'
    BY <2>1, <2>2, <2>3 DEF CaptureInv, ShapeInv, PlaceInv, Active, Cleanup
  <2>6. RunInv' /\ ResultInv'
    BY <2>1, <2>2, <2>3 DEF CaptureInv, RunInv, ResultInv, Running
  <2>7. ReadInv'
    BY <2>2, ReadKept DEF CaptureInv
  <2> QED
    BY <2>2, <2>4, <2>5, <2>6, <2>7 DEF CaptureInv, TypeInv
<1> QED
  BY <1>3, <1>4, <1>5, <1>6, <1>7, StartKeeps DEF Session

\* Time passes, the disc is swapped, another user takes the drive or leaves it.
LEMMA WorldKeeps ==
    ASSUME CaptureInv, JobDeadlinePasses \/ CallDeadlinePasses \/ SwapDisc \/ OtherUser
    PROVE  CaptureInv'
<1>1. UNCHANGED <<sessionVars, worker, queued, closing, threadVars, content, disturbed, late>>
  BY DEF JobDeadlinePasses, CallDeadlinePasses, SwapDisc, OtherUser
<1>2. /\ UNCHANGED <<context, current, gate, mediaIdle, status, plan, manifest, jobs>>
      /\ UNCHANGED <<worker, queued, closing, content, disturbed, late>>
      /\ ThreadTypes' /\ UNCHANGED <<pc, call, reader, prepared, nextLba, toc>>
  BY <1>1, ThreadKept DEF sessionVars
<1>3. WorldTypes
  BY DEF CaptureInv, TypeInv
<1>4. jobOver' \in BOOLEAN /\ callOver' \in BOOLEAN
  BY <1>3 DEF JobDeadlinePasses, CallDeadlinePasses, SwapDisc, OtherUser, clockVars, WorldTypes
<1>5. disc' = disc \/ (disc' = disc + 1 /\ disc < MaxSwaps)
  BY DEF JobDeadlinePasses, CallDeadlinePasses, SwapDisc, OtherUser
<1>6. disc' \in 0..MaxSwaps /\ 0..disc \subseteq 0..disc'
  BY <1>3, <1>5, CaptureConstants DEF WorldTypes
<1>7. drive' = drive \/ (drive \in {"free", "other"} /\ drive' \in {"free", "other"})
  BY DEF JobDeadlinePasses, CallDeadlinePasses, SwapDisc, OtherUser
<1>8. WorldTypes'
  BY <1>2, <1>3, <1>4, <1>6, <1>7 DEF WorldTypes
<1>9. SessionTypes' /\ ShapeInv' /\ RunInv' /\ ResultInv'
  BY <1>2 DEF CaptureInv, TypeInv, SessionTypes, ShapeInv, RunInv, Running, ResultInv
<1>10. PlaceInv'
  BY <1>2, <1>7 DEF CaptureInv, PlaceInv, Active, Cleanup
<1>11. ReadInv'
  BY <1>2, ReadKept DEF CaptureInv
<1> QED
  BY <1>2, <1>8, <1>9, <1>10, <1>11 DEF CaptureInv, TypeInv

-----------------------------------------------------------------------------
(* The worker thread.                                                      *)

\* What every step of the thread leaves alone.
LEMMA ThreadFrame ==
    ASSUME CaptureInv, Thread
    PROVE  /\ UNCHANGED <<context, current, gate, mediaIdle, status, plan, manifest, jobs>>
           /\ UNCHANGED <<closing, jobOver, disc, disturbed>>
           /\ SessionTypes'
<1>1. UNCHANGED <<sessionVars, closing, jobOver, disc, disturbed>>
  BY DEF Thread, TakeJob, Exit, Ask, Acquire, Reserve, CallThrows, CallReturns, AfterCall, Finalize, CoreConfirm, End,
         threadFrame, clockVars
<1> QED
  BY <1>1 DEF sessionVars, CaptureInv, TypeInv, SessionTypes

\* While the thread is at a job: it is busy, it is not prepared or complete,
\* and the session has not fetched anything else.
LEMMA JobIsBusy ==
    ASSUME CaptureInv, Active
    PROVE  /\ Shape(worker) /\ worker.busy /\ ~worker.released /\ ~status.released /\ Shape(status)
           /\ worker.state \in {"collecting", "incomplete", "invalid"}
           /\ status.state # "complete"
<1>1. ~worker.released /\ Shape(worker) /\ Shape(status)
  BY DEF CaptureInv, PlaceInv, ShapeInv
<1> QED
  BY <1>1 DEF CaptureInv, ShapeInv, Shape, Statuses, InputStates

\* A step within a job: the status is refreshed, perhaps stopped, and carries
\* another phase, or another call in flight.
Within(w) ==
    /\ Shape(w) /\ w.state \in {"collecting", "incomplete", "invalid"} /\ ~w.released
    /\ Running(w) => Running(worker)

\* The parts that only depend on the status, for a step within a job.
LEMMA WithinKeeps ==
    ASSUME CaptureInv, Thread, Active, Within(worker')
    PROVE  ShapeInv' /\ RunInv' /\ ResultInv'
<1>1. Shape(worker) /\ ~status.released /\ Shape(status) /\ status.state # "complete" /\ worker.state # "prepared"
  BY JobIsBusy
<1>2. UNCHANGED <<status, closing, disturbed>>
  BY ThreadFrame
<1>3. ShapeInv'
  BY <1>1, <1>2 DEF ShapeInv, Within
<1>4. RunInv'
  BY <1>1, <1>2 DEF CaptureInv, RunInv, Within, Running
<1>5. ResultInv'
  BY DEF ResultInv, Within
<1> QED
  BY <1>3, <1>4, <1>5

\* An eased status of a job, with another phase or another mark of its call.
LEMMA EasedWithin ==
    ASSUME CaptureInv, Active, NEW w, Eased(worker, w)
    PROVE  /\ Within(w) /\ w.inflight = worker.inflight
           /\ \A phase \in Phases \ {"prepared"} :
                /\ Within([w EXCEPT !.phase = phase]) /\ [w EXCEPT !.phase = phase].inflight = worker.inflight
                /\ Within([w EXCEPT !.phase = phase, !.waiting = TRUE])
                /\ [w EXCEPT !.phase = phase, !.waiting = TRUE].inflight = worker.inflight
           /\ Within([w EXCEPT !.waiting = FALSE]) /\ [w EXCEPT !.waiting = FALSE].inflight = worker.inflight
           /\ Within([[w EXCEPT !.waiting = FALSE] EXCEPT !.inflight = TRUE])
           /\ [[w EXCEPT !.waiting = FALSE] EXCEPT !.inflight = TRUE].inflight = TRUE
           /\ Within([w EXCEPT !.inflight = FALSE]) /\ [w EXCEPT !.inflight = FALSE].inflight = FALSE
<1>1. /\ Shape(w) /\ w.state \in {"collecting", "incomplete", "invalid"} /\ ~w.released /\ w.inflight = worker.inflight
      /\ Running(w) => Running(worker)
  BY JobIsBusy, EasedMeans DEF SameHold, Eased
<1>2. w \in Statuses
  BY <1>1 DEF Shape
<1>3. Within(w)
  BY <1>1 DEF Within
<1>4. ASSUME NEW v \in Statuses, v.state = w.state, v.pending = w.pending, v.result = w.result, v.busy = w.busy,
             v.released = w.released, v.phase # "prepared"
      PROVE  Within(v)
  BY <1>1, <1>4 DEF Within, Shape, Running
<1>5. ASSUME NEW phase \in Phases \ {"prepared"}
      PROVE  /\ Within([w EXCEPT !.phase = phase]) /\ [w EXCEPT !.phase = phase].inflight = worker.inflight
             /\ Within([w EXCEPT !.phase = phase, !.waiting = TRUE])
             /\ [w EXCEPT !.phase = phase, !.waiting = TRUE].inflight = worker.inflight
  <2> DEFINE u == [w EXCEPT !.phase = phase]
             v == [w EXCEPT !.phase = phase, !.waiting = TRUE]
  <2>1. /\ u \in Statuses /\ u.state = w.state /\ u.pending = w.pending /\ u.result = w.result /\ u.busy = w.busy
        /\ u.released = w.released /\ u.phase = phase /\ u.inflight = w.inflight
    BY <1>2 DEF Statuses
  <2>2. /\ v \in Statuses /\ v.state = w.state /\ v.pending = w.pending /\ v.result = w.result /\ v.busy = w.busy
        /\ v.released = w.released /\ v.phase = phase /\ v.inflight = w.inflight
    BY <1>2 DEF Statuses
  <2> HIDE DEF u, v
  <2>3. Within(u) /\ Within(v)
    BY <1>4, <2>1, <2>2
  <2> QED
    BY <1>1, <2>1, <2>2, <2>3 DEF u, v
<1> DEFINE x == [w EXCEPT !.waiting = FALSE]
           y == [[w EXCEPT !.waiting = FALSE] EXCEPT !.inflight = TRUE]
           z == [w EXCEPT !.inflight = FALSE]
<1>6. /\ x \in Statuses /\ x.state = w.state /\ x.pending = w.pending /\ x.result = w.result /\ x.busy = w.busy
      /\ x.released = w.released /\ x.phase = w.phase /\ x.inflight = w.inflight
  BY <1>2 DEF Statuses
<1>7. /\ y \in Statuses /\ y.state = w.state /\ y.pending = w.pending /\ y.result = w.result /\ y.busy = w.busy
      /\ y.released = w.released /\ y.phase = w.phase /\ y.inflight = TRUE
  BY <1>2 DEF Statuses
<1>8. /\ z \in Statuses /\ z.state = w.state /\ z.pending = w.pending /\ z.result = w.result /\ z.busy = w.busy
      /\ z.released = w.released /\ z.phase = w.phase /\ z.inflight = FALSE
  BY <1>2 DEF Statuses
<1>9. w.phase # "prepared"
  BY <1>1 DEF Shape
<1> HIDE DEF x, y, z
<1>10. Within(x) /\ Within(y) /\ Within(z)
  BY <1>4, <1>6, <1>7, <1>8, <1>9
<1>11. /\ Within(x) /\ x.inflight = worker.inflight /\ Within(y) /\ y.inflight = TRUE
       /\ Within(z) /\ z.inflight = FALSE
  BY <1>1, <1>6, <1>7, <1>8, <1>10
<1> QED
  BY <1>1, <1>3, <1>5, <1>11 DEF x, y, z

\* The job is abandoned: a reader is released first.
LEMMA AbandonKeeps ==
    ASSUME CaptureInv, Thread, pc \notin {"idle", "exited"}, Abandon, ~Cleanup, Within(worker'), ~worker'.inflight,
           UNCHANGED <<queued, callOver, content, late>>,
           drive' = "free" \/ (drive' = drive /\ pc \notin {"reserve", "inflight"})
    PROVE  CaptureInv'
<1>1. Active /\ ~queued /\ ~prepared /\ (call = "final_toc" => nextLba = Length)
      /\ (pc \notin {"reserve", "inflight"} => drive # "capture")
      /\ (nextLba > 0 => content # {})
  BY DEF CaptureInv, Active, PlaceInv, ReadInv
<1>2. /\ UNCHANGED <<reader, prepared, nextLba, toc>>
      /\ \/ reader /\ pc' = "ask" /\ call' = "releasing"
         \/ ~reader /\ pc' = "end" /\ call' = call
  BY DEF Abandon, Request, Goto
<1>3. /\ SessionTypes' /\ ShapeInv' /\ RunInv' /\ ResultInv' /\ UNCHANGED <<closing, jobOver, disc, disturbed>>
  BY <1>1, ThreadFrame, WithinKeeps
<1>4. ThreadTypes'
  BY <1>2 DEF CaptureInv, TypeInv, ThreadTypes, Places, Calls
<1>5. WorldTypes'
  BY <1>1, <1>3 DEF CaptureInv, TypeInv, WorldTypes
<1>6. PlaceInv'
  BY <1>1, <1>2 DEF PlaceInv, Active, Within
<1>7. ReadInv'
  BY <1>1, <1>2 DEF ReadInv
<1> QED
  BY <1>3, <1>4, <1>5, <1>6, <1>7 DEF CaptureInv, TypeInv

\* A step within a job that goes on to another call, or to ask for one.
LEMMA GoOnKeeps ==
    ASSUME CaptureInv, Thread, pc \notin {"idle", "exited"}, Within(worker'),
           worker'.inflight <=> pc' = "inflight",
           pc' \in {"ask", "wait", "reserve", "inflight", "finalize", "confirm"},
           callOver' \in BOOLEAN, drive' \in {"free", "capture", "other"},
           drive' = "capture" <=> pc' \in {"reserve", "inflight"},
           call' \in Calls, call' = "final_toc" => nextLba' = Length,
           nextLba' \in 0..Length, nextLba' > 0 => content # {},
           reader' = reader, reader => pc' # "confirm",
           UNCHANGED <<queued, content, late, toc>>,
           prepared' = prepared \/ (prepared' = TRUE /\ pc = "returned" /\ call = "final_toc"),
           prepared' => nextLba' = Length /\ call' = "releasing",
           pc' = "finalize" => call' = "reading" /\ nextLba' = Length
    PROVE  CaptureInv'
<1>1. Active /\ ~queued
  BY DEF CaptureInv, Active, PlaceInv
<1>2. /\ SessionTypes' /\ ShapeInv' /\ RunInv' /\ ResultInv' /\ UNCHANGED <<closing, jobOver, disc, disturbed>>
  BY <1>1, ThreadFrame, WithinKeeps
<1>3. ThreadTypes'
  BY DEF CaptureInv, TypeInv, ThreadTypes, Places
<1>4. WorldTypes'
  BY <1>1, <1>2 DEF CaptureInv, TypeInv, WorldTypes
<1>5. PlaceInv'
  BY <1>1 DEF PlaceInv, Active, Within
<1>6. ReadInv'
  <2>1. prepared' /\ toc' = 0 => content' \subseteq {0}
    BY <1>1 DEF CaptureInv, ReadInv, TocMatches
  <2> QED
    BY <1>1, <2>1 DEF ReadInv, Cleanup, TocMatches
<1> QED
  BY <1>2, <1>3, <1>4, <1>5, <1>6 DEF CaptureInv, TypeInv

\* The facts that the steps below start from.
LEMMA InJob ==
    ASSUME CaptureInv, pc \notin {"idle", "exited"}
    PROVE  /\ Active /\ ~queued /\ Shape(worker) /\ Within(worker)
           /\ worker.inflight <=> pc = "inflight"
           /\ drive = "capture" <=> pc \in {"reserve", "inflight"}
           /\ reader => pc # "confirm" /\ pc # "end" /\ ~(pc = "returned" /\ Cleanup)
           /\ prepared => Cleanup /\ nextLba = Length
           /\ call = "final_toc" => nextLba = Length
           /\ nextLba > 0 => content # {}
           /\ pc = "finalize" => call = "reading" /\ nextLba = Length
           /\ call \in Calls /\ nextLba \in 0..Length /\ callOver \in BOOLEAN /\ drive \in {"free", "capture", "other"}
<1>1. Active /\ ~queued
  BY DEF CaptureInv, Active, PlaceInv
<1>2. Shape(worker) /\ Within(worker)
  BY <1>1, JobIsBusy DEF Within
<1> QED
  BY <1>1, <1>2 DEF CaptureInv, TypeInv, ThreadTypes, WorldTypes, PlaceInv, ReadInv

\* run() takes the queued job.
LEMMA TakeKeeps == ASSUME CaptureInv, TakeJob PROVE CaptureInv'
<1>1. /\ pc = "idle" /\ queued /\ queued' = FALSE /\ pc' = "ask" /\ call' = "initial_toc"
      /\ reader' = FALSE /\ prepared' = FALSE /\ nextLba' = 0 /\ toc' = 0
      /\ UNCHANGED <<worker, closing, clockVars, drive, disc, content, disturbed, late>>
  BY DEF TakeJob
<1>2. Active /\ Thread
  BY <1>1 DEF Active, Thread
<1>3. Within(worker')
  BY <1>1, <1>2, JobIsBusy DEF Within
<1>4. SessionTypes' /\ ShapeInv' /\ RunInv' /\ ResultInv'
  BY <1>2, <1>3, ThreadFrame, WithinKeeps
<1>5. ThreadTypes'
  <2>1. 0 \in 0..Length /\ 0 \in 0..MaxSwaps
    BY CaptureConstants
  <2> QED
    BY <1>1, <2>1 DEF ThreadTypes, Places, Calls
<1>6. WorldTypes'
  BY <1>1 DEF CaptureInv, TypeInv, WorldTypes, clockVars
<1>7. PlaceInv'
  BY <1>1, <1>2, <1>3 DEF CaptureInv, PlaceInv, Active, Within
<1>8. ReadInv'
  BY <1>1 DEF ReadInv
<1> QED
  BY <1>4, <1>5, <1>6, <1>7, <1>8 DEF CaptureInv, TypeInv

\* run() ends when it is closing.
LEMMA ExitKeeps == ASSUME CaptureInv, Exit PROVE CaptureInv'
<1>1. /\ pc = "idle" /\ ~queued /\ closing /\ pc' = "exited" /\ UNCHANGED <<call, reader, prepared, nextLba, toc>>
      /\ UNCHANGED <<threadFrame, worker, callOver, drive, content, late>>
  BY DEF Exit, Goto
<1>2. /\ UNCHANGED <<context, current, gate, mediaIdle, status, plan, manifest, jobs>>
      /\ UNCHANGED <<queued, closing, jobOver, disc, disturbed>>
  BY <1>1 DEF threadFrame, sessionVars
<1>3. SessionTypes' /\ ThreadTypes' /\ WorldTypes' /\ ShapeInv' /\ RunInv' /\ ResultInv'
  BY <1>1, <1>2 DEF CaptureInv, TypeInv, SessionTypes, ThreadTypes, Places, WorldTypes, ShapeInv, RunInv, Running, ResultInv
<1>4. PlaceInv' /\ ReadInv'
  BY <1>1, <1>2 DEF CaptureInv, PlaceInv, Active, ReadInv, Cleanup, TocMatches
<1> QED
  BY <1>3, <1>4 DEF CaptureInv, TypeInv

\* Before the wait for the drive: is the job allowed?
LEMMA AskKeeps == ASSUME CaptureInv, Ask PROVE CaptureInv'
<1> DEFINE w == Refresh(worker)
           v == [w EXCEPT !.phase = call, !.waiting = TRUE]
<1>1. /\ pc = "ask" /\ UNCHANGED <<queued, callOver, drive, content, late>>
      /\ IF Cleanup \/ Allowed(w) THEN worker' = v /\ Goto("wait") ELSE worker' = w /\ Abandon
  BY DEF Ask, threadFrame
<1>2. Thread /\ pc \notin {"idle", "exited"}
  BY <1>1 DEF Thread
<1>3. Eased(worker, w) /\ call \in Phases \ {"prepared"}
  BY <1>2, InJob, RefreshEases DEF Calls, Phases
<1> HIDE DEF w
<1>4. Within(w) /\ w.inflight = worker.inflight /\ Within(v) /\ v.inflight = worker.inflight
  <2>1. Active
    BY <1>2, InJob
  <2> QED
    BY <1>3, <2>1, EasedWithin
<1> HIDE DEF v
<1>5. CASE Cleanup \/ Allowed(w)
  <2>1. worker' = v /\ pc' = "wait" /\ UNCHANGED <<call, reader, prepared, nextLba, toc>>
    BY <1>1, <1>5 DEF Goto
  <2> QED
    BY <1>1, <1>2, <1>4, <2>1, InJob, GoOnKeeps DEF Cleanup
<1>6. CASE ~(Cleanup \/ Allowed(w))
  BY <1>1, <1>2, <1>4, <1>6, InJob, AbandonKeeps
<1> QED
  BY <1>5, <1>6

\* The drive's mutex is acquired.
LEMMA AcquireKeeps == ASSUME CaptureInv, Acquire PROVE CaptureInv'
<1>1. /\ pc = "wait" /\ drive' = "capture" /\ pc' = "reserve" /\ UNCHANGED <<call, reader, prepared, nextLba, toc>>
      /\ UNCHANGED <<queued, worker, callOver, content, late>>
  BY DEF Acquire, Goto, threadFrame
<1>2. Thread /\ pc \notin {"idle", "exited"}
  BY <1>1 DEF Thread, Acquire
<1>3. Within(worker') /\ ~worker'.inflight
  BY <1>1, <1>2, InJob
<1> QED
  BY <1>1, <1>2, <1>3, InJob, GoOnKeeps DEF Cleanup

\* With the drive held, the job is asked again.
LEMMA ReserveKeeps == ASSUME CaptureInv, Reserve PROVE CaptureInv'
<1> DEFINE r == Refresh(worker)
           w == [r EXCEPT !.waiting = FALSE]
           v == [w EXCEPT !.inflight = TRUE]
<1>1. /\ pc = "reserve" /\ UNCHANGED <<queued, content, late>>
      /\ IF MayReserve(w)
         THEN worker' = v /\ callOver' = FALSE /\ Goto("inflight") /\ drive' = drive
         ELSE worker' = w /\ drive' = "free" /\ Abandon /\ callOver' = callOver
  BY DEF Reserve, threadFrame
<1>2. Thread /\ pc \notin {"idle", "exited"}
  BY <1>1 DEF Thread
<1>3. Eased(worker, r)
  BY <1>2, InJob, RefreshEases
<1> HIDE DEF r
<1>4. Within(w) /\ ~w.inflight /\ Within(v) /\ v.inflight
  <2>1. Active /\ ~worker.inflight
    BY <1>1, <1>2, InJob
  <2> QED
    BY <1>3, <2>1, EasedWithin
<1> HIDE DEF w
<1> HIDE DEF v
<1>5. CASE MayReserve(w)
  <2>1. worker' = v /\ callOver' = FALSE /\ drive' = drive /\ pc' = "inflight" /\ UNCHANGED <<call, reader, prepared, nextLba, toc>>
    BY <1>1, <1>5 DEF Goto
  <2> QED
    BY <1>1, <1>2, <1>4, <2>1, InJob, GoOnKeeps DEF Cleanup
<1>6. CASE ~MayReserve(w)
  <2>1. ~Cleanup
    BY <1>6 DEF MayReserve
  <2> QED
    BY <1>1, <1>2, <1>4, <1>6, <2>1, AbandonKeeps
<1> QED
  BY <1>5, <1>6

\* The call throws: the job is stopped, and the drive free.
LEMMA CallThrowsKeeps == ASSUME CaptureInv, CallThrows PROVE CaptureInv'
<1> DEFINE s == Stop(worker, "incomplete")
           r == Refresh(s)
           w == [r EXCEPT !.inflight = FALSE]
<1>1. /\ pc = "inflight" /\ ~Cleanup /\ worker' = w /\ drive' = "free" /\ Abandon
      /\ UNCHANGED <<queued, callOver, content, late>>
  BY DEF CallThrows, threadFrame
<1>2. Thread /\ pc \notin {"idle", "exited"}
  BY <1>1 DEF Thread
<1>3. Shape(worker) /\ Active
  BY <1>2, InJob
<1>4. Eased(worker, s) /\ Shape(s)
  BY <1>3, StopEases DEF Eased
<1> HIDE DEF s
<1>5. Eased(worker, r)
  BY <1>4, RefreshEases, EasedTwice
<1> HIDE DEF r
<1>6. Within(w) /\ ~w.inflight
  BY <1>3, <1>5, EasedWithin
<1> QED
  BY <1>1, <1>2, <1>6, AbandonKeeps

\* The call returns: a read adds the present disc to what was read, the last
\* TOC says which disc is there now, and no read overran its deadline.
LEMMA CallReturnsKeeps == ASSUME CaptureInv, CallReturns PROVE CaptureInv'
<1> DEFINE r == Refresh(worker)
           w == [r EXCEPT !.inflight = FALSE]
<1>1. /\ pc = "inflight" /\ worker' = w /\ drive' = "free" /\ pc' = "returned"
      /\ reader' = ((reader \/ call = "opening") /\ call # "releasing")
      /\ toc' = IF call \in {"initial_toc", "final_toc"} THEN disc ELSE toc
      /\ content' = IF call = "reading" THEN content \cup {disc} ELSE content
      /\ late' = (late \/ (call = "reading" /\ callOver))
      /\ call \in {"seeking", "reading"} => Allowed(r)
      /\ UNCHANGED <<call, prepared, nextLba, queued, callOver>>
  BY DEF CallReturns, threadFrame
<1>2. Thread /\ pc \notin {"idle", "exited"}
  BY <1>1 DEF Thread
<1>3. Shape(worker) /\ Active /\ ~queued /\ worker.inflight
  BY <1>1, <1>2, InJob
<1>4. Eased(worker, r) /\ (Running(r) => ~callOver)
  BY <1>3, RefreshEases
<1> HIDE DEF r
<1>5. Within(w) /\ ~w.inflight
  BY <1>3, <1>4, EasedWithin
<1> HIDE DEF w
<1>6. SessionTypes' /\ ShapeInv' /\ RunInv' /\ ResultInv' /\ UNCHANGED <<closing, jobOver, disc, disturbed>>
  BY <1>1, <1>2, <1>3, <1>5, ThreadFrame, WithinKeeps
<1>7. late' = FALSE
  <2>1. late = FALSE
    BY DEF CaptureInv, TypeInv, WorldTypes
  <2>2. call = "reading" => ~callOver
    BY <1>1, <1>4 DEF Allowed
  <2> QED
    BY <1>1, <2>1, <2>2
<1>8. disc \in 0..MaxSwaps /\ content \subseteq 0..disc /\ disc \in 0..disc
  <2>1. disc \in 0..MaxSwaps /\ content \subseteq 0..disc
    BY DEF CaptureInv, TypeInv, WorldTypes
  <2>2. disc \in 0..disc
    BY <2>1
  <2> QED
    BY <2>1, <2>2
<1>9. WorldTypes'
  <2>1. content' \subseteq 0..disc
    BY <1>1, <1>8
  <2> QED
    BY <1>1, <1>6, <1>7, <2>1 DEF CaptureInv, TypeInv, WorldTypes
<1>10. ThreadTypes'
  <2>1. toc' \in 0..MaxSwaps
    BY <1>1, <1>8 DEF CaptureInv, TypeInv, ThreadTypes
  <2>2. reader' \in BOOLEAN
    BY <1>1
  <2> QED
    BY <1>1, <2>1, <2>2 DEF CaptureInv, TypeInv, ThreadTypes, Places
<1>11. PlaceInv'
  BY <1>1, <1>3, <1>5 DEF PlaceInv, Active, Within, Cleanup
<1>12. ReadInv'
  <2>1. /\ (call = "final_toc" \/ prepared => nextLba = Length) /\ (prepared => Cleanup)
        /\ (nextLba > 0 => content # {}) /\ (prepared /\ TocMatches => content \subseteq {0})
    BY <1>3 DEF CaptureInv, ReadInv
  <2>2. content \subseteq content' /\ (call = "reading" => content' # {})
    BY <1>1
  <2>3. prepared => toc' = toc /\ content' = content
    BY <1>1, <2>1 DEF Cleanup
  <2>4. call = "final_toc" /\ toc' = 0 => content' \subseteq {0}
    <3> HAVE call = "final_toc" /\ toc' = 0
    <3>1. disc = 0 /\ content' = content
      BY <1>1
    <3>2. 0..disc = {0}
      BY <3>1
    <3> QED
      BY <1>8, <3>1, <3>2
  <2>5. nextLba' > 0 => content' # {}
    BY <1>1, <2>1, <2>2
  <2> QED
    BY <1>1, <1>3, <2>1, <2>2, <2>3, <2>4, <2>5 DEF ReadInv, Cleanup, TocMatches
<1> QED
  BY <1>6, <1>9, <1>10, <1>11, <1>12 DEF CaptureInv, TypeInv

\* With the drive free again: the job goes on to its next call, takes the
\* block, or is abandoned.
LEMMA AfterCallKeeps == ASSUME CaptureInv, AfterCall PROVE CaptureInv'
<1> DEFINE r == Refresh(worker)
<1>1. /\ pc = "returned" /\ UNCHANGED <<queued, callOver, drive, content, late>>
      /\ IF Cleanup THEN Goto("confirm") /\ worker' = worker
         ELSE IF Allowed(r) THEN Continue
         ELSE worker' = r /\ Abandon
  BY DEF AfterCall, threadFrame
<1>2. Thread /\ pc \notin {"idle", "exited"}
  BY <1>1 DEF Thread
<1>3. Shape(worker) /\ Within(worker) /\ Active /\ ~worker.inflight
  BY <1>1, <1>2, InJob
<1>4. Eased(worker, r) /\ Shape(r)
  BY <1>3, RefreshEases DEF Eased
<1>5. Continue <=>
        \/ call = "initial_toc" /\ TocMatches /\ Request("opening") /\ worker' = r
        \/ call = "initial_toc" /\ ~TocMatches /\ worker' = Stop(r, "invalid") /\ Abandon
        \/ call = "opening" /\ Request("seeking") /\ worker' = r
        \/ call = "seeking" /\ Request("reading") /\ worker' = r
        \/ /\ call = "reading" /\ nextLba' = NextLba /\ pc' = (IF nextLba' = Length THEN "finalize" ELSE "ask")
           /\ worker' = r /\ UNCHANGED <<call, reader, prepared, toc>>
        \/ call = "reading" /\ worker' = Stop(r, "incomplete") /\ Abandon
        \/ /\ call = "final_toc" /\ prepared' = TRUE /\ pc' = "ask" /\ call' = "releasing"
           /\ worker' = r /\ UNCHANGED <<reader, nextLba, toc>>
  BY DEF Continue
<1> HIDE DEF r
<1>6. Within(r) /\ ~r.inflight
  BY <1>3, <1>4, EasedWithin
<1>7. \A to \in {"incomplete", "invalid"} : Within(Stop(r, to)) /\ ~Stop(r, to).inflight
  <2> TAKE to \in {"incomplete", "invalid"}
  <2> DEFINE v == Stop(r, to)
  <2>1. Eased(worker, v)
    BY <1>4, StopEases, EasedTwice
  <2> HIDE DEF v
  <2>2. Within(v) /\ ~v.inflight
    BY <1>3, <2>1, EasedWithin
  <2> QED
    BY <2>2 DEF v
<1>8. CASE Cleanup
  <2>1. worker' = worker /\ pc' = "confirm" /\ UNCHANGED <<call, reader, prepared, nextLba, toc>>
    BY <1>1, <1>8 DEF Goto
  <2>2. ~reader
    BY <1>1, <1>2, <1>8, InJob
  <2> QED
    BY <1>1, <1>2, <1>3, <1>8, <2>1, <2>2, InJob, GoOnKeeps DEF Cleanup
<1>9. CASE ~Cleanup /\ Abandon /\ (worker' = r \/ \E to \in {"incomplete", "invalid"} : worker' = Stop(r, to))
  <2>1. Within(worker') /\ ~worker'.inflight
    BY <1>6, <1>7, <1>9
  <2> QED
    BY <1>1, <1>2, <1>9, <2>1, AbandonKeeps
<1>10. ASSUME ~Cleanup, worker' = r, NEW c \in {"opening", "seeking", "reading"}, Request(c)
       PROVE  CaptureInv'
  <2>1. pc' = "ask" /\ call' = c /\ UNCHANGED <<reader, prepared, nextLba, toc>>
    BY <1>10 DEF Request
  <2>2. Within(worker') /\ ~worker'.inflight /\ ~prepared
    BY <1>2, <1>6, <1>10, InJob
  <2>3. call' \in Calls
    BY <2>1 DEF Calls
  <2> QED
    BY <1>1, <1>2, <2>1, <2>2, <2>3, InJob, GoOnKeeps
<1>11. CASE /\ ~Cleanup /\ call = "reading" /\ nextLba' = NextLba
            /\ pc' = (IF nextLba' = Length THEN "finalize" ELSE "ask")
            /\ worker' = r /\ UNCHANGED <<call, reader, prepared, toc>>
  <2>1. nextLba' \in 0..Length
    BY <1>2, <1>11, InJob, CaptureConstants DEF NextLba
  <2>2. content # {}
    BY <1>1, <1>11 DEF CaptureInv, ReadInv
  <2>3. Within(worker') /\ ~worker'.inflight /\ ~prepared
    BY <1>2, <1>6, <1>11, InJob
  <2>4. pc' \in {"ask", "finalize"} /\ (pc' = "finalize" => nextLba' = Length)
    BY <1>11
  <2> QED
    BY <1>1, <1>2, <1>11, <2>1, <2>2, <2>3, <2>4, InJob, GoOnKeeps
<1>12. CASE /\ ~Cleanup /\ call = "final_toc" /\ prepared' = TRUE /\ pc' = "ask" /\ call' = "releasing"
            /\ worker' = r /\ UNCHANGED <<reader, nextLba, toc>>
  <2>1. Within(worker') /\ ~worker'.inflight /\ call' \in Calls
    BY <1>6, <1>12 DEF Calls
  <2> QED
    BY <1>1, <1>2, <1>12, <2>1, InJob, GoOnKeeps
<1>13. CASE ~Cleanup /\ Continue
  BY <1>5, <1>9, <1>10, <1>11, <1>12, <1>13
<1> QED
  BY <1>1, <1>8, <1>9, <1>13

\* Every frame was taken: the consumer finalises, or throws.
LEMMA FinalizeKeeps == ASSUME CaptureInv, Finalize PROVE CaptureInv'
<1> DEFINE r == Refresh(worker)
           s == Stop(r, "incomplete")
           v == [r EXCEPT !.phase = "finalizing"]
           t == [s EXCEPT !.phase = "finalizing"]
<1>1. /\ pc = "finalize" /\ UNCHANGED <<queued, callOver, drive, content, late>>
      /\ \/ worker' = v /\ Request("final_toc")
         \/ worker' = t /\ Abandon
         \/ worker' = r /\ Abandon
  BY DEF Finalize, threadFrame
<1>2. Thread /\ pc \notin {"idle", "exited"}
  BY <1>1 DEF Thread
<1>3. Shape(worker) /\ Active /\ ~worker.inflight /\ call = "reading" /\ nextLba = Length /\ ~Cleanup /\ ~prepared
  BY <1>1, <1>2, InJob DEF Cleanup
<1>4. Eased(worker, r) /\ Shape(r)
  BY <1>3, RefreshEases DEF Eased
<1> HIDE DEF r
<1>5. Eased(worker, s)
  BY <1>4, StopEases, EasedTwice
<1> HIDE DEF s
<1>6. "finalizing" \in Phases \ {"prepared"}
  BY DEF Phases
<1>7. Within(r) /\ ~r.inflight /\ Within(v) /\ ~v.inflight
  BY <1>3, <1>4, <1>6, EasedWithin
<1>8. Within(t) /\ ~t.inflight
  BY <1>3, <1>5, <1>6, EasedWithin
<1> HIDE DEF v, t
<1>9. CASE worker' = v /\ Request("final_toc")
  <2>1. pc' = "ask" /\ call' = "final_toc" /\ UNCHANGED <<reader, prepared, nextLba, toc>>
    BY <1>9 DEF Request
  <2>2. call' \in Calls
    BY <2>1 DEF Calls
  <2> QED
    BY <1>1, <1>2, <1>3, <1>7, <1>9, <2>1, <2>2, InJob, GoOnKeeps
<1>10. CASE (worker' = t \/ worker' = r) /\ Abandon
  BY <1>1, <1>2, <1>3, <1>7, <1>8, <1>10, AbandonKeeps
<1> QED
  BY <1>1, <1>9, <1>10

\* The reader is gone: the core confirms if the last TOC is the plan's.
LEMMA CoreConfirmKeeps == ASSUME CaptureInv, CoreConfirm PROVE CaptureInv'
<1> DEFINE r == Refresh(worker)
<1>1. /\ pc = "confirm" /\ pc' = "end" /\ UNCHANGED <<call, reader, nextLba, toc, queued, callOver, drive, content, late>>
      /\ \/ worker' = r /\ prepared' = prepared /\ TocMatches
         \/ (worker' = r \/ worker' = Stop(r, "invalid")) /\ prepared' = FALSE
  BY DEF CoreConfirm, threadFrame
<1>2. Thread /\ pc \notin {"idle", "exited"}
  BY <1>1 DEF Thread
<1>3. /\ Shape(worker) /\ Active /\ ~queued /\ ~worker.inflight /\ ~reader /\ drive # "capture"
      /\ (prepared => nextLba = Length /\ Cleanup) /\ (call = "final_toc" => nextLba = Length) /\ (nextLba > 0 => content # {})
  BY <1>1, <1>2, InJob
<1>4. Eased(worker, r) /\ Shape(r)
  BY <1>3, RefreshEases DEF Eased
<1> HIDE DEF r
<1>5. Eased(worker, Stop(r, "invalid"))
  BY <1>4, StopEases, EasedTwice
<1>6. Within(worker') /\ ~worker'.inflight
  <2>1. Eased(worker, worker')
    BY <1>1, <1>4, <1>5
  <2> QED
    BY <1>3, <2>1, EasedWithin
<1>7. SessionTypes' /\ ShapeInv' /\ RunInv' /\ ResultInv' /\ UNCHANGED <<closing, jobOver, disc, disturbed>>
  BY <1>2, <1>3, <1>6, ThreadFrame, WithinKeeps
<1>8. ThreadTypes'
  BY <1>1 DEF CaptureInv, TypeInv, ThreadTypes, Places
<1>9. WorldTypes'
  BY <1>1, <1>7 DEF CaptureInv, TypeInv, WorldTypes
<1>10. PlaceInv'
  BY <1>1, <1>3, <1>6 DEF PlaceInv, Active, Within
<1>11. ReadInv'
  <2>1. prepared /\ TocMatches => content \subseteq {0}
    BY <1>3 DEF CaptureInv, ReadInv
  <2>2. prepared' => prepared /\ TocMatches
    BY <1>1
  <2> QED
    BY <1>1, <1>3, <2>1, <2>2 DEF ReadInv, Cleanup, TocMatches
<1> QED
  BY <1>7, <1>8, <1>9, <1>10, <1>11 DEF CaptureInv, TypeInv

\* The end of a job: it is prepared, or over.
LEMMA EndKeeps == ASSUME CaptureInv, End PROVE CaptureInv'
<1> DEFINE r == Refresh(worker)
           w == [r EXCEPT !.released = TRUE, !.inflight = FALSE, !.waiting = FALSE]
           p == [w EXCEPT !.pending = TRUE, !.state = "prepared", !.phase = "prepared"]
           s == IF Allowed(w) THEN Stop(w, "incomplete") ELSE w
           f == [s EXCEPT !.busy = FALSE, !.phase = "finished"]
<1>1. /\ pc = "end" /\ pc' = "idle" /\ UNCHANGED <<call, reader, prepared, nextLba, toc, queued, callOver, drive, content, late>>
      /\ worker' = IF Allowed(w) /\ prepared THEN p ELSE f
  BY DEF End, Goto, threadFrame
<1>2. Thread /\ pc \notin {"idle", "exited"}
  BY <1>1 DEF Thread
<1>3. /\ Shape(worker) /\ Active /\ ~queued /\ ~worker.inflight /\ ~reader /\ drive # "capture"
      /\ worker.busy /\ worker.state \in {"collecting", "incomplete", "invalid"}
      /\ ~worker.released /\ ~status.released /\ Shape(status) /\ status.state # "complete"
  BY <1>1, <1>2, InJob, JobIsBusy
<1>4. Eased(worker, r) /\ Shape(r)
  BY <1>3, RefreshEases DEF Eased
<1> HIDE DEF r
<1>5. /\ r.busy /\ ~r.released /\ r.state \in {"collecting", "incomplete", "invalid"} /\ (r.state = "collecting" => r = worker)
      /\ ~r.pending /\ ~r.result /\ r.phase # "prepared" /\ r \in Statuses
  <2>1. r.busy /\ ~r.released /\ (r.state = "collecting" => r = worker)
    BY <1>3, <1>4, EasedMeans DEF SameHold
  <2>2. r.state \in {"collecting", "incomplete", "invalid"}
    BY <1>3, <1>4 DEF Eased
  <2> QED
    BY <1>4, <2>1, <2>2 DEF Shape
<1>6. /\ w \in Statuses /\ w.busy /\ w.released = TRUE /\ w.inflight = FALSE /\ w.state = r.state /\ w.phase = r.phase
      /\ w.pending = r.pending /\ w.result = r.result
  BY <1>5 DEF Statuses
<1> HIDE DEF w
<1>7. Allowed(w) <=> ~closing /\ w.state = "collecting"
  BY <1>5, <1>6 DEF Allowed, Running
<1>8. "prepared" \in InputStates /\ "incomplete" \in InputStates /\ "prepared" \in Phases /\ "finished" \in Phases
  BY DEF InputStates, Phases
<1>9. /\ p \in Statuses /\ p.pending = TRUE /\ p.state = "prepared" /\ p.phase = "prepared" /\ p.busy
      /\ p.released = TRUE /\ p.inflight = FALSE /\ p.result = FALSE
  BY <1>5, <1>6, <1>8 DEF Statuses
<1> HIDE DEF p
<1>10. /\ s \in Statuses /\ s.state \in {"collecting", "incomplete", "invalid"} /\ ~s.pending /\ ~s.result
       /\ s.released = TRUE /\ s.inflight = FALSE /\ (s.state = "collecting" => closing /\ w.state = "collecting")
  <2>1. CASE Allowed(w)
    <3> DEFINE busy == w.busy /\ w.phase # "prepared"
               phase == IF w.phase = "prepared" THEN "finished" ELSE w.phase
               u == [w EXCEPT !.state = "incomplete", !.pending = FALSE, !.result = FALSE, !.busy = busy, !.phase = phase]
    <3>1. Stops(w, "incomplete")
      BY <1>7, <2>1 DEF Stops, Running
    <3>2. s = u
      BY <2>1, <3>1 DEF Stop
    <3>3. busy \in BOOLEAN /\ phase \in Phases
      BY <1>6, <1>8 DEF Statuses
    <3> HIDE DEF busy, phase
    <3>4. /\ u \in Statuses /\ u.state = "incomplete" /\ u.pending = FALSE /\ u.result = FALSE
          /\ u.released = w.released /\ u.inflight = w.inflight
      BY <1>6, <1>8, <3>3 DEF Statuses
    <3> QED
      BY <1>6, <3>2, <3>4
  <2>2. CASE ~Allowed(w)
    BY <1>5, <1>6, <1>7, <2>2
  <2> QED
    BY <2>1, <2>2
<1>11. s.state # "collecting"
  <2>1. w.state = "collecting" => ~closing
    BY <1>5, <1>6 DEF CaptureInv, RunInv, Running
  <2> QED
    BY <1>10, <2>1
<1> HIDE DEF s
<1>12. /\ f \in Statuses /\ f.busy = FALSE /\ f.phase = "finished" /\ f.state = s.state /\ f.pending = s.pending
       /\ f.result = s.result /\ f.released = TRUE /\ f.inflight = FALSE
  BY <1>8, <1>10 DEF Statuses
<1> HIDE DEF f
<1>13. Shape(p) /\ Shape(f) /\ f.state \in {"incomplete", "invalid"}
  BY <1>9, <1>10, <1>11, <1>12 DEF Shape
<1>14. /\ Shape(worker') /\ worker'.released /\ ~worker'.inflight
       /\ \/ worker'.state \in {"incomplete", "invalid"}
          \/ worker'.state = "prepared" /\ prepared /\ worker.state = "collecting" /\ ~closing
  BY <1>1, <1>5, <1>6, <1>7, <1>9, <1>12, <1>13
<1>15. SessionTypes' /\ UNCHANGED <<status, closing, jobOver, disc, disturbed>>
  BY <1>2, ThreadFrame
<1>16. ShapeInv'
  BY <1>3, <1>14, <1>15 DEF ShapeInv
<1>17. RunInv' /\ ResultInv'
  BY <1>1, <1>14, <1>15 DEF CaptureInv, RunInv, ResultInv, Running
<1>18. ThreadTypes' /\ WorldTypes'
  BY <1>1, <1>15 DEF CaptureInv, TypeInv, ThreadTypes, Places, WorldTypes
<1>19. PlaceInv'
  BY <1>1, <1>3, <1>14 DEF PlaceInv, Active
<1>20. ReadInv'
  BY <1>1, <1>3 DEF CaptureInv, ReadInv, Cleanup, TocMatches
<1> QED
  BY <1>15, <1>16, <1>17, <1>18, <1>19, <1>20 DEF CaptureInv, TypeInv

\* Every step of the thread keeps the invariant.
LEMMA ThreadKeeps == ASSUME CaptureInv, Thread PROVE CaptureInv'
BY TakeKeeps, ExitKeeps, AskKeeps, AcquireKeeps, ReserveKeeps, CallThrowsKeeps, CallReturnsKeeps, AfterCallKeeps,
   FinalizeKeeps, CoreConfirmKeeps, EndKeeps DEF Thread

-----------------------------------------------------------------------------
(* The invariant.                                                          *)

\* The invariant holds initially.
LEMMA InitHolds == ASSUME Init PROVE CaptureInv
<1>1. /\ context = 1 /\ current = TRUE /\ gate \in BOOLEAN /\ mediaIdle = TRUE
      /\ status = NoJob /\ plan = 0 /\ manifest = FALSE /\ jobs = 0 /\ worker = NoJob /\ queued = FALSE /\ closing = FALSE
      /\ jobOver = FALSE /\ callOver = FALSE /\ pc = "idle" /\ call = "initial_toc" /\ reader = FALSE
      /\ prepared = FALSE /\ nextLba = 0 /\ toc = 0
      /\ drive = "free" /\ disc = 0 /\ content = {} /\ disturbed = FALSE /\ late = FALSE
  BY DEF Init
<1>2. /\ NoJob \in Statuses /\ NoJob.state = "none" /\ NoJob.phase = "idle" /\ NoJob.busy = FALSE
      /\ NoJob.released = TRUE /\ NoJob.inflight = FALSE /\ NoJob.pending = FALSE /\ NoJob.result = FALSE
  BY DEF NoJob, Statuses, InputStates, Phases
<1>3. Shape(worker) /\ Shape(status)
  BY <1>1, <1>2 DEF Shape
<1>4. 1 \in 1..MaxContexts /\ 0 \in 0..MaxContexts /\ 0 \in 0..MaxJobs /\ 0 \in 0..Length /\ 0 \in 0..MaxSwaps
  BY CaptureConstants
<1>5. SessionTypes /\ ThreadTypes /\ WorldTypes
  BY <1>1, <1>2, <1>4 DEF SessionTypes, ThreadTypes, WorldTypes, Places, Calls
<1>6. ShapeInv /\ PlaceInv /\ RunInv /\ ResultInv
  BY <1>1, <1>2, <1>3 DEF ShapeInv, PlaceInv, RunInv, ResultInv, Active, Running
<1>7. ReadInv
  BY <1>1 DEF ReadInv, Cleanup
<1> QED
  BY <1>5, <1>6, <1>7 DEF CaptureInv, TypeInv

\* Stuttering keeps the invariant.
LEMMA StutterKeeps == ASSUME CaptureInv, UNCHANGED vars PROVE CaptureInv'
<1>1. UNCHANGED <<sessionVars, worker, queued, closing, clockVars, threadVars, drive, disc, content, disturbed, late>>
  BY DEF vars
<1>2. UNCHANGED <<context, current, gate, mediaIdle, status, plan, manifest, jobs, worker, queued, closing, jobOver, callOver,
                  pc, call, reader, prepared, nextLba, toc, drive, disc, content, disturbed, late>>
  BY <1>1 DEF sessionVars, clockVars, threadVars
<1>3. SessionTypes' /\ ThreadTypes' /\ WorldTypes'
  BY <1>2 DEF CaptureInv, TypeInv, SessionTypes, ThreadTypes, WorldTypes
<1>4. ShapeInv' /\ PlaceInv' /\ RunInv' /\ ResultInv'
  BY <1>2 DEF CaptureInv, ShapeInv, PlaceInv, RunInv, ResultInv, Active, Running, Cleanup
<1>5. ReadInv'
  BY <1>2, ReadKept DEF CaptureInv
<1> QED
  BY <1>3, <1>4, <1>5 DEF CaptureInv, TypeInv

\* Every step keeps the invariant.
LEMMA NextKeeps == ASSUME CaptureInv, [Next]_vars PROVE CaptureInv'
BY SessionKeeps, ThreadKeeps, WorldKeeps, StutterKeeps DEF Next

\* The inductive invariant of the capture.
THEOREM CaptureInvariant == Spec => []CaptureInv
<1>1. Init => CaptureInv
  BY InitHolds
<1>2. CaptureInv /\ [Next]_vars => CaptureInv'
  BY NextKeeps
<1> QED
  BY <1>1, <1>2, PTL DEF Spec

\* A result that is served was made of every frame, all of disc 0.
LEMMA CompleteIsWhole ==
    ASSUME CaptureInv, worker.state = "complete"
    PROVE  worker.result /\ nextLba = Length /\ content = {0} /\ ~disturbed /\ ~late
<1>1. Shape(worker) /\ prepared
  BY DEF CaptureInv, ShapeInv, ResultInv
<1>2. worker.result /\ worker.released
  BY <1>1 DEF Shape
<1>3. ~queued /\ pc \in {"idle", "exited"}
  BY <1>2 DEF CaptureInv, PlaceInv, Active
<1>4. nextLba = Length /\ TocMatches
  BY <1>1, <1>3 DEF CaptureInv, ReadInv
<1>5. content \subseteq {0} /\ content # {}
  BY <1>1, <1>3, <1>4, CaptureConstants DEF CaptureInv, ReadInv
<1>6. ~disturbed /\ ~late
  BY DEF CaptureInv, RunInv, TypeInv, WorldTypes
<1> QED
  BY <1>2, <1>4, <1>5, <1>6

\* The invariant says that a result is honest.
LEMMA InvMeansHonest == CaptureInv => ResultIsHonest
<1> SUFFICES ASSUME CaptureInv PROVE ResultIsHonest
  OBVIOUS
<1>1. SessionTypes /\ ThreadTypes /\ WorldTypes /\ Shape(worker) /\ Shape(status)
  BY DEF CaptureInv, TypeInv, ShapeInv
<1>2. TypeOK
  <2>1. {status, worker} \subseteq Statuses
    BY <1>1 DEF Shape
  <2>2. /\ context \in 1..MaxContexts /\ plan \in 0..MaxContexts /\ jobs \in 0..MaxJobs
        /\ call \in Calls /\ nextLba \in 0..Length /\ drive \in {"free", "capture", "other"}
        /\ pc \in {"idle", "ask", "wait", "reserve", "inflight", "returned", "finalize", "confirm", "end", "exited"}
    BY <1>1 DEF SessionTypes, ThreadTypes, WorldTypes, Places
  <2>3. /\ current \in BOOLEAN /\ gate \in BOOLEAN /\ mediaIdle \in BOOLEAN /\ manifest \in BOOLEAN
        /\ queued \in BOOLEAN /\ closing \in BOOLEAN /\ jobOver \in BOOLEAN /\ callOver \in BOOLEAN
        /\ reader \in BOOLEAN /\ prepared \in BOOLEAN /\ disturbed \in BOOLEAN /\ late \in BOOLEAN
    BY <1>1 DEF SessionTypes, ThreadTypes, WorldTypes
  <2>4. {current, gate, mediaIdle, manifest, queued, closing, jobOver, callOver, reader,
         prepared, disturbed, late} \subseteq BOOLEAN
    BY <2>3
  <2>5. {toc, disc} \subseteq 0..MaxSwaps /\ content \subseteq 0..MaxSwaps
    <3>1. toc \in 0..MaxSwaps /\ disc \in 0..MaxSwaps /\ content \subseteq 0..disc
      BY <1>1 DEF ThreadTypes, WorldTypes
    <3>2. 0..disc \subseteq 0..MaxSwaps
      BY <3>1, CaptureConstants
    <3> QED
      BY <3>1, <3>2
  <2> QED
    BY <2>1, <2>2, <2>4, <2>5 DEF TypeOK
<1>3. ResultsMatchState
  BY <1>1 DEF ResultsMatchState, Shape
<1>4. ServedIsWhole
  <2> SUFFICES ASSUME Served PROVE worker.state = "complete"
    BY CompleteIsWhole DEF ServedIsWhole
  <2> QED
    BY DEF Served, CaptureInv, ShapeInv
<1>5. ReleasedIsReal
  <2> SUFFICES ASSUME status.released \/ ~status.busy PROVE ~reader /\ ~worker.inflight /\ drive # "capture"
    BY DEF ReleasedIsReal
  <2>1. status.released
    BY <1>1 DEF Shape
  <2>2. worker.released
    BY <2>1 DEF CaptureInv, ShapeInv
  <2> QED
    BY <2>2 DEF CaptureInv, PlaceInv, Active
<1> QED
  BY <1>2, <1>3, <1>4, <1>5 DEF ResultIsHonest

\* What is served of CompletePcmSession is a whole disc, read under the
\* context that is still in force; results are held only in the state they
\* belong to; and a capture that says it is released is off the drive.
THEOREM ResultIsHonestAlways == Spec => []ResultIsHonest
BY CaptureInvariant, InvMeansHonest, PTL

-----------------------------------------------------------------------------
(* A job that was stopped.                                                 *)

\* Only Reserve marks a call as in flight, and it has asked before.
LEMMA OnlyReserveBegins ==
    ASSUME CaptureInv, [Next]_vars, worker'.inflight, ~worker.inflight
    PROVE  Cleanup \/ worker'.state = "collecting"
<1>1. pc # "inflight" /\ pc' = "inflight"
  <2>1. CaptureInv'
    BY NextKeeps
  <2> QED
    BY <2>1 DEF CaptureInv, PlaceInv
<1>2. Reserve
  <2>1. ~UNCHANGED pc
    BY <1>1
  <2>2. Session \/ JobDeadlinePasses \/ CallDeadlinePasses \/ SwapDisc \/ OtherUser \/ UNCHANGED vars => UNCHANGED threadVars
    BY DEF Session, Start, Cancel, ChangeContext, Command, Interrupt, LoseDevice, PollMedia, Poll, Destroy,
           JobDeadlinePasses, CallDeadlinePasses, SwapDisc, OtherUser, vars
  <2>3. Thread
    BY <2>1, <2>2 DEF Next, threadVars
  <2>4. pc' \in {"ask", "exited", "wait", "reserve", "end", "returned", "confirm", "finalize", "idle"} \/ Reserve
    BY <2>3 DEF Thread, TakeJob, Exit, Ask, Acquire, CallThrows, CallReturns, AfterCall, Continue, Finalize, CoreConfirm, End,
                Abandon, Goto, Request
  <2> QED
    BY <1>1, <2>4
<1> DEFINE r == Refresh(worker)
           w == [r EXCEPT !.waiting = FALSE]
           v == [w EXCEPT !.inflight = TRUE]
<1>3. MayReserve(w) /\ worker' = v
  <2>1. (MayReserve(w) /\ worker' = v) \/ Abandon
    BY <1>2 DEF Reserve
  <2>2. Abandon => pc' \in {"ask", "end"}
    BY DEF Abandon, Request, Goto
  <2> QED
    BY <1>1, <2>1, <2>2
<1>4. r \in Statuses /\ r.state \in {"collecting", "incomplete", "invalid"}
  <2>1. Active
    BY <1>2 DEF Reserve, Active
  <2>2. Eased(worker, r)
    BY <2>1, JobIsBusy, RefreshEases
  <2> QED
    BY <2>1, <2>2, JobIsBusy DEF Eased, Shape
<1> HIDE DEF r
<1>5. w.state = r.state /\ v.state = r.state
  BY <1>4 DEF Statuses
<1> HIDE DEF w, v
<1>6. Cleanup \/ w.state \in {"collecting", "prepared"}
  BY <1>3 DEF MayReserve, Allowed, Running
<1> QED
  BY <1>3, <1>4, <1>5, <1>6

\* The worker begins no further call for a job that was cancelled,
\* interrupted or out of time, even while it waited for the drive.
THEOREM NoCallAfterStopAlways == Spec => NoCallAfterStop
<1>1. CaptureInv /\ [Next]_vars =>
        [(worker'.inflight /\ ~worker.inflight) => (Cleanup \/ worker'.state = "collecting")]_vars
  BY OnlyReserveBegins
<1> QED
  BY <1>1, CaptureInvariant, PTL DEF Spec, NoCallAfterStop
=============================================================================
