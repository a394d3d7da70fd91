----------------------------- MODULE AsyncLogger -----------------------------
(***************************************************************************)
(* AsyncLogger: any thread of the daemon adds a record to a bounded queue  *)
(* and goes on; one thread writes the records out.  Where the queue is full*)
(* a record of high priority (NOTICE and above) takes the place of the     *)
(* oldest one of low priority (DEBUG, INFO); what is lost is counted, and  *)
(* the count is the last line that the thread writes.                      *)
(*                                                                         *)
(* Records that the level filter leaves out never reach submit().  A sink  *)
(* that fails is ignored, so output is what the sinks were handed.         *)
(***************************************************************************)
EXTENDS Naturals, Sequences, FiniteSetsExt, SequencesExt

CONSTANTS
    Capacity,  \* records that the queue holds
    MaxRecords \* bound: records that the daemon submits

ASSUME LoggerConstants == Capacity \in Nat \ {0} /\ MaxRecords \in Nat

VARIABLES
    log,    \* queue_, stopping_ and dropped_, how many records were submitted,
            \* and, a history, the records of high priority that were queued
    writer, \* the thread: where it is, and the record in its hands
    output  \* the records written, in order, and the count of the last line

loggerVars == <<log, writer, output>>

LoggerInit ==
    /\ log = [queue |-> <<>>, stopping |-> FALSE, dropped |-> 0, submitted |-> 0, high |-> {}]
    /\ writer = [at |-> "waiting", hands |-> <<>>]
    /\ output = [records |-> <<>>, dropped |-> {}]

-----------------------------------------------------------------------------
(* submit(), under the lock.                                               *)

Lost(l) == [l EXCEPT !.dropped = @ + 1]

Enqueued(l, record) ==
    [l EXCEPT !.queue = Append(@, record),
              !.high = IF record.high THEN @ \cup {record.id} ELSE @]

LowPriority(queue) == {i \in DOMAIN queue : ~queue[i].high}
Full(l) == Len(l.queue) >= Capacity

\* Mutant: the oldest record makes room, whatever it is.
EvictsOldest(l) == Lost([l EXCEPT !.queue = Tail(@)])

\* The oldest record of low priority makes room, and is lost.
Evicts(l) == Lost([l EXCEPT !.queue = RemoveAt(@, Min(LowPriority(@)))])

Refused(l, high) == l.stopping \/ (Full(l) /\ (~high \/ LowPriority(l.queue) = {}))
WithRoom(l) == IF Full(l) THEN Evicts(l) ELSE l

\* A record that cannot be built, or not be added to the queue, is lost too,
\* after another one has made room for it.
Submit(high) ==
    LET numbered == [log EXCEPT !.submitted = @ + 1]
        record == [id |-> numbered.submitted, high |-> high]
    IN /\ log.submitted < MaxRecords
       /\ \/ log' = Lost(numbered)
          \/ /\ ~Refused(log, high)
             /\ log' \in {Enqueued(WithRoom(numbered), record), Lost(WithRoom(numbered))}
       /\ UNCHANGED <<writer, output>>

\* shutdown(), which then joins the thread.
Shutdown ==
    /\ ~log.stopping
    /\ log' = [log EXCEPT !.stopping = TRUE]
    /\ UNCHANGED <<writer, output>>

-----------------------------------------------------------------------------
(* run()                                                                   *)

\* Mutant: the thread ends as soon as it is told to.
DoneAtOnce == log.stopping

\* The thread ends when it has nothing left to write.
Done == log.stopping /\ log.queue = <<>>

TakeRecord ==
    /\ writer.at = "waiting" /\ ~Done /\ log.queue # <<>>
    /\ writer' = [at |-> "writing", hands |-> <<Head(log.queue)>>]
    /\ log' = [log EXCEPT !.queue = Tail(@)]
    /\ UNCHANGED output

WriteRecord ==
    /\ writer.at = "writing"
    /\ output' = [output EXCEPT !.records = @ \o writer.hands]
    /\ writer' = [at |-> "waiting", hands |-> <<>>]
    /\ UNCHANGED log

LeaveLoop ==
    /\ writer.at = "waiting" /\ Done
    /\ writer' = [writer EXCEPT !.at = "reporting"]
    /\ UNCHANGED <<log, output>>

\* The records lost so far are reported, if there are any.
ReportDropped ==
    /\ writer.at = "reporting"
    /\ output' = [output EXCEPT !.dropped = {log.dropped} \ {0}]
    /\ writer' = [writer EXCEPT !.at = "gone"]
    /\ UNCHANGED log

LogWriter == TakeRecord \/ WriteRecord \/ LeaveLoop \/ ReportDropped

LoggerNext == Shutdown \/ LogWriter \/ \E high \in BOOLEAN : Submit(high)

\* The thread is scheduled; a sink that blocks for ever is not considered.
LoggerFairness == WF_loggerVars(LogWriter)

LoggerSpec == LoggerInit /\ [][LoggerNext]_loggerVars /\ LoggerFairness

-----------------------------------------------------------------------------
LoggerType ==
    /\ log.dropped \in 0..MaxRecords /\ log.submitted \in 0..MaxRecords
    /\ writer.at \in {"waiting", "writing", "reporting", "gone"}
    /\ Len(writer.hands) = IF writer.at = "writing" THEN 1 ELSE 0

Retained == output.records \o writer.hands \o log.queue

\* Every record submitted is retained once or counted as lost, once: also the
\* one that makes room for a record which then cannot be added.
EveryRecordCounts == Len(Retained) + log.dropped = log.submitted

\* Records are written in the order they were submitted in, the queue stays
\* within its capacity, and no record of high priority that was queued is lost.
HighRecordsAreKept ==
    /\ \A i, j \in DOMAIN Retained : i < j => Retained[i].id < Retained[j].id
    /\ Len(log.queue) <= Capacity
    /\ log.high = {r.id : r \in {Retained[i] : i \in {k \in DOMAIN Retained : Retained[k].high}}}

LogIsAccounted == LoggerType /\ EveryRecordCounts /\ HighRecordsAreKept

\* A shutdown ends the thread, after it has written all that was queued.
LogDrains == log.stopping ~> writer.at = "gone" /\ log.queue = <<>>
=============================================================================
