---------------------- MODULE ReadDiagnosticsPublisher ----------------------
(***************************************************************************)
(* ReadDiagnosticsPublisher: the session thread asks for the disc map or   *)
(* for the history of reads of its context and gets what was published     *)
(* last; where that is due for a refresh it captures the facts for a       *)
(* worker, which turns them into JSON without the lock.  Meanwhile the     *)
(* context may change, and change back.                                    *)
(*                                                                         *)
(* What is published is known by the context revision it was captured      *)
(* under.  The one worker publishes captures in the order of their numbers,*)
(* so sequence_ and the comparison with it are left out.                   *)
(***************************************************************************)
EXTENDS Naturals

CONSTANTS
    DiagnosticContexts, \* a stream generation with the disc generation, or with none
    NoContext,          \* the context that a publisher starts with
    MaxRevision,        \* bound: changes of context that the publisher gets to see
    MaxFailures         \* bound: captures that throw, and projections that fail

ASSUME PublisherConstants ==
    NoContext \notin DiagnosticContexts /\ MaxRevision \in Nat \ {0} /\ MaxFailures \in Nat

VARIABLES
    asking,     \* the context the session would ask for now
    publisher,  \* the fields of the publisher, under its mutex
    projection  \* the worker: waiting, projecting a capture, or gone

publisherVars == <<asking, publisher, projection>>

Kinds == {"map", "history"}

\* What the projection of a capture, with or without the history, yields.
Yields(detail) == IF detail THEN Kinds ELSE {"map"}
DetailOf(kind) == kind = "history"

Waiting == [at |-> "waiting"]

\* body holds the revision of the capture that was published, if one was;
\* active the revision, context and detail of the capture being projected;
\* recent the kinds captured within the refresh interval.  owed is a history
\* variable: the kinds whose last capture has not been projected yet.
Unpublished == [k \in Kinds |-> {}]

PublisherInit ==
    /\ asking \in DiagnosticContexts
    /\ publisher = [context |-> NoContext, revision |-> 0, body |-> Unpublished,
                    pending |-> {}, active |-> {}, recent |-> {}, owed |-> {},
                    closing |-> FALSE, failures |-> 0]
    /\ projection = Waiting

-----------------------------------------------------------------------------
(* The session thread.                                                     *)

\* A stream starts, or the disc becomes or ceases to be valid.
ContextChanges ==
    /\ publisher.revision < MaxRevision
    /\ asking' \in DiagnosticContexts \ {asking}
    /\ UNCHANGED <<publisher, projection>>

\* The refresh interval of a kind is over.
IntervalPasses(kind) ==
    /\ kind \in publisher.recent
    /\ publisher' = [publisher EXCEPT !.recent = @ \ {kind}]
    /\ UNCHANGED <<asking, projection>>

\* A request in a new context forgets all that was of the old one.
Renewed(p) ==
    IF p.context = asking THEN p
    ELSE [p EXCEPT !.context = asking, !.revision = @ + 1,
                   !.body = Unpublished, !.pending = {}, !.recent = {}, !.owed = {}]

\* Mutant: a capture that waits does not cover a request, and is replaced.
CoveredByActive(p, kind) ==
    \E job \in p.active : job.revision = p.revision /\ kind \in Yields(job.detail)

\* Will what is being projected, or what waits, answer a request?
Covered(p, kind) ==
    \/ \E job \in p.active : /\ job.revision = p.revision /\ job.context = p.context
                             /\ kind \in Yields(job.detail)
    \/ \E job \in p.pending : kind \in Yields(job.detail)

Captured(p, kind) ==
    [p EXCEPT !.pending = {[revision |-> p.revision, detail |-> DetailOf(kind)]},
              !.recent = @ \cup {kind}, !.owed = @ \cup {kind}]

\* Something failed: a bound on how often.
Failed(p) == [p EXCEPT !.failures = @ + 1]

\* request(context, detail): the answer is publisher'.body[kind].  The capture
\* throws when its facts are not of the context.
RequestBody(kind) ==
    LET p == Renewed(publisher)
    IN /\ ~publisher.closing
       /\ \/ /\ Covered(p, kind) \/ kind \in p.recent
             /\ publisher' = p
          \/ /\ ~Covered(p, kind) /\ kind \notin p.recent
             /\ \/ publisher' = Captured(p, kind)
                \/ p.failures < MaxFailures /\ publisher' = Failed(p)
       /\ UNCHANGED <<asking, projection>>

\* ~ReadDiagnosticsPublisher(), which then joins the worker.
ClosePublisher ==
    /\ ~publisher.closing
    /\ publisher' = [publisher EXCEPT !.closing = TRUE, !.pending = {}]
    /\ UNCHANGED <<asking, projection>>

-----------------------------------------------------------------------------
(* The worker.                                                             *)

WorkerEnds ==
    /\ projection = Waiting /\ publisher.closing
    /\ projection' = [at |-> "gone"]
    /\ UNCHANGED <<asking, publisher>>

TakeCapture ==
    /\ projection = Waiting /\ ~publisher.closing
    /\ \E capture \in publisher.pending :
         /\ publisher' = [publisher EXCEPT
                !.pending = {},
                !.active = {[revision |-> publisher.revision, context |-> publisher.context,
                             detail |-> capture.detail]}]
         /\ projection' = [at |-> "projecting", capture |-> capture,
                           revision |-> publisher.revision, context |-> publisher.context]
    /\ UNCHANGED asking

\* Is what was projected still of the context, without a change in between?
StillCurrent ==
    /\ ~publisher.closing
    /\ projection.context = publisher.context /\ projection.revision = publisher.revision

PublicationOf(p, yields) ==
    [p EXCEPT !.active = {},
              !.owed = IF projection.revision = p.revision
                       THEN @ \ Yields(projection.capture.detail) ELSE @,
              !.body = [k \in Kinds |-> IF k \in yields /\ StillCurrent
                                        THEN {projection.capture.revision} ELSE @[k]]]

\* Mutant: what could not be projected is still taken for active.
LeftActive(p, yields) ==
    IF yields # {} THEN PublicationOf(p, yields) ELSE p

\* The lock is taken again: the projection yields bodies, or none where it
\* threw or its result was too large.
Publication(p, yields) == PublicationOf(p, yields)

Publish(published) ==
    /\ projection.at = "projecting"
    /\ publisher' = published
    /\ projection' = Waiting
    /\ UNCHANGED asking

ProjectionSucceeds == Publish(Publication(publisher, Yields(projection.capture.detail)))

ProjectionFails ==
    publisher.failures < MaxFailures /\ Publish(Failed(Publication(publisher, {})))

PublisherWorker == WorkerEnds \/ TakeCapture \/ ProjectionSucceeds \/ ProjectionFails

PublisherNext ==
    \/ ContextChanges \/ ClosePublisher
    \/ \E kind \in Kinds : IntervalPasses(kind) \/ RequestBody(kind)
    \/ PublisherWorker

\* A worker that runs, time that passes, and a client that asks again and again.
PublisherFairness ==
    /\ WF_publisherVars(PublisherWorker)
    /\ \A kind \in Kinds : /\ WF_publisherVars(IntervalPasses(kind))
                           /\ WF_publisherVars(RequestBody(kind))

PublisherSpec == PublisherInit /\ [][PublisherNext]_publisherVars /\ PublisherFairness

-----------------------------------------------------------------------------
PublisherType ==
    /\ asking \in DiagnosticContexts
    /\ publisher.context \in DiagnosticContexts \cup {NoContext}
    /\ publisher.revision \in 0..(MaxRevision + 1)
    /\ publisher.recent \subseteq Kinds

\* What a request is answered was captured in the context it asks for, and
\* since that context last began: a context that goes and comes back (a disc
\* that is not ready for a moment) does not bring back what was captured
\* before, nor does a projection that was under way meanwhile.
BodiesAreCurrent == \A k \in Kinds : publisher.body[k] \subseteq {publisher.revision}

\* A capture made for one kind is not lost to a later request for the other:
\* until it has been projected, it waits, or is being projected.
CapturesAreKept ==
    LET underway == {job \in publisher.active : job.revision = publisher.revision}
    IN  \A k \in publisher.owed :
          publisher.closing \/ \E job \in publisher.pending \cup underway : k \in Yields(job.detail)

DiagnosticsAreCurrent == PublisherType /\ BodiesAreCurrent /\ CapturesAreKept

\* A client that goes on asking gets both bodies, however often the context
\* changed and something failed before; a publisher that is destroyed is joined.
DiagnosticsArrive ==
    /\ publisher.revision > 0 ~> publisher.closing \/ \A k \in Kinds : publisher.body[k] # {}
    /\ publisher.closing ~> projection.at = "gone"
=============================================================================
