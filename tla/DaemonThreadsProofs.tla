------------------------- MODULE DaemonThreadsProofs -------------------------
(***************************************************************************)
(* Four parts of the daemon that work beside the session and share no      *)
(* state, each for any value of its constants: that the adapter is active  *)
(* only under the path the TV named last; that the diagnostics published   *)
(* are of the context they are asked for; that the log accounts for every  *)
(* record; and that what the network lookups bring is of the disc, the     *)
(* release and the artist of the moment.                                   *)
(***************************************************************************)
EXTENDS Enrichment, ReadDiagnosticsPublisher, AsyncLogger, CecDevice,
        FiniteSetTheorems, SequenceTheorems, WellFoundedInduction, TLAPS

-----------------------------------------------------------------------------
(* CecDevice: the session between what the adapter is and what the TV asked.*)

Seen == {{}} \cup {{a} : a \in Addresses}
Adapters == [physical : Addresses, config : {"none", "ours", "other"},
             claimed : BOOLEAN, inbox : Seq(Messages)]
CecStates == [physical : Addresses, logical : BOOLEAN, active : BOOLEAN,
              seen : Seen, failed : BOOLEAN]
Routings == [last : Addresses, messages : Nat, plugs : Nat]

CecTypes == adapter \in Adapters /\ cec \in CecStates /\ routing \in Routings

\* An active source has an address, and the TV named it last.
ActiveInv == cec.active => cec.physical # Unplugged /\ routing.last = cec.physical

CecInv == CecTypes /\ ActiveInv

\* The invariant holds before the adapter is looked at.
LEMMA CecInitHolds == CecInit => CecInv
<1> SUFFICES ASSUME CecInit PROVE CecInv
  OBVIOUS
<1>1. {} \in Addresses /\ {} \in Seen /\ <<>> \in Seq(Messages)
  BY DEF Addresses, Unplugged, Seen
<1>2. adapter \in Adapters
  BY <1>1 DEF CecInit, Adapters
<1>3. cec \in CecStates /\ ~cec.active
  BY <1>1 DEF CecInit, CecStates, Unplugged
<1>4. routing \in Routings
  BY <1>1 DEF CecInit, Routings
<1> QED
  BY <1>2, <1>3, <1>4 DEF CecInv, CecTypes, ActiveInv

\* What the adapter and the TV do leaves the session and the path named alone.
LEMMA AdapterKeeps ==
    ASSUME CecInv, HotPlug \/ ClaimAddress \/ \E message \in Messages : TvSends(message)
    PROVE  CecInv'
<1>1. UNCHANGED cec /\ adapter' \in Adapters /\ routing' \in Routings /\ routing'.last = routing.last
  <2>1. CASE HotPlug
    <3>1. PICK p \in Addresses : adapter' = [adapter EXCEPT !.physical = p, !.claimed = FALSE]
      BY <2>1 DEF HotPlug
    <3>2. adapter' \in Adapters
      BY <3>1 DEF CecInv, CecTypes, Adapters
    <3>3. routing' \in Routings /\ routing'.last = routing.last
      <4>1. routing' = [routing EXCEPT !.plugs = @ + 1]
        BY <2>1 DEF HotPlug
      <4>2. routing \in Routings
        BY DEF CecInv, CecTypes
      <4> QED
        BY <4>1, <4>2 DEF Routings
    <3> QED
      BY <2>1, <3>2, <3>3 DEF HotPlug
  <2>2. CASE ClaimAddress
    BY <2>2 DEF ClaimAddress, CecInv, CecTypes, Adapters
  <2>3. CASE \E message \in Messages : TvSends(message)
    <3>1. PICK message \in Messages : TvSends(message)
      BY <2>3
    <3>2. Append(adapter.inbox, message) \in Seq(Messages)
      BY DEF CecInv, CecTypes, Adapters
    <3> QED
      <4>1. adapter' \in Adapters
        BY <3>1, <3>2 DEF TvSends, CecInv, CecTypes, Adapters
      <4>2. routing' \in Routings /\ routing'.last = routing.last
        BY <3>1 DEF TvSends, CecInv, CecTypes, Routings
      <4> QED
        BY <3>1, <4>1, <4>2 DEF TvSends
  <2> QED
    BY <2>1, <2>2, <2>3
<1> QED
  BY <1>1 DEF CecInv, CecTypes, ActiveInv

\* update() keeps an active source only with the address it was named by.
LEMMA UpdateKeeps == ASSUME CecInv, ReadPhysical \/ ReadLogical PROVE CecInv'
<1>1. CASE ReadPhysical
  <2>1. cec' = [cec EXCEPT !.seen = {adapter.physical}] /\ UNCHANGED <<adapter, routing>>
    BY <1>1 DEF ReadPhysical
  <2>2. {adapter.physical} \in Seen
    BY DEF CecInv, CecTypes, Adapters, Seen
  <2>3. cec' \in CecStates /\ cec'.active = cec.active /\ cec'.physical = cec.physical
    BY <2>1, <2>2 DEF CecInv, CecTypes, CecStates
  <2> QED
    BY <2>1, <2>3 DEF CecInv, CecTypes, ActiveInv
<1>2. CASE ReadLogical
  <2>1. PICK physical \in cec.seen : TRUE
    BY <1>2 DEF ReadLogical
  <2>2. /\ cec \in CecStates /\ adapter \in Adapters /\ routing \in Routings
        /\ {} \in Seen /\ Unplugged \in Addresses /\ {} \in Addresses
    BY DEF CecInv, CecTypes, Seen, Addresses, Unplugged
  <2>3. adapter' \in Adapters
    BY <1>2, <2>2 DEF ReadLogical, Adapters
  <2>4. \A b \in BOOLEAN : Forgets(b) \in Routings /\ (b => Forgets(b) = routing)
    BY <2>2 DEF Forgets, Routings
  <2>5. CASE adapter.config = "other"
    <3>1. cec' = [cec EXCEPT !.seen = {}, !.failed = TRUE] /\ UNCHANGED routing
      BY <1>2, <2>5 DEF ReadLogical
    <3>2. cec' \in CecStates /\ cec'.active = cec.active /\ cec'.physical = cec.physical
      BY <2>2, <3>1 DEF CecStates
    <3> QED
      BY <2>3, <3>1, <3>2 DEF CecInv, CecTypes, ActiveInv
  <2>6. CASE adapter.config # "other" /\ ~(\E p \in cec.seen : p # Unplugged /\ adapter.config = "ours" /\ adapter.claimed)
    <3>1. routing' = Forgets(FALSE)
      BY <1>2, <2>6 DEF ReadLogical
    <3>2. PICK p \in cec.seen :
            \/ cec' = [Inactive([cec EXCEPT !.seen = {}]) EXCEPT !.physical = Unplugged]
            \/ cec' = [Inactive([cec EXCEPT !.seen = {}]) EXCEPT !.physical = p]
            \/ cec' = [Inactive([cec EXCEPT !.seen = {}]) EXCEPT !.physical = p, !.failed = TRUE]
            \/ cec' = Inactive([cec EXCEPT !.seen = {}])
      BY <1>2, <2>6 DEF ReadLogical
    <3>3. p \in Addresses
      BY <2>2 DEF CecStates, Seen
    <3>4. cec' \in CecStates /\ ~cec'.active
      BY <2>2, <3>2, <3>3 DEF CecStates, Inactive
    <3> QED
      BY <2>3, <2>4, <3>1, <3>4 DEF CecInv, CecTypes, ActiveInv
  <2>7. CASE \E p \in cec.seen : p # Unplugged /\ adapter.config = "ours" /\ adapter.claimed
    <3>1. PICK p \in cec.seen : p # Unplugged /\ adapter.config = "ours" /\ adapter.claimed
      BY <2>7
    <3>2. p \in Addresses /\ cec.seen = {p}
      BY <2>2, <3>1 DEF CecStates, Seen
    <3>3. cec' = [Confirmed(p) EXCEPT !.seen = {}] /\ routing' = Forgets(cec.physical = p)
      BY <1>2, <3>1, <3>2 DEF ReadLogical
    <3> DEFINE stays == cec.active /\ cec.physical \in {Unplugged, p}
    <3>4. stays \in BOOLEAN /\ (stays => cec.active /\ cec.physical = p)
      BY <2>2, <3>1 DEF CecInv, ActiveInv, CecStates
    <3>5. cec' = [cec EXCEPT !.seen = {}, !.logical = TRUE, !.physical = p, !.active = stays]
      BY <2>2, <3>3 DEF Confirmed, CecStates
    <3> HIDE DEF stays
    <3>6. cec' \in CecStates /\ cec'.physical = p /\ (cec'.active <=> stays)
      BY <2>2, <3>2, <3>4, <3>5 DEF CecStates
    <3>7. routing' \in Routings /\ (cec.physical = p => routing' = routing)
      BY <2>4, <3>3
    <3> QED
      BY <2>3, <3>1, <3>4, <3>6, <3>7 DEF CecInv, CecTypes, ActiveInv
  <2> QED
    BY <2>5, <2>6, <2>7
<1> QED
  BY <1>1, <1>2

\* A message makes the source active only if it names the session's address.
LEMMA ReceiveKeeps == ASSUME CecInv, ReceiveMessage PROVE CecInv'
<1>1. PICK message \in Messages :
        /\ adapter' = [adapter EXCEPT !.inbox = Tail(@)] /\ adapter.inbox # <<>>
        /\ \/ cec' \in Routed(cec, cec.active, TRUE) /\ UNCHANGED routing
           \/ /\ message.op \in Operations
              /\ cec' \in Routed(cec, cec.physical = {message.path}, message.op = "set_stream_path")
              /\ routing' = [routing EXCEPT !.last = {message.path}]
  <2>1. Head(adapter.inbox) \in Messages
    BY DEF ReceiveMessage, CecInv, CecTypes, Adapters
  <2> QED
    BY <2>1 DEF ReceiveMessage
<1>2. cec \in CecStates /\ routing \in Routings /\ adapter \in Adapters
  BY DEF CecInv, CecTypes
<1>3. adapter' \in Adapters
  <2>1. Tail(adapter.inbox) \in Seq(Messages)
    BY <1>1, <1>2 DEF Adapters
  <2> QED
    BY <1>1, <1>2, <2>1 DEF Adapters
<1>4. ASSUME NEW b \in BOOLEAN, NEW r \in BOOLEAN, cec' \in Routed(cec, b, r)
      PROVE  cec' \in CecStates /\ (cec'.active <=> b) /\ cec'.physical = cec.physical
  BY <1>2, <1>4 DEF Routed, CecStates
<1>5. CASE cec' \in Routed(cec, cec.active, TRUE) /\ UNCHANGED routing
  <2>1. cec.active \in BOOLEAN
    BY <1>2 DEF CecStates
  <2>2. cec' \in CecStates /\ (cec'.active <=> cec.active) /\ cec'.physical = cec.physical
    BY <1>4, <1>5, <2>1
  <2> QED
    BY <1>2, <1>3, <1>5, <2>2 DEF CecInv, CecTypes, ActiveInv
<1>6. CASE /\ message.op \in Operations
           /\ cec' \in Routed(cec, cec.physical = {message.path}, message.op = "set_stream_path")
           /\ routing' = [routing EXCEPT !.last = {message.path}]
  <2>1. {message.path} \in Addresses /\ {message.path} # Unplugged
    BY <1>6 DEF Messages, Operations, Addresses, Unplugged
  <2>2. cec' \in CecStates /\ (cec'.active <=> cec.physical = {message.path}) /\ cec'.physical = cec.physical
    BY <1>4, <1>6
  <2>3. routing' \in Routings /\ routing'.last = {message.path}
    BY <1>2, <1>6, <2>1 DEF Routings
  <2> QED
    BY <1>3, <2>1, <2>2, <2>3 DEF CecInv, CecTypes, ActiveInv
<1> QED
  BY <1>1, <1>5, <1>6

\* The invariant holds throughout.
LEMMA CecInvariant == CecSpec => []CecInv
<1>1. CecInv /\ [CecNext]_cecVars => CecInv'
  <2>1. CASE UNCHANGED cecVars
    BY <2>1 DEF cecVars, CecInv, CecTypes, ActiveInv
  <2> QED
    BY <2>1, AdapterKeeps, UpdateKeeps, ReceiveKeeps DEF CecNext
<1> QED
  BY <1>1, CecInitHolds, PTL DEF CecSpec

\* For any addresses, and however often the cable is pulled or the TV changes
\* its mind: the player is the active source only under the path that the TV
\* named last since the session knows of it.
THEOREM ActiveIsRoutedAlways == CecSpec => []ActiveIsRouted
<1>1. CecInv => ActiveIsRouted
  BY DEF CecInv, CecTypes, Adapters, CecStates, Seen, ActiveInv, ActiveIsRouted, CecType
<1> QED
  BY <1>1, CecInvariant, PTL

-----------------------------------------------------------------------------
(* ReadDiagnosticsPublisher: what is published, what waits for the worker  *)
(* and what it is at, as the context changes.                              *)

DiagContexts == DiagnosticContexts \cup {NoContext}
Revisions == 0..(MaxRevision + 1)
Captures == [revision : Revisions, detail : BOOLEAN]
ProjectionJobs == [revision : Revisions, context : DiagContexts, detail : BOOLEAN]
Publishers == [context : DiagContexts, revision : Revisions, body : [Kinds -> SUBSET Revisions],
               pending : SUBSET Captures, active : SUBSET ProjectionJobs,
               recent : SUBSET Kinds, owed : SUBSET Kinds, closing : BOOLEAN, failures : Nat]
Projections == [at : {"projecting"}, capture : Captures, revision : Revisions, context : DiagContexts]
Gone == [at |-> "gone"]

\* A capture that is owed waits, or is being projected in its revision.
OwedIn(p) ==
    \A k \in p.owed :
        \/ p.closing
        \/ \E job \in p.pending \cup {j \in p.active : j.revision = p.revision} : k \in Yields(job.detail)

\* One capture waits at most; it, and what is published, is of the present
\* revision.
SoundPublisher(p) ==
    /\ p \in Publishers
    /\ \A capture \in p.pending : capture.revision = p.revision /\ p.pending = {capture}
    /\ \A k \in Kinds : p.body[k] \subseteq {p.revision}
    /\ OwedIn(p)

\* What is active is what the worker projects.
ProjectionInv ==
    /\ projection \in {Waiting, Gone} \cup Projections
    /\ projection.at # "projecting" => publisher.active = {}
    /\ projection.at = "projecting" =>
         /\ projection.capture.revision = projection.revision
         /\ publisher.active = {[revision |-> projection.revision, context |-> projection.context,
                                 detail |-> projection.capture.detail]}

\* There is room for one more revision when the context is another one.
RevisionInv == asking \in DiagnosticContexts /\ (publisher.context # asking => publisher.revision <= MaxRevision)

PublisherInv == SoundPublisher(publisher) /\ ProjectionInv /\ RevisionInv

\* The invariant holds before the first request.
LEMMA PublisherInitHolds == PublisherInit => PublisherInv
<1> SUFFICES ASSUME PublisherInit PROVE PublisherInv
  OBVIOUS
<1>1. 0 \in Revisions /\ 0 <= MaxRevision
  BY PublisherConstants DEF Revisions
<1>2. Unpublished \in [Kinds -> SUBSET Revisions] /\ \A k \in Kinds : Unpublished[k] = {}
  BY DEF Unpublished
<1>3. publisher \in Publishers
  BY <1>1, <1>2 DEF PublisherInit, Publishers, DiagContexts
<1>4. SoundPublisher(publisher)
  BY <1>2, <1>3 DEF PublisherInit, SoundPublisher, OwedIn
<1> QED
  BY <1>1, <1>4 DEF PublisherInit, PublisherInv, ProjectionInv, RevisionInv, Waiting

\* A publisher that differs in what counts failures and times only is as sound.
LEMMA FailedIsSound ==
    ASSUME NEW p, SoundPublisher(p)
    PROVE  /\ SoundPublisher(Failed(p)) /\ Failed(p).active = p.active
           /\ Failed(p).context = p.context /\ Failed(p).revision = p.revision
<1>1. p \in Publishers
  BY DEF SoundPublisher
<1>2. Failed(p) = [p EXCEPT !.failures = p.failures + 1] /\ p.failures + 1 \in Nat
  BY <1>1 DEF Failed, Publishers
<1>3. /\ Failed(p) \in Publishers /\ Failed(p).active = p.active /\ Failed(p).pending = p.pending
      /\ Failed(p).context = p.context /\ Failed(p).revision = p.revision /\ Failed(p).body = p.body
      /\ Failed(p).owed = p.owed /\ (Failed(p).closing <=> p.closing)
  BY <1>1, <1>2 DEF Publishers
<1> QED
  BY <1>3 DEF SoundPublisher, OwedIn

\* Another context begins with nothing published, waiting or owed.
LEMMA RenewedIsSound ==
    ASSUME PublisherInv
    PROVE  /\ SoundPublisher(Renewed(publisher))
           /\ Renewed(publisher).active = publisher.active /\ Renewed(publisher).context = asking
<1>1. publisher \in Publishers /\ SoundPublisher(publisher)
  BY DEF PublisherInv, SoundPublisher
<1>2. CASE publisher.context = asking
  BY <1>1, <1>2 DEF Renewed
<1>3. CASE publisher.context # asking
  <2>1. Renewed(publisher) = [publisher EXCEPT !.context = asking, !.revision = publisher.revision + 1,
                                               !.body = Unpublished, !.pending = {}, !.recent = {}, !.owed = {}]
    BY <1>3 DEF Renewed
  <2>2. publisher.revision + 1 \in Revisions /\ asking \in DiagContexts
    BY <1>1, <1>3, PublisherConstants DEF PublisherInv, RevisionInv, Publishers, Revisions, DiagContexts
  <2>3. Unpublished \in [Kinds -> SUBSET Revisions] /\ \A k \in Kinds : Unpublished[k] = {}
    BY DEF Unpublished
  <2>4. /\ Renewed(publisher) \in Publishers /\ Renewed(publisher).pending = {}
        /\ Renewed(publisher).owed = {} /\ Renewed(publisher).body = Unpublished
        /\ Renewed(publisher).active = publisher.active /\ Renewed(publisher).context = asking
    BY ZenonT(30), <1>1, <2>1, <2>2, <2>3 DEF Publishers
  <2> QED
    BY <2>3, <2>4 DEF SoundPublisher, OwedIn
<1> QED
  BY <1>2, <1>3

\* A capture takes the place of one that waits only where it covers its kinds.
LEMMA CapturedIsSound ==
    ASSUME NEW p, SoundPublisher(p), NEW kind \in Kinds, ~Covered(p, kind)
    PROVE  /\ SoundPublisher(Captured(p, kind)) /\ Captured(p, kind).active = p.active
           /\ Captured(p, kind).context = p.context /\ Captured(p, kind).revision = p.revision
<1> DEFINE new == [revision |-> p.revision, detail |-> DetailOf(kind)]
           c == Captured(p, kind)
<1>1. p \in Publishers
  BY DEF SoundPublisher
<1>2. new \in Captures /\ kind \in Yields(new.detail) /\ new.revision = p.revision
  BY <1>1 DEF Publishers, Captures, DetailOf, Yields, Kinds
<1>3. c = [p EXCEPT !.pending = {new}, !.recent = p.recent \cup {kind}, !.owed = p.owed \cup {kind}]
  BY DEF Captured
<1>4. /\ c \in Publishers /\ c.pending = {new} /\ c.owed = p.owed \cup {kind} /\ c.active = p.active
      /\ c.context = p.context /\ c.revision = p.revision /\ c.body = p.body /\ (c.closing <=> p.closing)
  <2> HIDE DEF new, c
  <2> QED
    BY <1>1, <1>2, <1>3 DEF Publishers
<1>5. ASSUME NEW k \in p.owed, NEW job \in p.pending, k \in Yields(job.detail)
      PROVE  k \in Yields(new.detail)
  <2>1. kind \notin Yields(job.detail) /\ job.detail \in BOOLEAN
    BY <1>1 DEF Covered, Publishers, Captures
  <2> QED
    BY <1>2, <1>5, <2>1 DEF Yields, Kinds
<1>6. OwedIn(c)
  <2> HIDE DEF new, c
  <2> SUFFICES ASSUME NEW k \in c.owed, ~c.closing
               PROVE  \E job \in c.pending \cup {j \in c.active : j.revision = c.revision} : k \in Yields(job.detail)
    BY DEF OwedIn
  <2>1. CASE k = kind
    BY <1>2, <1>4, <2>1
  <2>2. CASE k \in p.owed
    <3>1. PICK job \in p.pending \cup {j \in p.active : j.revision = p.revision} : k \in Yields(job.detail)
      BY <1>4, <2>2 DEF SoundPublisher, OwedIn
    <3> QED
      BY <1>4, <1>5, <2>2, <3>1
  <2> QED
    BY <1>4, <2>1, <2>2
<1> HIDE DEF c, new
<1>7. SoundPublisher(c)
  BY <1>2, <1>4, <1>6 DEF SoundPublisher
<1> QED
  BY <1>4, <1>7 DEF c

\* What the session does keeps the invariant.
LEMMA AskingKeeps ==
    ASSUME PublisherInv, ContextChanges \/ ClosePublisher \/ \E kind \in Kinds : IntervalPasses(kind) \/ RequestBody(kind)
    PROVE  PublisherInv'
<1>0. publisher \in Publishers /\ SoundPublisher(publisher)
  BY DEF PublisherInv, SoundPublisher
<1>1. CASE ContextChanges
  <2>1. publisher.revision <= MaxRevision
    BY <1>0, <1>1, PublisherConstants DEF ContextChanges, Publishers, Revisions
  <2> QED
    BY <1>0, <1>1, <2>1 DEF ContextChanges, PublisherInv, ProjectionInv, RevisionInv
<1>2. ASSUME UNCHANGED <<asking, projection>>, SoundPublisher(publisher'), publisher'.active = publisher.active,
             publisher'.context = asking \/ (publisher'.context = publisher.context /\ publisher'.revision = publisher.revision)
      PROVE  PublisherInv'
  BY <1>2 DEF PublisherInv, ProjectionInv, RevisionInv, SoundPublisher
<1>3. CASE ClosePublisher
  <2>1. publisher' = [publisher EXCEPT !.closing = TRUE, !.pending = {}] /\ UNCHANGED <<asking, projection>>
    BY <1>3 DEF ClosePublisher
  <2>2. /\ publisher' \in Publishers /\ publisher'.pending = {} /\ publisher'.closing
        /\ publisher'.body = publisher.body /\ publisher'.revision = publisher.revision
        /\ publisher'.active = publisher.active /\ publisher'.context = publisher.context
    BY <1>0, <2>1 DEF Publishers
  <2>3. SoundPublisher(publisher')
    BY <1>0, <2>2 DEF SoundPublisher, OwedIn
  <2> QED
    BY <1>2, <2>1, <2>2, <2>3
<1>4. ASSUME NEW kind \in Kinds, IntervalPasses(kind) PROVE PublisherInv'
  <2>1. publisher' = [publisher EXCEPT !.recent = publisher.recent \ {kind}] /\ UNCHANGED <<asking, projection>>
    BY <1>4 DEF IntervalPasses
  <2>2. /\ publisher' \in Publishers /\ publisher'.pending = publisher.pending /\ publisher'.owed = publisher.owed
        /\ (publisher'.closing <=> publisher.closing)
        /\ publisher'.body = publisher.body /\ publisher'.revision = publisher.revision
        /\ publisher'.active = publisher.active /\ publisher'.context = publisher.context
    BY <1>0, <2>1 DEF Publishers
  <2>3. SoundPublisher(publisher')
    BY <1>0, <2>2 DEF SoundPublisher, OwedIn
  <2> QED
    BY <1>2, <2>1, <2>2, <2>3
<1>5. ASSUME NEW kind \in Kinds, RequestBody(kind) PROVE PublisherInv'
  <2> DEFINE p == Renewed(publisher)
  <2>1. SoundPublisher(p) /\ p.active = publisher.active /\ p.context = asking
    BY RenewedIsSound
  <2>2. /\ UNCHANGED <<asking, projection>>
        /\ \/ publisher' = p
           \/ ~Covered(p, kind) /\ publisher' = Captured(p, kind)
           \/ publisher' = Failed(p)
    BY <1>5 DEF RequestBody
  <2> HIDE DEF p
  <2>3. SoundPublisher(publisher') /\ publisher'.active = publisher.active /\ publisher'.context = asking
    BY <2>1, <2>2, CapturedIsSound, FailedIsSound
  <2> QED
    BY <1>2, <2>2, <2>3
<1> QED
  BY <1>1, <1>3, <1>4, <1>5

\* The worker takes what waits, for the context and revision of the moment.
LEMMA TakeCaptureKeeps == ASSUME PublisherInv, TakeCapture PROVE PublisherInv'
<1>1. PICK capture \in publisher.pending :
         /\ publisher' = [publisher EXCEPT
                !.pending = {},
                !.active = {[revision |-> publisher.revision, context |-> publisher.context,
                             detail |-> capture.detail]}]
         /\ projection' = [at |-> "projecting", capture |-> capture,
                           revision |-> publisher.revision, context |-> publisher.context]
  BY DEF TakeCapture
<1> DEFINE job == [revision |-> publisher.revision, context |-> publisher.context, detail |-> capture.detail]
<1>2. publisher \in Publishers /\ SoundPublisher(publisher) /\ publisher.active = {} /\ UNCHANGED asking
  BY DEF PublisherInv, SoundPublisher, TakeCapture, ProjectionInv, Waiting
<1>3. capture \in Captures /\ capture.revision = publisher.revision /\ job \in ProjectionJobs
  BY <1>1, <1>2 DEF SoundPublisher, Publishers, Captures, ProjectionJobs
<1>4. job.detail = capture.detail /\ job.revision = publisher.revision
  OBVIOUS
<1>5. publisher' = [publisher EXCEPT !.pending = {}, !.active = {job}]
  BY <1>1
<1>6. projection' \in Projections
  BY <1>1, <1>2, <1>3 DEF Projections, Publishers
<1>7. /\ publisher' \in Publishers /\ publisher'.pending = {} /\ publisher'.active = {job}
      /\ publisher'.owed = publisher.owed /\ (publisher'.closing <=> publisher.closing)
      /\ publisher'.body = publisher.body /\ publisher'.revision = publisher.revision
      /\ publisher'.context = publisher.context
  <2> HIDE DEF job
  <2> QED
    BY <1>2, <1>3, <1>5 DEF Publishers
<1>9. OwedIn(publisher')
  <2> SUFFICES ASSUME NEW k \in publisher.owed, ~publisher.closing PROVE k \in Yields(capture.detail)
    <3> HIDE DEF job
    <3> QED
      BY <1>4, <1>7 DEF OwedIn
  <2> QED
    <3>1. publisher.pending = {capture}
      BY <1>2 DEF SoundPublisher
    <3> QED
      BY <1>2, <3>1 DEF SoundPublisher, OwedIn
<1> HIDE DEF job
<1>10. SoundPublisher(publisher')
  BY <1>2, <1>7, <1>9 DEF SoundPublisher
<1> QED
  BY <1>1, <1>2, <1>3, <1>6, <1>7, <1>10 DEF PublisherInv, ProjectionInv, RevisionInv, job

\* What was projected is published in the context it was captured in, and is
\* owed no more; a projection that yields nothing leaves what was published.
LEMMA PublicationIsSound ==
    ASSUME PublisherInv, projection.at = "projecting",
           NEW yields \in SUBSET Yields(projection.capture.detail)
    PROVE  LET p == Publication(publisher, yields)
           IN  /\ SoundPublisher(p) /\ p.active = {}
               /\ p.context = publisher.context /\ p.revision = publisher.revision
<1> DEFINE p == Publication(publisher, yields)
           done == Yields(projection.capture.detail)
           job == [revision |-> projection.revision, context |-> projection.context,
                   detail |-> projection.capture.detail]
           shown == [k \in Kinds |-> IF k \in yields /\ StillCurrent
                                     THEN {projection.capture.revision} ELSE publisher.body[k]]
           left == IF projection.revision = publisher.revision THEN publisher.owed \ done ELSE publisher.owed
<1>1. publisher \in Publishers /\ SoundPublisher(publisher)
  BY DEF PublisherInv, SoundPublisher
<1>2. projection \in Projections /\ projection.capture.revision = projection.revision /\ publisher.active = {job}
  BY DEF PublisherInv, ProjectionInv, Waiting, Gone
<1>3. p = [publisher EXCEPT !.active = {}, !.owed = left, !.body = shown]
  BY DEF Publication, PublicationOf
<1>4. left \subseteq publisher.owed /\ left \in SUBSET Kinds
  BY <1>1 DEF Publishers
<1>5. ASSUME NEW k \in Kinds PROVE shown[k] \subseteq {publisher.revision} /\ shown[k] \in SUBSET Revisions
  <2>1. publisher.body[k] \subseteq {publisher.revision} /\ publisher.body[k] \in SUBSET Revisions
    BY <1>1 DEF SoundPublisher, Publishers
  <2>2. StillCurrent => projection.capture.revision = publisher.revision
    BY <1>2 DEF StillCurrent
  <2>3. publisher.revision \in Revisions
    BY <1>1 DEF Publishers
  <2> QED
    BY <2>1, <2>2, <2>3
<1>6. shown \in [Kinds -> SUBSET Revisions]
  BY <1>5
<1> HIDE DEF shown, left, p
<1>7. /\ p \in Publishers /\ p.active = {} /\ p.owed = left /\ p.body = shown
      /\ p.pending = publisher.pending /\ p.revision = publisher.revision
      /\ p.context = publisher.context /\ (p.closing <=> publisher.closing)
  BY <1>1, <1>3, <1>4, <1>6 DEF Publishers
<1>8. OwedIn(p)
  <2> SUFFICES ASSUME NEW k \in left, ~publisher.closing
               PROVE  \E j \in publisher.pending : k \in Yields(j.detail)
    BY <1>7 DEF OwedIn
  <2>1. PICK j \in publisher.pending \cup {i \in publisher.active : i.revision = publisher.revision} : k \in Yields(j.detail)
    BY <1>1, <1>4 DEF SoundPublisher, OwedIn
  <2>2. j \notin publisher.active \/ j \in publisher.pending
    <3> SUFFICES ASSUME j \in publisher.active, j \notin publisher.pending PROVE FALSE
      OBVIOUS
    <3>1. j = job /\ j.revision = publisher.revision
      BY <1>2, <2>1
    <3>2. projection.revision = publisher.revision /\ k \in done
      BY <2>1, <3>1
    <3> QED
      BY <3>2 DEF left
  <2> QED
    BY <2>1, <2>2
<1>9. SoundPublisher(p)
  BY <1>1, <1>5, <1>7, <1>8 DEF SoundPublisher
<1> QED
  BY <1>7, <1>9 DEF p

\* The worker's projection ends, or the worker does.
LEMMA WorkerKeeps ==
    ASSUME PublisherInv, WorkerEnds \/ ProjectionSucceeds \/ ProjectionFails PROVE PublisherInv'
<1>1. CASE WorkerEnds
  BY <1>1 DEF WorkerEnds, PublisherInv, ProjectionInv, RevisionInv, Waiting, Gone
<1>2. ASSUME UNCHANGED asking, projection' = Waiting, SoundPublisher(publisher'), publisher'.active = {},
             publisher'.context = publisher.context, publisher'.revision = publisher.revision
      PROVE  PublisherInv'
  BY <1>2 DEF PublisherInv, ProjectionInv, RevisionInv, Waiting
<1>3. CASE ProjectionSucceeds
  <2> DEFINE p == Publication(publisher, Yields(projection.capture.detail))
  <2>1. projection.at = "projecting" /\ publisher' = p /\ projection' = Waiting /\ UNCHANGED asking
    BY <1>3 DEF ProjectionSucceeds, Publish
  <2>2. SoundPublisher(p) /\ p.active = {} /\ p.context = publisher.context /\ p.revision = publisher.revision
    BY <2>1, PublicationIsSound
  <2> HIDE DEF p
  <2> QED
    BY <1>2, <2>1, <2>2
<1>4. CASE ProjectionFails
  <2> DEFINE p == Publication(publisher, {})
  <2>1. projection.at = "projecting" /\ publisher' = Failed(p) /\ projection' = Waiting /\ UNCHANGED asking
    BY <1>4 DEF ProjectionFails, Publish
  <2>2. SoundPublisher(p) /\ p.active = {} /\ p.context = publisher.context /\ p.revision = publisher.revision
    BY <2>1, PublicationIsSound
  <2> HIDE DEF p
  <2> QED
    BY <1>2, <2>1, <2>2, FailedIsSound
<1> QED
  BY <1>1, <1>3, <1>4

\* The invariant holds throughout.
LEMMA PublisherInvariant == PublisherSpec => []PublisherInv
<1>1. PublisherInv /\ [PublisherNext]_publisherVars => PublisherInv'
  <2>1. CASE UNCHANGED publisherVars
    BY <2>1 DEF publisherVars, PublisherInv, ProjectionInv, RevisionInv
  <2> QED
    BY <2>1, AskingKeeps, TakeCaptureKeeps, WorkerKeeps DEF PublisherNext, PublisherWorker
<1> QED
  BY <1>1, PublisherInitHolds, PTL DEF PublisherSpec

\* For any contexts and any number of their changes and of failures: what
\* ReadDiagnosticsPublisher answers was captured in the context that it is
\* asked for, since that last began, and a capture is not lost to a later one.
THEOREM DiagnosticsAreCurrentAlways == PublisherSpec => []DiagnosticsAreCurrent
<1>1. PublisherInv => DiagnosticsAreCurrent
  BY DEF PublisherInv, SoundPublisher, RevisionInv, Publishers, DiagContexts, Revisions, OwedIn,
         DiagnosticsAreCurrent, PublisherType, BodiesAreCurrent, CapturesAreKept
<1> QED
  BY <1>1, PublisherInvariant, PTL

-----------------------------------------------------------------------------
(* AsyncLogger: what was submitted, against what is written, in hand,      *)
(* queued or lost.                                                         *)

Records == [id : Nat, high : BOOLEAN]
LogStates == [queue : Seq(Records), stopping : BOOLEAN, dropped : Nat, submitted : Nat, high : SUBSET Nat]
Writers == [at : {"waiting", "writing", "reporting", "gone"}, hands : Seq(Records)]
Outputs == [records : Seq(Records), dropped : SUBSET Nat]

\* Before the queue: written, or in the thread's hands.
Written == output.records \o writer.hands

LoggerTypes ==
    /\ log \in LogStates /\ writer \in Writers /\ output \in Outputs
    /\ Len(writer.hands) = IF writer.at = "writing" THEN 1 ELSE 0

\* Records are in the order of their numbers, and numbered up to the last one
\* submitted.
Ordered(s, last) ==
    /\ \A i \in 1..Len(s) : s[i].id <= last
    /\ \A i, j \in 1..Len(s) : i < j => s[i].id < s[j].id

HighOf(s) == {s[i].id : i \in {k \in 1..Len(s) : s[k].high}}

\* What is retained of the log l, of which s was written or is in hand, while
\* `more' records were submitted and are neither retained nor lost yet.
Accounted(l, s, more) ==
    /\ l \in LogStates
    /\ Ordered(s \o l.queue, l.submitted - more)
    /\ Len(s \o l.queue) + l.dropped + more = l.submitted /\ l.submitted <= MaxRecords
    /\ Len(l.queue) <= Capacity
    /\ l.high = HighOf(s \o l.queue)

LoggerInv == LoggerTypes /\ Accounted(log, Written, 0)

\* A record that is added comes last.
LEMMA AddedFacts ==
    ASSUME NEW s \in Seq(Records), NEW q \in Seq(Records), NEW r \in Records
    PROVE  /\ Append(q, r) \in Seq(Records) /\ Len(Append(q, r)) = Len(q) + 1
           /\ Len(s \o Append(q, r)) = Len(s \o q) + 1
           /\ \A i \in 1..Len(s \o q) : (s \o Append(q, r))[i] = (s \o q)[i]
           /\ (s \o Append(q, r))[Len(s \o q) + 1] = r
<1>1. Append(q, r) \in Seq(Records) /\ Len(Append(q, r)) = Len(q) + 1
  OBVIOUS
<1>2. s \o Append(q, r) = Append(s \o q, r)
  OBVIOUS
<1>3. s \o q \in Seq(Records) /\ Len(s \o q) = Len(s) + Len(q)
  OBVIOUS
<1> QED
  BY <1>1, <1>2, <1>3

\* A record that makes room leaves the others in their places.
LEMMA RemovedFacts ==
    ASSUME NEW s \in Seq(Records), NEW q \in Seq(Records), NEW m \in 1..Len(q)
    PROVE  /\ RemoveAt(q, m) \in Seq(Records) /\ Len(RemoveAt(q, m)) = Len(q) - 1
           /\ Len(s \o RemoveAt(q, m)) = Len(s \o q) - 1
           /\ \A i \in 1..(Len(s \o q) - 1) :
                (s \o RemoveAt(q, m))[i] = (s \o q)[IF i < Len(s) + m THEN i ELSE i + 1]
<1> DEFINE a == SubSeq(q, 1, m - 1)
           b == SubSeq(q, m + 1, Len(q))
<1>1. RemoveAt(q, m) = a \o b
  BY DEF RemoveAt
<1>2. a \in Seq(Records) /\ Len(a) = m - 1 /\ \A i \in 1..(m - 1) : a[i] = q[i]
  OBVIOUS
<1>3. b \in Seq(Records) /\ Len(b) = Len(q) - m /\ \A i \in 1..(Len(q) - m) : b[i] = q[m + i]
  OBVIOUS
<1> HIDE DEF a, b
<1>4. /\ a \o b \in Seq(Records) /\ Len(a \o b) = Len(q) - 1
      /\ \A i \in 1..(Len(q) - 1) : (a \o b)[i] = q[IF i < m THEN i ELSE i + 1]
  <2>1. a \o b \in Seq(Records) /\ Len(a \o b) = Len(a) + Len(b)
    BY <1>2, <1>3, ConcatProperties
  <2>2. Len(a) + Len(b) = Len(q) - 1
    BY <1>2, <1>3
  <2>3. ASSUME NEW i \in 1..(Len(q) - 1) PROVE (a \o b)[i] = q[IF i < m THEN i ELSE i + 1]
    <3>1. CASE i < m
      BY <1>2, <1>3, <2>1, <2>2, <3>1
    <3>2. CASE ~(i < m)
      <4>1. i - (m - 1) \in 1..(Len(q) - m) /\ i > Len(a)
        BY <1>2, <3>2
      <4>2. (a \o b)[i] = b[i - (m - 1)]
        BY SMTT(30), <1>2, <1>3, <2>1, <2>2, <4>1
      <4>3. b[i - (m - 1)] = q[m + (i - (m - 1))] /\ m + (i - (m - 1)) = i + 1
        BY <1>3, <4>1
      <4> QED
        BY <3>2, <4>2, <4>3
    <3> QED
      BY <3>1, <3>2
  <2> QED
    BY <2>1, <2>2, <2>3
<1> DEFINE c == a \o b
<1>5. /\ c \in Seq(Records) /\ Len(c) = Len(q) - 1
      /\ \A i \in 1..(Len(q) - 1) : c[i] = q[IF i < m THEN i ELSE i + 1]
  BY <1>4
<1>6. RemoveAt(q, m) = c
  BY <1>1
<1> HIDE DEF c
<1>7. Len(s \o c) = Len(s) + Len(c) /\ Len(s \o q) = Len(s) + Len(q) /\ Len(s) \in Nat /\ Len(q) \in Nat
  <2>1. c \in Seq(Records)
    BY <1>5
  <2>2. Len(s \o c) = Len(s) + Len(c)
    BY <2>1, ConcatProperties
  <2>3. Len(s \o q) = Len(s) + Len(q)
    BY ConcatProperties
  <2> QED
    BY <2>2, <2>3
<1>8. ASSUME NEW i \in 1..(Len(s \o q) - 1)
      PROVE  (s \o c)[i] = (s \o q)[IF i < Len(s) + m THEN i ELSE i + 1]
  <2>1. CASE i <= Len(s)
    BY <1>5, <1>7, <2>1
  <2>2. CASE i > Len(s)
    <3>1. i - Len(s) \in 1..(Len(q) - 1) /\ Len(s) + m \in Nat
      BY <1>7, <2>2
    <3>2. (s \o c)[i] = c[i - Len(s)]
      BY <1>5, <1>7, <2>2
    <3>3. c[i - Len(s)] = q[IF i - Len(s) < m THEN i - Len(s) ELSE i - Len(s) + 1]
      BY <1>5, <3>1
    <3>4. CASE i < Len(s) + m
      <4>1. (s \o q)[i] = q[i - Len(s)]
        BY <1>7, <2>2
      <4> QED
        BY <1>7, <3>2, <3>3, <3>4, <4>1
    <3>5. CASE ~(i < Len(s) + m)
      <4>1. (s \o q)[i + 1] = q[i + 1 - Len(s)] /\ i + 1 - Len(s) = i - Len(s) + 1
        BY <1>7, <2>2
      <4> QED
        BY <1>7, <3>2, <3>3, <3>5, <4>1
    <3> QED
      BY <3>4, <3>5
  <2>3. i \in Nat /\ Len(s) \in Nat
    BY <1>7
  <2>4. i <= Len(s) \/ i > Len(s)
    BY <2>3
  <2> QED
    BY <2>1, <2>2, <2>4
<1>9. Len(s \o c) = Len(s \o q) - 1
  BY <1>5, <1>7
<1> QED
  BY <1>5, <1>6, <1>8, <1>9

\* A set of numbers has a least element, which Min gives.
LEMMA MinIsLeast == ASSUME NEW S \in SUBSET Nat, S # {} PROVE Min(S) \in S /\ \A y \in S : Min(S) <= y
<1>1. IsWellFoundedOn(OpToRel(<, Nat), Nat)
  BY NatLessThanWellFounded
<1>2. PICK x \in S : \A y \in S : ~ (<<y, x>> \in OpToRel(<, Nat))
  BY <1>1, WFMin
<1>3. \A y \in S : x <= y
  <2> SUFFICES ASSUME NEW y \in S PROVE ~(y < x)
    OBVIOUS
  <2> QED
    BY <1>2 DEF OpToRel
<1> QED
  BY <1>3 DEF Min

\* What is ordered up to a number is so up to a greater one.
LEMMA OrderedUpTo ==
    ASSUME NEW t \in Seq(Records), NEW a \in Int, NEW b \in Int, a <= b, Ordered(t, a)
    PROVE  Ordered(t, b)
<1>1. ASSUME NEW i \in 1..Len(t) PROVE t[i].id <= b
  <2>1. t[i] \in Records
    OBVIOUS
  <2>2. t[i].id \in Nat /\ t[i].id <= a
    BY <2>1 DEF Ordered, Records
  <2> QED
    BY <2>2
<1>2. \A i, j \in 1..Len(t) : i < j => t[i].id < t[j].id
  BY DEF Ordered
<1> QED
  BY <1>1, <1>2 DEF Ordered

\* What is retained, as a sequence.
LEMMA RetainedType ==
    ASSUME NEW l \in LogStates, NEW s \in Seq(Records)
    PROVE  /\ l.queue \in Seq(Records) /\ s \o l.queue \in Seq(Records)
           /\ Len(s \o l.queue) \in Nat /\ Len(s \o l.queue) = Len(s) + Len(l.queue)
           /\ l.dropped \in Nat /\ l.submitted \in Nat
<1>1. l.queue \in Seq(Records) /\ l.dropped \in Nat /\ l.submitted \in Nat
  BY DEF LogStates
<1> QED
  BY <1>1, ConcatProperties

\* A record that is submitted is to be accounted for.
LEMMA NumberedOwes ==
    ASSUME NEW l, NEW s \in Seq(Records), Accounted(l, s, 0), l.submitted < MaxRecords
    PROVE  LET n == [l EXCEPT !.submitted = @ + 1]
           IN  /\ Accounted(n, s, 1) /\ n.queue = l.queue /\ n.submitted = l.submitted + 1
               /\ (n.stopping <=> l.stopping)
<1> DEFINE n == [l EXCEPT !.submitted = @ + 1]
<1>1. l \in LogStates
  BY DEF Accounted
<1>2. l.submitted \in Nat /\ Len(s \o l.queue) \in Nat /\ l.dropped \in Nat
  BY <1>1, RetainedType
<1>3. /\ n \in LogStates /\ n.dropped = l.dropped /\ n.queue = l.queue
      /\ n.submitted = l.submitted + 1 /\ n.high = l.high /\ (n.stopping <=> l.stopping)
  BY <1>1 DEF LogStates
<1> HIDE DEF n
<1>4. n.submitted - 1 = l.submitted - 0 /\ n.submitted <= MaxRecords
  BY <1>2, <1>3, LoggerConstants
<1>5. Accounted(n, s, 1)
  BY <1>2, <1>3, <1>4 DEF Accounted
<1> QED
  BY <1>3, <1>5 DEF n

\* A record that is lost is accounted for by the count.
LEMMA LostPays ==
    ASSUME NEW l, NEW s \in Seq(Records), Accounted(l, s, 1)
    PROVE  Accounted(Lost(l), s, 0)
<1>1. l \in LogStates
  BY DEF Accounted
<1>2. l.submitted \in Nat /\ Len(s \o l.queue) \in Nat /\ l.dropped \in Nat
  BY <1>1, RetainedType
<1>3. Lost(l) = [l EXCEPT !.dropped = l.dropped + 1] /\ l.dropped + 1 \in Nat
  BY <1>2 DEF Lost
<1>4. /\ Lost(l) \in LogStates /\ Lost(l).dropped = l.dropped + 1 /\ Lost(l).queue = l.queue
      /\ Lost(l).submitted = l.submitted /\ Lost(l).high = l.high
  BY <1>1, <1>3 DEF LogStates
<1>5. Ordered(s \o l.queue, l.submitted - 0)
  <2>1. s \o l.queue \in Seq(Records) /\ Ordered(s \o l.queue, l.submitted - 1)
    BY <1>1, RetainedType DEF Accounted
  <2>2. l.submitted - 1 \in Int /\ l.submitted - 0 \in Int /\ l.submitted - 1 <= l.submitted - 0
    BY <1>2
  <2> QED
    BY <2>1, <2>2, OrderedUpTo
<1>6. Len(s \o l.queue) + (l.dropped + 1) + 0 = l.submitted
  BY <1>2 DEF Accounted
<1> HIDE DEF Lost
<1> QED
  BY <1>4, <1>5, <1>6 DEF Accounted

\* A record that is queued is accounted for by the queue, as the last one.
LEMMA EnqueuedPays ==
    ASSUME NEW l, NEW s \in Seq(Records), Accounted(l, s, 1), Len(l.queue) < Capacity,
           NEW r \in Records, r.id = l.submitted
    PROVE  Accounted(Enqueued(l, r), s, 0)
<1> DEFINE q == Append(l.queue, r)
           high == IF r.high THEN l.high \cup {r.id} ELSE l.high
           t == s \o l.queue
           u == s \o q
           last == Len(t) + 1
<1>1. /\ l \in LogStates /\ Ordered(t, l.submitted - 1) /\ Len(t) + l.dropped + 1 = l.submitted
      /\ l.high = HighOf(t) /\ l.submitted <= MaxRecords
  BY DEF Accounted
<1>2. l.submitted \in Nat /\ t \in Seq(Records) /\ Len(t) \in Nat /\ l.dropped \in Nat /\ l.queue \in Seq(Records)
  BY <1>1, RetainedType
<1>3. /\ q \in Seq(Records) /\ Len(q) = Len(l.queue) + 1 /\ Len(u) = last
      /\ \A i \in 1..Len(t) : u[i] = t[i]
      /\ u[last] = r
  BY <1>2, AddedFacts
<1>4. high \in SUBSET Nat
  BY <1>1 DEF LogStates, Records
<1>5. Enqueued(l, r) = [l EXCEPT !.queue = q, !.high = high]
  BY DEF Enqueued
<1> HIDE DEF q, high
<1>6. /\ Enqueued(l, r) \in LogStates /\ Enqueued(l, r).dropped = l.dropped /\ Enqueued(l, r).queue = q
      /\ Enqueued(l, r).submitted = l.submitted /\ Enqueued(l, r).high = high
  BY <1>1, <1>3, <1>4, <1>5 DEF LogStates
<1>7. \A i \in 1..Len(u) : i = last \/ i \in 1..Len(t)
  <2>1. \A n \in Nat : \A i \in 1..(n + 1) : i = n + 1 \/ i \in 1..n
    OBVIOUS
  <2>2. Len(t) \in Nat /\ Len(u) = Len(t) + 1
    BY <1>2, <1>3
  <2> HIDE DEF t, u
  <2> QED
    BY <2>1, <2>2
<1>8. \A i \in 1..Len(t) : u[i] = t[i] /\ t[i].id \in Nat /\ t[i].id <= l.submitted - 1 /\ i \in 1..Len(u) /\ i < last
  <2> SUFFICES ASSUME NEW i \in 1..Len(t)
               PROVE  u[i] = t[i] /\ t[i].id \in Nat /\ t[i].id <= l.submitted - 1 /\ i \in 1..Len(u) /\ i < last
    OBVIOUS
  <2>1. i \in 1..Len(u) /\ i < last
    BY SMTT(30), <1>2, <1>3
  <2>2. t[i] \in Records
    BY <1>2
  <2>3. t[i].id <= l.submitted - 1
    BY <1>1 DEF Ordered
  <2> QED
    BY <1>3, <2>1, <2>2, <2>3 DEF Records
<1>9. last \in 1..Len(u)
  BY <1>2, <1>3
<1>13. Len(u) + l.dropped + 0 = l.submitted
  <2>1. Len(u) = Len(t) + 1
    BY <1>3
  <2>2. \A a, b, c \in Nat : a + b + 1 = c => a + 1 + b + 0 = c
    OBVIOUS
  <2>3. Len(t) + 1 + l.dropped + 0 = l.submitted
    BY <1>1, <1>2, <2>2
  <2> QED
    BY <2>1, <2>3
<1> HIDE DEF t, u
<1>10. Ordered(u, l.submitted - 0)
  <2>1. ASSUME NEW i \in 1..Len(u) PROVE u[i].id <= l.submitted - 0
    <3>1. CASE i = last
      BY <1>2, <1>3, <3>1
    <3>2. CASE i \in 1..Len(t)
      <4>1. u[i].id \in Nat /\ u[i].id <= l.submitted - 1
        BY <1>8, <3>2
      <4> QED
        BY <1>2, <4>1
    <3> QED
      BY <1>7, <3>1, <3>2
  <2>2. ASSUME NEW i \in 1..Len(u), NEW j \in 1..Len(u), i < j PROVE u[i].id < u[j].id
    <3>1. i \in 1..Len(t)
      BY <1>2, <1>3, <2>2
    <3>2. CASE j = last
      <4>1. u[i].id \in Nat /\ u[i].id <= l.submitted - 1 /\ u[j].id = l.submitted
        BY <1>3, <1>8, <3>1, <3>2
      <4> QED
        BY <1>2, <4>1
    <3>3. CASE j \in 1..Len(t)
      BY <1>1, <1>8, <2>2, <3>1, <3>3 DEF Ordered
    <3> QED
      BY <1>7, <3>2, <3>3
  <2> QED
    BY <2>1, <2>2 DEF Ordered
<1>11. high = HighOf(u)
  <2>1. \A x \in HighOf(u) : x \in high
    <3> SUFFICES ASSUME NEW i \in 1..Len(u), u[i].high PROVE u[i].id \in high
      BY DEF HighOf
    <3>1. CASE i = last
      BY <1>3, <3>1 DEF high
    <3>2. CASE i \in 1..Len(t)
      <4>1. t[i].id \in HighOf(t)
        BY <1>8, <3>2 DEF HighOf
      <4> QED
        BY <1>1, <1>8, <3>2, <4>1 DEF high
    <3> QED
      BY <1>7, <3>1, <3>2
  <2>2. ASSUME NEW x \in high PROVE x \in HighOf(u)
    <3>1. CASE x \in HighOf(t)
      <4>1. PICK i \in 1..Len(t) : t[i].high /\ x = t[i].id
        BY <3>1 DEF HighOf
      <4> QED
        BY <1>8, <4>1 DEF HighOf
    <3>2. CASE r.high /\ x = r.id
      BY <1>3, <1>9, <3>2 DEF HighOf
    <3> QED
      BY <1>1, <2>2, <3>1, <3>2 DEF high
  <2> QED
    BY <2>1, <2>2
<1>12. Len(q) <= Capacity
  BY <1>2, <1>3, LoggerConstants
<1> QED
  BY <1>1, <1>6, <1>10, <1>11, <1>12, <1>13 DEF Accounted, u

\* The oldest record of low priority leaves the queue for the count of the
\* lost, and the others stay in order.
LEMMA EvictsKeeps ==
    ASSUME NEW l, NEW s \in Seq(Records), Accounted(l, s, 1), LowPriority(l.queue) # {}
    PROVE  /\ Accounted(Evicts(l), s, 1) /\ Len(Evicts(l).queue) = Len(l.queue) - 1
           /\ Evicts(l).submitted = l.submitted
<1> DEFINE m == Min(LowPriority(l.queue))
           q == RemoveAt(l.queue, m)
           t == s \o l.queue
           u == s \o q
           gap == Len(s) + m
           From(i) == IF i < gap THEN i ELSE i + 1
<1>1. /\ l \in LogStates /\ Ordered(t, l.submitted - 1) /\ Len(t) + l.dropped + 1 = l.submitted
      /\ l.high = HighOf(t) /\ l.submitted <= MaxRecords /\ Len(l.queue) <= Capacity
  BY DEF Accounted
<1>2. /\ l.submitted \in Nat /\ t \in Seq(Records) /\ Len(t) \in Nat /\ l.dropped \in Nat
      /\ l.queue \in Seq(Records) /\ Len(t) = Len(s) + Len(l.queue) /\ Len(s) \in Nat /\ Len(l.queue) \in Nat
  BY <1>1, RetainedType
<1>3. m \in 1..Len(l.queue) /\ ~l.queue[m].high
  <2>1. LowPriority(l.queue) \in SUBSET Nat
    BY <1>2 DEF LowPriority
  <2>2. m \in LowPriority(l.queue)
    BY <2>1, MinIsLeast
  <2> QED
    BY <1>2, <2>2 DEF LowPriority
<1>4. gap \in 1..Len(t) /\ ~t[gap].high
  <2>1. gap \in 1..Len(t) /\ gap > Len(s) /\ gap - Len(s) = m
    BY <1>2, <1>3
  <2>2. t[gap] = l.queue[m]
    BY <1>2, <2>1, ConcatProperties
  <2> QED
    BY <1>3, <2>1, <2>2
<1> HIDE DEF m
<1>5. /\ q \in Seq(Records) /\ Len(q) = Len(l.queue) - 1 /\ Len(u) = Len(t) - 1
      /\ \A i \in 1..(Len(t) - 1) : u[i] = t[From(i)]
  BY <1>2, <1>3, RemovedFacts
<1>6. Evicts(l) = [l EXCEPT !.queue = q, !.dropped = l.dropped + 1]
  BY <1>1 DEF Evicts, Lost, LogStates, m
<1>7. l.dropped + 1 \in Nat
  BY <1>2
<1> HIDE DEF q
<1>8. /\ Evicts(l) \in LogStates /\ Evicts(l).dropped = l.dropped + 1 /\ Evicts(l).queue = q
      /\ Evicts(l).submitted = l.submitted /\ Evicts(l).high = l.high
  BY <1>1, <1>5, <1>6, <1>7 DEF LogStates
<1>9. ASSUME NEW i \in 1..Len(u)
      PROVE  /\ From(i) \in 1..Len(t) /\ u[i] = t[From(i)] /\ From(i) # gap
             /\ \A j \in 1..Len(u) : i < j => From(i) < From(j)
  <2>1. /\ i \in 1..(Len(t) - 1) /\ i \in Nat /\ gap \in Nat
        /\ \A j \in 1..Len(u) : j \in Nat
    BY <1>2, <1>4, <1>5
  <2>2. u[i] = t[From(i)]
    BY <1>5, <2>1
  <2> HIDE DEF gap, t, u
  <2>3. From(i) \in 1..Len(t) /\ From(i) # gap
    BY <1>2, <2>1
  <2>4. \A j \in 1..Len(u) : i < j => From(i) < From(j)
    BY <2>1
  <2> QED
    BY <2>2, <2>3, <2>4
<1>10. ASSUME NEW i \in 1..Len(t), i # gap PROVE \E j \in 1..Len(u) : From(j) = i
  <2>1. CASE i < gap
    <3>1. i \in 1..Len(u) /\ From(i) = i
      BY <1>2, <1>4, <1>5, <2>1
    <3> QED
      BY <3>1
  <2>2. CASE i > gap
    <3>1. i - 1 \in 1..Len(u) /\ From(i - 1) = i
      BY <1>2, <1>4, <1>5, <2>2
    <3> QED
      BY <3>1
  <2> QED
    BY <1>4, <1>10, <2>1, <2>2
<1>11. Len(u) + (l.dropped + 1) + 1 = l.submitted /\ Len(q) <= Capacity
  <2>1. \A a, b, c, k \in Nat : a + b + 1 = c /\ k = a - 1 => k + (b + 1) + 1 = c
    OBVIOUS
  <2>2. Len(u) \in Nat
    BY <1>2, <1>4, <1>5
  <2>3. Len(u) = Len(t) - 1 /\ Len(t) + l.dropped + 1 = l.submitted
    BY <1>1, <1>5
  <2>4. Len(u) + (l.dropped + 1) + 1 = l.submitted
    BY SMTT(30), <1>2, <2>1, <2>2, <2>3
  <2> QED
    BY <1>1, <1>2, <1>5, <2>4, LoggerConstants
<1> HIDE DEF From, gap, u, t
<1>12. Ordered(u, l.submitted - 1)
  <2>1. \A i \in 1..Len(u) : u[i].id <= l.submitted - 1
    BY <1>1, <1>9 DEF Ordered
  <2>2. ASSUME NEW i \in 1..Len(u), NEW j \in 1..Len(u), i < j PROVE u[i].id < u[j].id
    <3>1. /\ From(i) \in 1..Len(t) /\ From(j) \in 1..Len(t) /\ From(i) < From(j)
          /\ u[i] = t[From(i)] /\ u[j] = t[From(j)]
      BY <1>9, <2>2
    <3> QED
      BY <1>1, <3>1 DEF Ordered
  <2> QED
    BY <2>1, <2>2 DEF Ordered
<1>13. HighOf(u) = HighOf(t)
  <2>1. ASSUME NEW i \in 1..Len(u), u[i].high PROVE u[i].id \in HighOf(t)
    BY <1>9, <2>1 DEF HighOf
  <2>2. ASSUME NEW i \in 1..Len(t), t[i].high PROVE t[i].id \in HighOf(u)
    <3>1. PICK j \in 1..Len(u) : From(j) = i
      BY <1>4, <1>10, <2>2
    <3>2. u[j] = t[i]
      BY <1>9, <3>1
    <3> QED
      BY <2>2, <3>2 DEF HighOf
  <2>3. \A x \in HighOf(u) : x \in HighOf(t)
    BY <2>1 DEF HighOf
  <2>4. \A x \in HighOf(t) : x \in HighOf(u)
    BY <2>2 DEF HighOf
  <2> QED
    BY <2>3, <2>4
<1> QED
  BY <1>1, <1>5, <1>8, <1>11, <1>12, <1>13 DEF Accounted, u, t

\* The same sequence is retained, wherever the cut between the queue and what
\* has left it is.
LEMMA MovedKeeps ==
    ASSUME NEW l \in LogStates, NEW s, NEW n \in LogStates, NEW t, Accounted(l, s, 0),
           t \o n.queue = s \o l.queue, Len(n.queue) <= Capacity,
           n.dropped = l.dropped, n.submitted = l.submitted, n.high = l.high
    PROVE  Accounted(n, t, 0)
  BY DEF Accounted

\* What is written or in hand is a sequence of records.
LEMMA WrittenType == ASSUME LoggerTypes PROVE Written \in Seq(Records) /\ Written \o log.queue = Retained
<1>1. output.records \in Seq(Records) /\ writer.hands \in Seq(Records)
  BY DEF LoggerTypes, Outputs, Writers
<1>2. Written \in Seq(Records)
  BY <1>1, ConcatProperties DEF Written
<1> QED
  BY <1>2 DEF Retained, Written

\* submit() accounts for its record, and for the one that made room for it.
LEMMA SubmitKeeps == ASSUME LoggerInv, NEW high \in BOOLEAN, Submit(high) PROVE LoggerInv'
<1> DEFINE n == [log EXCEPT !.submitted = @ + 1]
           r == [id |-> n.submitted, high |-> high]
           w == WithRoom(n)
<1>1. /\ log.submitted < MaxRecords /\ UNCHANGED <<writer, output>>
      /\ \/ log' = Lost(n)
         \/ ~Refused(log, high) /\ log' \in {Enqueued(w, r), Lost(w)}
  BY DEF Submit
<1>2. Written \in Seq(Records) /\ Accounted(log, Written, 0)
  BY WrittenType DEF LoggerInv
<1>3. Accounted(n, Written, 1) /\ n.queue = log.queue
  BY <1>1, <1>2, NumberedOwes
<1>4. r \in Records /\ r.id = n.submitted
  <2>1. n.submitted \in Nat
    <3> HIDE DEF n
    <3> QED
      BY <1>3 DEF Accounted, LogStates
  <2> QED
    BY <2>1 DEF Records
<1> HIDE DEF n, r
<1>5. ASSUME ~Refused(log, high)
      PROVE  Accounted(w, Written, 1) /\ Len(w.queue) < Capacity /\ w.submitted = n.submitted
  <2>1. n \in LogStates /\ Len(n.queue) <= Capacity /\ Len(n.queue) \in Nat
    BY <1>2, <1>3, RetainedType DEF Accounted, LogStates
  <2>2. CASE Full(n)
    <3>1. LowPriority(n.queue) # {} /\ w = Evicts(n)
      BY <1>3, <1>5, <2>2 DEF Refused, Full, WithRoom
    <3>2. /\ Accounted(Evicts(n), Written, 1) /\ Len(Evicts(n).queue) = Len(n.queue) - 1
          /\ Evicts(n).submitted = n.submitted
      BY <1>2, <1>3, <3>1, EvictsKeeps
    <3> HIDE DEF w
    <3> QED
      BY <2>1, <3>1, <3>2, LoggerConstants
  <2>3. CASE ~Full(n)
    <3>1. w = n /\ Len(n.queue) < Capacity
      BY <2>1, <2>3, LoggerConstants DEF Full, WithRoom
    <3> HIDE DEF w
    <3> QED
      BY <1>3, <3>1
  <2> QED
    BY <2>2, <2>3
<1> HIDE DEF w
<1>6. Accounted(log', Written, 0)
  <2>1. CASE log' = Lost(n)
    BY <1>2, <1>3, <2>1, LostPays
  <2>2. CASE ~Refused(log, high) /\ log' = Lost(w)
    BY <1>2, <1>5, <2>2, LostPays
  <2>3. CASE ~Refused(log, high) /\ log' = Enqueued(w, r)
    BY <1>2, <1>4, <1>5, <2>3, EnqueuedPays
  <2> QED
    BY <1>1, <2>1, <2>2, <2>3
<1>7. LoggerTypes'
  BY <1>1, <1>6 DEF LoggerInv, LoggerTypes, Accounted
<1>8. Written' = Written
  BY <1>1 DEF Written
<1> QED
  BY <1>6, <1>7, <1>8 DEF LoggerInv

\* shutdown() tells the thread, and no more.
LEMMA ShutdownKeeps == ASSUME LoggerInv, Shutdown PROVE LoggerInv'
<1>1. log' = [log EXCEPT !.stopping = TRUE] /\ UNCHANGED <<writer, output>> /\ log \in LogStates
  BY DEF Shutdown, LoggerInv, LoggerTypes
<1>2. /\ log' \in LogStates /\ log'.queue = log.queue /\ log'.dropped = log.dropped
      /\ log'.submitted = log.submitted /\ log'.high = log.high
  BY <1>1 DEF LogStates
<1>3. Written' = Written
  BY <1>1 DEF Written
<1>4. Accounted(log', Written, 0)
  BY <1>1, <1>2, MovedKeeps DEF LoggerInv, Accounted
<1> QED
  BY <1>1, <1>2, <1>3, <1>4 DEF LoggerInv, LoggerTypes

\* The thread takes the oldest record in its hands.
LEMMA TakeRecordKeeps == ASSUME LoggerInv, TakeRecord PROVE LoggerInv'
<1> DEFINE r == Head(log.queue)
<1>1. /\ writer.at = "waiting" /\ log.queue # <<>> /\ UNCHANGED output
      /\ writer' = [at |-> "writing", hands |-> <<r>>]
      /\ log' = [log EXCEPT !.queue = Tail(log.queue)]
  BY DEF TakeRecord
<1>2. /\ log \in LogStates /\ writer \in Writers /\ output \in Outputs /\ Len(writer.hands) = 0
      /\ Accounted(log, Written, 0)
  BY <1>1 DEF LoggerInv, LoggerTypes
<1>3. log.queue \in Seq(Records) /\ writer.hands \in Seq(Records) /\ output.records \in Seq(Records)
  BY <1>2 DEF LogStates, Writers, Outputs
<1>4. /\ r \in Records /\ <<r>> \in Seq(Records) /\ Tail(log.queue) \in Seq(Records)
      /\ log.queue = <<r>> \o Tail(log.queue) /\ Len(Tail(log.queue)) = Len(log.queue) - 1
  BY <1>1, <1>3
<1>5. writer.hands = <<>> /\ Written = output.records
  <2>1. writer.hands = <<>>
    BY <1>2, <1>3
  <2>2. output.records \o <<>> = output.records
    BY <1>3, ConcatEmptySeq
  <2> QED
    BY <2>1, <2>2 DEF Written
<1>6. /\ log' \in LogStates /\ log'.queue = Tail(log.queue) /\ log'.dropped = log.dropped
      /\ log'.submitted = log.submitted /\ log'.high = log.high
  BY <1>1, <1>2, <1>4 DEF LogStates
<1>7. writer'.hands = <<r>> /\ writer'.at = "writing" /\ writer' \in Writers
  BY <1>1, <1>4 DEF Writers
<1> HIDE DEF r
<1>8. Written' \o log'.queue = Written \o log.queue
  <2>1. Written' = output.records \o <<r>>
    BY <1>1, <1>7 DEF Written
  <2>2. (output.records \o <<r>>) \o Tail(log.queue) = output.records \o (<<r>> \o Tail(log.queue))
    <3>1. \A a, b, c \in Seq(Records) : (a \o b) \o c = a \o (b \o c)
      BY ConcatAssociative
    <3> QED
      BY <1>3, <1>4, <3>1
  <2> QED
    BY <1>4, <1>5, <1>6, <2>1, <2>2
<1>9. Len(log'.queue) <= Capacity
  BY <1>2, <1>3, <1>4, <1>6, LoggerConstants DEF Accounted
<1>10. Accounted(log', Written', 0)
  BY <1>2, <1>6, <1>8, <1>9, MovedKeeps
<1>11. Len(writer'.hands) = 1
  BY <1>7
<1> QED
  BY <1>1, <1>2, <1>6, <1>7, <1>10, <1>11 DEF LoggerInv, LoggerTypes

\* The record in its hands is written.
LEMMA WriteRecordKeeps == ASSUME LoggerInv, WriteRecord PROVE LoggerInv'
<1>1. /\ output' = [output EXCEPT !.records = output.records \o writer.hands]
      /\ writer' = [at |-> "waiting", hands |-> <<>>] /\ UNCHANGED log
  BY DEF WriteRecord
<1>2. log \in LogStates /\ writer \in Writers /\ output \in Outputs /\ Accounted(log, Written, 0)
  BY DEF LoggerInv, LoggerTypes
<1>3. Written \in Seq(Records) /\ Written = output.records \o writer.hands
  BY WrittenType DEF LoggerInv, Written
<1>4. output' \in Outputs /\ output'.records = Written
  BY <1>1, <1>2, <1>3 DEF Outputs
<1>5. writer' \in Writers /\ writer'.hands = <<>> /\ writer'.at = "waiting" /\ Len(writer'.hands) = 0
  BY <1>1 DEF Writers
<1>6. Written' = Written
  BY <1>3, <1>4, <1>5, ConcatEmptySeq DEF Written
<1> QED
  BY <1>1, <1>2, <1>4, <1>5, <1>6 DEF LoggerInv, LoggerTypes

\* The thread leaves its loop and reports what was lost.
LEMMA EndingKeeps == ASSUME LoggerInv, LeaveLoop \/ ReportDropped PROVE LoggerInv'
<1>1. log \in LogStates /\ writer \in Writers /\ output \in Outputs /\ Accounted(log, Written, 0)
  BY DEF LoggerInv, LoggerTypes
<1>2. /\ UNCHANGED log /\ writer' \in Writers /\ writer'.hands = writer.hands
      /\ writer.at # "writing" /\ writer'.at # "writing"
  BY <1>1 DEF LeaveLoop, ReportDropped, Writers
<1>3. output' \in Outputs /\ output'.records = output.records
  <2>1. {log.dropped} \ {0} \in SUBSET Nat
    BY <1>1 DEF LogStates
  <2> QED
    BY <1>1, <2>1 DEF LeaveLoop, ReportDropped, Outputs
<1>4. Written' = Written
  BY <1>2, <1>3 DEF Written
<1> QED
  BY <1>1, <1>2, <1>3, <1>4 DEF LoggerInv, LoggerTypes

\* The invariant holds throughout.
LEMMA LoggerInvariant == LoggerSpec => []LoggerInv
<1>1. LoggerInit => LoggerInv
  <2> SUFFICES ASSUME LoggerInit PROVE LoggerInv
    OBVIOUS
  <2>1. <<>> \in Seq(Records) /\ Len(<<>>) = 0 /\ <<>> \o <<>> = <<>>
    OBVIOUS
  <2>2. log \in LogStates /\ writer \in Writers /\ output \in Outputs
    BY <2>1 DEF LoggerInit, LogStates, Writers, Outputs
  <2>3. Written = <<>> /\ log.queue = <<>>
    BY <2>1 DEF LoggerInit, Written
  <2>4. Written \o log.queue = <<>>
    BY <2>1, <2>3
  <2>5. Ordered(<<>>, log.submitted - 0) /\ HighOf(<<>>) = {}
    BY <2>1 DEF Ordered, HighOf
  <2>6. Accounted(log, Written, 0)
    BY <2>1, <2>2, <2>3, <2>4, <2>5, LoggerConstants DEF LoggerInit, Accounted
  <2> QED
    BY <2>1, <2>2, <2>6 DEF LoggerInit, LoggerInv, LoggerTypes
<1>2. LoggerInv /\ [LoggerNext]_loggerVars => LoggerInv'
  <2>1. CASE UNCHANGED loggerVars
    BY <2>1 DEF loggerVars, LoggerInv, LoggerTypes, Accounted, Written
  <2> QED
    BY <2>1, SubmitKeeps, ShutdownKeeps, TakeRecordKeeps, WriteRecordKeeps, EndingKeeps DEF LoggerNext, LogWriter
<1> QED
  BY <1>1, <1>2, PTL DEF LoggerSpec

\* The invariant says that every record is accounted for.
LEMMA LoggerInvMeans == LoggerInv => LogIsAccounted
<1> SUFFICES ASSUME LoggerInv PROVE LogIsAccounted
  OBVIOUS
<1>1. /\ log \in LogStates /\ Accounted(log, Written, 0) /\ Written \in Seq(Records)
      /\ Written \o log.queue = Retained
  BY WrittenType DEF LoggerInv, LoggerTypes
<1>2. Retained \in Seq(Records) /\ Len(Retained) \in Nat /\ log.dropped \in Nat /\ log.submitted \in Nat
  BY <1>1, RetainedType
<1>3. Len(Retained) + log.dropped + 0 = log.submitted /\ log.submitted <= MaxRecords
  BY <1>1 DEF Accounted
<1>4. EveryRecordCounts
  BY <1>2, <1>3 DEF EveryRecordCounts
<1>5. LoggerType
  <2>1. log.dropped \in 0..MaxRecords /\ log.submitted \in 0..MaxRecords
    BY <1>2, <1>3, LoggerConstants
  <2> QED
    BY <2>1 DEF LoggerType, LoggerInv, LoggerTypes, Writers
<1>6. DOMAIN Retained = 1..Len(Retained)
  BY <1>2
<1>7. HighRecordsAreKept
  <2>1. /\ \A i, j \in 1..Len(Retained) : i < j => Retained[i].id < Retained[j].id
        /\ Len(log.queue) <= Capacity /\ log.high = HighOf(Retained)
    BY <1>1 DEF Accounted, Ordered
  <2>2. HighOf(Retained) = {r.id : r \in {Retained[i] : i \in {k \in DOMAIN Retained : Retained[k].high}}}
    BY <1>6 DEF HighOf
  <2> QED
    BY <1>6, <2>1, <2>2 DEF HighRecordsAreKept
<1> QED
  BY <1>4, <1>5, <1>7 DEF LogIsAccounted

\* For any capacity and any number of records and of threads that submit them:
\* every record of AsyncLogger is retained or counted as lost, once, in order,
\* and none of high priority that was queued is lost.
THEOREM LogIsAccountedAlways == LoggerSpec => []LogIsAccounted
  BY LoggerInvariant, LoggerInvMeans, PTL

-----------------------------------------------------------------------------
(* Enrichment: the metadata, the photographs and the four threads.         *)

\* A set with at most one element.
One(S) == S = {} \/ \E x \in S : S = {x}

Generations == 0..MaxGeneration
Statuses == {"not_requested", "loading", "available", "ambiguous", "not_found", "error"}
Releases == UNION {{<<d, i>> : i \in 1..Len(ArtistsOf[d])} : d \in Discs}
Artists == {ArtistsOf[c[1]][c[2]] : c \in Releases}
Snapshots == [status : Statuses, of : SUBSET Discs, selected : Nat,
              artwork : {"not_requested", "available", "error"}, coverOf : SUBSET Releases]
Metadata == [generation : Generations, toc : SUBSET Discs, snapshot : Snapshots]

\* What is shown is of the disc; while it is looked up nothing is shown.
MetaInv(m) ==
    /\ m \in Metadata /\ One(m.toc)
    /\ m.snapshot.status = "available" <=> m.snapshot.selected # 0
    /\ m.snapshot.of \subseteq m.toc
    /\ m.snapshot.coverOf \subseteq Selected(m)
    /\ m.snapshot.artwork = "available" => m.snapshot.coverOf # {}
    /\ m.snapshot.status = "loading" => m.snapshot.of = {}

\* What a thread was asked for and will still answer, or has answered.
HeldBy(v) == v.pending \cup {r.request : r \in v.result} \cup IF v.void THEN {} ELSE v.running

\* The fields are there, whatever their values.
WorkerShape(v) ==
    v \in [pending : {v.pending}, running : {v.running}, void : BOOLEAN, result : {v.result}]

\* A thread of the photographs holds one thing at a time, but for a lookup
\* that was voided.
OneAtATime(v) ==
    /\ v.pending # {} => v.result = {} /\ (v.running = {} \/ v.void)
    /\ v.result # {} => v.running = {} \/ v.void

ThreadInv(v, x) ==
    /\ WorkerShape(v) /\ One(v.pending) /\ One(v.running) /\ One(v.result)
    /\ v.void => v.running # {} /\ x # "metadata"
    /\ \A r \in v.result : r.answer \in Answers(x, r.request)
    /\ x \in {"background", "image"} => OneAtATime(v)

ThreadsInv(w) == w = [x \in Workers |-> w[x]] /\ \A x \in Workers : ThreadInv(w[x], x)

\* A lookup of the present generation is under way once, and only while the
\* disc is still to be looked up.
Now(m, S) == \E r \in S : r.gen = m.generation
ResultsOf(v) == {r.request : r \in v.result}

LookupInv(m, v) ==
    /\ \A r \in v.pending \cup v.running \cup ResultsOf(v) :
         /\ r.gen \in Nat /\ r.gen <= m.generation
         /\ r.gen = m.generation => m.snapshot.status = "loading" /\ m.toc = {r.toc}
    /\ Now(m, v.pending) => ~Now(m, v.running) /\ ~Now(m, ResultsOf(v))
    /\ Now(m, v.running) => ~Now(m, ResultsOf(v))

\* The photographs that are wanted and kept are of the artist asked for.
Photographs == [gen : Generations, artist : Artists, content : Contents]

PhotoShape(p) ==
    p \in [request : {p.request}, offered : {p.offered}, next : {p.next}, wanted : {p.wanted},
           tried : {p.tried}, kept : Seq(Photographs), bytes : 0..AggregateLimit]

PhotoInv(p) ==
    /\ PhotoShape(p) /\ Len(p.kept) <= MaxImages
    /\ One(p.request) /\ One(p.wanted)
    /\ \A q \in p.request : q = [gen |-> q.gen, artist |-> q.artist]
    /\ \A q \in p.wanted : p.request = {[gen |-> q.gen, artist |-> q.artist]}
    /\ \A i \in 1..Len(p.kept) : p.request = {[gen |-> p.kept[i].gen, artist |-> p.kept[i].artist]}
    /\ p.wanted # {} => HasRoom(p)

\* The photographs kept are those of the selected artist of m.
KeptAreOf(m, p) ==
    \A i \in 1..Len(p.kept) : p.kept[i].gen = m.generation /\ SelectedArtist(m) = {p.kept[i].artist}

\* Nothing is fetched that is not waited for; while there is no offer yet, no
\* photograph is.
FetchInv(p, w) ==
    /\ HeldBy(w["background"]) \subseteq p.request
    /\ HeldBy(w["image"]) \subseteq p.wanted
    /\ HeldBy(w["background"]) # {} => p.wanted = {}

EnrichmentInv ==
    /\ MetaInv(meta) /\ ThreadsInv(workers) /\ LookupInv(meta, workers["metadata"])
    /\ PhotoInv(photos) /\ KeptAreOf(meta, photos) /\ FetchInv(photos, workers)
    /\ policy \in BOOLEAN /\ (~policy => photos.request = {})
    /\ at \in Workers \cup {"idle"}

\* Sets with at most one element.
LEMMA OneFacts ==
    /\ One({}) /\ \A x : One({x})
    /\ \A S : One(S) => AtMostOne(S)
    /\ \A S, T : One(S) /\ T \subseteq S => One(T)
<1>1. One({}) /\ \A x : One({x})
  BY DEF One
<1>2. ASSUME NEW S, One(S) PROVE AtMostOne(S)
  <2>1. Cardinality({}) = 0 /\ \A x : Cardinality({x}) = 1
    BY FS_EmptySet, FS_Singleton
  <2>2. CASE S = {}
    BY <2>1, <2>2 DEF AtMostOne
  <2>3. ASSUME NEW x, S = {x} PROVE AtMostOne(S)
    <3>1. Cardinality(S) = 1
      BY <2>1, <2>3
    <3> QED
      BY <3>1 DEF AtMostOne
  <2> QED
    BY <1>2, <2>2, <2>3 DEF One
<1>3. ASSUME NEW S, NEW T, One(S), T \subseteq S PROVE One(T)
  BY <1>3 DEF One
<1> QED
  BY <1>1, <1>2, <1>3

\* A request replaces the one that waits and the answer that was not taken,
\* and voids what is looked up.
LEMMA RequestFacts ==
    ASSUME NEW w, ThreadsInv(w), NEW x \in Workers, NEW r
    PROVE  LET n == Request(w, x, r)
           IN  /\ ThreadsInv(n)
               /\ n[x].pending = {r} /\ n[x].running = w[x].running /\ n[x].result = {}
               /\ x # "metadata" => HeldBy(n[x]) = {r}
               /\ \A y \in Workers \ {x} : n[y] = w[y]
<1> DEFINE n == Request(w, x, r)
           void == Voids(w, x)
<1>1. w = [y \in Workers |-> w[y]] /\ \A y \in Workers : ThreadInv(w[y], y)
  BY DEF ThreadsInv
<1>2. void \in BOOLEAN
  BY DEF Voids
<1>3. WorkerShape(w[x])
  BY <1>1 DEF ThreadInv
<1>4. n = [w EXCEPT ![x].pending = {r}, ![x].result = {}, ![x].void = void]
  BY DEF Request
<1> HIDE DEF n, void
<1>5. /\ WorkerShape(n[x]) /\ n[x].pending = {r} /\ n[x].running = w[x].running /\ n[x].result = {}
      /\ (n[x].void <=> void)
      /\ n = [y \in Workers |-> n[y]] /\ \A y \in Workers \ {x} : n[y] = w[y]
  BY <1>1, <1>2, <1>3, <1>4 DEF WorkerShape
<1>6. ThreadInv(n[x], x)
  BY <1>1, <1>5, OneFacts DEF ThreadInv, OneAtATime, void, Voids
<1>7. x # "metadata" => HeldBy(n[x]) = {r}
  BY <1>5 DEF HeldBy, void, Voids
<1>8. ThreadsInv(n)
  BY <1>1, <1>5, <1>6 DEF ThreadsInv
<1> QED
  BY <1>5, <1>7, <1>8 DEF n

\* A cancelled request leaves nothing that is still answered.
LEMMA CancelFacts ==
    ASSUME NEW w, ThreadsInv(w), NEW x \in Workers
    PROVE  LET n == CancelPending(w, x)
           IN  /\ ThreadsInv(n)
               /\ n[x].pending = {} /\ n[x].running = w[x].running /\ n[x].result = {}
               /\ x # "metadata" => HeldBy(n[x]) = {}
               /\ \A y \in Workers \ {x} : n[y] = w[y]
<1> DEFINE n == CancelPending(w, x)
           void == Voids(w, x)
<1>1. w = [y \in Workers |-> w[y]] /\ \A y \in Workers : ThreadInv(w[y], y)
  BY DEF ThreadsInv
<1>2. void \in BOOLEAN
  BY DEF Voids
<1>3. WorkerShape(w[x])
  BY <1>1 DEF ThreadInv
<1>4. n = [w EXCEPT ![x].pending = {}, ![x].result = {}, ![x].void = void]
  BY DEF CancelPending
<1> HIDE DEF n, void
<1>5. /\ WorkerShape(n[x]) /\ n[x].pending = {} /\ n[x].running = w[x].running /\ n[x].result = {}
      /\ (n[x].void <=> void)
      /\ n = [y \in Workers |-> n[y]] /\ \A y \in Workers \ {x} : n[y] = w[y]
  BY <1>1, <1>2, <1>3, <1>4 DEF WorkerShape
<1>6. ThreadInv(n[x], x)
  BY <1>1, <1>5, OneFacts DEF ThreadInv, OneAtATime, void, Voids
<1>7. x # "metadata" => HeldBy(n[x]) = {}
  BY <1>5 DEF HeldBy, void, Voids
<1>8. ThreadsInv(n)
  BY <1>1, <1>5, <1>6 DEF ThreadsInv
<1> QED
  BY <1>5, <1>7, <1>8 DEF n

\* A result that was taken is held no more.
LEMMA PoppedFacts ==
    ASSUME NEW w, ThreadsInv(w), NEW x \in Workers, w[x].result # {}
    PROVE  LET n == Popped(w, x)
           IN  /\ ThreadsInv(n)
               /\ n[x].pending = w[x].pending /\ n[x].running = w[x].running /\ n[x].result = {}
               /\ HeldBy(n[x]) \subseteq HeldBy(w[x])
               /\ x \in {"background", "image"} => HeldBy(n[x]) = {}
               /\ \A y \in Workers \ {x} : n[y] = w[y]
<1> DEFINE n == Popped(w, x)
<1>1. w = [y \in Workers |-> w[y]] /\ \A y \in Workers : ThreadInv(w[y], y)
  BY DEF ThreadsInv
<1>2. WorkerShape(w[x])
  BY <1>1 DEF ThreadInv
<1>3. n = [w EXCEPT ![x].result = {}]
  BY DEF Popped
<1> HIDE DEF n
<1>4. /\ WorkerShape(n[x]) /\ n[x].pending = w[x].pending /\ n[x].running = w[x].running /\ n[x].result = {}
      /\ (n[x].void <=> w[x].void)
      /\ n = [y \in Workers |-> n[y]] /\ \A y \in Workers \ {x} : n[y] = w[y]
  BY <1>1, <1>2, <1>3 DEF WorkerShape
<1>5. ThreadInv(n[x], x)
  BY <1>1, <1>4, OneFacts DEF ThreadInv, OneAtATime
<1>6. HeldBy(n[x]) \subseteq HeldBy(w[x])
  BY <1>4 DEF HeldBy
<1>7. x \in {"background", "image"} => HeldBy(n[x]) = {}
  BY <1>1, <1>4 DEF HeldBy, ThreadInv, OneAtATime
<1>8. ThreadsInv(n)
  BY <1>1, <1>4, <1>5 DEF ThreadsInv
<1> QED
  BY <1>4, <1>6, <1>7, <1>8 DEF n

\* A thread takes what waits, or ends its lookup: what is held was held.
LEMMA ThreadStepFacts ==
    ASSUME ThreadsInv(workers), NEW x \in Workers, TakeRequest(x) \/ LookUp(x)
    PROVE  /\ ThreadsInv(workers')
           /\ HeldBy(workers'[x]) \subseteq HeldBy(workers[x])
           /\ \A y \in Workers \ {x} : workers'[y] = workers[y]
           /\ \/ /\ workers[x].running = {} /\ workers'[x].running = workers[x].pending
                 /\ workers'[x].pending = {} /\ workers'[x].result = workers[x].result
              \/ /\ workers'[x].running = {} /\ workers'[x].pending = workers[x].pending
                 /\ \/ workers'[x].result = workers[x].result
                    \/ ~workers[x].void /\ ResultsOf(workers'[x]) = workers[x].running
<1>1. workers = [y \in Workers |-> workers[y]] /\ \A y \in Workers : ThreadInv(workers[y], y)
  BY DEF ThreadsInv
<1>2. WorkerShape(workers[x])
  BY <1>1 DEF ThreadInv
<1>3. CASE TakeRequest(x)
  <2>1. /\ workers[x].running = {} /\ workers[x].pending # {}
        /\ workers' = [workers EXCEPT ![x].running = workers[x].pending, ![x].pending = {}]
    BY <1>3 DEF TakeRequest
  <2>2. /\ WorkerShape(workers'[x]) /\ workers'[x].pending = {} /\ workers'[x].running = workers[x].pending
        /\ workers'[x].result = workers[x].result /\ (workers'[x].void <=> workers[x].void)
        /\ workers' = [y \in Workers |-> workers'[y]] /\ \A y \in Workers \ {x} : workers'[y] = workers[y]
    BY <1>1, <1>2, <2>1 DEF WorkerShape
  <2>3. ~workers[x].void
    BY <1>1, <2>1 DEF ThreadInv
  <2>4. ThreadInv(workers'[x], x)
    BY <1>1, <2>1, <2>2, <2>3, OneFacts DEF ThreadInv, OneAtATime
  <2>5. HeldBy(workers'[x]) \subseteq HeldBy(workers[x])
    BY <2>2, <2>3 DEF HeldBy
  <2> QED
    BY <1>1, <2>1, <2>2, <2>4, <2>5 DEF ThreadsInv
<1>4. CASE LookUp(x)
  <2>1. PICK r \in workers[x].running : \E a \in Answers(x, r) :
          workers' = [workers EXCEPT ![x].running = {}, ![x].void = FALSE,
                                     ![x].result = IF workers[x].void THEN @ ELSE {[request |-> r, answer |-> a]}]
    BY <1>4 DEF LookUp
  <2>2. PICK a \in Answers(x, r) :
          workers' = [workers EXCEPT ![x].running = {}, ![x].void = FALSE,
                                     ![x].result = IF workers[x].void THEN @ ELSE {[request |-> r, answer |-> a]}]
    BY <2>1
  <2> DEFINE result == IF workers[x].void THEN workers[x].result ELSE {[request |-> r, answer |-> a]}
  <2>3. workers' = [workers EXCEPT ![x].running = {}, ![x].void = FALSE, ![x].result = result]
    BY <1>1, <1>2, <2>2 DEF WorkerShape
  <2> HIDE DEF result
  <2>4. /\ WorkerShape(workers'[x]) /\ workers'[x].pending = workers[x].pending /\ workers'[x].running = {}
        /\ workers'[x].result = result /\ ~workers'[x].void
        /\ workers' = [y \in Workers |-> workers'[y]] /\ \A y \in Workers \ {x} : workers'[y] = workers[y]
    BY <1>1, <1>2, <2>3 DEF WorkerShape
  <2>5. CASE workers[x].void
    <3>1. workers'[x].result = workers[x].result
      BY <2>4, <2>5 DEF result
    <3>2. ThreadInv(workers'[x], x)
      BY <1>1, <2>4, <2>5, <3>1, OneFacts DEF ThreadInv, OneAtATime
    <3>3. HeldBy(workers'[x]) \subseteq HeldBy(workers[x])
      BY <2>4, <3>1 DEF HeldBy
    <3> QED
      BY <1>1, <2>4, <3>1, <3>2, <3>3 DEF ThreadsInv
  <2>6. CASE ~workers[x].void
    <3>1. workers'[x].result = {[request |-> r, answer |-> a]} /\ workers[x].running = {r}
      BY <1>1, <2>1, <2>4, <2>6 DEF result, ThreadInv, One
    <3>2. workers[x].pending = {} \/ x \notin {"background", "image"}
      BY <1>1, <2>6, <3>1 DEF ThreadInv, OneAtATime
    <3>3. One(workers'[x].result) /\ \A q \in workers'[x].result : q.answer \in Answers(x, q.request)
      <4> DEFINE q == [request |-> r, answer |-> a]
      <4>1. q.request = r /\ q.answer = a /\ workers'[x].result = {q}
        BY <3>1
      <4> HIDE DEF q
      <4>2. One(workers'[x].result)
        BY <4>1 DEF One
      <4> QED
        BY <2>2, <4>1, <4>2
    <3>4. ThreadInv(workers'[x], x)
      BY <1>1, <2>4, <3>2, <3>3, OneFacts DEF ThreadInv, OneAtATime
    <3>5. ResultsOf(workers'[x]) = {r}
      BY <3>1 DEF ResultsOf
    <3>6. HeldBy(workers'[x]) \subseteq HeldBy(workers[x])
      BY <2>4, <2>6, <3>1 DEF HeldBy
    <3> QED
      BY <1>1, <2>4, <2>6, <3>1, <3>4, <3>5, <3>6 DEF ThreadsInv
  <2> QED
    BY <2>5, <2>6
<1> QED
  BY <1>3, <1>4

-----------------------------------------------------------------------------
(* The photographs.                                                        *)

\* The selected release is of the disc, and is one.
LEMMA SelectedFacts ==
    ASSUME NEW m, MetaInv(m)
    PROVE  /\ Candidates(m) \subseteq Releases /\ One(Selected(m)) /\ Selected(m) \subseteq Releases
           /\ One(SelectedArtist(m)) /\ SelectedArtist(m) \subseteq Artists
           /\ m.snapshot.status = "loading" => Candidates(m) = {} /\ SelectedArtist(m) = {}
<1>1. m \in Metadata /\ m.snapshot.of \subseteq Discs /\ One(m.snapshot.of)
  BY OneFacts DEF MetaInv, Metadata, Snapshots
<1>2. Candidates(m) \subseteq Releases
  BY <1>1 DEF Candidates, Releases
<1>3. \A c \in Candidates(m) : \E d \in m.snapshot.of : \E i \in 1..Len(ArtistsOf[d]) : c = <<d, i>>
  BY DEF Candidates
<1>4. ASSUME NEW c \in Selected(m), NEW e \in Selected(m) PROVE c = e
  <2>1. PICK d \in m.snapshot.of : \E i \in 1..Len(ArtistsOf[d]) : c = <<d, i>> /\ c[2] = m.snapshot.selected
    BY <1>3 DEF Selected
  <2>2. PICK f \in m.snapshot.of : \E j \in 1..Len(ArtistsOf[f]) : e = <<f, j>> /\ e[2] = m.snapshot.selected
    BY <1>3 DEF Selected
  <2>3. d = f
    BY <1>1 DEF One
  <2> QED
    BY <2>1, <2>2, <2>3
<1>5. One(Selected(m))
  BY <1>4 DEF One
<1>6. One(SelectedArtist(m))
  BY <1>4 DEF One, SelectedArtist
<1>7. Selected(m) \subseteq Releases
  BY <1>2 DEF Selected
<1>8. SelectedArtist(m) \subseteq Artists
  BY <1>7 DEF SelectedArtist, Artists
<1>9. m.snapshot.status = "loading" => Candidates(m) = {} /\ SelectedArtist(m) = {}
  BY DEF MetaInv, Candidates, Selected, SelectedArtist
<1> QED
  BY <1>2, <1>5, <1>6, <1>7, <1>8, <1>9

\* Without a request there are no photographs.
LEMMA NoPhotosFacts ==
    /\ PhotoShape(NoPhotos) /\ NoPhotos.request = {} /\ NoPhotos.wanted = {} /\ NoPhotos.kept = <<>>
    /\ PhotoInv(NoPhotos) /\ \A m : KeptAreOf(m, NoPhotos)
<1>1. <<>> \in Seq(Photographs) /\ Len(<<>>) = 0 /\ 0 \in 0..AggregateLimit
  BY EnrichmentConstants
<1>2. PhotoShape(NoPhotos) /\ NoPhotos.request = {} /\ NoPhotos.wanted = {} /\ NoPhotos.kept = <<>>
  BY <1>1 DEF PhotoShape, NoPhotos
<1>3. 0 <= MaxImages
  BY EnrichmentConstants
<1>4. PhotoInv(NoPhotos)
  BY <1>1, <1>2, <1>3, OneFacts DEF PhotoInv
<1>5. \A m : KeptAreOf(m, NoPhotos)
  BY <1>1, <1>2 DEF KeptAreOf
<1> QED
  BY <1>2, <1>4, <1>5

\* Another request forgets the photographs of the one before.
LEMMA AskedFacts ==
    ASSUME NEW request, One(request), \A q \in request : q = [gen |-> q.gen, artist |-> q.artist]
    PROVE  LET p == [NoPhotos EXCEPT !.request = request]
           IN  PhotoInv(p) /\ p.request = request /\ p.wanted = {} /\ \A m : KeptAreOf(m, p)
<1> DEFINE p == [NoPhotos EXCEPT !.request = request]
<1>1. PhotoShape(p) /\ p.request = request /\ p.wanted = {} /\ p.kept = <<>>
  BY NoPhotosFacts DEF PhotoShape
<1>2. Len(<<>>) = 0 /\ 0 <= MaxImages
  BY EnrichmentConstants
<1> HIDE DEF p
<1>3. PhotoInv(p)
  BY <1>1, <1>2, OneFacts DEF PhotoInv
<1>4. \A m : KeptAreOf(m, p)
  BY <1>1, <1>2 DEF KeptAreOf
<1> QED
  BY <1>1, <1>3, <1>4 DEF p

\* The next photograph is wanted for the request, where there is room for it;
\* nothing else of what is kept changes.
LEMMA StartedFacts ==
    ASSUME NEW p, PhotoShape(p), One(p.request), \A q \in p.request : q = [gen |-> q.gen, artist |-> q.artist]
    PROVE  LET n == ImageStarted(p)
           IN  /\ PhotoShape(n) /\ n.request = p.request /\ n.kept = p.kept /\ n.bytes = p.bytes
               /\ One(n.wanted) /\ (n.wanted # {} <=> StartsImage(p))
               /\ \A q \in n.wanted : n.request = {[gen |-> q.gen, artist |-> q.artist]}
<1> DEFINE n == ImageStarted(p)
<1>1. CASE p.request = {} \/ ~HasRoom(p)
  <2>1. n = [p EXCEPT !.wanted = {}] /\ ~StartsImage(p)
    BY <1>1 DEF ImageStarted, StartsImage
  <2>2. PhotoShape(n) /\ n.request = p.request /\ n.kept = p.kept /\ n.bytes = p.bytes /\ n.wanted = {}
    BY <2>1 DEF PhotoShape
  <2> QED
    BY <2>1, <2>2, OneFacts
<1>2. CASE ~(p.request = {} \/ ~HasRoom(p))
  <2> DEFINE last == IF Untried(p) # {}
                     THEN CHOOSE i \in Untried(p) : \A j \in Untried(p) : i <= j
                     ELSE IF Len(p.offered) < MaxTried THEN Len(p.offered) ELSE MaxTried
             tried == p.tried \cup {p.offered[i] : i \in (p.next + 1)..last}
             wanted == {[gen |-> r.gen, artist |-> r.artist, image |-> p.offered[last]] :
                          r \in IF Untried(p) # {} THEN p.request ELSE {}}
  <2>1. n = [p EXCEPT !.next = last, !.tried = tried, !.wanted = wanted]
    BY <1>2 DEF ImageStarted, NextImage
  <2> HIDE DEF n, last, tried
  <2>2. StartsImage(p) <=> Untried(p) # {}
    BY <1>2 DEF StartsImage
  <2>3. CASE Untried(p) # {}
    <3>1. PICK r : p.request = {r} /\ r = [gen |-> r.gen, artist |-> r.artist]
      BY <1>2 DEF One
    <3> DEFINE q == [gen |-> r.gen, artist |-> r.artist, image |-> p.offered[last]]
    <3>2. wanted = {q}
      BY <2>3, <3>1
    <3>3. q.gen = r.gen /\ q.artist = r.artist
      OBVIOUS
    <3>4. p.request = {[gen |-> q.gen, artist |-> q.artist]}
      BY <3>1, <3>3
    <3> HIDE DEF q, wanted
    <3>5. PhotoShape(n) /\ n.request = p.request /\ n.kept = p.kept /\ n.bytes = p.bytes /\ n.wanted = {q}
      BY <2>1, <3>2 DEF PhotoShape
    <3> QED
      BY <2>2, <2>3, <3>4, <3>5, OneFacts DEF n
  <2>4. CASE Untried(p) = {}
    <3>1. wanted = {}
      BY <2>4
    <3> HIDE DEF wanted
    <3>2. PhotoShape(n) /\ n.request = p.request /\ n.kept = p.kept /\ n.bytes = p.bytes /\ n.wanted = {}
      BY <2>1, <3>1 DEF PhotoShape
    <3> QED
      BY <2>2, <2>4, <3>2, OneFacts DEF n
  <2> QED
    BY <2>3, <2>4
<1> QED
  BY <1>1, <1>2

\* The thread is asked for the photograph that is wanted.
LEMMA ImageFacts ==
    ASSUME NEW p, PhotoShape(p), One(p.request), \A q \in p.request : q = [gen |-> q.gen, artist |-> q.artist],
           NEW w, ThreadsInv(w), HeldBy(w["image"]) = {}
    PROVE  LET n == ImageRequested(w, p)
           IN  /\ ThreadsInv(n) /\ HeldBy(n["image"]) \subseteq ImageStarted(p).wanted
               /\ \A y \in Workers \ {"image"} : n[y] = w[y]
<1> DEFINE n == ImageRequested(w, p)
           wanted == ImageStarted(p).wanted
           r == CHOOSE q \in wanted : TRUE
<1>1. wanted # {} <=> StartsImage(p)
  BY StartedFacts
<1>2. CASE StartsImage(p)
  <2>1. n = Request(w, "image", r) /\ r \in wanted
    BY <1>1, <1>2 DEF ImageRequested
  <2>2. "image" \in Workers /\ "image" # "metadata"
    BY DEF Workers
  <2> HIDE DEF n, r, wanted
  <2> QED
    BY <2>1, <2>2, RequestFacts DEF n, wanted
<1>3. CASE ~StartsImage(p)
  <2>1. n = w
    BY <1>3 DEF ImageRequested
  <2> QED
    BY <2>1
<1> QED
  BY <1>2, <1>3

\* clear_background() leaves nothing that is still answered.
LEMMA StopFacts ==
    ASSUME NEW w, ThreadsInv(w)
    PROVE  LET n == StopWorkers(w)
           IN  /\ ThreadsInv(n) /\ HeldBy(n["background"]) = {} /\ HeldBy(n["image"]) = {}
               /\ n["metadata"] = w["metadata"] /\ n["artwork"] = w["artwork"]
<1> DEFINE v == CancelPending(w, "background")
           n == CancelPending(v, "image")
<1>1. /\ "background" \in Workers /\ "image" \in Workers /\ "metadata" \in Workers /\ "artwork" \in Workers
      /\ "image" # "background" /\ "image" # "metadata" /\ "background" # "metadata"
      /\ "image" # "artwork" /\ "background" # "artwork"
  BY DEF Workers
<1>2. ThreadsInv(v) /\ HeldBy(v["background"]) = {} /\ v["metadata"] = w["metadata"] /\ v["artwork"] = w["artwork"]
  <2>1. /\ ThreadsInv(v) /\ ("background" # "metadata" => HeldBy(v["background"]) = {})
        /\ \A y \in Workers \ {"background"} : v[y] = w[y]
    BY <1>1, CancelFacts
  <2> QED
    BY <1>1, <2>1
<1> HIDE DEF v
<1>3. /\ ThreadsInv(n) /\ HeldBy(n["image"]) = {} /\ n["background"] = v["background"]
      /\ n["metadata"] = v["metadata"] /\ n["artwork"] = v["artwork"]
  <2>1. /\ ThreadsInv(n) /\ ("image" # "metadata" => HeldBy(n["image"]) = {})
        /\ \A y \in Workers \ {"image"} : n[y] = v[y]
    BY <1>1, <1>2, CancelFacts
  <2> QED
    BY <1>1, <2>1
<1> QED
  BY <1>2, <1>3 DEF StopWorkers, v

\* What is wanted of the selected artist is one request, or none.
LEMMA WantedFacts ==
    ASSUME NEW m, MetaInv(m)
    PROVE  /\ One(BackgroundWanted(m))
           /\ \A q \in BackgroundWanted(m) : /\ q = [gen |-> q.gen, artist |-> q.artist]
                                             /\ q.gen = m.generation /\ SelectedArtist(m) = {q.artist}
           /\ ~policy => BackgroundWanted(m) = {}
<1>1. One(SelectedArtist(m))
  BY SelectedFacts
<1>2. ~policy => BackgroundWanted(m) = {}
  BY DEF BackgroundWanted
<1>3. CASE ~policy \/ SelectedArtist(m) = {}
  <2>1. BackgroundWanted(m) = {}
    BY <1>3 DEF BackgroundWanted
  <2> QED
    BY <2>1, OneFacts
<1>4. CASE policy /\ SelectedArtist(m) # {}
  <2>1. PICK a : SelectedArtist(m) = {a}
    BY <1>1, <1>4 DEF One
  <2> DEFINE r == [gen |-> m.generation, artist |-> a]
  <2>2. BackgroundWanted(m) = {r} /\ r.gen = m.generation /\ r.artist = a /\ r = [gen |-> r.gen, artist |-> r.artist]
    BY <1>4, <2>1 DEF BackgroundWanted
  <2> HIDE DEF r
  <2> QED
    BY <1>4, <2>1, <2>2, OneFacts
<1> QED
  BY <1>2, <1>3, <1>4

\* sync_background_request() leaves the photographs of the selected artist.
LEMMA SyncFacts ==
    ASSUME NEW m, MetaInv(m), NEW w, ThreadsInv(w), PhotoInv(photos), FetchInv(photos, w), SyncBackground(m, w)
    PROVE  /\ PhotoInv(photos') /\ KeptAreOf(m, photos') /\ ThreadsInv(workers') /\ FetchInv(photos', workers')
           /\ ~policy => photos'.request = {}
           /\ workers'["metadata"] = w["metadata"]
<1> DEFINE wanted == BackgroundWanted(m)
           p == [NoPhotos EXCEPT !.request = wanted]
           v == StopWorkers(w)
           r == CHOOSE q \in wanted : TRUE
           n == Request(v, "background", r)
<1>1. /\ One(wanted) /\ \A q \in wanted : q = [gen |-> q.gen, artist |-> q.artist] /\ q.gen = m.generation /\ SelectedArtist(m) = {q.artist}
      /\ ~policy => wanted = {}
  BY WantedFacts
<1>2. PhotoInv(p) /\ p.request = wanted /\ p.wanted = {} /\ KeptAreOf(m, p)
  BY <1>1, AskedFacts
<1>3. ThreadsInv(v) /\ HeldBy(v["background"]) = {} /\ HeldBy(v["image"]) = {} /\ v["metadata"] = w["metadata"]
  BY StopFacts
<1>4. IF SyncsPhotos(m) THEN photos' = p /\ workers' = (IF wanted = {} THEN v ELSE n)
                        ELSE photos' = photos /\ workers' = w
  BY DEF SyncBackground
<1> HIDE DEF p, v
<1>5. CASE SyncsPhotos(m) /\ wanted = {}
  BY <1>1, <1>2, <1>3, <1>4, <1>5 DEF FetchInv
<1>6. CASE SyncsPhotos(m) /\ wanted # {}
  <2>1. r \in wanted /\ "background" \in Workers /\ "image" \in Workers /\ "metadata" \in Workers
    BY <1>6 DEF Workers
  <2> HIDE DEF r
  <2>2. ThreadsInv(n) /\ HeldBy(n["background"]) = {r} /\ n["image"] = v["image"] /\ n["metadata"] = v["metadata"]
    BY <1>3, <2>1, RequestFacts
  <2> HIDE DEF n, wanted
  <2> QED
    BY <1>1, <1>2, <1>3, <1>4, <1>6, <2>1, <2>2 DEF FetchInv
<1>7. CASE ~SyncsPhotos(m)
  <2>1. wanted # {} /\ wanted = photos.request
    BY <1>7 DEF SyncsPhotos
  <2>2. KeptAreOf(m, photos)
    <3> SUFFICES ASSUME NEW i \in 1..Len(photos.kept)
                 PROVE  photos.kept[i].gen = m.generation /\ SelectedArtist(m) = {photos.kept[i].artist}
      BY DEF KeptAreOf
    <3> DEFINE q == [gen |-> photos.kept[i].gen, artist |-> photos.kept[i].artist]
    <3>1. q \in wanted /\ q.gen = photos.kept[i].gen /\ q.artist = photos.kept[i].artist
      BY <2>1 DEF PhotoInv
    <3> HIDE DEF q
    <3> QED
      BY <1>1, <3>1
  <2> HIDE DEF wanted
  <2> QED
    BY <1>1, <1>4, <1>7, <2>1, <2>2
<1> QED
  BY <1>5, <1>6, <1>7

-----------------------------------------------------------------------------
(* The steps.                                                              *)

\* Names of the threads.
LEMMA WorkerNames ==
    /\ "metadata" \in Workers /\ "artwork" \in Workers /\ "background" \in Workers /\ "image" \in Workers
    /\ "idle" \notin Workers
  BY DEF Workers

\* Once a disc is looked up, no lookup of its generation is under way.
LEMMA LookupDone ==
    ASSUME NEW m, NEW v, LookupInv(m, v), m.snapshot.status # "loading", NEW n, n.generation = m.generation
    PROVE  LookupInv(n, v)
  BY DEF LookupInv, Now

\* A thread takes what waits, or ends its lookup.
LEMMA ThreadsKeep ==
    ASSUME EnrichmentInv, NEW x \in Workers, TakeRequest(x) \/ LookUp(x)
    PROVE  EnrichmentInv'
<1> DEFINE v == workers["metadata"]
<1>1. UNCHANGED <<meta, photos, policy, at>> /\ ThreadsInv(workers)
  BY DEF TakeRequest, LookUp, EnrichmentInv
<1>2. /\ ThreadsInv(workers') /\ HeldBy(workers'[x]) \subseteq HeldBy(workers[x])
      /\ \A y \in Workers \ {x} : workers'[y] = workers[y]
      /\ \/ /\ workers[x].running = {} /\ workers'[x].running = workers[x].pending
            /\ workers'[x].pending = {} /\ workers'[x].result = workers[x].result
         \/ /\ workers'[x].running = {} /\ workers'[x].pending = workers[x].pending
            /\ \/ workers'[x].result = workers[x].result
               \/ ~workers[x].void /\ ResultsOf(workers'[x]) = workers[x].running
  BY <1>1, ThreadStepFacts
<1>3. HeldBy(workers'["background"]) \subseteq HeldBy(workers["background"])
  BY <1>2, WorkerNames
<1>4. HeldBy(workers'["image"]) \subseteq HeldBy(workers["image"])
  BY <1>2, WorkerNames
<1>5. FetchInv(photos', workers')
  BY <1>1, <1>3, <1>4 DEF EnrichmentInv, FetchInv
<1>6. LookupInv(meta, workers["metadata"])
  BY DEF EnrichmentInv
<1>7. LookupInv(meta', workers'["metadata"])
  <2>1. CASE x # "metadata"
    BY <1>1, <1>2, <1>6, <2>1, WorkerNames
  <2>2. CASE x = "metadata"
    <3>1. CASE /\ workers[x].running = {} /\ workers'[x].running = workers[x].pending
               /\ workers'[x].pending = {} /\ workers'[x].result = workers[x].result
      BY <1>1, <1>6, <2>2, <3>1 DEF LookupInv, Now, ResultsOf
    <3>2. CASE workers'[x].running = {} /\ workers'[x].pending = workers[x].pending /\ workers'[x].result = workers[x].result
      BY <1>1, <1>6, <2>2, <3>2 DEF LookupInv, Now, ResultsOf
    <3>3. CASE workers'[x].running = {} /\ workers'[x].pending = workers[x].pending /\ ResultsOf(workers'[x]) = workers[x].running
      BY <1>1, <1>6, <2>2, <3>3 DEF LookupInv, Now
    <3> QED
      BY <1>2, <3>1, <3>2, <3>3
  <2> QED
    BY <2>1, <2>2
<1> QED
  BY <1>1, <1>2, <1>5, <1>7 DEF EnrichmentInv

\* A new disc is looked up, in a new generation.
LEMMA BeginIfNeededKeeps ==
    ASSUME EnrichmentInv, NEW d \in Discs, BeginIfNeeded(d), UNCHANGED at
    PROVE  EnrichmentInv'
<1> DEFINE v == StopWorkers(workers)
           w == CancelPending(v, "artwork")
           r == [gen |-> meta.generation + 1, toc |-> d]
           n == Request(w, "metadata", r)
           s == [NoSnapshot EXCEPT !.status = "loading"]
<1>1. /\ meta.generation < MaxGeneration /\ photos' = NoPhotos /\ workers' = n /\ UNCHANGED <<policy, at>>
      /\ meta' = [generation |-> meta.generation + 1, toc |-> {d}, snapshot |-> s]
  BY DEF BeginIfNeeded
<1>2. ThreadsInv(workers) /\ LookupInv(meta, workers["metadata"]) /\ meta.generation \in Generations
  BY DEF EnrichmentInv, MetaInv, Metadata
<1>3. /\ ThreadsInv(v) /\ HeldBy(v["background"]) = {} /\ HeldBy(v["image"]) = {} /\ v["metadata"] = workers["metadata"]
  BY <1>2, StopFacts
<1> HIDE DEF v
<1>4. ThreadsInv(w) /\ \A y \in Workers \ {"artwork"} : w[y] = v[y]
  BY <1>3, WorkerNames, CancelFacts
<1> HIDE DEF w
<1>5. /\ ThreadsInv(n) /\ \A y \in Workers \ {"metadata"} : n[y] = w[y]
      /\ n["metadata"].pending = {r} /\ n["metadata"].running = w["metadata"].running /\ n["metadata"].result = {}
  BY <1>4, WorkerNames, RequestFacts
<1> HIDE DEF n
<1>6. /\ HeldBy(n["background"]) = {} /\ HeldBy(n["image"]) = {}
      /\ n["metadata"].running = workers["metadata"].running
  BY <1>3, <1>4, <1>5, WorkerNames
<1>7. s \in Snapshots /\ s.status = "loading" /\ s.of = {} /\ s.selected = 0 /\ s.artwork = "not_requested" /\ s.coverOf = {}
  BY DEF NoSnapshot, Snapshots, Statuses
<1> HIDE DEF s
<1>8. /\ meta' \in Metadata /\ meta'.generation = meta.generation + 1 /\ meta'.toc = {d} /\ meta'.snapshot = s
  BY <1>1, <1>2, <1>7, EnrichmentConstants DEF Metadata, Generations
<1>9. MetaInv(meta')
  BY <1>7, <1>8, OneFacts DEF MetaInv
<1>10. LookupInv(meta', workers'["metadata"])
  <2>1. r.gen = meta'.generation /\ r.toc = d /\ r.gen \in Nat
    BY <1>2, <1>8 DEF Generations
  <2>2. \A q \in n["metadata"].running : q.gen \in Nat /\ q.gen < meta'.generation
    BY <1>2, <1>6, <1>8 DEF LookupInv, Generations
  <2>3. ResultsOf(n["metadata"]) = {}
    BY <1>5 DEF ResultsOf
  <2> HIDE DEF r
  <2>4. ~Now(meta', n["metadata"].running)
    BY <2>1, <2>2 DEF Now
  <2>5. \A q \in n["metadata"].pending \cup n["metadata"].running \cup ResultsOf(n["metadata"]) :
           /\ q.gen \in Nat /\ q.gen <= meta'.generation
           /\ q.gen = meta'.generation => meta'.snapshot.status = "loading" /\ meta'.toc = {q.toc}
    <3>1. r.gen \in Nat /\ r.gen <= meta'.generation /\ meta'.snapshot.status = "loading" /\ meta'.toc = {r.toc}
      BY <1>7, <1>8, <2>1
    <3>2. \A q \in n["metadata"].running : q.gen \in Nat /\ q.gen <= meta'.generation /\ q.gen # meta'.generation
      BY <2>1, <2>2
    <3> QED
      BY <1>5, <2>3, <3>1, <3>2
  <2>6. ~Now(meta', ResultsOf(n["metadata"]))
    BY <2>3 DEF Now
  <2> QED
    BY <1>1, <2>4, <2>5, <2>6 DEF LookupInv
<1>11. FetchInv(photos', workers')
  BY <1>1, <1>6, NoPhotosFacts DEF FetchInv
<1> QED
  BY <1>1, <1>5, <1>9, <1>10, <1>11, NoPhotosFacts DEF EnrichmentInv

\* Without a disc nothing is shown, kept or fetched.
LEMMA InvalidateKeeps == ASSUME EnrichmentInv, Invalidate, UNCHANGED at PROVE EnrichmentInv'
<1> DEFINE v == StopWorkers(workers)
           w == CancelPending(v, "metadata")
           n == CancelPending(w, "artwork")
<1>1. /\ meta.generation < MaxGeneration /\ photos' = NoPhotos /\ workers' = n /\ UNCHANGED <<policy, at>>
      /\ meta' = [NoMetadata EXCEPT !.generation = meta.generation + 1]
  BY DEF Invalidate, Invalidated
<1>2. ThreadsInv(workers) /\ LookupInv(meta, workers["metadata"]) /\ meta.generation \in Generations
  BY DEF EnrichmentInv, MetaInv, Metadata
<1>3. /\ ThreadsInv(v) /\ HeldBy(v["background"]) = {} /\ HeldBy(v["image"]) = {} /\ v["metadata"] = workers["metadata"]
  BY <1>2, StopFacts
<1> HIDE DEF v
<1>4. /\ ThreadsInv(w) /\ \A y \in Workers \ {"metadata"} : w[y] = v[y]
      /\ w["metadata"].pending = {} /\ w["metadata"].running = v["metadata"].running /\ w["metadata"].result = {}
  BY <1>3, WorkerNames, CancelFacts
<1> HIDE DEF w
<1>5. ThreadsInv(n) /\ \A y \in Workers \ {"artwork"} : n[y] = w[y]
  BY <1>4, WorkerNames, CancelFacts
<1> HIDE DEF n
<1>6. /\ HeldBy(n["background"]) = {} /\ HeldBy(n["image"]) = {}
      /\ n["metadata"].running = workers["metadata"].running /\ n["metadata"].pending = {} /\ n["metadata"].result = {}
  BY <1>3, <1>4, <1>5, WorkerNames
<1>7. /\ NoSnapshot \in Snapshots /\ NoSnapshot.status = "not_requested" /\ NoSnapshot.of = {} /\ NoSnapshot.selected = 0
      /\ NoSnapshot.artwork = "not_requested" /\ NoSnapshot.coverOf = {}
  BY DEF NoSnapshot, Snapshots, Statuses
<1>8. /\ meta' \in Metadata /\ meta'.generation = meta.generation + 1 /\ meta'.toc = {} /\ meta'.snapshot = NoSnapshot
  BY <1>1, <1>2, <1>7, EnrichmentConstants DEF Metadata, Generations, NoMetadata
<1>9. MetaInv(meta')
  BY <1>7, <1>8, OneFacts DEF MetaInv
<1>10. LookupInv(meta', workers'["metadata"])
  <2>1. \A q \in n["metadata"].running : q.gen \in Nat /\ q.gen <= meta'.generation /\ q.gen # meta'.generation
    BY <1>2, <1>6, <1>8 DEF LookupInv, Generations
  <2>2. ResultsOf(n["metadata"]) = {}
    BY <1>6 DEF ResultsOf
  <2> QED
    BY <1>1, <1>6, <2>1, <2>2 DEF LookupInv, Now
<1>11. FetchInv(photos', workers')
  BY <1>1, <1>6, NoPhotosFacts DEF FetchInv
<1> QED
  BY <1>1, <1>5, <1>9, <1>10, <1>11, NoPhotosFacts DEF EnrichmentInv

\* The photographs follow the release that is selected.
LEMMA SelectKeeps ==
    ASSUME EnrichmentInv, NEW g, NEW i \in 1..3, Select(g, i), UNCHANGED at
    PROVE  EnrichmentInv'
<1>1. MetaInv(meta) /\ meta \in Metadata /\ ThreadsInv(workers) /\ PhotoInv(photos) /\ FetchInv(photos, workers)
  BY DEF EnrichmentInv, MetaInv
<1>2. MaySelect(meta, g) /\ meta' = SelectCandidate(meta, i) /\ UNCHANGED <<policy, at>>
  BY DEF Select
<1>3. /\ meta' \in Metadata /\ meta'.generation = meta.generation /\ meta'.toc = meta.toc
      /\ meta'.snapshot.status = "available" /\ meta'.snapshot.of = meta.snapshot.of
      /\ meta'.snapshot.selected = i /\ meta'.snapshot.artwork = "not_requested" /\ meta'.snapshot.coverOf = {}
  <2> DEFINE s == [meta.snapshot EXCEPT !.status = "available", !.selected = i,
                                        !.artwork = "not_requested", !.coverOf = {}]
  <2>1. meta.snapshot \in Snapshots
    BY <1>1 DEF Metadata
  <2>2. /\ s \in Snapshots /\ s.status = "available" /\ s.of = meta.snapshot.of
        /\ s.selected = i /\ s.artwork = "not_requested" /\ s.coverOf = {}
    BY <2>1, i \in Nat DEF Snapshots, Statuses
  <2>3. meta' = [meta EXCEPT !.snapshot = s]
    BY <1>1, <1>2, <2>1 DEF SelectCandidate, Metadata, Snapshots
  <2> HIDE DEF s
  <2> QED
    BY <1>1, <2>2, <2>3 DEF Metadata
<1>4. MetaInv(meta')
  BY <1>1, <1>3 DEF MetaInv
<1>5. LookupInv(meta', workers["metadata"])
  <2>1. meta.snapshot.status # "loading"
    BY <1>2 DEF MaySelect
  <2> QED
    BY <1>3, <2>1, LookupDone DEF EnrichmentInv
<1>6. PICK c \in Selected(meta') : SyncBackground(meta', Request(workers, "artwork", [gen |-> g, release |-> c]))
  BY DEF Select
<1> DEFINE w == Request(workers, "artwork", [gen |-> g, release |-> c])
<1>7. ThreadsInv(w) /\ \A y \in Workers \ {"artwork"} : w[y] = workers[y]
  BY <1>1, WorkerNames, RequestFacts
<1>8. SyncBackground(meta', w)
  BY <1>6
<1> HIDE DEF w
<1>9. w["metadata"] = workers["metadata"] /\ FetchInv(photos, w)
  BY <1>1, <1>7, WorkerNames DEF FetchInv
<1>10. /\ PhotoInv(photos') /\ KeptAreOf(meta', photos') /\ ThreadsInv(workers') /\ FetchInv(photos', workers')
       /\ ~policy => photos'.request = {}
       /\ workers'["metadata"] = w["metadata"]
  BY <1>1, <1>4, <1>7, <1>8, <1>9, SyncFacts
<1> QED
  BY <1>2, <1>4, <1>5, <1>9, <1>10 DEF EnrichmentInv

\* Without a selection there is no cover and no photograph.
LEMMA DeclineKeeps ==
    ASSUME EnrichmentInv, NEW g, Decline(g), UNCHANGED at
    PROVE  EnrichmentInv'
<1> DEFINE v == CancelPending(workers, "artwork")
<1>1. MetaInv(meta) /\ meta \in Metadata /\ ThreadsInv(workers)
  BY DEF EnrichmentInv, MetaInv
<1>2. /\ MaySelect(meta, g) /\ meta' = DeclineCandidates(meta) /\ photos' = NoPhotos
      /\ workers' = StopWorkers(v) /\ UNCHANGED <<policy, at>>
  BY DEF Decline
<1>3. /\ meta' \in Metadata /\ meta'.generation = meta.generation /\ meta'.toc = meta.toc
      /\ meta'.snapshot.status = "ambiguous" /\ meta'.snapshot.of = meta.snapshot.of
      /\ meta'.snapshot.selected = 0 /\ meta'.snapshot.artwork = "not_requested" /\ meta'.snapshot.coverOf = {}
  <2> DEFINE s == [meta.snapshot EXCEPT !.status = "ambiguous", !.selected = 0,
                                        !.artwork = "not_requested", !.coverOf = {}]
  <2>1. meta.snapshot \in Snapshots
    BY <1>1 DEF Metadata
  <2>2. /\ s \in Snapshots /\ s.status = "ambiguous" /\ s.of = meta.snapshot.of
        /\ s.selected = 0 /\ s.artwork = "not_requested" /\ s.coverOf = {}
    BY <2>1 DEF Snapshots, Statuses
  <2>3. meta' = [meta EXCEPT !.snapshot = s]
    BY <1>1, <1>2, <2>1 DEF DeclineCandidates, Metadata, Snapshots
  <2> HIDE DEF s
  <2> QED
    BY <1>1, <2>2, <2>3 DEF Metadata
<1>4. MetaInv(meta')
  BY <1>1, <1>3 DEF MetaInv
<1>5. LookupInv(meta', workers["metadata"])
  <2>1. meta.snapshot.status # "loading"
    BY <1>2 DEF MaySelect
  <2> QED
    BY <1>3, <2>1, LookupDone DEF EnrichmentInv
<1>6. ThreadsInv(v) /\ v["metadata"] = workers["metadata"]
  BY <1>1, WorkerNames, CancelFacts
<1> HIDE DEF v
<1>7. /\ ThreadsInv(workers') /\ HeldBy(workers'["background"]) = {} /\ HeldBy(workers'["image"]) = {}
      /\ workers'["metadata"] = v["metadata"]
  BY <1>2, <1>6, StopFacts
<1>8. FetchInv(photos', workers')
  BY <1>2, <1>7, NoPhotosFacts DEF FetchInv
<1> QED
  BY <1>2, <1>4, <1>5, <1>6, <1>7, <1>8, NoPhotosFacts DEF EnrichmentInv

\* Switched off, nothing is kept or fetched.
LEMMA SwitchOffKeeps == ASSUME EnrichmentInv, SwitchOff, UNCHANGED at PROVE EnrichmentInv'
<1>1. policy' = FALSE /\ photos' = NoPhotos /\ workers' = StopWorkers(workers) /\ UNCHANGED <<meta, at>>
  BY DEF SwitchOff
<1>2. /\ ThreadsInv(workers') /\ HeldBy(workers'["background"]) = {} /\ HeldBy(workers'["image"]) = {}
      /\ workers'["metadata"] = workers["metadata"]
  BY <1>1, StopFacts DEF EnrichmentInv
<1>3. FetchInv(photos', workers')
  BY <1>1, <1>2, NoPhotosFacts DEF FetchInv
<1> QED
  BY <1>1, <1>2, <1>3, NoPhotosFacts DEF EnrichmentInv

\* What the session asks of the service.
LEMMA CallsKeep == ASSUME EnrichmentInv, Calls PROVE EnrichmentInv'
<1>1. UNCHANGED at
  BY DEF Calls
<1>2. ASSUME NEW d \in Discs, BeginIfNeeded(d) PROVE EnrichmentInv'
  BY <1>1, <1>2, BeginIfNeededKeeps
<1>3. CASE Invalidate
  BY <1>1, <1>3, InvalidateKeeps
<1>4. ASSUME NEW g \in 0..MaxGeneration, Decline(g) PROVE EnrichmentInv'
  BY <1>1, <1>4, DeclineKeeps
<1>5. ASSUME NEW g \in 0..MaxGeneration, NEW i \in 1..3, Select(g, i) PROVE EnrichmentInv'
  BY <1>1, <1>5, SelectKeeps
<1>6. CASE SwitchOff
  BY <1>1, <1>6, SwitchOffKeeps
<1>7. CASE SwitchOn
  BY <1>1, <1>7 DEF SwitchOn, EnrichmentInv
<1> QED
  BY <1>2, <1>3, <1>4, <1>5, <1>6, <1>7 DEF Calls

-----------------------------------------------------------------------------
(* The stages of poll().                                                   *)

\* What a lookup answered is shown of the disc it was asked for.
LEMMA AppliedFacts ==
    ASSUME NEW r, r.answer \in {"found", "not_found", "error"}, r.request.toc \in Discs
    PROVE  LET s == Applied(r)
           IN  /\ s \in Snapshots /\ s.status # "loading" /\ (s.status = "available" <=> s.selected # 0)
               /\ s.of \subseteq {r.request.toc} /\ s.coverOf = {} /\ s.artwork = "not_requested"
<1> DEFINE d == r.request.toc
           found == r.answer = "found"
           single == found /\ Len(ArtistsOf[d]) = 1
           status == IF single THEN "available" ELSE IF found THEN "ambiguous" ELSE r.answer
           of == IF found THEN {d} ELSE {}
           selected == IF single THEN 1 ELSE 0
           s == [NoSnapshot EXCEPT !.status = status, !.of = of, !.selected = selected]
<1>1. Applied(r) = s
  BY DEF Applied
<1>2. /\ status \in Statuses /\ status # "loading" /\ (status = "available" <=> selected # 0)
      /\ of \subseteq {d} /\ selected \in Nat /\ of \subseteq Discs
  BY DEF Statuses
<1> HIDE DEF status, of, selected
<1>3. /\ s \in Snapshots /\ s.status = status /\ s.of = of /\ s.selected = selected
      /\ s.coverOf = {} /\ s.artwork = "not_requested"
  BY <1>2 DEF NoSnapshot, Snapshots
<1> HIDE DEF s
<1> QED
  BY <1>1, <1>2, <1>3

\* A lookup is applied while its disc is still to be looked up, and once.
LEMMA PollMetadataKeeps == ASSUME EnrichmentInv, PollMetadata PROVE EnrichmentInv'
<1>1. /\ MetaInv(meta) /\ meta \in Metadata /\ ThreadsInv(workers) /\ LookupInv(meta, workers["metadata"])
      /\ KeptAreOf(meta, photos) /\ FetchInv(photos, workers)
  BY DEF EnrichmentInv, MetaInv
<1>2. PICK r \in workers["metadata"].result :
         LET m == IF Applies(meta, r) THEN [meta EXCEPT !.snapshot = Applied(r)] ELSE meta
             w == Popped(workers, "metadata")
         IN  /\ meta' = m
             /\ workers' = IF Applies(meta, r) /\ Selected(m) # {}
                           THEN Request(w, "artwork", [gen |-> m.generation,
                                                       release |-> CHOOSE c \in Selected(m) : TRUE])
                           ELSE w
  BY DEF PollMetadata
<1>3. UNCHANGED <<photos, policy, at>>
  BY DEF PollMetadata
<1> DEFINE w == Popped(workers, "metadata")
           q == [gen |-> meta'.generation, release |-> CHOOSE c \in Selected(meta') : TRUE]
<1>4. /\ meta' = (IF Applies(meta, r) THEN [meta EXCEPT !.snapshot = Applied(r)] ELSE meta)
      /\ workers' = w \/ workers' = Request(w, "artwork", q)
  BY <1>2
<1>5. /\ ThreadsInv(w) /\ w["metadata"].pending = workers["metadata"].pending
      /\ w["metadata"].running = workers["metadata"].running /\ w["metadata"].result = {}
      /\ \A y \in Workers \ {"metadata"} : w[y] = workers[y]
  BY <1>1, WorkerNames, PoppedFacts
<1> HIDE DEF w, q
<1>6. ThreadsInv(Request(w, "artwork", q)) /\ \A y \in Workers \ {"artwork"} : Request(w, "artwork", q)[y] = w[y]
  BY <1>5, WorkerNames, RequestFacts
<1>7. /\ ThreadsInv(workers') /\ workers'["metadata"] = w["metadata"]
      /\ workers'["background"] = workers["background"] /\ workers'["image"] = workers["image"]
  BY <1>4, <1>5, <1>6, WorkerNames
<1>8. FetchInv(photos', workers')
  BY <1>1, <1>3, <1>7 DEF FetchInv
<1>9. r.request \in ResultsOf(workers["metadata"]) /\ ResultsOf(w["metadata"]) = {}
  BY <1>5 DEF ResultsOf
<1>10. CASE Applies(meta, r)
  <2> DEFINE v == workers["metadata"]
  <2>1. /\ r.request.gen = meta.generation /\ meta.toc = {r.request.toc} /\ meta.snapshot.status = "loading"
        /\ ~Now(meta, v.pending) /\ ~Now(meta, v.running)
    BY <1>1, <1>9, <1>10 DEF LookupInv, Now, Applies
  <2>2. r.answer \in {"found", "not_found", "error"} /\ r.request.toc \in Discs
    <3>1. r.answer \in Answers("metadata", r.request)
      BY <1>1, WorkerNames DEF ThreadsInv, ThreadInv
    <3> QED
      BY <1>1, <2>1, <3>1 DEF Answers, Metadata
  <2> DEFINE s == Applied(r)
  <2>3. /\ s \in Snapshots /\ s.status # "loading" /\ (s.status = "available" <=> s.selected # 0)
        /\ s.of \subseteq {r.request.toc} /\ s.coverOf = {} /\ s.artwork = "not_requested"
    BY <2>2, AppliedFacts
  <2>4. meta' = [meta EXCEPT !.snapshot = s]
    BY <1>4, <1>10
  <2> HIDE DEF s
  <2>5. meta' \in Metadata /\ meta'.generation = meta.generation /\ meta'.toc = meta.toc /\ meta'.snapshot = s
    BY <1>1, <2>3, <2>4 DEF Metadata
  <2>6. MetaInv(meta')
    BY <1>1, <2>1, <2>3, <2>5 DEF MetaInv
  <2>7. LookupInv(meta', workers'["metadata"])
    BY <1>1, <1>5, <1>7, <1>9, <2>1, <2>5 DEF LookupInv, Now
  <2>8. KeptAreOf(meta', photos')
    BY <1>1, <1>3, <2>1, SelectedFacts DEF KeptAreOf
  <2> QED
    BY <1>3, <1>7, <1>8, <2>6, <2>7, <2>8 DEF EnrichmentInv
<1>11. CASE ~Applies(meta, r)
  <2>1. meta' = meta
    BY <1>4, <1>11
  <2>2. LookupInv(meta', workers'["metadata"])
    BY <1>1, <1>5, <1>7, <1>9, <2>1 DEF LookupInv, Now
  <2> QED
    BY <1>1, <1>3, <1>7, <1>8, <2>1, <2>2 DEF EnrichmentInv
<1> QED
  BY <1>10, <1>11

\* A cover is shown for the release that is selected.
LEMMA PollArtworkKeeps == ASSUME EnrichmentInv, PollArtwork PROVE EnrichmentInv'
<1>1. /\ MetaInv(meta) /\ meta \in Metadata /\ ThreadsInv(workers) /\ LookupInv(meta, workers["metadata"])
      /\ KeptAreOf(meta, photos) /\ FetchInv(photos, workers)
  BY DEF EnrichmentInv, MetaInv
<1>2. PICK r \in workers["artwork"].result :
         meta' = IF CoverApplies(meta, r)
                 THEN [meta EXCEPT !.snapshot.artwork = r.answer, !.snapshot.coverOf = {r.request.release}]
                 ELSE meta
  BY DEF PollArtwork
<1>3. workers' = Popped(workers, "artwork") /\ UNCHANGED <<photos, policy, at>>
  BY DEF PollArtwork
<1>4. /\ ThreadsInv(workers') /\ \A y \in Workers \ {"artwork"} : workers'[y] = workers[y]
  BY <1>1, <1>2, <1>3, WorkerNames, PoppedFacts
<1>5. /\ workers'["metadata"] = workers["metadata"] /\ FetchInv(photos', workers')
  BY <1>1, <1>3, <1>4, WorkerNames DEF FetchInv
<1>6. CASE CoverApplies(meta, r)
  <2> DEFINE s == [meta.snapshot EXCEPT !.artwork = r.answer, !.coverOf = {r.request.release}]
  <2>1. r.answer \in {"available", "error"}
    <3>1. r.answer \in Answers("artwork", r.request)
      BY <1>1, WorkerNames DEF ThreadsInv, ThreadInv
    <3> QED
      BY <3>1 DEF Answers
  <2>2. r.request.release \in Selected(meta) /\ r.request.release \in Releases
    BY <1>1, <1>6, SelectedFacts DEF CoverApplies
  <2>3. meta.snapshot \in Snapshots
    BY <1>1 DEF Metadata
  <2>4. /\ s \in Snapshots /\ s.status = meta.snapshot.status /\ s.of = meta.snapshot.of
        /\ s.selected = meta.snapshot.selected /\ s.coverOf = {r.request.release}
    BY <2>1, <2>2, <2>3 DEF Snapshots
  <2>5. meta' = [meta EXCEPT !.snapshot = s]
    BY <1>1, <1>2, <1>6, <2>3 DEF Metadata, Snapshots
  <2> HIDE DEF s
  <2>6. meta' \in Metadata /\ meta'.generation = meta.generation /\ meta'.toc = meta.toc /\ meta'.snapshot = s
    BY <1>1, <2>4, <2>5 DEF Metadata
  <2>7. Selected(meta') = Selected(meta)
    BY <2>4, <2>6 DEF Selected, Candidates
  <2>8. SelectedArtist(meta') = SelectedArtist(meta)
    BY <2>7 DEF SelectedArtist
  <2>9. MetaInv(meta')
    BY <1>1, <2>2, <2>4, <2>6, <2>7 DEF MetaInv
  <2>10. KeptAreOf(meta', photos')
    BY <1>1, <1>3, <2>6, <2>8 DEF KeptAreOf
  <2>11. LookupInv(meta', workers'["metadata"])
    BY <1>1, <1>5, <2>4, <2>6 DEF LookupInv, Now
  <2> QED
    BY <1>3, <1>4, <1>5, <2>9, <2>10, <2>11 DEF EnrichmentInv
<1>7. CASE ~CoverApplies(meta, r)
  <2>1. meta' = meta
    BY <1>2, <1>7
  <2> QED
    BY <1>1, <1>3, <1>4, <1>5, <2>1 DEF EnrichmentInv
<1> QED
  BY <1>6, <1>7

\* The next photograph is searched for once no other is.
LEMMA SearchFacts ==
    ASSUME NEW p, PhotoShape(p), Len(p.kept) <= MaxImages, One(p.request),
           \A q \in p.request : q = [gen |-> q.gen, artist |-> q.artist],
           \A i \in 1..Len(p.kept) : p.request = {[gen |-> p.kept[i].gen, artist |-> p.kept[i].artist]},
           NEW m, KeptAreOf(m, p),
           NEW w, ThreadsInv(w), HeldBy(w["image"]) = {}, HeldBy(w["background"]) = {}
    PROVE  LET n == ImageStarted(p)
               v == ImageRequested(w, p)
           IN  /\ PhotoInv(n) /\ n.request = p.request /\ KeptAreOf(m, n)
               /\ ThreadsInv(v) /\ FetchInv(n, v) /\ v["metadata"] = w["metadata"]
<1> DEFINE n == ImageStarted(p)
           v == ImageRequested(w, p)
<1>1. /\ PhotoShape(n) /\ n.request = p.request /\ n.kept = p.kept /\ n.bytes = p.bytes
      /\ One(n.wanted) /\ (n.wanted # {} <=> StartsImage(p))
      /\ \A q \in n.wanted : n.request = {[gen |-> q.gen, artist |-> q.artist]}
  BY StartedFacts
<1>2. ThreadsInv(v) /\ HeldBy(v["image"]) \subseteq n.wanted /\ \A y \in Workers \ {"image"} : v[y] = w[y]
  BY ImageFacts
<1> HIDE DEF n, v
<1>3. n.wanted # {} => HasRoom(n)
  BY <1>1 DEF StartsImage, HasRoom
<1>4. PhotoInv(n)
  BY <1>1, <1>3 DEF PhotoInv
<1>5. KeptAreOf(m, n)
  BY <1>1 DEF KeptAreOf
<1>6. v["metadata"] = w["metadata"] /\ FetchInv(n, v)
  BY <1>2, WorkerNames DEF FetchInv
<1> QED
  BY <1>1, <1>2, <1>4, <1>5, <1>6 DEF n, v

\* An offer of photographs is taken while it is waited for.
LEMMA PollBackgroundKeeps == ASSUME EnrichmentInv, PollBackground PROVE EnrichmentInv'
<1>1. /\ MetaInv(meta) /\ ThreadsInv(workers) /\ LookupInv(meta, workers["metadata"])
      /\ PhotoInv(photos) /\ KeptAreOf(meta, photos) /\ FetchInv(photos, workers)
      /\ (~policy => photos.request = {}) /\ policy \in BOOLEAN /\ at \in Workers \cup {"idle"}
  BY DEF EnrichmentInv
<1>2. PICK r \in workers["background"].result :
         LET p == [photos EXCEPT !.offered = r.answer]
             w == Popped(workers, "background")
         IN  IF {r.request} = photos.request /\ SelectedArtist(meta) = {r.request.artist}
                /\ r.request.gen = meta.generation
             THEN /\ photos' = IF r.answer # <<>> THEN ImageStarted(p) ELSE p
                  /\ workers' = IF r.answer # <<>> THEN ImageRequested(w, p) ELSE w
             ELSE photos' = photos /\ workers' = w
  BY DEF PollBackground
<1>3. UNCHANGED <<meta, policy, at>>
  BY DEF PollBackground
<1> DEFINE p == [photos EXCEPT !.offered = r.answer]
           w == Popped(workers, "background")
<1>4. \/ /\ {r.request} = photos.request
         /\ \/ photos' = ImageStarted(p) /\ workers' = ImageRequested(w, p)
            \/ photos' = p /\ workers' = w
      \/ photos' = photos /\ workers' = w
  BY <1>2
<1>5. /\ ThreadsInv(w) /\ HeldBy(w["background"]) = {} /\ w["image"] = workers["image"]
      /\ w["metadata"] = workers["metadata"]
  <2>1. workers["background"].result # {}
    BY <1>2
  <2>2. ThreadsInv(w)
    BY <1>1, <2>1, WorkerNames, PoppedFacts
  <2>3. HeldBy(w["background"]) = {}
    BY <1>1, <2>1, WorkerNames, PoppedFacts, "background" \in {"background", "image"}
  <2>4. \A y \in Workers \ {"background"} : w[y] = workers[y]
    BY <1>1, <2>1, WorkerNames, PoppedFacts
  <2> HIDE DEF w
  <2> QED
    BY <2>2, <2>3, <2>4, WorkerNames
<1>6. FetchInv(photos, w)
  BY <1>1, <1>5 DEF FetchInv
<1>7. r.request \in HeldBy(workers["background"])
  BY DEF HeldBy
<1>8. photos.wanted = {} /\ HeldBy(w["image"]) = {}
  BY <1>1, <1>5, <1>7 DEF FetchInv
<1>9. /\ PhotoShape(p) /\ p.request = photos.request /\ p.wanted = photos.wanted
      /\ p.kept = photos.kept /\ p.bytes = photos.bytes
  BY <1>1 DEF PhotoInv, PhotoShape
<1> HIDE DEF p, w
<1>10. PhotoInv(p) /\ KeptAreOf(meta, p) /\ FetchInv(p, w)
  BY <1>1, <1>6, <1>9 DEF PhotoInv, HasRoom, KeptAreOf, FetchInv
<1>11. /\ PhotoInv(ImageStarted(p)) /\ ImageStarted(p).request = p.request /\ KeptAreOf(meta, ImageStarted(p))
       /\ ThreadsInv(ImageRequested(w, p)) /\ FetchInv(ImageStarted(p), ImageRequested(w, p))
       /\ ImageRequested(w, p)["metadata"] = w["metadata"]
  <2>1. /\ PhotoShape(p) /\ Len(p.kept) <= MaxImages /\ One(p.request)
        /\ \A q \in p.request : q = [gen |-> q.gen, artist |-> q.artist]
        /\ \A i \in 1..Len(p.kept) : p.request = {[gen |-> p.kept[i].gen, artist |-> p.kept[i].artist]}
    BY <1>10 DEF PhotoInv
  <2> QED
    BY <1>5, <1>8, <1>10, <2>1, SearchFacts
<1>12. /\ PhotoInv(photos') /\ photos'.request = photos.request /\ KeptAreOf(meta, photos')
       /\ ThreadsInv(workers') /\ FetchInv(photos', workers') /\ workers'["metadata"] = workers["metadata"]
  BY <1>1, <1>4, <1>5, <1>6, <1>9, <1>10, <1>11
<1> QED
  BY <1>1, <1>3, <1>12 DEF EnrichmentInv

\* A photograph that was loaded is kept with those of its artist.
LEMMA KeptFacts ==
    ASSUME NEW p, PhotoInv(p), NEW r, r.request \in p.wanted, r.answer \in Answers("image", r.request),
           r.request.gen \in Generations, r.request.artist \in Artists
    PROVE  LET n == Kept(p, r)
           IN  /\ PhotoShape(n) /\ Len(n.kept) <= MaxImages /\ n.request = p.request
               /\ \A i \in 1..Len(n.kept) : \/ i \in 1..Len(p.kept) /\ n.kept[i] = p.kept[i]
                                            \/ n.kept[i].gen = r.request.gen /\ n.kept[i].artist = r.request.artist
<1> DEFINE n == Kept(p, r)
           new == {c \in r.answer : Fits(p, c)}
           one == CHOOSE c \in new : TRUE
           q == [gen |-> r.request.gen, artist |-> r.request.artist, content |-> one]
<1>1. PhotoShape(p) /\ p.kept \in Seq(Photographs) /\ p.bytes \in 0..AggregateLimit /\ Len(p.kept) <= MaxImages
  BY DEF PhotoInv, PhotoShape
<1>2. CASE new = {}
  <2>1. n = p
    BY <1>2 DEF Kept
  <2> QED
    BY <1>1, <2>1
<1>3. CASE new # {}
  <2>1. n = [p EXCEPT !.kept = Append(@, q), !.bytes = @ + one]
    BY <1>3 DEF Kept
  <2>2. one \in Contents /\ one <= AggregateLimit - p.bytes
    <3>1. one \in r.answer /\ Fits(p, one)
      BY <1>3
    <3>2. r.answer \subseteq Contents
      BY DEF Answers
    <3> QED
      BY <3>1, <3>2 DEF Fits
  <2>3. p.bytes + one \in 0..AggregateLimit
    <3>1. \A l \in Nat : \A b \in 0..l : \A c \in 1..l : c <= l - b => b + c \in 0..l
      OBVIOUS
    <3>2. AggregateLimit \in Nat /\ one \in 1..AggregateLimit
      BY <2>2, EnrichmentConstants
    <3> QED
      BY <1>1, <2>2, <3>1, <3>2
  <2>4. q \in Photographs /\ q.gen = r.request.gen /\ q.artist = r.request.artist
    BY <2>2 DEF Photographs
  <2> HIDE DEF n, one, q
  <2>5. /\ Append(p.kept, q) \in Seq(Photographs) /\ Len(Append(p.kept, q)) = Len(p.kept) + 1
        /\ \A i \in 1..Len(p.kept) : Append(p.kept, q)[i] = p.kept[i]
        /\ Append(p.kept, q)[Len(p.kept) + 1] = q /\ Len(p.kept) \in Nat
    BY <1>1, <2>4
  <2> DEFINE kept == Append(p.kept, q)
             bytes == p.bytes + one
  <2>6. n = [p EXCEPT !.kept = kept, !.bytes = bytes]
    BY <1>1, <2>1 DEF PhotoShape
  <2>7. kept \in Seq(Photographs) /\ bytes \in 0..AggregateLimit
    BY <2>3, <2>5
  <2> HIDE DEF kept, bytes
  <2>8. PhotoShape(n) /\ n.request = p.request /\ n.kept = kept
    BY <1>1, <2>6, <2>7 DEF PhotoShape
  <2>9. Len(p.kept) < MaxImages
    BY DEF PhotoInv, HasRoom
  <2>10. Len(n.kept) <= MaxImages
    BY <2>5, <2>8, <2>9, EnrichmentConstants DEF kept
  <2>11. ASSUME NEW i \in 1..Len(n.kept)
         PROVE  \/ i \in 1..Len(p.kept) /\ n.kept[i] = p.kept[i]
                \/ n.kept[i].gen = r.request.gen /\ n.kept[i].artist = r.request.artist
    <3>1. CASE i \in 1..Len(p.kept)
      BY <2>5, <2>8, <3>1 DEF kept
    <3>2. CASE i \notin 1..Len(p.kept)
      <4>1. i = Len(p.kept) + 1
        BY <2>5, <2>8, <2>11, <3>2 DEF kept
      <4> QED
        BY <2>4, <2>5, <2>8, <4>1 DEF kept
    <3> QED
      BY <3>1, <3>2
  <2> QED
    BY <2>8, <2>10, <2>11 DEF n
<1> QED
  BY <1>2, <1>3

\* A photograph is kept while it is waited for, and the next one is tried.
LEMMA PollImageKeeps == ASSUME EnrichmentInv, PollImage PROVE EnrichmentInv'
<1>1. /\ MetaInv(meta) /\ ThreadsInv(workers) /\ LookupInv(meta, workers["metadata"])
      /\ PhotoInv(photos) /\ KeptAreOf(meta, photos) /\ FetchInv(photos, workers)
      /\ (~policy => photos.request = {}) /\ policy \in BOOLEAN /\ at \in Workers \cup {"idle"}
  BY DEF EnrichmentInv
<1>2. PICK r \in workers["image"].result :
         LET p == Kept(photos, r)
             w == Popped(workers, "image")
         IN  IF policy /\ {r.request} = photos.wanted /\ r.request.gen = meta.generation
                /\ SelectedArtist(meta) = {r.request.artist}
             THEN photos' = ImageStarted(p) /\ workers' = ImageRequested(w, p)
             ELSE photos' = photos /\ workers' = w
  BY DEF PollImage
<1>3. UNCHANGED <<meta, policy, at>>
  BY DEF PollImage
<1> DEFINE p == Kept(photos, r)
           w == Popped(workers, "image")
<1>4. \/ /\ {r.request} = photos.wanted /\ r.request.gen = meta.generation
         /\ SelectedArtist(meta) = {r.request.artist}
         /\ photos' = ImageStarted(p) /\ workers' = ImageRequested(w, p)
      \/ photos' = photos /\ workers' = w
  BY <1>2
<1>5. /\ ThreadsInv(w) /\ HeldBy(w["image"]) = {} /\ w["background"] = workers["background"]
      /\ w["metadata"] = workers["metadata"]
  <2>1. workers["image"].result # {}
    BY <1>2
  <2>2. ThreadsInv(w)
    BY <1>1, <2>1, WorkerNames, PoppedFacts
  <2>3. HeldBy(w["image"]) = {}
    BY <1>1, <2>1, WorkerNames, PoppedFacts, "image" \in {"background", "image"}
  <2>4. \A y \in Workers \ {"image"} : w[y] = workers[y]
    BY <1>1, <2>1, WorkerNames, PoppedFacts
  <2> HIDE DEF w
  <2> QED
    BY <2>2, <2>3, <2>4, WorkerNames
<1> HIDE DEF p, w
<1>6. CASE photos' = photos /\ workers' = w
  <2>1. FetchInv(photos', workers')
    BY <1>1, <1>5, <1>6 DEF FetchInv
  <2> QED
    BY <1>1, <1>3, <1>5, <1>6, <2>1 DEF EnrichmentInv
<1>7. CASE /\ {r.request} = photos.wanted /\ r.request.gen = meta.generation
           /\ SelectedArtist(meta) = {r.request.artist}
           /\ photos' = ImageStarted(p) /\ workers' = ImageRequested(w, p)
  <2>1. r.request \in photos.wanted /\ HeldBy(w["background"]) = {}
    BY <1>1, <1>5, <1>7 DEF FetchInv
  <2>2. r.request.gen \in Generations /\ r.request.artist \in Artists
    BY <1>1, <1>7, SelectedFacts DEF MetaInv, Metadata
  <2>3. r.answer \in Answers("image", r.request)
    BY <1>1, <1>2, WorkerNames DEF ThreadsInv, ThreadInv
  <2>4. /\ PhotoShape(p) /\ Len(p.kept) <= MaxImages /\ p.request = photos.request
        /\ \A i \in 1..Len(p.kept) : \/ i \in 1..Len(photos.kept) /\ p.kept[i] = photos.kept[i]
                                     \/ p.kept[i].gen = r.request.gen /\ p.kept[i].artist = r.request.artist
    BY <1>1, <2>1, <2>2, <2>3, KeptFacts DEF p
  <2>5. One(p.request) /\ \A q \in p.request : q = [gen |-> q.gen, artist |-> q.artist]
    BY <1>1, <2>4 DEF PhotoInv
  <2>6. p.request = {[gen |-> r.request.gen, artist |-> r.request.artist]}
    BY <1>1, <2>1, <2>4 DEF PhotoInv
  <2>7. \A i \in 1..Len(p.kept) : p.request = {[gen |-> p.kept[i].gen, artist |-> p.kept[i].artist]}
    BY <1>1, <2>4, <2>6 DEF PhotoInv
  <2>8. KeptAreOf(meta, p)
    BY <1>1, <1>7, <2>4 DEF KeptAreOf
  <2>9. /\ PhotoInv(ImageStarted(p)) /\ ImageStarted(p).request = p.request /\ KeptAreOf(meta, ImageStarted(p))
        /\ ThreadsInv(ImageRequested(w, p)) /\ FetchInv(ImageStarted(p), ImageRequested(w, p))
        /\ ImageRequested(w, p)["metadata"] = w["metadata"]
    BY <1>5, <2>1, <2>4, <2>5, <2>7, <2>8, SearchFacts
  <2> QED
    BY <1>1, <1>3, <1>5, <1>7, <2>4, <2>9 DEF EnrichmentInv
<1> QED
  BY <1>4, <1>6, <1>7

\* Between the cover and the photographs the background request follows the
\* selection.
LEMMA NextStageKeeps == ASSUME EnrichmentInv, NextStage PROVE EnrichmentInv'
<1>1. /\ UNCHANGED <<meta, policy>> /\ at' \in Workers \cup {"idle"}
      /\ SyncBackground(meta, workers) \/ UNCHANGED <<photos, workers>>
  BY DEF NextStage, Workers
<1>2. CASE SyncBackground(meta, workers)
  <2>1. /\ MetaInv(meta) /\ ThreadsInv(workers) /\ LookupInv(meta, workers["metadata"])
        /\ PhotoInv(photos) /\ FetchInv(photos, workers) /\ policy \in BOOLEAN
    BY DEF EnrichmentInv
  <2>2. /\ PhotoInv(photos') /\ KeptAreOf(meta, photos') /\ ThreadsInv(workers') /\ FetchInv(photos', workers')
        /\ ~policy => photos'.request = {}
        /\ workers'["metadata"] = workers["metadata"]
    BY <1>2, <2>1, SyncFacts
  <2> QED
    BY <1>1, <2>1, <2>2 DEF EnrichmentInv
<1>3. CASE UNCHANGED <<photos, workers>>
  BY <1>1, <1>3 DEF EnrichmentInv
<1> QED
  BY <1>1, <1>2, <1>3

-----------------------------------------------------------------------------
(* What follows.                                                           *)

\* Nothing is known, kept or asked for at first.
LEMMA EnrichmentStarts == ASSUME Init PROVE EnrichmentInv
<1>1. /\ meta = NoMetadata /\ photos = NoPhotos /\ policy \in BOOLEAN
      /\ workers = [x \in Workers |-> IdleWorker] /\ at = "idle"
  BY DEF Init
<1>2. /\ NoSnapshot \in Snapshots /\ NoSnapshot.status = "not_requested" /\ NoSnapshot.of = {} /\ NoSnapshot.selected = 0
      /\ NoSnapshot.artwork = "not_requested" /\ NoSnapshot.coverOf = {}
  BY DEF NoSnapshot, Snapshots, Statuses
<1>3. /\ NoMetadata \in Metadata /\ NoMetadata.toc = {} /\ NoMetadata.snapshot = NoSnapshot
  BY <1>2, EnrichmentConstants DEF NoMetadata, Metadata, Generations
<1>4. MetaInv(meta)
  BY <1>1, <1>2, <1>3, OneFacts DEF MetaInv
<1>5. \A x \in Workers : workers[x] = IdleWorker
  BY <1>1
<1>6. /\ IdleWorker.pending = {} /\ IdleWorker.running = {} /\ IdleWorker.result = {} /\ ~IdleWorker.void
      /\ WorkerShape(IdleWorker)
  BY DEF IdleWorker, WorkerShape
<1>7. \A x \in Workers : ThreadInv(IdleWorker, x)
  BY <1>6, OneFacts DEF ThreadInv, OneAtATime
<1>8. ThreadsInv(workers)
  BY <1>1, <1>5, <1>7 DEF ThreadsInv
<1>9. HeldBy(IdleWorker) = {} /\ LookupInv(meta, IdleWorker)
  BY <1>6 DEF HeldBy, LookupInv, Now, ResultsOf
<1>10. LookupInv(meta, workers["metadata"]) /\ FetchInv(photos, workers)
  BY <1>5, <1>9, WorkerNames DEF FetchInv
<1> QED
  BY <1>1, <1>4, <1>8, <1>10, NoPhotosFacts DEF EnrichmentInv

\* Every step keeps the invariant.
LEMMA EnrichmentStep == ASSUME EnrichmentInv, [Next]_vars PROVE EnrichmentInv'
<1>1. CASE Calls
  BY <1>1, CallsKeep
<1>2. CASE BeginPoll
  BY <1>2, WorkerNames DEF BeginPoll, EnrichmentInv
<1>3. CASE PollMetadata
  BY <1>3, PollMetadataKeeps
<1>4. CASE PollArtwork
  BY <1>4, PollArtworkKeeps
<1>5. CASE PollBackground
  BY <1>5, PollBackgroundKeeps
<1>6. CASE PollImage
  BY <1>6, PollImageKeeps
<1>7. CASE NextStage
  BY <1>7, NextStageKeeps
<1>8. ASSUME NEW x \in Workers, TakeRequest(x) \/ LookUp(x) PROVE EnrichmentInv'
  BY <1>8, ThreadsKeep
<1>9. CASE UNCHANGED vars
  BY <1>9 DEF vars, EnrichmentInv
<1> QED
  BY <1>1, <1>2, <1>3, <1>4, <1>5, <1>6, <1>7, <1>8, <1>9 DEF Next, Polling

\* The invariant holds of every behaviour.
LEMMA EnrichmentInvariant == Spec => []EnrichmentInv
<1>1. Init => EnrichmentInv
  BY EnrichmentStarts
<1>2. EnrichmentInv /\ [Next]_vars => EnrichmentInv'
  BY EnrichmentStep
<1> QED
  BY <1>1, <1>2, PTL DEF Spec

\* The invariant says what is promised.
LEMMA EnrichmentImplies == ASSUME EnrichmentInv PROVE EnrichmentIsOfDisc
<1>1. /\ MetaInv(meta) /\ ThreadsInv(workers) /\ PhotoInv(photos) /\ KeptAreOf(meta, photos) /\ FetchInv(photos, workers)
      /\ (~policy => photos.request = {}) /\ policy \in BOOLEAN /\ at \in Workers \cup {"idle"}
  BY DEF EnrichmentInv
<1>2. \A x \in Workers : One(workers[x].pending) /\ One(workers[x].running) /\ One(workers[x].result)
  BY <1>1 DEF ThreadsInv, ThreadInv
<1>3. One(meta.toc) /\ One(photos.request) /\ One(photos.wanted)
  BY <1>1 DEF MetaInv, PhotoInv
<1>4. \A S : One(S) => AtMostOne(S)
  BY OneFacts
<1>5. TypeOK
  <2>1. /\ meta.generation \in 0..MaxGeneration /\ meta.toc \subseteq Discs
        /\ Snapshot.status \in Statuses /\ (Snapshot.status = "available" <=> Snapshot.selected # 0)
    BY <1>1 DEF MetaInv, Metadata, Snapshots, Generations, Snapshot
  <2> QED
    BY <1>1, <1>2, <1>3, <1>4, <2>1 DEF TypeOK, Statuses
<1>6. ShownIsOfDisc
  BY <1>1 DEF MetaInv, ShownIsOfDisc, Snapshot
<1>7. PhotosAreCurrent
  <2> SUFFICES ASSUME NEW i \in 1..Len(photos.kept)
               PROVE  /\ policy /\ photos.kept[i].gen = meta.generation
                      /\ SelectedArtist(meta) = {photos.kept[i].artist}
    BY DEF PhotosAreCurrent
  <2>1. photos.request # {}
    BY ZenonT(30), <1>1 DEF PhotoInv
  <2> QED
    BY <1>1, <2>1 DEF KeptAreOf
<1>8. FetchesAreWanted
  <2>1. ~policy => photos.request = {} /\ photos.wanted = {}
    BY <1>1 DEF PhotoInv
  <2> QED
    BY <1>1, <2>1 DEF FetchesAreWanted, FetchInv, HeldBy
<1>9. PhotosWithinLimits
  BY <1>1, EnrichmentConstants DEF PhotoInv, PhotoShape, PhotosWithinLimits
<1> QED
  BY <1>5, <1>6, <1>7, <1>8, <1>9 DEF EnrichmentIsOfDisc, PhotosAreWanted

\* Nothing is shown, kept or fetched for another disc, release or artist than
\* those of the moment, however late the threads answer.
THEOREM EnrichmentIsOfDiscAlways == Spec => []EnrichmentIsOfDisc
<1>1. EnrichmentInv => EnrichmentIsOfDisc
  BY EnrichmentImplies
<1> QED
  BY <1>1, EnrichmentInvariant, PTL

\* No late result of a lookup takes the user's choice back.
THEOREM ChoiceLastsAlways == Spec => ChoiceLasts
<1> DEFINE Kept1 == meta'.generation = meta.generation /\ Snapshot.of # {} /\ at # "idle"
                    => /\ Snapshot'.of = Snapshot.of
                       /\ Snapshot'.selected = Snapshot.selected
                       /\ Snapshot'.status = Snapshot.status
<1>1. ASSUME EnrichmentInv, [Next]_vars PROVE [Kept1]_vars
  <2> SUFFICES ASSUME Snapshot.of # {}, at # "idle"
               PROVE  /\ Snapshot'.of = Snapshot.of
                      /\ Snapshot'.selected = Snapshot.selected
                      /\ Snapshot'.status = Snapshot.status
    OBVIOUS
  <2>1. CASE UNCHANGED meta
    BY <2>1 DEF Snapshot
  <2>2. CASE PollMetadata
    <3>1. PICK r \in workers["metadata"].result :
             meta' = IF Applies(meta, r) THEN [meta EXCEPT !.snapshot = Applied(r)] ELSE meta
      BY <2>2 DEF PollMetadata
    <3>2. ~Applies(meta, r)
      <4>1. r.request \in ResultsOf(workers["metadata"])
        BY DEF ResultsOf
      <4>2. meta.snapshot.status # "loading"
        BY <1>1 DEF EnrichmentInv, MetaInv, Snapshot
      <4> QED
        BY <1>1, <4>1, <4>2 DEF EnrichmentInv, LookupInv, Applies
    <3> QED
      BY <3>1, <3>2 DEF Snapshot
  <2>3. CASE PollArtwork
    <3>1. PICK r \in workers["artwork"].result :
             meta' = IF CoverApplies(meta, r)
                     THEN [meta EXCEPT !.snapshot.artwork = r.answer, !.snapshot.coverOf = {r.request.release}]
                     ELSE meta
      BY <2>3 DEF PollArtwork
    <3>2. meta \in Metadata
      BY <1>1 DEF EnrichmentInv, MetaInv
    <3> QED
      BY <3>1, <3>2 DEF Snapshot, Metadata, Snapshots
  <2> QED
    BY <1>1, <2>1, <2>2, <2>3
       DEF Next, Calls, Polling, BeginPoll, PollBackground, PollImage, NextStage, TakeRequest, LookUp, vars
<1>2. EnrichmentInv /\ [Next]_vars => [Kept1]_vars
  BY <1>1
<1> QED
  BY <1>2, EnrichmentInvariant, PTL DEF Spec, ChoiceLasts
=============================================================================
