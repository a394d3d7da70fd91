--------------------------- MODULE MCDaemonThreads ---------------------------
(***************************************************************************)
(* Four parts of the daemon that work beside the session and share no      *)
(* state, checked in one run: the lookups, the diagnostics publisher, the  *)
(* logger and the HDMI adapter.  A behaviour is a behaviour of one of      *)
(* them, and the others do not begin.                                      *)
(***************************************************************************)
EXTENDS Enrichment, ReadDiagnosticsPublisher, AsyncLogger, CecDevice, TLC
CONSTANTS d1, d2, a1, a2, i1, i2, i3, i4

VARIABLE part

\* Two releases by different artists for one disc, one without any for the other.
MCArtistsOf == d1 :> <<a1, a2>> @@ d2 :> <<NoArtist>>
\* Photographs offered twice, and more than may be considered.
MCImagesOf == a1 :> <<i1, i1, i2, i3, i4>> @@ a2 :> <<i4>>

threadsVars == <<part, vars, publisherVars, loggerVars, cecVars>>

\* Those that do not begin are in one of their initial states.
ThreadsInit ==
    /\ part \in {"lookups", "publisher", "logger", "cec"}
    /\ Init /\ PublisherInit /\ LoggerInit /\ CecInit
    /\ part # "lookups" => policy = FALSE
    /\ part # "publisher" => asking = CHOOSE context \in DiagnosticContexts : TRUE
    /\ part # "cec" => adapter.physical = Unplugged /\ adapter.config = "none"

ThreadsNext ==
    /\ UNCHANGED part
    /\ \/ part = "lookups" /\ Next /\ UNCHANGED <<publisherVars, loggerVars, cecVars>>
       \/ part = "publisher" /\ PublisherNext /\ UNCHANGED <<vars, loggerVars, cecVars>>
       \/ part = "logger" /\ LoggerNext /\ UNCHANGED <<vars, publisherVars, cecVars>>
       \/ part = "cec" /\ CecNext /\ UNCHANGED <<vars, publisherVars, loggerVars>>

\* The fairness of each part, for the part that began.
ThreadsFairness ==
    /\ WF_vars(part = "lookups" /\ Polling)
    /\ \A x \in Workers : /\ WF_vars(part = "lookups" /\ TakeRequest(x))
                          /\ WF_vars(part = "lookups" /\ LookUp(x))
    /\ WF_publisherVars(part = "publisher" /\ PublisherWorker)
    /\ \A kind \in Kinds : /\ WF_publisherVars(part = "publisher" /\ IntervalPasses(kind))
                           /\ WF_publisherVars(part = "publisher" /\ RequestBody(kind))
    /\ WF_loggerVars(part = "logger" /\ LogWriter)
    /\ WF_cecVars(part = "cec" /\ ReadPhysical)
    /\ WF_cecVars(part = "cec" /\ ReadLogical)
    /\ WF_cecVars(part = "cec" /\ ReceiveMessage)
    /\ WF_cecVars(part = "cec" /\ ClaimAddress)

ThreadsSpec == ThreadsInit /\ [][ThreadsNext]_threadsVars /\ ThreadsFairness
=============================================================================
