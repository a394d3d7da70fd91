------------------------------ MODULE ApiServer ------------------------------
(***************************************************************************)
(* ApiServer: the callbacks of libwebsockets, run by the session thread,   *)
(* for connections that load images, read diagnostics, post commands or    *)
(* listen for events and for navigation; and what the session publishes to *)
(* them.  The maps of the server are keyed by connection.  The library may *)
(* buffer what could not be sent, closes a connection in two steps, and    *)
(* calls back a connection that asked to write, or that is told to.        *)
(***************************************************************************)
EXTENDS Naturals, Sequences, FiniteSets

CONSTANTS
    Conns,          \* connections
    MaxImages,      \* images that are under way together
    MaxReserved,    \* what the images may reserve together
    MaxDiagnostics, \* diagnostic bodies that are under way together
    MaxNavigation,  \* keys that wait for a listener
    Chunks,         \* chunks of a body
    MaxFacts,       \* bound: changes of what the session presents
    MaxKeys         \* bound: keys that the remote control sends

\* What an image reserves, whatever its size.
Reservation == [background |-> 2, cover |-> 1]
ImageKinds == DOMAIN Reservation

ASSUME ApiConstants ==
    /\ Conns # {} /\ IsFiniteSet(Conns) /\ MaxReserved \in Nat
    /\ Chunks \in Nat \ {0} /\ MaxNavigation \in Nat \ {0}
    /\ {MaxImages, MaxDiagnostics, MaxFacts, MaxKeys} \subseteq Nat

VARIABLES
    conn,     \* a connection: what it is, whether it will be called back to write,
              \* and, of what the library has buffered, whether it is of an image
    image,    \* image_responses: none, or the image under way, and its timer
    reserved, \* reserved_bytes
    reading,  \* diagnostic_bodies: the chunks that are left
    posting,  \* pending_requests
    listener, \* websocket_clients: what each was sent last
    keys,     \* navigation_clients: what waits for each
    presented \* the facts, api_state_json, websocket_state and the last key

apiVars == <<conn, image, reserved, reading, posting, listener, keys, presented>>

None == {}
Never == MaxFacts + 1 \* what a new listener was sent last: more than any state
NoConn == [at |-> "none", wants |-> FALSE, buffered |-> "nothing"]

ApiInit ==
    /\ conn = [c \in Conns |-> NoConn]
    /\ image = [c \in Conns |-> None] /\ reserved = 0
    /\ reading = [c \in Conns |-> 0]
    /\ posting = {}
    /\ listener = [c \in Conns |-> None]
    /\ keys = [c \in Conns |-> None]
    /\ presented = [facts |-> 0, state |-> 0, sent |-> 0, key |-> 0,
                  published |-> ImageKinds]

-----------------------------------------------------------------------------
\* What the library may make of a write: all is sent, or a part is buffered.
MayBuffer(what) == {"nothing", what}

Asks(c) == [conn EXCEPT ![c].wants = TRUE]
CallsBack(c, wants, buffered) == [conn EXCEPT ![c].wants = wants, ![c].buffered = buffered]

\* A callback returns -1: the connection will be closed.
Closing(c) == [conn EXCEPT ![c].at = "closing", ![c].wants = FALSE]

Images == {c \in Conns : image[c] # None}
The(set) == CHOOSE x \in set : TRUE

\* release_image()
Released(c) ==
    /\ image' = [image EXCEPT ![c] = None]
    /\ reserved' = IF image[c] = None THEN reserved
                   ELSE reserved - Reservation[The(image[c]).kind]

\* Mutant: an image that is aborted gives back what it reserved.
AbortReleases(c) == Released(c) /\ conn' = Closing(c)

\* abort_image(): the body goes, what is reserved stays until the connection
\* is closed.
Abort(c) ==
    /\ image' = [image EXCEPT ![c] = {[i EXCEPT !.left = 0, !.closing = TRUE] : i \in @}]
    /\ conn' = Closing(c)
    /\ UNCHANGED reserved

-----------------------------------------------------------------------------
(* Requests.  A connection may make another one after a response.          *)

Connect(c) ==
    /\ conn[c] = NoConn
    /\ conn' = [conn EXCEPT ![c].at = "http"]
    /\ UNCHANGED <<image, reserved, reading, posting, listener, keys, presented>>

IsIdle(c) == conn[c].at = "http" /\ image[c] = None /\ reading[c] = 0 /\ c \notin posting

\* A small response is sent at once: also an error, and 503 where there is no
\* room.
Respond(c) ==
    /\ IsIdle(c)
    /\ conn' \in {CallsBack(c, conn[c].wants, b) : b \in MayBuffer("response")} \cup {Closing(c)}
    /\ UNCHANGED <<image, reserved, reading, posting, listener, keys, presented>>

Admitted(kind) ==
    Cardinality(Images) < MaxImages /\ reserved + Reservation[kind] <= MaxReserved

\* respond() to the GET of an image that is published and for which there is
\* room: its body is taken and kept, and its timer set.
GetImage(c, kind) ==
    /\ IsIdle(c) /\ kind \in presented.published /\ Admitted(kind)
    /\ image' = [image EXCEPT ![c] = {[kind |-> kind, valid |-> TRUE, left |-> Chunks,
                                       headers |-> FALSE, closing |-> FALSE]}]
    /\ reserved' = reserved + Reservation[kind]
    /\ conn' = Asks(c)
    /\ UNCHANGED <<reading, posting, listener, keys, presented>>

GetDiagnostics(c) ==
    /\ IsIdle(c) /\ Cardinality({d \in Conns : reading[d] > 0}) < MaxDiagnostics
    /\ reading' = [reading EXCEPT ![c] = Chunks]
    /\ conn' = Asks(c)
    /\ UNCHANGED <<image, reserved, posting, listener, keys, presented>>

PostCommand(c) ==
    /\ IsIdle(c)
    /\ posting' = posting \cup {c}
    /\ UNCHANGED <<conn, image, reserved, reading, listener, keys, presented>>

UpgradeConnection(c) ==
    /\ IsIdle(c) /\ conn[c].buffered = "nothing"
    /\ \/ /\ conn' = [Asks(c) EXCEPT ![c].at = "listening"]
          /\ listener' = [listener EXCEPT ![c] = {Never}]
          /\ UNCHANGED keys
       \/ /\ conn' = [conn EXCEPT ![c].at = "listening"]
          /\ keys' = [keys EXCEPT ![c] = {<<>>}]
          /\ UNCHANGED listener
    /\ UNCHANGED <<image, reserved, reading, posting, presented>>

-----------------------------------------------------------------------------
(* Callbacks.                                                              *)

\* Mutant: an image is done when its last chunk was written.
DoneWhenWritten(c) == The(image[c]).headers /\ The(image[c]).left = 0

\* An image is done when its last chunk was written and nothing is buffered.
Drained(c) == The(image[c]).headers /\ The(image[c]).left = 0 /\ conn[c].buffered = "nothing"

\* write_image(): an image that was revoked, is late, or cannot be written is
\* aborted; what is buffered is waited for; else its headers or a chunk go out.
WriteImage(c) ==
    LET i == The(image[c])
        next == IF i.headers THEN [i EXCEPT !.left = @ - 1] ELSE [i EXCEPT !.headers = TRUE]
    IN \/ Abort(c)
       \/ /\ ~i.closing /\ i.valid
          /\ \/ /\ Drained(c)
                /\ Released(c)
                /\ conn' \in {CallsBack(c, FALSE, conn[c].buffered), Closing(c)}
             \/ /\ ~Drained(c) /\ conn[c].buffered # "nothing"
                /\ conn' = Asks(c)
                /\ UNCHANGED <<image, reserved>>
             \/ /\ ~Drained(c) /\ conn[c].buffered = "nothing"
                /\ image' = [image EXCEPT ![c] = {next}]
                /\ conn' \in {CallsBack(c, TRUE, b) : b \in MayBuffer("image")}
                /\ UNCHANGED reserved

WriteDiagnostic(c) ==
    /\ reading' = [reading EXCEPT ![c] = @ - 1]
    /\ conn' \in {CallsBack(c, reading[c] > 1, b) : b \in MayBuffer("response")}

\* A listener gets the state, unless it was sent already.
WriteState(c) ==
    /\ listener' = [listener EXCEPT ![c] = {presented.sent}]
    /\ conn' \in {CallsBack(c, FALSE, b) :
                    b \in IF listener[c] = {presented.sent} THEN {conn[c].buffered}
                          ELSE MayBuffer("response")}

WriteKey(c) ==
    LET waiting == The(keys[c])
    IN IF waiting = <<>> THEN conn' = CallsBack(c, FALSE, conn[c].buffered) /\ UNCHANGED keys
       ELSE /\ keys' = [keys EXCEPT ![c] = {Tail(waiting)}]
            /\ conn' \in {CallsBack(c, Len(waiting) > 1, b) : b \in MayBuffer("response")}

\* A connection is called back to write; a listener only when nothing is
\* buffered, another one perhaps before.
Writable(c) ==
    /\ conn[c].wants
    /\ UNCHANGED <<posting, presented>>
    /\ \/ image[c] # None /\ WriteImage(c) /\ UNCHANGED <<reading, listener, keys>>
       \/ /\ image[c] = None /\ conn[c].at = "http"
          /\ UNCHANGED <<image, reserved, listener, keys>>
          /\ IF reading[c] > 0 THEN conn[c].buffered = "nothing" /\ WriteDiagnostic(c)
             ELSE conn' = CallsBack(c, FALSE, conn[c].buffered) /\ UNCHANGED reading
       \/ /\ conn[c].at = "listening" /\ conn[c].buffered = "nothing"
          /\ UNCHANGED <<image, reserved, reading>>
          /\ IF listener[c] # None THEN WriteState(c) /\ UNCHANGED keys
             ELSE WriteKey(c) /\ UNCHANGED listener

\* The timer of an image, set to its deadline.
Timer(c) ==
    /\ image[c] # None /\ ~The(image[c]).closing
    /\ Abort(c)
    /\ UNCHANGED <<reading, posting, listener, keys, presented>>

\* The body of a command is complete.
CompleteBody(c) ==
    /\ c \in posting /\ conn[c].at = "http"
    /\ posting' = posting \ {c}
    /\ conn' \in {CallsBack(c, conn[c].wants, b) : b \in MayBuffer("response")} \cup {Closing(c)}
    /\ UNCHANGED <<image, reserved, reading, listener, keys, presented>>

(* The library.                                                            *)

Drain(c) ==
    /\ conn[c].buffered # "nothing"
    /\ conn' = [conn EXCEPT ![c].buffered = "nothing"]
    /\ UNCHANGED <<image, reserved, reading, posting, listener, keys, presented>>

\* The peer goes, or a write of another kind of response fails.
Hangup(c) ==
    /\ conn[c].at \in {"http", "listening"}
    /\ conn' = Closing(c)
    /\ UNCHANGED <<image, reserved, reading, posting, listener, keys, presented>>

\* CLOSED_HTTP, or CLOSED of a listener: nothing is left of the connection.
Closed(c) ==
    /\ conn[c].at = "closing"
    /\ conn' = [conn EXCEPT ![c] = NoConn]
    /\ IF listener[c] = None /\ keys[c] = None
       THEN /\ Released(c) /\ posting' = posting \ {c} /\ reading' = [reading EXCEPT ![c] = 0]
            /\ UNCHANGED <<listener, keys>>
       ELSE /\ listener' = [listener EXCEPT ![c] = None] /\ keys' = [keys EXCEPT ![c] = None]
            /\ UNCHANGED <<image, reserved, posting, reading>>
    /\ UNCHANGED presented

-----------------------------------------------------------------------------
(* The session.                                                            *)

\* What there is to present changes.
FactsChange ==
    /\ presented.facts < MaxFacts
    /\ presented' = [presented EXCEPT !.facts = @ + 1]
    /\ UNCHANGED <<conn, image, reserved, reading, posting, listener, keys>>

\* Images are no longer published, or are again.  Another background has
\* another path; any cover has the same.
ImagesChange(kind) ==
    /\ presented' = [presented EXCEPT !.published = IF kind \in @ THEN @ \ {kind} ELSE @ \cup {kind}]
    /\ image' = [c \in Conns |->
                   {IF i.kind # kind THEN i
                    ELSE [i EXCEPT !.valid = kind = "cover" /\ kind \in presented'.published] :
                      i \in image[c]}]
    /\ UNCHANGED <<conn, reserved, reading, posting, listener, keys>>

\* Mutant: a snapshot that is taken is not always published.
SnapshotOnly ==
    /\ presented.facts # presented.state
    /\ presented' \in {[presented EXCEPT !.state = presented.facts, !.sent = s] :
                         s \in {presented.sent, presented.facts}}
    /\ conn' = [c \in Conns |-> [conn[c] EXCEPT !.wants = conn[c].at \in {"http", "listening"}]]
    /\ UNCHANGED <<image, reserved, reading, posting, listener, keys>>

\* publish_api_snapshot() and publish_state(), every 250 ms and in a command:
\* a snapshot that differs from the last one is published to all connections.
PublishSnapshot ==
    /\ presented.facts # presented.state
    /\ presented' = [presented EXCEPT !.state = presented.facts, !.sent = presented.facts]
    /\ conn' = [c \in Conns |-> [conn[c] EXCEPT !.wants = conn[c].at \in {"http", "listening"}]]
    /\ UNCHANGED <<image, reserved, reading, posting, listener, keys>>

\* The oldest key goes where too many wait.
Queued(waiting, key) ==
    Append(IF Len(waiting) = MaxNavigation THEN Tail(waiting) ELSE waiting, key)

\* publish_navigation()
PublishNavigation ==
    /\ presented.key < MaxKeys
    /\ presented' = [presented EXCEPT !.key = @ + 1]
    /\ keys' = [c \in Conns |-> {Queued(w, presented'.key) : w \in keys[c]}]
    /\ conn' = [c \in Conns |->
                  [conn[c] EXCEPT !.wants = @ \/ (keys[c] # None /\ conn[c].at = "listening")]]
    /\ UNCHANGED <<image, reserved, reading, posting, listener>>

ApiRequest(c) ==
    \/ Connect(c) \/ Respond(c) \/ GetDiagnostics(c) \/ PostCommand(c) \/ UpgradeConnection(c)
    \/ \E kind \in ImageKinds : GetImage(c, kind)

ApiNext ==
    \/ FactsChange \/ PublishSnapshot \/ PublishNavigation
    \/ \E kind \in ImageKinds : ImagesChange(kind)
    \/ \E c \in Conns :
         \/ ApiRequest(c) \/ Writable(c) \/ Timer(c) \/ CompleteBody(c)
         \/ Drain(c) \/ Hangup(c) \/ Closed(c)

\* The session thread publishes and serves the library, which fires the timers
\* and closes what is to be closed; a peer need not read.
ApiFairness ==
    /\ WF_apiVars(PublishSnapshot)
    /\ \A c \in Conns : /\ WF_apiVars(Writable(c)) /\ WF_apiVars(Timer(c))
                        /\ WF_apiVars(Closed(c))

ApiSpec == ApiInit /\ [][ApiNext]_apiVars /\ ApiFairness

-----------------------------------------------------------------------------
ApiType ==
    /\ \A c \in Conns : conn[c].at \in {"none", "http", "listening", "closing"}
    /\ reserved \in 0..MaxReserved

ImagesOf(kind) == {c \in Conns : \E i \in image[c] : i.kind = kind}

\* What the images reserve is what the images under way reserve, within its
\* bound, and all that the server or the library holds of an image is reserved,
\* whichever way an image ends: sent, revoked, late, failed or hung up on.
ImagesAreReserved ==
    /\ reserved = Reservation.background * Cardinality(ImagesOf("background"))
                    + Reservation.cover * Cardinality(ImagesOf("cover"))
    /\ Cardinality(Images) <= MaxImages
    /\ \A c \in Conns : conn[c].buffered = "image" => image[c] # None

\* Nothing is left of a connection that was closed, which the library may give
\* to the next peer.
NothingIsLeft ==
    \A c \in Conns : conn[c].at = "none" =>
      /\ image[c] = None /\ reading[c] = 0 /\ c \notin posting
      /\ listener[c] = None /\ keys[c] = None

\* A listener waits for the keys that were published last, in their order.
KeysAreRecent ==
    \A c \in Conns : \A w \in keys[c] :
      /\ Len(w) <= MaxNavigation
      /\ \A i \in DOMAIN w : w[i] = presented.key - (Len(w) - i)

ResponsesAreBounded == ApiType /\ ImagesAreReserved /\ NothingIsLeft /\ KeysAreRecent

\* Every image ends, though its peer may never read; and a listener that reads
\* gets what is presented in the end, and all the keys.
ClientsAreServed ==
    \A c \in Conns :
      /\ image[c] # None ~> image[c] = None
      /\ <>[](conn[c].at = "listening") /\ []<>(conn[c].buffered = "nothing")
           => <>[](listener[c] \in {None, {presented.facts}} /\ keys[c] \in {None, {<<>>}})
=============================================================================
