----------------------------- MODULE Enrichment -----------------------------
(***************************************************************************)
(* EnrichmentService: what the daemon looks up on the network for the disc *)
(* it plays: the release, its cover and photographs of its artist.  The    *)
(* session thread owns the service and calls it between two passes of its  *)
(* loop; four threads look things up, each with room for one request and   *)
(* one result, and each may answer after what it was asked has passed.     *)
(* A release is a candidate <<disc, index>>; an optional value is a set    *)
(* with at most one element.                                               *)
(***************************************************************************)
EXTENDS Naturals, Sequences, FiniteSets

CONSTANTS
    Discs,          \* tables of contents
    ArtistsOf,      \* for each disc, the artists of the releases found for it
    NoArtist,       \* a release without one usable artist
    ImagesOf,       \* for each artist, the photographs offered, in their order
    Contents,       \* what a photograph may turn out to be, as its size
    MaxImages,      \* photographs kept: 3
    MaxTried,       \* photographs considered for an artist: 32
    AggregateLimit, \* bytes kept: 16 MiB
    MaxGeneration   \* bound: metadata generations

ASSUME EnrichmentConstants ==
    /\ MaxImages \in Nat \ {0} /\ MaxTried \in Nat /\ AggregateLimit \in Nat
    /\ MaxGeneration \in Nat \ {0} /\ Contents \subseteq 1..AggregateLimit
    /\ \A d \in Discs : Len(ArtistsOf[d]) > 0

VARIABLES
    meta,     \* MetadataSession: generation, disc, status, selection, cover
    photos,   \* the background request and the photographs kept for it
    policy,   \* ArtistBackgroundPolicy::effective()
    workers,  \* the four threads
    at        \* where the session thread is: outside poll(), or its stage

vars == <<meta, photos, policy, workers, at>>

-----------------------------------------------------------------------------
(* The workers: one request pending, one running, one result.              *)

Workers == {"metadata", "artwork", "background", "image"}
IdleWorker == [pending |-> {}, running |-> {}, void |-> FALSE, result |-> {}]

\* Every worker but the first counts what it was asked: a lookup under way
\* when the count moves on is void, and its result is not kept.
Voids(w, x) == w[x].running # {} /\ x # "metadata"

Request(w, x, r) ==
    [w EXCEPT ![x].pending = {r}, ![x].result = {}, ![x].void = Voids(w, x)]

CancelPending(w, x) ==
    [w EXCEPT ![x].pending = {}, ![x].result = {}, ![x].void = Voids(w, x)]

Popped(w, x) == [w EXCEPT ![x].result = {}]

Answers(x, r) ==
    CASE x = "metadata"   -> {"found", "not_found", "error"}
      [] x = "artwork"    -> {"available", "error"}
      [] x = "background" -> {<<>>, ImagesOf[r.artist]}
      [] x = "image"      -> {{}} \cup {{c} : c \in Contents}

TakeRequest(x) ==
    /\ workers[x].running = {} /\ workers[x].pending # {}
    /\ workers' = [workers EXCEPT ![x].running = workers[x].pending, ![x].pending = {}]
    /\ UNCHANGED <<meta, photos, policy, at>>

LookUp(x) ==
    /\ \E r \in workers[x].running : \E a \in Answers(x, r) :
         workers' = [workers EXCEPT ![x].running = {}, ![x].void = FALSE,
                                    ![x].result = IF workers[x].void THEN @
                                                  ELSE {[request |-> r, answer |-> a]}]
    /\ UNCHANGED <<meta, photos, policy, at>>

-----------------------------------------------------------------------------
(* The metadata session.                                                   *)

\* of: the disc whose lookup was applied; coverOf: the release whose cover was.
NoSnapshot == [status |-> "not_requested", of |-> {}, selected |-> 0,
               artwork |-> "not_requested", coverOf |-> {}]
NoMetadata == [generation |-> 0, toc |-> {}, snapshot |-> NoSnapshot]

Snapshot == meta.snapshot
Candidates(m) == UNION {{<<d, i>> : i \in 1..Len(ArtistsOf[d])} : d \in m.snapshot.of}
Selected(m) == {c \in Candidates(m) : c[2] = m.snapshot.selected}
SelectedArtist(m) == {ArtistsOf[c[1]][c[2]] : c \in Selected(m)} \ {NoArtist}

\* What a lookup answered: one release is selected, several are offered.
Applied(r) ==
    LET d == r.request.toc
        found == r.answer = "found"
        single == found /\ Len(ArtistsOf[d]) = 1
    IN  [NoSnapshot EXCEPT
            !.status = IF single THEN "available" ELSE IF found THEN "ambiguous" ELSE r.answer,
            !.of = IF found THEN {d} ELSE {},
            !.selected = IF single THEN 1 ELSE 0]

\* Mutant: a result is matched by its disc alone.
AppliesToDisc(m, r) == {r.request.toc} = m.toc

\* apply(): the result of this generation and this disc.
Applies(m, r) == r.request.gen = m.generation /\ {r.request.toc} = m.toc

\* A selection needs several releases to choose from, of this generation.
MaySelect(m, g) ==
    g = m.generation /\ Cardinality(Candidates(m)) >= 2
    /\ m.snapshot.status \in {"ambiguous", "available"}

\* Mutant: another release is selected under the cover of the one before.
SelectUnderCover(m, i) ==
    [m EXCEPT !.snapshot.status = "available", !.snapshot.selected = i]

SelectCandidate(m, i) ==
    [m EXCEPT !.snapshot.status = "available", !.snapshot.selected = i,
              !.snapshot.artwork = "not_requested", !.snapshot.coverOf = {}]

DeclineCandidates(m) ==
    [m EXCEPT !.snapshot.status = "ambiguous", !.snapshot.selected = 0,
              !.snapshot.artwork = "not_requested", !.snapshot.coverOf = {}]

-----------------------------------------------------------------------------
(* Photographs.                                                            *)

NoPhotos == [request |-> {}, offered |-> <<>>, next |-> 0, wanted |-> {}, tried |-> {},
             kept |-> <<>>, bytes |-> 0]

\* clear_background(): both threads are cancelled, everything is dropped.
StopWorkers(w) == CancelPending(CancelPending(w, "background"), "image")

\* start_image(): the first photograph not considered yet, while there is room.
Untried(p) == {i \in (p.next + 1)..Len(p.offered) :
                 i <= MaxTried /\ p.offered[i] \notin p.tried
                 /\ \A j \in (p.next + 1)..(i - 1) : p.offered[j] # p.offered[i]}

\* Mutant: the room is judged before the last photograph counts.
RoomForMore(p) == Len(p.kept) <= MaxImages /\ p.bytes < AggregateLimit

HasRoom(p) == Len(p.kept) < MaxImages /\ p.bytes < AggregateLimit

StartsImage(p) == p.request # {} /\ HasRoom(p) /\ Untried(p) # {}

\* The candidates up to the one that is started are considered.
NextImage(p) ==
    LET last == IF Untried(p) # {}
                THEN CHOOSE i \in Untried(p) : \A j \in Untried(p) : i <= j
                ELSE IF Len(p.offered) < MaxTried THEN Len(p.offered) ELSE MaxTried
    IN  [p EXCEPT !.next = last,
                  !.tried = @ \cup {p.offered[i] : i \in (p.next + 1)..last},
                  !.wanted = {[gen |-> r.gen, artist |-> r.artist, image |-> p.offered[last]] :
                                r \in IF Untried(p) # {} THEN p.request ELSE {}}]

\* Mutant: without room it returns before the request is forgotten.
ImageStartedInRoom(p) == IF p.request = {} \/ ~HasRoom(p) THEN p ELSE NextImage(p)

ImageStarted(p) ==
    IF p.request = {} \/ ~HasRoom(p) THEN [p EXCEPT !.wanted = {}] ELSE NextImage(p)

ImageRequested(w, p) ==
    IF StartsImage(p) THEN Request(w, "image", CHOOSE r \in ImageStarted(p).wanted : TRUE) ELSE w

\* sync_background_request() wants the photographs of the selected artist.
BackgroundWanted(m) ==
    {[gen |-> m.generation, artist |-> a] : a \in IF policy THEN SelectedArtist(m) ELSE {}}

SyncsPhotos(m) == BackgroundWanted(m) = {} \/ BackgroundWanted(m) # photos.request

\* Mutant: the photographs of the artist before stay until there are others.
SyncKeepsPhotos(m, w) ==
    photos' = [photos EXCEPT !.request = BackgroundWanted(m)]
    /\ workers' = IF BackgroundWanted(m) = {} THEN StopWorkers(w)
                  ELSE Request(StopWorkers(w), "background", CHOOSE r \in BackgroundWanted(m) : TRUE)

SyncBackground(m, w) ==
    IF SyncsPhotos(m)
    THEN /\ photos' = [NoPhotos EXCEPT !.request = BackgroundWanted(m)]
         /\ workers' = IF BackgroundWanted(m) = {} THEN StopWorkers(w)
                       ELSE Request(StopWorkers(w), "background",
                                    CHOOSE r \in BackgroundWanted(m) : TRUE)
    ELSE photos' = photos /\ workers' = w

-----------------------------------------------------------------------------
(* What the session asks of the service.                                   *)

\* begin_if_needed(): a table of contents was read.
BeginIfNeeded(d) ==
    /\ meta.toc # {d} /\ meta.generation < MaxGeneration
    /\ meta' = [generation |-> meta.generation + 1, toc |-> {d},
                snapshot |-> [NoSnapshot EXCEPT !.status = "loading"]]
    /\ photos' = NoPhotos
    /\ workers' = Request(CancelPending(StopWorkers(workers), "artwork"),
                          "metadata", [gen |-> meta.generation + 1, toc |-> d])
    /\ UNCHANGED policy

Invalidated(m) == [NoMetadata EXCEPT !.generation = m.generation + 1]

\* invalidate(): the disc or the device has gone, or an eject was accepted.
Invalidate ==
    /\ meta.generation < MaxGeneration
    /\ meta' = Invalidated(meta)
    /\ photos' = NoPhotos
    /\ workers' = CancelPending(CancelPending(StopWorkers(workers), "metadata"), "artwork")
    /\ UNCHANGED policy

\* The user selects a release of the list of generation g.
Select(g, i) ==
    /\ MaySelect(meta, g) /\ i \in {c[2] : c \in Candidates(meta)}
    /\ ~(Snapshot.selected = i /\ Snapshot.status = "available")
    /\ meta' = SelectCandidate(meta, i)
    /\ \E c \in Selected(meta') :
         SyncBackground(meta', Request(workers, "artwork", [gen |-> g, release |-> c]))
    /\ UNCHANGED policy

Decline(g) ==
    /\ MaySelect(meta, g)
    /\ meta' = DeclineCandidates(meta)
    /\ photos' = NoPhotos
    /\ workers' = StopWorkers(CancelPending(workers, "artwork"))
    /\ UNCHANGED policy

\* The user switches photographs off, or on: they are asked for in poll().
SwitchOff ==
    /\ policy' = FALSE
    /\ photos' = NoPhotos
    /\ workers' = StopWorkers(workers)
    /\ UNCHANGED meta

SwitchOn == policy' = TRUE /\ UNCHANGED <<meta, photos, workers>>

Calls ==
    /\ at = "idle" /\ UNCHANGED at
    /\ \/ \E d \in Discs : BeginIfNeeded(d)
       \/ Invalidate
       \/ \E g \in 0..MaxGeneration : Decline(g) \/ \E i \in 1..3 : Select(g, i)
       \/ SwitchOff \/ SwitchOn

-----------------------------------------------------------------------------
(* poll(): results are taken worker by worker, in this order.              *)

BeginPoll == at = "idle" /\ at' = "metadata" /\ UNCHANGED <<meta, photos, policy, workers>>

PollMetadata ==
    /\ at = "metadata"
    /\ \E r \in workers["metadata"].result :
         LET m == IF Applies(meta, r) THEN [meta EXCEPT !.snapshot = Applied(r)] ELSE meta
             w == Popped(workers, "metadata")
         IN  /\ meta' = m
             /\ workers' = IF Applies(meta, r) /\ Selected(m) # {}
                           THEN Request(w, "artwork", [gen |-> m.generation,
                                                       release |-> CHOOSE c \in Selected(m) : TRUE])
                           ELSE w
    /\ UNCHANGED <<photos, policy, at>>

\* apply_artwork(): still of this generation and of the selected release?
CoverApplies(m, r) == r.request.gen = m.generation /\ r.request.release \in Selected(m)

PollArtwork ==
    /\ at = "artwork"
    /\ \E r \in workers["artwork"].result :
         meta' = IF CoverApplies(meta, r)
                 THEN [meta EXCEPT !.snapshot.artwork = r.answer,
                                   !.snapshot.coverOf = {r.request.release}]
                 ELSE meta
    /\ workers' = Popped(workers, "artwork")
    /\ UNCHANGED <<photos, policy, at>>

PollBackground ==
    /\ at = "background"
    /\ \E r \in workers["background"].result :
         LET p == [photos EXCEPT !.offered = r.answer]
             w == Popped(workers, "background")
         IN  IF {r.request} = photos.request /\ SelectedArtist(meta) = {r.request.artist}
                /\ r.request.gen = meta.generation
             THEN /\ photos' = IF r.answer # <<>> THEN ImageStarted(p) ELSE p
                  /\ workers' = IF r.answer # <<>> THEN ImageRequested(w, p) ELSE w
             ELSE photos' = photos /\ workers' = w
    /\ UNCHANGED <<meta, policy, at>>

Fits(p, c) == c <= AggregateLimit - p.bytes /\ \A i \in 1..Len(p.kept) : p.kept[i].content # c

Kept(p, r) ==
    LET new == {c \in r.answer : Fits(p, c)}
    IN  IF new = {} THEN p
        ELSE [p EXCEPT !.kept = Append(@, [gen |-> r.request.gen, artist |-> r.request.artist,
                                           content |-> CHOOSE c \in new : TRUE]),
                       !.bytes = @ + CHOOSE c \in new : TRUE]

\* The next photograph is tried whether this one could be loaded or not.
PollImage ==
    /\ at = "image"
    /\ \E r \in workers["image"].result :
         LET p == Kept(photos, r)
             w == Popped(workers, "image")
         IN  IF policy /\ {r.request} = photos.wanted /\ r.request.gen = meta.generation
                /\ SelectedArtist(meta) = {r.request.artist}
             THEN photos' = ImageStarted(p) /\ workers' = ImageRequested(w, p)
             ELSE photos' = photos /\ workers' = w
    /\ UNCHANGED <<meta, policy, at>>

\* A worker without a result is left for the next one; between the cover and
\* the photographs the background request follows the selection.
NextStage ==
    /\ at \in Workers /\ workers[at].result = {}
    /\ at' = CASE at = "metadata" -> "artwork" [] at = "artwork" -> "background"
               [] at = "background" -> "image" [] at = "image" -> "idle"
    /\ IF at = "artwork" THEN SyncBackground(meta, workers) ELSE UNCHANGED <<photos, workers>>
    /\ UNCHANGED <<meta, policy>>

Polling == BeginPoll \/ PollMetadata \/ PollArtwork \/ PollBackground \/ PollImage \/ NextStage

Init ==
    /\ meta = NoMetadata /\ photos = NoPhotos /\ policy \in BOOLEAN
    /\ workers = [x \in Workers |-> IdleWorker] /\ at = "idle"

Next == Calls \/ Polling \/ \E x \in Workers : TakeRequest(x) \/ LookUp(x)

Spec == Init /\ [][Next]_vars

\* The session keeps polling, the threads run and every lookup returns: each
\* request has a timeout.
FairSpec == Spec /\ WF_vars(Polling)
                 /\ \A x \in Workers : WF_vars(TakeRequest(x)) /\ WF_vars(LookUp(x))

-----------------------------------------------------------------------------
AtMostOne(S) == Cardinality(S) <= 1

\* Every variable holds a value of its type.
TypeOK ==
    /\ meta.generation \in 0..MaxGeneration /\ meta.toc \subseteq Discs
    /\ Snapshot.status \in {"not_requested", "loading", "available", "ambiguous", "not_found", "error"}
    /\ Snapshot.status = "available" <=> Snapshot.selected # 0
    /\ policy \in BOOLEAN /\ at \in Workers \cup {"idle"}
    /\ \A x \in Workers : AtMostOne(workers[x].pending) /\ AtMostOne(workers[x].running)
                          /\ AtMostOne(workers[x].result)
    /\ AtMostOne(meta.toc) /\ AtMostOne(photos.request) /\ AtMostOne(photos.wanted)

\* What is shown is of what is there: the releases are those of the disc, and
\* the cover is that of the selected release, however late the threads answer
\* and however discs and selections change meanwhile.
ShownIsOfDisc ==
    /\ Snapshot.of \subseteq meta.toc
    /\ Snapshot.coverOf \subseteq Selected(meta)
    /\ Snapshot.artwork = "available" => Snapshot.coverOf # {}

\* The photographs kept are of the selected artist, for this generation, and
\* only while the user wants them: no other has to be withheld when they are
\* published, and a reference given out is void as soon as one of them ends.
PhotosAreCurrent ==
    \A i \in 1..Len(photos.kept) :
        /\ policy
        /\ photos.kept[i].gen = meta.generation
        /\ SelectedArtist(meta) = {photos.kept[i].artist}

\* Nothing is fetched for nothing: what the two photograph threads hold and
\* what they do, but for a lookup that was voided, is what the service waits
\* for.  Switched off, they hold nothing.
FetchesAreWanted ==
    LET Held(x) == workers[x].pending \cup {r.request : r \in workers[x].result}
                   \cup IF workers[x].void THEN {} ELSE workers[x].running
    IN  /\ Held("background") \subseteq photos.request
        /\ Held("image") \subseteq photos.wanted
        /\ ~policy => photos.request = {} /\ photos.wanted = {}

\* The photographs kept stay within the limits of their number and size.
PhotosWithinLimits ==
    /\ Len(photos.kept) <= MaxImages
    /\ photos.bytes <= AggregateLimit

\* What is kept, fetched and waited for is of the artist of the moment, and
\* within the limits.
PhotosAreWanted == PhotosAreCurrent /\ FetchesAreWanted /\ PhotosWithinLimits

\* Nothing is shown, kept or fetched for another disc, release or artist than
\* those of the moment.
EnrichmentIsOfDisc == TypeOK /\ ShownIsOfDisc /\ PhotosAreWanted

\* The user's choice lasts: within a generation, no late result of a lookup
\* takes it back; only a command of the user changes it.
ChoiceLasts ==
    [][meta'.generation = meta.generation /\ Snapshot.of # {} /\ at # "idle"
       => /\ Snapshot'.of = Snapshot.of
          /\ Snapshot'.selected = Snapshot.selected
          /\ Snapshot'.status = Snapshot.status]_vars

\* A disc whose table of contents was read is looked up: the lookup ends, or
\* the disc has gone.
DiscIsLookedUp ==
    \A d \in Discs :
        meta.toc = {d} ~> (meta.toc # {d} \/ Snapshot.status \notin {"not_requested", "loading"})

\* The selected release gets an answer about its cover, or is selected no more.
CoverIsAnswered ==
    \A d \in Discs : \A i \in 1..Len(ArtistsOf[d]) :
        Selected(meta) = {<<d, i>>}
            ~> (Selected(meta) # {<<d, i>>} \/ Snapshot.artwork # "not_requested")

\* The search for photographs comes to an end: one that cannot be loaded does
\* not keep the others from being tried.
SearchEnds == photos.wanted # {} ~> photos.wanted = {}

\* Nothing the service waits for keeps it waiting.
LookupsEnd == DiscIsLookedUp /\ CoverIsAnswered /\ SearchEnds
=============================================================================
