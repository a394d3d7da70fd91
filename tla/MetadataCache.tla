---------------------------- MODULE MetadataCache ----------------------------
(***************************************************************************)
(* The lookups of the metadata thread and of the artwork thread, and the   *)
(* directory of files that both of them cache bodies in, without a lock.   *)
(* A write makes room by removing the oldest files, removes the temporary  *)
(* files it meets (the other thread's too), writes its own and renames it. *)
(* The session may be killed, or the power may fail, at any step.          *)
(***************************************************************************)
EXTENDS Naturals, FiniteSets

CONSTANTS
    MaxTotal,    \* what the files may take together
    MaxAccidents \* bound: entries that grow old, and crashes

\* The metadata of two discs, and the JSON and the image of the cover of a release.
Files == {"disc", "other", "cover", "image"}
Size == [disc |-> 1, other |-> 1, cover |-> 1, image |-> 2]

ASSUME CacheConstants ==
    /\ MaxTotal \in Nat /\ MaxAccidents \in Nat
    /\ \A f \in Files : Size[f] <= MaxTotal

VARIABLES
    dir,      \* the entry of each file that exists: fresh, good where the parser, or the
              \* check of an image's first bytes, accepts what is in it, and the files
              \* that are older
    tmps,     \* the temporary files that exist
    lookup,   \* the lookup of each thread
    accidents \* how often an entry grew old, or the session crashed

cacheVars == <<dir, tmps, lookup, accidents>>

Lookers == {"metadata", "artwork"}
FirstFiles == [metadata |-> {"disc", "other"}, artwork |-> {"cover"}]

NoEntry == {}
TotalOf(files) == Cardinality({b \in files \X (1..2) : b[2] <= Size[b[1]]})
Stored == {f \in Files : dir[f] # NoEntry}
EntryOf(f) == dir[f]
Without(gone) ==
    [f \in Files |-> IF f \in gone THEN NoEntry ELSE {[e EXCEPT !.older = @ \ gone] : e \in dir[f]}]

\* The oldest of the files but f: none, one, two, ... of them.
Oldest(f) == {{}} \cup UNION {{(e.older \cup {g}) \ {f} : e \in dir[g]} : g \in Files \ {f}}

\* cached: read_metadata_cache() found an entry; body and via the body
\* in hand and where it is from; again: the one refetch is under way; victims
\* what make_space() listed, as the sets of the oldest of it; had and met are history variables: whether
\* that entry was good, and how the last fetch went.
NoLookup ==
    [at |-> "idle", answer |-> "none", file |-> "disc", via |-> "none", met |-> "none",
     had |-> FALSE]

Starting(f) ==
    [at |-> "reading", file |-> f, cached |-> FALSE, body |-> "none", via |-> "none",
     again |-> FALSE, victims |-> {}, had |-> FALSE, met |-> "none"]

\* An answer that is neither a failure nor old is forgotten.
Ended(l, answer) ==
    IF answer = "failed" \/ l.via = "stale"
    THEN [NoLookup EXCEPT !.answer = answer, !.file = l.file, !.via = l.via, !.met = l.met,
                      !.had = l.had]
    ELSE NoLookup

CacheInit ==
    /\ dir = [f \in Files |-> NoEntry]
    /\ tmps = {}
    /\ lookup = [t \in Lookers |-> NoLookup]
    /\ accidents = 0

Becomes(t, l) == lookup' = [lookup EXCEPT ![t] = l]

-----------------------------------------------------------------------------
(* The file of a lookup is read, fetched, or both.                         *)

BeginLookup(t) ==
    /\ lookup[t].at = "idle"
    /\ \E f \in FirstFiles[t] : Becomes(t, Starting(f))
    /\ UNCHANGED <<dir, tmps, accidents>>

\* A fresh entry saves the fetch; the image, only if its first bytes are good.
Served(f, e) == e.fresh /\ (f = "image" => e.good)

\* An image that does not save the fetch is removed before it is fetched.
RemovesImage(f, e) == f = "image" /\ ~Served(f, e)

ReadCache(t) ==
    LET l == lookup[t]
        found == EntryOf(l.file)
        serving == {e \in found : Served(l.file, e)}
        held == [l EXCEPT !.cached = found # {}, !.had = \E e \in found : e.good]
    IN /\ l.at = "reading"
       /\ Becomes(t, IF serving # {}
                     THEN [held EXCEPT !.at = "parsing", !.via = "cache",
                               !.body = IF \E e \in serving : e.good THEN "good" ELSE "bad"]
                     ELSE [held EXCEPT !.at = "fetching"])
       /\ dir' = IF \E e \in found : RemovesImage(l.file, e) THEN Without({l.file}) ELSE dir
       /\ UNCHANGED <<tmps, accidents>>

\* Mutant: a fetch that fails is a lookup that fails.
FailsWithoutFallback(l) == Ended(l, "failed")

\* A fetch that fails falls back on the entry that was found, fresh or not; an
\* image only if it is good.  The refetch of a bad body has nothing to fall
\* back on.
FallsBack(l) ==
    IF l.again \/ ~l.cached \/ (l.file = "image" /\ ~l.had) THEN Ended(l, "failed")
    ELSE [l EXCEPT !.at = "parsing", !.via = "stale",
                   !.body = IF l.had THEN "good" ELSE "bad"]

\* The network fails or the lookup is cancelled; so does an image's 404, and an
\* image whose first bytes are not good.
FetchFails(t) ==
    /\ lookup[t].at = "fetching"
    /\ Becomes(t, FallsBack([lookup[t] EXCEPT !.met = "failure"]))
    /\ UNCHANGED <<dir, tmps, accidents>>

\* There is no such cover; a disc that is not known has an empty body instead.
FetchFindsNoCover(t) ==
    /\ lookup[t].at = "fetching" /\ lookup[t].file = "cover"
    /\ Becomes(t, Ended([lookup[t] EXCEPT !.met = "success"], "unavailable"))
    /\ UNCHANGED <<dir, tmps, accidents>>

\* A body arrives, and is cached before it is parsed.
FetchSucceeds(t) ==
    /\ lookup[t].at = "fetching"
    /\ \E body \in {"good"} \cup (IF lookup[t].file = "image" THEN {} ELSE {"bad"}) :
         Becomes(t, [lookup[t] EXCEPT !.at = "scanning", !.body = body, !.via = "network",
                                      !.met = "success", !.cached = FALSE, !.had = FALSE])
    /\ UNCHANGED <<dir, tmps, accidents>>

-----------------------------------------------------------------------------
(* write_metadata_cache(): any step may fail, and the answer stands.       *)

\* make_space() lists the files, and removes the temporary ones.
Scan(t) ==
    /\ lookup[t].at = "scanning"
    /\ tmps' = {}
    /\ Becomes(t, [lookup[t] EXCEPT !.at = "evicting",
                                    !.victims = Oldest(lookup[t].file)])
    /\ UNCHANGED <<dir, accidents>>

\* Mutant: what comes in is not counted.
OverAlready(total, f) == total > MaxTotal

Over(total, f) == total + Size[f] > MaxTotal

\* The oldest of the listed files go, until what comes in fits; one that the
\* other thread removed meanwhile leaves no room.
Evicted(victims, f) ==
    LET listed == UNION victims
        Enough(gone) == ~Over(TotalOf(listed \ (gone \cap Stored)), f)
    IN  {v \in listed : \A gone \in victims : Enough(gone) => v \in gone}

Evict(t) ==
    LET l == lookup[t]
    IN /\ l.at = "evicting"
       /\ dir' = Without(Evicted(l.victims, l.file))
       /\ Becomes(t, [l EXCEPT !.at = "writing", !.victims = {}])
       /\ UNCHANGED <<tmps, accidents>>

\* The temporary file is written; where that fails, what there is of it is left.
WriteTemporary(t) ==
    LET after == tmps \cup {lookup[t].file}
    IN /\ lookup[t].at = "writing"
       /\ \/ tmps' = after /\ Becomes(t, [lookup[t] EXCEPT !.at = "renaming"])
          \/ tmps' \in {tmps, after} /\ Becomes(t, [lookup[t] EXCEPT !.at = "parsing"])
       /\ UNCHANGED <<dir, accidents>>

\* The rename fails when the other thread removed the temporary file.  What
\* could not be flushed when the file was closed is missing from it.
RenameTemporary(t) ==
    LET f == lookup[t].file
        Renamed(good) ==
          [Without({f}) EXCEPT ![f] = {[good |-> good, fresh |-> TRUE, older |-> Stored \ {f}]}]
    IN /\ lookup[t].at = "renaming"
       /\ dir' \in IF f \in tmps THEN {Renamed(lookup[t].body = "good"), Renamed(FALSE)} ELSE {dir}
       /\ tmps' = tmps \ {f}
       /\ Becomes(t, [lookup[t] EXCEPT !.at = "parsing"])
       /\ UNCHANGED accidents

-----------------------------------------------------------------------------
(* What is done with the body.                                             *)

\* Mutant: the body stays, and is read again.
ReadsAgain(t) ==
    /\ lookup[t].at = "parsing" /\ lookup[t].body = "bad"
    /\ Becomes(t, IF lookup[t].via = "network" THEN Ended(lookup[t], "failed")
                  ELSE Starting(lookup[t].file))
    /\ UNCHANGED <<dir, tmps, accidents>>

\* A body of the cache that cannot be parsed is removed and fetched once more.
ParseFails(t) ==
    LET l == lookup[t]
    IN /\ l.at = "parsing" /\ l.body = "bad"
       /\ IF l.via = "network" THEN Becomes(t, Ended(l, "failed")) /\ UNCHANGED dir
          ELSE /\ Becomes(t, [l EXCEPT !.at = "fetching", !.again = TRUE, !.via = "none",
                                       !.cached = FALSE])
               /\ dir' = Without({l.file})
       /\ UNCHANGED <<tmps, accidents>>

\* The JSON of a cover names its image, or says that there is none.
ParseSucceeds(t) ==
    LET l == lookup[t]
    IN /\ l.at = "parsing" /\ l.body = "good"
       /\ \/ l.file # "cover" /\ Becomes(t, Ended(l, "answered"))
          \/ l.file = "cover" /\ Becomes(t, Starting("image"))
          \/ l.file = "cover" /\ Becomes(t, Ended(l, "unavailable"))
       /\ UNCHANGED <<dir, tmps, accidents>>

-----------------------------------------------------------------------------
(* Time and accidents.                                                     *)

\* An entry is older than 30 days.
GrowsOld ==
    /\ \E f \in Files : \E e \in dir[f] :
         e.fresh /\ dir' = [dir EXCEPT ![f] = {[e EXCEPT !.fresh = FALSE]}]
    /\ UNCHANGED <<tmps, lookup>>

\* The session is killed, or the power fails and takes what was not synced.
CrashLookups ==
    /\ \/ UNCHANGED dir
       \/ \E f \in Files : \E e \in dir[f] : dir' = [dir EXCEPT ![f] = {[e EXCEPT !.good = FALSE]}]
    /\ lookup' = [t \in Lookers |-> NoLookup]
    /\ UNCHANGED tmps

Accident ==
    /\ accidents < MaxAccidents /\ accidents' = accidents + 1
    /\ GrowsOld \/ CrashLookups

Look(t) ==
    \/ ReadCache(t) \/ FetchFails(t) \/ FetchFindsNoCover(t) \/ FetchSucceeds(t)
    \/ Scan(t) \/ Evict(t) \/ WriteTemporary(t) \/ RenameTemporary(t)
    \/ ParseFails(t) \/ ParseSucceeds(t)

CacheNext ==
    \/ Accident
    \/ \E t \in Lookers : BeginLookup(t) \/ Look(t)

\* The threads run, and a request ends, at the latest by its timeout.
CacheFairness == \A t \in Lookers : WF_cacheVars(Look(t))
CacheSpec == CacheInit /\ [][CacheNext]_cacheVars /\ CacheFairness

-----------------------------------------------------------------------------
CacheType ==
    /\ dir \in [Files -> SUBSET [good : BOOLEAN, fresh : BOOLEAN, older : SUBSET Files]]
    /\ tmps \subseteq Files

\* A file has one entry at most, and of two files one is the older.
FilesHaveAnOrder ==
    \A f \in Files : \A e, d \in dir[f] :
      /\ e = d /\ e.older \subseteq Stored \ {f}
      /\ \A g \in Stored \ {f} : \A h \in dir[g] : g \in e.older <=> ~(f \in h.older)

\* Two writers that do not see each other may exceed the total, but at most by
\* the one body that the slower of them adds after the other filled the rest.
TotalIsBounded == TotalOf(Stored) <= MaxTotal + Size["image"]

\* A lookup fails only where the last fetch failed and no good entry was found
\* at first, or where what the network sent cannot be parsed: never for what
\* the other thread, a full disk or a crash did to the cache.
FailuresAreDue ==
    \A t \in Lookers :
      lookup[t].at = "idle" /\ lookup[t].answer = "failed" =>
        lookup[t].via = "network" \/ (lookup[t].met = "failure" /\ ~lookup[t].had)

\* An old body is the answer only when its fetch failed.
StaleOnlyOnFailure ==
    \A t \in Lookers : lookup[t].at \in {"parsing", "idle"} /\ lookup[t].via = "stale" =>
                         lookup[t].met = "failure"

CacheIsTransparent ==
    CacheType /\ FilesHaveAnOrder /\ TotalIsBounded /\ FailuresAreDue /\ StaleOnlyOnFailure

\* Every lookup ends, whatever is in the files: again and again none is under way.
CacheLookupsEnd == \A t \in Lookers : []<>(lookup[t].at = "idle")

\* What a lookup answered from an old entry is there for the next one: an entry
\* remains as the fallback until a fetch succeeds.
StaleEntryRemains ==
    \A t \in Lookers : lookup[t].at = "idle" /\ lookup[t].answer = "answered"
                       /\ lookup[t].via = "stale" => EntryOf(lookup[t].file) # {}
=============================================================================
