# Verification of picdplayer

picdplayer is a CD player daemon for a Raspberry Pi: it reads audio discs from a
USB drive, plays them through ALSA, shows what it plays on a display, and takes
commands from a browser UI, an HTTP API and HDMI-CEC remotes.  The code under
`src/` (C++20, `src/src` and `src/include` in this repository's layout) is a
handful of components, each with one owner thread, that pass generations and
snapshots to one another.  Its difficulty is in that concurrency: a drive that
may be pulled out at any time, calls into it that block for seconds, and results
that arrive after what they were asked for has passed.

This directory holds TLA+ models of those components, the TLC configurations
that check them on small instances and TLAPS proofs, for every value of the constants,
of their invariants and of what no step may do.  `PROJECT.json` lists which definition models which
lines, every run, every property with a mutation of the code model that breaks
it, and the hazards the properties are for.

To check a run: `tlc -config MCPcmWorker.cfg MCPcmWorker`; to check the proofs of
a module: `tlapm PcmWorkerProofs.tla`.

## 1. The system

### Threads and who owns what

    observer thread --probe--> DeviceLifecycleObserver --snapshot, permits(g)--+
                                                                               v
    HTTP/WebSocket, CEC --commands--> session thread (run_player_session) <----+
         PlayerController, PlaybackEngine, MediaStateTracker, C2AssessmentSession,
         CompletePcmSession, EnrichmentService, settings, ApiServer, CecDevice
              |  start/cancel/pop        | request/pop        | start/poll/confirm
              v                          v                    v
         PcmWorker thread          MediaWorker thread   CompletePcmWorker thread
              |                          |                    |
              +------ DriveAccessCoordinator (one mutex) -----+----> the drive
    session thread --write--> ALSA      session --> 4 network threads: metadata and
                                        cover --> cache; photograph list, photograph
    session --> diagnostics thread (JSON)      any thread --submit--> logger thread

Every drive call takes the coordinator's mutex; the session thread never does.
Identity is carried by numbers: the *observation generation* (which device), the
*disc generation* (which table of contents), the *stream generation* (which
PcmWorker::start) and job numbers.  Correctness is mostly that nothing of an old
number is taken for something of a new one, and that the drive is never used by
two at once, or closed under a call.

### Components

| Component (source) | State | Operations | Correct when |
|---|---|---|---|
| Player controller (`player_controller.cpp`) | intent, track, position, playable range | load/remove disc, play, pause, stop, next, previous, seek, progress | track holds position; what plays is in the playable range; a seek lands at the nearest frame |
| PCM worker (`pcm_worker.cpp`) | stream, queue, reader, disc map, events, history | start, cancel, discard_reader, pop, pop_event, set_disc_generation, reconfigure, device_released; thread `run` | the queue is a contiguous stream of the current generation; a release that is reported is real; the map tells of every read; everything ends |
| Playback engine (`playback_engine.cpp`), ALSA output | the stream it started, block, samples accepted, prebuffer, underruns | synchronize, tick, recover, apply_read_policy | position = what is heard; recovery neither skips nor repeats a sample; stopped means silent |
| Device observer (`device_lifecycle.cpp`) | snapshot, mutations | probe thread, snapshot, permits, reader_failed | a generation names one device |
| Media worker (`media_worker.cpp`), media state (`media_state.cpp`) | one pending and one running operation | request, request_c2, cancel_c2, pop, invalidate | results of another device are not delivered; one operation at a time |
| C2 assessment (`c2_assessment_session.cpp`, `c2_assessment_run.cpp`) | state, job, evidence | start, interrupt, cancel, offer, poll | evidence is shown only for the disc and device it was read from; the drive is free when it says so |
| Complete PCM capture (`complete_pcm_*.cpp`) | job, phase, deadlines, manifest | start, cancel, interrupt, poll, confirm; thread | a served manifest is whole and of one disc; a stopped job starts no call but its release |
| Player session (`player_session.cpp`) | context of device and disc, ejects, requests | the loop | drive users are kept apart; no request is lost; an eject ends |
| Settings (`read_policy_store.cpp`, handlers in `player_session.cpp`) | file, requested and effective policy, consent | load, save, set, apply when stopped | a restart finds what a reply promised |
| Enrichment (`enrichment_service.cpp`, `metadata_session.cpp`, `*_worker.cpp`) | snapshot, selection, photographs, four threads | begin, select, decline, consent, poll | what is shown belongs to the disc, release and artist of the moment |
| Metadata lookup and cache (`metadata_lookup.cpp`, `metadata_cache.cpp`) | the files of the cache, the lookups under way | read, fetch, evict, write, rename, invalidate | a lookup fails only when it has to; the total is bounded; every lookup ends |
| Readers (`cdda_reader.cpp`, `read_offset.cpp`, `repeated_read_verifier.cpp`), disc map (`integrity_state.cpp`) | reader position, regions | seek, read, observe | only agreed samples leave the verifier; regions tell exactly what was observed |
| Diagnostics publisher (`read_diagnostics_publisher.cpp`) | context and revision, the capture that waits, the one being projected, what is published | request; thread `run` | what is published is of the current context and was captured in it; no capture is lost; a client that asks is answered |
| API server (`api_server.cpp`) | per connection: image, diagnostics, command, listener, keys; the image budget | libwebsockets' callbacks, publish_state, publish_navigation | the budget is exact on every way out; nothing outlives its connection; listeners catch up |
| CEC device (`cec_device.cpp`) | physical and logical address, active source | update, receive | active only if the TV's last path is its own; registered while plugged |
| Logger (`logger.cpp`) | a bounded queue, dropped records | submit, shutdown; thread `run` | every record is written or counted; important ones go first; a shutdown drains |
| HTTP client, presentation, UI, probes, packaging | layout | format | not modelled, section 8 |

### What is hard about it

* **Interleaving**: the session thread, the reader thread, the media thread, the
  capture thread, the observer and four network threads; every one of them looks
  at a generation, lets go of a lock, and uses what it saw afterwards.
* **Calls that cannot be interrupted**: an ioctl may block for seconds.  A stop,
  a seek, an eject, a new device or the end of the process must get along with a
  call that is still under way and answers later.
* **Devices that come and go**: what was asked for one device must not be applied
  to, or be waited for on, the next.
* **Failure in the middle**: a reset of ALSA that throws between two steps, a read
  that throws after it may have read, a save cut off between two system calls.
* **Edges**: playable ranges that an offset makes empty, partial writes and
  underruns in the middle of a frame, rings and maps at their capacity, a budget of
  images whose connections end in half a dozen ways.
* **Exceptions with several ends**: what the reset throws is caught in the API, for a
  device that goes and in the tick; from a media result, CEC or standard input it leaves
  the loop and ends the daemon.
* **Files without a lock**: two lookups evict, write and rename in one directory.

`PROJECT.json` lists the hazards, each at the line where it bites, with the
properties that would catch it.

## 2. The modules

| Module | Models | State and actions |
|---|---|---|
| `AudioDisc` | what `make_audio_toc` accepts | the lead-out |
| `PcmStream` | what `PcmWorker` promises the engine | abstract specification: one stream, its range, its queue; start, cancel, produce, complete, fail, take |
| `PcmWorker` | `pcm_worker.cpp`, `DiscReadMap`/`ReadCoverage` as sets of frames | one action per critical section of `mutex_` and per drive call of `run()`, one per API call; `pc` names the place in `run()`, `loc` its locals |
| `PlayerController` | `player_controller.cpp` | each command an operator from a controller state to the next, and an action |
| `PlaybackEngine` | `playback_engine.cpp` over `PlayerController`, `PcmStream` and ALSA | `synchronize()` and `tick()`, cut at each call of the worker or the output |
| `DeviceEpochs` | what the observer promises its users | abstract specification: generations that grow, a permission that is lost once |
| `DeviceObserver` | `device_lifecycle.cpp` | a probe that begins, sees, and reports later; `reader_failed`; the node itself changes at any time |
| `MediaRequests` | what `MediaWorker` promises its users | abstract specification: one request, whether it stands and is allowed, at most one answer; ask, begin, return, keep or refuse, answer or give up, collect, lapse, withdraw |
| `MediaWorker` | `media_worker.cpp` | its requests, and its thread from taking a request to judging and delivering the result |
| `C2Assessment` | `c2_assessment_session.cpp`, `c2_assessment_run.cpp` on `MediaWorker` | the session's start, interrupt, cancel, offer, poll; device changes between |
| `CompletePcm` | `complete_pcm_session.cpp`, `_worker.cpp`, `_input.cpp` | the session's start, cancel, interrupt, poll with confirm; the thread call by call; deadlines that pass at any moment |
| `PlayerSession` | the loop of `run_player_session` with `MediaStateTracker` and the media dispatch | `at` names the place in the loop; `DeviceEpochs` and `MediaWorker` are instantiated, the PCM worker and the capture appear as the session sees them |
| `Settings` | `read_policy_store.cpp` and the settings commands of the session | the steps of a save (create, write, sync, rename, sync the directory), each may fail or be the last before a kill or power loss |
| `Enrichment` | `enrichment_service.cpp`, `metadata_session.cpp` and the four `*_worker.cpp` | the service's calls, `poll()` stage by stage, each thread taking a request and answering |
| `ReadOffset` | `read_offset.hpp`, the sample window of `read_offset.cpp` | operators only |
| `ReadMap` | `ReadCoverage::observe`, `DiscReadMap::observe` | operators only: sorted regions with their merging and capacity, each loop stated by where it ends |
| `ReadStack` | `repeated_read_verifier.cpp` over `OffsetReader` over `LinuxIoctlReader`, `make_read_evidence` | seek and read; a verified read attempt by attempt, each attempt with whatever the drive may answer |
| `MetadataCache` | `metadata_lookup.cpp`, `metadata_cache.cpp` | two lookups step by step: read, fetch, list, evict, write, rename, parse, fall back; entries that grow old, kills and power losses |
| `ReadDiagnosticsPublisher` | `read_diagnostics_publisher.cpp`, `diagnostic_response` of the session | `request()` as one critical section; the worker takes a capture, projects it without the lock, publishes or not |
| `ApiServer` | the callbacks of `api_server.cpp`, `publish_*`, the session's snapshots | each reason of `callback` that changes state an action; the library's buffer, its two-step close and the peers are external |
| `CecDevice` | `cec_device.cpp` | `update()` as two calls with the adapter free between them, `receive()`; the adapter and the TV are external |
| `AsyncLogger` | `logger.cpp` | `submit()` and `shutdown()` as critical sections; the thread takes, writes, leaves, reports |
| `PcmWorkerProofs`, `PlayerControllerProofs`, `PlaybackEngineProofs`, `PlayerSessionProofs`, `CompletePcmProofs`, `ReadStackProofs` | | the proofs about the module of that name, section 6 |
| `ServicesProofs` | | the proofs about `DeviceObserver`, `Settings`, `C2Assessment`, `MetadataCache` and `ApiServer` |
| `DaemonThreadsProofs` | | the proofs about `Enrichment`, `ReadDiagnosticsPublisher`, `AsyncLogger` and `CecDevice` |
| `MCServices`, `MCDaemonThreads` | | several parts that share no state, in one run (section 3) |
| `MCPcmWorker`, `MCPlaybackEngine`, `MCReadStack` | | values of the constants for TLC |

How they fit together:

    PcmStream <---implements--- PcmWorker            DeviceEpochs <---implements--- DeviceObserver
        ^                                                 ^
        | EXTENDS                                         | INSTANCE
    PlaybackEngine --EXTENDS--> PlayerController     PlayerSession --INSTANCE--> MediaWorker <--EXTENDS-- C2Assessment
                                                                                      |
                                                     MediaRequests <---implements-----+  (in either composition)
    ReadStack --EXTENDS--> ReadOffset, ReadMap       (AudioDisc below PcmStream, PlayerController and ReadOffset)

The engine is checked against `PcmStream`, and `PcmWorker` is checked to implement
it, so what holds of the engine does not depend on the reader thread's steps.  The
session and the media worker are checked against `DeviceEpochs`, and
`DeviceObserver` is proved to implement it.  `MediaWorker` has no next-state relation of
its own, as its two users call different functions of it; each composition is proved to
implement `MediaRequests`, so that what either relies on holds for it.

Conventions.  A step is what no other thread can look into: one critical section,
one call, or, on the session thread, the code between two such points.  Optional
values are sets or sequences with at most one element.  Counters that grow for
ever (generations, jobs, observations) stop at a named bound (`MaxGeneration`,
`MaxJobs`, ...): the guard that stops them is on the call that would start another
one, never on what must happen after it.  A definition whose comment says
*Mutant* is a plausible bug of the definition after it; no specification uses it,
and `PROJECT.json` says which property it breaks.

### From the code to the actions

* **PcmWorker.**  `Start`, `Cancel`, `DiscardReader`, `Reconfigure`,
  `SetDiscGeneration`, `ObserveReleased`, `Pop`, `PopEvent` and `Destroy` are the
  public functions; each is one critical section.  `run()` is the rest: `SeeClosing`,
  `SeeDiscard` and `SeeStart` are the branches at its top, `CloseNothing`,
  `CloseBegin`, `CloseEnd` the lambda that closes the reader with the mutex
  released, `RequestOpen` to `AfterOpen` the opening of a reader (`Admit` and
  `Refuse` are the check that is made again with the drive in hand, `Return` the
  drive's answer), `RequestRead` and `AfterRead` a read with its evidence, `Push`,
  `Finish` and `AfterFailure` the outcome.  `changed_.wait` is `asleep`, woken by
  `Notify` where the code notifies, and only then looking at its predicate.
  Frames are counted in units of `pcm_block_cd_frames`.  Timings, log lines and the
  counts of `IntegrityStats` are left out.
* **PlaybackEngine.**  `Command` is a command of the controller followed by
  `Synchronize`, or by `SynchronizeFails` when the ALSA reset throws.  The API and the
  invalidation of a device catch that and go on (`SynchronizeCaught`, `InvalidateDevice`);
  from CEC, standard input and the media results (`Insert`, `Remove`) it ends the daemon
  (`SynchronizeUncaught`, `SessionEnds`).  A seek, a skip or a stop synchronizes also when
  it changes nothing of the controller.  `tick()` is
  `TickSeesError`, `TickSeesStall`, `TickFinishes` or `TickBegins` followed by writes
  (`WriteRest`, `WriteNext`, `QueueEmpty`), `Account` and, on an underrun,
  `UnderrunRecovers` or `UnderrunStops`.  The sound card takes a part of what it is
  offered, plays in between, underruns when it has played everything, or fails.
* **DeviceObserver.**  `observe_device_node` is a *sighting*: absent, cannot be told,
  or present under a signature.  A probe notes the mutation count, looks without
  the lock and reports under it, unless the count has changed (`ProbeStands`).  Whether a
  reader failed meanwhile is kept as a history (`crossed`), independent of the count.
* **MediaWorker, C2Assessment.**  The thread takes the request, waits for the drive,
  asks whether the generation is still current, calls, asks again, and delivers.
  `Deliverable` is the condition under which a result is kept.  To `MediaRequests` a
  request is *asked* until it is admitted, *running* while the drive is at it, *returned*
  until `current()` is asked the last time, then *kept* or *refused* until the lock is
  taken and the result delivered or dropped; it *stands* as the condition under that lock
  would have it now, and is *allowed* as the observer would have it.
* **CompletePcm.**  Every drive call of the thread is `Ask`, `Acquire`, `Reserve`, then
  `CallReturns` or `CallThrows`, then `AfterCall`: `permitted()` is asked before the
  drive is waited for and again with the drive in hand.  `Refresh` is
  `refresh_locked`, which every entry of either thread runs first.
* **PlayerSession.**  `Observe`, `Gate`, `RequestMedia`, `PopResult` and the
  `Handle*`, `Tick`, `Serve`, `CapturePolled`, `PollMedia` and `Input` are the parts
  of the loop's body in their order; `Filtered` says which results are dropped.
  Commands of the API and of CEC are the disjuncts of `Serve` and `Input`.  `pcm.active`
  is the stream of the worker, `pcm.driven` the engine's `active_`; `FollowFails` is a
  `synchronize()` whose reset throws after the cancel: `ControlFails` and `EjectFails` are
  answered with an error, the device's invalidation goes on, and `FailedResult` and
  `FailedInput` end the session.
* **Settings.**  The file is what is there and what a power loss may leave of it
  (`disk`); a save is a sequence of steps any of which may fail.  Each start of the
  session is with `--settings-file` or without (`configured`); without it nothing is loaded
  or saved, and a setting takes effect at once or, a policy, when playback stops.
* **Enrichment.**  `poll()` takes a result of each of the four threads in turn (`at`);
  a request replaces the pending one and voids the one under way, except that the
  metadata thread does not void.  An image is a value, its bytes its size.
* **MetadataCache.**  `dir` holds for each file that exists whether it is fresh, whether
  the parser accepts it, and which files were modified before it.  `Scan` is the listing
  of `make_space()`, which removes temporary files as it meets them, and `Evict` its
  removals, the oldest first, judged by that listing although the other thread may have removed the
  same files; `WriteTemporary` and `RenameTemporary` may fail, and a file whose last
  bytes could not be flushed is renamed all the same, as the close is not checked.
  The rest is `lookup_musicbrainz_id` and `fetch_artwork`, which fetches a JSON and
  then an image.  The removal of a cached image that is stale is part of `ReadCache`.
* **ReadDiagnosticsPublisher.**  A body is the context revision under which it was
  captured, which is what the properties tell apart.  `Renewed` is the change of
  context in a request, `Covered` and `recent` the two reasons not to capture,
  `Publication` what happens when the worker takes the lock again.
* **ApiServer.**  `conn` says what a connection is, whether it asked to be called back,
  and what the library has buffered for it.  `respond()` with an image is `GetImage`,
  without room `Respond` with an error; `write_image` is `WriteImage`; `Abort` only
  marks the image and lets the library close the connection, `Closed` gives back what
  it reserved, whichever callback did so (`HTTP_DROP_PROTOCOL` and `CLOSED_HTTP` come
  together).  Listeners know what they were sent last, `publish_state` sends only what
  differs.
* **CecDevice.**  `ReadPhysical` and `ReadLogical` are the two ioctls of `update()`
  with the branches after them; `ReceiveMessage` one message of the loop that drains
  the queue.  An exception ends the session (`failed`), and its service manager starts
  it again.
* **AsyncLogger.**  A record is its number and whether it is NOTICE or above.  `Submit`
  covers the paths of `submit()`, the exception after an eviction included.
* **ReadStack.**  A sample is named by its place on the disc, negated when the drive
  got it wrong, which only scratched samples do.  A read cuts its blocks as the
  ioctl reader does, each of which may succeed, be retried, or fail; the answer is
  corrected by the offset, compared with the candidates so far, and accepted or
  rejected as the verifier does; the result is then recorded in coverage and map.

## 3. The runs

Each run checks the properties in its configuration; the mutants listed in
`PROJECT.json` show that each property can fail.

| Run | Asks | Bounds |
|---|---|---|
| `worker_device` | does a reported release hold, does the map tell of every read, and do discards, streams and the destructor end? | lead-out 2, a queue of one block, 2 stream generations, 2 discs, 2 policy revisions; 260,000 states |
| `worker_stream` | is the worker a `PcmStream`, are queue, outcome and evidence of the current stream? | lead-out 3, a queue of 2 frames, blocks of 1 and 2, one event, two history entries, 2 generations |
| `read_stack` | is what leaves the reader agreed, in place and with its C2 status; are the records exact and within their arrays; is the drive only asked for the disc? | 5 frames of 2 samples, offsets -1, 0 and 3, one scratched sample, blocks of 2, 2 of 3 attempts, overlap 1, two regions each; 272,557 states |
| `engine` | do position, evidence, queue, sound and intent agree, is recovery seamless, does playback end? | 3 frames of 2 samples, tracks at 0 and 2, every playable range, an ALSA buffer of 3 samples, one recovery, 5 generations; 260,316 states |
| `engine_reset` | is there a stream whenever PLAYING is published? (no, section 5) | as `engine` |
| `services` | C2: is what is reported of an assessment so, is its evidence shown only in its context, does it end, does the worker implement `MediaRequests`? Observer: does a generation name one device, does it implement `DeviceEpochs`, is a look from before a failure dropped? Cache: does a lookup fail only when it has to, is the total bounded, does every lookup end? Settings: what does a restart find, is what the page says so? | C2: 3 jobs, 3 contexts; observer: 2 signatures, 6 generations; cache: 2 lookups over 4 files, one of them of size 2, in a cache of size 2, one accident; settings: 2 policies, with a file and without; 621,000 states |
| `complete_pcm` | is a served manifest whole and of one disc, does a stopped job start no call, does a capture end? | 3 frames in blocks of 2, 2 contexts, 2 jobs, one swapped disc; 556,000 states |
| `player_session` | are the drive's users kept apart, is an old device gone, is no request lost, is what plays loaded, is autoplay only after an insertion? | 1 device generation after the first, any of 3 contents of the tray at the start, 1 disc put in or taken out by hand besides what an eject does; 1,534,000 states |
| `player_session_live` | does an accepted eject end; does the worker implement `MediaRequests`? | with a read offset (an absent TOC is then read again), no disc put in or taken out by hand; 364,000 states |
| `daemon_threads` | Enrichment: is what is shown of this disc and artist, does a choice last, does every lookup end? Publisher: are the bodies of the context, is no capture lost, does a client get both? Logger: is every record written or counted, does a shutdown drain? CEC: is the player active only when selected, is it registered in the end? | 2 discs, 2 artists, 5 offered photographs with a duplicate, 2 kept, 4 considered, 3 generations; 2 contexts, 3 changes, 2 failures; a queue of 2, 5 records; 2 addresses, 2 plugs, 2 messages; 89,000 states |
| `api_server` | is the image budget exact, is nothing left of a closed connection, are keys the last ones; does every image end, does a listener that reads catch up? | 2 connections, 2 images and 3 units of reservation (a background takes 2, a cover 1), bodies of 2 chunks, one diagnostic body, one key that waits, 1 change of state, 2 keys; 206,000 states |
| `cover_fallback` | is the stale entry a lookup answered from there for the next one? (no, section 5) | the cache of `services`, of size 5 |

The runs of `MCServices` and `MCDaemonThreads` each check modules
that share no variable.  Their `part` is chosen once, in the initial state; only the
part that was chosen takes steps, by its own next-state relation and with its own
fairness, and the others stay in one of their initial states.  A behaviour of such a
run, seen through the variables of its part, is a behaviour of that module, and every
behaviour of the module is one of the run, so that its properties are checked as in a
run of its own; the properties of the parts that do not begin hold in their initial
states.

Why these bounds are enough for the cases that matter:

* Two generations of a stream, of a disc and of a policy let an old one meet a new
  one in every place of the thread; a third stream adds only repetitions of a
  superseded one being superseded, as the thread holds the locals of one stream at
  a time.
* A queue of one block is full and empty in turn; a queue of two frames with blocks
  of one and two has a block that does not fill it, and one that does.  Event and
  history buffers of one and two overflow.
* An ALSA buffer of three samples with frames of two lets writes be partial and
  underruns cut a frame in the middle.  With one recovery the bounded number of
  them is reached and exceeded.
* Offsets of -1 and 3 samples with frames of two cut a frame before its start and
  by more than one frame; one of them makes the playable window lose a frame at
  either end.  Two of three attempts allow a mismatch, an agreement after it and an
  exhausted verification; regions of two fill up.
* Two lookups over four files of which at most two fit make either evict what the other
  one reads, lists or has just written, with the temporary file of either removed by
  the other; one accident is an entry that grew old, or a crash, at any step.
* Two connections and a budget of three leave room for one background and one cover
  and not for two backgrounds; one waiting key makes the second push it out.
* A queue of two records fills with unimportant, important or mixed ones.
* One device generation after the first one, with a disc that may change, covers a
  device that leaves and returns while any request is in any of its phases.

Deadlock is checked, except in `services`, `daemon_threads`, `cover_fallback`,
`complete_pcm`, `engine` and `read_stack`: there the bound on jobs, generations, reads,
records or plugs, an error that ends the session, or a destructor that has run, really
leaves nothing to do.  In `PlayerSession` a session that an exception ended is a step that
changes nothing (`SessionOver`), so that any other place where nothing can move is found.

## 4. Fairness

Only what the code or its surroundings give:

* Each thread is weakly fair: `WF(Thread)`.  In `PcmWorker` the steps that take the
  drive's mutex are strongly fair (`SF(TakeDrive)`): other users take it over and
  over, and a `std::mutex` that is released infinitely often is not withheld from one
  waiter for ever.  Without it a discard could wait for ever behind the status poll.
* A drive call returns: `WF(DriveReturns)`, `WF(OtherReleases)`, `CaptureReturns`.
  Kernel timeouts and, in captures, deadlines bound calls; a call that never returned
  would hold the destructor too, which the header says.
* The session thread loops: `WF(Pop)` in the worker's model, `WF(Tick)` in the
  engine's, `WF` of offers and polls in C2 and captures, and in `PlayerSession`
  `WF(Session /\ at' # at)`: it goes on to its next stage, since the commands that
  wait at one time are finitely many.  The session never takes the drive's mutex, so
  nothing stops it.
* ALSA plays what it accepted (`WF(AlsaPlays)`) and, asked infinitely often, accepts
  something (`SF(WriteAccepted)`): a writable card that never takes a sample is not
  assumed away anywhere else.
* Each network lookup answers (`WF(LookUp)`, `WF(Look(t))` in the cache): every HTTP
  request has a timeout.
* The diagnostics worker and the logger's thread are weakly fair; a refresh interval
  passes.  `DiagnosticsArrive` is about a client that goes on asking, so `RequestBody`
  is fair too: what it says is what a poll of the page sees.
* libwebsockets calls back a connection that asked to write and can be written to,
  fires the timer of an image and closes what is to be closed; the session publishes
  a snapshot that differs.  A peer need not read: `ClientsAreServed` says that an image
  ends all the same, by its deadline, and assumes in itself, for a listener's state and
  keys, that this listener's buffer is emptied again and again.
* The session looks at CEC every 250 ms, and the kernel completes a claim.

Users, discs, devices and errors are never assumed to do anything.

## 5. Disagreements between document and code

`engine_reset` finds a state that is PLAYING and has no stream.  `synchronize()`
cancels the stream, resets ALSA and, if PLAYING, starts a new stream; the reset may
throw, and the controller is already PLAYING then.  The HTTP callback answers 500
and the session goes on; another play changes nothing and so does not synchronize.
`docs/design/detailed-design.md:140-141` describes the three as one action.  From
CEC or standard input the same exception leaves the loop and ends the daemon, which
its service manager starts again; only the API keeps the state.  (The other place that
catches it, the invalidation of a device, has set NO_DISC.)  What does hold whichever
reset throws is proved: no stream is left that the engine does not drive (`StreamIsOwned`,
and `StreamFollowsIntent` in `DriveIsShared`).

`cover_fallback` finds a lookup that answered from a stale image which is no longer
there.  `include/metadata_cache.hpp:21-22` says "A stale entry remains available only
as an offline fallback", and so do `docs/design/functional-design.md:470-471` and
`docs/design/detailed-design.md:414-415`.  `fetch_artwork` removes the image of a cover
as soon as it is found stale (`metadata_lookup.cpp:124`) and then asks the network; when
that fails it answers from the copy in its hands.  The cover is then AVAILABLE, but
`has_cover_asset()` finds no file to serve, and the next lookup without a network has
nothing to fall back on.  The JSON of metadata and covers keeps its entry until a
fetch succeeds.

The same documents say that the cache as a whole stays within 64 MiB (`cache全体は64
MiBまで`).  Each write makes room for itself alone and nothing excludes two of them, so
the total may exceed the limit by what the other writer brings; the next write evicts
down to it again.  `TotalIsBounded`, a part of `CacheIsTransparent`, states what holds.

One more was met while modelling `LinuxIoctlReader::read` and is not the subject
of a run: when the C2 request fails and the ordinary retry loop after it fails too,
the code goes on to the retry loop below (`cdda_reader.cpp:141-166`).  A block may so
be retried twice `options.retries` times, and an error other than EIO be tried once
more, where the comments say "Additional attempts per ioctl, bounded to 10"
(`cdda_reader.hpp:108`) and that other errors fail at once (`cdda_reader.cpp:161`).

## 6. What is proved

TLAPS checks the theorems below for every value of the constants that the modules'
assumptions allow: discs, offsets, capacities, bounds and sets of any size.  Every
safety invariant, action property and refinement that a passing run checks is one of
them.  Hardly one of the invariants is inductive as it stands; what was added to it, and
why, is the argument of its proof.

* **`PcmWorker`** (`PcmWorkerProofs`): `ReleaseIsReal`, `MapIsHonest`, `StreamIsHonest`
  (of which `TypeOK` is a part) and `ImplementsStream`; and in `TypeOKAlways` that a read
  ends within its stream (`ReadsInside`) and a queued block before the lead-out
  (`BlocksInside`).  The range of a read, and with it
  the frames that enter map and queue, follow from what the locals of an iteration mean,
  so `TypeInv` adds to `TypeOK` the order of the stream's range, what the locals hold
  where they are in scope (`ScopeInv`), and that no queued block passes the lead-out.
  - `ReleaseInv` relates `reader_open_`, `drive_call_inflight_`, the drive's mutex and
    the thread's place: wherever a call is being made or its result looked at,
    `drive_call_inflight_` says so; a reader exists only if `reader_open_` says so or the
    thread is about to announce it; the mutex is held exactly inside a call or a close.
  - `MapInv`: a read that no observation has accounted for is at one of a few places of
    the thread (`PendingRead`) and was attempted on the disc of its stream, which is never
    one still to come; so nothing is lost between the call and the record of it.
  - `QueueInv` and `ServeInv` are about the stream.  `Ownership` says whose stream the
    thread has in hand (a refused call is never of the current one); `Progress`, that the
    locals of a current stream tell how far it was read and handed over, and that a
    stream the thread has not come to is untouched; `QueueBound` counts the frames that
    the queue and the block in hand may hold when the block size does not divide the
    capacity.  `DiagnosticsAreRecent` is inductive on its own.
  - With these a step of the worker is a step of `PcmStream` or changes nothing of it.
    `ClosedInv` is about the destructor, which retires the stream too: from then on the
    thread's stream is of an older generation.
* **`PlayerController`** (`PlayerControllerProofs`): `PositionIsPlayable`, and
  as a lemma, `SeekReachesNearest`, that a seek lands at the nearest frame of the range.
  `ControllerInv` adds that track and position agree and that the playable range lies on
  the disc; it is an operator of a controller state, kept by each operation, so that the
  engine's proof uses the same lemmas for the controller inside it.
* **`PlaybackEngine`** (`PlaybackEngineProofs`): `PositionIsPlayable`,
  `SamplesAreAccounted`, `StreamIsOwned`, `RecoveryIsSeamless`.  `EngineInv` has one part
  for each thing that must agree.  The queue is in order (`StreamInv`); a stream that is
  played is the one the engine started, over the controller's range (`OwnedInv`,
  `PlayerInv`); what was submitted, the rest of the block in hand and the queue follow
  each other without a gap, in samples, whatever part of a frame a write ended in
  (`BlockInv`); the position is what was submitted less what is pending
  (`PositionIsHeard`); each piece of evidence covers samples that were submitted, and the
  current one is that of the position (`EvidenceInv`); after a stop nothing sounds
  (`QuietInv`).  A reset that throws comes after the cancel, so that it leaves no stream,
  whoever called and whether or not the session goes on.  The arithmetic of frames and samples is in lemmas of its own.
* **`PlayerSession`** (`PlayerSessionProofs`): `DriveIsShared`, `DiscIsTracked`,
  `AutoplayNeedsInsertion`, `MediaIsAsPromised`.  That the users of the drive are apart
  follows from `AloneInv`: an eject that is asked for or under way means that there is no
  reader, no sound and no capture, and a capture that there is no reader and an idle media
  worker.  It holds because of what the gate of the loop decided, which is still so when
  the request is made (`GateInv`), and because one request is on its way at a time
  (`OneRequest`).  No request is lost: what the session waits for is pending, worked on,
  or a result that will not be dropped (`RequestInv`).  `StreamFollowsIntent`
  (which asks for no stream where a reset threw, but for none that is not driven),
  `OldDeviceIsGone` and `DiscInv` relate the PCM worker and the loaded disc to the
  session's context.  `MediaIsAsPromised` is the refinement of `MediaRequests` by the
  worker in this composition, along the argument of `ImplementsRequests` below.
* **`CompletePcm`** (`CompletePcmProofs`): `ResultIsHonest`, `NoCallAfterStop`.  A status
  has one of few shapes (`ShapeInv`), which the thread's place determines in part
  (`PlaceInv`); a job that runs was not disturbed (`RunInv`); `ReadInv` says what was read
  when, so that a prepared manifest is of all frames and, if the last TOC matches, of one
  content; only then is there a result (`ResultInv`).  A function of either thread leaves
  a status as it was or stopped (`Eased`), which no later call undoes.
* **`ReadStack`** (`ReadStackProofs`): `ReadsStayOnDisc`, `AcceptedIsAgreed`,
  `ObservationsAreExact`, `MergedOneByOne`.  What is read next, and the tail before it
  that a verified read compares with, lie in the playable window (`PositionInv`), and the
  window's frames moved by the offset lie on the disc (`WindowOnDisc`), which rests on
  division rounding down for negative offsets too.  For what is accepted, `CallInv`: the
  candidates of the read under way are pairwise different, every complete attempt read one
  of them, and each is in place, counted no more often than it was read, with the C2
  status of exactly its attempts; and the tail is the end of what was delivered last.
  `MergedOneByOne` shows that the C2 status of a set of attempts is what merging them one
  after the other, as the code does, gives.
  - `ObservationsAreExact` follows from `RecordedInv`: the regions of the coverage are in
    order and apart, their frames were accepted, and the count is that of these frames;
    the regions of the map are apart among those of the same facts, and hold what was
    charted.  `CoverIsSound` and `ChartIsSound` show that one observation keeps this;
    that what is observed lies on the disc comes from `PositionInv`.
  - What takes an induction is proved by a least counterexample, as the induction
    theorems are out of reach here: a set of numbers has a least element (`LeastExists`),
    so a sum of sizes that were not the number of frames would be wrong for a first
    prefix (`SizesCountFrames`), and a loop over the regions ends at the first
    one that it does not reach (`FirstReachedIs`, `LastReachedIs`).  Since the regions of
    the map are apart, the loop that starts over after each merge merges what touches the
    new region and finds nothing more (`AbsorbedIs`, `HullOfTouched`).
* **`DeviceObserver`** (`ServicesProofs`): `ObserverType`, and `EpochsAreKept`, which is
  `GenerationNamesDevice` with `ImplementsEpochs`, the refinement, and
  `OldLooksAreDropped`.  A tracker that has not sampled has seen nothing (only then is the
  first sample a new generation).  `FailuresAreCounted`: mutations are no more than
  generations, and the count a probe began at is less than the present one exactly when a
  reader failed since.
* **`Settings`** (`ServicesProofs`): `SettingsAreHonest`.  A save is unseen before its
  rename, and after it the file is its pair; until the directory was synchronized a power
  loss may leave either, and both were promised (`FileInv`).  What a save writes is the
  other setting as it is requested (`PairInv`), and what was saved is what is requested
  but for an OFF that is not through yet (`StoredInv`).  Without a settings file there is no
  save under way and nothing counts as saved, so whatever the settings then become, the
  file is as it was (`SessionOnlyKeeps`).
* **`C2Assessment`** (`ServicesProofs`): `AssessmentIsTracked`, `EvidenceInScope`,
  `ImplementsRequests`.  One thing is with the worker at a time, of the last job
  (`JobInv`); an operation that was spoilt stays so, since a generation that lost its
  permission does not get it back (`SpoiltInv`); what is released has nothing with the
  worker (`HoldInv`); and a job that runs has its work on the way to a result unless its
  device went (`RunInv`).
  - `ImplementsRequests`, the refinement of `MediaRequests`.  `Seen` says what request,
    phase, standing and permission the worker shows at each place it can be in: a pending
    request excludes a running one, and has the observed generation because a change of it
    clears it.  `ExecutedInv` tells an operation that was begun from one that was not.
    A permission that was lost does not come back, since generations only grow; so the
    check at the start, at the end and under the lock are enough: `Judge` is where the
    permission decides, `Finish` where a withdrawal does.
* **`MetadataCache`** (`ServicesProofs`): `CacheIsTransparent`, for every limit of the
  total.  The files have an order.  `LookupIsHonest` is what a lookup knows of an entry
  that may be gone by now: a bad body that is not from the network means that the entry
  was not good, and a fetch without something to fall back on found none.  In a cache too
  small for a cover and its image, the bound on the total holds because the artwork
  thread alone writes both and evicts one before it writes the other (`CoverOrImage`).
* **`ApiServer`** (`ServicesProofs`): `ResponsesAreBounded`.  A connection is in the maps
  of responses or in those of listeners, never in both, and has at most one image
  (`PlaceOf`); with it each way out gives back exactly what its image reserved
  (`SumsInv`), and the keys that wait are the last ones (`KeysOf`).
* **`Enrichment`** (`DaemonThreadsProofs`): `EnrichmentIsOfDisc`, `ChoiceLasts`.  A lookup
  of the present generation is under way once, and only while the disc is loading
  (`LookupInv`); a photograph thread holds one request but for a voided one
  (`OneAtATime`), and nothing is fetched that is not waited for (`FetchInv`); what is
  wanted and kept is of the artist asked for, who is the one selected (`PhotoInv`,
  `KeptAreOf`).
* **`ReadDiagnosticsPublisher`** (`DaemonThreadsProofs`): `DiagnosticsAreCurrent`.  A
  capture that is owed waits or is projected in its revision (`OwedIn`), and what is active
  is what the worker projects (`ProjectionInv`).
* **`AsyncLogger`** (`DaemonThreadsProofs`): `LogIsAccounted`.  What is in the queue, was
  written, is in the thread's hands or is counted as dropped is what was submitted
  (`Accounted`), and the records kept are in the order of their numbers (`Ordered`), so
  that the one removed from a full queue is the one that is lost.
* **`CecDevice`** (`DaemonThreadsProofs`): `ActiveIsRouted`, by `ActiveInv`: an active
  player is plugged in and the TV's last path is its own.

Only model-checked:

* Liveness: `WorkerSettles`, `PlaybackEnds`, `EjectEnds`, `CaptureEnds`, `AssessmentEnds`,
  `LookupsEnd`, `CacheLookupsEnd`, `DiagnosticsArrive`, `ClientsAreServed`, `LogDrains` and
  `Registers`.  They depend on fairness, and so on ENABLED, which the prover does not
  reason about.

## 7. Plan

Done, in this order: `PcmWorker` over `PcmStream` with the first proof; `PlaybackEngine`
over `PlayerController`; `DeviceObserver` over `DeviceEpochs`; `MediaWorker` and
`C2Assessment`; `CompletePcm`; `PlayerSession`; `Enrichment`; `Settings`; `ReadStack`;
`ReadDiagnosticsPublisher`, `MetadataCache`, `ApiServer`, `CecDevice`, `AsyncLogger`;
then the proofs of section 6, with `ReadMap` restated so that they reach it; and
`MediaRequests`, which `MediaWorker` is proved to implement under either of its users.

Next: the drive speed request and the shutdown of the session, the filter of
repeated CEC keys, `C2ReferenceAssessment` as an operator against a definition, and
the choice of a read strategy (`select_read_strategy`) in `Settings`.

## 8. What is not modelled, and why

* **Pure data and layout**: presentation and snapshots to JSON, parsers of metadata,
  SCSI and sysfs, the digest, the text of log lines, the UI bundle.
* **Pure I/O**: sockets and HTTP framing, TLS and address policy, the opening of the
  CEC adapter, the ALSA parameters, `libcdio-paranoia`.
* **The browser UI**, the probes, the command line, packaging and deployment.
* Within the modelled parts:
  - *Player session*: the drive speed request, of the read policies all but what the
    result of the drive probe does to the reader (`Settings` has the rest), the
    C2 assessment (`C2Assessment` has it), playable ranges (`PlaybackEngine` has them), and
    the orderly shutdown at `quit`, a signal or the end of the input.  A session that an
    exception ended is not started again in the model.
  - *Capture*: a disc that is taken out and put back between the two readings of the
    TOC is, to the code and the model, the same disc; the digest is the set of frames.
  - *Enrichment*: serving the files, the flag of declined candidates in the snapshot,
    and the shutdown.  Content is identified with its size.
  - *Settings*: files of version 1, and edits of the file by others but for a broken
    one at the start.
  - *Metadata cache*: the photograph threads, which the daemon starts with an empty cache
    directory, so that they neither read nor write it; retry delays and the rate limit, which only
    lengthen a fetch; an entry that is too large for its reader, which is removed.
    An image is good when its first bytes are, as in the code, also when it was cut
    short after them.
  - *API server*: routes, headers, JSON and the assets of the UI; the bounds of request
    bodies; the boot telemetry.  A response that an exception ends is `Respond` with an
    error and a connection that closes.
  - *CEC*: the messages about power, keys and their filter.
  - *Logger*: the level filter in front of `submit()`, the sinks, and the start-up.
  - *Readers*: the number of retries is whether there was one; the time budget may be
    over between any two attempts; a reader without an offset is one with offset 0;
    `require_c2_pointers`, which only the C2 assessment sets, is part of its run.
