# A TLA+ model of JustScanner

This directory holds the formal verification project of the program in `src/`, a
Windows scanner application with a mock scanner, a page session, and transport
models for WIA and WSD scanners. The modules are translated from the C++ sources
(`src/src/`); documents of `src/docs/` are quoted only where the code does
something else. Proofs are checked with TLAPS (`tlapm`), instances with TLC.

    tlc -workers 2 -config MCWiaComWorker.cfg MCWiaComWorker.tla
    tlapm ScanSession_proofs.tla

`PROJECT.json` lists the components, the runs, the definition-to-source map, the
mutants that show that each property can fail, the hazards and the theorems.

## 1. The system

| component | source | state it keeps | operations |
|---|---|---|---|
| WIA COM worker | `wia_com_worker.cpp` | flags, queue and snapshot under one mutex, an atomic cancel flag, a thread | `start`, `shutdown`, `submit`, `request_cancel`, `snapshot`; the thread's `run` |
| WIA worker lifecycle | `wia_worker_model.cpp` | state, operation, pending cancel (a value) | `start`, `begin`, `request_cancel`, `complete`, `shutdown` |
| WIA transfer model | `wia_transfer_model.cpp` | state, failure, page and byte counts | `configure`, `begin_transfer`, `begin_page`, `accept_chunk`, `complete_page`, `request_cancel`, `acknowledge_cancel`, `report_*`, `finish_transfer` |
| WIA discovery model | `wia_discovery_model.cpp` | generation, raw ids by token | `refresh`, `resolve_for_connection` |
| WIA 2.0 backend | `wia2_backend.cpp` | COM device manager, a discovery model | `open`, `execute`, `close` |
| WIA capability model | `wia_capability_model.cpp` | none | `map_wia_capabilities`, `prepare_wia_property_writes`, `validate_wia_readback` |
| WSD scan job model | `wsd_scan_model.cpp` | job state, credentials, image and byte counts | `accept_ticket_validation`, `accept_job_created`, `begin_retrieve`, `accept_image`, `cancel`, `fail` |
| WSD discovery model | `wsd_discovery_model.cpp` | generation, endpoints by token | `refresh`, `resolve_for_connection`; the probe and metadata decoders |
| WSD HTTP transport | `wsd_http_transport.cpp` | none between calls | `post` |
| WSD codecs | `wsd_soap_codec.cpp`, `wsd_job_codec.cpp` | none | encoders of requests, decoders of replies |
| Backend policy | `scanner_backend_policy.cpp` | none (a constant table) | `scanner_backend_operation_allowed` |
| Scan session | `scanner_core.cpp` | list of pages; master files; manifest and backup on disk | `create`, `load`, `save`, `add_page`, `rescan`, `reorder`, `rotate`, `set_crop`, `clear_crop`, `set_tone`, `set_included` |
| Session exports | `scanner_core.cpp` | files | `export_*` |
| Mock scanner, rendering | `scanner_core.cpp` | none | `scan`, `render` |
| Mock GUI | `mock_gui.cpp` | worker, pending discovery, page list, selection, drag | window messages |

**Interactions.** The GUI owns one `WiaComWorker`. It polls the `std::future` of a
refresh from a timer; it calls the scan session and the exports synchronously.
The worker calls an injected COM apartment and an injected backend, both on its
own thread; in production the backend is the WIA 2.0 backend, which holds a
discovery model. The transfer model and the WSD models are fed by adapters. The
session shares nothing but files with anything else.

**What is hard, and what correctness means, per component.**

- *COM worker*: three kinds of threads, a mutex that is released around every call
  out, an atomic flag written under the mutex and read without it, notifications
  sent after the unlock, `run()` is `noexcept` while the lifecycle it drives throws.
  Correct: nothing terminates the process; each accepted request is answered once,
  in order; a cancellation reaches the request it was made for and no other;
  `start()` and `shutdown()` return; COM is set up and torn down in pairs.
- *Scan session*: a directory that outlives the process, written in several steps.
  Correct: a crash between two steps leaves the last published manifest readable;
  masters are never replaced; every manifest that any sequence of calls can publish
  is one that `load()` accepts; page identifiers do not collide; the history of a
  page is complete.
- *Transfer model*: callbacks in an order and with sizes the driver chooses, and
  unsigned arithmetic. Correct: limits hold and nothing wraps around; complete, short and failed
  batches are told apart; nothing that arrives late counts.
- *WIA backend and discovery*: a refresh is many calls of a driver, with a flag that another
  thread sets; selections are a token and a generation, and the generations start over
  with `close()`. Correct: a selection stands for the device it was handed out for, or is refused.
- *Capabilities*: properties in four shapes with numbers the driver chooses. Correct:
  the source, resolution, colour and depth that are written, or accepted back, are what one
  item of the device itself reports together; a page count is bounded by the item's maximum (and
  need not be one the driver has: section 7).
- *WSD discovery*: several exchanges that answer anything, fail, throw or are
  cancelled. Correct: list, endpoints and generation belong together; a cancelled
  call asks the network nothing more.
- *WSD decoders*: flags and collected texts that outlive their element. Correct: data of
  one device or element are never taken for another's.
- *WSD HTTP transport*: a response in pieces of the server's choosing. Correct: it is
  bounded, it ends, and a cancelled call returns no response.
- *WSD job*: images in the name of the job's own credentials only, within two limits together,
  and one end, which only a failure overrules.
- *Exports*: batches that fail half way, and destinations that appear meanwhile. Correct: no
  file is replaced, and the files under one name are of one export.
- *Rendering*: crop, rotation and tone in one order. Correct: each pixel of the part once.
- *GUI*: one thread, but messages in any order; several copies of one fact (page
  list, selection, preview, session). Correct: the copies agree; at most one
  refresh is outstanding and it ends.

## 2. Plan

Built, in this order, the most important behaviour first:

1. `WiaWorkerModel`, `WiaComWorker`, refining `WiaRequestService`;
2. `ScanSession` with crashes;
3. `WiaTransferModel`;
4. `MockGuiDiscovery`, composed with the abstract `WiaRequestService` (not with the
   worker's threads, which (1) shows to implement it), and `MockGuiPages`;
5. the abstract specifications that two protocols share: `DeviceSelection` (what a
   discovery promises) and `ImageTransfer` (what a transfer promises);
6. `Wia2Backend` and `WsdDiscoveryModel`, both refining `DeviceSelection`;
   `WsdJobModel`, refining `ImageTransfer`; `WsdHttpTransport`;
7. `WiaCapabilityModel`, `PageRendering` and `SessionExport`, with properties that say
   declaratively what the operators and steps compute;
8. the decoders: `WsdXmlMemory`, `WsdDiscoveryXml`, `WsdSoapCodec`, over the documents of
   `WsdXmlDocument`;
9. proofs for (4), (6) and the exports;
10. the machine-checked proof that `WiaComWorker` implements `WiaRequestService`;
11. proofs of what the loops and operators compute: `Subsequences` for the loops that keep
    some members of a list, and with it that both discoveries implement `DeviceSelection`;
    negotiation, exports, rendering and the decoders.

Left, in this order:

12. The boundary search of the multipart image (`wsd_job_codec.cpp`) as a walk over
    lines, if its framing is to be checked and not only its limits.
13. A composition of `WsdDiscoveryModel` with `WsdHttpTransport`, once the repository
    has the adapter that joins them.

No module uses a RECURSIVE operator, so that every one can be proved about. Objects of the
program that share nothing are checked in one run, one of them in each behaviour.

## 3. Modules and the code

### WiaWorkerModel

The class `WiaWorkerModel` is a value, so the module has operators and no
variables. A method that may throw is a pair, `CanX` (it does not throw) and
`AfterX` (the value it leaves).

### WiaComWorker

One action is one critical section of `Impl::mutex`, one atomic access, or one call
out of the module, with the thread-local work around it. Program counters
`owner` and `worker` say where the two long-lived threads are; clients only need
to be remembered between the unlock and the `notify_one` of `submit()`
(`notifying`).

| code | actions |
|---|---|
| `start()` | `StartThread`, then the wait (`WakeEarly` or the notification of `NotifyStartup`), `FinishStart`, `JoinFailed` |
| `shutdown()` | `BeginShutdown` or `ShutdownIdle`, `NotifyStop`, `Join` |
| `submit()` | `Submit` (validation and critical section), `NotifyWork` |
| `request_cancel()` | `RequestCancel` |
| `run()`, start | `InitializeApartment`, `OpenBackend`, `PublishStarted`, `SignalStartup`, `NotifyStartup` |
| `run()`, loop | `TakeRequest` / `Sleep` / `SpuriousWakeup` / `StopLoop`, `Begin`, `Execute`, `CheckCancel`, `Finish`, `Reply` |
| `run()`, end | `SwapQueue`, `DrainOne`, `CloseBackend`, `LeaveApartment` |

A condition variable loses a notification nobody waits for and may wake
spuriously; both are modelled. The backend is nondeterministic: it succeeds,
reports a safe or an unsafe issue code, throws, or reports "cancelled" when the
flag is set. A lifecycle call that throws inside the `noexcept run()` sets
`terminated`. `asked` is a history variable: the requests that were active when a
cancellation took effect.

Abstractions: request contents are reduced to what `validate_request` reads
(`RequestShapes`); `std::thread` and allocation do not fail; there is one owner
thread, as in `mock_gui.cpp` (the class does not allow `start`/`shutdown` from
several threads without external order either: `thread.join()` runs outside the
mutex).

`WiaRequestService` is the abstract specification: a FIFO of accepted requests, a
phase, and answers. The refinement mapping (`Abstract` in `WiaComWorker`) builds
the FIFO from the request in hand, the drained deque and the queue, so that
moving a request between them is a stuttering step (`Owed`, `Phase` and `InHand`).

### ScanSession

The disk (`masters`, `current`, `backup`, `stage`) survives `Crash`, memory (`open`,
`pages`) does not. Editing calls are atomic, since each changes at most one file
that `load()` reads, a master, and it does so by one rename. `save()` is a sequence:
`SaveStage` (checks and stage file), `CopyBegins` (the backup is truncated),
`CopyEnds`, `Publish` (the rename), with `SaveFails` or `Crash` possible at each place.
`Load` reads the current manifest or else the backup, with all of
`load_manifest()`'s checks (`Loads`). `Decay` lets the current manifest become
unreadable outside the program, which is what the backup is for.

Abstractions: width and height are treated alike in the code, so a page has one
extent; brightness and contrast likewise one tone; the byte limit of a manifest is
counted in records; identifiers and revisions are numbers, and a path is a pair
of them. A master is staged and renamed in one step, since its `*.tmp` file is
read by nobody and overwritten by the next call.

### MachineWords, WiaTransferModel and ImageTransfer

`MachineWords` is the arithmetic of unsigned integers with `Word` values, in which
`Minus` and `% Word` wrap around as `std::uint64_t` does. `WiaTransferModel` has one action
per method. `Protocol(sequence, effect)` is the pattern of the class: a method called out
of sequence fails the transfer (and throws). The constants stand for the arguments of the
constructor and have exactly the bounds it checks.

`ImageTransfer` is the abstract transfer: it gets one `owner`, an image is asked for in the
owner's name only (`asker`) and then counted within two limits, and there is one `end`, complete,
cancelled or failed, which only `Fail` may change again. The WSD job implements it.

### Subsequences

Several loops of the program keep some members of a list in their order: the devices that a
refresh lists, the matches that a probe accepts, the new candidates, the included pages of an export,
the profile for a source. They are written as `Subsequence(list, positions)` with the set of positions
that the loop's conditions keep, so that what they keep is a matter of set membership, and can be
proved for lists of any length.

### DeviceSelection

The abstract discovery: a search numbers the devices it finds, each once, and a
selection that was offered stands for its device until the next search begins. WIA and
WSD implement it with different refinement mappings: raw ids by number, and endpoints.

### Wia2Backend

`WindowsWia2Backend` with the `WiaDiscoveryModel` it holds. `execute()` is one step for
each call of the enumerator (`Enumerate`, `EnumerateEnd`, `EnumerateFails`), between which the
cancel flag may be set (`SetFlag`); the discovery is refreshed in the step of the last. A
device whose properties cannot be read has no id, and one whose public texts are not
valid is counted as seen. `Close` resets the generation, as `close()` does. A stale selection
is refused after a refresh (`docs/WINDOWS_WIA_ADAPTER_CONTRACT.md:102-104` says so), but
after a restart the same generation comes again, so that whoever keeps a selection across
`close()` gets another device: the model's users drop their selections there.

### WiaCapabilityModel

The functions of `wia_capability_model.cpp` as operators on sets of values, in the order
in which a caller uses them: map, prepare the writes, validate the read-back. What throws
yields an empty set or sequence, or no step. `Item` is the set of items that devices may
have, of any number and with properties of any shape. Reported settings are stated again in
`Offers`, from the properties (`DriverAllows`) and without the code's intermediate lists. Of the
page count, `NegotiationHolds` claims only what `max_pages()` looks for, that it is from 1 to the
maximum of the same item (`DeviceOffers`); `PagesReported` is the document's whole sentence, with the
minimum and step of the page range, and is violated (section 7).

### WsdCancellation, WsdDiscoveryModel

One refresh is `Refresh`, `ProbeReturns`, a `DecodeDatagram` for each datagram,
`BeginMetadata` and a `MetadataReturns`, `MetadataFails` or `ExchangeThrows` for each
candidate. Another thread may set the flag at any time; the code reads it before each
exchange, so an action ends where the next exchange begins. A datagram is what it says
(which matches of which devices), an opaque id its number. The code's exchange is an
interface: it answers anything.

### WsdHttpTransport

`post()` over WinHTTP: `Post`, `ResponseArrives`, `PieceArrives` and `EndOfBody`, each up to
the next call that may wait, with `HttpFails` at any of them (timeouts too). The text of a URI
or a content type is a record of the parts that the code looks at.

### WsdJobModel

One action per method; a call in the wrong state or with other credentials throws and
changes nothing, so it has no step. `CreatedJob` is what `decode_wsd_create_scan_job_response()`
makes of a response whose elements may be missing or repeated. `OwnCredentials` is the check
of `begin_retrieve()`. The code keeps no credentials of a retrieval, since it has compared them;
the history variable `retriever` does, and is what the refinement mapping makes the abstract
`asker` of. `JobEnd` keeps the three ends apart.

### WsdXmlMemory, WsdDiscoveryXml, WsdSoapCodec, WsdXmlDocument

A decoder is what it does at the beginning of an element, at a text and at the end of
an element, as an operator from its memory to its memory; `WsdXmlMemory` is the memory,
in which texts are sequences of pieces that remember where they stood. Its operations (`Sees`,
`Enters`, `Leaves`, `Collects`, `Sets`, `Clears`, `Appends`) change one of its parts each, and every
decoder is made of them. `WsdDiscoveryXml`
has the decoders of probe matches and metadata, `WsdSoapCodec` those of description,
configuration, status and fault. `WsdXmlDocument` writes every well-formed document
that deviates from its schema in at most `MaxSurprises` places, node by node, and keeps the
reader's namespace scopes (`XmlReader::update_namespace_scope()`). An address is a
`urn:uuid:` one, which must match exactly; of an `http` address the code checks a prefix.

### SessionExport

The Save button over the file system. `Save` looks for all destinations, `Stage` looks
for the next one again and writes `<name>.tmp`, `Publish` renames. Another program may
create files between any two of them (`OtherCreates`), and any write may fail
(`WriteFails`). Nobody removes files while an export runs. `RenameReplaces` is FALSE on Windows,
where `MoveFileExW` without `MOVEFILE_REPLACE_EXISTING` refuses.

### PageRendering

`render_page()`: `Cropped`, `Rotated` by target coordinates, and `TonedImage` in integers over a
common denominator with the rounding of `std::lround`. `Masters` are the images that
`decode_pgm()` may have returned (`IsImage`): the runs take a few small ones, the proof any.

### PageEdits

The rules of the session's edits that callers meet: what a crop must satisfy and what
`rotate()` accepts and adds. `ScanSession` and `MockGuiPages` both extend it. `CropFits`
compares and subtracts unsigned words in the order of `set_crop()` and `validate_page()`;
`CropInside` says in plain numbers what it is for, and is what the properties use.

### MockGuiDiscovery

The Refresh button, the poll timer, the combo box and `WM_DESTROY`, for the one UI
thread. The module declares the variables of `WiaRequestService` and takes its actions
(`Service!Accept` in `Refresh`, `Service!Drain` in `Destroy`, `Service!Reply` in `Answer`), so the
window and the worker are composed through the interface that the worker was shown to
implement. A handler that waits is two actions: `StartWorker` and `Refresh` around the
return of `start()`, `Destroy` and `Destroyed` around `shutdown()`. Timer messages that
were posted before `KillTimer` find no future and change nothing. A failed `start()`
leaves a worker object that refuses every later `submit()`.

### MockGuiPages

Pre-scan, mode, resize, paint, mouse, scan, rotate, include and list selection. `rect` is what
the last `WM_PAINT` left, and mouse messages are dispatched before a pending
`WM_PAINT`, so it may be stale. A scan may fail after any of its pages (`ScanFails`), and
then the list is not refreshed. The conversion of a negative floating-point value
to `std::uint32_t` is undefined; `ToWord` gives zero or the value modulo the word, which is what
builds for the target produce. One axis stands for both. `WM_MOUSEMOVE` stores a
position that `WM_LBUTTONUP` overwrites before anything reads it, so it has no action. The
session without pages and no session are the same to every handler here.

## 4. Runs

| run | module, cfg | what it shows |
|---|---|---|
| `worker_safety` | `MCWiaComWorker.cfg` | all interleavings: no terminate, COM in pairs, nobody stranded, snapshot settles, cancellations stay with their request, refinement of the service |
| `worker_liveness` | `MCWiaComWorkerLive.cfg` | `start()` and `shutdown()` return, cancelled requests are answered, no lost wakeup |
| `session` | `MCScanSession.cfg` | any five editing calls on up to three pages keep pages, histories, ids and crops consistent, and what is published loads; crash safety, recovery, immutable masters |
| `session_backup_kept` | `MCScanSessionBackup.cfg` | a violation (section 7) |
| `session_rescan_blocked` | `MCScanSessionOrphan.cfg` | a violation (section 7) |
| `transfer` | `MCWia.cfg` | all callback orders and sizes over words of four bits; refreshes, cancellations and restarts of the backend; settings negotiated over properties of every shape |
| `wia_pages` | `MCWiaPages.cfg` | a violation (section 7) |
| `wsd` | `MCWsd.cfg` | refreshes with every answer, failure and cancellation; one HTTP call; one job; six decoders on deviating documents; calls end |
| `gui_discovery` | `MCMockGuiDiscovery.cfg` | future, timer, list and worker agree; one request at most; searching and closing end |
| `gui_pages` | `MCMockGui.cfg` | the list shows the pages, the selected area needs a pre-scan, a steady drag stays inside; exports replace nothing and stay whole; a rendering is exact |
| `gui_rotate` | `MCMockGuiRotate.cfg` | a violation (section 7) |
| `gui_crop` | `MCMockGuiCrop.cfg` | a violation (section 7) |

**Bounds.**
- `worker_safety`: three requests, so that one is in hand, and two wait behind it and
  can change order or be lost at shutdown; a queue of two, so that a third
  waiting request is refused when none is in hand; two starts, so that a
  worker runs after a shutdown and after a failed start. Requests are
  interchangeable: the run is symmetric in them, and it checks no liveness.
- `worker_liveness`: two requests, no symmetry, one start (liveness of a second
  start is that of the first, since `StartThread` resets what the first one left).
- `session`: a behaviour has one of two kinds, `editing` and `saving`. An `editing` one has all
  editing calls and one `save()`: five edits on up to three pages, the fewest with a reorder that
  is not its own inverse; two revisions in a history, so that its order matters; words of three
  bits and a crop that fits both frame sizes, one that fits only the large one, an empty one, one that
  ends outside and one that begins outside; tones on both sides of the limit. A `saving` one has
  four edits of up to two pages that change files (rotation, crop and tone change nothing a crash
  could tear), crashes, one decayed manifest, and three saves, so that current manifest, backup and
  stage differ. `MaxRecords` is 3, so that the manifest's limit bites in both.
- `transfer`: `Word` = 16, page limit 3 and total 7, so that sums of legal sizes
  exceed the total and every byte count of the word is offered as a chunk.
  Two devices and a discovery of at most two, so that a device repeats and one too many
  is seen; three generations, the last of which throws. Ranges that start below, end above
  and step over the accepted resolutions 3 to 9, lists, scalars, unreadable and missing
  properties; page ranges on both sides of the limit of 3, and one of 2 to 4 in steps of two.
- `wsd`: three devices, two hosts and at most two candidates, one match per datagram, so that every
  limit is exceeded; two generations. Words of three bits, a response of at most 5 bytes in
  pieces of any size. Two valid credentials and one invalid, two images and 6 bytes.
  Documents with one deviation and two repeated elements. (With two deviations the
  status and description decoders were also checked in full.)
- `gui_discovery`: three searches, so that one follows a success and one a failure; a
  queue limit of one, which a second outstanding request would exceed next.
- `gui_pages`: a frame of 4 pixels in previews of 7, 9 and 11 positions, so that no scale is
  whole; mouse positions on, next to and outside the edges of each; at most two
  pages, so that a feeder batch can fail at its second page. Sessions of one to three pages for
  two exports, and one file of another program, under any name an export uses. Masters of 2x3,
  3x1 and 1x1 pixels with every crop and rotation, and tones at every end of their ranges.

In `transfer`, `wia_pages`, `wsd` and `gui_pages` each behaviour exercises one of the objects (`activity`):
they share no variable in the program (but the cancel flag of a WSD call), so that
interleaving them would add states and no behaviour.

**Deadlock** is checked in the worker's runs, in `transfer`, `wsd` and `gui_pages`. (The
worker's system stops nowhere: an owner that has used up its starts may call
`shutdown()` again.) It is not checked for the session, whose calls are bounded and whose
owner may stop, and for `gui_discovery`, where the window may be gone.

**Fairness** (`FairSpec`). A thread that is inside a call of this module goes on when
it can, since nothing in the code keeps it: weak fairness of the owner's and
the worker's steps, and of the pending `notify_one` of each `submit()`. Nobody is
obliged to call anything: there is no fairness on `StartThread`, `Submit`,
`RequestCancel`, `BeginShutdown`. `Execute` is an external driver: it is assumed to
return only when its flag is set (`WF_vars(Execute /\ cancelFlag)`), which is what
the backend interface asks of it. `AcceptedAnswered` states its stronger
hypothesis itself. Wakeups without notification have no fairness, so that a lost
notification would show as a violation.

`MockGuiDiscovery` assumes that the worker answers (which `AcceptedAnswered` and
`ShutdownReturns` show of it), that messages of a set timer are dispatched (the message loop
of `wWinMain` runs until the window is destroyed) and that a handler goes on when its
wait is over. Nobody has to click.

The run `wsd` assumes that an exchange and a WinHTTP call return (WinHTTP has timeouts, which
the transport sets, and does not report available data that it then never delivers) and that the
thread in `refresh()` is scheduled; nobody has to call or to cancel. `CallsReturn` then says
that both end, whatever is answered.

## 5. Theorems

Each proof module shows an inductive invariant with one lemma or step per action
and derives its theorems from it. The type invariants of the modules are proved, not
listed in runs.

- `WiaComWorker_proofs`: the type invariant, `NoTerminate`, `ComLifetime`, `NoStrandedRequest`,
  `SnapshotSettles`, `CancelBelongsToRequest` and the refinement `ImplementsService`, for any
  set of requests (also an infinite one), any queue limit and any number of starts. None
  but the type is inductive. The strengthening ties the program counters to what they mean: which
  places of `run()` have a request in hand and which lifecycle state each has, that
  `active` is exactly the stretch from `TakeRequest` to `Finish`, what the owner's place
  says of the worker's, that every request accepted and not answered is in
  hand, in the queue or in the drained deque, and that the queue is
  empty once the worker is past its swap. The refinement needs `Answering` besides: only
  accepted requests have answers, and a reply "cancelled" is only held for a request that was
  asked to stop. It has one lemma for each action that is one of the service; what is
  owed is computed once per place of `run()` (`OwedByPlace`).
- `ScanSession_proofs`: the type invariant, `HistoryComplete`, `IdsAreDense`, `ManifestsLoad`,
  `PagesMatchMasters`, `MastersImmutable`, `CrashKeepsCommitted` and `RecoversPublished`, for
  any limits, word and frame sizes, crops and numbers of calls. That accepted crops lie inside
  although the check subtracts words is a lemma of its own (`FittingIsInside`). The strengthening makes
  the page properties hold of all six lists that exist (memory, three files and two
  histories), says that loadable stays loadable because masters only grow, and
  gives for each place of `save()` what stage, backup and current hold.
- `MockGuiDiscovery_proofs`: the type invariant and the four invariants of the run, for any
  number of searches and any queue limit. The strengthening says that the worker's queue is
  empty or holds exactly the pending future's request, and relates the UI thread's place to
  the service's phase.
- `Subsequences_proofs`: what `Ascending` and `Subsequence` return, by the sets of numbers
  for which the recursion has got so far: the positions of the set, all of them, in ascending order.
- `Wia_proofs`:
  - The transfer: the type invariant, `WithinLimits`, `OutcomeConsistent` and
    `LateCallbacksAddNothing` for any word size and any limits the constructor accepts; so
    they hold for 64 bits. The strengthening (`Accounting`) says that pages and bytes
    are only counted under way and stay within the request.
  - The backend: the types, that a selection resolves to the device it was handed out for while
    its generation is current (`SelectionsResolve`), and that the backend implements
    `DeviceSelection` (`BackendIsDiscovery`). That needs two facts: the selections of the current
    generation are in the table of raw ids (`OfferedInv`), and what a refresh lists has each
    device once (`ListedOnce`), because what it keeps are first mentions.
  - The negotiation: `NegotiationHolds` for every driver, and that `PagesReported` holds where
    all page ranges start at one or below and go on by one (`PlainPagesAreReported`). The inductive
    invariant (`CapabilityInv`) says that each profile is backed by an item of the device: the one
    whose properties it was made of. A chain of lemmas follows each shape of property through mapping,
    preparation and read-back, among them that the values of a range start at its minimum and
    go on by its step.
- `Wsd_proofs`:
  - Discovery: the types, `SelectionsResolve`, `ListResolves`, that it implements `DeviceSelection`
    (`DiscoveryIsSelection`), and that a cancelled refresh asks the network nothing more; for any
    devices, answers and limits. The inductive invariant (`DiscoveryInv`) says that
    candidates and endpoints are each of distinct devices and of different ones from each other, that
    numbers and endpoints match while a search runs, what an exception leaves behind, and that the
    selections of the current generation have their endpoints.
  - HTTP: a response body stays within its limit for any word size, with the types
    as strengthening (the sum of two lengths below the limit does not wrap); a cancelled
    `post()` returns no response.
  - The job: its types, and that it implements `ImageTransfer` for any limits. The types say
    besides that a job has no credentials before it is created and that a retrieval has the job's.
- `WsdXmlDocument_proofs`: `DecodedAsWritten`, for documents of any length and depth with any number
  of deviations from the schema. `DocumentInv` has one part for each reason why the decoders
  get it right:
  - `Sound`: the open elements are elements of this message and the scopes reach as deep as they do;
    the memory has its shape, and it notes and asks for only what this decoder looks for (`Ready`);
  - `Standing`: as long as there was no empty element, what is being collected is collected
    inside the element it is for, and so every text collected for a field stood in it. (An empty
    element sets the field without an end that clears it, which is why the property excepts it.)
  - `Scoped`: the reader's stack of scopes has, where a type is read, the scope of the innermost
    open element on top;
  - `Nested`: an open element belongs to the part (`ProbeMatch`, `Hosted`) that encloses it;
  - `ProbeInv`, `MetadataInv`: what is collected for the current part comes from that part only, and
    what has been kept from one part each;
  - `FaultInv`: in a fault that keeps to its schema, what is collected for code and subcode comes
    from the `Value` directly inside each.

  The three layers of lemmas under it say what each operation does to the memory, what each decoder
  does at an element, a text and an end, and what a step of the reader does to the open elements.
- `MockGui_proofs`:
  - The page list: `ListShowsPages` with the types as its strengthening (rotating and including
    act by position in the list, so the selection must be one of the list), for sessions of any
    length; `SelectionNeedsPrescan`, which needs that positions stay clamped to the layout; and
    `DragStaysInside`, which needs besides that the start of a drag lies inside the rectangle it
    began on (`DragInv`), for any image size and scale: a division rounds down, a sum stays inside.
  - The exports: their types, `NeverReplaces` of each step for any folder and batch, without
    an invariant, and `ExportsAreWhole`. Its inductive invariant (`ExportInv`) says of the folder
    that the files under one name agree (`FilesWhole`) and belong to an export that has begun
    (`FilesOwned`), and of the batch that it is exactly the rest of the export under way, whose first
    files have been published and under whose name there is no image of another one (`Published`).
    It holds also where rename() replaces.
  - Rendering: `RenderIsExact`, for images of any size: an index stands for one position
    and a position for one index, so rotating by target coordinates, which the code does, reads each
    pixel once from the place where quarter turns would have taken it; the tone is a composition of
    monotone functions (product with a factor that is not negative, rounding, clamping).

The assumptions are the named ones on constants: `WorkerAssumption`,
`SessionAssumption`, `LimitsAssumption`, `GuiAssumption`, `ExportAssumption`, `HttpAssumption`,
`JobAssumption`, `BackendAssumption`, `CapabilityAssumption`, `RenderingAssumption`,
`DocumentAssumption`, and the `DiscoveryAssumption` of `MockGuiDiscovery` and that of
`WsdDiscoveryModel`. TLC evaluates them in the runs.

Where a proof needs an induction (over the positions of a list, for what a recursive function
returns), it is done with a set: the set of the numbers for which the claim holds contains 0
and with a number the next one, so by well-foundedness it contains all (`SetInduction`,
`IntervalInduction` of `Subsequences_proofs`). The induction theorems of the library, which take the claim as an
operator, are out of the provers' reach.

**Only model-checked:** the liveness properties (`ShutdownReturns`, `StartReturns`,
`CancelledAnswered`, `AcceptedAnswered`, `SearchEnds`, `CloseReturns`, `CallsReturn`), which are
outside TLAPS's reach here. Every invariant, action property and refinement that the passing runs
check is a theorem; `CancelEndsCalls` is the conjunction of what `CancelledRefreshEnds` and
`CancelledPostEnds` state of the two calls.

## 6. Not modelled

- Encoders of requests (SOAP, tickets, `wsd_job_codec.cpp`), the MIME boundary search and
  `decode_pgm()`: text and bytes without state.
- PDF and image encoders, `export_included_pgm()`: the first are pure functions; the last has the
  loop of the exports that are modelled.
- The cursor of the mock scanner: an index into fixtures.
- `scanner_backend_policy.cpp`: a table of constants with one condition per line, which a
  model could only repeat.
- WinHTTP, COM and the WIA driver: external, nondeterministic in the models that call them.
- The WSD job worker, session and transport that documents name: there is no
  source for them in `src/src`.
- Two processes on one session root: the code has no lock and claims none. It is
  listed as a hazard.
- The folder picker, resolution, layout and drawing in the GUI: they read the state
  modelled and do not change it.
- Failing allocation and thread creation in the worker, listed as a hazard.

## 7. Findings

- `session_backup_kept`. After `load()` recovered from `session.jscan.bak` because
  `session.jscan` was invalid, `save()` copies the invalid file over the backup
  before it publishes (`scanner_core.cpp:874`). Until the rename no manifest is
  readable: a failure or a crash there loses a session that was readable before.
  `docs/SESSION_CONTRACT.md:36-39` promises that publication retains the previous
  manifest as the backup.
- `session_rescan_blocked`. A rescan whose session ends without `save()` leaves
  the next revision's master behind. `publish_master()` refuses an existing
  destination (`scanner_core.cpp:693`), so that the reloaded session can never
  rescan that page; `docs/SESSION_CONTRACT.md:27-28` says that a rescan creates the
  next revision.
- `wia_pages`. `max_pages()` of the capability model keeps only the maximum of a feeder's page
  range (`wia_capability_model.cpp:85`), and `prepare_wia_property_writes()` compares a request with
  that. Of a range of 2 to 4 in steps of two, requests for 1 and for 3 pages are written;
  `docs/WINDOWS_WIA_ADAPTER_CONTRACT.md:57-58` says that "A request is rejected unless every
  requested value is in the driver's list/range/flags."
- `gui_rotate`. `rotate_selected()` passes the page's new angle where
  `ScanSession::rotate()` expects the angle to add (`mock_gui.cpp:436`): presses of the button
  labelled "Rotate 90 degrees" (`mock_gui.cpp:739`) turn by 90, then by 180, and are then refused.
- `gui_crop`. `finish_selection()` relates a drag that was clamped to an earlier
  `preview_image_rect` to the present one (`mock_gui.cpp:658`). After a repaint in between the
  selected crop can lie outside the frame; the scan that follows then keeps an
  uncropped page and reports failure. `docs/SESSION_CONTRACT.md:29-30` requires crops to remain
  inside. `DragStaysInside` shows that a drag over a steady preview is never affected.

Noted while reading, without a run, since no line of a document or a test is contradicted, or
none that a run could check:

- `README.md:95-96` says that the mock workspace does not open the production WIA
  backend; its Refresh button does (`mock_gui.cpp:225-228`).
- `max_pages()` caps a page range at 10000, where the transfer model's default limit is 1000
  (`wia_transfer_model.h:23`).
- Legal edits can make a session that `save()` refuses: `rescan()` limits the history of each page
  (`scanner_core.cpp:791`), `save()` that of all pages together (`:827`) and the size of the
  manifest (`:867`).
- An entry with invalid metadata makes `WiaDiscoveryModel::refresh()` forget a later duplicate
  of the device with valid metadata.
- A WSD refresh cancelled during its last exchange still returns its list; one cancelled
  earlier invalidates the earlier selections, where a WIA refresh that fails keeps them.
- A response of type `multipart/related` to a request of type `application/soap+xml` always fails the
  type check of `post()`.
- `WsdJobModel::fail()` asks for no state, so that it turns a complete or cancelled job into a failed
  one. `tests/test_main.cpp:250-258` calls failed and cancelled "terminal", but calls nothing on a
  job that has ended.
- After an empty element the decoders go on to collect into its field; repeated manufacturer, model and
  address elements are concatenated.
- Elsewhere than on Windows the rename of an export replaces a file that appeared
  meanwhile, although `docs/EXPORT_CONTRACT.md:4-5` refuses to; the runs model the Windows
  build. A stage file `<name>.tmp` is overwritten, and left behind when staging fails.
