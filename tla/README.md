# TLA+ models of rvt-rs

rvt-rs reads Autodesk Revit files. Most of it is a pure function from bytes to
elements, and is tested as one. What is hard to test is around that function:
an MCP server whose tool calls share open models while the files change, a
handle that remembers things between one export and the next, writers that
must never leave half a file under a name somebody reads, and a browser page
whose workers answer late, or not at all. These modules model those parts from
the source, check them with TLC on small instances, and prove what matters most
of each with TLAPS for every size.

    tlc -config MCModelStore.cfg MCModelStore.tla
    tlapm ModelStoreProofs.tla

`PROJECT.json` lists every run, the lines each definition stands for, and for
each property a mutant of the model that breaks it. Mutants stand in the
modules beside what they mutate, marked "Mutant of"; no specification uses them.

## Inventory

| part | source | state | operations | what is hard | what makes it right |
|---|---|---|---|---|---|
| MCP model store | `rvt-mcp/src/store.rs` | `entries` and `phases`, each a vector behind a mutex | `open` by path or model_id, at a phase or none | every open is a dozen steps with the mutexes free between them, and the file changes meanwhile | what is held, remembered and answered is true of the file it names; one entry a model; one generation a path |
| tool jobs, default decode | `rvt-mcp/src/server.rs`, `store.rs` | two mutexes and a slot an entry, a cancel flag a request | `run_job`, `Entry::computed`, `Entry::with_file` | jobs wait for each other on pool threads; cancellation, error, panic | one decode at a time, kept once, failures private, all answered |
| MCP exports | `rvt-mcp/src/output.rs`, `exports.rs` | a temporary file each, the target | `ifc`, `gltf`, `plan`, `write` | others use the names; cancellation and kills between steps | no partial target, nothing replaced unasked, answers true |
| `RevitFile` handle | `src/reader.rs` | phase, two switches, memoised walk, notes | `set_export_phase`, `clear_export_phase`, `record_*`, `cached_walk`, `store_walk` | what an export leaves for the next one, also when cut short | an export is what a fresh handle gives; notes and walk agree |
| production walk | `src/walker.rs`, `src/control.rs` | the handle's | `walk_shared` | order of checks, resets and stores | as above |
| export pipeline | `src/ifc/export_pipeline.rs` | the handle's | `run_export_with_limits_and_control` | switches set before a walk that may be an old one | as above |
| project phases | `src/research/native_phases.rs` | a filter | `compute_phase_filter`, `with_export_phase`, `differs_in_effect_from`, `excludes` | a named last phase is not the default last phase; rooms go by a rule of their own, elements by two dates | the walk is dropped when what it wrote would differ; rooms of one phase; nothing left out unsaid |
| stream writer, `rvt-write` | `src/writer.rs`, `src/bin/rvt_write.rs` | temporary file, target | `write_with_patches`, `run` | three ways to write, failures, kills, other writers | the target is whole; what is written is what was asked |
| viewer: loads | `viewer/src/main.ts`, `worker.ts` | current file, phase, decoder, model, loading card, compiled wasm | pick, drop, demo, reopen, change phase; the decoder's messages and events | a load awaits its bytes and then a worker, either of which another load, a failure or the browser may overtake | what is shown is of the file last opened; every load ends |
| viewer: saved parameters | `viewer/src/main.ts`, `parameters-worker.ts` | pending panel, group, target, timer, reader, lock watch, cache | select, clear, read, try again; the reader's messages, timeout, lock | five ways for a read to end race, and readers that stop say nothing | one read at a time, of what is on the screen, and none that never ends |
| compression, stored pages | `src/compression.rs` | none | inflate under limits, strip page trailers | boundaries | not modelled |
| record routing | `src/research/partition_element_records*.rs`, `partition_schema_mvp.rs` | none kept | merges of readers' rows | which row of an id wins | not modelled |
| decision log, provenance | `src/ifc/export_decisions.rs`, `element_provenance.rs` | none kept | build, merge | caps and sums | not modelled |
| container readers, IFC and glTF writers, geometry | `src/*.rs`, `src/ifc`, `src/geometry` | none | pure | byte formats, reals | not modelled |
| Python and wasm bindings | `rvt-py`, `rvt-wasm` | a handle; none | forward to the library | the phase a handle keeps | `phase_for_export` is in RevitHandle |
| command-line tools | `src/bin` | none | one pass over a file | nothing shared | not modelled, but for `rvt-write` |
| probes, fuzz, benches, reports, CI tools | `probes`, `fuzz`, `tools`, ... | | | | not part of the program |

How they meet: the server's tool calls are asynchronous tasks of one thread.
Each starts a job on tokio's blocking pool (`run_job`). The job opens a model
(`Store::open`), decodes it (`Entry::computed`, which runs the export pipeline
on the entry's `RevitFile` under its mutex, and so the production walk), and,
for an export, writes it (`output::write`). A client's cancellation reaches the
task, which sets a flag the walk and the writer look at now and then. The
library's other callers, the command line and the Python and wasm bindings, run
the same pipeline on a handle of their own, and `writer.rs` works on files only.
The viewer is a page and two kinds of worker. The page starts one decoder for
each load, which opens the file with the wasm bindings and then answers for the
panel of an element; and one reader for each element whose saved parameters are
wanted, which opens the file again. They share nothing and speak by messages;
the page ends a worker when it has no more use for it, the browser when it has
no memory left.

The hazards this exposes the code to, each at its line, are listed in
`PROJECT.json` with the properties that would catch them.

## Modules

| module | models | abstract specification |
|---|---|---|
| `ModelStore` | the store | `LruModels`, through `ModelStoreLru` |
| `EntryDecode` | jobs on one open model | `OnceModel` |
| `RevitHandle` | exports on one handle | |
| `ExportWrite` | exports to the file system | `AtomicExport` |
| `PatchWriter` | the stream writer and `rvt-write` | `AtomicWrite` |
| `PhaseFilter` | the phase rules, and what a handle keeps of them | |
| `ViewerLoad` | opening a file in the viewer | |
| `SavedParameters` | the element panel, over `ViewerLoad` | |
| `...Proofs` | theorems about the module they are named after | |
| `MC...` | small instances, one module each | |

The modules are composed by what they assume of each other. `ModelStore` ends
where a request has an entry; `EntryDecode` starts there, takes the decode as
one step that ends in a model, an error, a cancellation or a panic, and shows
that one job at a time is in it. `RevitHandle` is that step opened up: one
caller at a time (`OneDecoder` is what entitles it to that), any number of
exports one after another. `ExportWrite` begins with the decode as one step.
`RevitHandle` takes a walk to be determined by the two phases in effect, and
`PhaseFilter`, which says what the phases decide, shows that it is
(`MemoIsCurrent`). `SavedParameters` has `ViewerLoad` as an instance, on the same
variables: its steps are a load's steps with what they do to the panel, and
steps of its own that leave the load alone.

### ModelStore

A job's `pc` is where it is between two critical sections or file accesses of
`Store::open`: `stat` is `Identity::of`, `find` is the first critical section
of `by_id`, `verify` its `unchanged`, and so on; the map gives the lines. The
file at a path is a number that grows when it is replaced and is 0 when there
is none; the number stands for the bytes and for the (size, mtime) pair that
identifies them. That two states of a file always differ in that pair is the
assumption the server makes, and what it cannot check; the model has it too.

A job serves one request, so it makes at most one entry and remembers at most
one resolution. The two vectors are therefore functions from the job to the
position its entry or resolution has, 0 for none, which keeps the order, the
moves to the front and the truncation, and is what makes the proofs arithmetic
on sets instead of sequences. `Vector` recomputes positions after members went
or moved. `ModelStoreLru` reads the models off in that order (`Line`), and
`LruModels` says what a caller may think of: a sequence of distinct models that
is used, added to or cleared of a path's old state in one step. Its `Kept` is
written with cardinalities and not with `SelectSeq`, which the provers cannot
open; the instance checks that the two agree (`KeptSelects`). `Rest` lets a
finished system stutter, so that TLC still reports a deadlock anywhere else.

`PhaseOf(path, state, spelling)` is the phase a spelling names. The instances
renumber the phases between two states of the file, so that a resolution of
one state misleads in the other.

### EntryDecode

One open model. Requests are jobs that queue for `Threads` pool threads; those
for the default decode take `default`, then `file`; exports with other
switches take `file`. A decode ends with a model, an error, a panic, or, if the
flag is set, as cancelled; the first check of the walk comes after the steps
that set the phase and switches. `ran` and `early` are history: who began a
decode, and who had been cancelled by then. A panic marks the mutex poisoned,
and `Obtains` says that this does not matter, which is `lock`'s
`PoisonError::into_inner`; its mutant is an `unwrap`.

### RevitHandle

The elements of a walk are represented by what determines them: the key of the
memo and the pair (export phase, rooms' phase) in effect. The notes in the
handle are the set of walks that left them there, so "the notes are of this
walk" is an equation. `Options` are all an export can ask for that the handle
remembers; one without `export` is a bare walk or the exporter without the
pipeline, which sets no switch (`RvtDocExporter`). A walk that fails to read
the file is left out: the file of a handle does not change, so it fails again.
`Unknown` is a phase the file lacks: it is refused before anything is set.
`cut` is history: the last walk to be broken off after its reset of the notes
left an older walk memoised. `NotesFollowWalkUnlessCut` and
`TableAndLogFollow` hold unless it is set. `NotesFollowWalk` is the first without
that condition: it is what `reader.rs:595` says, and only true of handles used
under one set of limits.

### ExportWrite

`dir` maps each path to who wrote the file there and how many chunks of it there
are, or to a link to the model; `temp` is the temporary file of an export, which
nobody else can name. Callers name a path by a spelling, of which a path may have
several (letter case, where it does not matter); `Entry` says which path a
spelling is of, and `plan` compares what the target is once it is canonical.
`persist_noclobber` either renames or links and unlinks; both are there. Others
create and remove files and links, but no temporary files, and leave the model
itself alone. The model's own path is among the targets, for `plan` to refuse.

A temporary file goes with the value that names it (`Drop`), which is a step
after the write, the check or the rename that failed, and after which alone it is
decided whether a failed write is reported as a cancellation. `tempfile` ignores
an error of that removal, so it does nothing while the folder is closed (`Close`:
read-only, or writable again); `LeavesNoTemp` therefore speaks of ends in a folder
that is open. A kill leaves the temporary file, as no code can help.

`AtomicExport` has no steps between the request and the answer: a whole file is
under its path and the answer says so, or nothing changed and the answer says
that. A file that is not whole is a thing no action of it can put there.

### PatchWriter

Names lead to inodes. That is needed because a temporary file that is renamed
while another call still writes to it goes on changing under its new name. A
file is its streams and whether it is whole; a patch in place makes it not whole
until the flush. The three ways (`copy`, `rw`, `tmp`) have each their own
temporary name. `Killed` ends all calls of a process, between any two steps. Two
ways treat a stream that is patched twice differently: in place the last patch
wins, and rewriting (`src` is `dst`) the first; `AtomicWrite` accepts either, as
no document says which. It lets a call take its source any number of times
before it writes: a way that copies opens the source again after the patches
were checked, and what counts is the second look. What it does not allow is a
target made of two states of the source. `Fail` removes the temporary file of the
ways that patch, which have a guard, and leaves the copy's, which has none
(`patches_copy`). `Process` says which calls share a
process: each has its own in `patches`, as commands do, and all share one in
`patches_threads`.

### PhaseFilter

A project is an order of phases, two dates for each element, what the copies of
each room's record name, which records are placed, and whether the release can
be scanned for placement; it is chosen once, in `Init`, among all there are in
the instance. The state that changes is what the handle keeps: the filter, the
memoised walk, and the last report of what was left out. An element is one
record; a file's records of one element may disagree, and then one that excludes
is enough. Phases are ids: names and how a request is matched to them are left
out, and so is a file whose phases cannot be read, for which no phase can be
chosen. The scans are of the categories the library recovers.

### ViewerLoad

A load is a call of `loadBytes`, named by its number; a file by the load it was
first picked for, since a file picked again is another `File`. `pc` says which
await a load is at. A decoder is its `stage`, the requests that wait for it and
the messages it has sent; what a worker that was ended has sent is not
delivered, but an error event it raised may still come (`errors`). A decoder
takes requests while its wasm starts, since it awaits there, and none while it
parses. The page says whether the wasm is at hand when it starts the decoder;
the model asks when the decoder starts it, which is the same, because nobody
else can hand it over in between. Progress, the summary and the limits of an
open are left out; a failure for want of memory is a failure.

`Overlapping` says whether a load may begin while another awaits; the page does
not prevent it, and what happens is the run `viewer_overlap`. `Silent` says
whether the browser may end a decoder with no event. `Demos` and `Phased` are
there to keep instances small.

### SavedParameters

`box` is the panel's group of saved parameters, as the element it is of, its
state and what it shows; a panel without one that has an id is `None`. What is
read is a pair of element and file. `Group` is `savedParametersGroup`, with its
four cases. `FinishRead` is called by `Settle` alone: the two other ways into it
in `readSavedParameters`, no file and no wasm, cannot happen (`ReadIsReady`). A
reader that is ended has its messages dropped; an error event or a lock that is
granted is a callback already under way and comes all the same (`events`), for
`settle` to refuse. A row that is selected with a model always has a name and a
type to put in the panel's place, since entities have both and all rows are of
the model; `showElementInfo` returns early, and leaves the panel as it is, only
with no model, and then there is no group in it (`ReadingIsOfElement`). Whether
the page holds much memory is chosen when a model comes and may change with an
export. A page with no `navigator.locks` is left out.

## Runs

| run | instance | shows |
|---|---|---|
| `store` | 3 requests, 1 file in 2 states or absent, 2 spellings, 2 places for entries and 1 for resolutions | entries and resolutions are true, no two entries of a model or generations of a path, answers are fresh and at their phase; the opens implement the atomic cache `LruModels` |
| `decode` | 2 default requests, 1 other, 2 threads | mutual exclusion, one decode, private failures, timely cancellation, refinement of `OnceModel`; every request is answered, and a cancelled decode ends |
| `handle` | 2 phases, rooms in the earlier, 2 sets of limits, cancellations and panics | the elements are what a fresh handle gives; notes, sources and frames are of the walk unless one was cut off |
| `exports` | 2 exports, 1 target and the model, which has 2 spellings, links to it, 2 chunks | whole targets, model kept, nothing replaced unasked, no temporary file left by an end in an open folder, every export ends; refinement of `AtomicExport`, by which answers are true |
| `patches` | 2 calls in 2 processes, 2 files, 2 streams, manifests that patch two streams, one stream twice, too long, missing, none | whole targets, nothing put in place by a call that fails, temporary files of the ways that patch gone; refinement of `AtomicWrite`: what was asked is written, of one state of the source, or nothing |
| `patches_threads` | 2 calls in 1 process | *violated*: a target is not whole |
| `patches_copy` | as `patches` | *violated*: the copy's temporary file stays |
| `phases` | all projects of 0, 2 or 3 phases, 1 element, 2 rooms | the memoised walk is current, rooms are of one phase, nothing is left out unsaid, lives go one way |
| `viewer_load` | 3 loads, 1 entity, 1 request under way | the model, the phase asked for, the card and the wasm are of the file last opened; every load ends |
| `viewer_overlap` | 2 loads that may overlap | *violated*: the model is not of the file kept as open |
| `viewer_silent` | 2 loads, a decoder may end with no event | *violated*: the card stays up |
| `parameters` | 2 loads, 2 entities, one a piece of another element, 2 requests under way, 2 readers, 1 reading kept | one read at a time, of the element selected and the file shown; a group that loads has a read; none unasked after one ran out of memory; no group stays loading |

Why the bounds are enough. Three requests are what it takes for the store's
worst cases: one holds an entry, one inserts another over it and a third comes
back to what it stored. A file in two states, plus absence, has every stale
pair, and its phases in the two states are renumbered, kept and lost. Two
places hold two phases of one state, and with three requests an insertion still
evicts; one place for resolutions makes every resolution evict the other, and leaves
it to `HeldOnce` that no spelling is remembered twice. What
the instance has one of, the proofs have any number of: paths, and spellings
that name one phase. In `EntryDecode`, one job decodes, one waits for a mutex,
and with two threads for three jobs one is queued. Two phases with a fallback
are all the relations `differs_in_effect_from` can see: other phase, same phase
with other rooms, same. Two chunks have a state that is neither empty nor
whole. Two calls are all that can meet in one temporary file, and two streams
tell a patched one from one left alone.

Three phases are what the fallback needs to choose among earlier ones, two rooms
are what can be of two phases, and a project of two phases leaves one that a
record may name and the project does not have; elements do not look at each
other, so one is enough. Three loads are one that leaves something behind, one
that is overtaken and one that finds what is left. Of the panel, two loads are a
file and the next; one of the two entities is a piece folded into another
element, so its answer selects that element, and two requests under way have an
answer come for an element clicked past; two readers are one that was left
and one that took its place, which is all that can be confused, and a cache of
one makes every reading put another out.

The bounds are `MaxWritten` (how often a file is replaced), `Chunks` (of an
export), `MaxLoads`, `MaxAsks` (requests a decoder has not answered) and
`MaxReads`; the guard of each stands in the action that would pass it (the
upcoming load, `Ask`, and `Free` for readers: a delay starts only while a reader
is left for it). Symmetry is used over the store's requests, for invariants and
the refinement, never with liveness. The deadlock check is off in the runs of
the viewer alone: when the last load and the last reader are spent and every
answer has come, the page waits for a user it need not hear from.

The type invariants are theorems, and no run repeats them but `parameters`, where
the size of the cache is the point of it.

## Where the code and its words differ

The first four are runs that TLC must find violated; `PROJECT.json` has the
quotations. The others were met on the way and are recorded here.

1. `patches_threads`. "The write is atomic" (`writer.rs:224`), but two threads
   that write one target share a temporary file, which is named by process.
2. `patches_copy`. The temporary file is said to be unlinked on any early return
   (`writer.rs:37`), and the copy to have the "same durability contract"
   (`writer.rs:281`); the way that copies has no guard, and a copy or rename that
   fails (`writer.rs:296`) leaves its file.
3. `viewer_overlap`. A file can be dropped on the page while another is read.
   `loadBytes` does not look, after its await, whether it is still the load that
   counts (`main.ts:1287`): the decoder whose bytes come last has the page, and
   `currentFile`, which a retry, a change of phase and the reads of saved
   parameters use, is the file opened last. In the same way a read that fails
   ends the other load's decoder, and a demo that cannot be fetched takes the
   other load's card down (`main.ts:4453`).
4. `viewer_silent`. The page means to say so when the browser ended the decoder
   (`main.ts:1288`), but it only listens for events, and `parameters-worker.ts:27`
   says that a worker the browser ended raises none. The reader has a lock and a
   start-up timeout for that; the decoder has neither.
5. The store is "most recent first" (`store.rs:348`), but an open by path that
   finds the entry another call has just inserted answers it where it stands:
   the model just answered may be the next evicted.
6. What an insertion drops is commented as "the file's earlier self"
   (`store.rs:515`); a slow open of the earlier state drops the later one's
   entries. The next `open` of the path reads the file again: nothing stale is
   answered, which `NeverOlderThanAsked` shows.
7. The documentation above `framed_patch_bytes` says that a failure "leaves the
   temp file behind", which the ways that patch do not, and the comment at
   `writer.rs:484` a fall-back to copy and remove that is not there.
8. `--patches` is documented as optional with `--dry-run`
   (`rvt_write.rs:61`) and is not; a dry run is documented to check that the
   streams exist (`rvt_write.rs:66`) and does not.
9. While a file loads the tree still has the rows of the one before, and a row
   that is selected then asks the new file's decoder, by index
   (`main.ts:2358`): the panel shows the new file's element.
10. A request made when there is no decoder, or of one that has died, is never
   answered, and the panel stays busy (`main.ts:2360`, `:3296`).
11. Without `navigator.locks`, a reader that vanishes once it has started is not
   found out (`main.ts:3115`), though "A worker the browser ends without a word
   is found by the lock it held, or by not having started" (`main.ts:3064`).
12. The memory a read is made beside is looked at when the element is selected
   (`main.ts:3167`); an export in the 150 ms before the read may have grown it.
13. Notes are said to follow the memoised walk (`reader.rs:595`). A walk under
   other limits replaces them before its last check; cancelled there, it leaves
   the older walk memoised with notes that are not its own, which is the case
   `NotesFollowWalkUnlessCut` excepts. A handle that is used under one set of
   limits, as the server's is, never gets there (`NotesAreOfTheWalkUnderOneKey`).

## Fairness

The invariants assume none. `EntryDecode!Spec` has weak fairness of each job's
steps before and after the decode, of its join and of the forwarding of its
cancellation: the operating system runs the pool's threads, `select!` polls all
its branches, and a mutex that jobs take once each is granted in the end; a job
whose mutex is held has no step to be fair about, so nothing is assumed of the
order in which waiters get it. The decode itself is only fair once its flag is
set, because the walk checks it every MiB, every 256 candidates and before each
partition stream: by itself a default decode may take longer than anybody
waits, and `EveryRequestAnswered` has to say who does not wait for ever. (The
decode of an export with other switches is taken to end.) Clients are not
assumed to cancel. `ExportWrite!Spec` has weak fairness of each export's step
while the server lives. A write that fails is a step, so a full disk ends it.

`ViewerLoad!Spec` has weak fairness of the awaits (a read of a file ends, with
bytes or not), of the decoder's steps (a decode ends: it is a computation) and of
the page taking messages and events. No user need do anything, no demo be
fetched, and no decoder be asked. `SavedParameters!Spec` has weak fairness of the
page's timers, messages and events, of the browser giving the page a lock whose
holder has gone, and of a reader that has started either answering or being
ended; a reader that has not started may never start, which is what the timeout
is for. It assumes nothing of loads or of the decoder.

## What is proved

`ModelStoreProofs` proves, for any finite set of requests and any sets of
files, phases and spellings, any memory sizes, and any number of replacements,
that these are invariants of `ModelStore!Spec`:

| theorem | property |
|---|---|
| `TypeCorrect` | `TypeOK` |
| `HeldIsTrue` | `StoreIsTrue` |
| `HeldOnce` | `StoreIsOne` |
| `StoreIsLru` | `RefinesLru`: every step is one of `LruModels` or a stutter |
| `MemoriesFit` | neither vector outgrows its size |
| `AnswersAreFresh` | `NeverOlderThanAsked` |
| `AnswersAreAtPhase` | `AnsweredAtPhaseAsked` |

They rest on the assumptions named in the module: requests are a finite set
(positions are cardinalities), sizes are positive, `None` is none of the values,
and `PhaseOf` of a state a file can have is a phase or `None`.

None of the properties is inductive. `StoreIsTrue` speaks of the moment a file
still has the state an entry is keyed by; it is kept because states only grow: a
job that took an identity and later read newer bytes read them from a state the
file can never leave downwards. The inductive invariant therefore says of every
job in between how its identity, what it read and what it resolved relate to the
latest state written, and of entries and resolutions that what they hold is no
older than what they are keyed by and, if it is that state, at its phase.
`Invariance` proves it, one lemma an action, with lemmas about `Vector` (who is
in it, and where the first stands) that are stated once and used for every move.
The first properties follow from that invariant alone.

The refinement needs one more: the positions of the entries held are 1, 2, ... up
to their number, each once (`InLine`), which is an induction of its own beside the
first. Under it a member's position is its rank, the number of members not behind
it, so what `LruModels` calls the line is a function from ranks to models
(`LineIs`). Two lemmas carry every step: keeping a set of models keeps the order of
what is left (`KeptIs`), and moving or inserting one at the front shifts the others
by one, with the last dropped if there is no room. `HeldOnce` takes the same
argument to the resolutions: a spelling is remembered once.

`EntryDecodeProofs`, for any finite set of requests, default and other, and any
number of threads:

| theorem | property |
|---|---|
| `MutualExclusion`, `DecodesOnce` | `OneDecoder`, `DecodedOnce` |
| `FailuresArePrivate`, `CancelledBeforeBegun` | `FailureIsOwn`, `CancelledInTime` |
| `NothingLeftHeld` | `EndedHoldsNothing` |
| `NobodyIsStuck` | `NobodyStuck` |
| `Implementation` | `RefinesOnce`: every step is one of `OnceModel` or a stutter |

Here the invariant says that the holder of each mutex is whoever stands between
taking and dropping it, that the slot is empty while `default` is held, and for
each job what it may have as a result where it stands. `NobodyStuck` is the safe
part of `EveryRequestAnswered`: a job that has not been answered can go on, or
is at the end of a chain of at most three who wait for a thread or a mutex, with
one who can go on at its head, because `default` is taken before `file` and
never after. It is stated over program counters, as the provers know nothing of
`ENABLED`. The assumptions are that there is a thread, no request is of both
kinds and that `None`, requests and failures are distinct.

`RevitHandleProofs`, for any project phases, with a fallback for rooms or
without, and any limits:

| theorem | property |
|---|---|
| `HistoryDoesNotShow`, `PhaseIsAsked` | `ElementsAsFresh`, `PhaseAsAsked` |
| `NotesAreOfTheWalk` | `NotesFollowWalkUnlessCut` |
| `TableAndLogAreOfTheWalk` | `TableAndLogFollow` |
| `NotesAreOfTheWalkUnderOneKey` | `NotesFollowWalk`, if there is one set of limits |

The invariant: the memoised walk has the effect of the filter the handle is at
(`differs_in_effect_from` is exactly what keeps it), and what was noted is of the
memoised walk unless a walk is between its reset and its end or was left there.
The last theorem is the documented claim of `reader.rs:595`, which is false in
general: it holds for every handle used under one set of limits, because a walk that
runs there has found no walk memoised.

`ExportWriteProofs`, for any number of exports, targets and chunks:

| theorem | property |
|---|---|
| `TargetsAreWhole`, `ModelIsKept` | `TargetIsWhole`, `InputIsKept` |
| `TempsAreRemoved` | `LeavesNoTemp` (an action property) |
| `NothingReplacedUnasked` | `ReplacesOnlyIfAsked` (an action property) |
| `Implementation` | `RefinesAtomic`: every step is one of `AtomicExport` or a stutter |

The invariant ties the temporary file, the target and the answer of an export to
the step it is at. Only `Place` maps to the abstract export, and the answer is
given with it even where the temporary file is still to be unlinked; every other
end maps to giving up. For `LeavesNoTemp` it says that an export which could still
leave a temporary file is at a step that does not end it: it ends at `Drop` or
`Unlink`, by a removal, at `Place`, by the rename, or before it has one.

`PhaseFilterProofs`, for any phases, elements and rooms of any project:

| theorem | property |
|---|---|
| `MemoIsAlwaysCurrent` | `MemoIsCurrent` |
| `RoomsAlwaysOfOnePhase` | `RoomsOfOnePhase` |
| `NoneEverLostUnsaid` | `NoneLostUnsaid` |
| `LifeAlwaysGoesOn` | `LifeGoesOn` |

The work is in lemmas about the rules and not in the steps: which phase's rooms
are taken, by default and by name, and that two filters which
`differs_in_effect_from` calls the same exclude the same elements and rooms. The
invariant adds that the filter kept is one of the project's.

`ViewerLoadProofs`, for any number of loads, entities and requests, provided no
load begins while another awaits its bytes (`~Overlapping`, without which the
first is false: `viewer_overlap`):

| theorem | property |
|---|---|
| `ModelIsAlwaysOfFile` | `ModelIsOfFile` |
| `FilesAreReadAlone` | `ReadsAlone`: no decoder lives while bytes are read (proved only) |
| `CardIsAlwaysTrue` | `CardIsTrue` |
| `PhaseIsAlwaysOfFile` | `PhaseIsOfFile` |
| `ModelAlwaysHasWasm` | `ModelHasWasm` |
| `CardAlwaysComesDown` | `CardComesDown`, if the browser is not silent |

None is inductive, since each depends on what a decoder may still say. The
invariant is that only the current load's decoder lives or has messages under
way, and what those messages may be, in order, at each stage: no model before
the wasm that it was made with, none after an error, no panel before the model.
`CardComesDown` is the safe part of `LoadEnds`: while the card is up, its load
is reading, or its decoder is at work, or a message or event that takes the card
down is on its way. `viewer_silent` shows what becomes of it when the browser is
silent.

`SavedParametersProofs`, under the same proviso, for any size of the cache and any
number of readers:

| theorem | property |
|---|---|
| `ReadsOneAtATime` | `OneRead` |
| `LoadingIsAlwaysRead` | `LoadingIsRead` |
| `ReadingIsAlwaysOfElement` | `ReadingIsOfElement` |
| `GroupIsAlwaysOfSelected` | `GroupIsOfSelected` |
| `AlwaysAsksAfterRunningOut` | `AsksAfterRunningOut` |
| `LoadingIsAlwaysHeard` | `LoadingIsHeard` |
| `ReadsAreReady` | `ReadIsReady` |
| `LoadFlowIsKept` | every step is one of `ViewerLoad`'s, or leaves the load alone |

`LoadFlowIsKept` lets the proofs of `ViewerLoad` be used: its invariant holds
here too, and says that a panel comes only while its model is shown. Beyond it
the invariant says that the read under way, the group and all that is kept are
of the open file, because a load ends all three, and that the reader held is the
target's, so the answer which `settle` lets through is for the group that waits.
`GroupIsOfSelected` is an induction of its own beside it: a group keeps its element
until the panel is cleared, and one that takes its place is of the panel waited for.
`LoadingIsHeard` is the safe part of `LoadingEnds`: behind a group that loads is
a delay, or a reader whose start is timed, or one that has started and is at
work, has posted its outcome, or has gone and left its lock to the page.
`ReadIsReady` says that a read begins with a file and the wasm, so that the
model may leave out the two early errors of `readSavedParameters`.

`PatchWriterProofs`, for any calls, files, streams and lists of patches, provided
no two calls are of one process (`Separate`, without which the first is false:
`patches_threads`):

| theorem | property |
|---|---|
| `TargetsAreWhole` | `TargetIsWhole` |
| `NothingIsLeft` | `CleanUnlessCopy` |
| `Implementation` | `RefinesAtomicWrite`: every step is one of `AtomicWrite` or a stutter |

A temporary name tells its process, so under the proviso it leads to what its
own call made or to nothing, and nobody else writes there. What names of files
lead to (`Settled`) is what was there to begin with or what a call finished, and
that is whole and no longer written to. Between opening the copy and renaming
it, what it holds is the source with the patches done so far (`Patched`), one
lemma for a patch and one for the rewriting. In the refinement a call takes its
source when it opens it to read and, by the ways that copy, when it opens it
again; what it then has open is settled, so it is still that state when it has
been copied.

Each of these modules has a theorem `Invariance`, that the inductive invariant
holds, and one `TypeCorrect`, which the others rest on.

Not proved, and left to TLC: liveness (`EveryRequestAnswered`,
`CancelledDecodeEnds`, `EveryExportEnds`, `LoadEnds`, `LoadingEnds`), which the
prover has no rules for. `NobodyStuck`, `CardComesDown` and `LoadingIsHeard` are
what a proof can say of three of them. `KeptSelects` would be an induction over
sequences, and is checked on those of up to four members.

## What is not modelled

Most lines of the repository turn bytes into elements and elements into text in
one pass that shares and keeps nothing: the container and schema readers, the
routing of element records, the decision log and provenance tables, geometry,
the IFC and glTF writers. Most of it computes over reals, byte formats and
tables, and a model of it would be the program again; small instances of it are
what the repository's tests are. That is why these modules stand for a small
share of the lines: they are about the parts that keep state, share it or can be
interrupted.

Of the parts that do: `run_job`'s progress notifications, which one task sends
one after another; the verification `rvt-write` does after it wrote;
`copy_file`; the inflate and schema memos of the handle, which are keyed by
streams that do not change; in the viewer, the scene, the tree, exports but for
the memory they take, and the wording of what is shown.

Outside of `src/`, the rmcp library delivers cancellations, tokio runs jobs,
`tempfile` makes and places temporary files, and the browser delivers messages,
grants locks and ends workers: they are modelled by what the code relies on, and
marked external in the map.

## Plan

Done, in this order: the store, because every tool call goes through it; jobs,
handle, exports, the stream writer; the phase rules, on which the handle's memo
rests; the viewer's loads, and its saved parameters over them.

Left:

1. The pure parts with small inputs, if their rules come to be written down
   somewhere to check them against: the merges of record rows, the caps of the
   decision log.
