# Verification of Build Process Watcher

Build Process Watcher watches the JVM processes of a CI job. A shell script
samples them, writes a log and posts the samples to a Go backend on Cloud Run;
the backend stores them in Firestore, predicts the duration of the build at
checkpoints through a private provider, and exports finished runs to BigQuery.
A GitHub action starts the script and, in its post step, stops it, finishes the
run, writes reports and uploads them. A web dashboard draws what was stored.

This directory holds TLA+ models of these parts, TLC configurations that check
them on small instances, and proofs that TLAPS checks for all values of the
constants. `PROJECT.json` lists components, runs, the source lines each
definition stands for, hazards, findings and theorems.

## 1. Inventory

| Component (source) | State | Operations | Hard because |
|---|---|---|---|
| Export scheduler (`backend/internal/exportqueue/queue.go`, `bigqueryexport/export.go`) | set of scheduled run ids per process, the retry loop of each call, rows in two tables | `Run`, `markScheduled`, `exportRunWithRetries`, `ExportRun`, `ExportProcesses` | duplicates from concurrent requests, partial inserts, retries, a context that ends, restarts |
| Storage (`internal/storage/storage.go`, `internal/models`) | documents `runs/{id}`, `processes/{id}` | `StoreSamples`, `StoreProcessInfo`, `MarkRunAsFinished`, `StorePredictionCheckpoint`, two opt-in merges, reads | read-modify-write without transactions, writes whose answer is lost |
| Handlers and stale cleanup (`internal/handlers`, `internal/cleanup`) | the request each goroutine serves | `Auth`, `Ingest`, `GetRun`, `FinishRun`, `HandleManualStaleCleanup` | decisions taken on documents read earlier |
| Predictions (`internal/prediction`, `pkg/predictor`, `internal/scoring`) | records in the run document | `Evaluate`, `PendingCheckpoints`, `MergePredictionCheckpoint` | asks the provider between a read and a write |
| Authentication (`internal/auth`) | none; a token names its run and expiry | `GenerateToken`, `ValidateToken` | expiry in the middle of a job |
| Monitor script (`monitor_with_backend.sh`) | token, seen pids, log, batch, call counters | the sampling loop, `get_auth_token`, `send_process_info_to_backend`, `send_to_backend`, traps | token expiry, lost answers, signals between any two commands |
| Cleanup (`src/cleanup.ts`, `src/lib/run_finisher.ts`) | lock file, pid file, URL file, log, reports | `run`, `acquireLock`, `releaseLock`, `finishRunViaBackend`, `markProcessAsFinishedDirect`, `cleanupWorkspaceLeftovers` | the post step and the script's own traps run it concurrently; exceptions |
| Report libraries (`src/lib/*.ts`, charts of `cleanup.ts`) | none | parsers, CSV, JSON, SVG, Mermaid | two parsers and several charts of the same data |
| Action start, identity, paths (`index_with_backend.ts`, `monitoring_*`, `lib/run_identity.ts`, `action_config.ts`, `cleanup_context.ts`) | exported variables, backup and URL files | read inputs, start the script, find the log again | the post step must reach the same conclusions later, perhaps without its variables |
| Server wiring (`pkg/server`, `main.go`) | none | routes, CORS, environment | configuration only |
| Replay page (`frontend/public/replay.js`, `experiment-layout.js`) | file shown, two replays, layout (`localStorage`) | load, play, pause, seek, change the layout | timeouts and drawing overlap, two replays drive the same panels, other tabs |
| Workspace deck (`experiment-layout.js`) | preset, panel map, layout (`localStorage`), focus | presets, chips, focus, re-render | pages with different panels share one stored choice |
| Chart studio (`chart-studio.js`) | two layers (`localStorage`), the controls as they were built | restore, presets, selects | runs have different metrics |
| Compare page (`compare.js`, `compare-shared.js`) | two slots, the comparison and its replay | read files, change the view, play | nothing stops what a comparison left under way |
| Run page (`runs/[runId].html`, `prediction-view.js`) | loads, one timeout, the selected checkpoint | load, refresh, retry, select | answers arrive late and out of order |
| Series and story (`compare-shared.js`, `build-story.js`) | none | lines, totals, end of the build, rates, peaks, phases | gaps and ends of processes, missing values, ties |
| Workflows, packaging, `dist/` | none | declarations, generated bundles | – |

Interactions. The script calls `POST /auth/run/{id}`, then `POST /ingest` once
per process (info) and once per sample; the post step and the traps call
`POST /runs/{id}/finish`; viewers call `GET /runs/{id}`; a scheduled call runs
the stale cleanup. Handlers call storage, the evaluator and the scheduler
synchronously, inside the request. The script and the cleanup share files:
`monitor.pid`, `cleanup.lock`, the URL file, the log and the count files.

What makes each correct:
- *Export*: what was stored before a run finished is in BigQuery once the
  export says so, each sample as one row; nothing of a run that is unfinished
  or did not opt in; a failed call can be repeated; a call ends.
- *Storage*: nothing stored is lost, the finish is final, one caller makes it.
- *Predictions*: none before its checkpoint, none replaced when ready.
- *Monitor*: the backend gets samples of the log in order, none twice, process
  info first; the counters account for the calls.
- *Action start*: the cleanup finds the log the script writes, keeps a log the
  user has named, and finishes exactly the runs that were sent to the backend.
- *Cleanup*: one at a time per directory; the artifact is consistent and is
  uploaded; the run is finished, with an expiry; locks are released.
- *Reports and series*: every line sent is stored; the charts of the cleanup, of
  the browser and of the summary agree; the cleanup never trims the peak
  of its chart, and the browser cuts a replay only after such a fall.
- *Replay*: one replay plays at a time, frames come one after the other until the
  last, charts are of the file that is shown, and the phase is one of the cursor.
- *Deck and studio*: a choice survives everything but a new choice; the controls
  show what is in effect; what another page lacks breaks nothing.
- *Compare*: the two files in the slots are compared, by charts and summary.
- *Run page*: a run under way is followed to its end, by one timeout at a time.

## 2. Modules

| Module | Models | Uses |
|---|---|---|
| `Domain` | the sets all backend modules share | – |
| `RunDoc` | the two documents and the pure part of each storage operation | `Domain` |
| `ExportMark` | *abstract*: free, exporting or settled, per instance, and how its last export ended | – |
| `ExportQueue` | the scheduler and its retry loop, documents and failures arbitrary | `Domain`, implements `ExportMark` |
| `Prediction` | `Evaluate` as steps of a goroutine | `RunDoc` |
| `Backend` | handlers, storage steps, failures, restarts; drives `ExportQueue` and `Prediction` with the documents of the store | all of the above |
| `SampleFeed` | *abstract*: log and backend as two sequences | – |
| `Monitor` | the script | implements `SampleFeed` |
| `ActionStart` | what the action makes of its inputs: features, log file, launch plan, exported variables, and how a cleanup finds the log | – |
| `Cleanup` | the post step, the traps and the files they share | `ActionStart` |
| `Reports` | lines, parsers and the total memory in two charts | – |
| `ReplayData` | what browser and job summary compute from the same log: lines, end of the build, peaks, rates, Mermaid checkpoints | `Reports` |
| `Story` | the phases of the build story | – |
| `RunPage` | the page of a run under way | – |
| `Playback` | *abstract*: what the controls of a replay promise | – |
| `Player` | the playback loop that three places of the dashboard have | – |
| `Replay` | the replay page: files, the single and the unified replay, layouts, phases | `Player`, implements `Playback` twice |
| `Workspace` | deck, chips, presets and focus | – |
| `Studio` | the chart studio | – |
| `Compare` | the compare page and its replay | implements `Playback` |
| `Extremes` | lemmas: `Min`, `Max`, induction and recursion over 0..n, quotients | – |
| `ExportQueueProofs`, `BackendProofs` | theorems about scheduler and backend | `ExportQueue`, `Backend`, `Extremes` |
| `MonitorProofs`, `CleanupProofs` | theorems about the two sides of a job | `Monitor`, `Cleanup` |
| `ReportsProofs` | theorems about samples, story and run page | `ReplayData`, `Story`, `RunPage`, `Extremes` |
| `ReplayProofs`, `PagesProofs` | theorems about replay, comparison, studio and deck | `Replay`, `Compare`, `Studio`, `Workspace`, `Extremes` |
| `MC*` | model values and symmetry for TLC | – |

Definitions keep the names of the source. Definitions marked *Mutant* are
plausible bugs of the definition that follows them; each is used to confirm
that a property can fail.

**One run.** Every storage operation, export mark and prediction is keyed by a
run id and none relates two runs, so the backend modules are about one run.

**Backend.** A goroutine's request (`req`) is a record with a program counter.
An operation that reads a document and writes it back is two actions,
`...Reads` and `...Writes`, because Firestore offers the code no isolation
between its `Get` and its `Set`; the record keeps the document read. A merge
(`WithExportFlag`, `WithPredictiveFlag`, `WithCheckpoints`) changes only its
field. Time is `quiet` (five minutes without an update) and `expires`
(`expire_at` is set). With `"firestore"` in `Faults` a read may fail and a
write may fail, applied or not; with `"bigquery"` an insert may fail with any
part of its rows in; with `"restart"` an instance may lose its goroutines and
its marks. The history `raced` records that a document was overwritten from an
outdated read. Most invariants have `~raced` as premise: they say that the lost
update is the *only* way the backend loses anything, and the run
`backend_serial` shows that without overlap it does not occur. An evaluation
keeps the answer of the provider under the window it names: any of `Observed`,
or the one asked when it names none; `named` records the windows named in
answers to a request for another.

**Export.** A row is its insert id: position and payload for a sample, the pid
for a process. `call[w]` is the retry loop; `AttemptFails` counts to
`MaxAttempts` and either backs off or returns false.

**Monitor.** `pc` is the place in the script. `token` is what the backend would
say of it; `Post` lets a request be accepted with its answer lost. `outages` is
chosen once per behaviour, so that the liveness property can speak of jobs in
which requests do not fail. `Terminate` may happen between any two commands.

**Cleanup.** `Shared` tells whether the post step and the traps run in the same
directory (`uses: ./`) or in two (a published action), which decides whether
they share `cleanup.lock` and `monitor.pid`. `monitor.pid` is never removed and
names the script, so the cleanup that a trap starts signals its own parent:
`KillMonitor` sets `pending`, and bash runs the TERM trap again when the
cleanup returns. `Init` chooses the inputs of the action and computes from them,
with `ActionStart`, the `plan` the script was started with and the variables
(`env`) each cleanup sees. The post step may see none of them, which the code
provides for (`index_with_backend.ts:106`); it then takes the defaults, looks
for the log in candidate directories, and does not finish the run. `older` is a
log of the default name that an earlier run of the same id has left.

**Reports.** Only `log` is state; lines, parsers and charts are operators of
it. Lines have tenths of megabytes, `ParseData` truncates. A process for which
`jstat` says nothing is logged with `N/A` and sent with `0`. `ReplayData` adds
operators on the same log: `Line` and `DashboardTotal` are two programs that
decide whether a process has ended, `Frames` is the replay after the cut at the
end of the build, `PeakAggregateRss` the peak of the prediction view. A counter
is any number in the samples; the recorded sizes stand for one, since they rise
and fall.

**Replay.** A `Player` is the state of one playback loop. `timer` is a timeout
that `playTimer` names and a pause can clear, `strays` are timeouts whose name
has been overwritten, `drawing` counts frames that Plotly is drawing; each of
the three will call `scheduleNext` again. `single` is the replay of the page,
`unified` that of `experiment-layout.js`, `ghosts` the single replays of files
that have been replaced while they played: `Load` may leave one behind at any
time, next to those left before. `chart` is the file drawn last, by whichever
replay. After a load the unified cursor is at the last frame, while the charts,
drawn once more by their own replay, are at the first (`replay.js:483`): `Load`
leaves `unified` and `single` at these two frames. `stored` is the layout in `localStorage`, which
`OtherTab` changes, `page.view` the one that is shown; `scheduleUnifiedNext` and
`playUnifiedReplay` read the first. `DrawAll` is what one frame of the unified
replay does in every panel.

**Workspace, Studio.** `kept` and `saved` are `localStorage`; actions named
`Other...` are those of another tab. `Seen` is what the style sheet leaves of the
panels: all in the classic layout, none in the story, and in the studio those
that are not marked hidden, not covered (`memory`, `gc` and `ratio`, whose chips
change nothing one can see) and, in focus mode, in focus. `Render` and `LoadFile` follow the order in
which the code applies layout and data, on which what is stale depends.

**Compare.** `player` and `runaways`, the replays that were left behind, need no
timer: a pause clears it, so that a timeout is live exactly while the replay
plays. `RenderComparison` may happen at any time; the stop that the code
registers (`compare-shared.js:1752`) is never called, so each rendering over a
replay that plays leaves one more behind. Files carry a process summary, without
which no summary is shown (`compare-shared.js:1065`), and have the same charts. `draws` are the first frames
that are not drawn yet, each of which adds its summary.

**Run page.** A load is `sent`, then `answered` with the state of the run when
the backend reads it, and drawn or failed later. `refresh.pending` counts the
timeouts, `held` tells whether `refreshTimer` names one.

Variables with a comment *history* (`raced`, `haunted`, `stale`, `past`,
`hasty`) record that something happened which the code does not guard against;
the properties have it as premise and so say that it is the only such thing.

Invariants that say one thing together are grouped under one name, as conjunctions
of named parts, each with its own comment; a group of a module may start with its
type invariant. The groups are `UpdatesKept` and `ServedInTurn` (`Backend`),
`LogIsFoundAndKept` (`Cleanup`: `ReadsTheMonitorsLog`, `CustomLogKept`,
`PostUploads`), `ChartsAgree` (`TotalsAgree`, `LinesMakeTheTotal`, `PeakIsDrawn`,
`PagePeakIsDrawn`, `TrimmedIsCut`, `CutIsAFall`), `SeriesAddUp` (`PeaksAreOrdered`, `RatesAddUp`,
`CheckpointsAgree`), `PhasesTellTheRun` (`ExtremesAreTold`, `ClimbsAreTold`),
`PageFollowsRun` (`KeepsPolling`, `SelectedIsListed`), `ReplayShowsItsFile`
(`ChartShowsFile`, `PhaseFollowsCursor`), `DeckAgrees` (`ChipsAgree`,
`FocusIsOnOnePanel`), `StudioAgrees` (`StudioIsOfItsRun`, `PressedIsOverlaid`) and
`ComparisonAgrees` (`ComparesTheSlots`, `ChartsShowThePair`, `OneSummary`).

## 3. Runs

| Run | Instance | Shows |
|---|---|---|
| `export_queue` | 3 goroutines on 2 instances, 2 samples, 1 process, any documents, any failures, restarts | mark is exclusive per process and freed by failure, retries do not repeat an insert, `ImplementsExportMark` |
| `backend_export` | 2 goroutines, 2 payloads, 1 process, failing inserts | stored samples are exported once, of opted-in finished runs only |
| `backend_instances` | 2 instances that restart, failing Firestore | only overlap loses updates; expiry goes with the finish in any case |
| `backend_serial` | 1 goroutine, 2 payloads, checkpoints at 5 and 30 s, answers that may name 30 or 40 s instead | no race; for windows named only when asked for, predictions are never early, never repeated, never downgraded |
| `backend_live` | 2 goroutines, fair, no faults | requests are answered; what was stored before the finish is exported |
| `monitor` | 2 processes, 2 iterations, all failures and signals, fair | counters, feed, order, and delivery without outages |
| `cleanup` | one directory with faults, two without; foreign signals, all inputs, variables kept or lost, fair | mutual exclusion, consistent artifact; the monitor's log is found, the user's log is kept, a local run never reaches the backend; the post step uploads, and a run for which any input asks for the backend is finished with an expiry |
| `reports` | a log of 4 iterations with 2 processes, a story of 5 frames, or the page of a run with 3 loads at a time | stored = logged; totals, lines, peaks, rates and checkpoints agree; phases tell the extremes; the page follows the run to its end |
| `dashboard` | 2 files for replay and comparison, 2 pages of panels, 3 runs with different metrics, other tabs, fair | one replay plays, each implements `Playback` and ends; charts, phases, deck, studio and comparison show what they say, but for the histories that excuse them |
| `append_loses_update` | 2 goroutines | **violated**: `StoreSamplesAppends` |
| `cleanup_lock` | one directory, faults | **violated**: `LocksAreReleased` |
| `cleanup_shutdown` | one directory, fair, no faults | **violated**: `MonitorShutsDown` |

Bounds and why they are enough. Two goroutines on one instance and on two give
both kinds of overlap (same memory, same store); the third goroutine of
`export_queue` is a second one on an instance while the other instance exports.
Two payloads distinguish order and position; one is sampled before the later
checkpoint, one after it. The attempt bound is the code's. Two processes over two
iterations let one be seen again, vanish, or appear late. `MaxSamples` = 2 lets
the log grow before and after each read of the cleanup. The inputs of the action
are all combinations of its flags and of three ways to name a log. With four iterations
there are three intervals, the least number with which one can exceed two medians; starts at 0 and later and gaps of 1 and 3 s put samples on both
sides of that bound, and two sizes differ by enough to end a build. A story of 5
frames has windows (of 2 frames on each side) that are cut at either end and
fall inside.
`MaxChains` = 2 lets a pause and a play double the loop of a replay once, or two
loads leave two replays behind: it bounds the chains of both replays plus the
ghosts, each counted once, in the guards of the two play buttons; a load is
never refused, since the replay it leaves behind had a chain. `MaxRunaways` = 1
refuses to render over a second replay that plays while the first one that was
left behind still ticks (two runaways make the run too long; the theorem covers
any number), and `MaxDraws` = 2 lets a first frame be overtaken by the next.
Files of 3 and 2 frames have phases that overlap and a full run. The two pages
have nested sets of panels, a covered one among them,
and each of the three runs lacks a metric that another one has, so that what is
stored on one can be missing on another. `LoadIds` of 3 are loads sent by a timeout, by a new
interval and by a retry; the run passes through four states, with none, one and
two checkpoints, before the last, in which it has finished.
Histories are capped at 2 (`newly`, `answers`), enough to see "twice".

`MCReports` and `MCDashboard` have several parts that share no state (but, in the
code, the page they are on). The rigid variable `part` picks one for each
behaviour, so that TLC explores their sum instead of their product; a part
that is not picked stays in its initial state. The same holds for the rigid
`job` of `Cleanup`, which is the directories, the key, the faults and the signals
of a job; configurations choose the set `Jobs`.

`CHECK_DEADLOCK FALSE` is set for the monitor, the cleanup and the reports,
which end.

Fairness. `Backend!FairSpec`: a goroutine that serves a request gets on; Go
schedules it, clients of Firestore and BigQuery return or time out, the backoff
is a timer. Nothing obliges clients to send requests. `Monitor!FairSpec`: the
script gets on; `curl` has a time limit and `sleep` ends; neither token expiry
nor signals are fair. `Cleanup!FairSpec`: the job ends and its post step starts,
programs get on, and bash runs a trap once the current command ends; no signal
from outside is promised. `ReplayFairness` and `CompareFairness`: the browser
fires timeouts and draws what it is asked to, for each replay of the page as a
whole, whose timeouts may wait for each other; nothing is asked of ghosts and
runaways. `RunPageFairness`: requests
are answered, timeouts fire and builds end; no user is obliged to do anything.

### Findings with a run
- `append_loses_update` – the plan document says that `StoreSamples` appends; it
  writes back the whole document it read, so overlapping requests lose samples
  or the finish.
- `cleanup_lock` – "Always release the lock": `process.exit(1)` in the `catch`
  block ends the process before `finally`.
- `cleanup_shutdown` – the TERM trap's cleanup signals the script that runs the
  trap; it is run again for as long as the script lives (bash 5.2 behaves so).

### Deviations observed while modelling, without a run
- Two overlapping finishes are both told `newlyFinished`
  (`storage.go:282`, `:345`); `UpdatesKept` says that one is, without overlap.
- Overlapping ingests ask the provider twice for one window, and the failure of
  one replaces the prediction of the other; the plan document has a checkpoint
  invoke the provider once (`docs/plans/2026-07-18-...-plan.md:224`).
- A provider may name another window than it was asked for, elapsed seconds for
  one that schedules by relative progress (`models.go:64`, `remote.go:111`). The
  window asked then stays pending and is asked for at every later ingest; the
  record replaces the one of the window it names, also one the list of pending
  windows still holds (`checkpoint_evaluator.go:77`), which is asked for again.
  `ServedInTurn` and `ReadyIsKept` speak of the windows outside `named`.
- A missing process document is an error (`storage.go:262`) before the check
  that would return an empty one (`:267`): a run without process info fails in
  every attempt of its export. `FinishedRunIsExported` therefore assumes it.
- `send_to_backend` returns success whatever the backend answers, so the script's
  `sends_failed` (`monitor_with_backend.sh:818`) stays 0.
- The direct update of the cleanup sets no `expire_at` (`cleanup.ts:655`), while
  `README.md:121` says that data is kept for 24 hours.
- In one directory a foreign signal can make the post step skip its work,
  because a trap holds the lock: nothing is uploaded. In two directories the
  post step finds no `monitor.pid`, so the log may grow between its readings.
- The backup file of the run id is there so that the post step can work without
  its variables (`index_with_backend.ts:106`), but the finish also needs
  `ENABLE_BACKEND` (`cleanup.ts:821`): such a run is left to the traps or to the
  stale cleanup. Without variables the post step also reads an older log of the
  default name instead of `build_process_watcher-<id>.log`; the premise of
  `ReadsTheMonitorsLog` excludes that.
- `GITHUB_RUN_ID` is a bare number, which `VALID_GITHUB_RUN_ID`
  (`run_identity.ts:18`) never accepts: the last source of a run id is dead.
- Two uses of the action in one job export the same variables; both post steps
  see those of the second, and the first run is never finished by a post step.
- The browser takes a last-seen time of 0 for "never" (`compare-shared.js:136`).
  In a local report, whose timestamps start at 0, a process that is sampled at 0
  only is missing from the total, while its line goes on for ever;
  `TotalsAgree` and `LinesMakeTheTotal` say that nothing else differs.
- The browser ends a build at the first drop below a fifth of the peak so far
  (`compare-shared.js:145`) and cuts what follows, also when memory rises again:
  with totals of 601.4, 8.5 and 1202.8 MB it replays the first one alone. The
  chart of the cleanup never hides its peak (`PeakIsDrawn`), nor the moment at
  which the browser puts it (`PagePeakIsDrawn`); of the replay, `CutIsAFall` says
  that it cuts nothing unless a large build has fallen so.
  For the same reason as above it may miss the peak of a report that starts at 0,
  and then does not cut what the cleanup trims: `TrimmedIsCut` asks for a first
  timestamp after 0. The proof of it needed that premise; TLC then showed the
  case with sizes of 8.5 and 301.4 MB.
- The peak of the prediction view counts processes that have ended
  (`prediction-view.js:92`); `PeaksAreOrdered` is what remains true.
- A rate is shown for up to two median intervals after its counter fell.
- The growth phase needs a rise of 18% of the range within one window of 7% of
  the frames (`build-story.js:219`): a slow, even climb over a long run has none.
  The phase for a full run with little variation needs a run without any total.
- `compare-shared.js:793` takes a first timestamp of 0 for none: a comparison
  whose base is a local report that starts at 0 shows nothing of the other run.
  Otherwise the other run is moved by the elapsed time of the first sample of the
  base, drawn on the time axis of the base, and its gap is that of the axis.
- A pause and a play while a frame is being drawn double the playback loop:
  frames then come twice as fast, and a pause stops one of the two
  (`replay.js:408`, `experiment-layout.js:492`); `Calm` is the premise of
  `RefinesPlayback`.
- A file loaded over a replay under way: the panels are forgotten before they are
  paused (`experiment-layout.js:427`), and the old replay goes on drawing the old
  file into the new charts, until its last frame. A second load may leave a second
  one behind, or find the first still drawing while its own replay is stopped.
- When another tab chooses the classic layout, the unified replay stops but stays
  marked as playing (`experiment-layout.js:493`), and its play button is dead.
- A click on a phase selects it, and the next frame selects the first phase
  that contains the cursor instead, if phases overlap.
- A page rendered again in focus mode shows no panel (`bpw-experiment.css:708`
  hides those not focused, and none is).
- The chips of memory, GC time and Heap/RSS change nothing one can see: where the
  deck is, `bpw-experiment.css:141` hides these panels whatever the chip says, and
  the classic layout shows all panels. The preset for memory leaves no panel at all.
- A deck writes back only the choices for the panels of its page
  (`experiment-layout.js:139`): those of other pages are lost. The chips of a
  second tab do not show what the first one has chosen.
- The studio of a file loaded over another is built from the metrics of the
  first. A preset may stay pressed though its layers were not available, and the
  default one is pressed when nothing was saved, whatever is overlaid
  (`chart-studio.js:64`); layer B "none" is not restored; layers saved for a run with more metrics may become
  the same.
- A change of the view of a comparison, or a new file, does not stop its replay;
  a summary that comes late is added to the next comparison. A file that cannot
  be read leaves the old comparison where it is.
- Run page: a load that fails ends the polling until Retry is clicked, unless a
  timeout is pending; an older answer may be drawn after a newer one; a
  checkpoint that was selected by default stays selected as if chosen.

## 4. Proofs

TLAPS proves, for every value of the constants, every invariant that a passing run
checks, every action property, and the refinements of the abstract specifications.
Section 3 lists the instances on which TLC checks the same formulas. The assumptions
are those the modules declare (`InstanceAssumption`, `SampleListsAssumption`,
`ReportsAssumption`, `StoryAssumption`, ...), which TLC evaluates in the runs; one
pair of theorems has a further premise, named below.

**`ExportQueueProofs`** (any goroutines, instances, payloads, documents).
`ExportInv == ExportTypeOK /\ OneExportPerInstance /\ MarkIsAccountedFor` is
inductive as the conjunction of the three: exclusion needs that an exporting
goroutine holds the mark, accounting needs exclusion (when one call ends, no other
one on the instance is exporting). The actions are first reduced to five cases
(claims, goes on, ends true, ends false, restart).
- `ExportSafety`: the three invariants.
- `RetriesSkipSamples`: `SamplesInsertedOncePerCall`, an action property, from
  `Once`: a call that knows its samples to be in is not at an insert of them.
- `ExportRefinesMark`: `ImplementsExportMark`, with the mapping `PhaseOf`; each of
  the five cases is `Claim`, `Insert`, `Settle`, `Fail`, `Restart` or a stutter.
  A call's end is `Settle` or `Fail` by what it returned, so the refinement says
  that exactly the marks of successful or skipped calls stay.

**`BackendProofs`** (any instances, goroutines, payloads, processes, windows,
requests and faults). Four invariants, each on top of those before it:
- `FullInv == ExportInv /\ PredictionTypeOK /\ BackendInv` gives `BackendTypeOK`,
  `BackendKeepsUpdates` (`UpdatesKept`), `ExpiryGoesWithFinish` and
  `BackendExportSafety`. For each request that has read a document it says that
  the document satisfies `finished <=> expires`, and was unfinished if the request
  is to mark it; without this the write of a stale document could break the pairing.
  The central argument: a step's write keeps everything of the present document
  (`Keeps`), or sets `raced`.
- `SamplesInv /\ RowsInv` gives `SamplesHaveOneRow`. A payload that was sent is
  carried by one request or is in the document, once; the list of samples only
  grows at its end, and what a call has read is a prefix of it. So a row stands at
  the position its sample has, whichever call inserts it.
- `DueInv` gives `FinishedRunIsDelivered` (`ExportDelivers`): without a race one
  call of `MarkRunAsFinished` returns true and before that no mark was taken, so
  its export is not refused; what is due to it is in the document, then in each
  list its attempts read, then in the table. `OnlyOptedInRunsAreExported` follows
  from the same.
- `SerialInv` gives `RequestsInTurn` (`ServedInTurn`) and `PredictionsAreKept`
  (`ReadyIsKept`). They have the premise `Serial`, one goroutine and a Firestore
  that does not fail, which is what the run `backend_serial` instantiates; with
  overlap both are false (section 3). The invariant: what the request has read is
  what the store has, a window still to ask for has no ready record unless an
  answer for another one named it (`Pends`), and an answer in flight is of the
  window asked or of such a one.

**`MonitorProofs`** (any processes and number of iterations; refused tokens, lost
answers and signals at any point).
- `CallsAreAccountedFor`, from `TypeInv` (what `pc` says of the process and the batch
  at hand) and `CallsSound`: what the counters miss is the one call whose answer is
  not evaluated yet.
- `MonitorImplementsFeed`: each step is one of `SampleFeed` or a stutter. `FeedInv`
  says that the batch is the tail of the log, and that the backend has what
  it has received from the part before the batch. An answer other than a refusal
  moves that place past the sample, whatever became of it; hence nothing twice.
- `ProcessesAreIntroduced`: `InfoPrecedesSamples`, from the same invariant.

**`CleanupProofs`** (any number of samples and every circumstance of a job).
- `LockExcludes` from `LockInv`: a cleanup that works holds the lock of its directory.
- `ArtifactsShowOneLog` from `StopInv`: from the moment the post step has signalled the
  monitor of its own directory, no line is added, and a trap's cleanup removes none.
- `LogIsKept` from `LogInv`, and `LocalRunsAreNotFinished` from `RunInv`. Both need
  `StartInv`: each cleanup sees all the variables of the action, or none.

**`ReportsProofs`** (any processes, sizes, gaps, readings, number of iterations and
of frames; any states, checkpoints and loads of the run page).
- `EverySampleArrives`, `TheChartsAgree` and `TheSeriesAddUp` are about operators of
  `log`. Their invariant, `LogInv`, is that times rise; the rest is about what the
  programs compute. Each of them is recursive over the frames (`Cursor`, `Line`,
  `ForwardFilled`). `SeriesAt` is the closed form that the three have in common: it
  depends only on the last frame that sampled the process (`LastSample`), and
  `SeriesAgree` shows that the chart which forgets as it goes and the chart which
  asks for the age of a sample are both equal to it, because times rise. Totals
  follow by `SumOfDifferences`; the megabyte per process that the backend may lose
  is `LittleIsLost`. For `TrimmedIsCut` the peak of the cleanup must have been
  seen by the browser too (`PeakDo`, `TrimmedDo`); `CutIsAFall` follows from the
  first drop, whose peak so far comes before all that is cut (`FallDo`). Rates are added up sample by
  sample (`OneMoreSample`, `CountedInSteps`); checkpoints are distinct since the
  quotient of two numbers that differ by the divisor differs (`QuotientGrows`).
- `TheStoryIsTold`: `StoryInv` is about types only; `PlacesAre` says which frame and
  process a place stands for, `HighestIs` that the place of the highest value is
  the least that has it, `AroundIs` that a window around a frame stays within the
  run. `PhasesAre` then says of each phase where it comes from.
- `ThePageFollowsItsRun`: `PageFollowsRun` is inductive with `TimerIsNamed`, that a
  timeout is pending exactly while `refreshTimer` names one. Without it a second
  timeout could be set next to one that nobody can clear.

**`ReplayProofs`** (any files, phases and bound on the chains of timeouts).
`Inv == Typed /\ Solo /\ Quiet /\ ChartShowsFile`. `Solo` says that a unified
replay that plays has the page in another layout than the classic one and the single
replay stopped; with the first half alone a step to the classic layout could start
the single replay next to it. `Quiet` says that there is no ghost unless a file was
loaded while a replay or an older ghost was under way, which is why no stale
timeout draws into the charts. A load at any time needs a slot for its ghost;
`LeftBehind` shows from the bound on all chains that one is free.
- `OneReplayPlays`: `OnePlayback`, from `Solo`.
- `ThePageShowsItsFile`: `ReplayShowsItsFile`. `Fits` bounds how far the chains of a
  replay can reach (`Reach`): a timeout that fires spends a frame its chain could
  reach. `Shows` says that the phase is one the cursor is in.
- `ReplaysRefinePlayback`: each action is a step of `Playback` or a stutter for
  either replay. `Calm` gives that a timeout fires only while the replay plays
  and before its last frame.

**`PagesProofs`** (any files, runs, metrics, presets, panels and pages).
- `ThePageComparesItsSlots`: `NotHaunted` and `NotHurried` say that only a replay left
  behind, one of any number, or a first frame still to come, brings another pair
  than the one compared; without either the section has its one summary.
- `ComparisonRefinesPlayback`: the safety half of `ComparisonIsPlayback`.
- `TheStudioAgrees`, `TheLayersDiffer`: `SavedWithPreset`, a preset that is stored is
  stored with its layers (or without the second, for a run that lacked it), is
  what makes a pressed preset be overlaid after a restore.
- `TheDeckAgrees`, `TheChoiceIsKept`: the invariant speaks of chips, marks and focus
  (`ChipsStored`, `FocusOnPage`, `RenderedFocus`); what one sees follows from these
  (`WhatIsSeen`), since a panel can be focused only where it is seen, and so is not
  a covered one.

**Lemmas.** The library's induction theorems take a predicate as a parameter, which
the provers cannot instantiate. `Extremes` states induction with a set instead:
`LeastNatural` (a set of naturals has a least element) gives `Upwards`, that a set
which contains 0 and the successors of its elements contains 0..n, and
`SubsetsUpwards` is the same for the subsets of a finite set. `Recursion` says
that a function defined by recursion over 0..n exists. With these, recursive
functions and the folds of the community modules are reasoned about as usual: `Sum`
does not depend on the order of its summands (`OrderIsFree`), so whatever adds up
element by element is the sum (`SumsAreUnique`).

**Only model-checked.** The liveness properties `EveryRequestAnswered`,
`FinishedRunIsExported`, `SamplesReachBackend`, `RunGetsFinished`, `PlaybackEnds`,
`ShowsTheEnd` and the liveness half of `ComparisonIsPlayback`: the prover handles
neither fairness nor `ENABLED`. `Story` is written with `Min` and `Max` of sets of
places, rather than with sequences, so that it can be proved about.

## 5. Not modelled
- `DeleteOldRuns`, which nothing calls. Several runs at once. `GetRun` and
  `Evaluate` reading process info, which changes nothing.
- An ingest whose lines are all skipped by the parser, which still stamps
  `updated_at`.
- Signatures of tokens and the admin secret: equality of strings only.
- The short time at the start of the script before the pid file is written;
  `jinfo`/`jstat` output; debug logs; the count files as separate files.
- Starts of the action that fail before the script runs; a backup file of the
  run id that could not be written (the debug log is then the next source); two
  uses of the action in one job; copies of the log in the workspace.
- Formatting of CSV, JSON, SVG and Mermaid; optional metrics but as counters; `ParseData` on GC
  times, where `int(x * 1000)` may lose a millisecond to binary fractions.
- Markup, colours, Plotly layouts, tables, downloads and links of the dashboard;
  the speed of a replay; files that are read while another one is read for the
  same slot of a comparison. A `localStorage` that cannot be written.
- Declarations and generated bundles.

## 6. Plan

Done: backend, scheduler, monitor, action start, cleanup, reports and the
dashboard, with the proofs above. What is left:
1. The start of the script next to `Cleanup`: the race of its pid file with an
   early post step, the copies of log and reports in the workspace, and the
   sources of the run id when its backup file is missing.
2. `Monitor` and `Backend` composed through the requests, for delivery from the
   measurement to BigQuery.
3. A parameterised `Cleanup` for repeated jobs in one workspace (a lock left
   behind by an earlier job).
4. Proofs of what these add: the composition of `Monitor` and `Backend` should
   implement delivery from `SampleFeed` to the rows of `RowsInv`.
