# T3dmium: models and proofs

T3dmium is a browser distribution: a pinned Chromium, a series of patches, the
scripts that turn the two into a package, an audit that shows the result makes
no unexplained network requests, and a small end-to-end encrypted sync
protocol with a reference server. This directory holds TLA+ models of the
parts of it that are programs of its own, the TLC runs that check them, and
TLAPS proofs of the properties that matter most. Paths below are relative to
the repository root.

Run a model with `tlc -config SyncServer.cfg MCSyncServer`, check a
proof with `tlapm SyncServerProofs.tla`. `PROJECT.json` lists every run, the
mutations that each property is tested against, the source lines each
definition stands for, findings and hazards.

## 1. Inventory

| Component | Code | State it keeps | Operations | Modelled in |
|---|---|---|---|---|
| Sync server | `sync/server/app.py` | SQLite tables (`groups.auth_hash`, `seq_counter`, `records`), one shared connection with its open transaction, `Store._lock`, per-thread request and locals of `upsert_records` | pair, push, pull, authentication, commit, rollback | `SyncServer`, abstractly `SyncStore` |
| Sync client | `sync/client/reference_client.py` | group secret; its user keeps a cursor and local records | pair, push, pull, seal/open | `SyncDevices` over `SyncStore` |
| Audit orchestrator | `audit/audit.py` | exit code | load allowlist, start and stop mitmdump, run the driver, evaluate | `AuditHarness` |
| Scenario driver | `audit/scenarios/driver.py` | control file, browser process | announce, launch, attach, act, tear down | `AuditHarness` |
| Capture addon | `audit/capture.py` | flows in memory, flows file | stamp, record and dump each request; port wait; stop/kill | `AuditHarness` |
| Audit checker | `audit/checker.py`, `audit/allowlist.json` | position in the flow list, violations | validate, match host and path, verdict | `AuditChecker` |
| Source fetching | `tools/fetch.py`, `tools/_common.py` | download cache, `build/src` | retrieve, unpack | `BuildPipeline` |
| Patch application | `tools/apply_patches.py` | the patched tree | apply the series up to the first failure | `BuildPipeline` |
| Build scripts, CI | `tools/build.py`, `platforms/*/build.*`, `.github/workflows/release-build.yml` | linked browser, package | command sequences and what a failure does to them | `BuildPipeline` |
| Patch validation | `tools/validate_patches.py`, `tools/_deps.py` | sparse tree, gitiles cache, cached `DEPS` | fetch touched files with retries, apply the series or try single patches | `PatchValidation` |
| Convention checks | `tools/check_conventions.py` | none | one pass, reports only | no: nothing to interleave or recover |
| Packaging | `create_dmg.sh`, `installer.nsi` | the package | straight-line packing | one step of `BuildPipeline` |
| Patches, branding, lists, docs | `patches/`, `branding/`, `*.list`, `docs/` | – | – | no: data and third-party diffs |

**How they interact.** Devices talk to the sync server over HTTP; each client
connection gets a thread (`ThreadingHTTPServer`), and all threads share one
SQLite connection behind one lock; devices know of each other only through the
records and numbers the server hands out. The audit starts mitmdump (which loads
the capture addon) and the browser as processes; audit and addon share nothing
but two files, the control file (driver writes, addon reads) and the flows file
(addon writes, audit reads). The build commands communicate only through
`build/`: the download cache, `build/src` and `out/Default`, which outlive an
attempt. The validator fetches single files into a cache that outlives its runs,
and predicts what `apply_patches.py` will do to a tree it never sees.

**Where it is hard, and what must hold.**

- *Sync server*: requests interleave between authentication and the store
  operation; a batch or a registration can fail half-way on a connection that
  others use next, and that shows them what is not committed; the process may
  die and the answer may be lost. It must never take back what it told a client,
  never report a conflict that did not last, leave no gap behind a pull's
  cursor, number changes so that `seq > since` means "changed after", and be
  equivalent to atomic batches against a last-writer-wins store.
- *Audit*: three processes race; a request is stamped by whatever the control
  file says when the addon gets to it; anything can die or hang. Exit code 0
  must mean that every request was explained *in its own scenario* and that
  every scenario ran; no evidence may be lost by a kill, nor taken from an
  earlier run; nothing may be left running; the run must end.
- *Checker*: suffix and prefix matching at label and segment boundaries; a
  malformed entry anywhere outweighs any verdict, and no file or URL that makes
  it raise may pass.
- *Build*: an attempt finds on disk whatever earlier attempts left. A package
  must hold every patch of its series and the source of its own pin, and the
  documented way to recover must work.
- *Sync client*: an answer is lost and the push is made again; a batch given up
  arrives late; the user edits a record while its push is under way; a number of
  a partial pull must not become the cursor. No row may be missed, no version
  may get two texts, no edit may be lost, and all devices must come to agree.
- *Patch validation*: requests fail and are retried, a run is cut off while it
  writes its cache, patches stack on one another and on their failed
  predecessors. The cache must be the pin, a pass must hold of the full tree,
  and an alarm must be real.

## 2. The modules

### SyncStore, SyncServer (`sync/server/app.py`)

`SyncStore` is what the server promises: groups that register a secret once,
and batches merged atomically, each record winning iff its version is higher
than the stored one, with a change counter. It has two actions, `Register` and
`Upsert`.

`SyncServer` is the implementation. `auth_hash`, `seq_counter` and `records` are
the committed tables; `tx_auth_hash`, `tx_seq_counter` and `tx_records` are what
the shared connection, and with it every thread, sees of them. That differs
while a batch is in progress, and after a registration that broke off between
its first INSERT and its commit: nothing rolls that back, so the group's row
stays visible and uncommitted until another statement's rollback removes it or
another registration's commit keeps it. `torn` remembers such groups: the
properties that such a registration spoils are stated for all other groups, and
so show that it spoils nothing but its own. `in_transaction` and `lock` are the
connection's transaction and `Store._lock`; `pc`, `req`, `pos`, `seq`,
`accepted`, `conflicts`, `reply` are a handler thread's place and locals. `told`
is a history variable.

| Action | Code |
|---|---|
| `Receive`, `Respond`, `Disconnect` | `do_POST` entry, `_send`, a client that is gone |
| `PairRegister`, `PairExisting` | `_handle_pair` with `Store.create_group`: a new group, one that is there with the same or another hash |
| `PairRaise`, `PairBreaks` | `create_group` raises before it has written anything; its second INSERT or its commit raises |
| `Authenticate` | `_authed`, `verify_request`, payload checks of `_handle_push` |
| `ReadRaise` | the SELECT of `get_group_auth_hash` or `query_records` raises |
| `UpsertBegin`, `UpsertBeginRaise` | `BEGIN` and reading the counter; `BEGIN` on a connection with an open transaction |
| `UpsertConflict`, `UpsertAccept`, `UpsertRaise`, `UpsertCommit` | one loop iteration; the `except` with rollback; counter, `COMMIT`, answer |
| `Pull` | `_handle_pull` with `query_records` and the answer's `server_seq` |
| `Crash` | the process dies; only committed tables survive |

`upsert_records` is one step per statement group, so that other threads, an
exception and a crash fall between any two records. `Pull` and `create_group`
hold the lock for the whole of their body and make at most one committed change,
so each is one step. Crypto is symbolic: an auth hash and a proof are records
of what they are computed from, so only the same secret and call verify.

### SyncDevices (`sync/client/reference_client.py`, over `SyncStore`)

The devices of one group. The store is `SyncStore`'s state and the server's
answers are computed from it in one step, `Serve`, which is what `SyncServer` is
proved to implement. A device is in at most one call (`call`), as `SyncClient`
blocks in `urlopen`; `answer` is on its way back; `limbo` holds batches whose
connection broke before the server had dealt with them.

| Action | Code |
|---|---|
| `Pair`, `Push`, `Pull`, `Look` | `pair`, `push`, `pull` from the cursor, `pull` of one collection |
| `Serve` | the server's handlers, as `SyncStore` has them |
| `PushReturns`, `PullReturns` | `_request` with `push`'s soft 409, `decrypt_record`, and what the caller does with the result |
| `Break`, `Late` | `urlopen` raises; the batch reaches the server all the same, or never |
| `Edit`, `Reinstall` | the user changes a record; a device starts from nothing |

The library keeps nothing between calls. What an application must do to use it
as its docstrings and `sync/PROTOCOL.md` section 4 say (keep a cursor, keep
local changes, move them past what the server reports and seal them again) is
modelled as external: `copy`, `draft`, `cursor`, `Settled`, `Overtaken`,
`Resumed`. Keys and cipher are abstract: `Seal` binds a text to its record and
version, and `Opens` is whether `decrypt_record` would raise. Batches stay
below the server's limit, so it never answers 400.

### AuditHarness (`audit/audit.py`, `capture.py`, `scenarios/driver.py`)

One run of the audit from `main` to its exit code. `pc`, `i`, `raised`,
`exit_code` are main's place, the scenario it is at and the exception on its
way out; `control_file` and `flows_file` the shared files; `proxy`, `hook`,
`flows` mitmdump and its addon; `browser`; and `requests`, `finished` are
histories. Main's actions follow the code: `Begin` (allowlist, UNATTRIBUTED),
`Spawn` and `WaitForPort`, `CheckNames` (all prerequisites before any launch),
`Announce`, `Launch`, `Attach`, `Act`, `Teardown`/`Reap` (terminate, wait,
kill), `EndScenario` (the `finally` that announces BETWEEN), `Gap`,
`Stop`/`Stopped`/`Kill`, `Evaluate`; each `…Raise` action is an exception at
that place, and so is the second disjunct of `AnnounceScenario`, which all
writes to the control file go through. The addon's hook is two steps,
`ReadScenario` and `Record`, since main may rewrite the control file in between.
`Request` may happen until the browser is dead, during its teardown too. A
request is at the proxy, recorded and forwarded, in this order; or, if its body
is over a megabyte (`stream_large_bodies=1m`), `Stream` sends it out first and
the hook runs at its end, unless the upload is cut off before (`BreakOff`). It
is lost with the mitmdump that held it, or leaked: it left and nothing recorded
it. `earlier` is the dump that `--output` holds already, which main does not
clear. The faults a run is exposed to are chosen at its start, from the sets in
`FaultSet`: `"proxy"` (mitmdump dies), `"browser"` (it exits), `"raise"`
(mitmdump or the browser cannot be run, or Playwright raises), `"slow"` (the
one-second gap is too short), `"disk"` (a file cannot be written: main and the
driver raise, mitmproxy logs that and forwards the request), `"large"` (bodies
that are streamed), `"port"` (a leftover proxy holds the port: it answers
`wait_for_port` while the new mitmdump is about to find it taken and exit, and
sends on what the browser gives it).

### AuditChecker (`audit/checker.py`)

`check_flows` as a loop over the flows, with the host and path matching done on
the characters, since off-by-ones there are the point. Next to it stands an
independent definition on labels and directories (`Means`, `Covers`), the
meaning the docstring gives to patterns. Each of the two files is read, refused,
or raises something that is no `AuditError`; a flow is sound, malformed, or has
a URL that `urlsplit` raises ValueError for, which `main` does not catch either.
The characters, the names (sequences of labels) and the ports they are spelled
with are the constants `Char`, `Name` and `Port`; `HostsAreNames` says that
every flow's host spells a name and every pattern the checker accepts is one of
names. It is a premise of theorems, not of the run, which also tries patterns
that are accepted without having a meaning (`.`, `:1`, `x:`, `*.x:`) and finds
that they match no name. `AuditHarness` uses only the outcome of the matching
(`Allowed`), and shares the rule that a flow is judged by the section of its own
stamp.

### BuildPipeline (`tools/`, `platforms/`)

`Platform` selects `build.sh` or `build.ps1 -Package`: the same commands, but
different treatment of a failing one (`AfterFailure`) and of an existing
`build/src` (`Skips`). The tree maps each path to the archive it comes from and
the set of patches in it; a download, an extraction, a patch, the compiler, the
packaging or the whole script may break off. Between attempts the developer may
delete `build/src` and the checkout may move to the next pin. `fresh` is a
history: the attempt found no `build/src` when it began.

### PatchValidation (`tools/validate_patches.py`, `tools/_deps.py`)

Runs of the validator, in both modes, with and without `--offline`. A file is
the set of its lines, a patch what it wants in each file before and after. `pc`,
`index`, `todo`, `attempt`, `problems`, `failures` are the run's place and
locals; `cache` and `deps_file` are on disk and outlive it. `Begin`,
`NextPatch`, `ApplyPatch`, `Summary` are `main` and `validate_series` or
`validate_isolated`; `Materialize`, `FetchFromSrc`, `LoadDepMap`, `WriteDeps`,
`FetchSubrepo`, `Write` are the fetcher, one step per request and per write;
requests may fail, in `FetchFromSrc` with up to `FETCH_RETRIES` attempts;
`Interrupt` ends a run at any step and leaves a file it was writing with any
part of its content. `built` and `applies` do the same series to the full tree,
so that the validator's verdict can be compared with what it is a verdict on;
`spoiled` collects the files of the patches that one of the trees refused, where
the two may have parted.

### MC modules

`MCSyncServer`, `MCSyncDevices`, `MCAuditHarness`, `MCAuditChecker`,
`MCBuildPipeline` and `MCPatchValidation` only define the values of constants.
Definitions whose comment begins "Mutated:" are not reachable from any
specification: each is a plausible bug in the action after it, and TLC finds the
property it is paired with in `PROJECT.json` violated when the action is
replaced by it.

## 3. The runs

| Run | Instance | Shows |
|---|---|---|
| `server` | 2 threads, 2 groups, 2 secrets, versions 1–2, two secrets that pair one group, batches up to 3 records, refused and malformed ones, a pull; SQLite errors at every statement and commit, crashes, lost answers; fair | type and six safety properties: `ToldIsKept`, `ConflictsStand`, `NoGapBehindCursor`, `SeqNumbers`, `Authorised`, `ChangesVisible`; `Implements` (refinement of `SyncStore`); `LockReleased` |
| `server_open_transaction` | first pushes, malformed and too long ones, and a pairing whose INSERT is refused; no SQLite error, no crash | **violated** `AcceptsIffNewer` (finding 1) |
| `devices` | 2 devices, 2 collections with one record each, one of them also pulled on its own, 2 edits, 1 broken connection or reinstallation; fair | `NothingMissed`, `NoSplit`, `RowsOpen`, `StoreSteps` (the store moves only as `SyncStore` says), `EditsStored`, `Converges` |
| `audit` | 4 scenario lists (plain, Playwright, unknown name, empty), 2 requests, every set of missing prerequisites; no earlier dump, an empty one, one with an unexplained flow; five fault sets, of two to three faults, with every fault in at least one; fair | `VerdictTrue`, `SentIsExplained`, `PassIsComplete`, `EvidenceKept`, `NothingLeftBehind`, `AuditEnds` |
| `audit_proxy_dies` | one list; mitmdump may die | **violated** `VerdictSound` (finding 2) |
| `audit_aborted` | programs and Playwright may raise | **violated** `OneMeansUnexplained` (finding 3) |
| `audit_checker` | all spellings of names of up to 3 labels against all patterns of up to 2, patterns that are refused or mean nothing, paths against prefixes, audits of up to 3 flows (malformed and unsplittable ones too) over 2 sections, files that are refused or unreadable | `HostsMatchByLabel`, `PathsMatchBySegment`, `VerdictExact` |
| `build_macos` | `build.sh`, 2 files, 3 patches (one adds a file, one builds on both others), 2 pins, 4 attempts, 3 faults; fair | `EveryPatchIn`, `FreshIsExact`, `RerunRecovers` |
| `build_windows` | `build.ps1`, 2 attempts, *no* fault | **violated** `EveryPatchIn` (finding 4) |
| `build_stale` | `build.sh`, 3 attempts, 2 faults | **violated** `PackageIsThePin` (finding 5) |
| `validation` | 3 runs, 4 files in 3 repositories (one nested in another's directory), 4 attempts per request, 152 series: eight chosen ones and all pairs of 12 single-file patches; failing requests, interrupted runs | `CacheIsThePin`, `PassApplies`, `AlarmIsReal` |
| `validation_exact` | one run, *no* fault | **violated** `ValidatedAsBuilt` (finding 6) |

**Why the bounds are enough to see something.** Two threads are what it takes to
interleave authentication, a batch and a pull; a third is a second copy of one
of them. The batches were chosen so that one wins, one rivals it at the same
version, one names a record three times with versions going up and down, one
fails after two writes. In the second group only pairing happens: its commit or
rollback may settle what a registration of the first left uncommitted. Without
the exception of such groups TLC finds `Authorised`, `SeqNumbers` and
`Implements` violated in this very instance, so the case does occur. Two
versions give stale, equal and newer. Two devices and two edits are what a
conflict takes; the second collection is there to be skipped by a cursor taken
from a pull of the first; one loss is a push that reached the server without an
answer, or late, or never. In the audit, two requests are one that crosses a
scenario's end and one on the right side; `idle` allows nothing and `navigation`
one destination, so that any wrong attribution to the later scenario shows as a
wrong pass. In one fault set nothing gets past the capture, so that
`VerdictTrue` speaks of it; in the four others mitmdump dies, files fail, a
leftover proxy answers or bodies are streamed, each along with what it takes to
do damage. The labels `x` and `ex` are lookalikes: one is a textual suffix of
the other. The build's three patches are the smallest series with a patch that
re-applies silently, one that does not, and one that depends on both; four
attempts and three faults leave room for a break, a botched repair, a move of
the pin and a good run. The validator's three runs are one that cuts off `DEPS`
or a file, one that caches what that misled it to, and one that passes or fails
on the result. Among the chosen series is one whose first patch is skipped while
its second is reported wrongly and its third rightly.

**Bounds by name**: `MaxBatch` is the code's own `MAX_RECORDS_PER_BATCH`, small;
the server's runs are finite because versions are (a counter only moves when a
row is raised). `MaxRequests`, `MaxAttempts`, `MaxFaults` bound requests,
starts of the script and breaks; `MaxEdits`, `MaxLosses` what users do and what
network and devices suffer; `MaxRuns` runs of the validator. `FETCH_RETRIES` is
the code's own value. `CHECK_DEADLOCK FALSE` is given where the
program ends: the audit exits, the checker reports, the attempts or runs are
used up. The server and the devices never stop.

**Fairness.** *Server*: weak fairness of each thread's `UpsertStep`, the code
between acquiring and releasing the lock, which depends on nobody else. Clients
owe nothing, and `threading.Lock` is not assumed fair, so no property says that
a particular thread gets in. *Devices*: some device pairs, every device pushes
and pulls again and again (strong fairness, since it can start a call only
between calls: the documentation's device that "keeps syncing"), a call that
does not break is answered (weak fairness of `Serve` or the return), and
connections break finitely often. Users need not edit, nor late batches arrive.
*Audit*: weak fairness of main outside Playwright, because each of its waits
there ends by itself: a sleep, a socket timeout, or a `wait(timeout)` followed
by kill; of the streaming of bodies and of the two steps of the addon's hook.
While a Playwright scenario attaches or acts (`InPlaywright`) nothing is
assumed, since `page.evaluate`, `download.save_as` and `browser.close`
(`audit/scenarios/driver.py:242`, `:252`, `:168`) have no timeout: `AuditEnds`
says that the run ends or stays in there. Nothing is assumed of the browser, nor
that mitmdump ever listens or obeys. *Build*: weak fairness of the running
script's own progress; nobody has to start it, and faults are bounded.

## 4. What is proved

Seven proof modules, six of them over the specification as TLC runs it, for
every value of the constants that satisfies the module's `ASSUME`s (types,
distinctness of the null values, bounds being numbers); the seventh,
`HostNameProofs`, holds the lemmas on names for `AuditCheckerProofs`. Every
invariant and every action property that a passing run checks is proved, and so
are both refinements. For each of the findings a *boundary theorem* says where
the promise does hold: it rules out the other reasons a reader might suspect.
The conditions are explicit premises, named below.

**SyncServerProofs** — for any number of threads, groups, records, versions and
any batches and faults: `TypeCorrect`, `Durability` (ToldIsKept),
`ConflictsAreReal`, `CompletePulls` (NoGapBehindCursor), `DistinctNumbers`
(SeqNumbers), `AuthenticationHolds`, `VisibleChanges` (ChangesVisible) and
`Refinement` (Implements). The properties are not inductive: that an answer
holds after a commit depends on what the thread collected during the loop. The
inductive invariant adds `HandlerType` and `RequestInv` (a thread past its first
step has a request fit for its place), `LockInv` (exactly the thread inside
`upsert_records` holds the lock, and with nobody inside the connection sees the
committed records), `WholeInv` (of a group whose own registration never broke
off the connection sees what is committed, it has both its rows or neither, and
no record without them: no rollback and no other registration's commit touches
it, which is what `AuthenticationHolds` rests on), `LoopInv` (the connection's
table is the committed one with the batch's first `pos - 1` records merged,
`seq` is the counter after that, and what `accepted` and `conflicts` hold is
true of the connection's table), and `CursorInv` (a pull's `server_seq` is a
number already handed out, or its own `since`). `Durability`, `ConflictsAreReal`
and the growth of versions hold of every group; the others except the groups in
`torn`, of which the code keeps less (section 5). The refinement maps such a
group to one the store never heard of; for all others `LoopInv` at the commit is
exactly `SyncStore`'s atomic `Upsert`, and every other step maps to a `Register`
or a stutter. `PushesAnswered` is the boundary of finding 1: where SQLite does
not fail, nobody restarts the server and no client registers a null hash
(`NothingFails`), `AcceptsIffNewer` holds. Its invariant `NoneLeftOpen`, that a
transaction is open only under the lock, is what such a pairing breaks; no
interleaving of handler threads does.

**AuditHarnessProofs** — for any allowlist, scenario registry, list of
scenarios, earlier dump and number of requests: `TypeCorrect`; `Leftovers`
(NothingLeftBehind) and `NothingPassedOver` (PassIsComplete) under every fault;
`NoEvidenceLost` (EvidenceKept): unless a dump fails or a leftover proxy has the
port, a request is in the file before mitmdump lets it out, and the file holds
none of an earlier run; a body that is streamed leaves before it is captured,
and is excepted until its hook has run. `VerdictIsTrue` (VerdictTrue): exit code
0 is sound as long as the run is `Reliable`, that is mitmdump does not die, has
its port, can write and streams nothing, and the gap suffices. Finding 2 shows
that the first of these cannot be dropped. `SentRequestsCleared`
(SentIsExplained) does drop it, and the port, for the requests that left the
machine: all of them are explained when the exit code is 0, even if mitmdump
died under way, so what finding 2 leaves unseen was never sent; and even if a
leftover proxy sent them on unrecorded, because the run then has no flows file
and exits with 2, if `--output` had none before. `OneIsUnexplained` is the
boundary of finding 3: if nothing raises (no program, no Playwright call, no
write of a file), no browser dies and no unexplained flow of an earlier run is
in `--output` (`Undisturbed`), exit code 1 means a captured violation of this
run. The invariant: `Stage` ties processes and control file to main's place;
`Count` the finished scenarios to it; `Way`: only a large body is streamed, and
with a leftover proxy the file stays what it was; `Kept`: the dump holds only
captured or earlier flows and all that passed the hook; `Attributed`: a flow
bears its request's own scenario or a sentinel, which no section of the
allowlist is named after (`AllowedAssumption`: true of the shipped allowlist,
though `validate_allowlist` does not enforce it); `Settled` and `Accounted`:
when a scenario is announced and when the flows are evaluated, no request is
still on its way, and none is missing from the file. `SentInv` keeps of these
what a dying mitmdump leaves true: it takes the requests on their way with it,
so a new scenario still finds none. `FileIsFinal`: after the verdict nobody
writes the flows file.

**BuildPipelineProofs** — `TypeCorrect` on both platforms; `AllPatchesShip`
(EveryPatchIn) for `Platform = "macos"`, any series, archive and number of
attempts and faults. The invariant `HoldsSoFar` says that the first `n - 1`
patches of the series are in the tree while the script applies them, that all
are in the tree when it builds, in the linked browser when it packages, and in
every package made so far. It needs `set -e`: the step "a patch fails" is the
one on which the Windows script breaks it. `FreshBuildIsExact` (FreshIsExact) is
the boundary of findings 4 and 5: an attempt that began without a `build/src`
makes no package but the patched archive of its pin. Its premise `StopsOrFits`
is `build.sh`, where anything may break off, or a `build.ps1` in which
nothing does (`MaxFaults = 0`) and the series is made for the pin (`WellMade`:
a file is added where there is none, changed where there is one). The invariant
`FreshSoFar` gives the whole tree after `n - 1` patches, so neither a missing
nor a foreign patch, nor a file of another archive, can be in it.

**SyncDevicesProofs** — for any number of devices, records, edits, losses and
late batches: `TypeCorrect`, `NothingIsMissed`, `NoSplits`, `StoredRecordsOpen`
(RowsOpen), `EditsAreStored` and `StoreRefined` (StoreSteps: every change of the
store is a registration or a whole `Upsert` of `SyncStore`, so what is proved of
one holds of the other). `Claims(k)` collects every place outside drafts where
a version of record `k` is said to have a text: the store's row, devices'
copies, answers under way. `ClaimInv` says that no claim is ahead of the store
and that claims of the same version are equal; `NoSplit` follows. It is kept
because only the store makes claims: a batch that is pushed twice or late
changes a row to a higher version or not at all. Around it: `ToldInv` (an answer
names a record once and does not go behind the device's copy), `PullInv` (a full
pull started from the cursor and its answer holds every row up to its
`server_seq`, which is why the cursor may move there), `NumberInv` (numbers are
within the counter) and `SoundInv` (a batch has one record per key, and all that
waits or travels opens). `StoreImplemented` puts the steps and the initial
state together: the devices' system implements the specification of `SyncStore`,
the one `SyncServer` implements too. `CaughtUpDevicesAgree` is the half of
`Converges` that needs no fairness: a device whose cursor has come to the
server's counter has exactly the stored version and text of every record, and
two such devices agree; that devices get there stays with TLC.

**PatchValidationProofs** — for any tree, dependencies, set of series and number
of runs and retries: `TypeCorrect`; `SoundCache` (CacheIsThePin), `PassesApply`
(PassApplies) and `AlarmsAreReal` (AlarmIsReal). `RunInv` ties the run's locals
to its place, `CacheInv` says that cached bytes are part of the pin's, and all
of them, with a whole `DEPS`, as long as no run was cut off. `PassInv`: in a
plain series without a failure so far, the sparse file is contained in the full
one (truncated files only lose lines, so what fits there fits in full), and an
untouched one is the pin's. `AlarmInv`: with a sound cache, every sparse file
outside `spoiled` is level with the full one or not fetched yet, and a patch is
found to have a problem only over such a file that the full tree lacks, or over
a spoiled one. So a patch reported as failed, at any place of the series and
after any number of failures, fails on the full tree too, unless it shares a
file with an earlier refused patch: there the trees have parted, and the report
may be wrong (`Skipped` in `MCPatchValidation`). `OrderlySeriesAsBuilt` is the
boundary of finding 6: `ValidatedAsBuilt` holds, as long as no run was broken
off, of every `Orderly` series: one that adds a file only where there is none,
at the pin or after a deletion, and changes a file it deleted only after adding
it again. Its invariant `ExactInv` says that each file is the same in both
trees, or not fetched and untouched so far, or deleted from both.

**HostNameProofs, AuditCheckerProofs** — for any allowlist and list of flows:
`TypeCorrect`; `PathsMean` (PathsMatchBySegment: what `path_matches` computes on
the characters is the meaning of directories, for all lengths); `HostsMatch`
(HostsMatchByLabel: what `host_matches` computes on characters, with case,
trailing dots and ports cut off, is the meaning of names, and no pattern with a
meaning is refused, for labels and names of any length); and `VerdictIsExact`
(VerdictExact: 0 exactly if both files were read, every rule is usable and every
flow is well-formed and explained; 2 exactly where the first thing wrong is one
the checker refuses; 1 for the rest, what raises past main included).
The last two assume `HostsAreNames`: of a host that spells no name, or a pattern
that is accepted without being one of names, the docstring gives no meaning to
compare with. Of the latter the run tries a few. That a
spelling determines its labels, and where a suffix of it is a name, is an
induction over labels; `HostNameProofs` does it on the set of lengths for which
the statement holds: that set is `Nat` because its complement has no least
element (`Induct`, from the library's `WFMin`), which needs no operator as a
parameter. The invariant of the loop: `SoFar`, the violations recorded are
exactly those of the flows judged so far; and `Judgement`, a verdict that was
given is right about all of them.

**Only model-checked**: all liveness (`LockReleased`, `Converges`, `AuditEnds`,
`RerunRecovers`), whose fairness needs ENABLED, beyond the prover; and the
violated properties, outside the boundaries proved.

## 5. Findings

1. `create_group` has no rollback (`sync/server/app.py:90`): a pairing request
   whose INSERT raises leaves the transaction open on the shared connection, and
   the next client's good push fails at its `BEGIN` and is dropped. The rollback
   of that push repairs the connection. Without a raising statement no push is
   dropped (`PushesAnswered`). The same missing rollback leaves half a
   registration behind if the second INSERT or the commit raises: its row is
   visible to every thread but not committed. The client's retry is answered
   `paired: true`, and its pushes and pulls are authenticated, until a rollback
   or a restart takes the group away again; or another group's commit keeps it,
   without a counter, and all its batches are numbered from 1. The properties
   except the group itself (`torn`) and hold of all others.
2. Nothing notices mitmdump dying during a run (`audit/capture.py:210`): later
   requests are unseen and the audit may pass. The exit code's documentation
   (`audit/audit.py:21`) has 2 for an audit that could not run. What did leave
   the machine is accounted for (`SentRequestsCleared`), if `--output` is fresh
   and no body was streamed.
3. A scenario that aborts exits with Python's own status 1
   (`audit/audit.py:113`), documented as "at least one unexplained request"; so
   does mitmdump or a browser that cannot be run and a file that cannot be
   written (`audit/capture.py:199`, `audit/scenarios/driver.py:130`,
   `audit/audit.py:98`). Without such an exception, and with nothing unexplained
   left in `--output`, the status means what it says (`OneIsUnexplained`).
4. `build.ps1` ignores the status of the Python tools and unpacks over an
   existing tree (`platforms/windows/build.ps1:31`): a second pass, which is how
   BUILDING.md and the release workflow call it, packages a browser with part of
   the series.
5. `build.sh` takes the existence of `build/src` for completeness
   (`platforms/macos/build.sh:43`): after an interrupted unpack, or a moved pin
   over an unpatched tree, it patches and packages what is there. An attempt
   that starts without a `build/src` does not (`FreshBuildIsExact`).
6. The validator does not see every tree as the build will: a file that a patch
   adds is never fetched (`tools/validate_patches.py:53`), so one that the pin
   has already goes unnoticed, and one that an earlier patch deleted is fetched
   again (line 148). Both pass, while the same series fails on the full tree;
   lines 8-10 promise "exactly as they will apply at build time". They hold
   of every orderly series (`OrderlySeriesAsBuilt`).

Also seen, and left out of the properties by their conditions:

- `audit/capture.py:124-125` says that by dumping after every request "a crash
  or hard kill never loses evidence". Of a body over a megabyte, which mitmdump
  streams (line 195), some has left before the addon sees the request, and
  nothing is recorded if it is cut off then (`EvidenceKept` excepts it).
- With a leftover proxy on the port and the flows file of an earlier run in
  `--output` (`audit/audit.py:83-89` does not clear it), an audit can exit 0
  while requests went out that nothing recorded (`Steady` excepts it).
- `audit/checker.py:325` catches only `AuditError`: a URL that `urlsplit`
  refuses (`https://[bad`, line 162), or a file that cannot be read or is not
  UTF-8, ends the checker with a traceback and status 1. It is never 0
  (`VerdictExact`), and `audit.py:123` catches these exceptions.
- `validate_allowlist` accepts patterns without a meaning (`.`, `:1`, `x:`,
  `*.x:`); they match no name. And `x..` is taken for `x`.

`_normalize_host` strips trailing dots before it cuts the port
(`audit/checker.py:70-78`), so that `x.:80` becomes `x.` and matches no rule;
that flags, and never excuses. BUILDING.md:18 speaks of much faster incremental
builds, but a second `build.sh` over a patched tree stops at `apply`.

## 6. Assumptions about things outside the repository

GNU patch with `--forward`: refuses a patch whose effect is there already where
it can tell, certainly refuses one whose context is missing or whose new file
exists, and may leave a failed patch's other files changed. Tar extraction
overwrites the files the archive holds and removes nothing. PowerShell does not
treat a native command's exit status as an error. Ninja needs every file of the
archive and relinks when the tree differs. mitmproxy runs an addon's `request`
hook to its end before it forwards the request, except that with
`stream_large_bodies` a larger body is passed on as it arrives and the hook runs
at its end; it serves its port before calling `running`, exits without `done`
when it is told to before that, and logs, but survives, an exception in a hook.
A leftover proxy forwards or drops what it gets. Python's `sqlite3` opens a
transaction implicitly before DML and keeps it open when the statement raises;
one connection shows its uncommitted rows to all threads that use it. After some
errors SQLite rolls the transaction back by itself. Its commit is atomic and
durable. gitiles serves a file only from the repository it lives in, and the
same bytes each time. A device's user is an application that does with the
library's results what its documentation says (section 2).

## 7. What is not modelled, and why

- Server: `/v1/health`, 404 and 413 change no state; HTTP keep-alive; the
  in-memory database (one process, no crash to survive); real cryptography.
- Audit: KeyboardInterrupt (a user who stops the audit wants no verdict); what a
  scenario clicks on, report wording, the standalone CLIs of
  `capture.py` and `driver.py`. Whether a scenario had any effect: one that only
  sleeps passes with a browser that exited at once, and no document says more.
- Sync client: key derivation and cipher, the command-line demo, batches beyond
  the server's limit.
- Patch validation: parsing a patch file (its effect is a constant), fuzz and
  line offsets, the wording of the report.
- Checker: JSON decoding and wording. IPv6 literals in `NormalizeHost` are
  listed as a hazard without a property; the allowlist names none.
- Build: the filter lists and the read-only `check` command of `fetch.py`;
  `--dry-run`, `--reverse`, `--keep-going` (no script uses them, and `patch -R`
  on a tree without the patch may stop to ask); toolchain and branding steps of
  `build.sh`; which objects ninja rebuilds.

## 8. Plan

Done, in this order: `SyncStore` and `SyncServer` with their proofs (the state
users cannot afford to lose), `AuditHarness` and its proofs (the verdict the
project's claim rests on), `AuditChecker`, `BuildPipeline` and its proofs;
`SyncDevices` and its proofs, which continue the chain from the server's
transactions over the abstract store to what users see; `PatchValidation` and
its proofs; the full disk and the taken port in `AuditHarness`; the proofs of
`AuditChecker`, then of its host names; attempts from scratch in
`BuildPipeline`; the full refinement of `SyncStore` by the devices, what devices
that caught up agree on, and the boundary of each finding; registrations that
break off half-way, exceptions of programs and files, streamed bodies, leftover
proxies and earlier dumps in the audit, what raises past the checker's main, and
alarms per patch.

Left, in order of worth:

1. `SyncDevices` with deletions as records of their own and a restored backup
   (a device that returns with an old copy and cursor).
2. The rank arguments behind the liveness properties (the lock's holder gets
   closer to its release, main closer to its exit with each step), as action
   properties, since the prover can do those.
3. `--keep-going` and `--reverse` of `apply_patches.py`, if a script comes to
   use them.
