# Formal model of STIG Audit Pro

STIG Audit Pro is a desktop program that connects to network devices over SSH,
runs approved read-only commands, evaluates STIG checks over the output, and
keeps the results with their evidence as *audit runs*. This directory holds
TLA+ modules translated from the program's source, the TLC configurations that
check them, and proofs checked by TLAPS. `PROJECT.json` lists the components,
runs, mutants, findings, hazards and theorems, and maps every definition to the
lines it stands for.

Run a configuration with `tlc -workers 2 -config X.cfg M`, the proofs with
`tlapm M.tla` for each of the eight modules whose names end in `Proofs`.

## 1. Inventory

### Components, their state and their operations

| Component | State | Operations that change it |
|---|---|---|
| Scan orchestrator (`application/scan_orchestrator.py`) | pending futures, next index, outcomes, the caller's event queue | `run`, its `execute` wrapper on pool threads |
| Audit service (`application/audit_service.py`, `infrastructure/ssh`) | none of its own; a runner per worker | `run_live`, `run_offline`, `_evaluate_device` |
| Run service (`application/run_service.py`) | the run context (a lock, the artifacts of the run) | `begin_run`, evidence sink, `persist_result`, `abort_run`, `import_offline`, `save_manual_decision`, `purge_raw_evidence`, `delete_run`, `import_audit_package` |
| Evidence store (`infrastructure/evidence/evidence_store.py`) | one directory per run: snapshots, `device.json`, raw outputs, `results.json`, `manifest.json`; a lock | `create_run`, `write_snapshot`, `prepare_device`, `write_evidence`, `write_results`, `finalize_run`, `purge_raw_evidence`, `delete_run` |
| Repositories and database (`infrastructure/persistence`) | SQLite: runs, devices, results, artifacts, log, benchmarks, mappings; a schema version | one transaction per method; migration at the start |
| Main window (`gui/main_window.py`) | scan flag, cancellation event, event queue, callback queue, poll flag, current run, active profile | `_begin_scan`, two timers, completion callbacks, `cancel_scan`, history, profile, license, STIG and backup commands |
| Target table (`gui/targets_tab.py`) | target records, a row of widgets for each, the selection | add, load, check, select, remove, clear |
| Evidence page (`gui/evidence_tab.py`) | artifacts, selected row, text shown, generation of loads | open, select, a reader's answer, purge, delete |
| Audit packages (`application/audit_package_service.py`) | archive files | export, verify, import |
| Backup (`application/backup_service.py`) | archive files; database and data directories | create, inspect, restore in place |
| Licensing (`licensing/manager.py`) | the license file, the loaded license and its status | `load`, `import_license`; feature and target limits |
| STIG library (`stig/`, `application/stig_lifecycle_service.py`) | cached packages, releases, check mappings, YAML libraries | import, compare, map, review, coverage, starters |
| Check engine, parsers, command policy, writers, reports, comparisons (`core/`, `parsers/`, `stig/`, `reports/`) | none | pure functions over texts and records |
| Storage, settings, tools, scripts | small files saved whole | save, load |

### How they interact

The Tk thread starts a scan: it reads the target table, asks the license, sets
the flag, calls `begin_run` (record, bundle, devices) and starts the *scan
thread*. That thread calls the orchestrator, whose *pool threads* collect, call
the evidence sink (database and bundle), parse, and evaluate. Workers and the
orchestrator put events in a queue; the scan thread puts callbacks in another.
Two Tk timers poll them. When the orchestrator returns, the scan thread persists
and finalizes the run, or aborts it if anything raised. Meanwhile the operator
may cancel, open, purge, delete, export or import runs, change the table, back
up and restore, all on the Tk thread. Database and bundle have no common
transaction.

### What is hard

* three kinds of threads that share an event, two queues, a store and a database;
* cancellation at any moment of submission, execution and completion;
* durable work in many steps, any of which can raise, in two stores, with
  cleanup code that can raise, too (runs, package imports, restores, migrations);
* a check outside a lock and the work inside it (`_writable_run`);
* exceptions swallowed by the abort path and by the callback dispatcher;
* state shared by consecutive scans (event, queues, timers, current run);
* state kept twice: table records and widgets, check files and loaded checks,
  license file and loaded license, cache and library;
* identities: ids from another installation, rules whose identifiers change
  between releases, runs matched by keys;
* verdicts that are vacuously true when there is nothing to look at.

What makes each component correct:

* *orchestrator*: the pool bound, failure isolation, one outcome per target, ordered
  reports, nothing left running when it returns, the documented run status;
* *store*: no artifact lost, every listed artifact verifies, nothing changes after
  the manifest;
* *lifecycle*: a run is begun completely or not at all, always closed, its manifest
  last and backed by the database, and a deleted run does not come back;
* *window*: one scan at a time with its own events and cancellation, an end for
  every scan, protection of the active run;
* *evidence page*: the text shown is that of the selected artifact;
* *packages*: a package imports completely or not at all, and what comes back is
  what was exported;
* *backup*: a restore ends in the old state or the new one, and nothing is lost;
* *setup*: a scan is on the rows and profiles the operator set, and a license
  allows what it grants and nothing else;
* *library*: every import is kept, a review counts only for the text it was made
  of, generated checks load;
* *checks and comparisons*: a pass is true of the device, an Open finding, too; a
  comparison classifies every rule and every result once, and all reports agree.

## 2. Modules

| Module | Models | Uses |
|---|---|---|
| `ScanContract` | what a scan promises: abstract specification | |
| `ScanOrchestrator` | `ScanOrchestrator.run` and its workers | refines `ScanContract` |
| `ScanOrchestratorProofs` | theorems about it | extends `ScanOrchestrator` |
| `EvidenceStore`, `MCEvidenceStore` | the bundle of one run; constants for TLC | |
| `EvidenceStoreProofs` | theorems about it | extends `EvidenceStore` |
| `RunLifecycle` | the run in database and bundle, from begin to delete | composes `ScanContract` |
| `RunLifecycleProofs` | theorems about it | extends `RunLifecycle` |
| `GuiSession` | the window and its scan thread | reduces `RunLifecycle` to a run's existence |
| `GuiSessionProofs` | theorems about it | extends `GuiSession` |
| `AtomicChange` | what a handler promises that may fail: all or nothing | |
| `AuditPackage` | export, verification and import of a finished run | refines `AtomicChange` |
| `AuditPackageProofs` | theorems about it, with the refinement | extends `AuditPackage` |
| `BackupRestore` | backup, restore in place, opening and migrating the database | refines `AtomicChange` |
| `BackupRestoreProofs` | theorems about it, with the refinement | extends `BackupRestore` |
| `AuditSetup` | license, target table, profiles, and the start of an audit | |
| `EvidenceView`, `MCEvidenceView` | the Evidence page and its readers; constants for TLC | |
| `GuiTabsProofs` | theorems about these two tabs, which share no state | extends `AuditSetup` and `EvidenceView` |
| `StigLibrary`, `MCStigLibrary` | packages, releases, mappings, reviews, starters; constants for TLC | |
| `CheckEngine` | every evaluator, exceptions, command registry and plan, as operators | |
| `IosxeParsers` | the parsers as folds over lines | |
| `StigMatching` | release diffs, run comparison, checklists, report counts, as operators | |
| `ParserCases`, `ReleaseCases`, `CheckSoundness` | cases and reference definitions for the three modules above | each extends the one before |
| `StigProofs` | theorems about checks, comparisons, checklists and reports, and about the library | extends `CheckSoundness` and `StigLibrary` |

Two components that have a proof module in common share no state; the initial states, steps
and specifications of one of the two have names of their own (`PageSpec`, `LibrarySpec`).

The composition is by contract. `ScanOrchestrator` shows, in the run `scan` and
as theorem `ImplementsContract`, that it implements `ScanContract`; `RunLifecycle`
uses the contract's actions (`Contract!Decide`, `Contract!Close`,
`Contract!RequestCancellation`) in place of the executor. The store's callers'
discipline (`MayCall`: a run is finalized, purged or deleted when no worker
writes) rests on `NoStraggler` of the orchestrator and `FinalIsFinal` of the
lifecycle, and on the guard in the window. `AuditPackage` starts with the bundles
that `RunLifecycle` leaves behind (`Bundles`).

### ScanContract and ScanOrchestrator

`ScanContract` has the outcomes, the cancellation and the status only. A step
decides some undecided targets, requests cancellation, or closes the scan with
the status that SCAN_LIFECYCLE.md documents for the outcomes.

`ScanOrchestrator` has one action per interleaving point of `run`. `TestRoom` and
`Submit` are separate because cancellation can be set between the loop's test and
the submit. `WaitFirst` takes all futures finished by then, `Deliver` pops one and
emits its two events, `Withdraw` and `LeaveRunning` are the two results of
`future.cancel()`. A future goes unsubmitted, queued, picked, admitted, through
the worker's stages to a terminal status, or is withdrawn. `feed` keeps the device
events of each target in queue order, `progress` the counts of the PROGRESS events,
`late` the targets that had not passed `execute`'s check when cancellation was
requested. A worker's SSH commands are reduced to the outcomes they can lead to;
`PickUp` is the executor of the Python library.

### EvidenceStore

One run, two threads. Every operation but `delete_run` first passes its check
(`Call`), then waits for the lock, then works; `write_evidence` is five steps:
open the device directory, write the file, extend `device.json`, insert the row,
write `device.json` again. An exception between steps (`Fault`) releases the lock
and leaves what is written. A digest is the number of the call whose output it is,
so two outputs never have the same one. All writes are of one command, the case
where names collide. `Disciplined` says whether callers keep finalize, purge and
delete apart from writes.

### RunLifecycle

One action per transaction or store operation of `begin_run`, the sink,
`persist_result`, `abort_run` and `delete_run`, in program order. `pc` is the
owner's next step; `Raise` lets it raise and goes where the `except` clauses of
the code go (`Handler`). `Possible` is what a step needs to work: the record is
there (`KeyError` otherwise), the bundle is writable. A worker that raises
becomes an EVALUATION_FAILED outcome, with what it wrote before left in place.
`Aborts = 2` is the checklist scan, which aborts in `_run_service_targets` and in
`_checklist_scan_worker`; `Aborts = 1` the live scan. `Unguarded` allows deletion while the
run is active, which the window does not prevent (section 4). All commands of a
device are one evidence item, all its results one item.

### GuiSession

Every handler is an action, as Tk runs them one at a time. `scanning`, `cancel`,
`polling`, `events`, `callbacks` and `current` are the window's attributes,
`running` the last argument of `set_scan_state`, `timers` the scheduled polls.
The scan thread collects, emits progress, and posts its last callback; of the
run it works on only the record and the raw evidence are kept. Handlers and
thread starts can raise: a start that raises is handled for live and checklist
scans and is not for imports; a callback that raises is swallowed; a poll
that raises ends its chain. The two timers are independent, so either queue may
be polled first. Of the events only PROGRESS is kept, the one that changes
modelled state; one callback runs per step, which allows more orders than the
dispatcher's loop and no other states.

### EvidenceView

Every selection starts a reader's thread with a number, and an answer is shown when
its number is still the latest (`Own`, `Wanted`). `Show` opens a list of artifacts and loads
the first, `Select` is a click, which Tk reports later (`changed`, `SelectionChanged`), `Read` is the
thread, `Deliver` the callback it posts. Purging and deleting take files away under
readers that have started.

### AtomicChange

Three actions: a handler begins, something may happen that may be seen, and it
ends, with what can be seen being what it was before or all of what was asked
for. `AuditPackage` maps to it the import and the deletion of a run, with "absent",
"whole" and "mixed" for what History shows; `BackupRestore` the restore, with the
archive's data in its places or in none. A cleanup that raises or the death of the
process counts as a mishap; until it, no intermediate value survives a handler.

### AuditPackage

One run that is sealed: what its bundle says is a constant of a behaviour, chosen
from what `persist_result` and `abort_run` leave. The operator reviews results,
purges, exports, deletes, imports; `Spoil` and `Damage` change bytes outside the
program. Every device of a completed run has results: for a failed one the window adds the
result `DEVICE-SCAN`. The import is one action per transaction and file operation: publish by
rename, verify, record, devices, artifacts, results, links, counts and log entry;
`ImportRaises` goes from any of them to the two cleanup steps, `CleanupRaises` and
`Crash` end those early. Row ids are drawn from a set that another run uses, too, so
that an id that is not remapped is seen (`newId` is `old_to_new_artifact`). A result of which no
id is mapped is linked by its commands (`Linked`); the proof shows that this adds nothing to a
package that verifies.

### BackupRestore

A place is the database, a data directory, or the evidence; its data is a number that
each write changes. `CopyFile` and `HashFile` are apart, and a scan may write
between them. A restore builds its safety backup in the same way, validates,
and then moves each place aside and publishes the archive's; `MoveRaises`,
`PublishRaises`, `PutBack`, `Undo` and `UndoRaises` are its two levels of rollback.
`Open` and the four steps after it are the start of the program, which migrates a
database of any version and may die in the middle.

### AuditSetup

`clock` and `file` are the environment; `licence` is the manager's state, reloaded by
the same handlers as in the code. `targets` are the table's records, `rows` its
widgets: what the operator clicks changes the widgets only, and `Sync` reads them into
records by position where the code does. `wanted` is a history variable: the table
as the operator set it. An audit that starts leaves `scan`, with its targets, their
profiles, its check families and its kind: checked rows, a selected or the whole scope, checklist,
sample, or retry.

### StigLibrary

Two families, the packages DISA published, the cache with one package per family,
the library of releases with their fingerprints, `check_mappings` with reviews, two
check files (written by hand, generated) and the checks loaded from them. Every
command of the STIG tab is one action: imports run through cache, database and
comparison in one handler, and a failure in between leaves what came before it. `view` is
the tree, which refreshes only when all went well. A check file may itself claim that its check was
reviewed against a text; `held` is the history of what the main file has said, and
`ReviewIsEarned` accepts such a claim like the operator's mark (`marked`), also one that was
mapped while the check was still a manual one. A check is of the rules that any of its identifiers
names (`MatchesRule`): its vulnerability, or (`named`) the rule whose STIG ID or rule ID it gives;
a row is made when that is one rule of the release, and coverage counts a rule with one such check.

### CheckEngine, IosxeParsers, StigMatching

Pure operators. Text is abstracted to what a pattern tells apart: a configuration
is a set or sequence of classified lines, names are pairs of what they are when
folded and how they are spelled, an address is the set of its bits that are set, of
`Bits` bits in all, and so is a mask or a wildcard. Each evaluator returns
status, failed objects and passed objects. Parsers are folds (`FoldLeft`) of a step over
lines that keeps the section it is in, as the code's loops do. `CheckSoundness`
picks one input in one step, evaluates it, and compares with reference definitions
that speak of the device instead of the text: `Admits` decides for every address
which statement of the list speaks first, `Guarded` follows switches to ports,
`Consents` looks for a banner from its delimiter to its end. `ParserCases` and
`ReleaseCases` do the same for parsers and for releases, runs, checklists and counts. Rules
differ in any of the eight fields of `RULE_FINGERPRINT_FIELDS`; the summary of two runs is compared with
counts read off the runs (`SummaryDue`).

## 3. Runs

Twelve runs. Those that pass:

| Run | Size | Shows |
|---|---|---|
| `scan` | 3 targets, 2 threads, one connection error | orchestrator properties, termination, refinement of the contract |
| `store` | 2 threads, 2 devices, 5 calls, 1 failure | store properties under the callers' discipline |
| `lifecycle` | 3 devices, 1 exception anywhere, 2 aborts, deletion at any time | lifecycle properties |
| `session` | 3 scans, 2 waiting events, 2 exceptions | window properties |
| `package` | 2 devices, 1 command, 1 exception or crash | import and deletion are atomic and faithful |
| `restore` | 3 places, 4 values, 2 exceptions or a crash | restore is atomic, nothing is lost, migration is whole |
| `setup` | 2 rows, 2 profiles, 2 moments, 1 audit and retries | audits are as asked and as licensed |
| `library` | 2 families, 2 releases, 1 edit | imports kept, reviews earned, generated checks load |
| `view` | 3 commands, lists of 0, 1 and 2 artifacts | the text shown is the selected one's, and comes |
| `engine` | 2-bit addresses, 2 VLANs, up to 2 objects, up to 5 lines | checks, parsers, comparisons and writers against references |

Why these bounds are enough: with three targets and two threads there is a target
never submitted, one queued or racing its submission, and one running, and the
refill loop runs for several completions at once; COMPLETE, FAILED, PARTIAL and
CANCELLED all occur. Two store threads are the least that race, and five calls
allow create, two writes of one name, a finalize and a later call. One exception in
the lifecycle reaches every handler; three devices give each loop a first,
a middle and a last pass. Three scans let what the first leaves behind meet the
second, and the second's meet the third. The symmetry of `store` permutes the two
threads, which no property distinguishes; devices and their directories stay as they are. Two devices are
needed for a link to lead to the wrong one, and one exception in an import reaches each
of its steps. Three places give the restore a first, a middle and a last one, and two
exceptions one in its loop and one in its rollback; versions of data are 4 because backup,
scan, safety backup and restore can each have one. Two rows are the least whose widgets can
be confused, two moments a license before and after it expires; the table is edited before the
last audit. Two releases make one previous and one current, of one family or of both. For the
evaluators two bits have an address inside and outside a network, a wildcard that is a
mask and one that is not; two objects are enough for "one is right, the other is not".
Three commands on the Evidence page are an opening and two
that overtake it.
In `engine` each state is one evaluated case, and deadlock is not an error there: a case
has no next step.

The properties, by the question they answer:

* *Does a scan keep its bound and its order?* `NoStraggler`, `FeedTellsTruth` (per-target
  events end in the outcome, PROGRESS counts grow, targets late for a cancellation
  never connect, everyone is attempted), `Termination`, `ContractHolds`.
* *Is evidence kept and verifiable?* `BundleVerifies` (what is listed is there with its
  digest, what a call returned is recorded, writes fail closed, no path is used twice),
  `SealedForGood`.
* *What do database and bundle say after any failure?* `ClosedAndSealed` (begun whole or
  not at all, never RUNNING when its owner is done, manifest last, success sealed, rows
  backed by files), `FinalIsFinal` (a sealed bundle does not change, a deleted run
  does not come back), `Finishes`. The first holds in every state, so it also
  says what a crash at any step leaves.
* *Can scans of one session disturb each other?* `OneScan`, `QueuesServed` (events are of
  the scan that is shown, one chain of polls, nothing stranded), `CancelIsOwn`,
  `GuardProtects`, `Responsive`.
* *Is the evidence on display the selected one?* `ShownIsSelected`, `SelectedIsShown`.
* *Does a run survive its travel?* `ImportIsAtomic`, `FoundAsSent`, `IntactAndOnlyIntact` (a
  safety and a liveness half: only intact evidence is imported, and it is).
* *Does a restore?* `RestoreIsAtomic`, `DataIsWhole`.
* *Is the right thing scanned, by right?* `RowsAsSet`, `AuditsRightly`
  (asked for, licensed, and no valid license lost to a bad file).
* *Is the library true to its imports?* `ImportedIsKept`, `ReviewIsEarned`,
  `GeneratedLoads`.
* *Are the verdicts true?* `PassIsEarned` (true of the device, collected for, and not for
  lack of anything to look at), `OpenIsTrue`, `ParsersFaithful`, `DiffsComplete`, `RunsComparedFairly`, `RecordsAgree`.

Several of these are conjunctions of parts that have names and comments of their own in
the modules. Every property has a mutant, an operator before the original marked
`Fault:`, which makes TLC find the property violated; some modules have more fault
operators than the runs need, one for each part.

Fairness. The orchestrator's caller and each pool thread are weakly fair: threads
are scheduled, and every blocking call of a worker has a timeout. Nothing is fair
about cancellation, nor about the operator. In the lifecycle the owner and each
worker are weakly fair, because each call returns or raises. In the window the two timers
are, because Tk's loop runs them again and again, and the scan thread's end is, which is what
`Termination` and `Finishes` say of it. In `package` the steps of an import are, for the same
reason as those of the lifecycle; exporting, importing and all else the operator does is not. On the Evidence page
readers are, as reading a file ends, and Tk's reports and callbacks.

Deadlock is checked where the system cannot stop. `GuiSession`, `AuditPackage`,
`BackupRestore`, `AuditSetup` and `EvidenceView` are bounded in what the operator does, or end with the
death of the process, and may stop; `CheckSoundness` evaluates one case.

## 4. Where code and documentation disagree

Two runs are expected to end with a counterexample.

| Run | Statement | What the code does |
|---|---|---|
| `setup_rows` | "Check every target that should be audited." (TESTER_GETTING_STARTED.md) | removing a row reads the old widgets into the records that are left: the row that moves up gets the removed row's box and profile |
| `engine_missing` | a missing profile value must not give a false pass (CHECK_AUTHORING_GUIDE.md) | DHCP snooping and ARP inspection compare with an empty list and pass |

Further configurations are kept beside them and reproduce in the same way, with
`tlc -config X.cfg` and the module in parentheses:

| Configuration | Statement | What the code does |
|---|---|---|
| `ScanOrchestratorAnnounce` (`ScanOrchestrator`) | all remaining targets receive a CANCELLED outcome/event (docstring of `run`) | a withdrawn future gets the outcome but no event |
| `EvidenceStoreRace` (`MCEvidenceStore`) | after finalization all writes fail closed (class docstring) | the check comes before the lock; a write already admitted lands after the manifest. The program's own callers avoid it |
| `EvidenceStoreShared` (`MCEvidenceStore`) | per-device artifact paths (EVIDENCE_HANDLING.md) | identities with one safe name share a directory |
| `RunLifecycleRelabel` (`RunLifecycle`) | a finalized assessment must not be relabelled (comment in `_checklist_scan_worker`) | a log entry that raises after `finalize_run` makes the record FAILED, the manifest stays COMPLETE |
| `RunLifecycleFailed` (`RunLifecycle`) | FAILED: no device completed (SCAN_LIFECYCLE.md) | `abort_run` writes FAILED over runs with COMPLETE devices |
| `GuiSessionDelete` (`GuiSession`) | "The active audit run cannot be deleted." | opening another run during a scan, or an offline import, removes the protection |
| `GuiSessionWait` (`GuiSession`) | "A scan is already running. Cancel it or wait for it to finish." | after an exception in a completion callback or in an import thread's start, waiting does not help |
| `GuiSessionControls` (`GuiSession`) | "No scan is currently running." | a late PROGRESS event switches the controls back to running |
| `AuditPackageResults` (`AuditPackage`) | export and import preserve results (CURRENT_LIMITATIONS.md) | the package has the bundle's results: decisions of a reviewer are in the database only |
| `BackupRestoreReport` (`BackupRestore`) | "Current data was rolled back where necessary." (restore dialog) | when the log entry after a restore raises, the dialog says so of data that was replaced |
| `AuditSetupRetry` (`AuditSetup`) | the license is reloaded before every scan (OFFLINE_LICENSING.md) | a retry of failed devices is not checked again |
| `StigLibraryStarters` (`MCStigLibrary`) | "Never overwrite an existing mapping." (STIG_UPDATE_GUIDE.md) | building starters again replaces the generated file with those for rules that no loaded check has, so the first ones go |
| `EvidenceViewNoneShownForNone` (`MCEvidenceView`) | "No linked evidence is available for this selection." (Evidence page) | opening a result without evidence does not count the generation up, so the answer to an earlier selection is shown in place of this sentence |
| `StigLibraryForward` (`MCStigLibrary`) | a diff compares with the release before (STIG difference guide) | two selected releases are compared in the order that the tree gives them, which is Tk's |

Seen while modelling, and not stated as properties:

*Lifecycle.* With `MaxFaults = 2` a run can stay RUNNING (`abort_run` raises,
`_abort_persistent_run` swallows it), and a `begin_run` whose cleanup raises leaves the
bundle. Without the discipline, paths repeat when a run is purged while it is written.

*Packages.* A package of an aborted run has no statuses in its manifest, so its failed devices
come back as COMPLETE (`run_service.py:717-751`). A run whose evidence was purged is
exported as a package with evidence, verifies, and cannot be imported. The death of the
process in an import, or a cleanup that raises, leaves a record or a directory on which
the next attempt is refused.

*Backup.* Files are copied, then hashed; a scan that writes in between makes an archive
that does not verify, which is noticed at the restore. Places that the archive has not are left as
they are, although the dialog speaks of replacing the data. Nothing refuses a restore during a scan.
A rollback that raises deletes what was moved aside with its temporary directory; the
safety backup remains.

*Checks.* Of the NTP lines of a server only the first that has a key is judged. A
condition on a command that is not among the check's commands is evaluated over "". Root
guard compares short host names. An exception for one object decides the
result of all. A check of the type manual_review is reported with its fail status. A forbidden pattern whose match is blank is ignored. `switchport trunk allowed
vlan remove` that leaves nothing starts from all VLANs. A trunk table that no empty line
separates from a VLAN list is read as VLANs.

*Evidence page.* While "Loading evidence..." is shown after a selection, Copy and Find Next still work
on the text of the artifact before.

*Comparisons.* The window passes no rule fingerprints, so that NOT_COMPARABLE for a changed rule
never happens (`AUDIT_HISTORY_GUIDE.md:22`). An Open finding of a rule that the earlier run did not have is
newly applicable, and not counted as new. Results of one address and rule collapse to the last.
199 of 200 rounds to 100 % (round half to even). Ambiguous rules are exported as a cross product.

*Setup.* After a failed license import the status line says that Free mode remains, also when a
valid license does. A license file that is not UTF-8 raises out of `load`.
`_set_active_profile` takes the name before it loads the file. A retry replaces the table, drops
profile overrides, and does so during a scan as well.

*Library.* Mappings of a new release start unreviewed. The mapping of a check that was
removed stays, and counts for its replacement. A check that gives only the rule ID or STIG ID of a rule is
mapped and covers it, but cannot be marked reviewed, and does not keep a starter from being built for the rule,
after which the rule has two checks and counts as stale. A package imported for the wrong family is cached, and not stored. The
previous release is the one imported before, so that importing an older one later
reverses the difference. Marking uses the selected release, whatever the diff on display is of.

## 5. Proofs

Every component that has states and steps of its own has theorems, for every value of its
constants, from the named assumptions of its modules and nothing else. All are proved in the same
way: an inductive invariant (`IInv`, `PageInv`, `LibraryInv`), checked with TLC before it was proved; that it
holds at first; that every step keeps it, one lemma or case per action; and then
what follows from it, or from one step that starts in it. The operators without state, checks,
comparisons and writers, have theorems about any input, and from those follow
the properties of the cases that TLC runs.

### Scan orchestrator

`ScanOrchestratorProofs` holds five theorems for every number of targets, every
pool size of at least one and every set of errors (`ScanAssumption`).

* `TypeCorrect`: `Spec => []TypeOK`.
* `Bookkeeping`: `Spec => []IInv`, the inductive invariant. `IInv` is `TypeOK` with
  `Flow` (which futures can exist at which point: none beyond `next`, an armed
  submit still has room, the worklist holds finished pending futures while
  delivering) and `Books` (pending futures are undecided, decided ones are not
  pending, an outcome is the future's result or the cancellation of a withdrawn or
  never submitted one, a CANCELLED outcome has a requested cancellation behind
  it). `NoStraggler` alone is not inductive: that a submit stays within the pool
  depends on what the loop's test established two steps earlier, and that nothing is
  left running depends on every live future being in `pending`.
* `NoStragglerHolds`: `Spec => []NoStraggler`.
* `ImplementsContract`: `Spec => ContractHolds`. Each `Deliver` and `Withdraw` maps to
  `Decide` of one target, `CancelRemainder` to `Decide` of all targets never submitted
  or to a stutter, `Report` to `Close`; all other steps leave the contract's
  variables alone. The status case needs `Books`, which says that CANCELLED outcomes
  exist only after a request.

* `FeedIsTrue`: `Spec => []FeedTellsTruth`. A second invariant on top of the first, `Told`: beside
  the parts of `FeedTellsTruth` it says that a target no worker was admitted for has been
  announced, at most cancelled (`Untouched`), where the future of a late target can get to
  (`LateStays`), and that without cancellation a stage or outcome has a CONNECTING event
  behind it (`Attempted`). That PROGRESS counts grow rests on the cardinality of the decided
  targets, one more with each outcome (`DecidedGrows`).

`StepIInv` splits into the caller's steps (`MainStep`) and the threads' (`ThreadStep`), one
step of the proof per action.

### Window

`GuiSessionProofs` holds six theorems for every number of scans, every length of the
event queue, every set of kinds and any number of handlers that raise
(`SessionAssumption`).

* `Session`: `Spec => []IInv`. `IInv` is the conjunction of `TypeOK`, `OneScan`,
  `OwnEvents`, `OneChain`, `NothingStranded` and `Rest`; the three in the middle are
  `QueuesServed`. `Rest` is what the others lack
  to be inductive: `OneScan` says of queued callbacks that they belong to the latest
  scan, which a start makes false unless the queue is empty between scans;
  `NothingStranded` needs that without faults the chain of polls exists for as long as
  a scan is in progress.
* `TypeCorrect`, `OneScanAtATime`, `QueuesAreServed`: its conjuncts, as theorems of `Spec`.
* `CancellationIsOwn`: `Spec => CancelIsOwn`. A thread is started by `Start` alone, which
  clears the event (`BeginStep`), and `Start` is impossible while a thread works.
* `GuardIsSound`: `Spec => GuardProtects`. A thread at work implies `scanning`, by
  `OneScan`; with the active run current, that is the condition on which purge and delete
  refuse.

The argument for callbacks (`CallbackStep`) is that the one which ends a scan is the last
in the queue, so that clearing the flag leaves nothing behind.

### Audit setup

`GuiTabsProofs` holds four theorems about `AuditSetup`, for a table of any length from two rows on, any clock
and any number of audits (`SetupAssumption`; groups that are loaded have up to two rows).

* `SetupInvariant`: `Spec => []IInv`. `TableInv` says that records, widgets and the history of what the operator set
  are as long as each other, and what is selected; `SettingInv` has license, profiles and
  the latest audit, and that a license which cannot be trusted grants what no license does (`Distrusted`); between
  them stands `RowsAsSet` itself.
* `RowsStayAsSet`: `Spec => []RowsAsSet`. The records alone are wrong most of the time, as the operator
  changes widgets; what is kept is that reading the widgets into the records gives the rows as they were
  set. Each handler is a question of how `Sync` commutes with it: reading twice
  is reading once (`SyncTwice`), a row that is added at the end disturbs no other (`SyncAppended`), the last row that is
  removed takes its own widgets with it (`SyncRemovedLast`), and a profile that is deleted is
  replaced in records and widgets (`SyncRewritten`). Removing another row is where it fails, in the code as
  in the model: `disturbed`.
* `AuditsStartRightly`: `Spec => AuditsRightly`. A start reloads the license (`LoadValid`), so what it permits is what
  the file says (`Permitted`); the targets of an audit of checked rows are a function of the rows read
  (`UniqueDevices`), which are those that were set (`TableRead`, `AsAsked`).
* `SetupTyped`: `Spec => []TypeOK`.

### Evidence page

`GuiTabsProofs` holds two theorems about `EvidenceView`, for all lists of artifacts and any number of
commands (`ViewAssumption`): `PageInvariant`, that the inductive invariant `PageInv` holds, and
`SelectedIsDisplayed`, `PageSpec => []ShownIsSelected`. `ShownIsSelected` is not inductive: an answer
that waits may not be the selected row's. `Asked` says that no number is from the future, so
that a load is a question nobody answers yet (`LoadStep`), and `ToThePoint` that answers to the latest
one are the selected row's.

### Evidence store

`EvidenceStoreProofs` holds five theorems for all callers, devices, directory names and
numbers of calls and failures (`StoreAssumption`; "nobody" is neither a caller nor a device).

* `StoreInvariant`: `Spec => []IInv`. `OwnCalls` says that a call stores at most one file and that
  no two threads work on one call, `Underway` what a write that is under way finds of its own
  earlier steps, `NothingWithoutBundle` that a deleted or purged directory lists nothing, and
  `Discipline` what the callers' discipline comes to for a thread that is waiting.
* `EvidenceKept`: `Spec => [](ListedVerifies /\ ReturnedIsRecorded)`, without any discipline.
* `BundleTrusted`: `Spec => [](Disciplined => BundleVerifies)`, with the manifest and fresh paths. That
  `write_evidence` always finds a free number is `NumberIsFree`: there are as many
  numbers as calls, and this call has stored nothing.
* `SealKept`: under the discipline, `Spec => SealedForGood`.
* `StoreTypes`: `Spec => []TypeOK`.

Without the discipline `BundleVerifies` is false, as `EvidenceStoreRace` shows: hence the condition.

### Run lifecycle

`RunLifecycleProofs` holds five theorems for any number of devices, steps that raise and aborts,
with or without deletion of an active run (`LifecycleAssumption`).

* `LifecycleInvariant`: `Spec => []IInv`. One conjunct per phase of the owner (`Starting`, `Begun`,
  `Persisted`, `Aborted`), one for the workers, and one for a deletion. `Persisted` says
  how far results are in the database and the bundle at each step, so that a manifest
  that reports success is `Backed`; `Aborted` that an abort which does not close the run has cost a
  fault: it counts aborts against `faults`.
* `SealedLast`: `Spec => [](ManifestLast /\ RowsBacked)`, however many steps raise.
* `RunClosed`: `Spec => [](Tolerated => ClosedAndSealed)`, where `Tolerated` is at most one step that
  raised, and an abort to spare for it; deleting the files of an active run uses up one
  (`Slack`). Both limits are those of the code. With two faults the cleanup of `begin_run` can
  raise as well and leave the bundle; and a live scan, which aborts once, leaves
  a run RUNNING until its record is removed when its files are deleted and one step of
  the abort raises.
* `FinalStays`: `Spec => FinalIsFinal`, without any limit.
* `LifecycleTypes`: `Spec => []TypeOK`.

### Audit packages

`AuditPackageProofs` holds five theorems for all devices, commands and bundles, and any number of
steps that raise (`PackageAssumption`).

* `PackageInvariant`: `Spec => []IInv`. `Dense` describes the ids SQLite gives (the run's rows have
  the ids after the other run's, one each; this takes a lemma on cardinalities), `Packed` what
  an archive can hold, `Stage` what each step of the import finds, and `Loop` how far the loops over
  devices and artifacts are: a device that was done is as it was sent, one still left
  has nothing, and the id map of the present one is exactly its rows.
* `ImportedAsSent`: `Spec => []FoundAsSent`.
* `ImportsVerified`: `Spec => OnlyVerified`, the safety half of `IntactAndOnlyIntact`.
* `ImportAtomic`: `Spec => ImportIsAtomic`: each step of import, cleanup and deletion maps to `Begin`,
  `End` or a stutter of `AtomicChange`.
* `PackageTypes`: `Spec => []TypeOK`.

### Backup and restore

`BackupRestoreProofs` holds four theorems for any number of data directories, values, and steps that
raise (`BackupAssumption`; the values include the 2 that data starts with).

* `BackupInvariant`: `Spec => []IInv`. `Safe` says that, while no scan writes, data is in its place until
  the safety backup has all that the archive will replace (`Covered`: an archive without
  evidence has none); `Swap` how far the exchange is, place by place, and that what is replaced has been
  set aside; `Schemas` that what a database lacks its version tells, so that each step of
  a migration can be the first after an interruption.
* `DataSurvives`: `Spec => []DataIsWhole`.
* `RestoreAtomic`: `Spec => RestoreIsAtomic`. A restore ends at a rejected archive, a failed safety
  backup, a completed exchange, or a completed rollback; in each the invariant
  determines what is to be seen (`SeenBefore`, `SeenAfter`). After a mishap every step is a stutter.
* `BackupTypes`: `Spec => []TypeOK`: above all, no database is newer than the program.

### STIG library

`StigProofs` holds five theorems about `StigLibrary`, for all packages and contents of the check file, and
any number of releases and edits. `PackagesAssumption` says that a digest is that of one package and no
fingerprint is empty, `EditsAssumption` that a file has one check per vulnerability, which the
program enforces when it loads one (`CheckLibrary.vuln_ids_must_be_unique`).

* `LibraryInvariant`: `LibrarySpec => []LibraryInv`: the library as a package of releases that only grows
  (`Sound`), the diff on display (`Shown`), mapping rows with their origin (`RowsOK`), what the check files
  can hold (`Checks`), and `GeneratedLoads`. Imports are functions on a record of cache, library and
  history; `StoredKeeps` and `InstallKeeps` say that one only extends the library.
* `ImportsKept`, `ReviewsEarned`, `StartersLoad`, `LibraryTypes`: `ImportedIsKept`, `ReviewIsEarned`,
  `GeneratedLoads` and `TypeOK`. The second is about the mappings after a synchronisation,
  so `SyncKeeps` shows that of any release.

### Checks

`PassesAreEarned` and `OpenFindingsAreTrue` of `StigProofs` are the two properties of `CheckSoundness`: `Spec => []PassIsEarned`
and `Spec => []OpenIsTrue`, for every width of an address (`BitsAssumption`) and every number of VLANs (`VlanAssumption`). Each
action of the model evaluates one case, so the two are kept by any step (`ChecksJudged`), with a
lemma per action. What a verdict is worth does not depend on the size of the cases, and is proved
without them:

* `RootGuardIsTrue`: for any neighbors, names and port channels, a pass means that every interface to a switch that is
  no upstream switch is guarded, and an Open result that one is not.
* `RadiusIsTrue`: a pass means two servers that differ, in the group, defined as the profile says. The code counts
  names; that two of them are different servers is a fact about cardinalities.
* `VtyIsTrue`: a pass means that no line has too high a limit, or that there are few lines. Lines are counted over ranges
  that may overlap; a range that is turned around fails. An Open result is true where limits are set everywhere or
  nowhere; the mixed case is Open in the code although each line may be within bounds.
* `NtpIsTrue`: a pass means authentication with a trusted key of an approved algorithm for each server. An Open result is true
  where a server has one line; of several, the code looks at the first that has a key.
* `BannerIsTrue`: a pass means a banner that stands from its header to its delimiter with every clause. The scan of the text
  is `BannersFrom`; the least end of a header's body is found with `LeastOf`.
* `ManagementIsTrue`: a pass means that the list admits no address outside the networks, for addresses of any width and
  any order of the statements. The code compares masks as numbers, `Strict` and `Hostmask` as sets of bits; that
  a statement whose source lies within a network admits its addresses only is reasoning about sets.
* `ErrorsSurvive`, `PlansSuffice`: lacking output stays an error unless an exception excuses the whole check; a plan has what
  its checks need, and of the registry only.

The other evaluators (trunks, DHCP snooping, patterns, interfaces, access-list logging) judge a set of objects by a condition, and a
lemma on `Judge` is all they need.

### Releases

`ReleaseDiffsAreComplete`, `Spec => []DiffsComplete`, follows from four theorems about any two releases.

* `DiffIsComplete`: every rule of either release is in exactly one item. A pass over an identifier takes pairs out of what is
  left (`PassMatches`): what it pairs shares a value, a rule is in one pair (`Once`, `SettledOnce`), and
  what it leaves though it shares a value is marked ambiguous. Three passes after each other keep
  that (`MatchingMatches`).
* `DiffIsMirrored`: the passes are symmetric (`PassMirrors`), so the diff the other way round is the mirror image.
* `ChangesAreComplete`: the older comparator accounts for every rule, too. Its lists are counted through a
  correspondence of pairs with rules (`SameCount`, `AddsUp`).
* `ChangedTextIsReviewed`: a check that is mapped to a rule that is new, or whose text changed, is put to review or the item called ambiguous,
  for any set of local checks.

### Runs, checklists and reports

`ComparisonsAreFair`, `Spec => []RunsComparedFairly`, and `RecordsStayAgreed`, `Spec => []RecordsAgree`, rest on

* `RunsAreFair`: for any two runs and fingerprints, an Open finding is never hidden; what is resolved was open and passed under one
  rule, and is new the other way round. `ClassifiedExactly` says for any two statuses which findings are new, resolved and
  persistent; with it the summary is `SummaryDue`, which reads the counts off the two runs without the comparison's chain of conditions.
* `ChecklistsAreComplete`: for any templates, every result of a selected family is written to one checklist, as what it is, or
  reported there as unmatched. `JobsOf` shows that the jobs share no family and have all of them, whether
  templates are separate or combined. Its assumption, that families share no vulnerability, is that of DISA's ids; where
  two families had one, one of the two results would be lost in a combined checklist.
* `CountsAddUp`: the counts by status sum to the number of results, for any results, and in `ResultsCounted` those of the
  devices to the run's (`Split`).
* `ComplianceIsFair`: the compliance figure is a percentage for any counts, and 100 with a finding open only from
  200 scored checks on, where rounding half to even can reach it (`Share`).

### Only model-checked

* `ParsersFaithful`. What the parsers compute is defined by folds over
  lines, and what a fold returns for every input needs an induction that the installed provers
  cannot instantiate (the library's theorems take an operator as a parameter).
* All liveness: `Termination`, `Finishes`, `Responsive`, `SelectedIsShown`, and the liveness half of
  `IntactAndOnlyIntact`. It is out of the provers' reach.
* The configurations of section 4 that end with a counterexample, of course.

## 6. Not modelled

* Regular expressions, XML, zip, spreadsheet and report formats: transformations of
  texts. The evaluators and parsers are modelled over classified lines, so that a pattern which
  recognises the wrong line is out of their reach. `ContainsPolicy` stands for checks for a text and for a
  regular expression alike; of the conditions on an object's fields `contains` and `regex` are left out.
* Cryptography of the license and its canonical form, and the tools around them.
* Looking up packages on a web page; a download is a package that arrives or does not.
* The SSH session itself: Netmiko. Its effect on a device's outcome is in
  `ScanOrchestrator`.
* Layout of the GUI; dialogs that only call a service; queries for the history view; the
  editors of checks and profiles.
* `BackupService.restore` (into an empty directory), which only tests use, and
  `classify_automation`, which no module imports.
* A crash in the middle of a SQLite transaction or of an atomic replace: both are
  taken as atomic.
* Retrying a transaction, and a start-up pass that closes runs left RUNNING by a crash:
  the code has none.
* The steps of a sample run, which holds the Tk thread from start to end: for the
  session it is one step, `AddRun` of `GuiSession`.
* Check fixtures, error texts, support bundle, scripts.

## 7. Plan

1. *(done)* `ScanContract`, `ScanOrchestrator`, proofs of type, bound and refinement.
2. *(done)* `EvidenceStore`, `RunLifecycle`, `GuiSession`, proofs of the window's
   safety properties.
3. *(done)* `AtomicChange`, `AuditPackage`, `BackupRestore`.
4. *(done)* `AuditSetup`, `StigLibrary`.
5. *(done)* `CheckEngine`, `IosxeParsers`, `StigMatching` with their cases.
6. *(done)* `EvidenceView`.
7. *(done)* Proofs of the store, the lifecycle, packages, backup and the library, and of
   the orchestrator's feed.
8. *(done)* Proofs of the setup, of the evaluators, comparisons, checklists and reports.
9. The worker's command loop with its cancellation between commands, as a refinement of the
   stages in `ScanOrchestrator`.
